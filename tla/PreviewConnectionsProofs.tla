----------------------- MODULE PreviewConnectionsProofs ----------------------
(***************************************************************************)
(* What the manager and the gateway promise of a connection to an         *)
(* application, for any clients, ports, runtimes, and limits: first, of    *)
(* the tokens and the ports (PreviewPorts); then, of the streams that      *)
(* carry the connection's bytes (PreviewStreams).                          *)
(***************************************************************************)
EXTENDS PreviewPortsProperties, PreviewStreamsProperties,
        SequenceTheorems, FiniteSetTheorems, FunctionTheorems, TLAPS

USE DEF runVars, readerVars, portVars, loadVars, connVars
-----------------------------------------------------------------------------
(* The inductive invariant *)

Mappings ==
  [run : Nat, port : Ports, token : Nat \ {0}, available : BOOLEAN] \cup {None}

Frames == ({"ports"} \X SUBSET Ports) \cup ({"closed"} \X Conns)

Types ==
  /\ run \in Nat /\ issued \in Nat
  /\ stopped \in {"no", "asked", "stale", "limit"}
  /\ teardown \in {"none", "wait", "gather", "gone"}
  /\ reader \in {"read", "apply", "await", "gone"}
  /\ listeners \subseteq Ports /\ serving \subseteq Ports
  /\ mapping \in [Ports -> Mappings]
  /\ fromSup \in Seq(Frames)
  /\ tab \in [Conns -> Mappings] /\ entry \in [Conns -> Mappings]
  /\ conn \in [Conns -> {"new", "looked", "open", "told", "done"}]

\* A mapping is of its port and of the runtime that is there.
Current == \A p \in Ports : mapping[p] # None => mapping[p].run = run /\ mapping[p].port = p

\* A token that was issued for a link opens nothing else; what the gateway has
\* looked up is what the link was for.
Links ==
  /\ \A c \in Conns : tab[c] # None => tab[c].token \in 1..issued
  /\ \A c \in Conns, p \in Ports :
       tab[c] # None /\ mapping[p] # None /\ mapping[p].token = tab[c].token
         => mapping[p].run = tab[c].run /\ mapping[p].port = tab[c].port
  /\ \A c \in Conns : conn[c] \in {"looked", "open", "told"} =>
       entry[c].run = tab[c].run /\ entry[c].port = tab[c].port
  /\ \A c \in Open : entry[c].run = run

\* A teardown goes on in order.
Order ==
  /\ teardown # "none" => stopped # "no"
  /\ teardown \in {"gather", "gone"} => \A p \in Ports : mapping[p] = None
  /\ teardown = "gone" => Open = {} /\ listeners = {}

\* What is applied, and what is mapped, was counted.
Counted ==
  /\ target \subseteq known
  /\ \A p \in Ports : mapping[p] # None => p \in known
  /\ Cardinality(known) <= MaxPorts

IInv == Types /\ PortsTypeOK /\ Current /\ Links /\ Order /\ Counted /\ ShownIsServed
-----------------------------------------------------------------------------
(* Steps *)

\* A step is a step of one of these actions.
LEMMA StepCases ==
  ASSUME [Next]_vars
  PROVE  \/ ReadPorts \/ Withdraw \/ Applied \/ ReadClosed
         \/ \E p \in Ports : Drop(p) \/ Listen(p) \/ Change(p)
         \/ \E c \in Conns, p \in Ports : Login(c, p)
         \/ \E c \in Conns : LookUp(c) \/ Connect(c) \/ Sends(c) \/ Leaves(c) \/ Finish(c) \/ Closes(c)
         \/ ReportPorts \/ Stop \/ WatchStale \/ CloseServers \/ Disconnect \/ Kill \/ Create
         \/ UNCHANGED vars
  BY DEF Next, Reader

\* What is read from the pipe are frames.
LEMMA ReadFrameKeeps ==
  ASSUME Types, Reads
  PROVE  /\ Tail(fromSup) \in Seq(Frames)
         /\ Head(fromSup)[1] = "ports" => Head(fromSup)[2] \subseteq Ports
         /\ Head(fromSup)[1] = "closed" => Head(fromSup)[2] \in Conns
  <1>1. Head(fromSup) \in Frames /\ Tail(fromSup) \in Seq(Frames) BY DEF Types, Reads
  <1> QED BY <1>1 DEF Frames

\* A port that gets a server has a mapping of the runtime; it keeps its token,
\* or gets one that no other mapping and no link has.
LEMMA Listening ==
  ASSUME Types, Current, NEW p \in Ports, Listen(p)
  PROVE  \E m \in Mappings \ {None} :
           /\ mapping' = [mapping EXCEPT ![p] = m]
           /\ m.run = run /\ m.port = p /\ m.available
           /\ \/ mapping[p] # None /\ m.token = mapping[p].token /\ issued' = issued
              \/ mapping[p] = None /\ issued' = issued + 1 /\ m.token = issued'
  <1> DEFINE m == [run |-> run, port |-> p, available |-> TRUE,
                   token |-> IF mapping[p] = None THEN issued' ELSE mapping[p].token]
  <1>1. Mapped(p) BY DEF Listen
  <1>2. mapping' = [mapping EXCEPT ![p] = m] BY <1>1 DEF Mapped, Types
  <1>3. issued' = IF mapping[p] = None THEN issued + 1 ELSE issued BY <1>1 DEF Mapped
  <1>4. m.token \in Nat \ {0}
    <2>1. CASE mapping[p] = None BY <2>1, <1>3 DEF Types
    <2>2. CASE mapping[p] # None BY <2>2 DEF Types, Mappings
    <2> QED BY <2>1, <2>2
  <1>5. m \in Mappings BY <1>4 DEF Mappings, Types
  <1>6. m # None BY <1>4 DEF None
  <1>7. m.run = run /\ m.port = p /\ m.available
        /\ m.token = IF mapping[p] = None THEN issued' ELSE mapping[p].token OBVIOUS
  <1> HIDE DEF m
  <1> QED BY <1>2, <1>3, <1>5, <1>6, <1>7

\* Withdrawing changes nothing else of a mapping.
LEMMA Withdrawing ==
  ASSUME Types, PortsTypeOK, Withdraw
  PROVE  /\ closing \in Ports /\ mapping' \in [Ports -> Mappings]
         /\ \A p \in Ports :
              /\ mapping'[p] = None <=> mapping[p] = None
              /\ mapping'[p].run = mapping[p].run /\ mapping'[p].port = mapping[p].port
              /\ mapping'[p].token = mapping[p].token
              /\ mapping'[p].available => mapping[p].available /\ p # closing
  <1>1. closing \in Ports BY DEF Withdraw, PortsTypeOK
  <1>2. mapping' = [mapping EXCEPT ![closing].available = FALSE] BY DEF Withdraw
  <1>3. \A p \in Ports : p # closing => mapping'[p] = mapping[p] BY <1>1, <1>2 DEF Types
  <1>4. mapping'[closing] = [mapping[closing] EXCEPT !.available = FALSE] BY <1>1, <1>2 DEF Types
  <1>5. mapping[closing] \in Mappings BY <1>1 DEF Types
  <1>6. CASE mapping[closing] = None
    <2>1. [None EXCEPT !.available = FALSE] = None /\ None.available = FALSE
      <3>1. None.available = FALSE
            /\ None \in [run : Nat, port : {NoPort}, token : Nat, available : BOOLEAN]
        BY DEF None
      <3>2. \A r \in [run : Nat, port : {NoPort}, token : Nat, available : BOOLEAN] :
              r.available = FALSE => [r EXCEPT !.available = FALSE] = r
        OBVIOUS
      <3> QED BY <3>1, <3>2
    <2>2. mapping'[closing] = None BY <1>4, <1>6, <2>1
    <2>3. mapping' = [p \in Ports |-> mapping'[p]] BY <1>2 DEF Types
    <2>4. \A p \in Ports : mapping'[p] = mapping[p] BY <1>3, <1>6, <2>2
    <2> HIDE DEF None
    <2> QED BY <1>1, <1>6, <2>1, <2>3, <2>4 DEF Types
  <1>7. CASE mapping[closing] # None
    <2>1. mapping[closing] \in [run : Nat, port : Ports, token : Nat \ {0}, available : BOOLEAN]
      BY <1>5, <1>7 DEF Mappings
    <2>2. /\ mapping'[closing] \in [run : Nat, port : Ports, token : Nat \ {0}, available : BOOLEAN]
          /\ mapping'[closing].run = mapping[closing].run
          /\ mapping'[closing].port = mapping[closing].port
          /\ mapping'[closing].token = mapping[closing].token
          /\ mapping'[closing].available = FALSE
      BY <1>4, <2>1
    <2>3. mapping'[closing] # None BY <2>2 DEF None
    <2>4. mapping' = [p \in Ports |-> mapping'[p]] BY <1>2 DEF Types
    <2>5. \A p \in Ports : mapping'[p] \in Mappings BY <1>3, <2>2 DEF Types, Mappings
    <2> QED BY <1>1, <1>3, <1>7, <2>2, <2>3, <2>4, <2>5
  <1> QED BY <1>6, <1>7

\* Every step keeps the types.
LEMMA TypesStep ==
  ASSUME Types, PortsTypeOK, Current, [Next]_vars
  PROVE  Types'
  <1> USE DEF Types
  <1>1. CASE ReadPorts
    BY <1>1, ReadFrameKeeps DEF ReadPorts
  <1>2. ASSUME NEW p \in Ports, Drop(p) PROVE Types'
    BY <1>2 DEF Drop
  <1>3. CASE Withdraw
    BY <1>3, Withdrawing DEF Withdraw
  <1>4. ASSUME NEW p \in Ports, Listen(p) PROVE Types'
    <2>1. PICK m \in Mappings \ {None} :
            /\ mapping' = [mapping EXCEPT ![p] = m]
            /\ m.run = run /\ m.port = p /\ m.available
            /\ \/ mapping[p] # None /\ m.token = mapping[p].token /\ issued' = issued
               \/ mapping[p] = None /\ issued' = issued + 1 /\ m.token = issued'
      BY <1>4, Listening
    <2> QED BY <1>4, <2>1 DEF Listen
  <1>5. CASE Applied
    BY <1>5 DEF Applied
  <1>6. CASE ReadClosed
    BY <1>6, ReadFrameKeeps DEF ReadClosed
  <1>7. ASSUME NEW c \in Conns, NEW p \in Ports, Login(c, p) PROVE Types'
    BY <1>7 DEF Login
  <1>8. ASSUME NEW c \in Conns, LookUp(c) PROVE Types'
    BY <1>8 DEF LookUp, Mappings
  <1>9. ASSUME NEW c \in Conns, Connect(c) PROVE Types'
    BY <1>9 DEF Connect
  <1>10. ASSUME NEW c \in Conns, Sends(c) PROVE Types'
    BY <1>10 DEF Sends
  <1>11. ASSUME NEW c \in Conns, Leaves(c) PROVE Types'
    BY <1>11 DEF Leaves
  <1>12. ASSUME NEW c \in Conns, Finish(c) PROVE Types'
    BY <1>12 DEF Finish
  <1>13. ASSUME NEW c \in Conns, Closes(c) PROVE Types'
    BY <1>13 DEF Closes, Frames
  <1>14. ASSUME NEW p \in Ports, Change(p) PROVE Types'
    BY <1>14 DEF Change
  <1>15. CASE ReportPorts
    BY <1>15 DEF ReportPorts, Frames
  <1>16. CASE Stop
    BY <1>16 DEF Stop
  <1>17. CASE WatchStale
    BY <1>17 DEF WatchStale
  <1>18. CASE CloseServers
    BY <1>18 DEF CloseServers
  <1>19. CASE Disconnect
    BY <1>19 DEF Disconnect, Mappings
  <1>20. CASE Kill
    BY <1>20 DEF Kill
  <1>21. CASE Create
    BY <1>21 DEF Create
  <1>22. CASE UNCHANGED vars
    BY <1>22 DEF vars
  <1> QED
    BY <1>1, <1>2, <1>3, <1>4, <1>5, <1>6, <1>7, <1>8, <1>9, <1>10, <1>11, <1>12,
       <1>13, <1>14, <1>15, <1>16, <1>17, <1>18, <1>19, <1>20, <1>21, <1>22,
       StepCases

\* Every step keeps the order of a teardown.
LEMMA OrderStep ==
  ASSUME Types, Order, [Next]_vars
  PROVE  Order'
  <1> USE DEF Types, Order, Open
  <1>1. CASE ReadPorts
    BY <1>1, ReadFrameKeeps DEF ReadPorts
  <1>2. ASSUME NEW p \in Ports, Drop(p) PROVE Order'
    BY <1>2 DEF Drop
  <1>3. CASE Withdraw
    BY <1>3 DEF Withdraw
  <1>4. ASSUME NEW p \in Ports, Listen(p) PROVE Order'
    BY <1>4 DEF Listen
  <1>5. CASE Applied
    BY <1>5 DEF Applied
  <1>6. CASE ReadClosed
    BY <1>6, ReadFrameKeeps DEF ReadClosed
  <1>7. ASSUME NEW c \in Conns, NEW p \in Ports, Login(c, p) PROVE Order'
    BY <1>7 DEF Login
  <1>8. ASSUME NEW c \in Conns, LookUp(c) PROVE Order'
    BY <1>8 DEF LookUp
  <1>9. ASSUME NEW c \in Conns, Connect(c) PROVE Order'
    BY <1>9 DEF Connect
  <1>10. ASSUME NEW c \in Conns, Sends(c) PROVE Order'
    BY <1>10 DEF Sends
  <1>11. ASSUME NEW c \in Conns, Leaves(c) PROVE Order'
    BY <1>11 DEF Leaves
  <1>12. ASSUME NEW c \in Conns, Finish(c) PROVE Order'
    BY <1>12 DEF Finish
  <1>13. ASSUME NEW c \in Conns, Closes(c) PROVE Order'
    BY <1>13 DEF Closes
  <1>14. ASSUME NEW p \in Ports, Change(p) PROVE Order'
    BY <1>14 DEF Change
  <1>15. CASE ReportPorts
    BY <1>15 DEF ReportPorts
  <1>16. CASE Stop
    BY <1>16 DEF Stop
  <1>17. CASE WatchStale
    BY <1>17 DEF WatchStale
  <1>18. CASE CloseServers
    BY <1>18 DEF CloseServers
  <1>19. CASE Disconnect
    BY <1>19 DEF Disconnect
  <1>20. CASE Kill
    BY <1>20 DEF Kill
  <1>21. CASE Create
    BY <1>21 DEF Create
  <1>22. CASE UNCHANGED vars
    BY <1>22 DEF vars
  <1> QED
    BY <1>1, <1>2, <1>3, <1>4, <1>5, <1>6, <1>7, <1>8, <1>9, <1>10, <1>11, <1>12,
       <1>13, <1>14, <1>15, <1>16, <1>17, <1>18, <1>19, <1>20, <1>21, <1>22,
       StepCases

\* Every step keeps mappings current.
LEMMA CurrentStep ==
  ASSUME Types, PortsTypeOK, Current, Order, [Next]_vars
  PROVE  Current'
  <1> USE DEF Types, Current, Order
  <1>1. CASE ReadPorts
    BY <1>1 DEF ReadPorts
  <1>2. ASSUME NEW p \in Ports, Drop(p) PROVE Current'
    BY <1>2 DEF Drop
  <1>3. CASE Withdraw
    BY <1>3, Withdrawing DEF Withdraw
  <1>4. ASSUME NEW p \in Ports, Listen(p) PROVE Current'
    <2>1. PICK m \in Mappings \ {None} :
            /\ mapping' = [mapping EXCEPT ![p] = m]
            /\ m.run = run /\ m.port = p /\ m.available
            /\ \/ mapping[p] # None /\ m.token = mapping[p].token /\ issued' = issued
               \/ mapping[p] = None /\ issued' = issued + 1 /\ m.token = issued'
      BY <1>4, Listening
    <2> QED BY <1>4, <2>1 DEF Listen
  <1>5. CASE Applied
    BY <1>5 DEF Applied
  <1>6. CASE ReadClosed
    BY <1>6 DEF ReadClosed
  <1>7. ASSUME NEW c \in Conns, NEW p \in Ports, Login(c, p) PROVE Current'
    BY <1>7 DEF Login
  <1>8. ASSUME NEW c \in Conns, LookUp(c) PROVE Current'
    BY <1>8 DEF LookUp
  <1>9. ASSUME NEW c \in Conns, Connect(c) PROVE Current'
    BY <1>9 DEF Connect
  <1>10. ASSUME NEW c \in Conns, Sends(c) PROVE Current'
    BY <1>10 DEF Sends
  <1>11. ASSUME NEW c \in Conns, Leaves(c) PROVE Current'
    BY <1>11 DEF Leaves
  <1>12. ASSUME NEW c \in Conns, Finish(c) PROVE Current'
    BY <1>12 DEF Finish
  <1>13. ASSUME NEW c \in Conns, Closes(c) PROVE Current'
    BY <1>13 DEF Closes
  <1>14. ASSUME NEW p \in Ports, Change(p) PROVE Current'
    BY <1>14 DEF Change
  <1>15. CASE ReportPorts
    BY <1>15 DEF ReportPorts
  <1>16. CASE Stop
    BY <1>16 DEF Stop
  <1>17. CASE WatchStale
    BY <1>17 DEF WatchStale
  <1>18. CASE CloseServers
    BY <1>18 DEF CloseServers
  <1>19. CASE Disconnect
    BY <1>19 DEF Disconnect
  <1>20. CASE Kill
    BY <1>20 DEF Kill
  <1>21. CASE Create
    BY <1>21 DEF Create
  <1>22. CASE UNCHANGED vars
    BY <1>22 DEF vars
  <1> QED
    BY <1>1, <1>2, <1>3, <1>4, <1>5, <1>6, <1>7, <1>8, <1>9, <1>10, <1>11, <1>12,
       <1>13, <1>14, <1>15, <1>16, <1>17, <1>18, <1>19, <1>20, <1>21, <1>22,
       StepCases

\* Every step keeps links apart.
LEMMA LinksStep ==
  ASSUME Types, PortsTypeOK, Current, Links, Order, [Next]_vars
  PROVE  Links'
  <1> USE DEF Types, PortsTypeOK, Current, Links, Order, Open
  <1>1. CASE ReadPorts
    BY <1>1 DEF ReadPorts
  <1>2. ASSUME NEW p \in Ports, Drop(p) PROVE Links'
    BY <1>2 DEF Drop
  <1>3. CASE Withdraw
    BY <1>3, Withdrawing DEF Withdraw
  <1>4. ASSUME NEW p \in Ports, Listen(p) PROVE Links'
    <2>1. PICK m \in Mappings \ {None} :
            /\ mapping' = [mapping EXCEPT ![p] = m]
            /\ m.run = run /\ m.port = p /\ m.available
            /\ \/ mapping[p] # None /\ m.token = mapping[p].token /\ issued' = issued
               \/ mapping[p] = None /\ issued' = issued + 1 /\ m.token = issued'
      BY <1>4, Listening
    <2> QED BY <1>4, <2>1 DEF Listen
  <1>5. CASE Applied
    BY <1>5 DEF Applied
  <1>6. CASE ReadClosed
    BY <1>6, ReadFrameKeeps DEF ReadClosed
  <1>7. ASSUME NEW c \in Conns, NEW p \in Ports, Login(c, p) PROVE Links'
    BY <1>7 DEF Login
  <1>8. ASSUME NEW c \in Conns, LookUp(c) PROVE Links'
    <2>1. tab[c] # None /\ tab[c] \in Mappings /\ Authorized(c) BY <1>8 DEF LookUp
    <2>2. tab[c].port \in Ports BY <2>1 DEF Mappings
    <2>3. mapping[tab[c].port] # None BY <2>1, <2>2 DEF Authorized, None
    <2>4. mapping[tab[c].port].run = tab[c].run /\ mapping[tab[c].port].port = tab[c].port
      BY <2>1, <2>2, <2>3 DEF Authorized
    <2> QED BY <1>8, <2>4 DEF LookUp
  <1>9. ASSUME NEW c \in Conns, Connect(c) PROVE Links'
    BY <1>9 DEF Connect, Reachable
  <1>10. ASSUME NEW c \in Conns, Sends(c) PROVE Links'
    BY <1>10 DEF Sends
  <1>11. ASSUME NEW c \in Conns, Leaves(c) PROVE Links'
    BY <1>11 DEF Leaves
  <1>12. ASSUME NEW c \in Conns, Finish(c) PROVE Links'
    BY <1>12 DEF Finish
  <1>13. ASSUME NEW c \in Conns, Closes(c) PROVE Links'
    BY <1>13 DEF Closes
  <1>14. ASSUME NEW p \in Ports, Change(p) PROVE Links'
    BY <1>14 DEF Change
  <1>15. CASE ReportPorts
    BY <1>15 DEF ReportPorts
  <1>16. CASE Stop
    BY <1>16 DEF Stop
  <1>17. CASE WatchStale
    BY <1>17 DEF WatchStale
  <1>18. CASE CloseServers
    BY <1>18 DEF CloseServers
  <1>19. CASE Disconnect
    BY <1>19 DEF Disconnect
  <1>20. CASE Kill
    BY <1>20 DEF Kill
  <1>21. CASE Create
    BY <1>21 DEF Create
  <1>22. CASE UNCHANGED vars
    BY <1>22 DEF vars
  <1> QED
    BY <1>1, <1>2, <1>3, <1>4, <1>5, <1>6, <1>7, <1>8, <1>9, <1>10, <1>11, <1>12,
       <1>13, <1>14, <1>15, <1>16, <1>17, <1>18, <1>19, <1>20, <1>21, <1>22,
       StepCases

\* Every step keeps PortsTypeOK.
LEMMA PortsTypeStep ==
  ASSUME Types, PortsTypeOK, Current, Order, Counted, [Next]_vars
  PROVE  PortsTypeOK'
  <1> USE DEF Types, PortsTypeOK, Order, Counted
  <1>1. CASE ReadPorts
    <2>1. CASE TooMany(Head(fromSup)[2]) BY <1>1, <2>1 DEF ReadPorts, Reads
    <2>2. CASE ~TooMany(Head(fromSup)[2]) BY <1>1, <2>2, ReadFrameKeeps DEF ReadPorts, Reads
    <2> QED BY <2>1, <2>2
  <1>2. ASSUME NEW p \in Ports, Drop(p) PROVE PortsTypeOK'
    BY <1>2, PortsAssumption DEF Drop
  <1>3. CASE Withdraw
    BY <1>3, Withdrawing DEF Withdraw
  <1>4. ASSUME NEW p \in Ports, Listen(p) PROVE PortsTypeOK'
    <2>1. PICK m \in Mappings \ {None} :
            /\ mapping' = [mapping EXCEPT ![p] = m]
            /\ \/ mapping[p] # None /\ m.token = mapping[p].token /\ issued' = issued
               \/ mapping[p] = None /\ issued' = issued + 1 /\ m.token = issued'
      BY <1>4, Listening
    <2>2. /\ listeners' = listeners \cup {p} /\ p \in target
          /\ UNCHANGED <<known, target, closing, reader>>
      BY <1>4 DEF Listen
    <2>3. /\ \A q \in Ports \ {p} : mapping'[q] = mapping[q]
          /\ mapping'[p] = m
      BY <2>1
    <2>4. m.token \in 1..issued' /\ (issued' = issued \/ issued' = issued + 1) BY <2>1
    <2>5. \A q \in Ports \ {p} : mapping[q] # None => mapping[q].token # m.token
      BY <2>1
    <2>6. \A q \in Ports : mapping'[q] = None \/ mapping'[q].token \in 1..issued'
      BY <2>3, <2>4
    <2>7. \A q, r \in Ports :
            mapping'[q].token = mapping'[r].token /\ mapping'[q] # None => q = r
      <3> SUFFICES ASSUME NEW q \in Ports, NEW r \in Ports, q # r, mapping'[q] # None
                   PROVE  mapping'[q].token # mapping'[r].token
        OBVIOUS
      <3>1. mapping'[q].token # 0 BY <2>6
      <3>2. CASE mapping'[r] = None BY <3>1, <3>2 DEF None
      <3>3. CASE mapping'[r] # None /\ (q = p \/ r = p) BY <3>3, <2>3, <2>5
      <3>4. CASE q # p /\ r # p BY <3>4, <2>3
      <3> QED BY <3>2, <3>3, <3>4
    <2> QED BY <2>2, <2>6, <2>7
  <1>5. CASE Applied
    BY <1>5 DEF Applied
  <1>6. CASE ReadClosed
    BY <1>6, ReadFrameKeeps DEF ReadClosed
  <1>7. ASSUME NEW c \in Conns, NEW p \in Ports, Login(c, p) PROVE PortsTypeOK'
    BY <1>7 DEF Login
  <1>8. ASSUME NEW c \in Conns, LookUp(c) PROVE PortsTypeOK'
    BY <1>8 DEF LookUp
  <1>9. ASSUME NEW c \in Conns, Connect(c) PROVE PortsTypeOK'
    BY <1>9 DEF Connect
  <1>10. ASSUME NEW c \in Conns, Sends(c) PROVE PortsTypeOK'
    BY <1>10 DEF Sends
  <1>11. ASSUME NEW c \in Conns, Leaves(c) PROVE PortsTypeOK'
    BY <1>11 DEF Leaves
  <1>12. ASSUME NEW c \in Conns, Finish(c) PROVE PortsTypeOK'
    BY <1>12 DEF Finish
  <1>13. ASSUME NEW c \in Conns, Closes(c) PROVE PortsTypeOK'
    BY <1>13 DEF Closes
  <1>14. ASSUME NEW p \in Ports, Change(p) PROVE PortsTypeOK'
    BY <1>14 DEF Change
  <1>15. CASE ReportPorts
    BY <1>15 DEF ReportPorts
  <1>16. CASE Stop
    BY <1>16 DEF Stop
  <1>17. CASE WatchStale
    BY <1>17 DEF WatchStale
  <1>18. CASE CloseServers
    BY <1>18, PortsAssumption DEF CloseServers
  <1>19. CASE Disconnect
    BY <1>19 DEF Disconnect
  <1>20. CASE Kill
    BY <1>20 DEF Kill
  <1>21. CASE Create
    BY <1>21, PortsAssumption DEF Create
  <1>22. CASE UNCHANGED vars
    BY <1>22 DEF vars
  <1> QED
    BY <1>1, <1>2, <1>3, <1>4, <1>5, <1>6, <1>7, <1>8, <1>9, <1>10, <1>11, <1>12,
       <1>13, <1>14, <1>15, <1>16, <1>17, <1>18, <1>19, <1>20, <1>21, <1>22,
       StepCases

\* Every step keeps ShownIsServed.
LEMMA ShownStep ==
  ASSUME Types, PortsTypeOK, Order, ShownIsServed, Current, [Next]_vars
  PROVE  ShownIsServed'
  <1> USE DEF Types, PortsTypeOK, Order, ShownIsServed
  <1>1. CASE ReadPorts
    BY <1>1, ReadFrameKeeps DEF ReadPorts
  <1>2. ASSUME NEW p \in Ports, Drop(p) PROVE ShownIsServed'
    BY <1>2, PortsAssumption DEF Drop
  <1>3. CASE Withdraw
    BY <1>3, Withdrawing DEF Withdraw
  <1>4. ASSUME NEW p \in Ports, Listen(p) PROVE ShownIsServed'
    <2>1. PICK m \in Mappings \ {None} :
            /\ mapping' = [mapping EXCEPT ![p] = m]
            /\ m.run = run /\ m.port = p /\ m.available
            /\ \/ mapping[p] # None /\ m.token = mapping[p].token /\ issued' = issued
               \/ mapping[p] = None /\ issued' = issued + 1 /\ m.token = issued'
      BY <1>4, Listening
    <2> QED BY <1>4, <2>1 DEF Listen
  <1>5. CASE Applied
    BY <1>5 DEF Applied
  <1>6. CASE ReadClosed
    BY <1>6, ReadFrameKeeps DEF ReadClosed
  <1>7. ASSUME NEW c \in Conns, NEW p \in Ports, Login(c, p) PROVE ShownIsServed'
    BY <1>7 DEF Login
  <1>8. ASSUME NEW c \in Conns, LookUp(c) PROVE ShownIsServed'
    BY <1>8 DEF LookUp
  <1>9. ASSUME NEW c \in Conns, Connect(c) PROVE ShownIsServed'
    BY <1>9 DEF Connect
  <1>10. ASSUME NEW c \in Conns, Sends(c) PROVE ShownIsServed'
    BY <1>10 DEF Sends
  <1>11. ASSUME NEW c \in Conns, Leaves(c) PROVE ShownIsServed'
    BY <1>11 DEF Leaves
  <1>12. ASSUME NEW c \in Conns, Finish(c) PROVE ShownIsServed'
    BY <1>12 DEF Finish
  <1>13. ASSUME NEW c \in Conns, Closes(c) PROVE ShownIsServed'
    BY <1>13 DEF Closes
  <1>14. ASSUME NEW p \in Ports, Change(p) PROVE ShownIsServed'
    BY <1>14 DEF Change
  <1>15. CASE ReportPorts
    BY <1>15 DEF ReportPorts
  <1>16. CASE Stop
    BY <1>16 DEF Stop
  <1>17. CASE WatchStale
    BY <1>17 DEF WatchStale
  <1>18. CASE CloseServers
    BY <1>18 DEF CloseServers
  <1>19. CASE Disconnect
    BY <1>19 DEF Disconnect
  <1>20. CASE Kill
    BY <1>20 DEF Kill
  <1>21. CASE Create
    BY <1>21 DEF Create, None
  <1>22. CASE UNCHANGED vars
    BY <1>22 DEF vars
  <1> QED
    BY <1>1, <1>2, <1>3, <1>4, <1>5, <1>6, <1>7, <1>8, <1>9, <1>10, <1>11, <1>12,
       <1>13, <1>14, <1>15, <1>16, <1>17, <1>18, <1>19, <1>20, <1>21, <1>22,
       StepCases

\* Every step keeps what is counted.
LEMMA CountedStep ==
  ASSUME Types, PortsTypeOK, Current, Order, Counted, [Next]_vars
  PROVE  Counted'
  <1> USE DEF Types, PortsTypeOK, Order, Counted
  <1>1. CASE ReadPorts
    <2>1. CASE TooMany(Head(fromSup)[2]) BY <1>1, <2>1 DEF ReadPorts
    <2>2. CASE ~TooMany(Head(fromSup)[2])
      <3>1. known' = known \cup target' /\ UNCHANGED mapping BY <1>1, <2>2 DEF ReadPorts
      <3>2. target' = Head(fromSup)[2] BY <1>1, <2>2 DEF ReadPorts
      <3>3. known' \subseteq Ports BY <3>1, <3>2, <1>1, ReadFrameKeeps DEF ReadPorts
      <3>4. Cardinality(known') \in Nat BY <3>3, PortsAssumption, FS_Subset, FS_CardinalityType
      <3>5. Cardinality(known') <= MaxPorts
        BY <2>2, <3>1, <3>2, <3>4, PortsAssumption DEF TooMany
      <3> QED BY <3>1, <3>5
    <2> QED BY <2>1, <2>2
  <1>2. ASSUME NEW p \in Ports, Drop(p) PROVE Counted'
    BY <1>2 DEF Drop
  <1>3. CASE Withdraw
    BY <1>3, Withdrawing DEF Withdraw
  <1>4. ASSUME NEW p \in Ports, Listen(p) PROVE Counted'
    <2>1. PICK m \in Mappings \ {None} :
            /\ mapping' = [mapping EXCEPT ![p] = m]
            /\ m.run = run /\ m.port = p /\ m.available
            /\ \/ mapping[p] # None /\ m.token = mapping[p].token /\ issued' = issued
               \/ mapping[p] = None /\ issued' = issued + 1 /\ m.token = issued'
      BY <1>4, Listening
    <2> QED BY <1>4, <2>1 DEF Listen
  <1>5. CASE Applied
    BY <1>5 DEF Applied
  <1>6. CASE ReadClosed
    BY <1>6 DEF ReadClosed
  <1>7. ASSUME NEW c \in Conns, NEW p \in Ports, Login(c, p) PROVE Counted'
    BY <1>7 DEF Login
  <1>8. ASSUME NEW c \in Conns, LookUp(c) PROVE Counted'
    BY <1>8 DEF LookUp
  <1>9. ASSUME NEW c \in Conns, Connect(c) PROVE Counted'
    BY <1>9 DEF Connect
  <1>10. ASSUME NEW c \in Conns, Sends(c) PROVE Counted'
    BY <1>10 DEF Sends
  <1>11. ASSUME NEW c \in Conns, Leaves(c) PROVE Counted'
    BY <1>11 DEF Leaves
  <1>12. ASSUME NEW c \in Conns, Finish(c) PROVE Counted'
    BY <1>12 DEF Finish
  <1>13. ASSUME NEW c \in Conns, Closes(c) PROVE Counted'
    BY <1>13 DEF Closes
  <1>14. ASSUME NEW p \in Ports, Change(p) PROVE Counted'
    BY <1>14 DEF Change
  <1>15. CASE ReportPorts
    BY <1>15 DEF ReportPorts
  <1>16. CASE Stop
    BY <1>16 DEF Stop
  <1>17. CASE WatchStale
    BY <1>17 DEF WatchStale
  <1>18. CASE CloseServers
    BY <1>18 DEF CloseServers
  <1>19. CASE Disconnect
    BY <1>19 DEF Disconnect
  <1>20. CASE Kill
    BY <1>20 DEF Kill
  <1>21. CASE Create
    BY <1>21, FS_EmptySet, PortsAssumption DEF Create
  <1>22. CASE UNCHANGED vars
    BY <1>22 DEF vars
  <1> QED
    BY <1>1, <1>2, <1>3, <1>4, <1>5, <1>6, <1>7, <1>8, <1>9, <1>10, <1>11, <1>12,
       <1>13, <1>14, <1>15, <1>16, <1>17, <1>18, <1>19, <1>20, <1>21, <1>22,
       StepCases
-----------------------------------------------------------------------------
(* The theorems *)

\* The invariant holds at first, and of every step.
LEMMA InitOK == Init => IInv
  <1> SUFFICES ASSUME Init PROVE IInv OBVIOUS
  <1> USE PortsAssumption DEF Init
  <1>1. Types BY DEF Types, Mappings
  <1>2. PortsTypeOK /\ Current BY DEF PortsTypeOK, Current
  <1>3. Links /\ Order /\ ShownIsServed BY DEF Links, Order, Open, ShownIsServed, None
  <1>4. Counted BY FS_EmptySet DEF Counted
  <1> QED BY <1>1, <1>2, <1>3, <1>4 DEF IInv

LEMMA IInvStep == IInv /\ [Next]_vars => IInv'
  BY TypesStep, PortsTypeStep, CurrentStep, LinksStep, OrderStep, CountedStep, ShownStep DEF IInv

LEMMA Invariance == Spec => []IInv
  BY InitOK, IInvStep, PTL DEF Spec

\* The state has its types, and tokens are of one mapping.
THEOREM PortsTypes == Spec => []PortsTypeOK
  <1>1. IInv => PortsTypeOK BY DEF IInv
  <1> QED BY <1>1, Invariance, PTL

\* A connection is one to the runtime and port of the link its client opened
\* (handle compares the token, _ports issues a new one in each runtime).
THEOREM LinksAreKept == Spec => []ReachesWhatItOpened
  <1>1. IInv => ReachesWhatItOpened BY DEF IInv, Links, ReachesWhatItOpened, Open
  <1> QED BY <1>1, Invariance, PTL

\* A runtime that is gone has left nothing (_stop_runtime awaits connections).
THEOREM GoneCloses == Spec => []GoneIsClosed
  <1>1. IInv => GoneIsClosed BY DEF IInv, Order, GoneIsClosed
  <1> QED BY <1>1, Invariance, PTL

\* What the directory shows has a server (_ports closes one before it withdraws
\* its mapping, and makes one before it shows it).
THEOREM ShownHasServer == Spec => []ShownIsServed
  <1>1. IInv => ShownIsServed BY DEF IInv
  <1> QED BY <1>1, Invariance, PTL

\* A runtime has at most max_ports mappings: known_ports is never pruned.
THEOREM PortLimit == Spec => []MappingsBounded
  <1>1. IInv => MappingsBounded
    <2> SUFFICES ASSUME IInv PROVE MappingsBounded OBVIOUS
    <2> DEFINE M == {p \in Ports : mapping[p] # None}
    <2>1. M \subseteq known /\ known \subseteq Ports BY DEF IInv, Counted, PortsTypeOK
    <2>2. IsFiniteSet(known) BY <2>1, PortsAssumption, FS_Subset
    <2>3. Cardinality(M) <= Cardinality(known) BY <2>1, <2>2, FS_Subset
    <2>4. Cardinality(M) \in Nat /\ Cardinality(known) \in Nat
      BY <2>1, <2>2, FS_Subset, FS_CardinalityType
    <2> QED BY <2>3, <2>4, PortsAssumption DEF IInv, Counted, MappingsBounded
  <1> QED BY <1>1, Invariance, PTL

\* A server that is restarted keeps its token, as long as the mapping is there.
THEOREM TokensStay == Spec => TokenOfRuntime
  <1>1. IInv /\ [Next]_vars =>
          [\A p \in Ports : mapping[p] # None /\ mapping'[p] # None =>
             mapping'[p].token = mapping[p].token]_vars
    <2> SUFFICES ASSUME IInv, [Next]_vars
                 PROVE  \A p \in Ports : mapping[p] # None /\ mapping'[p] # None =>
                          mapping'[p].token = mapping[p].token
      OBVIOUS
    <2> USE DEF IInv
    <2>1. ASSUME NEW p \in Ports, Listen(p)
          PROVE  \A q \in Ports : mapping[q] # None /\ mapping'[q] # None =>
                   mapping'[q].token = mapping[q].token
      BY <2>1, Listening DEF Types
    <2>2. CASE Withdraw BY <2>2, Withdrawing
    <2>3. CASE Disconnect BY <2>3 DEF Disconnect
    <2>4. CASE UNCHANGED mapping BY <2>4
    <2> QED
      BY <2>1, <2>2, <2>3, <2>4, StepCases
         DEF ReadPorts, Drop, Applied, ReadClosed, Login, LookUp, Connect, Sends, Leaves, Finish,
             Closes, Change, ReportPorts, Stop, WatchStale, CloseServers, Kill, Create, vars
  <1> QED BY <1>1, Invariance, PTL DEF Spec, TokenOfRuntime
-----------------------------------------------------------------------------
HIDE DEF runVars, readerVars, portVars, loadVars, connVars

(* The streams *)

USE DEF taskVars, chanVars, pipeVars, supVars, dataVars, clientVars
-----------------------------------------------------------------------------
(* Counting *)

\* How often a frame is in a pipe.
Count(s, f) == Cardinality({i \in 1..Len(s) : s[i] = f})

\* The places where it is are finitely many.
LEMMA PlacesFinite ==
  ASSUME NEW n \in Nat, NEW places \in SUBSET (1..n)
  PROVE  IsFiniteSet(places) /\ Cardinality(places) \in Nat
  <1>1. IsFiniteSet(1..n) BY FS_Interval
  <1>2. IsFiniteSet(places) BY <1>1, FS_Subset
  <1> QED BY <1>2, FS_CardinalityType

\* A frame is counted when it is in.
LEMMA CountType ==
  ASSUME NEW S, NEW s \in Seq(S), NEW f
  PROVE  /\ Count(s, f) \in Nat
         /\ Count(s, f) = 0 <=> \A i \in 1..Len(s) : s[i] # f
  <1> DEFINE hits == {i \in 1..Len(s) : s[i] = f}
  <1>1. Len(s) \in Nat OBVIOUS
  <1>2. IsFiniteSet(hits) BY <1>1, PlacesFinite
  <1>3. Cardinality(hits) \in Nat BY <1>1, PlacesFinite
  <1>4. Cardinality(hits) = 0 <=> hits = {} BY <1>2, FS_EmptySet
  <1> QED BY <1>3, <1>4 DEF Count

\* What is appended is counted once.
LEMMA CountAppend ==
  ASSUME NEW S, NEW s \in Seq(S), NEW e \in S, NEW f
  PROVE  Count(Append(s, e), f) = Count(s, f) + (IF e = f THEN 1 ELSE 0)
  <1> DEFINE hits == {i \in 1..Len(s) : s[i] = f}
             new == {i \in 1..Len(Append(s, e)) : Append(s, e)[i] = f}
  <1>1. /\ Len(s) \in Nat /\ Len(Append(s, e)) = Len(s) + 1
        /\ \A i \in 1..Len(s) : Append(s, e)[i] = s[i]
        /\ Append(s, e)[Len(s) + 1] = e
    BY AppendProperties
  <1>2. IsFiniteSet(hits) /\ Cardinality(hits) \in Nat BY <1>1, PlacesFinite
  <1>3. new = IF e = f THEN hits \cup {Len(s) + 1} ELSE hits BY <1>1
  <1>4. Len(s) + 1 \notin hits BY <1>1
  <1>5. Cardinality(hits \cup {Len(s) + 1}) = Cardinality(hits) + 1 BY <1>2, <1>4, FS_AddElement
  <1> HIDE DEF hits, new
  <1>6. Cardinality(new) = Cardinality(hits) + (IF e = f THEN 1 ELSE 0) BY <1>2, <1>3, <1>5
  <1> QED BY <1>6 DEF Count, hits, new

\* What is taken from the front is not counted any more.
LEMMA CountTail ==
  ASSUME NEW S, NEW s \in Seq(S), s # <<>>, NEW f
  PROVE  Count(s, f) = Count(Tail(s), f) + (IF Head(s) = f THEN 1 ELSE 0)
  <1> DEFINE hits == {i \in 1..Len(s) : s[i] = f}
             rest == {i \in 1..Len(Tail(s)) : Tail(s)[i] = f}
             move == [i \in rest |-> i + 1]
  <1>1. /\ Len(s) \in Nat \ {0} /\ Len(Tail(s)) = Len(s) - 1 /\ Head(s) = s[1]
        /\ \A i \in 1..(Len(s) - 1) : Tail(s)[i] = s[i + 1]
    BY HeadTailProperties
  <1>2. IsFiniteSet(hits) /\ IsFiniteSet(rest) /\ Cardinality(hits) \in Nat
    <2>1. Len(s) - 1 \in Nat /\ rest \in SUBSET (1..(Len(s) - 1)) BY <1>1
    <2>2. hits \in SUBSET (1..Len(s)) OBVIOUS
    <2> QED BY <1>1, <2>1, <2>2, PlacesFinite
  <1>3. move \in Bijection(rest, hits \ {1})
    <2>1. move \in [rest -> hits \ {1}] BY <1>1
    <2>2. \A i, j \in rest : move[i] = move[j] => i = j BY <1>1
    <2>3. \A k \in hits \ {1} : \E i \in rest : move[i] = k
      <3> SUFFICES ASSUME NEW k \in hits \ {1} PROVE \E i \in rest : move[i] = k OBVIOUS
      <3>1. k - 1 \in rest /\ move[k - 1] = k BY <1>1
      <3> QED BY <3>1
    <2> QED BY <2>1, <2>2, <2>3, Fun_IsBij
  <1>4. ExistsBijection(rest, hits \ {1}) BY <1>3 DEF ExistsBijection
  <1>5. 1 \in hits <=> Head(s) = f BY <1>1
  <1> HIDE DEF hits, rest, move
  <1>6. Cardinality(hits \ {1}) = Cardinality(rest) BY <1>2, <1>4, FS_Bijection
  <1>7. Cardinality(hits \ {1}) = IF 1 \in hits THEN Cardinality(hits) - 1 ELSE Cardinality(hits)
    BY <1>2, FS_RemoveElement
  <1>8. Cardinality(hits) = Cardinality(rest) + (IF Head(s) = f THEN 1 ELSE 0)
    BY <1>2, <1>5, <1>6, <1>7
  <1> QED BY <1>8 DEF Count, hits, rest

\* What is in two parts is counted in each.
LEMMA CountConcat ==
  ASSUME NEW S, NEW s \in Seq(S), NEW t \in Seq(S), NEW f
  PROVE  Count(s \o t, f) = Count(s, f) + Count(t, f)
  <1> DEFINE a == {i \in 1..Len(s) : s[i] = f}
             b == {i \in 1..Len(t) : t[i] = f}
             c == {i \in 1..Len(s \o t) : (s \o t)[i] = f}
             late == c \ a
             move == [i \in b |-> i + Len(s)]
  <1>1. /\ Len(s) \in Nat /\ Len(t) \in Nat /\ Len(s \o t) = Len(s) + Len(t)
        /\ \A i \in 1..(Len(s) + Len(t)) : (s \o t)[i] = IF i <= Len(s) THEN s[i] ELSE t[i - Len(s)]
    BY ConcatProperties
  <1>2. IsFiniteSet(a) /\ IsFiniteSet(b) /\ IsFiniteSet(c) /\ Cardinality(a) \in Nat
    <2>1. a \in SUBSET (1..Len(s)) /\ b \in SUBSET (1..Len(t)) OBVIOUS
    <2>2. c \in SUBSET (1..(Len(s) + Len(t))) /\ Len(s) + Len(t) \in Nat BY <1>1
    <2> QED BY <1>1, <2>1, <2>2, PlacesFinite
  <1>3. a \subseteq c BY <1>1
  <1>4. late = {i \in 1..Len(s \o t) : i > Len(s) /\ t[i - Len(s)] = f} BY <1>1
  <1>5. move \in Bijection(b, late)
    <2>1. move \in [b -> late] BY <1>1, <1>4
    <2>2. \A i, j \in b : move[i] = move[j] => i = j BY <1>1
    <2>3. \A k \in late : \E i \in b : move[i] = k
      <3> SUFFICES ASSUME NEW k \in late PROVE \E i \in b : move[i] = k OBVIOUS
      <3>1. k - Len(s) \in b /\ move[k - Len(s)] = k BY <1>1, <1>4
      <3> QED BY <3>1
    <2> QED BY <2>1, <2>2, <2>3, Fun_IsBij
  <1>6. ExistsBijection(b, late) BY <1>5 DEF ExistsBijection
  <1>7. c \cap a = a BY <1>3
  <1> HIDE DEF a, b, c, move, late
  <1>8. Cardinality(late) = Cardinality(b) BY <1>2, <1>6, FS_Bijection
  <1>9. Cardinality(late) = Cardinality(c) - Cardinality(a) BY <1>2, <1>7, FS_Difference DEF late
  <1>10. Cardinality(c) \in Nat /\ Cardinality(b) \in Nat BY <1>2, FS_CardinalityType
  <1>11. Cardinality(c) = Cardinality(a) + Cardinality(b) BY <1>2, <1>8, <1>9, <1>10
  <1> QED BY <1>11 DEF Count, a, b, c
-----------------------------------------------------------------------------
(* Connections: the inductive invariant *)

\* The frames of a connection in either direction.
Asked == ({"connect", "end", "close"} \X Relays \X {0}) \cup ({"data"} \X Relays \X (Nat \ {0}))
Told ==
  ({"connected", "end", "closed", "error"} \X Relays \X {0}) \cup ({"data", "written"} \X Relays \X {1})
TooSlow == {"overflow"} \X Relays \X {0}

StreamTypes ==
  /\ at \in [Relays -> {"new", "connect", "first", "relay", "drain", "close", "done"}]
  /\ result \in [Relays -> {"none", "refused", "failed", "cut", "invalid", "closed"}]
  /\ up \in [Relays -> {"off", "read", "send", "credit", "done"}]
  /\ socket \in [Relays -> {"none", "v4", "v6", "open"}]
  /\ pending \in [Relays -> Nat] /\ buffer \in [Relays -> Nat]
  /\ sent \in [Relays -> Nat] /\ made \in [Relays -> Nat]
  /\ given \in [Relays -> Nat] /\ got \in [Relays -> Nat]
  /\ channels \subseteq Relays /\ ended \subseteq Relays /\ shut \subseteq Relays
  /\ readEnd \subseteq Relays /\ gone \subseteq Relays /\ told \subseteq Relays

StreamPipes ==
  /\ lock \in Seq(Asked) /\ input \in Seq(Asked) /\ output \in Seq(Told)
  /\ queue \in [Relays -> Seq(Told)] /\ \A c \in Relays : \A i \in 1..Len(queue[c]) : queue[c][i][2] = c
  /\ hand \in Told \cup TooSlow \cup {<<>>}

Over(c) == at[c] \in {"close", "done"}
Begun(c) == at[c] \in {"connect", "first", "relay", "drain"}
Carries(c) == at[c] \in {"relay", "drain"}

\* A connection has a channel until it is over, or was too slow and is about to
\* find that out.
Attached ==
  /\ \A c \in channels : Begun(c)
  /\ \A c \in Relays \ channels : Begun(c) => queue[c] # <<>> /\ queue[c][1][1] = "error"
  /\ hand \in Told => hand[2] \in channels \/ Over(hand[2])
  /\ \A c \in Relays : up[c] \in {"read", "send", "credit"} => Carries(c)
  /\ \A c \in Relays : at[c] \in {"new", "connect", "first"} => up[c] = "off"
  /\ \A i \in 1..Len(lock) : lock[i][1] = "close" =>
       /\ lock[i][2] \notin channels
       /\ Over(lock[i][2]) \/ hand = <<"overflow", lock[i][2], 0>>
  /\ \A i, j \in 1..Len(lock) :
       lock[i][1] = "close" /\ lock[j] = lock[i] => i = j \/ Over(lock[i][2])
  /\ \A i \in 1..Len(input) : input[i][1] = "close" => input[i][2] \notin channels

\* Nothing has come from the supervisor's side of a connection.
Unheard(c) ==
  /\ buffer[c] = 0 /\ sent[c] = 0 /\ made[c] = 0 /\ given[c] = 0 /\ got[c] = 0
  /\ c \notin ended \cup shut \cup readEnd \cup told \cup gone
  /\ queue[c] = <<>> /\ (hand = <<>> \/ hand[2] # c) /\ \A i \in 1..Len(output) : output[i][2] # c
  /\ ~Carries(c) /\ up[c] \in {"off", "done"} /\ result[c] # "closed"
  /\ \A i \in 1..Len(lock) : lock[i][2] = c => lock[i][1] \in {"connect", "close"}
  /\ \A i \in 1..Len(input) : input[i][2] = c => input[i][1] \in {"connect", "close"}

\* Its connect is yet to be sent or to arrive.
Asks(c) ==
  \/ at[c] = "new"
  \/ \E i \in 1..Len(lock) : lock[i] = <<"connect", c, 0>>
  \/ \E i \in 1..Len(input) : input[i] = <<"connect", c, 0>>

\* The connect is the first frame of a connection, and there is one.
Opening ==
  /\ \A c \in Relays : Asks(c) => Unheard(c) /\ socket[c] = "none"
  /\ \A c \in Relays : socket[c] \in {"v4", "v6"} => Unheard(c)
  /\ \A c \in Relays : at[c] = "new" =>
       /\ \A i \in 1..Len(lock) : lock[i][2] # c
       /\ \A i \in 1..Len(input) : input[i][2] # c
  /\ \A i \in 1..Len(lock) : lock[i][1] = "connect" =>
       /\ at[lock[i][2]] = "connect"
       /\ \A j \in 1..Len(lock) : lock[j][2] = lock[i][2] => i = j
       /\ \A j \in 1..Len(input) : input[j][2] # lock[i][2]
  /\ \A i, j \in 1..Len(input) : input[i][1] = "connect" /\ input[j][2] = input[i][2] => i <= j
  /\ \A i, j \in 1..Len(input) :
       input[i][1] = "connect" /\ input[j][1] = "connect" /\ input[j][2] = input[i][2] => i = j

\* How often a frame is on its way to a connection: in the pipe, in the hand of
\* the reader, in the queue.
Flow(c, f) == Count(output, f) + (IF hand = f THEN 1 ELSE 0) + Count(queue[c], f)

\* What the server has taken and the upload does not know yet.
Written(c) == <<"written", c, 1>>
Taken(c) == Flow(c, Written(c))
Settled(c) == buffer[c] = 0 /\ Taken(c) = 0

\* Data is sent only when all that was sent before is acknowledged.
Window ==
  \A c \in Relays :
    /\ \A i \in 1..Len(lock) : lock[i][2] = c /\ lock[i][1] \in {"data", "end"} =>
         /\ up[c] = "send"
         /\ lock[i][1] = "data" => pending[c] = lock[i][3] /\ Settled(c)
         /\ lock[i][1] = "end" => pending[c] = 0
         /\ \A j \in 1..Len(lock) : lock[j][2] = c /\ lock[j][1] \in {"data", "end"} => i = j
    /\ \A i \in 1..Len(input) : input[i][2] = c /\ input[i][1] = "data" =>
         /\ ~Over(c) => up[c] = "credit" /\ pending[c] = input[i][3] /\ Settled(c)
         /\ \A j \in 1..Len(input) : input[j][2] = c /\ input[j][1] = "data" => i = j
    /\ ~Over(c) => /\ up[c] \in {"off", "read", "done"} => pending[c] = 0
                   /\ buffer[c] + Taken(c) <= pending[c]

\* The end of the upload is its last frame, and the server has all before it.
Flying(c) ==
  \/ \E i \in 1..Len(lock) : lock[i][1] = "data" /\ lock[i][2] = c
  \/ \E i \in 1..Len(input) : input[i][1] = "data" /\ input[i][2] = c

Uploaded ==
  /\ \A c \in ended : up[c] = "done"
  /\ \A i \in 1..Len(input) : input[i][1] = "end" => up[input[i][2]] = "done"
  /\ \A c \in Relays : socket[c] = "open" /\ ~Over(c) =>
       sent[c] = given[c] + IF Flying(c) THEN pending[c] ELSE buffer[c]
  /\ \A c \in shut : ~Over(c) => c \in ended /\ buffer[c] = 0

\* What the server has sent is somewhere.
Chunk(c) == <<"data", c, 1>>
Coming(c) == Flow(c, Chunk(c))

Carried == \A c \in channels : made[c] = got[c] + Coming(c)

\* The server sends no more.
NoMore(c) == c \in readEnd \/ (socket[c] = "none" /\ ~Asks(c))

\* What comes to a connection, in order: its queue, what the reader is about to
\* put there, and the pipe, where the frames of others are too.
Held(c) == IF hand \in Told /\ hand[2] = c THEN 1 ELSE 0
Total(c) == Len(queue[c]) + Held(c) + Len(output)
Comes(c, k) ==
  IF k <= Len(queue[c]) THEN queue[c][k]
  ELSE IF k <= Len(queue[c]) + Held(c) THEN hand ELSE output[k - Len(queue[c]) - Held(c)]

EndOf(c)    == <<"end", c, 0>>
FaultOf(c)  == <<"error", c, 0>>
ClosedOf(c) == <<"closed", c, 0>>

\* One of the first n that come is f.
Before(c, n, f) == \E k \in 1..n : Comes(c, k) = f

\* Behind an end comes no data.
EndLast ==
  \A c \in channels : \A k \in 1..Total(c) : Comes(c, k) = EndOf(c) =>
    NoMore(c) /\ \A j \in (k + 1)..Total(c) : Comes(c, j) # Chunk(c)

\* Both sides have had everything.
Clean(c) == given[c] = sent[c] /\ up[c] = "done" /\ socket[c] = "none" /\ ~Asks(c)

\* A stream that is closed has failed, or has ended both ways.
ClosedLast ==
  \A c \in channels :
    /\ c \in readEnd => c \in told \/ Before(c, Total(c), EndOf(c))
    /\ c \notin gone => \A k \in 1..Total(c) : Comes(c, k) = ClosedOf(c) =>
         \/ Before(c, k - 1, FaultOf(c))
         \/ Clean(c) /\ (c \in told \/ Before(c, k - 1, EndOf(c)))

\* Who is told the end has everything; so has who is told that it is closed.
Ends ==
  /\ \A c \in told : got[c] = made[c] /\ NoMore(c)
  /\ \A c \in Relays : result[c] = "closed" => c \in told /\ Clean(c) /\ Over(c)
  /\ \A c \in Relays : result[c] # "invalid"

StreamsInv ==
  /\ StreamTypes /\ StreamPipes /\ Attached /\ Opening /\ Window /\ Uploaded /\ Carried
  /\ EndLast /\ ClosedLast /\ Ends
-----------------------------------------------------------------------------
(* Frames and pipes *)

\* A frame is an event, a connection and a size.
LEMMA Triples ==
  /\ \A f \in Asked : /\ f = <<f[1], f[2], f[3]>> /\ f[2] \in Relays /\ f[3] \in Nat
                      /\ f[1] \in {"connect", "end", "close", "data"}
                      /\ f[1] = "data" => f[3] > 0
                      /\ f[1] # "data" => f[3] = 0
  /\ \A f \in Told : /\ f = <<f[1], f[2], f[3]>> /\ f[2] \in Relays
                     /\ f[1] \in {"connected", "end", "closed", "error", "data", "written"}
                     /\ f[3] = IF f[1] \in {"data", "written"} THEN 1 ELSE 0
  /\ \A f \in TooSlow : f = <<"overflow", f[2], 0>> /\ f[2] \in Relays
  BY DEF Asked, Told, TooSlow

\* The same of what is in the pipes.
LEMMA InPipes ==
  ASSUME StreamPipes
  PROVE  /\ \A i \in 1..Len(lock) : lock[i] \in Asked
         /\ \A i \in 1..Len(input) : input[i] \in Asked
         /\ \A i \in 1..Len(output) : output[i] \in Told
         /\ \A c \in Relays : \A i \in 1..Len(queue[c]) : queue[c][i] \in Told /\ queue[c][i][2] = c
         /\ Len(lock) \in Nat /\ Len(input) \in Nat /\ Len(output) \in Nat
         /\ \A c \in Relays : Len(queue[c]) \in Nat
         /\ <<>> \notin Told /\ <<>> \notin TooSlow /\ Told \cap TooSlow = {}
  BY DEF StreamPipes, Asked, Told, TooSlow

\* A frame begins to wait for the write lock.
LEMMA LockJoins ==
  ASSUME StreamPipes, NEW f \in Asked, lock' = Append(lock, f)
  PROVE  /\ lock' \in Seq(Asked) /\ Len(lock) \in Nat /\ Len(lock') = Len(lock) + 1
         /\ \A i \in 1..Len(lock) : lock'[i] = lock[i]
         /\ lock'[Len(lock) + 1] = f
  BY AppendProperties DEF StreamPipes

\* The first of those who wait writes.
LEMMA LockSends ==
  ASSUME StreamPipes, Write
  PROVE  /\ lock' \in Seq(Asked) /\ Len(lock) \in Nat \ {0} /\ Len(lock') = Len(lock) - 1
         /\ Head(lock) = lock[1] /\ lock[1] \in Asked
         /\ \A i \in 1..Len(lock') : lock'[i] = lock[i + 1]
         /\ input' \in Seq(Asked) /\ Len(input) \in Nat /\ Len(input') = Len(input) + 1
         /\ \A i \in 1..Len(input) : input'[i] = input[i]
         /\ input'[Len(input) + 1] = lock[1]
  BY HeadTailProperties, AppendProperties DEF StreamPipes, Write

\* The supervisor reads a frame.
LEMMA Arrives ==
  ASSUME StreamPipes, NEW op, NEW c, Receives(op, c)
  PROVE  /\ input' \in Seq(Asked) /\ Len(input) \in Nat \ {0} /\ Len(input') = Len(input) - 1
         /\ Head(input) = input[1] /\ input[1] \in Asked /\ input[1][1] = op /\ input[1][2] = c
         /\ \A i \in 1..Len(input') : input'[i] = input[i + 1]
  BY HeadTailProperties DEF StreamPipes, Receives

\* What is taken out of a sequence is one place of it.
LEMMA RemovedPlace ==
  ASSUME NEW S, NEW s \in Seq(S), NEW n \in 1..Len(s)
  PROVE  /\ RemoveAt(s, n) \in Seq(S) /\ Len(RemoveAt(s, n)) = Len(s) - 1
         /\ \A k \in 1..(Len(s) - 1) : RemoveAt(s, n)[k] = IF k < n THEN s[k] ELSE s[k + 1]
  <1> DEFINE a == SubSeq(s, 1, n - 1)
             b == SubSeq(s, n + 1, Len(s))
  <1>1. a \in Seq(S) /\ Len(a) = n - 1 /\ \A k \in 1..(n - 1) : a[k] = s[k]
    BY SubSeqProperties
  <1>2. b \in Seq(S) /\ Len(b) = Len(s) - n /\ \A k \in 1..(Len(s) - n) : b[k] = s[n + k]
    BY SubSeqProperties
  <1>3. RemoveAt(s, n) = a \o b BY DEF RemoveAt
  <1> HIDE DEF a, b
  <1>4. a \o b \in Seq(S) /\ Len(a \o b) = Len(a) + Len(b)
    BY <1>1, <1>2, ConcatProperties
  <1>5. \A k \in 1..(Len(a) + Len(b)) : (a \o b)[k] = IF k <= Len(a) THEN a[k] ELSE b[k - Len(a)]
    BY <1>1, <1>2, ConcatProperties
  <1>6. Len(s) \in Nat OBVIOUS
  <1>7. ASSUME NEW k \in 1..(Len(s) - 1)
        PROVE  (a \o b)[k] = IF k < n THEN s[k] ELSE s[k + 1]
    <2>1. CASE k < n BY <1>1, <1>2, <1>5, <1>6, <2>1
    <2>2. CASE k >= n
      <3>1. (a \o b)[k] = b[k - (n - 1)] BY <1>1, <1>2, <1>5, <1>6, <2>2
      <3>2. k - (n - 1) \in 1..(Len(s) - n) /\ n + (k - (n - 1)) = k + 1 BY <1>6, <2>2
      <3> QED BY <1>2, <1>6, <2>2, <3>1, <3>2
    <2>3. k < n \/ k >= n BY <1>6
    <2> QED BY <2>1, <2>2, <2>3, Zenon
  <1> QED BY <1>1, <1>2, <1>3, <1>4, <1>6, <1>7

\* What an upload waits to send is withdrawn, and what else waits keeps its order.
LEMMA Withdraws ==
  ASSUME StreamPipes, Window, Opening, NEW c \in Relays, ~(at[c] = "connect")
  PROVE  /\ Withdrawn(c) \in Seq(Asked)
         /\ \A k \in 1..Len(Withdrawn(c)) :
              /\ Withdrawn(c)[k][2] = c => Withdrawn(c)[k][1] = "close"
              /\ \E i \in 1..Len(lock) : Withdrawn(c)[k] = lock[i]
         /\ \A j, k \in 1..Len(Withdrawn(c)) :
              \E m, n \in 1..Len(lock) :
                 Withdrawn(c)[j] = lock[m] /\ Withdrawn(c)[k] = lock[n] /\ (j # k => m # n)
  <1> DEFINE mine == {k \in 1..Len(lock) : lock[k][2] = c /\ lock[k][1] # "close"}
             n == CHOOSE k \in mine : TRUE
  <1>1. \A j, k \in mine : j = k
    <2>1. \A k \in mine : lock[k][1] \in {"data", "end"} BY InPipes, Triples DEF Opening
    <2> QED BY <2>1 DEF Window
  <1>2. CASE mine = {}
    <2>1. Withdrawn(c) = lock BY <1>2 DEF Withdrawn
    <2> QED BY <1>2, <2>1 DEF StreamPipes
  <1>3. CASE mine # {}
    <2>1. Withdrawn(c) = RemoveAt(lock, n) BY <1>3 DEF Withdrawn
    <2>2. n \in mine BY <1>3
    <2> HIDE DEF n
    <2>a. n \in 1..Len(lock) BY <2>2
    <2> HIDE DEF mine
    <2>b. lock \in Seq(Asked) BY DEF StreamPipes
    <2>c. /\ RemoveAt(lock, n) \in Seq(Asked) /\ Len(RemoveAt(lock, n)) = Len(lock) - 1
          /\ \A k \in 1..(Len(lock) - 1) :
               RemoveAt(lock, n)[k] = IF k < n THEN lock[k] ELSE lock[k + 1]
      BY <2>a, <2>b, RemovedPlace
    <2>3. /\ Withdrawn(c) \in Seq(Asked) /\ Len(Withdrawn(c)) = Len(lock) - 1
          /\ \A k \in 1..(Len(lock) - 1) : Withdrawn(c)[k] = IF k < n THEN lock[k] ELSE lock[k + 1]
      BY <2>1, <2>c
    <2>4. Len(lock) \in Nat BY InPipes
    <2>5. ASSUME NEW k \in 1..Len(Withdrawn(c))
          PROVE  LET i == IF k < n THEN k ELSE k + 1
                 IN  i \in 1..Len(lock) /\ Withdrawn(c)[k] = lock[i] /\ i # n
      <3>1. k \in Nat /\ k >= 1 /\ k <= Len(lock) - 1 /\ k \in 1..(Len(lock) - 1) BY <2>3, <2>4
      <3>2. CASE k < n BY <2>3, <2>4, <2>a, <3>1, <3>2
      <3>3. CASE ~(k < n) BY <2>3, <2>4, <2>a, <3>1, <3>3
      <3> QED BY <3>2, <3>3
    <2>6. ASSUME NEW k \in 1..Len(Withdrawn(c)), Withdrawn(c)[k][2] = c PROVE Withdrawn(c)[k][1] = "close"
      BY <1>1, <2>2, <2>5, <2>6, Triples, InPipes DEF mine
    <2>7. ASSUME NEW j \in 1..Len(Withdrawn(c)), NEW k \in 1..Len(Withdrawn(c))
          PROVE  \E m, i \in 1..Len(lock) : Withdrawn(c)[j] = lock[m] /\ Withdrawn(c)[k] = lock[i] /\ (j # k => m # i)
      <3>1. \E m, i \in 1..Len(lock) :
               /\ Withdrawn(c)[j] = lock[m] /\ Withdrawn(c)[k] = lock[i]
               /\ m = (IF j < n THEN j ELSE j + 1) /\ i = (IF k < n THEN k ELSE k + 1)
        BY <2>5
      <3> QED BY <2>2, <2>3, <2>4, <3>1 DEF mine
    <2>8. \A k \in 1..Len(Withdrawn(c)) : \E i \in 1..Len(lock) : Withdrawn(c)[k] = lock[i] BY <2>5
    <2>9. \A k \in 1..Len(Withdrawn(c)) : Withdrawn(c)[k][2] = c => Withdrawn(c)[k][1] = "close" BY <2>6
    <2>10. \A j, k \in 1..Len(Withdrawn(c)) :
              \E m, i \in 1..Len(lock) : Withdrawn(c)[j] = lock[m] /\ Withdrawn(c)[k] = lock[i] /\ (j # k => m # i)
      BY <2>7
    <2>11. Withdrawn(c) \in Seq(Asked) BY <2>3
    <2> QED BY <2>8, <2>9, <2>10, <2>11
  <1> QED BY <1>2, <1>3

\* Then its close waits.
LEMMA LockFinishes ==
  ASSUME StreamPipes, Window, Opening, NEW c \in Relays, NEW how, FinishRelay(c, how),
         ~(at[c] = "connect")
  PROVE  /\ lock' \in Seq(Asked)
         /\ \A k \in 1..Len(lock') :
              \/ lock'[k] = <<"close", c, 0>>
              \/ lock'[k][2] # c /\ \E i \in 1..Len(lock) : lock'[k] = lock[i]
         /\ \A j, k \in 1..Len(lock') : lock'[j][2] # c /\ lock'[k][2] # c =>
              \E m, n \in 1..Len(lock) :
                lock'[j] = lock[m] /\ lock'[k] = lock[n] /\ (j # k => m # n)
  <1> DEFINE w == Withdrawn(c)
             f == <<"close", c, 0>>
  <1>1. lock' = Append(w, f) /\ f \in Asked BY DEF FinishRelay, Asked
  <1>2. w \in Seq(Asked) BY Withdraws
  <1>3. \A k \in 1..Len(w) : w[k] \in Asked /\ (w[k][2] = c => w[k] = f)
    BY <1>2, Withdraws, Triples
  <1>4. /\ \A k \in 1..Len(w) : \E i \in 1..Len(lock) : w[k] = lock[i]
        /\ \A j, k \in 1..Len(w) :
             \E m, n \in 1..Len(lock) : w[j] = lock[m] /\ w[k] = lock[n] /\ (j # k => m # n)
    BY Withdraws
  <1> HIDE DEF w
  <1>5. /\ Append(w, f) \in Seq(Asked) /\ Len(w) \in Nat /\ Len(Append(w, f)) = Len(w) + 1
        /\ \A i \in 1..Len(w) : Append(w, f)[i] = w[i]
        /\ Append(w, f)[Len(w) + 1] = f
    BY <1>1, <1>2, AppendProperties
  <1>6. \A k \in 1..Len(lock') : lock'[k][2] # c => k \in 1..Len(w) /\ lock'[k] = w[k]
    BY <1>1, <1>5
  <1>7. \A k \in 1..Len(lock') : k \notin 1..Len(w) => lock'[k] = f
    BY <1>1, <1>5
  <1>8. lock' \in Seq(Asked) BY <1>1, <1>5
  <1>9. ASSUME NEW k \in 1..Len(lock'), lock'[k] # f
        PROVE  k \in 1..Len(w) /\ lock'[k] = w[k] /\ lock'[k][2] # c
    <2>1. k \in 1..Len(w) /\ lock'[k] = w[k] BY <1>1, <1>5, <1>7, <1>9
    <2>2. w[k][2] = c => FALSE
      <3>1. w[k] \in Asked BY <1>2, <2>1
      <3>2. w[k][2] = c => w[k][1] = "close" BY <1>2, <1>3, <2>1
      <3>3. w[k][2] = c /\ w[k][1] = "close" => w[k] = f BY <3>1, Triples
      <3> QED BY <1>9, <2>1, <3>2, <3>3
    <2> QED BY <2>1, <2>2
  <1>10. \A k \in 1..Len(lock') :
           lock'[k] = f \/ (lock'[k][2] # c /\ \E i \in 1..Len(lock) : lock'[k] = lock[i])
    BY <1>4, <1>9
  <1>11. \A j, k \in 1..Len(lock') : lock'[j][2] # c /\ lock'[k][2] # c =>
           \E m, n \in 1..Len(lock) : lock'[j] = lock[m] /\ lock'[k] = lock[n] /\ (j # k => m # n)
    BY <1>4, <1>6
  <1> QED BY <1>8, <1>10, <1>11

\* A frame is put into the queue of a connection, and taken from it.
LEMMA QueuePuts ==
  ASSUME StreamPipes, NEW c \in Relays, NEW f \in Told, f[2] = c,
         queue' = [queue EXCEPT ![c] = Append(@, f)]
  PROVE  /\ queue' \in [Relays -> Seq(Told)] /\ Len(queue[c]) \in Nat
         /\ Len(queue'[c]) = Len(queue[c]) + 1
         /\ \A i \in 1..Len(queue[c]) : queue'[c][i] = queue[c][i]
         /\ queue'[c][Len(queue[c]) + 1] = f
         /\ \A d \in Relays \ {c} : queue'[d] = queue[d]
         /\ \A g : Count(queue'[c], g) = Count(queue[c], g) + (IF f = g THEN 1 ELSE 0)
  BY AppendProperties, CountAppend DEF StreamPipes

LEMMA QueueTakes ==
  ASSUME StreamPipes, NEW c \in Relays, queue[c] # <<>>, queue' = [queue EXCEPT ![c] = Tail(@)]
  PROVE  /\ queue' \in [Relays -> Seq(Told)] /\ Len(queue[c]) \in Nat \ {0}
         /\ Len(queue'[c]) = Len(queue[c]) - 1
         /\ Head(queue[c]) = queue[c][1] /\ queue[c][1] \in Told
         /\ \A i \in 1..Len(queue'[c]) : queue'[c][i] = queue[c][i + 1]
         /\ \A d \in Relays \ {c} : queue'[d] = queue[d]
         /\ \A g : Count(queue[c], g) = Count(queue'[c], g) + (IF Head(queue[c]) = g THEN 1 ELSE 0)
  BY HeadTailProperties, CountTail DEF StreamPipes

\* The first frame of a queue.
LEMMA QueueHead ==
  ASSUME StreamPipes, NEW c \in Relays, queue[c] # <<>>
  PROVE  /\ Len(queue[c]) \in Nat \ {0} /\ Head(queue[c]) = queue[c][1]
         /\ queue[c][1] \in Told /\ queue[c][1][2] = c
  BY HeadTailProperties DEF StreamPipes

\* The supervisor writes frames, and the manager reads one.
LEMMA Emits ==
  ASSUME StreamPipes, NEW fs \in Seq(Told), output' = output \o fs
  PROVE  /\ output' \in Seq(Told) /\ Len(output) \in Nat /\ Len(fs) \in Nat
         /\ Len(output') = Len(output) + Len(fs)
         /\ \A i \in 1..Len(output) : output'[i] = output[i]
         /\ \A i \in (Len(output) + 1)..Len(output') : output'[i] = fs[i - Len(output)]
         /\ \A g : Count(output', g) = Count(output, g) + Count(fs, g)
  BY ConcatProperties, CountConcat DEF StreamPipes

LEMMA ReaderTakes ==
  ASSUME StreamPipes, output # <<>>, output' = Tail(output)
  PROVE  /\ output' \in Seq(Told) /\ Len(output) \in Nat \ {0} /\ Len(output') = Len(output) - 1
         /\ Head(output) = output[1] /\ output[1] \in Told
         /\ \A i \in 1..Len(output') : output'[i] = output[i + 1]
         /\ \A g : Count(output, g) = Count(output', g) + (IF Head(output) = g THEN 1 ELSE 0)
  BY HeadTailProperties, CountTail DEF StreamPipes

\* One frame, or two.
LEMMA Few ==
  ASSUME NEW f \in Told, NEW g \in Told
  PROVE  /\ <<f>> \in Seq(Told) /\ Len(<<f>>) = 1 /\ <<f>>[1] = f
         /\ Append(<<>>, f) = <<f>> /\ Append(<<f>>, g) = <<f, g>>
         /\ <<f, g>> \in Seq(Told) /\ Len(<<f, g>>) = 2 /\ <<f, g>>[1] = f /\ <<f, g>>[2] = g
         /\ \A h : Count(<<f>>, h) = IF f = h THEN 1 ELSE 0
         /\ \A h : Count(<<f, g>>, h) = (IF f = h THEN 1 ELSE 0) + (IF g = h THEN 1 ELSE 0)
  <1>1. /\ <<f>> \in Seq(Told) /\ Len(<<f>>) = 1 /\ <<f>>[1] = f
        /\ <<f, g>> \in Seq(Told) /\ Len(<<f, g>>) = 2 /\ <<f, g>>[1] = f /\ <<f, g>>[2] = g
    OBVIOUS
  <1>2. ASSUME NEW e \in Seq(Told), Len(e) = 0
        PROVE  /\ Append(e, f) = <<f>>
               /\ \A h : Count(<<f>>, h) = IF f = h THEN 1 ELSE 0
    <2>1. /\ Append(e, f) \in Seq(Told) /\ Len(Append(e, f)) = 1 /\ Append(e, f)[1] = f
      BY <1>2, AppendProperties
    <2>2. \A i \in 1..Len(Append(e, f)) : Append(e, f)[i] = <<f>>[i] BY <1>1, <2>1
    <2>3. Append(e, f) = <<f>> BY <1>1, <2>1, <2>2, SeqEqual
    <2>4. ASSUME NEW h PROVE Count(e, h) = 0
      <3>1. \A i \in 1..Len(e) : e[i] # h BY <1>2
      <3> QED BY <3>1, CountType
    <2>5. ASSUME NEW h PROVE Count(Append(e, f), h) = Count(e, h) + (IF f = h THEN 1 ELSE 0)
      BY CountAppend
    <2> QED BY <2>3, <2>4, <2>5
  <1>3. <<>> \in Seq(Told) /\ Len(<<>>) = 0 OBVIOUS
  <1>4. ASSUME NEW e \in Seq(Told), e = <<f>>
        PROVE  /\ Append(e, g) = <<f, g>>
               /\ \A h : Count(<<f, g>>, h) = Count(e, h) + (IF g = h THEN 1 ELSE 0)
    <2>1. Len(e) = 1 /\ e[1] = f BY <1>1, <1>4
    <2>a. Append(e, g) \in Seq(Told) /\ Len(Append(e, g)) = Len(e) + 1 BY AppendProperties
    <2>b. Append(e, g)[Len(e) + 1] = g /\ \A i \in 1..Len(e) : Append(e, g)[i] = e[i]
      BY AppendProperties
    <2>2. /\ Append(e, g) \in Seq(Told) /\ Len(Append(e, g)) = 2 /\ Append(e, g)[1] = f
          /\ Append(e, g)[2] = g
      BY <2>1, <2>a, <2>b
    <2>3. \A i \in 1..Len(Append(e, g)) : Append(e, g)[i] = <<f, g>>[i] BY <1>1, <2>2
    <2>4. Append(e, g) = <<f, g>> BY <1>1, <2>2, <2>3, SeqEqual
    <2>5. \A h : Count(Append(e, g), h) = Count(e, h) + (IF g = h THEN 1 ELSE 0)
      BY CountAppend
    <2> QED BY <2>4, <2>5
  <1>5. Append(<<f>>, g) = <<f, g>> BY <1>1, <1>4
  <1>6. Append(<<>>, f) = <<f>> BY <1>2, <1>3
  <1>7. \A h : Count(<<f>>, h) = IF f = h THEN 1 ELSE 0 BY <1>2, <1>3
  <1>8. \A h : Count(<<f, g>>, h) = Count(<<f>>, h) + (IF g = h THEN 1 ELSE 0) BY <1>1, <1>4
  <1>9. \A h : Count(<<f, g>>, h) = (IF f = h THEN 1 ELSE 0) + (IF g = h THEN 1 ELSE 0)
    BY <1>7, <1>8
  <1> QED BY <1>1, <1>5, <1>6, <1>7, <1>9
-----------------------------------------------------------------------------
(* Steps *)

\* A step is a step of one of these actions.
LEMMA StreamCases ==
  ASSUME [StreamsNext]_streamsVars
  PROVE  \/ \E c \in Relays :
              \/ Accept(c) \/ TakeFirst(c) \/ TakeData(c) \/ TakeWritten(c) \/ TakeEnd(c)
              \/ TakeClosed(c) \/ TakeError(c) \/ Drained(c) \/ Credited(c)
              \/ ConnectTimeout(c) \/ DrainFails(c) \/ ReadEnd(c) \/ ClientGone(c)
              \/ (\E n \in 1..ReadSize : ReadClient(c, n))
              \/ SupConnect(c) \/ SupData(c) \/ SupEnd(c) \/ SupClose(c) \/ Refresh(c)
              \/ Dial(c) \/ Recv(c) \/ Give(c) \/ Breaks(c)
         \/ Write \/ ReadFrame \/ PutFrame \/ UNCHANGED streamsVars
  BY DEF StreamsNext, Relay, Supervisor

\* A connection that goes on or ends: what a task takes from its queue is for it.
LEMMA Finishing ==
  ASSUME NEW c \in Relays,
         ConnectTimeout(c) \/ DrainFails(c) \/ TakeClosed(c) \/ TakeError(c)
  PROVE  /\ at[c] \in {"first", "relay", "drain"}
         /\ \E how \in {"failed", "cut", "closed"} : FinishRelay(c, how)
  BY DEF ConnectTimeout, DrainFails, TakeClosed, TakeError, Takes

LEMMA TypesKept ==
  ASSUME StreamsAssumption, StreamTypes, StreamPipes, [StreamsNext]_streamsVars
  PROVE  StreamTypes'
  <1> USE DEF StreamTypes
  <1>1. ASSUME NEW c \in Relays, Accept(c) PROVE StreamTypes' BY <1>1 DEF Accept
  <1>2. ASSUME NEW c \in Relays, NEW how \in {"failed", "cut", "closed", "invalid"},
               FinishRelay(c, how)
        PROVE  StreamTypes'
    BY <1>2 DEF FinishRelay
  <1>3. ASSUME NEW c \in Relays, TakeFirst(c) PROVE StreamTypes'
    <2>1. CASE Head(queue[c])[1] = "connected"
      <3>1. /\ at' = [at EXCEPT ![c] = "relay"] /\ up' = [up EXCEPT ![c] = "read"]
            /\ UNCHANGED <<result, pending, channels, socket, buffer, ended, shut, readEnd,
                           sent, made, given, got, gone, told>>
        BY <1>3, <2>1 DEF TakeFirst
      <3>2. at' \in [Relays -> {"new", "connect", "first", "relay", "drain", "close", "done"}] BY <3>1
      <3>3. up' \in [Relays -> {"off", "read", "send", "credit", "done"}] BY <3>1
      <3> QED BY <3>1, <3>2, <3>3
    <2>2. CASE Head(queue[c])[1] # "connected" BY <1>2, <1>3, <2>2 DEF TakeFirst
    <2> QED BY <2>1, <2>2
  <1>4. ASSUME NEW c \in Relays, TakeData(c) PROVE StreamTypes'
    <2>1. /\ at' = [at EXCEPT ![c] = "drain"] /\ got' = [got EXCEPT ![c] = @ + 1]
          /\ UNCHANGED <<result, up, pending, channels, socket, buffer, ended, shut, readEnd,
                         sent, made, given, gone, told>>
      BY <1>4 DEF TakeData
    <2>2. got' \in [Relays -> Nat] BY <2>1
    <2>3. at' \in [Relays -> {"new", "connect", "first", "relay", "drain", "close", "done"}] BY <2>1
    <2> QED BY <2>1, <2>2, <2>3
  <1>5. ASSUME NEW c \in Relays, TakeWritten(c) PROVE StreamTypes'
    <2>1. CASE Head(queue[c])[3] > pending[c] BY <1>2, <1>5, <2>1 DEF TakeWritten
    <2>2. CASE ~(Head(queue[c])[3] > pending[c])
      <3>1. Head(queue[c])[3] \in Nat BY SMTT(30), <1>5, QueueHead, Triples DEF TakeWritten, Takes
      <3>2. pending[c] - Head(queue[c])[3] \in Nat BY <2>2, <3>1
      <3>3. pending' = [pending EXCEPT ![c] = @ - Head(queue[c])[3]] BY <1>5, <2>2 DEF TakeWritten
      <3> QED BY <1>5, <2>2, <3>2, <3>3 DEF TakeWritten
    <2> QED BY <2>1, <2>2
  <1>6. ASSUME NEW c \in Relays, TakeEnd(c) \/ Drained(c) \/ Credited(c) PROVE StreamTypes'
    BY <1>6 DEF TakeEnd, Drained, Credited
  <1>7. ASSUME NEW c \in Relays,
               TakeClosed(c) \/ TakeError(c) \/ ConnectTimeout(c) \/ DrainFails(c)
        PROVE  StreamTypes'
    BY <1>2, <1>7, Finishing
  <1>8. ASSUME NEW c \in Relays, ReadEnd(c) PROVE StreamTypes' BY <1>8 DEF ReadEnd, Upload
  <1>9. ASSUME NEW c \in Relays, ClientGone(c) PROVE StreamTypes' BY <1>9 DEF ClientGone
  <1>10. ASSUME NEW c \in Relays, NEW n \in 1..ReadSize, ReadClient(c, n) PROVE StreamTypes'
    <2>1. n \in Nat BY DEF StreamsAssumption
    <2>2. sent' \in [Relays -> Nat] /\ pending' \in [Relays -> Nat]
      BY <1>10, <2>1 DEF ReadClient
    <2>3. up' \in [Relays -> {"off", "read", "send", "credit", "done"}]
      BY <1>10 DEF ReadClient, Upload
    <2> QED BY <1>10, <2>2, <2>3 DEF ReadClient, Upload
  <1>11. ASSUME NEW c \in Relays, SupConnect(c) PROVE StreamTypes'
    BY <1>11 DEF SupConnect, Receives
  <1>12. ASSUME NEW c \in Relays, SupData(c) PROVE StreamTypes'
    <2>1. Head(input)[3] \in Nat
      <3>1. Receives("data", c) BY <1>12 DEF SupData
      <3> QED BY <3>1, Arrives, Triples
    <2>2. CASE c \notin Streams BY <1>12, <2>2 DEF SupData, Receives
    <2>0. UNCHANGED <<at, result, up, pending, sent, made, given, got, channels, gone, told>>
      BY <1>12 DEF SupData, Receives
    <2>3. CASE c \in Streams /\ buffer[c] + Head(input)[3] > MaxPending
      <3>1. CloseStream(c, Fault(c)) BY <1>12, <2>3 DEF SupData
      <3> QED BY <2>0, <3>1 DEF CloseStream
    <2>4. CASE c \in Streams /\ ~(buffer[c] + Head(input)[3] > MaxPending)
      <3>1. buffer' = [buffer EXCEPT ![c] = @ + Head(input)[3]] /\ UNCHANGED <<socket, ended, shut, readEnd>>
        BY <1>12, <2>4 DEF SupData
      <3> QED BY <2>0, <2>1, <3>1
    <2> QED BY <2>2, <2>3, <2>4
  <1>13. ASSUME NEW c \in Relays, SupEnd(c) \/ SupClose(c) PROVE StreamTypes'
    <2>1. CASE SupEnd(c)
      <3>1. ended' \in SUBSET Relays BY <2>1 DEF SupEnd
      <3>2. UNCHANGED <<at, result, up, pending, socket, buffer, shut, readEnd, sent, made, given,
                        got, channels, gone, told>>
        BY <2>1 DEF SupEnd, Receives
      <3> QED BY <3>1, <3>2
    <2>2. CASE SupClose(c)
      <3>1. /\ socket' \in [Relays -> {"none", "v4", "v6", "open"}] /\ buffer' \in [Relays -> Nat]
            /\ ended' \in SUBSET Relays /\ shut' \in SUBSET Relays /\ readEnd' \in SUBSET Relays
        BY <2>2 DEF SupClose, CloseStream
      <3>2. UNCHANGED <<at, result, up, pending, sent, made, given, got, channels, gone, told>>
        BY <2>2 DEF SupClose, Receives
      <3> QED BY <3>1, <3>2
    <2> QED BY <1>13, <2>1, <2>2
  <1>14. ASSUME NEW c \in Relays, Refresh(c) \/ Dial(c) \/ Breaks(c) PROVE StreamTypes'
    BY <1>14 DEF Refresh, Dial, Breaks, Serves, CloseStream
  <1>15. ASSUME NEW c \in Relays, Recv(c) PROVE StreamTypes' BY <1>15 DEF Recv, Serves
  <1>16. ASSUME NEW c \in Relays, Give(c) PROVE StreamTypes' BY <1>16 DEF Give, Serves
  <1>17. ASSUME Write PROVE StreamTypes'
    <2>1. Head(lock)[2] \in Relays /\ Head(lock)[1] \in {"connect", "end", "close", "data"}
      BY <1>17, LockSends, Triples
    <2>2. at' \in {at, [at EXCEPT ![Head(lock)[2]] = "first"], [at EXCEPT ![Head(lock)[2]] = "done"]}
      BY <1>17, <2>1 DEF Write
    <2>3. up' \in {up, [up EXCEPT ![Head(lock)[2]] = "credit"], [up EXCEPT ![Head(lock)[2]] = "done"]}
      BY <1>17 DEF Write
    <2>4. UNCHANGED <<result, pending, channels, socket, buffer, ended, shut, readEnd, sent, made,
                      given, got, gone, told>>
      BY <1>17 DEF Write
    <2>5. at' \in [Relays -> {"new", "connect", "first", "relay", "drain", "close", "done"}] BY <2>2
    <2>6. up' \in [Relays -> {"off", "read", "send", "credit", "done"}] BY <2>3
    <2> QED BY <2>4, <2>5, <2>6
  <1>18. ASSUME ReadFrame \/ PutFrame \/ UNCHANGED streamsVars PROVE StreamTypes'
    BY <1>18 DEF ReadFrame, PutFrame, streamsVars
  <1> QED
    BY StreamCases, <1>1, <1>3, <1>4, <1>5, <1>6, <1>7, <1>8, <1>9, <1>10, <1>11, <1>12, <1>13,
       <1>14, <1>15, <1>16, <1>17, <1>18, Zenon
-----------------------------------------------------------------------------
(* What the supervisor does to a stream *)

\* A stream closes, and these frames tell so.
Closing1(c, frames) ==
  /\ socket[c] # "none" /\ output' = output \o frames
  /\ socket' = [socket EXCEPT ![c] = "none"] /\ buffer' = [buffer EXCEPT ![c] = 0]
  /\ ended' = ended \ {c} /\ shut' = shut \ {c} /\ readEnd' = readEnd \ {c}
  /\ UNCHANGED <<made, given>>

\* A frame opens a stream, is refused, is data or the end, or closes it; ...
Opens(c) ==
  /\ Receives("connect", c) /\ socket' = [socket EXCEPT ![c] = "v4"]
  /\ UNCHANGED <<output, buffer, ended, shut, readEnd>>

Refuses(c) ==
  /\ \E op \in {"connect", "data", "end", "close"} :
       Receives(op, c) /\ (op # "connect" => socket[c] = "none")
  /\ output' = output \o <<FaultOf(c)>> /\ UNCHANGED supVars

Stores(c) ==
  /\ Receives("data", c) /\ socket[c] # "none"
  /\ buffer' = [buffer EXCEPT ![c] = @ + Head(input)[3]]
  /\ UNCHANGED <<output, socket, ended, shut, readEnd>>

Notes(c) ==
  /\ Receives("end", c) /\ socket[c] # "none" /\ ended' = ended \cup {c}
  /\ UNCHANGED <<output, socket, buffer, shut, readEnd>>

Shuts(c) == Receives("close", c) /\ Closing1(c, <<ClosedOf(c)>>)

\* ... it fails; ...
Fails(c) ==
  /\ Serves \/ Receives("data", c)
  /\ Closing1(c, <<FaultOf(c), ClosedOf(c)>>) /\ UNCHANGED dataVars

\* ... it is dialled, ...
Connects(c) ==
  /\ Serves /\ socket[c] \in {"v4", "v6"} /\ socket' = [socket EXCEPT ![c] = "open"]
  /\ output' = output \o <<<<"connected", c, 0>>>>
  /\ UNCHANGED <<buffer, ended, shut, readEnd, dataVars>>

Retries(c) ==
  /\ Serves /\ socket[c] = "v4" /\ socket' = [socket EXCEPT ![c] = "v6"]
  /\ UNCHANGED <<output, buffer, ended, shut, readEnd, dataVars>>

\* ... carries data and the ends of both halves.
Receives1(c) ==
  /\ Serves /\ socket[c] = "open" /\ c \notin readEnd /\ made' = [made EXCEPT ![c] = @ + 1]
  /\ output' = output \o <<Chunk(c)>> /\ UNCHANGED <<supVars, sent, given, got>>

ReceivesEnd(c) ==
  /\ Serves /\ socket[c] = "open" /\ c \notin readEnd /\ readEnd' = readEnd \cup {c}
  /\ output' = output \o <<EndOf(c)>>
  /\ UNCHANGED <<socket, buffer, ended, shut, dataVars>>

Gives(c) ==
  /\ Serves /\ socket[c] = "open" /\ buffer[c] > 0
  /\ buffer' = [buffer EXCEPT ![c] = @ - 1] /\ given' = [given EXCEPT ![c] = @ + 1]
  /\ output' = output \o <<Written(c)>> /\ UNCHANGED <<socket, ended, shut, readEnd, sent, made, got>>

HalfCloses(c) ==
  /\ Serves /\ socket[c] = "open" /\ Ended(c) /\ c \notin readEnd /\ shut' = shut \cup {c}
  /\ UNCHANGED <<output, socket, buffer, ended, readEnd, dataVars>>

Completes(c) ==
  /\ Serves /\ socket[c] = "open" /\ c \in readEnd /\ (c \in shut \/ Ended(c))
  /\ Closing1(c, <<ClosedOf(c)>>) /\ UNCHANGED dataVars

Served(c) ==
  \/ Opens(c) \/ Refuses(c) \/ Stores(c) \/ Notes(c) \/ Shuts(c) \/ Fails(c) \/ Connects(c)
  \/ Retries(c) \/ Receives1(c) \/ ReceivesEnd(c) \/ Gives(c) \/ HalfCloses(c) \/ Completes(c)

LEMMA ServedCases ==
  ASSUME StreamTypes, StreamPipes, NEW c \in Relays,
         \/ SupConnect(c) \/ SupData(c) \/ SupEnd(c) \/ SupClose(c) \/ Refresh(c)
         \/ Dial(c) \/ Recv(c) \/ Give(c) \/ Breaks(c)
  PROVE  Served(c)
  <1>1. /\ FaultOf(c) \in Told /\ ClosedOf(c) \in Told /\ Fault(c) = <<FaultOf(c)>>
        /\ <<"closed", c, 0>> = ClosedOf(c)
    BY DEF FaultOf, ClosedOf, Told, Fault
  <1>2. /\ Append(<<>>, ClosedOf(c)) = <<ClosedOf(c)>>
        /\ Append(Fault(c), ClosedOf(c)) = <<FaultOf(c), ClosedOf(c)>>
    BY <1>1, Few
  <1>3. ASSUME CloseStream(c, <<>>), socket[c] # "none", UNCHANGED <<made, given>>
        PROVE  Closing1(c, <<ClosedOf(c)>>)
    BY <1>1, <1>2, <1>3 DEF CloseStream, Closing1, Emit
  <1>4. ASSUME CloseStream(c, Fault(c)), socket[c] # "none", UNCHANGED <<made, given>>
        PROVE  Closing1(c, <<FaultOf(c), ClosedOf(c)>>)
    BY <1>1, <1>2, <1>4 DEF CloseStream, Closing1, Emit
  <1>5. c \in Streams <=> socket[c] # "none" BY DEF Streams
  <1>6. CASE SupConnect(c)
    <2>1. Receives("connect", c) BY <1>6 DEF SupConnect
    <2>2. CASE Cardinality(Streams) >= MaxStreams
      <3>1. output' = output \o <<FaultOf(c)>> /\ UNCHANGED supVars
        BY <1>1, <1>6, <2>2 DEF SupConnect, Emit
      <3>2. Refuses(c) BY <2>1, <3>1 DEF Refuses
      <3> QED BY <3>2 DEF Served
    <2>3. CASE ~(Cardinality(Streams) >= MaxStreams)
      <3>1. Opens(c) BY <1>6, <2>3 DEF SupConnect, Opens
      <3> QED BY <3>1 DEF Served
    <2> QED BY <2>2, <2>3
  <1>7. CASE SupData(c)
    <2>1. Receives("data", c) BY <1>7 DEF SupData
    <2>2. UNCHANGED dataVars BY <2>1 DEF Receives
    <2>3. CASE socket[c] = "none"
      <3>1. output' = output \o <<FaultOf(c)>> /\ UNCHANGED supVars
        BY <1>1, <1>5, <1>7, <2>3 DEF SupData, Emit
      <3>2. Refuses(c) BY <2>1, <2>3, <3>1 DEF Refuses
      <3> QED BY <3>2 DEF Served
    <2>4. CASE socket[c] # "none" /\ buffer[c] + Head(input)[3] > MaxPending
      <3>1. CloseStream(c, Fault(c)) BY <1>5, <1>7, <2>4 DEF SupData
      <3>2. Closing1(c, <<FaultOf(c), ClosedOf(c)>>) BY <1>4, <2>2, <2>4, <3>1
      <3>3. Fails(c) BY <2>1, <2>2, <3>2 DEF Fails
      <3> QED BY <3>3 DEF Served
    <2>5. CASE socket[c] # "none" /\ ~(buffer[c] + Head(input)[3] > MaxPending)
      <3>1. Stores(c) BY <1>5, <1>7, <2>1, <2>5 DEF SupData, Stores
      <3> QED BY <3>1 DEF Served
    <2> QED BY <2>3, <2>4, <2>5
  <1>8. CASE SupEnd(c)
    <2>1. Receives("end", c) BY <1>8 DEF SupEnd
    <2>2. CASE socket[c] = "none"
      <3>1. output' = output \o <<FaultOf(c)>> /\ UNCHANGED supVars
        BY <1>1, <1>5, <1>8, <2>2 DEF SupEnd, Emit
      <3>2. Refuses(c) BY <2>1, <2>2, <3>1 DEF Refuses
      <3> QED BY <3>2 DEF Served
    <2>3. CASE socket[c] # "none"
      <3>1. Notes(c) BY <1>5, <1>8, <2>1, <2>3 DEF SupEnd, Notes
      <3> QED BY <3>1 DEF Served
    <2> QED BY <2>2, <2>3
  <1>9. CASE SupClose(c)
    <2>1. Receives("close", c) BY <1>9 DEF SupClose
    <2>2. UNCHANGED dataVars BY <2>1 DEF Receives
    <2>3. CASE socket[c] = "none"
      <3>1. output' = output \o <<FaultOf(c)>> /\ UNCHANGED supVars
        BY <1>1, <1>5, <1>9, <2>3 DEF SupClose, Emit
      <3>2. Refuses(c) BY <2>1, <2>3, <3>1 DEF Refuses
      <3> QED BY <3>2 DEF Served
    <2>4. CASE socket[c] # "none"
      <3>1. CloseStream(c, <<>>) BY <1>5, <1>9, <2>4 DEF SupClose
      <3>2. Closing1(c, <<ClosedOf(c)>>) BY <1>3, <2>2, <2>4, <3>1
      <3>3. Shuts(c) BY <2>1, <3>2 DEF Shuts
      <3> QED BY <3>3 DEF Served
    <2> QED BY <2>3, <2>4
  <1>10. CASE Refresh(c)
    <2>1. /\ Serves /\ socket[c] = "open" /\ UNCHANGED dataVars
          /\ IF c \in shut THEN c \in readEnd ELSE Ended(c)
      BY <1>10 DEF Refresh
    <2>2. CASE c \in readEnd
      <3>1. CloseStream(c, <<>>) BY <1>10, <2>2 DEF Refresh
      <3>2. Closing1(c, <<ClosedOf(c)>>) BY <1>3, <2>1, <3>1
      <3>3. Completes(c) BY <2>1, <2>2, <3>2 DEF Completes
      <3> QED BY <3>3 DEF Served
    <2>3. CASE c \notin readEnd
      <3>1. HalfCloses(c) BY <1>10, <2>1, <2>3 DEF Refresh, HalfCloses
      <3> QED BY <3>1 DEF Served
    <2> QED BY <2>2, <2>3
  <1>11. CASE Dial(c)
    <2>1. Serves /\ socket[c] \in {"v4", "v6"} /\ UNCHANGED dataVars BY <1>11 DEF Dial
    <2>2. CASE CloseStream(c, Fault(c))
      <3>1. Closing1(c, <<FaultOf(c), ClosedOf(c)>>) BY <1>4, <2>1, <2>2
      <3>2. Fails(c) BY <2>1, <3>1 DEF Fails
      <3> QED BY <3>2 DEF Served
    <2>3. CASE ~CloseStream(c, Fault(c))
      <3>1. Connects(c) \/ Retries(c) BY <1>11, <2>1, <2>3 DEF Dial, Connects, Retries, Emit
      <3> QED BY <3>1 DEF Served
    <2> QED BY <2>2, <2>3
  <1>12. CASE Recv(c)
    <2>1. Receives1(c) \/ ReceivesEnd(c)
      BY <1>12 DEF Recv, Receives1, ReceivesEnd, Emit, Chunk, EndOf
    <2> QED BY <2>1 DEF Served
  <1>13. CASE Give(c)
    <2>1. Gives(c) BY <1>13 DEF Give, Gives, Emit, Written
    <2> QED BY <2>1 DEF Served
  <1>14. CASE Breaks(c)
    <2>1. Serves /\ socket[c] = "open" /\ UNCHANGED dataVars /\ CloseStream(c, Fault(c))
      BY <1>14 DEF Breaks
    <2>2. Closing1(c, <<FaultOf(c), ClosedOf(c)>>) BY <1>4, <2>1
    <2>3. Fails(c) BY <2>1, <2>2 DEF Fails
    <2> QED BY <2>3 DEF Served
  <1> QED BY <1>6, <1>7, <1>8, <1>9, <1>10, <1>11, <1>12, <1>13, <1>14

\* None of it touches what the manager has.
LEMMA ServedFrame ==
  ASSUME NEW c, Served(c)
  PROVE  /\ UNCHANGED <<at, result, up, pending, channels, queue, hand, lock, gone, told>>
         /\ UNCHANGED <<sent, got>>
         /\ input' = input \/ \E op \in {"connect", "data", "end", "close"} : Receives(op, c)
  <1>1. /\ UNCHANGED <<sent, got>>
        /\ Serves \/ \E op \in {"connect", "data", "end", "close"} : Receives(op, c)
    BY DEF Served, Opens, Refuses, Stores, Notes, Shuts, Fails, Connects, Retries, Receives1,
           ReceivesEnd, Gives, HalfCloses, Completes, Receives
  <1> QED BY <1>1 DEF Serves, Receives
-----------------------------------------------------------------------------
(* What the manager does *)

\* A channel is made, and the first frame has come.
Begins(c) ==
  /\ at[c] = "new" /\ at' = [at EXCEPT ![c] = "connect"] /\ channels' = channels \cup {c}
  /\ lock' = Append(lock, <<"connect", c, 0>>)
  /\ UNCHANGED <<result, up, pending, queue, hand, input, output, supVars, dataVars, clientVars>>

Refused(c) ==
  /\ at[c] = "new" /\ at' = [at EXCEPT ![c] = "done"] /\ result' = [result EXCEPT ![c] = "refused"]
  /\ UNCHANGED <<channels, lock, up, pending, queue, hand, input, output, supVars, dataVars,
                 clientVars>>

Relays1(c) ==
  /\ at[c] = "first" /\ queue[c] # <<>> /\ Head(queue[c])[1] = "connected"
  /\ at' = [at EXCEPT ![c] = "relay"] /\ up' = [up EXCEPT ![c] = "read"]
  /\ queue' = [queue EXCEPT ![c] = Tail(@)]
  /\ UNCHANGED <<result, pending, channels, hand, pipeVars, supVars, dataVars, clientVars>>

\* What the server has taken is acknowledged.
Acknowledges(c) ==
  /\ at[c] = "relay" /\ queue[c] # <<>> /\ Head(queue[c])[1] = "written"
  /\ Head(queue[c])[3] <= pending[c]
  /\ pending' = [pending EXCEPT ![c] = @ - Head(queue[c])[3]]
  /\ queue' = [queue EXCEPT ![c] = Tail(@)]
  /\ UNCHANGED <<at, result, up, channels, hand, pipeVars, supVars, dataVars, clientVars>>

\* It is over: why, if it matters.
Finishes(c) ==
  /\ at[c] \in {"first", "relay", "drain"}
  /\ \E how \in {"failed", "cut", "closed", "invalid"} :
       /\ FinishRelay(c, how)
       /\ how = "closed" =>
            at[c] = "relay" /\ queue[c] # <<>> /\ Head(queue[c])[1] = "closed" /\ c \notin gone
       /\ how = "invalid" => /\ at[c] = "relay" /\ queue[c] # <<>> /\ Head(queue[c])[1] = "written"
                             /\ Head(queue[c])[3] > pending[c]

\* The reader puts a frame, drops it, or cuts who is too slow.
Puts(c) ==
  /\ hand \in Told /\ hand[2] = c /\ ~Over(c) /\ hand' = <<>>
  /\ queue' = [queue EXCEPT ![c] = Append(@, hand)]
  /\ UNCHANGED <<channels, lock, taskVars, input, output, supVars, dataVars, clientVars>>

Drops(c) ==
  /\ hand \in Told /\ hand[2] = c /\ Over(c) /\ hand' = <<>>
  /\ UNCHANGED <<queue, channels, lock, taskVars, input, output, supVars, dataVars, clientVars>>

Cuts(c) ==
  /\ hand \in Told /\ hand[2] = c /\ ~Over(c) /\ hand' = <<"overflow", c, 0>>
  /\ channels' = channels \ {c} /\ queue' = [queue EXCEPT ![c] = <<FaultOf(c)>>]
  /\ lock' = Append(lock, <<"close", c, 0>>)
  /\ UNCHANGED <<taskVars, input, output, supVars, dataVars, clientVars>>

Managed(c) ==
  \/ Begins(c) \/ Refused(c) \/ Relays1(c) \/ TakeData(c) \/ Drained(c) \/ Acknowledges(c)
  \/ TakeEnd(c) \/ Finishes(c) \/ Credited(c) \/ ReadEnd(c) \/ ClientGone(c)
  \/ (\E n \in Nat \ {0} : ReadClient(c, n))
  \/ Puts(c) \/ Drops(c) \/ Cuts(c)

LEMMA ManagedCases ==
  ASSUME StreamsAssumption, StreamTypes, StreamPipes, [StreamsNext]_streamsVars
  PROVE  \/ \E c \in Relays : Served(c) \/ Managed(c)
         \/ Write \/ ReadFrame \/ UNCHANGED streamsVars
  <1>1. ASSUME NEW c \in Relays, Accept(c) PROVE Managed(c)
    <2>1. Begins(c) \/ Refused(c) BY <1>1 DEF Accept, Begins, Refused
    <2> QED BY <2>1 DEF Managed
  <1>2. ASSUME NEW c \in Relays, TakeFirst(c) PROVE Managed(c)
    <2>1. Relays1(c) \/ Finishes(c) BY <1>2 DEF TakeFirst, Relays1, Finishes
    <2> QED BY <2>1 DEF Managed
  <1>3. ASSUME NEW c \in Relays, TakeWritten(c) PROVE Managed(c)
    <2>1. at[c] = "relay" /\ queue[c] # <<>> /\ Head(queue[c])[1] = "written"
      BY <1>3 DEF TakeWritten, Takes
    <2>2. Head(queue[c])[3] \in Nat /\ pending[c] \in Nat
      BY SMTT(30), <2>1, QueueHead, Triples DEF StreamTypes
    <2>3. CASE Head(queue[c])[3] > pending[c]
      <3>1. FinishRelay(c, "invalid") BY <1>3, <2>3 DEF TakeWritten
      <3>2. Finishes(c) BY <2>1, <2>3, <3>1 DEF Finishes
      <3> QED BY <3>2 DEF Managed
    <2>4. CASE ~(Head(queue[c])[3] > pending[c])
      <3>1. Head(queue[c])[3] <= pending[c] BY <2>2, <2>4
      <3>2. Acknowledges(c) BY <1>3, <2>1, <2>4, <3>1 DEF TakeWritten, Acknowledges
      <3> QED BY <3>2 DEF Managed
    <2> QED BY <2>3, <2>4
  <1>4. ASSUME NEW c \in Relays, TakeClosed(c) PROVE Managed(c)
    <2>1. at[c] = "relay" /\ queue[c] # <<>> /\ Head(queue[c])[1] = "closed"
      BY <1>4 DEF TakeClosed, Takes
    <2>2. Finishes(c)
      <3>1. CASE c \in gone BY <1>4, <2>1, <3>1 DEF TakeClosed, Finishes
      <3>2. CASE c \notin gone BY <1>4, <2>1, <3>2 DEF TakeClosed, Finishes
      <3> QED BY <3>1, <3>2
    <2> QED BY <2>2 DEF Managed
  <1>5. ASSUME NEW c \in Relays, TakeError(c) \/ ConnectTimeout(c) \/ DrainFails(c)
        PROVE  Managed(c)
    <2>1. Finishes(c) BY <1>5 DEF TakeError, ConnectTimeout, DrainFails, Takes, Finishes
    <2> QED BY <2>1 DEF Managed
  <1>6. ASSUME NEW c \in Relays, NEW n \in 1..ReadSize, ReadClient(c, n) PROVE Managed(c)
    <2>1. n \in Nat \ {0} BY DEF StreamsAssumption
    <2> QED BY <1>6, <2>1 DEF Managed
  <1>7. ASSUME NEW c \in Relays,
               TakeData(c) \/ TakeEnd(c) \/ Drained(c) \/ Credited(c) \/ ReadEnd(c) \/ ClientGone(c)
        PROVE  Managed(c)
    BY <1>7 DEF Managed
  <1>8. ASSUME PutFrame PROVE \E c \in Relays : Managed(c)
    <2>1. hand \in Told /\ hand[2] \in Relays
      <3>1. hand # <<>> /\ hand[1] # "overflow" BY <1>8 DEF PutFrame
      <3> QED BY <3>1, Triples DEF StreamPipes, TooSlow
    <2>2. Puts(hand[2]) \/ Drops(hand[2]) \/ Cuts(hand[2])
      BY <1>8, <2>1 DEF PutFrame, Puts, Drops, Cuts, Over, FaultOf
    <2>3. Managed(hand[2]) BY <2>2 DEF Managed
    <2> QED BY <2>1, <2>3
  <1>9. ASSUME NEW c \in Relays,
               \/ SupConnect(c) \/ SupData(c) \/ SupEnd(c) \/ SupClose(c) \/ Refresh(c)
               \/ Dial(c) \/ Recv(c) \/ Give(c) \/ Breaks(c)
        PROVE  Served(c)
    BY <1>9, ServedCases
  <1> QED BY StreamCases, <1>1, <1>2, <1>3, <1>4, <1>5, <1>6, <1>7, <1>8, <1>9, Zenon
-----------------------------------------------------------------------------
(* Who is not concerned, and what becomes of the lock's queue *)

\* A step of one connection is none of another.
Same(c) ==
  /\ at'[c] = at[c] /\ result'[c] = result[c] /\ up'[c] = up[c] /\ pending'[c] = pending[c]
  /\ queue'[c] = queue[c] /\ socket'[c] = socket[c] /\ buffer'[c] = buffer[c]
  /\ sent'[c] = sent[c] /\ made'[c] = made[c] /\ given'[c] = given[c] /\ got'[c] = got[c]
  /\ (c \in channels' <=> c \in channels) /\ (c \in ended' <=> c \in ended)
  /\ (c \in shut' <=> c \in shut) /\ (c \in readEnd' <=> c \in readEnd)
  /\ (c \in gone' <=> c \in gone) /\ (c \in told' <=> c \in told)

LEMMA OthersServed ==
  ASSUME StreamTypes, NEW d \in Relays, Served(d), NEW c \in Relays \ {d}
  PROVE  Same(c)
  <1> USE DEF StreamTypes, Same
  <1>1. UNCHANGED <<at, result, up, pending, channels, queue, gone, told, sent, got>>
    BY ServedFrame
  <1>2. CASE Opens(d) \/ Refuses(d) \/ Stores(d) \/ Notes(d)
    BY <1>1, <1>2 DEF Opens, Refuses, Stores, Notes, Receives
  <1>3. CASE Shuts(d) \/ Fails(d) \/ Completes(d)
    <2>1. UNCHANGED <<made, given>> BY <1>3 DEF Shuts, Fails, Completes, Receives, Serves, Closing1
    <2>2. /\ socket' = [socket EXCEPT ![d] = "none"] /\ buffer' = [buffer EXCEPT ![d] = 0]
          /\ ended' = ended \ {d} /\ shut' = shut \ {d} /\ readEnd' = readEnd \ {d}
      BY <1>3 DEF Shuts, Fails, Completes, Closing1
    <2> QED BY <1>1, <2>1, <2>2
  <1>4. CASE Connects(d) \/ Retries(d) \/ Receives1(d)
    BY <1>1, <1>4 DEF Connects, Retries, Receives1, Serves
  <1>5. CASE ReceivesEnd(d) \/ Gives(d) \/ HalfCloses(d)
    BY <1>1, <1>5 DEF ReceivesEnd, Gives, HalfCloses, Serves
  <1> QED BY <1>2, <1>3, <1>4, <1>5 DEF Served

LEMMA OthersManaged ==
  ASSUME StreamTypes, StreamPipes, NEW d \in Relays, Managed(d), NEW c \in Relays \ {d}
  PROVE  Same(c)
  <1>0. queue \in [Relays -> Seq(Told)] BY DEF StreamPipes
  <1> USE <1>0 DEF StreamTypes, Same
  <1>1. CASE Begins(d) \/ Refused(d) BY <1>1 DEF Begins, Refused
  <1>2. CASE Relays1(d) \/ TakeData(d) \/ Drained(d) BY <1>2 DEF Relays1, TakeData, Drained
  <1>3. CASE Acknowledges(d) \/ TakeEnd(d) \/ Credited(d)
    BY <1>3 DEF Acknowledges, TakeEnd, Credited
  <1>4. CASE Finishes(d)
    <2>1. PICK how \in {"failed", "cut", "closed", "invalid"} : FinishRelay(d, how)
      BY <1>4 DEF Finishes
    <2> QED BY <2>1 DEF FinishRelay
  <1>5. CASE ReadEnd(d) \/ ClientGone(d) \/ (\E n \in Nat \ {0} : ReadClient(d, n))
    <2>1. CASE ReadEnd(d) BY <2>1 DEF ReadEnd, Upload
    <2>2. CASE ClientGone(d)
      <3>1. /\ gone' = gone \cup {d}
            /\ UNCHANGED <<at, result, pending, channels, socket, buffer, ended, shut, readEnd,
                           sent, made, given, got, told>>
        BY <2>2 DEF ClientGone
      <3>2. up'[c] = up[c] BY <2>2 DEF ClientGone
      <3>3. queue'[c] = queue[c] BY <2>2 DEF ClientGone
      <3> QED BY <3>1, <3>2, <3>3
    <2>3. ASSUME NEW n \in Nat \ {0}, ReadClient(d, n) PROVE Same(c)
      BY <2>3 DEF ReadClient, Upload
    <2> QED BY <1>5, <2>1, <2>2, <2>3
  <1>6. CASE Puts(d) \/ Drops(d) \/ Cuts(d) BY <1>6 DEF Puts, Drops, Cuts
  <1> QED BY <1>1, <1>2, <1>3, <1>4, <1>5, <1>6 DEF Managed

LEMMA OthersWrite ==
  ASSUME StreamTypes, StreamPipes, Write, NEW c \in Relays, c # lock[1][2]
  PROVE  Same(c)
  <1>1. Head(lock) = lock[1] BY LockSends
  <1>2. at'[c] = at[c] /\ up'[c] = up[c]
    <2> DEFINE d == lock[1][2]
    <2>1. \/ at' = at \/ at' = [at EXCEPT ![d] = "first"] \/ at' = [at EXCEPT ![d] = "done"]
      BY <1>1, LockSends, Triples DEF Write
    <2>2. \/ up' = up \/ up' = [up EXCEPT ![d] = "credit"] \/ up' = [up EXCEPT ![d] = "done"]
      BY <1>1 DEF Write
    <2>3. c # d OBVIOUS
    <2> HIDE DEF d
    <2> QED BY <2>1, <2>2, <2>3 DEF StreamTypes
  <1>3. UNCHANGED <<result, pending, channels, queue, supVars, dataVars, clientVars>>
    BY DEF Write
  <1> QED BY <1>2, <1>3 DEF Same

\* What of a connection begins to wait for the lock, and why.
Joins(c, f) ==
  \/ Begins(c) /\ f = <<"connect", c, 0>>
  \/ \E n \in Nat \ {0} : ReadClient(c, n) /\ f = <<"data", c, n>>
  \/ ReadEnd(c) /\ f = <<"end", c, 0>>
  \/ (Finishes(c) \/ Cuts(c)) /\ f = <<"close", c, 0>>

\* All else that waits has waited before.
LEMMA LockMoves ==
  ASSUME StreamPipes, Window, Opening, NEW d \in Relays, Managed(d)
  PROVE  /\ lock' \in Seq(Asked)
         /\ \E p \in Nat :
              /\ p \in 1..Len(lock') => Joins(d, lock'[p])
              /\ \A j, k \in (1..Len(lock')) \ {p} :
                   \E m, n \in 1..Len(lock) :
                     lock'[j] = lock[m] /\ lock'[k] = lock[n] /\ (j # k => m # n)
         /\ Finishes(d) => \A k \in 1..Len(lock') : lock'[k][2] = d => lock'[k][1] = "close"
  <1>1. ASSUME UNCHANGED lock, ~Finishes(d)
        PROVE  /\ lock' \in Seq(Asked)
               /\ \E p \in Nat :
                    /\ p \in 1..Len(lock') => Joins(d, lock'[p])
                    /\ \A j, k \in (1..Len(lock')) \ {p} :
                         \E m, n \in 1..Len(lock) :
                           lock'[j] = lock[m] /\ lock'[k] = lock[n] /\ (j # k => m # n)
    <2>1. 0 \notin 1..Len(lock') /\ lock' \in Seq(Asked) BY <1>1 DEF StreamPipes
    <2>2. \A j, k \in (1..Len(lock')) \ {0} :
            \E m, n \in 1..Len(lock) : lock'[j] = lock[m] /\ lock'[k] = lock[n] /\ (j # k => m # n)
      BY <1>1
    <2>3. 0 \in Nat /\ (0 \in 1..Len(lock') => Joins(d, lock'[0])) BY <2>1
    <2> QED BY <2>1, <2>2, <2>3, Zenon
  <1>2. ASSUME NEW f \in Asked, lock' = Append(lock, f), Joins(d, f), ~Finishes(d)
        PROVE  /\ lock' \in Seq(Asked)
               /\ \E p \in Nat :
                    /\ p \in 1..Len(lock') => Joins(d, lock'[p])
                    /\ \A j, k \in (1..Len(lock')) \ {p} :
                         \E m, n \in 1..Len(lock) :
                           lock'[j] = lock[m] /\ lock'[k] = lock[n] /\ (j # k => m # n)
    <2>1. /\ lock' \in Seq(Asked) /\ Len(lock) \in Nat /\ Len(lock') = Len(lock) + 1
          /\ \A i \in 1..Len(lock) : lock'[i] = lock[i]
          /\ lock'[Len(lock) + 1] = f
      BY <1>2, LockJoins
    <2>2. \A k \in (1..Len(lock')) \ {Len(lock) + 1} : k \in 1..Len(lock) /\ lock'[k] = lock[k]
      BY <2>1
    <2>3. \A j, k \in (1..Len(lock')) \ {Len(lock) + 1} :
            \E m, n \in 1..Len(lock) : lock'[j] = lock[m] /\ lock'[k] = lock[n] /\ (j # k => m # n)
      BY <2>2
    <2>4. Joins(d, lock'[Len(lock) + 1]) /\ Len(lock) + 1 \in Nat BY <1>2, <2>1
    <2> QED BY <2>1, <2>3, <2>4
  <1>3. CASE Finishes(d)
    <2>1. PICK how \in {"failed", "cut", "closed", "invalid"} : FinishRelay(d, how)
      BY <1>3 DEF Finishes
    <2>2. ~(at[d] = "connect") BY <1>3 DEF Finishes
    <2> DEFINE w == Withdrawn(d)
               f == <<"close", d, 0>>
    <2>3. lock' = Append(w, f) /\ f \in Asked BY <2>1 DEF FinishRelay, Asked
    <2>4. /\ w \in Seq(Asked)
          /\ \A k \in 1..Len(w) : w[k][2] = d => w[k][1] = "close"
          /\ \A j, k \in 1..Len(w) :
               \E m, n \in 1..Len(lock) : w[j] = lock[m] /\ w[k] = lock[n] /\ (j # k => m # n)
      BY <2>2, Withdraws
    <2>5. f[1] = "close" /\ Joins(d, f) BY <1>3 DEF Joins
    <2> HIDE DEF w, f
    <2>6. /\ lock' \in Seq(Asked) /\ Len(w) \in Nat /\ Len(lock') = Len(w) + 1
          /\ \A i \in 1..Len(w) : lock'[i] = w[i]
          /\ lock'[Len(w) + 1] = f
      BY <2>3, <2>4, AppendProperties
    <2>7. \A k \in (1..Len(lock')) \ {Len(w) + 1} : k \in 1..Len(w) /\ lock'[k] = w[k]
      BY <2>6
    <2>8. \A j, k \in (1..Len(lock')) \ {Len(w) + 1} :
            \E m, n \in 1..Len(lock) : lock'[j] = lock[m] /\ lock'[k] = lock[n] /\ (j # k => m # n)
      <3> SUFFICES ASSUME NEW j \in (1..Len(lock')) \ {Len(w) + 1},
                          NEW k \in (1..Len(lock')) \ {Len(w) + 1}
                   PROVE  \E m, n \in 1..Len(lock) :
                            lock'[j] = lock[m] /\ lock'[k] = lock[n] /\ (j # k => m # n)
        OBVIOUS
      <3>1. j \in 1..Len(w) /\ k \in 1..Len(w) /\ lock'[j] = w[j] /\ lock'[k] = w[k] BY <2>7
      <3> QED BY <2>4, <3>1
    <2>9. Joins(d, lock'[Len(w) + 1]) /\ Len(w) + 1 \in Nat BY <2>5, <2>6
    <2>10. \A k \in 1..Len(lock') : lock'[k][2] = d => lock'[k][1] = "close"
      <3> SUFFICES ASSUME NEW k \in 1..Len(lock'), lock'[k][2] = d PROVE lock'[k][1] = "close"
        OBVIOUS
      <3>1. CASE k = Len(w) + 1 BY <2>5, <2>6, <3>1
      <3>2. CASE k # Len(w) + 1 BY <2>4, <2>7, <3>2
      <3> QED BY <3>1, <3>2
    <2> QED BY <2>6, <2>8, <2>9, <2>10
  <1>4. CASE ~Finishes(d) /\ (Begins(d) \/ Cuts(d) \/ ReadEnd(d))
    <2>1. \E f \in Asked : lock' = Append(lock, f) /\ Joins(d, f)
      BY <1>4 DEF Begins, Cuts, ReadEnd, Upload, Joins, Asked
    <2> QED BY <1>2, <1>4, <2>1
  <1>5. CASE ~Finishes(d) /\ \E n \in Nat \ {0} : ReadClient(d, n)
    <2>1. \E f \in Asked : lock' = Append(lock, f) /\ Joins(d, f)
      BY <1>5 DEF ReadClient, Upload, Joins, Asked
    <2> QED BY <1>2, <1>5, <2>1
  <1>6. CASE \/ Refused(d) \/ Relays1(d) \/ TakeData(d) \/ Drained(d) \/ Acknowledges(d)
             \/ TakeEnd(d) \/ Credited(d) \/ ClientGone(d) \/ Puts(d) \/ Drops(d)
    <2>1. UNCHANGED lock
      BY <1>6 DEF Refused, Relays1, TakeData, Drained, Acknowledges, TakeEnd, Credited, ClientGone,
                  Puts, Drops
    <2> QED BY <1>1, <1>3, <2>1
  <1>7. Finishes(d) \/ ~Finishes(d) OBVIOUS
  <1> QED BY <1>3, <1>4, <1>5, <1>6, <1>7, Zenon DEF Managed
-----------------------------------------------------------------------------
(* The pipes hold frames *)

\* What a step of the manager does to a queue, ...
Shifts(c) == Relays1(c) \/ TakeData(c) \/ Acknowledges(c) \/ TakeEnd(c)

LEMMA QueueMoves ==
  ASSUME StreamPipes, NEW c \in Relays, Managed(c)
  PROVE  \/ queue' = queue
         \/ Shifts(c) /\ queue[c] # <<>> /\ queue' = [queue EXCEPT ![c] = Tail(@)]
         \/ Finishes(c) /\ queue' = [queue EXCEPT ![c] = <<>>]
         \/ Puts(c) /\ queue' = [queue EXCEPT ![c] = Append(@, hand)]
         \/ ClientGone(c) /\ queue' = [queue EXCEPT ![c] = Append(@, ClosedOf(c))]
         \/ Cuts(c) /\ queue' = [queue EXCEPT ![c] = <<FaultOf(c)>>]
  <1>1. CASE Shifts(c)
    BY <1>1 DEF Shifts, Relays1, TakeData, Acknowledges, TakeEnd, Takes
  <1>2. CASE Finishes(c) BY <1>2 DEF Finishes, FinishRelay
  <1>3. CASE ClientGone(c)
    <2>1. CASE up[c] = "read" /\ Len(queue[c]) < QueueSize
      <3>1. queue' = [queue EXCEPT ![c] = Append(@, ClosedOf(c))]
        BY <1>3, <2>1 DEF ClientGone, ClosedOf
      <3> QED BY <1>3, <3>1
    <2>2. CASE ~(up[c] = "read" /\ Len(queue[c]) < QueueSize)
      <3>1. queue' = [queue EXCEPT ![c] = queue[c]] \/ queue' = queue
        BY <1>3, <2>2 DEF ClientGone
      <3> QED BY <3>1 DEF StreamPipes
    <2> QED BY <2>1, <2>2
  <1>4. CASE Puts(c) BY <1>4 DEF Puts
  <1>5. CASE Cuts(c) BY <1>5 DEF Cuts
  <1>6. CASE \/ Begins(c) \/ Refused(c) \/ Drained(c) \/ Credited(c) \/ ReadEnd(c)
             \/ (\E n \in Nat \ {0} : ReadClient(c, n)) \/ Drops(c)
    BY <1>6 DEF Begins, Refused, Drained, Credited, ReadEnd, ReadClient, Upload, Drops
  <1> QED BY <1>1, <1>2, <1>3, <1>4, <1>5, <1>6, Zenon DEF Managed, Shifts

\* ... to the frame in the reader's hand ...
LEMMA HandMoves ==
  ASSUME NEW c \in Relays, Managed(c)
  PROVE  /\ UNCHANGED <<input, output, supVars, made, given>>
         /\ \/ hand' = hand
            \/ (Puts(c) \/ Drops(c)) /\ hand' = <<>>
            \/ Cuts(c) /\ hand' = <<"overflow", c, 0>>
  <1>1. CASE Begins(c) \/ Refused(c) \/ Relays1(c) \/ TakeData(c) \/ Drained(c) \/ Acknowledges(c)
    BY <1>1 DEF Begins, Refused, Relays1, TakeData, Drained, Acknowledges
  <1>2. CASE TakeEnd(c) \/ Finishes(c) \/ Credited(c) \/ ReadEnd(c) \/ ClientGone(c)
    BY <1>2 DEF TakeEnd, Finishes, FinishRelay, Credited, ReadEnd, ClientGone, Upload
  <1>3. CASE (\E n \in Nat \ {0} : ReadClient(c, n)) \/ Puts(c) \/ Drops(c) \/ Cuts(c)
    BY <1>3 DEF ReadClient, Upload, Puts, Drops, Cuts
  <1> QED BY <1>1, <1>2, <1>3 DEF Managed

\* ... and what the supervisor's answers are.
LEMMA Answers ==
  ASSUME StreamPipes, NEW c \in Relays, Served(c)
  PROVE  \/ UNCHANGED output
         \/ \E fs \in Seq(Told) :
              /\ output' = output \o fs
              /\ \/ Refuses(c) /\ fs = <<FaultOf(c)>>
                 \/ (Shuts(c) \/ Completes(c)) /\ fs = <<ClosedOf(c)>>
                 \/ Fails(c) /\ fs = <<FaultOf(c), ClosedOf(c)>>
                 \/ Connects(c) /\ fs = <<<<"connected", c, 0>>>>
                 \/ Receives1(c) /\ fs = <<Chunk(c)>>
                 \/ ReceivesEnd(c) /\ fs = <<EndOf(c)>>
                 \/ Gives(c) /\ fs = <<Written(c)>>
  <1>1. /\ FaultOf(c) \in Told /\ ClosedOf(c) \in Told /\ <<"connected", c, 0>> \in Told
        /\ Chunk(c) \in Told /\ EndOf(c) \in Told /\ Written(c) \in Told
    BY DEF FaultOf, ClosedOf, Chunk, EndOf, Written, Told
  <1>2. /\ <<FaultOf(c)>> \in Seq(Told) /\ <<ClosedOf(c)>> \in Seq(Told)
        /\ <<<<"connected", c, 0>>>> \in Seq(Told) /\ <<Chunk(c)>> \in Seq(Told)
        /\ <<EndOf(c)>> \in Seq(Told) /\ <<Written(c)>> \in Seq(Told)
        /\ <<FaultOf(c), ClosedOf(c)>> \in Seq(Told)
    BY <1>1, Few
  <1>3. CASE Refuses(c) BY <1>2, <1>3 DEF Refuses
  <1>4. CASE Shuts(c) BY <1>2, <1>4 DEF Shuts, Closing1
  <1>5. CASE Completes(c) BY <1>2, <1>5 DEF Completes, Closing1
  <1>6. CASE Fails(c) BY <1>2, <1>6 DEF Fails, Closing1
  <1>7. CASE Connects(c) BY <1>2, <1>7 DEF Connects
  <1>8. CASE Receives1(c) BY <1>2, <1>8 DEF Receives1
  <1>9. CASE ReceivesEnd(c) BY <1>2, <1>9 DEF ReceivesEnd
  <1>10. CASE Gives(c) BY <1>2, <1>10 DEF Gives
  <1>11. CASE Opens(c) \/ Stores(c) \/ Notes(c) \/ Retries(c) \/ HalfCloses(c)
    BY <1>11 DEF Opens, Stores, Notes, Retries, HalfCloses
  <1> QED BY <1>3, <1>4, <1>5, <1>6, <1>7, <1>8, <1>9, <1>10, <1>11, Zenon DEF Served

LEMMA PipesKept ==
  ASSUME StreamsAssumption, StreamTypes, StreamPipes, Window, Opening, [StreamsNext]_streamsVars
  PROVE  StreamPipes'
  <1>1. ASSUME UNCHANGED <<lock, input, output, queue, hand>> PROVE StreamPipes'
    BY <1>1 DEF StreamPipes
  <1>2. ASSUME NEW c \in Relays, Served(c) PROVE StreamPipes'
    <2>1. UNCHANGED <<lock, queue, hand>> BY <1>2, ServedFrame
    <2>2. input' \in Seq(Asked)
      <3>1. CASE input' = input BY <3>1 DEF StreamPipes
      <3>2. CASE \E op \in {"connect", "data", "end", "close"} : Receives(op, c)
        BY <3>2, Arrives
      <3> QED BY <1>2, <3>1, <3>2, ServedFrame
    <2>3. output' \in Seq(Told)
      <3>1. CASE UNCHANGED output BY <3>1 DEF StreamPipes
      <3>2. CASE \E fs \in Seq(Told) : output' = output \o fs BY <3>2, Emits
      <3> QED BY <1>2, <3>1, <3>2, Answers
    <2> QED BY <2>1, <2>2, <2>3 DEF StreamPipes
  <1>3. ASSUME NEW c \in Relays, Managed(c) PROVE StreamPipes'
    <2>1. UNCHANGED <<input, output>> BY <1>3, HandMoves
    <2>2. lock' \in Seq(Asked) BY <1>3, LockMoves
    <2>3. hand' \in Told \cup TooSlow \cup {<<>>}
      <3>1. <<"overflow", c, 0>> \in TooSlow BY DEF TooSlow
      <3> QED BY <1>3, <3>1, HandMoves DEF StreamPipes
    <2>4. /\ queue' \in [Relays -> Seq(Told)]
          /\ \A d \in Relays : \A i \in 1..Len(queue'[d]) : queue'[d][i][2] = d
      <3>1. FaultOf(c) \in Told /\ ClosedOf(c) \in Told /\ FaultOf(c)[2] = c /\ ClosedOf(c)[2] = c
        BY DEF FaultOf, ClosedOf, Told
      <3>2. CASE queue' = queue BY <3>2 DEF StreamPipes
      <3>3. ASSUME NEW f \in Told, f[2] = c, queue' = [queue EXCEPT ![c] = Append(@, f)]
            PROVE  /\ queue' \in [Relays -> Seq(Told)]
                   /\ \A d \in Relays : \A i \in 1..Len(queue'[d]) : queue'[d][i][2] = d
        <4>1. /\ queue' \in [Relays -> Seq(Told)] /\ Len(queue[c]) \in Nat
              /\ Len(queue'[c]) = Len(queue[c]) + 1
              /\ \A i \in 1..Len(queue[c]) : queue'[c][i] = queue[c][i]
              /\ queue'[c][Len(queue[c]) + 1] = f
              /\ \A d \in Relays \ {c} : queue'[d] = queue[d]
          BY <3>3, QueuePuts
        <4>2. \A i \in 1..Len(queue'[c]) : queue'[c][i][2] = c BY <3>3, <4>1 DEF StreamPipes
        <4>3. \A d \in Relays \ {c} : \A i \in 1..Len(queue'[d]) : queue'[d][i][2] = d
          BY <4>1 DEF StreamPipes
        <4> QED BY <4>1, <4>2, <4>3
      <3>4. CASE queue[c] # <<>> /\ queue' = [queue EXCEPT ![c] = Tail(@)]
        <4>1. /\ queue' \in [Relays -> Seq(Told)] /\ Len(queue[c]) \in Nat \ {0}
              /\ Len(queue'[c]) = Len(queue[c]) - 1
              /\ \A i \in 1..Len(queue'[c]) : queue'[c][i] = queue[c][i + 1]
              /\ \A d \in Relays \ {c} : queue'[d] = queue[d]
          BY <3>4, QueueTakes
        <4>2. ASSUME NEW i \in 1..Len(queue'[c]) PROVE queue'[c][i][2] = c
          <5>1. i + 1 \in 1..Len(queue[c]) /\ queue'[c][i] = queue[c][i + 1] BY <4>1
          <5>2. \A k \in 1..Len(queue[c]) : queue[c][k][2] = c BY DEF StreamPipes
          <5> QED BY <5>1, <5>2
        <4>3. \A d \in Relays \ {c} : \A i \in 1..Len(queue'[d]) : queue'[d][i][2] = d
          BY <4>1 DEF StreamPipes
        <4> QED BY <4>1, <4>2, <4>3
      <3>5. CASE queue' = [queue EXCEPT ![c] = <<>>]
        BY <3>5 DEF StreamPipes
      <3>6. CASE queue' = [queue EXCEPT ![c] = <<FaultOf(c)>>]
        <4>1. <<FaultOf(c)>> \in Seq(Told) /\ Len(<<FaultOf(c)>>) = 1 /\ <<FaultOf(c)>>[1] = FaultOf(c)
          BY <3>1, Few
        <4>2. /\ queue' \in [Relays -> Seq(Told)] /\ queue'[c] = <<FaultOf(c)>>
              /\ \A d \in Relays \ {c} : queue'[d] = queue[d]
          BY <3>6, <4>1 DEF StreamPipes
        <4>3. \A i \in 1..Len(queue'[c]) : queue'[c][i][2] = c BY <3>1, <4>1, <4>2
        <4>4. \A d \in Relays \ {c} : \A i \in 1..Len(queue'[d]) : queue'[d][i][2] = d
          BY <4>2 DEF StreamPipes
        <4> QED BY <4>2, <4>3, <4>4
      <3>7. Puts(c) => hand \in Told /\ hand[2] = c BY DEF Puts
      <3> QED BY <1>3, <3>1, <3>2, <3>3, <3>4, <3>5, <3>6, <3>7, QueueMoves
    <2> QED BY <2>1, <2>2, <2>3, <2>4 DEF StreamPipes
  <1>4. ASSUME Write PROVE StreamPipes'
    <2>1. lock' \in Seq(Asked) /\ input' \in Seq(Asked) BY <1>4, LockSends
    <2>2. UNCHANGED <<output, queue>> /\ hand' \in {hand, <<>>}
      <3>1. UNCHANGED <<output, queue>> BY <1>4 DEF Write
      <3>2. Head(lock)[1] \in {"connect", "end", "close", "data"} BY <1>4, LockSends, Triples
      <3>3. hand' \in {hand, <<>>} BY <1>4, <3>2 DEF Write
      <3> QED BY <3>1, <3>3
    <2> QED BY <2>1, <2>2 DEF StreamPipes
  <1>5. ASSUME ReadFrame PROVE StreamPipes'
    <2>1. UNCHANGED <<lock, input, queue>> /\ output # <<>> /\ output' = Tail(output) BY <1>5 DEF ReadFrame
    <2>2. output' \in Seq(Told) /\ Head(output) \in Told BY <2>1, ReaderTakes
    <2>3. hand' \in Told \cup {<<>>} BY <1>5, <2>2 DEF ReadFrame
    <2> QED BY <2>1, <2>2, <2>3 DEF StreamPipes
  <1> QED BY <1>1, <1>2, <1>3, <1>4, <1>5, ManagedCases DEF streamsVars
-----------------------------------------------------------------------------
(* Connections and their channels *)

\* What a step of its own does to a connection.
LEMMA TaskMoves ==
  ASSUME StreamTypes, StreamPipes, Attached, NEW d \in Relays, Managed(d)
  PROVE  /\ Over(d) => Over(d)'
         /\ d \in channels' => Begun(d)' /\ (d \in channels \/ Begins(d))
         /\ Begun(d)' /\ d \notin channels' => queue'[d] # <<>> /\ queue'[d][1][1] = "error"
         /\ d \in channels \/ Over(d) => d \in channels' \/ Over(d)' \/ Cuts(d)
         /\ up'[d] \in {"read", "send", "credit"} => Carries(d)'
         /\ at'[d] \in {"new", "connect", "first"} => up'[d] = "off"
         /\ at'[d] = "new" => at[d] = "new"
         /\ at[d] = "connect" => at'[d] = "connect"
         /\ up[d] = "done" => up'[d] = "done"
  <1> USE DEF StreamTypes
  <1>a. /\ d \in channels => Begun(d)
        /\ Begun(d) /\ d \notin channels => queue[d] # <<>> /\ queue[d][1][1] = "error"
        /\ up[d] \in {"read", "send", "credit"} => Carries(d)
        /\ at[d] \in {"new", "connect", "first"} => up[d] = "off"
    BY DEF Attached
  <1>b. queue \in [Relays -> Seq(Told)] BY DEF StreamPipes
  <1>c. queue[d] # <<>> => Head(queue[d]) = queue[d][1] BY QueueHead
  <1>1. CASE Begins(d) BY <1>1, <1>a DEF Begins, Over, Begun, Carries
  <1>2. CASE Refused(d) BY <1>2, <1>a DEF Refused, Over, Begun, Carries
  <1>3. CASE Relays1(d)
    <2>1. d \in channels BY <1>3, <1>a, <1>c DEF Relays1, Begun
    <2> QED BY <1>3, <1>a, <2>1 DEF Relays1, Over, Begun, Carries
  <1>4. CASE TakeData(d)
    <2>1. d \in channels BY <1>4, <1>a, <1>c DEF TakeData, Takes, Begun
    <2> QED BY <1>4, <1>a, <2>1 DEF TakeData, Takes, Over, Begun, Carries
  <1>5. CASE Drained(d) BY <1>5, <1>a DEF Drained, Over, Begun, Carries
  <1>6. CASE Acknowledges(d)
    <2>1. d \in channels BY <1>6, <1>a, <1>c DEF Acknowledges, Begun
    <2> QED BY <1>6, <1>a, <2>1 DEF Acknowledges, Over, Begun, Carries
  <1>7. CASE TakeEnd(d)
    <2>1. d \in channels BY <1>7, <1>a, <1>c DEF TakeEnd, Takes, Begun
    <2> QED BY <1>7, <1>a, <2>1 DEF TakeEnd, Takes, Over, Begun, Carries
  <1>8. CASE Finishes(d)
    <2>1. PICK how \in {"failed", "cut", "closed", "invalid"} : FinishRelay(d, how)
      BY <1>8 DEF Finishes
    <2>2. at'[d] = "close" /\ up'[d] = "done" /\ d \notin channels' BY <2>1 DEF FinishRelay
    <2>3. at[d] # "connect" BY <1>8 DEF Finishes
    <2> QED BY <2>2, <2>3 DEF Over, Begun, Carries
  <1>9. CASE Credited(d) BY <1>9, <1>a DEF Credited, Over, Begun, Carries
  <1>10. CASE ReadEnd(d) BY <1>10, <1>a DEF ReadEnd, Upload, Over, Begun, Carries
  <1>11. CASE \E n \in Nat \ {0} : ReadClient(d, n)
    BY <1>11, <1>a DEF ReadClient, Upload, Over, Begun, Carries
  <1>12. CASE ClientGone(d)
    <2>1. /\ UNCHANGED <<at, channels>> /\ up'[d] \in {up[d], "done"} /\ at[d] \in {"relay", "drain"}
      BY <1>12 DEF ClientGone
    <2>2. queue[d] # <<>> => queue'[d] # <<>> /\ queue'[d][1] = queue[d][1]
      <3>1. CASE queue' = queue BY <3>1
      <3>2. CASE queue' = [queue EXCEPT ![d] = Append(@, ClosedOf(d))]
        <4>1. ClosedOf(d) \in Told /\ ClosedOf(d)[2] = d BY DEF ClosedOf, Told
        <4>2. /\ queue' \in [Relays -> Seq(Told)] /\ Len(queue[d]) \in Nat
              /\ Len(queue'[d]) = Len(queue[d]) + 1
              /\ \A i \in 1..Len(queue[d]) : queue'[d][i] = queue[d][i]
          BY <3>2, <4>1, QueuePuts
        <4>3. ASSUME queue[d] # <<>> PROVE 1 \in 1..Len(queue[d]) BY <4>3, QueueHead
        <4>4. queue'[d] # <<>> BY <4>2
        <4> QED BY <4>2, <4>3, <4>4
      <3>3. queue' = queue \/ queue' = [queue EXCEPT ![d] = Append(@, ClosedOf(d))]
        <4>1. CASE up[d] = "read" /\ Len(queue[d]) < QueueSize
          BY <1>12, <4>1 DEF ClientGone, ClosedOf
        <4>2. CASE ~(up[d] = "read" /\ Len(queue[d]) < QueueSize)
          <5>1. queue' = [queue EXCEPT ![d] = queue[d]] \/ queue' = queue
            BY <1>12, <4>2 DEF ClientGone
          <5> QED BY <1>b, <5>1
        <4> QED BY <4>1, <4>2
      <3> QED BY <3>1, <3>2, <3>3
    <2> QED BY <1>a, <2>1, <2>2 DEF Over, Begun, Carries
  <1>13. CASE Puts(d)
    <2>1. UNCHANGED <<at, up, channels>> BY <1>13 DEF Puts
    <2>2. hand[2] = d /\ ~Over(d) /\ hand \in Told BY <1>13 DEF Puts
    <2>3. d \in channels BY <2>2 DEF Attached
    <2> QED BY <1>a, <2>1, <2>3 DEF Over, Begun, Carries
  <1>14. CASE Drops(d) BY <1>14, <1>a DEF Drops, Over, Begun, Carries
  <1>15. CASE Cuts(d)
    <2>1. FaultOf(d) \in Told /\ FaultOf(d)[1] = "error" BY DEF FaultOf, Told
    <2>2. <<FaultOf(d)>> # <<>> /\ <<FaultOf(d)>>[1] = FaultOf(d) OBVIOUS
    <2>3. UNCHANGED <<at, up>> /\ channels' = channels \ {d} /\ queue' = [queue EXCEPT ![d] = <<FaultOf(d)>>]
      BY <1>15 DEF Cuts
    <2>4. queue'[d] = <<FaultOf(d)>> BY <1>b, <2>3
    <2>5. queue'[d] # <<>> /\ queue'[d][1][1] = "error" BY <2>1, <2>2, <2>4
    <2>6. d \notin channels' BY <2>3
    <2> QED BY <1>15, <1>a, <2>3, <2>5, <2>6 DEF Over, Begun, Carries
  <1> QED
    BY <1>1, <1>2, <1>3, <1>4, <1>5, <1>6, <1>7, <1>8, <1>9, <1>10, <1>11, <1>12, <1>13, <1>14, <1>15,
       Zenon DEF Managed

\* What a write does: whose frame is written is done with it.
LEMMA WriteMoves ==
  ASSUME StreamTypes, StreamPipes, Attached, Opening, Window, Write
  PROVE  LET d == lock[1][2]
         IN  /\ d \in Relays /\ lock[1] \in Asked /\ 1 \in 1..Len(lock)
             /\ UNCHANGED <<result, pending, channels, queue, output, supVars, dataVars, clientVars>>
             /\ \/ /\ lock[1] = <<"connect", d, 0>> /\ at[d] = "connect" /\ at'[d] = "first"
                   /\ up'[d] = up[d] /\ up[d] = "off" /\ hand' = hand
                \/ /\ lock[1] = <<"close", d, 0>> /\ Over(d) /\ at'[d] \in {"close", "done"} /\ up'[d] = up[d]
                   /\ hand' \in {hand, <<>>} /\ hand' = (IF hand = <<"overflow", d, 0>> THEN <<>> ELSE hand)
                \/ /\ lock[1] = <<"close", d, 0>> /\ ~Over(d) /\ at'[d] = at[d] /\ up'[d] = up[d]
                   /\ hand = <<"overflow", d, 0>> /\ hand' = <<>>
                \/ /\ lock[1][1] = "data" /\ lock[1] = <<"data", d, lock[1][3]>> /\ lock[1][3] \in Nat \ {0}
                   /\ Carries(d) /\ at'[d] = at[d] /\ up[d] = "send" /\ up'[d] = "credit" /\ hand' = hand
                \/ /\ lock[1] = <<"end", d, 0>>
                   /\ Carries(d) /\ at'[d] = at[d] /\ up[d] = "send" /\ up'[d] = "done" /\ hand' = hand
  <1> DEFINE d == lock[1][2]
             f == lock[1]
  <1>1. /\ Head(lock) = f /\ f \in Asked /\ 1 \in 1..Len(lock) BY LockSends
  <1>2. /\ f = <<f[1], d, f[3]>> /\ d \in Relays /\ f[3] \in Nat
        /\ f[1] \in {"connect", "end", "close", "data"}
        /\ f[1] = "data" => f[3] > 0
        /\ f[1] # "data" => f[3] = 0
    BY <1>1, Triples
  <1>3. UNCHANGED <<result, pending, channels, queue, output, supVars, dataVars, clientVars>>
    BY DEF Write
  <1>4. CASE f[1] = "connect"
    <2>1. at[d] = "connect" BY <1>1, <1>4 DEF Opening
    <2>2. up[d] = "off" BY <1>2, <2>1 DEF Attached
    <2>3. at' = [at EXCEPT ![d] = "first"] /\ up' = up /\ hand' = hand BY <1>1, <1>4 DEF Write
    <2> QED BY <1>1, <1>2, <1>3, <1>4, <2>1, <2>2, <2>3 DEF StreamTypes
  <1>5. CASE f[1] = "close"
    <2>a. f = <<"close", d, 0>>
      <3>1. f[3] = 0 BY <1>2, <1>5
      <3>2. f = <<f[1], d, f[3]>> BY <1>2
      <3> HIDE DEF f, d
      <3> QED BY <1>5, <3>1, <3>2
    <2>1. Over(d) \/ hand = <<"overflow", d, 0>> BY <1>1, <1>5 DEF Attached
    <2>2. up' = up BY <1>1, <1>5 DEF Write
    <2>3. CASE hand = <<"overflow", d, 0>>
      <3>1. at' = at /\ hand' = <<>> BY <1>1, <1>5, <2>3 DEF Write
      <3>2. f = <<"close", d, 0>> /\ at'[d] = at[d] /\ up'[d] = up[d] /\ (Over(d) => at'[d] \in {"close", "done"})
        <4>1. at'[d] = at[d] /\ up'[d] = up[d] BY <2>2, <3>1
        <4>2. Over(d) => at'[d] \in {"close", "done"} BY <4>1 DEF Over
        <4> QED BY <2>a, <4>1, <4>2
      <3>3. hand' \in {hand, <<>>} /\ hand' = (IF hand = <<"overflow", d, 0>> THEN <<>> ELSE hand)
        BY <2>3, <3>1
      <3>4. hand' = <<>> BY <3>1
      <3> HIDE DEF d, f
      <3> QED BY <1>1, <1>2, <1>3, <2>3, <3>2, <3>3, <3>4 DEF d, f
    <2>4. CASE hand # <<"overflow", d, 0>>
      <3>1. at' = [at EXCEPT ![d] = "done"] /\ hand' = hand BY <1>1, <1>5, <2>4 DEF Write
      <3>2. at'[d] = "done" BY <1>2, <3>1 DEF StreamTypes
      <3>3. f = <<"close", d, 0>> /\ Over(d) /\ at'[d] \in {"close", "done"} /\ up'[d] = up[d]
        <4>1. Over(d) BY <2>1, <2>4
        <4>2. at'[d] \in {"close", "done"} BY <3>2 DEF Over
        <4>3. up'[d] = up[d] BY <2>2
        <4> QED BY <2>a, <4>1, <4>2, <4>3
      <3>4. hand' \in {hand, <<>>} /\ hand' = (IF hand = <<"overflow", d, 0>> THEN <<>> ELSE hand)
        BY <2>4, <3>1
      <3> HIDE DEF d, f
      <3> QED BY <1>1, <1>2, <1>3, <3>3, <3>4 DEF d, f
    <2> QED BY <2>3, <2>4
  <1>6. CASE f[1] = "data"
    <2>1. up[d] = "send" BY <1>1, <1>2, <1>6 DEF Window
    <2>2. Carries(d) BY <1>2, <2>1 DEF Attached
    <2>3. at' = at /\ hand' = hand /\ up' = [up EXCEPT ![d] = "credit"] BY <1>1, <1>6 DEF Write
    <2> QED BY <1>1, <1>2, <1>3, <1>6, <2>1, <2>2, <2>3 DEF StreamTypes
  <1>7. CASE f[1] = "end"
    <2>1. up[d] = "send" BY <1>1, <1>2, <1>7 DEF Window
    <2>2. Carries(d) BY <1>2, <2>1 DEF Attached
    <2>3. at' = at /\ hand' = hand /\ up' = [up EXCEPT ![d] = "done"] BY <1>1, <1>7 DEF Write
    <2> QED BY <1>1, <1>2, <1>3, <1>7, <2>1, <2>2, <2>3 DEF StreamTypes
  <1> QED BY <1>2, <1>4, <1>5, <1>6, <1>7

LEMMA AttachedKept ==
  ASSUME StreamsAssumption, StreamTypes, StreamPipes, Attached, Window, Opening,
         [StreamsNext]_streamsVars
  PROVE  Attached'
  <1>1. ASSUME NEW c \in Relays, Served(c) PROVE Attached'
    <2>1. UNCHANGED <<at, up, channels, queue, hand, lock>> BY <1>1, ServedFrame
    <2>2. ASSUME NEW i \in 1..Len(input'), input'[i][1] = "close" PROVE input'[i][2] \notin channels'
      <3>1. CASE input' = input BY <2>1, <2>2, <3>1 DEF Attached
      <3>2. CASE \E op \in {"connect", "data", "end", "close"} : Receives(op, c)
        <4>1. /\ Len(input) \in Nat \ {0} /\ Len(input') = Len(input) - 1
              /\ \A k \in 1..Len(input') : input'[k] = input[k + 1]
          BY <3>2, Arrives
        <4>2. i + 1 \in 1..Len(input) /\ input'[i] = input[i + 1] BY <4>1
        <4> QED BY <2>1, <2>2, <4>2 DEF Attached
      <3> QED BY <1>1, <3>1, <3>2, ServedFrame
    <2> QED BY <2>1, <2>2 DEF Attached, Begun, Over, Carries
  <1>2. ASSUME NEW d \in Relays, Managed(d) PROVE Attached'
    <2>a. \A c \in Relays \ {d} : Same(c) BY <1>2, OthersManaged
    <2>b. /\ Over(d) => Over(d)'
          /\ d \in channels' => Begun(d)' /\ (d \in channels \/ Begins(d))
          /\ Begun(d)' /\ d \notin channels' => queue'[d] # <<>> /\ queue'[d][1][1] = "error"
          /\ d \in channels \/ Over(d) => d \in channels' \/ Over(d)' \/ Cuts(d)
          /\ up'[d] \in {"read", "send", "credit"} => Carries(d)'
          /\ at'[d] \in {"new", "connect", "first"} => up'[d] = "off"
      BY <1>2, TaskMoves
    <2>c. \A c \in Relays : Over(c) => Over(c)' BY <2>a, <2>b DEF Same, Over
    <2>d. channels' \subseteq Relays BY <1>2, TypesKept DEF StreamTypes
    <2>1. \A c \in channels' : Begun(c)'
      <3> SUFFICES ASSUME NEW c \in channels' PROVE Begun(c)' OBVIOUS
      <3>1. CASE c = d BY <2>b, <3>1
      <3>2. CASE c # d
        <4>1. c \in Relays \ {d} BY <2>d, <3>2
        <4>2. c \in channels /\ at'[c] = at[c] BY <2>a, <4>1 DEF Same
        <4> QED BY <4>2 DEF Attached, Begun
      <3> QED BY <3>1, <3>2
    <2>2. \A c \in Relays \ channels' : Begun(c)' => queue'[c] # <<>> /\ queue'[c][1][1] = "error"
      <3> SUFFICES ASSUME NEW c \in Relays \ channels', Begun(c)'
                   PROVE  queue'[c] # <<>> /\ queue'[c][1][1] = "error"
        OBVIOUS
      <3>1. CASE c = d BY <2>b, <3>1
      <3>2. CASE c # d
        <4>1. Same(c) BY <2>a, <3>2
        <4>2. c \notin channels /\ at'[c] = at[c] /\ queue'[c] = queue[c] BY <4>1 DEF Same
        <4> QED BY <4>2 DEF Attached, Begun
      <3> QED BY <3>1, <3>2
    <2>3. hand' \in Told => hand'[2] \in channels' \/ at'[hand'[2]] \in {"close", "done"}
      <3> SUFFICES ASSUME hand' \in Told PROVE hand'[2] \in channels' \/ at'[hand'[2]] \in {"close", "done"}
        OBVIOUS
      <3>1. hand' # <<>> /\ hand' # <<"overflow", d, 0>> BY InPipes DEF TooSlow
      <3>2. hand' = hand /\ ~Cuts(d)
        BY <1>2, <3>1, HandMoves DEF Cuts
      <3> DEFINE c == hand[2]
      <3>3. c \in Relays /\ (c \in channels \/ Over(c)) BY <3>2, Triples DEF Attached
      <3> HIDE DEF c
      <3>4. c \in channels' \/ at'[c] \in {"close", "done"}
        <4>1. CASE c = d BY <2>b, <3>2, <3>3, <4>1 DEF Over
        <4>2. CASE c # d BY <2>a, <3>3, <4>2 DEF Same, Over
        <4> QED BY <4>1, <4>2
      <3> QED BY <3>2, <3>4 DEF c, Over
    <2>4. \A c \in Relays : up'[c] \in {"read", "send", "credit"} => Carries(c)'
      BY <2>a, <2>b DEF Same, Attached, Carries
    <2>5. \A c \in Relays : at'[c] \in {"new", "connect", "first"} => up'[c] = "off"
      BY <2>a, <2>b DEF Same, Attached
    <2>6. lock' \in Seq(Asked) BY <1>2, LockMoves
    <2>7. PICK p \in Nat :
            /\ p \in 1..Len(lock') => Joins(d, lock'[p])
            /\ \A j, k \in (1..Len(lock')) \ {p} :
                 \E m, n \in 1..Len(lock) :
                   lock'[j] = lock[m] /\ lock'[k] = lock[n] /\ (j # k => m # n)
      BY <1>2, LockMoves
    <2>8. ASSUME p \in 1..Len(lock'), lock'[p][1] = "close"
          PROVE  /\ lock'[p] = <<"close", d, 0>> /\ d \notin channels'
                 /\ Over(d)' \/ (~Over(d) /\ hand \in Told /\ hand' = <<"overflow", d, 0>>)
      <3>1. lock'[p] = <<"close", d, 0>> /\ (Finishes(d) \/ Cuts(d))
        BY <2>7, <2>8 DEF Joins
      <3>2. CASE Finishes(d)
        <4>1. PICK how \in {"failed", "cut", "closed", "invalid"} : FinishRelay(d, how)
          BY <3>2 DEF Finishes
        <4>2. at'[d] = "close" /\ d \notin channels' BY <4>1 DEF FinishRelay, StreamTypes
        <4> QED BY <3>1, <4>2 DEF Over
      <3>3. CASE Cuts(d) BY <3>1, <3>3 DEF Cuts
      <3> QED BY <3>1, <3>2, <3>3
    <2>9. ASSUME NEW i \in 1..Len(lock), lock[i][1] = "close"
          PROVE  /\ lock[i][2] \notin channels'
                 /\ at'[lock[i][2]] \in {"close", "done"} \/ hand' = <<"overflow", lock[i][2], 0>>
      <3>1. lock[i] \in Asked BY InPipes
      <3> DEFINE c == lock[i][2]
      <3>2. c \in Relays /\ c \notin channels /\ (Over(c) \/ hand = <<"overflow", c, 0>>)
        BY <2>9, <3>1, Triples DEF Attached
      <3>3. ~(c = d /\ Begins(d)) BY DEF Opening, Begins
      <3> HIDE DEF c
      <3>4. c \notin channels'
        <4>1. CASE c = d BY <2>b, <3>2, <3>3, <4>1
        <4>2. CASE c # d BY <2>a, <3>2, <4>2 DEF Same
        <4> QED BY <4>1, <4>2
      <3>5. at'[c] \in {"close", "done"} \/ hand' = <<"overflow", c, 0>>
        <4>1. CASE Over(c) BY <2>c, <3>2, <4>1 DEF Over
        <4>2. CASE hand = <<"overflow", c, 0>>
          <5>1. hand \notin Told BY <3>2, <4>2, InPipes DEF TooSlow
          <5>2. hand' = hand BY <1>2, <5>1, HandMoves DEF Puts, Drops, Cuts
          <5> QED BY <4>2, <5>2
        <4> QED BY <3>2, <4>1, <4>2
      <3> QED BY <3>4, <3>5 DEF c
    <2>10. ASSUME NEW k \in 1..Len(lock'), lock'[k][1] = "close"
           PROVE  /\ lock'[k][2] \notin channels'
                  /\ at'[lock'[k][2]] \in {"close", "done"} \/ hand' = <<"overflow", lock'[k][2], 0>>
      <3>1. CASE k = p BY <2>8, <2>10, <3>1 DEF Over
      <3>2. CASE k # p
        <4>1. PICK i \in 1..Len(lock) : lock'[k] = lock[i] BY <2>7, <3>2
        <4>2. lock[i][1] = "close" BY <2>10, <4>1
        <4> QED BY <2>9, <4>1, <4>2
      <3> QED BY <3>1, <3>2
    <2>11. ASSUME NEW j \in 1..Len(lock'), NEW k \in 1..Len(lock'), lock'[j][1] = "close",
                  lock'[k] = lock'[j], j # k
           PROVE  at'[lock'[j][2]] \in {"close", "done"}
      <3>0. ASSUME p \in 1..Len(lock'), NEW i \in 1..Len(lock), lock'[p][1] = "close", lock[i] = lock'[p]
            PROVE  at'[lock'[p][2]] \in {"close", "done"}
        <4>1. /\ lock'[p] = <<"close", d, 0>>
              /\ Over(d)' \/ (~Over(d) /\ hand \in Told /\ hand' = <<"overflow", d, 0>>)
          BY <2>8, <3>0
        <4>2. CASE Over(d)' BY <4>1, <4>2 DEF Over
        <4>3. CASE ~Over(d) /\ hand \in Told
          <5>1. lock[i] = <<"close", d, 0>> BY <3>0, <4>1
          <5>2. Over(d) \/ hand = <<"overflow", d, 0>> BY <5>1 DEF Attached
          <5>3. <<"overflow", d, 0>> \in TooSlow BY DEF TooSlow
          <5> QED BY <4>3, <5>2, <5>3, InPipes
        <4> QED BY <4>1, <4>2, <4>3
      <3>1. CASE j = p
        <4>1. k # p BY <2>11, <3>1
        <4>2. PICK i \in 1..Len(lock) : lock'[k] = lock[i] BY <2>7, <4>1
        <4>3. lock[i] = lock'[p] /\ lock'[p][1] = "close" /\ p \in 1..Len(lock') BY <2>11, <3>1, <4>2
        <4> QED BY <3>0, <3>1, <4>3
      <3>2. CASE k = p
        <4>1. j # p BY <2>11, <3>2
        <4>2. PICK i \in 1..Len(lock) : lock'[j] = lock[i] BY <2>7, <4>1
        <4>3. lock[i] = lock'[p] /\ lock'[p][1] = "close" /\ p \in 1..Len(lock') BY <2>11, <3>2, <4>2
        <4> QED BY <2>11, <3>0, <3>2, <4>3
      <3>3. CASE j # p /\ k # p
        <4>1. PICK m \in 1..Len(lock), n \in 1..Len(lock) :
                lock'[j] = lock[m] /\ lock'[k] = lock[n] /\ m # n
          BY SMTT(30), <2>7, <2>11, <3>3
        <4>2. lock[m][1] = "close" /\ lock[n] = lock[m] BY <2>11, <4>1
        <4>3. Over(lock[m][2]) BY <4>1, <4>2 DEF Attached
        <4>4. lock[m][2] \in Relays BY InPipes, Triples
        <4> QED BY <2>c, <4>1, <4>3, <4>4 DEF Over
      <3> QED BY <3>1, <3>2, <3>3
    <2>12. ASSUME NEW i \in 1..Len(input), input[i][1] = "close" PROVE input[i][2] \notin channels'
      <3>1. input[i] \in Asked BY InPipes
      <3> DEFINE c == input[i][2]
      <3>2. c \in Relays /\ c \notin channels BY <2>12, <3>1, Triples DEF Attached
      <3>3. ~(c = d /\ Begins(d)) BY DEF Opening, Begins
      <3> HIDE DEF c
      <3>4. CASE c = d BY <2>b, <3>2, <3>3, <3>4 DEF c
      <3>5. CASE c # d BY <2>a, <3>2, <3>5 DEF Same, c
      <3> QED BY <3>4, <3>5
    <2>13. input' = input BY <1>2, HandMoves
    <2>14. \A i \in 1..Len(input') : input'[i][1] = "close" => input'[i][2] \notin channels'
      BY <2>12, <2>13
    <2>15. /\ \A i \in 1..Len(lock') : lock'[i][1] = "close" =>
                /\ lock'[i][2] \notin channels'
                /\ at'[lock'[i][2]] \in {"close", "done"} \/ hand' = <<"overflow", lock'[i][2], 0>>
           /\ \A i, j \in 1..Len(lock') :
                lock'[i][1] = "close" /\ lock'[j] = lock'[i] => i = j \/ at'[lock'[i][2]] \in {"close", "done"}
      BY <2>10, <2>11 DEF Over
    <2> QED BY <2>1, <2>2, <2>3, <2>4, <2>5, <2>14, <2>15 DEF Attached, Over
  <1>3. ASSUME Write PROVE Attached'
    <2> DEFINE d == lock[1][2]
    <2>a. \A c \in Relays \ {d} : Same(c) BY <1>3, OthersWrite
    <2>b. /\ d \in Relays /\ lock[1] \in Asked /\ 1 \in 1..Len(lock)
          /\ UNCHANGED <<channels, queue>>
      BY <1>3, WriteMoves
    <2>c. \/ /\ at[d] = "connect" /\ at'[d] = "first" /\ up'[d] = up[d] /\ hand' = hand /\ up[d] = "off"
             /\ lock[1] = <<"connect", d, 0>>
          \/ /\ Over(d) /\ at'[d] \in {"close", "done"} /\ up'[d] = up[d]
             /\ hand' = (IF hand = <<"overflow", d, 0>> THEN <<>> ELSE hand)
             /\ lock[1] = <<"close", d, 0>>
          \/ /\ lock[1] = <<"close", d, 0>> /\ ~Over(d) /\ at'[d] = at[d] /\ up'[d] = up[d]
             /\ hand = <<"overflow", d, 0>> /\ hand' = <<>>
          \/ /\ lock[1][1] # "close" /\ Carries(d) /\ at'[d] = at[d] /\ up[d] = "send"
             /\ up'[d] \in {"credit", "done"} /\ hand' = hand
      <3> HIDE DEF d
      <3> QED BY <1>3, WriteMoves DEF d
    <2>d. /\ Len(lock) \in Nat \ {0} /\ Len(lock') = Len(lock) - 1
          /\ \A i \in 1..Len(lock') : lock'[i] = lock[i + 1]
          /\ Len(input) \in Nat /\ Len(input') = Len(input) + 1
          /\ \A i \in 1..Len(input) : input'[i] = input[i]
          /\ input'[Len(input) + 1] = lock[1]
      BY <1>3, LockSends
    <2>e. \A i \in 1..Len(lock') : i + 1 \in 1..Len(lock) /\ i + 1 # 1 /\ lock'[i] = lock[i + 1] BY <2>d
    <2>f. /\ at[d] \in {"new", "connect", "first"} => up[d] = "off"
          /\ up[d] \in {"read", "send", "credit"} => Carries(d)
      BY <2>b DEF Attached
    <2>g. \A i \in 1..Len(lock') : lock'[i] \in Asked /\ lock'[i][2] \in Relays BY <2>e, InPipes, Triples
    <2> HIDE DEF d
    <2>1. /\ Begun(d) <=> at'[d] \in {"connect", "first", "relay", "drain"}
          /\ Over(d) <=> at'[d] \in {"close", "done"}
          /\ up'[d] \in {"read", "send", "credit"} => at'[d] \in {"relay", "drain"}
          /\ at'[d] \in {"new", "connect", "first"} => up'[d] = "off"
      BY <2>c, <2>f DEF Begun, Over, Carries
    <2>2. \A c \in Relays : (Begun(c) <=> Begun(c)') /\ (Over(c) <=> Over(c)')
      BY <2>1, <2>a DEF Begun, Over, Same
    <2>3. \A c \in Relays : /\ up'[c] \in {"read", "send", "credit"} => Carries(c)'
                            /\ at'[c] \in {"new", "connect", "first"} => up'[c] = "off"
      BY <2>1, <2>a DEF Attached, Carries, Same
    <2>4. \A c \in channels' : Begun(c)' BY <2>2, <2>b DEF Attached, StreamTypes
    <2>5. \A c \in Relays \ channels' : Begun(c)' => queue'[c] # <<>> /\ queue'[c][1][1] = "error"
      BY <2>2, <2>b DEF Attached
    <2>6. hand' \in Told => hand' = hand BY <2>c, InPipes
    <2>7. hand' \in Told => hand'[2] \in channels' \/ at'[hand'[2]] \in {"close", "done"}
      <3> SUFFICES ASSUME hand' \in Told PROVE hand'[2] \in channels' \/ at'[hand'[2]] \in {"close", "done"}
        OBVIOUS
      <3>1. hand' = hand /\ hand[2] \in Relays BY <2>6, Triples
      <3>2. hand[2] \in channels \/ Over(hand[2]) BY <3>1 DEF Attached
      <3> QED BY <2>2, <2>b, <3>1, <3>2 DEF Over
    <2>8. ASSUME NEW i \in 1..Len(lock'), lock'[i][1] = "close"
          PROVE  /\ lock'[i][2] \notin channels'
                 /\ at'[lock'[i][2]] \in {"close", "done"} \/ hand' = <<"overflow", lock'[i][2], 0>>
      <3> DEFINE c == lock[i + 1][2]
      <3>1. i + 1 \in 1..Len(lock) /\ i + 1 # 1 /\ lock[i + 1][1] = "close" /\ lock'[i][2] = c
        BY <2>8, <2>e
      <3>2. c \notin channels /\ (Over(c) \/ hand = <<"overflow", c, 0>>) /\ c \in Relays
        BY <3>1, <2>g DEF Attached
      <3>3. lock[i + 1] = <<"close", c, 0>> BY <3>1, InPipes, Triples
      <3> HIDE DEF c
      <3>4. at'[c] \in {"close", "done"} \/ hand' = <<"overflow", c, 0>>
        <4>1. CASE Over(c) BY <2>2, <3>2, <4>1 DEF Over
        <4>2. CASE ~Over(c)
          <5>1. hand = <<"overflow", c, 0>> BY <3>2, <4>2
          <5>2. CASE c = d /\ lock[1] = <<"close", d, 0>>
            <6>1. lock[1] = lock[i + 1] BY <3>3, <5>2
            <6>2. lock[1][1] = "close" /\ lock[1][2] = c BY <5>2
            <6>3. 1 = i + 1 \/ Over(c) BY <2>b, <3>1, <6>1, <6>2 DEF Attached
            <6> QED BY <3>1, <4>2, <6>3
          <5>3. CASE ~(c = d /\ lock[1] = <<"close", d, 0>>)
            <6>1. hand' = hand BY <2>c, <5>1, <5>3
            <6> QED BY <5>1, <6>1
          <5> QED BY <5>2, <5>3
        <4> QED BY <4>1, <4>2
      <3> QED BY <2>b, <3>1, <3>2, <3>4
    <2>9. ASSUME NEW i \in 1..Len(lock'), NEW j \in 1..Len(lock'), lock'[i][1] = "close",
                 lock'[j] = lock'[i], i # j
          PROVE  at'[lock'[i][2]] \in {"close", "done"}
      <3>1. /\ i + 1 \in 1..Len(lock) /\ j + 1 \in 1..Len(lock) /\ i + 1 # j + 1
            /\ lock'[i] = lock[i + 1] /\ lock'[j] = lock[j + 1]
        BY <2>9, <2>e
      <3>2. Over(lock[i + 1][2]) BY <2>9, <3>1 DEF Attached
      <3> QED BY <2>2, <2>g, <3>1, <3>2 DEF Over
    <2>10. ASSUME NEW i \in 1..Len(input'), input'[i][1] = "close" PROVE input'[i][2] \notin channels'
      <3>1. CASE i = Len(input) + 1 BY <2>10, <2>b, <2>d, <3>1 DEF Attached
      <3>2. CASE i # Len(input) + 1
        <4>1. i \in 1..Len(input) /\ input'[i] = input[i] BY <2>d, <3>2
        <4> QED BY <2>10, <2>b, <4>1 DEF Attached
      <3> QED BY <3>1, <3>2
    <2>11. /\ \A i \in 1..Len(lock') : lock'[i][1] = "close" =>
                /\ lock'[i][2] \notin channels'
                /\ at'[lock'[i][2]] \in {"close", "done"} \/ hand' = <<"overflow", lock'[i][2], 0>>
           /\ \A i, j \in 1..Len(lock') :
                lock'[i][1] = "close" /\ lock'[j] = lock'[i] => i = j \/ at'[lock'[i][2]] \in {"close", "done"}
      BY <2>8, <2>9 DEF Over
    <2>12. hand' \in Told => hand'[2] \in channels' \/ at'[hand'[2]] \in {"close", "done"} BY <2>7 DEF Over
    <2> QED BY <2>3, <2>4, <2>5, <2>10, <2>11, <2>12 DEF Attached, Over
  <1>4. ASSUME ReadFrame PROVE Attached'
    <2>1. UNCHANGED <<at, up, channels, queue, lock, input>> /\ hand = <<>> /\ output # <<>>
      BY <1>4 DEF ReadFrame
    <2>2. hand' = <<>> \/ (hand'[2] \in channels') BY <1>4 DEF ReadFrame
    <2>3. hand' \in Told => hand'[2] \in channels' \/ at'[hand'[2]] \in {"close", "done"} BY <2>2, InPipes
    <2>4. \A c : <<"overflow", c, 0>> # hand BY <2>1
    <2> QED BY <2>1, <2>3, <2>4 DEF Attached, Begun, Over, Carries
  <1>5. ASSUME UNCHANGED streamsVars PROVE Attached'
    BY <1>5 DEF streamsVars, Attached, Begun, Over, Carries
  <1> QED BY <1>1, <1>2, <1>3, <1>4, <1>5, ManagedCases
-----------------------------------------------------------------------------
(* The connect comes first *)

\* What the supervisor writes for one connection is of that connection.
LEMMA Answered ==
  ASSUME StreamPipes, NEW d \in Relays, Served(d)
  PROVE  /\ output' \in Seq(Told) /\ Len(output) \in Nat /\ Len(output') \in Nat
         /\ Len(output) <= Len(output')
         /\ \A i \in 1..Len(output) : output'[i] = output[i]
         /\ \A i \in 1..Len(output') : i > Len(output) => output'[i][2] = d
  <1>1. CASE UNCHANGED output BY <1>1, InPipes DEF StreamPipes
  <1>2. CASE ~UNCHANGED output
    <2>1. PICK fs \in Seq(Told) :
            /\ output' = output \o fs
            /\ fs \in {<<FaultOf(d)>>, <<ClosedOf(d)>>, <<FaultOf(d), ClosedOf(d)>>,
                       <<<<"connected", d, 0>>>>, <<Chunk(d)>>, <<EndOf(d)>>, <<Written(d)>>}
      BY <1>2, Answers, Zenon
    <2>2. /\ output' \in Seq(Told) /\ Len(output) \in Nat /\ Len(fs) \in Nat
          /\ Len(output') = Len(output) + Len(fs)
          /\ \A i \in 1..Len(output) : output'[i] = output[i]
          /\ \A i \in (Len(output) + 1)..Len(output') : output'[i] = fs[i - Len(output)]
      BY <2>1, Emits
    <2>3. \A k \in 1..Len(fs) : fs[k][2] = d
      <3>1. /\ FaultOf(d)[2] = d /\ ClosedOf(d)[2] = d /\ <<"connected", d, 0>>[2] = d
            /\ Chunk(d)[2] = d /\ EndOf(d)[2] = d /\ Written(d)[2] = d
            /\ FaultOf(d) \in Told /\ ClosedOf(d) \in Told
        BY DEF FaultOf, ClosedOf, Chunk, EndOf, Written, Told
      <3>2. ASSUME NEW f, f[2] = d, fs = <<f>> PROVE \A k \in 1..Len(fs) : fs[k][2] = d
        BY <3>2
      <3>3. CASE fs = <<FaultOf(d), ClosedOf(d)>>
        <4>1. Len(fs) = 2 /\ fs[1] = FaultOf(d) /\ fs[2] = ClosedOf(d) BY <3>3
        <4> QED BY <3>1, <4>1
      <3> QED BY <2>1, <3>1, <3>2, <3>3
    <2>4. ASSUME NEW i \in 1..Len(output'), i > Len(output) PROVE output'[i][2] = d
      <3>1. i \in (Len(output) + 1)..Len(output') /\ i - Len(output) \in 1..Len(fs)
        BY <2>2, <2>4
      <3> QED BY <2>2, <2>3, <3>1
    <2> QED BY <2>2, <2>4
  <1> QED BY <1>1, <1>2

\* The first frame of a connection is its connect, and nothing else is.
LEMMA Heard ==
  ASSUME StreamPipes, Opening, NEW c \in Relays, NEW op, Receives(op, c)
  PROVE  /\ op # "connect" => ~Asks(c)
         /\ op = "connect" => Asks(c)
         /\ ~Asks(c)'
  <1>1. /\ Len(input) \in Nat \ {0} /\ Len(input') = Len(input) - 1
        /\ input[1] \in Asked /\ input[1][1] = op /\ input[1][2] = c
        /\ \A i \in 1..Len(input') : input'[i] = input[i + 1]
    BY Arrives
  <1>2. 1 \in 1..Len(input) BY <1>1
  <1>3. at[c] # "new" BY <1>1, <1>2 DEF Opening
  <1>4. \A i \in 1..Len(lock) : lock[i] # <<"connect", c, 0>> BY <1>1, <1>2 DEF Opening
  <1>5. \A i \in 1..Len(input) : input[i] = <<"connect", c, 0>> => i <= 1
    BY <1>1, <1>2 DEF Opening
  <1>6. \A i \in 1..Len(input) : input[i] = <<"connect", c, 0>> => i = 1 BY <1>1, <1>5
  <1>7. op # "connect" => \A i \in 1..Len(input) : input[i] # <<"connect", c, 0>>
    BY <1>1, <1>6
  <1>8. op = "connect" => input[1] = <<"connect", c, 0>>
    BY <1>1, Triples
  <1>9. \A i \in 1..Len(input') : input'[i] # <<"connect", c, 0>>
    <2> SUFFICES ASSUME NEW i \in 1..Len(input') PROVE input'[i] # <<"connect", c, 0>> OBVIOUS
    <2>1. i + 1 \in 1..Len(input) /\ i + 1 # 1 /\ input'[i] = input[i + 1] BY <1>1
    <2> QED BY <1>6, <2>1
  <1>10. at' = at /\ lock' = lock BY DEF Receives
  <1> QED BY <1>2, <1>3, <1>4, <1>7, <1>8, <1>9, <1>10 DEF Asks

\* A connection asks once.
LEMMA AsksLess ==
  ASSUME StreamsAssumption, StreamTypes, StreamPipes, Attached, Window, Opening,
         [StreamsNext]_streamsVars, NEW c \in Relays, Asks(c)'
  PROVE  Asks(c)
  <1>1. ASSUME NEW d \in Relays, Served(d) PROVE Asks(c)
    <2>1. at' = at /\ lock' = lock BY <1>1, ServedFrame
    <2>2. CASE input' = input BY <2>1, <2>2 DEF Asks
    <2>3. CASE \E op \in {"connect", "data", "end", "close"} : Receives(op, d)
      <3>1. /\ Len(input) \in Nat \ {0} /\ Len(input') = Len(input) - 1
            /\ \A k \in 1..Len(input') : input'[k] = input[k + 1]
        BY <2>3, Arrives
      <3>2. \A k \in 1..Len(input') : k + 1 \in 1..Len(input) /\ input'[k] = input[k + 1] BY <3>1
      <3> QED BY <2>1, <3>2 DEF Asks
    <2> QED BY <1>1, <2>2, <2>3, ServedFrame
  <1>2. ASSUME NEW d \in Relays, Managed(d) PROVE Asks(c)
    <2>1. input' = input BY <1>2, HandMoves
    <2>2. CASE at'[c] = "new"
      <3>1. CASE c = d BY <1>2, <2>2, <3>1, TaskMoves DEF Asks
      <3>2. CASE c # d BY <1>2, <2>2, <3>2, OthersManaged DEF Same, Asks
      <3> QED BY <3>1, <3>2
    <2>3. ASSUME NEW k \in 1..Len(lock'), lock'[k] = <<"connect", c, 0>> PROVE Asks(c)
      <3>1. PICK p \in Nat :
              /\ p \in 1..Len(lock') => Joins(d, lock'[p])
              /\ \A i, j \in (1..Len(lock')) \ {p} :
                   \E m, n \in 1..Len(lock) :
                     lock'[i] = lock[m] /\ lock'[j] = lock[n] /\ (i # j => m # n)
        BY <1>2, LockMoves
      <3>2. CASE k = p
        <4>1. Begins(d) /\ c = d BY <2>3, <3>1, <3>2 DEF Joins
        <4> QED BY <4>1 DEF Begins, Asks
      <3>3. CASE k # p
        <4>1. \E m \in 1..Len(lock) : lock'[k] = lock[m] BY <3>1, <3>3
        <4> QED BY <2>3, <4>1 DEF Asks
      <3> QED BY <3>2, <3>3
    <2> QED BY <2>1, <2>2, <2>3 DEF Asks
  <1>3. ASSUME Write PROVE Asks(c)
    <2>1. /\ Len(lock) \in Nat \ {0} /\ Len(lock') = Len(lock) - 1
          /\ \A i \in 1..Len(lock') : lock'[i] = lock[i + 1]
          /\ Len(input) \in Nat /\ Len(input') = Len(input) + 1
          /\ \A i \in 1..Len(input) : input'[i] = input[i]
          /\ input'[Len(input) + 1] = lock[1]
      BY <1>3, LockSends
    <2>2. at'[c] = "new" => at[c] = "new"
      <3>1. CASE c # lock[1][2] BY <1>3, <3>1, OthersWrite DEF Same
      <3>2. CASE c = lock[1][2]
        <4>1. at'[c] \in {"first", "close", "done"} \/ at'[c] = at[c]
          BY <1>3, <3>2, WriteMoves
        <4> QED BY <4>1
      <3> QED BY <3>1, <3>2
    <2>3. ASSUME NEW k \in 1..Len(lock'), lock'[k] = <<"connect", c, 0>> PROVE Asks(c)
      <3>1. k + 1 \in 1..Len(lock) /\ lock[k + 1] = lock'[k] BY <2>1
      <3> QED BY <2>3, <3>1 DEF Asks
    <2>4. ASSUME NEW k \in 1..Len(input'), input'[k] = <<"connect", c, 0>> PROVE Asks(c)
      <3>1. CASE k = Len(input) + 1
        <4>1. 1 \in 1..Len(lock) /\ lock[1] = input'[k] BY <2>1, <3>1
        <4> QED BY <2>4, <4>1 DEF Asks
      <3>2. CASE k # Len(input) + 1
        <4>1. k \in 1..Len(input) /\ input[k] = input'[k] BY <2>1, <3>2
        <4> QED BY <2>4, <4>1 DEF Asks
      <3> QED BY <3>1, <3>2
    <2> QED BY <2>2, <2>3, <2>4 DEF Asks
  <1>4. ASSUME ReadFrame \/ UNCHANGED streamsVars PROVE Asks(c)
    BY <1>4 DEF ReadFrame, streamsVars, Asks
  <1> QED BY <1>1, <1>2, <1>3, <1>4, ManagedCases

\* Nothing comes from the supervisor before a connect has arrived and is answered.
LEMMA UnheardKept ==
  ASSUME StreamsAssumption, StreamTypes, StreamPipes, Attached, Window, Opening,
         [StreamsNext]_streamsVars, NEW c \in Relays, Unheard(c), socket[c] # "open",
         ~(Refuses(c) \/ Shuts(c) \/ Fails(c) \/ Connects(c))
  PROVE  Unheard(c)'
  <1>0. StreamTypes' BY TypesKept
  <1>1. ASSUME NEW d \in Relays, Served(d) PROVE Unheard(c)'
    <2>1. UNCHANGED <<at, result, up, pending, channels, queue, hand, lock, gone, told>>
      BY <1>1, ServedFrame
    <2>2. \A i \in 1..Len(input') : \E k \in 1..Len(input) : input'[i] = input[k]
      <3>1. CASE input' = input BY <3>1
      <3>2. CASE \E op \in {"connect", "data", "end", "close"} : Receives(op, d)
        <4>1. /\ Len(input) \in Nat \ {0} /\ Len(input') = Len(input) - 1
              /\ \A k \in 1..Len(input') : input'[k] = input[k + 1]
          BY <3>2, Arrives
        <4>2. \A k \in 1..Len(input') : k + 1 \in 1..Len(input) /\ input'[k] = input[k + 1] BY <4>1
        <4> QED BY <4>2
      <3> QED BY <1>1, <3>1, <3>2, ServedFrame
    <2>3. \A i \in 1..Len(input') : input'[i][2] = c => input'[i][1] \in {"connect", "close"}
      BY <2>2 DEF Unheard
    <2>4. CASE c # d
      <3>1. Same(c) BY <1>1, <2>4, OthersServed
      <3>2. \A i \in 1..Len(output') : output'[i][2] # c
        <4> SUFFICES ASSUME NEW i \in 1..Len(output') PROVE output'[i][2] # c OBVIOUS
        <4>1. CASE i > Len(output) BY <1>1, <2>4, <4>1, Answered
        <4>2. CASE ~(i > Len(output))
          <5>1. i \in 1..Len(output) /\ output'[i] = output[i] BY <1>1, <4>2, Answered
          <5> QED BY <5>1 DEF Unheard
        <4> QED BY <4>1, <4>2
      <3> QED BY <2>1, <2>3, <3>1, <3>2 DEF Unheard, Same, Carries
    <2>5. CASE c = d
      <3>1. Opens(c) \/ Retries(c)
        <4>1. ~Stores(c) /\ ~Notes(c)
          <5>1. ASSUME NEW op, Receives(op, c) PROVE op \in {"connect", "close"}
            <6>1. 1 \in 1..Len(input) /\ input[1][1] = op /\ input[1][2] = c BY <5>1, Arrives
            <6> QED BY <6>1 DEF Unheard
          <5> QED BY <5>1 DEF Stores, Notes
        <4>2. ~Receives1(c) /\ ~ReceivesEnd(c) /\ ~Gives(c) /\ ~HalfCloses(c) /\ ~Completes(c)
          BY DEF Receives1, ReceivesEnd, Gives, HalfCloses, Completes
        <4> QED BY <1>1, <2>5, <4>1, <4>2 DEF Served
      <3>2. UNCHANGED <<output, buffer, ended, shut, readEnd, dataVars>>
        BY <3>1 DEF Opens, Retries, Receives
      <3> QED BY <2>1, <2>3, <3>2 DEF Unheard, Carries
    <2> QED BY <2>4, <2>5
  <1>2. ASSUME NEW d \in Relays, Managed(d) PROVE Unheard(c)'
    <2>1. UNCHANGED <<input, output, supVars, made, given>> BY <1>2, HandMoves
    <2>2. PICK p \in Nat :
            /\ p \in 1..Len(lock') => Joins(d, lock'[p])
            /\ \A j, k \in (1..Len(lock')) \ {p} :
                 \E m, n \in 1..Len(lock) :
                   lock'[j] = lock[m] /\ lock'[k] = lock[n] /\ (j # k => m # n)
      BY <1>2, LockMoves
    <2>3. \A k \in (1..Len(lock')) \ {p} : \E m \in 1..Len(lock) : lock'[k] = lock[m] BY <2>2
    <2>4. \A k \in (1..Len(lock')) \ {p} : lock'[k][2] = c => lock'[k][1] \in {"connect", "close"}
      BY <2>3 DEF Unheard
    <2>5. CASE c # d
      <3>1. Same(c) BY <1>2, <2>5, OthersManaged
      <3>2. hand' = <<>> \/ hand'[2] # c
        <4>1. <<"overflow", d, 0>>[2] # c BY <2>5
        <4> QED BY <1>2, <4>1, HandMoves DEF Unheard
      <3>3. p \in 1..Len(lock') => lock'[p][2] # c BY <2>2, <2>5 DEF Joins
      <3>4. \A k \in 1..Len(lock') : lock'[k][2] = c => lock'[k][1] \in {"connect", "close"}
        BY <2>4, <3>3
      <3> QED BY <2>1, <3>1, <3>2, <3>4 DEF Unheard, Same, Carries
    <2>6. CASE c = d
      <3>1. Begins(c) \/ Refused(c) \/ Finishes(c)
        <4>1. /\ at[c] \notin {"relay", "drain"} /\ queue[c] = <<>>
              /\ up[c] \notin {"read", "send", "credit"} /\ ~(hand \in Told /\ hand[2] = c)
          BY InPipes DEF Unheard, Carries
        <4>2. /\ ~Relays1(c) /\ ~TakeData(c) /\ ~Drained(c) /\ ~Acknowledges(c) /\ ~TakeEnd(c)
              /\ ~Credited(c) /\ ~ReadEnd(c) /\ ~ClientGone(c)
          BY <4>1 DEF Relays1, TakeData, Takes, Drained, Acknowledges, TakeEnd, Credited, ReadEnd,
                      ClientGone
        <4>3. ~(\E n \in Nat \ {0} : ReadClient(c, n)) /\ ~Puts(c) /\ ~Drops(c) /\ ~Cuts(c)
          BY <4>1 DEF ReadClient, Puts, Drops, Cuts
        <4> QED BY <1>2, <2>6, <4>2, <4>3 DEF Managed
      <3>2. /\ UNCHANGED <<hand, sent, got, gone, told>> /\ queue'[c] = <<>>
            /\ at'[c] \notin {"relay", "drain"} /\ up'[c] \in {"off", "done"} /\ result'[c] # "closed"
        <4>1. CASE Begins(c) BY <4>1 DEF Begins, Unheard, StreamTypes
        <4>2. CASE Refused(c) BY <4>2 DEF Refused, Unheard, StreamTypes
        <4>3. CASE Finishes(c)
          <5>1. PICK how \in {"failed", "cut", "closed", "invalid"} : FinishRelay(c, how) /\ how # "closed"
            BY <4>3 DEF Finishes, Unheard, Carries
          <5>2. queue'[c] = <<>> BY <5>1 DEF FinishRelay, StreamPipes
          <5> QED BY <5>1, <5>2 DEF FinishRelay, StreamTypes
        <4> QED BY <3>1, <4>1, <4>2, <4>3
      <3>3. p \in 1..Len(lock') => lock'[p][1] \in {"connect", "close"}
        <4>1. up[c] # "read" BY DEF Unheard
        <4>2. ASSUME p \in 1..Len(lock') PROVE lock'[p][1] \in {"connect", "close"}
          BY <2>2, <2>6, <4>1, <4>2 DEF Joins, ReadClient, ReadEnd
        <4> QED BY <4>2
      <3>4. \A k \in 1..Len(lock') : lock'[k][2] = c => lock'[k][1] \in {"connect", "close"}
        BY <2>4, <3>3
      <3> QED BY <2>1, <3>2, <3>4 DEF Unheard, Carries
    <2> QED BY <2>5, <2>6
  <1>3. ASSUME Write PROVE Unheard(c)'
    <2>1. /\ Len(lock) \in Nat \ {0} /\ Len(lock') = Len(lock) - 1
          /\ \A i \in 1..Len(lock') : lock'[i] = lock[i + 1]
          /\ Len(input) \in Nat /\ Len(input') = Len(input) + 1
          /\ \A i \in 1..Len(input) : input'[i] = input[i]
          /\ input'[Len(input) + 1] = lock[1]
      BY <1>3, LockSends
    <2>2. 1 \in 1..Len(lock) /\ \A i \in 1..Len(lock') : i + 1 \in 1..Len(lock) BY <2>1
    <2>3. \A i \in 1..Len(lock') : lock'[i][2] = c => lock'[i][1] \in {"connect", "close"}
      BY SMTT(30), <2>1, <2>2 DEF Unheard
    <2>4. \A i \in 1..Len(input') : input'[i][2] = c => input'[i][1] \in {"connect", "close"}
      <3> SUFFICES ASSUME NEW i \in 1..Len(input'), input'[i][2] = c
                   PROVE  input'[i][1] \in {"connect", "close"}
        OBVIOUS
      <3>1. CASE i = Len(input) + 1 BY <2>1, <2>2, <3>1 DEF Unheard
      <3>2. CASE i # Len(input) + 1
        <4>1. i \in 1..Len(input) /\ input'[i] = input[i] BY <2>1, <3>2
        <4> QED BY <4>1 DEF Unheard
      <3> QED BY <3>1, <3>2
    <2>5. UNCHANGED <<result, pending, channels, queue, output, supVars, dataVars, clientVars>>
      BY <1>3 DEF Write
    <2>6. hand' = hand \/ hand' = <<>> BY <1>3, WriteMoves
    <2>7. ~Carries(c)' /\ up'[c] \in {"off", "done"}
      <3>1. CASE c # lock[1][2] BY <1>3, <3>1, OthersWrite DEF Same, Unheard, Carries
      <3>2. CASE c = lock[1][2]
        <4>1. lock[1][1] \in {"connect", "close"} BY <2>2, <3>2 DEF Unheard
        <4>2. (at'[c] \in {"first", "close", "done"} \/ at'[c] = at[c]) /\ up'[c] = up[c]
          BY <1>3, <3>2, <4>1, WriteMoves
        <4> QED BY <4>2 DEF Unheard, Carries
      <3> QED BY <3>1, <3>2
    <2> QED BY <2>3, <2>4, <2>5, <2>6, <2>7 DEF Unheard
  <1>4. ASSUME ReadFrame PROVE Unheard(c)'
    <2>1. /\ UNCHANGED <<taskVars, channels, queue, lock, input, supVars, dataVars, clientVars>>
          /\ hand' \in {Head(output), <<>>} /\ output # <<>> /\ output' = Tail(output)
      BY <1>4 DEF ReadFrame
    <2>2. /\ Len(output) \in Nat \ {0} /\ Len(output') = Len(output) - 1 /\ Head(output) = output[1]
          /\ \A i \in 1..Len(output') : output'[i] = output[i + 1]
      BY <2>1, ReaderTakes
    <2>3. Head(output)[2] # c /\ \A i \in 1..Len(output') : output'[i][2] # c
      <3>1. 1 \in 1..Len(output) /\ \A i \in 1..Len(output') : i + 1 \in 1..Len(output) BY <2>2
      <3> QED BY <2>2, <3>1 DEF Unheard
    <2> QED BY <2>1, <2>3 DEF Unheard, Carries
  <1>5. ASSUME UNCHANGED streamsVars PROVE Unheard(c)'
    BY <1>5 DEF streamsVars, Unheard, Carries
  <1> QED BY <1>1, <1>2, <1>3, <1>4, <1>5, ManagedCases

LEMMA OpeningKept ==
  ASSUME StreamsAssumption, StreamTypes, StreamPipes, Attached, Window, Opening,
         [StreamsNext]_streamsVars
  PROVE  Opening'
  <1>a. StreamTypes' BY TypesKept
  <1>b. ASSUME NEW c \in Relays, Asks(c)' PROVE Unheard(c)' /\ socket'[c] = "none"
    <2>1. Asks(c) /\ Unheard(c) /\ socket[c] = "none" BY <1>b, AsksLess DEF Opening
    <2>2. ~\E op \in {"connect", "data", "end", "close"} : Receives(op, c) BY <1>b, Heard
    <2>3. ~(Opens(c) \/ Refuses(c) \/ Shuts(c) \/ Fails(c) \/ Connects(c))
      BY <2>1, <2>2 DEF Opens, Refuses, Shuts, Fails, Connects, Closing1
    <2>4. Unheard(c)' BY <2>1, <2>3, UnheardKept
    <2>5. socket'[c] = "none"
      <3>1. ASSUME NEW d \in Relays, Served(d) PROVE socket'[c] = "none"
        <4>1. CASE c # d BY <2>1, <3>1, <4>1, OthersServed DEF Same
        <4>2. CASE c = d
          <5>1. ~Retries(c) /\ ~Receives1(c) /\ ~ReceivesEnd(c) /\ ~Gives(c) /\ ~HalfCloses(c) /\ ~Completes(c)
            BY <2>1 DEF Retries, Receives1, ReceivesEnd, Gives, HalfCloses, Completes
          <5>2. ~Stores(c) /\ ~Notes(c) BY <2>2 DEF Stores, Notes
          <5> QED BY <2>3, <3>1, <4>2, <5>1, <5>2 DEF Served
        <4> QED BY <4>1, <4>2
      <3>2. ASSUME (\E d \in Relays : Managed(d)) \/ Write \/ ReadFrame \/ UNCHANGED streamsVars
            PROVE  socket' = socket
        BY <3>2, HandMoves DEF Write, ReadFrame, streamsVars
      <3> QED BY <2>1, <3>1, <3>2, ManagedCases
    <2> QED BY <2>4, <2>5
  <1>c. ASSUME NEW c \in Relays, socket'[c] \in {"v4", "v6"} PROVE Unheard(c)'
    <2>1. \/ socket[c] \in {"v4", "v6"}
          \/ Opens(c)
      <3>1. ASSUME NEW d \in Relays, Served(d) PROVE socket[c] \in {"v4", "v6"} \/ Opens(c)
        <4>1. CASE c # d BY <1>c, <3>1, <4>1, OthersServed DEF Same
        <4>2. CASE c = d
          <5>1. CASE Refuses(c) \/ Stores(c) \/ Notes(c) \/ Receives1(c) \/ ReceivesEnd(c) \/ Gives(c) \/ HalfCloses(c)
            BY <1>c, <5>1 DEF Refuses, Stores, Notes, Receives1, ReceivesEnd, Gives, HalfCloses
          <5>2. CASE Shuts(c) \/ Fails(c) \/ Completes(c)
            BY <1>c, <5>2 DEF Shuts, Fails, Completes, Closing1, StreamTypes
          <5>3. CASE Connects(c) \/ Retries(c) BY <1>c, <5>3 DEF Connects, Retries
          <5> QED BY <3>1, <4>2, <5>1, <5>2, <5>3 DEF Served
        <4> QED BY <4>1, <4>2
      <3>2. ASSUME (\E d \in Relays : Managed(d)) \/ Write \/ ReadFrame \/ UNCHANGED streamsVars
            PROVE  socket' = socket
        BY <3>2, HandMoves DEF Write, ReadFrame, streamsVars
      <3> QED BY <1>c, <3>1, <3>2, ManagedCases
    <2>2. CASE Opens(c)
      <3>1. Asks(c) BY <2>2, Heard DEF Opens
      <3>2. Unheard(c) /\ socket[c] = "none" BY <3>1 DEF Opening
      <3>3. ~(Refuses(c) \/ Shuts(c) \/ Fails(c) \/ Connects(c))
        <4>1. socket'[c] = "v4" BY <2>2 DEF Opens, StreamTypes
        <4> QED BY <3>2, <4>1 DEF Refuses, Shuts, Fails, Connects, Closing1, StreamTypes
      <3> QED BY <3>2, <3>3, UnheardKept
    <2>3. CASE socket[c] \in {"v4", "v6"}
      <3>1. Unheard(c) BY <2>3 DEF Opening
      <3>2. ~Refuses(c)
        <4>1. ASSUME Receives("connect", c) PROVE FALSE
          <5>1. Asks(c) BY <4>1, Heard
          <5> QED BY <2>3, <5>1 DEF Opening
        <4> QED BY <2>3, <4>1 DEF Refuses
      <3>3. ~(Shuts(c) \/ Fails(c) \/ Connects(c))
        BY <1>c, <2>3 DEF Shuts, Fails, Connects, Closing1, StreamTypes
      <3> QED BY <2>3, <3>1, <3>2, <3>3, UnheardKept
    <2> QED BY <2>1, <2>2, <2>3
  <1>1. ASSUME NEW d \in Relays, Served(d) PROVE Opening'
    <2>1. UNCHANGED <<at, lock>> BY <1>1, ServedFrame
    <2>2. \E s \in {0, 1} : /\ \A i \in 1..Len(input') : i + s \in 1..Len(input) /\ input'[i] = input[i + s]
                            /\ Len(input) \in Nat /\ Len(input') \in Nat
      <3>1. CASE input' = input
        <4>1. \A i \in 1..Len(input') : i + 0 \in 1..Len(input) /\ input'[i] = input[i + 0] BY <3>1
        <4> QED BY <3>1, <4>1, InPipes
      <3>2. CASE \E op \in {"connect", "data", "end", "close"} : Receives(op, d)
        <4>1. /\ Len(input) \in Nat \ {0} /\ Len(input') = Len(input) - 1
              /\ \A k \in 1..Len(input') : input'[k] = input[k + 1]
          BY <3>2, Arrives
        <4> QED BY <4>1
      <3> QED BY <1>1, <3>1, <3>2, ServedFrame
    <2>3. PICK s \in {0, 1} : /\ \A i \in 1..Len(input') : i + s \in 1..Len(input) /\ input'[i] = input[i + s]
                              /\ Len(input) \in Nat /\ Len(input') \in Nat
      BY <2>2
    <2>4. \A c \in Relays : at'[c] = "new" =>
            /\ \A i \in 1..Len(lock') : lock'[i][2] # c
            /\ \A i \in 1..Len(input') : input'[i][2] # c
      BY SMTT(30), <2>1, <2>3 DEF Opening
    <2>5. \A i \in 1..Len(lock') : lock'[i][1] = "connect" =>
            /\ at'[lock'[i][2]] = "connect"
            /\ \A j \in 1..Len(lock') : lock'[j][2] = lock'[i][2] => i = j
            /\ \A j \in 1..Len(input') : input'[j][2] # lock'[i][2]
      <3> SUFFICES ASSUME NEW i \in 1..Len(lock'), lock'[i][1] = "connect"
                   PROVE  /\ at'[lock'[i][2]] = "connect"
                          /\ \A j \in 1..Len(lock') : lock'[j][2] = lock'[i][2] => i = j
                          /\ \A j \in 1..Len(input') : input'[j][2] # lock'[i][2]
        OBVIOUS
      <3>1. i \in 1..Len(lock) /\ lock[i][1] = "connect" /\ lock'[i] = lock[i] BY <2>1
      <3>2. /\ at[lock[i][2]] = "connect"
            /\ \A j \in 1..Len(lock) : lock[j][2] = lock[i][2] => i = j
            /\ \A j \in 1..Len(input) : input[j][2] # lock[i][2]
        BY <3>1 DEF Opening
      <3>3. \A j \in 1..Len(input') : input'[j][2] # lock[i][2] BY <2>3, <3>2
      <3> QED BY <2>1, <3>1, <3>2, <3>3
    <2>6. \A i, j \in 1..Len(input') : input'[i][1] = "connect" /\ input'[j][2] = input'[i][2] => i <= j
      <3> SUFFICES ASSUME NEW i \in 1..Len(input'), NEW j \in 1..Len(input'),
                          input'[i][1] = "connect", input'[j][2] = input'[i][2]
                   PROVE  i <= j
        OBVIOUS
      <3>1. i + s \in 1..Len(input) /\ j + s \in 1..Len(input) BY <2>3
      <3>2. input[i + s][1] = "connect" /\ input[j + s][2] = input[i + s][2] BY <2>3
      <3>3. i + s <= j + s BY <3>1, <3>2 DEF Opening
      <3> QED BY <3>3
    <2>7. \A i, j \in 1..Len(input') :
            input'[i][1] = "connect" /\ input'[j][1] = "connect" /\ input'[j][2] = input'[i][2] => i = j
      <3> SUFFICES ASSUME NEW i \in 1..Len(input'), NEW j \in 1..Len(input'),
                          input'[i][1] = "connect", input'[j][1] = "connect", input'[j][2] = input'[i][2]
                   PROVE  i = j
        OBVIOUS
      <3>1. i <= j /\ j <= i BY <2>6
      <3> QED BY <3>1
    <2> QED BY <1>b, <1>c, <2>4, <2>5, <2>6, <2>7 DEF Opening
  <1>2. ASSUME NEW d \in Relays, Managed(d) PROVE Opening'
    <2>1. input' = input BY <1>2, HandMoves
    <2>2. PICK p \in Nat :
            /\ p \in 1..Len(lock') => Joins(d, lock'[p])
            /\ \A j, k \in (1..Len(lock')) \ {p} :
                 \E m, n \in 1..Len(lock) :
                   lock'[j] = lock[m] /\ lock'[k] = lock[n] /\ (j # k => m # n)
      BY <1>2, LockMoves
    <2>3. \A k \in (1..Len(lock')) \ {p} : \E m \in 1..Len(lock) : lock'[k] = lock[m] BY <2>2
    <2>4. ASSUME NEW f, Joins(d, f)
          PROVE  /\ f[2] = d /\ at'[d] # "new"
                 /\ at[d] = "new" => f[1] = "connect"
                 /\ f[1] = "connect" => at[d] = "new" /\ at'[d] = "connect"
                 /\ f[1] # "connect" => \A i \in 1..Len(lock) : lock[i] # <<"connect", d, 0>>
      <3>1. CASE Begins(d) /\ f = <<"connect", d, 0>> BY <3>1 DEF Begins, StreamTypes
      <3>2. CASE (ReadEnd(d) \/ \E n \in Nat \ {0} : ReadClient(d, n)) /\ f[2] = d /\ f[1] \in {"data", "end"}
        <4>1. up[d] = "read" /\ at' = at BY <3>2 DEF ReadEnd, ReadClient, Upload
        <4>2. Carries(d) /\ ~Unheard(d) BY <4>1 DEF Attached, Unheard
        <4>3. ~Asks(d) BY <4>2 DEF Opening
        <4> QED BY <3>2, <4>1, <4>2, <4>3 DEF Carries, Asks
      <3>3. CASE Finishes(d) /\ f = <<"close", d, 0>>
        <4>1. at'[d] = "close" BY <3>3 DEF Finishes, FinishRelay, StreamTypes
        <4>2. at[d] \in {"first", "relay", "drain"} BY <3>3 DEF Finishes
        <4>3. \A i \in 1..Len(lock) : lock[i][1] = "connect" => at[lock[i][2]] = "connect"
          BY DEF Opening
        <4>4. \A i \in 1..Len(lock) : lock[i] # <<"connect", d, 0>> BY <4>2, <4>3
        <4> QED BY <3>3, <4>1, <4>2, <4>4
      <3>4. CASE Cuts(d) /\ f = <<"close", d, 0>>
        <4>1. hand \in Told /\ hand[2] = d /\ at' = at BY <3>4 DEF Cuts
        <4>2. ~Unheard(d) BY <4>1, InPipes DEF Unheard
        <4>3. ~Asks(d) BY <4>2 DEF Opening
        <4> QED BY <3>4, <4>1, <4>3 DEF Asks
      <3> QED BY <2>4, <3>1, <3>2, <3>3, <3>4 DEF Joins
    <2>5. ASSUME NEW c \in Relays, at'[c] = "new"
          PROVE  at[c] = "new" /\ (p \in 1..Len(lock') => lock'[p][2] # c)
      <3>1. CASE c = d
        <4>1. at[c] = "new" BY <1>2, <2>5, <3>1, TaskMoves
        <4>2. p \in 1..Len(lock') => FALSE BY <2>2, <2>4, <2>5, <3>1
        <4> QED BY <4>1, <4>2
      <3>2. CASE c # d
        <4>1. at'[c] = at[c] BY <1>2, <3>2, OthersManaged DEF Same
        <4> QED BY <2>2, <2>4, <2>5, <3>2, <4>1
      <3> QED BY <3>1, <3>2
    <2>6. \A c \in Relays : at'[c] = "new" =>
            /\ \A i \in 1..Len(lock') : lock'[i][2] # c
            /\ \A i \in 1..Len(input') : input'[i][2] # c
      <3> SUFFICES ASSUME NEW c \in Relays, at'[c] = "new"
                   PROVE  /\ \A i \in 1..Len(lock') : lock'[i][2] # c
                          /\ \A i \in 1..Len(input') : input'[i][2] # c
        OBVIOUS
      <3>1. /\ \A i \in 1..Len(lock) : lock[i][2] # c
            /\ \A i \in 1..Len(input) : input[i][2] # c
        BY <2>5 DEF Opening
      <3>2. ASSUME NEW i \in 1..Len(lock') PROVE lock'[i][2] # c
        <4>1. CASE i = p BY <2>5, <4>1
        <4>2. CASE i # p BY <2>3, <3>1, <4>2
        <4> QED BY <4>1, <4>2
      <3> QED BY <2>1, <3>1, <3>2
    <2>7. ASSUME NEW i \in 1..Len(lock'), lock'[i][1] = "connect"
          PROVE  /\ at'[lock'[i][2]] = "connect"
                 /\ \A j \in 1..Len(lock') : lock'[j][2] = lock'[i][2] => i = j
                 /\ \A j \in 1..Len(input') : input'[j][2] # lock'[i][2]
      <3>1. CASE i = p
        <4>1. lock'[i][2] = d /\ at[d] = "new" /\ at'[d] = "connect" BY <2>2, <2>4, <2>7, <3>1
        <4>2. \A j \in 1..Len(input') : input'[j][2] # d BY <2>1, <4>1 DEF Opening
        <4>a. \A j \in 1..Len(lock) : lock[j][2] # d BY <4>1 DEF Opening
        <4>3. \A j \in (1..Len(lock')) \ {p} : lock'[j][2] # d BY <2>3, <4>a
        <4> QED BY <3>1, <4>1, <4>2, <4>3
      <3>2. CASE i # p
        <4>1. PICK m \in 1..Len(lock) : lock'[i] = lock[m] BY <2>3, <3>2
        <4> DEFINE c == lock[m][2]
        <4>2. /\ at[c] = "connect" /\ c \in Relays /\ lock[m] = <<"connect", c, 0>>
              /\ \A j \in 1..Len(lock) : lock[j][2] = c => m = j
              /\ \A j \in 1..Len(input) : input[j][2] # c
          BY SMTT(30), <2>7, <4>1, InPipes, Triples DEF Opening
        <4> HIDE DEF c
        <4>3. at'[c] = "connect"
          <5>1. CASE c = d BY <1>2, <4>2, <5>1, TaskMoves
          <5>2. CASE c # d BY <1>2, <4>2, <5>2, OthersManaged DEF Same
          <5> QED BY <5>1, <5>2
        <4>4. ASSUME p \in 1..Len(lock') PROVE lock'[p][2] # c
          <5>1. /\ lock'[p][2] = d
                /\ lock'[p][1] = "connect" => at[d] = "new"
                /\ lock'[p][1] # "connect" => \A k \in 1..Len(lock) : lock[k] # <<"connect", d, 0>>
            BY <2>2, <2>4, <4>4
          <5>2. c = d => at[d] # "new" BY <4>2
          <5> QED BY <4>2, <5>1, <5>2
        <4>5. \A j \in 1..Len(lock') : lock'[j][2] = c => i = j
          <5> SUFFICES ASSUME NEW j \in 1..Len(lock'), lock'[j][2] = c, i # j PROVE FALSE OBVIOUS
          <5>1. j # p BY <4>4
          <5>2. PICK x \in 1..Len(lock), y \in 1..Len(lock) : lock'[i] = lock[x] /\ lock'[j] = lock[y] /\ x # y
            BY SMTT(30), <2>2, <3>2, <5>1
          <5>3. lock[x] = lock[m] /\ lock[y][2] = c BY <4>1, <5>2
          <5>4. lock[x][2] = c BY <4>2, <5>3
          <5> QED BY <4>2, <5>2, <5>3, <5>4
        <4>6. lock'[i][2] = c BY <4>1, <4>2
        <4> QED BY <2>1, <4>2, <4>3, <4>5, <4>6
      <3> QED BY <3>1, <3>2
    <2>8. /\ \A i, j \in 1..Len(input') : input'[i][1] = "connect" /\ input'[j][2] = input'[i][2] => i <= j
          /\ \A i, j \in 1..Len(input') :
               input'[i][1] = "connect" /\ input'[j][1] = "connect" /\ input'[j][2] = input'[i][2] => i = j
      BY <2>1 DEF Opening
    <2>9. \A i \in 1..Len(lock') : lock'[i][1] = "connect" =>
            /\ at'[lock'[i][2]] = "connect"
            /\ \A j \in 1..Len(lock') : lock'[j][2] = lock'[i][2] => i = j
            /\ \A j \in 1..Len(input') : input'[j][2] # lock'[i][2]
      BY <2>7
    <2> QED BY <1>b, <1>c, <2>6, <2>8, <2>9 DEF Opening
  <1>3. ASSUME Write PROVE Opening'
    <2> DEFINE d == lock[1][2]
    <2>1. /\ Len(lock) \in Nat \ {0} /\ Len(lock') = Len(lock) - 1
          /\ \A i \in 1..Len(lock') : lock'[i] = lock[i + 1]
          /\ Len(input) \in Nat /\ Len(input') = Len(input) + 1
          /\ \A i \in 1..Len(input) : input'[i] = input[i]
          /\ input'[Len(input) + 1] = lock[1]
      BY <1>3, LockSends
    <2>2. 1 \in 1..Len(lock) /\ \A i \in 1..Len(lock') : i + 1 \in 1..Len(lock) /\ i + 1 # 1 BY <2>1
    <2>3. d \in Relays /\ at'[d] # "new" /\ at[d] # "new"
      <3>1. d \in Relays BY <1>3, WriteMoves
      <3>2. at[d] # "new" BY <2>2, <3>1 DEF Opening
      <3>3. at'[d] \in {"first", "close", "done"} \/ at'[d] = at[d] BY <1>3, WriteMoves
      <3> QED BY <3>1, <3>2, <3>3
    <2>4. \A c \in Relays \ {d} : at'[c] = at[c] BY <1>3, OthersWrite DEF Same
    <2>5. lock[1][2] = d OBVIOUS
    <2> HIDE DEF d
    <2>6. \A j \in 1..Len(input') : input'[j] = lock[1] \/ (j \in 1..Len(input) /\ input'[j] = input[j])
      <3> SUFFICES ASSUME NEW j \in 1..Len(input')
                   PROVE  input'[j] = lock[1] \/ (j \in 1..Len(input) /\ input'[j] = input[j])
        OBVIOUS
      <3>1. j = Len(input) + 1 \/ j \in 1..Len(input) BY <2>1
      <3> QED BY <2>1, <3>1
    <2>7. ASSUME NEW c \in Relays, at'[c] = "new"
          PROVE  /\ \A i \in 1..Len(lock') : lock'[i][2] # c
                 /\ \A i \in 1..Len(input') : input'[i][2] # c
      <3>1. c # d /\ at[c] = "new" BY <2>3, <2>4, <2>7
      <3>2. \A i \in 1..Len(lock') : lock'[i][2] # c BY SMTT(30), <2>1, <2>2, <3>1 DEF Opening
      <3>3. \A i \in 1..Len(input') : input'[i][2] # c BY <2>5, <2>6, <3>1 DEF Opening
      <3> QED BY <3>2, <3>3
    <2>8. ASSUME NEW i \in 1..Len(lock'), lock'[i][1] = "connect"
          PROVE  /\ at'[lock'[i][2]] = "connect"
                 /\ \A j \in 1..Len(lock') : lock'[j][2] = lock'[i][2] => i = j
                 /\ \A j \in 1..Len(input') : input'[j][2] # lock'[i][2]
      <3> DEFINE c == lock[i + 1][2]
      <3>1. i + 1 \in 1..Len(lock) /\ lock'[i] = lock[i + 1] /\ i + 1 # 1 BY <2>1, <2>2
      <3>2. /\ at[c] = "connect" /\ c \in Relays
            /\ \A j \in 1..Len(lock) : lock[j][2] = c => i + 1 = j
            /\ \A j \in 1..Len(input) : input[j][2] # c
        BY <2>8, <3>1, InPipes, Triples DEF Opening
      <3>3. lock'[i][2] = c BY <3>1
      <3> HIDE DEF c
      <3>4. c # d BY <2>2, <2>5, <3>1, <3>2
      <3>5. at'[c] = "connect" BY <2>4, <3>2, <3>4
      <3>6. ASSUME NEW j \in 1..Len(lock'), lock'[j][2] = c PROVE i = j
        <4>1. j + 1 \in 1..Len(lock) /\ lock[j + 1][2] = c BY <2>1, <2>2, <3>6
        <4>2. i + 1 = j + 1 BY <3>2, <4>1
        <4>3. i \in Nat /\ j \in Nat OBVIOUS
        <4> QED BY <4>2, <4>3
      <3>7. \A j \in 1..Len(input') : input'[j][2] # c BY <2>5, <2>6, <3>2, <3>4
      <3> QED BY <3>3, <3>5, <3>6, <3>7
    <2>9. ASSUME NEW i \in 1..Len(input'), NEW j \in 1..Len(input'),
                 input'[i][1] = "connect", input'[j][2] = input'[i][2]
          PROVE  i <= j /\ (input'[j][1] = "connect" => i = j)
      <3>1. CASE i = Len(input) + 1
        <4>1. input'[i] = lock[1] BY <2>1, <3>1
        <4>2. \A k \in 1..Len(input) : input[k][2] # lock[1][2] BY <2>2, <2>9, <4>1 DEF Opening
        <4>3. j \notin 1..Len(input) BY <2>1, <2>9, <4>1, <4>2
        <4> QED BY <2>1, <3>1, <4>3
      <3>2. CASE i # Len(input) + 1
        <4>0. i \in 1..Len(input) BY <2>1, <3>2
        <4>1. i \in 1..Len(input) /\ input'[i] = input[i] BY <2>1, <4>0
        <4>2. CASE j \in 1..Len(input)
          <5>1. input'[j] = input[j] BY <2>1, <4>2
          <5> QED BY <2>9, <4>1, <4>2, <5>1 DEF Opening
        <4>3. CASE j \notin 1..Len(input)
          <5>1. j = Len(input) + 1 /\ input'[j] = lock[1] BY <2>1, <4>3
          <5>2. lock[1][1] # "connect" BY <2>2, <2>9, <4>1, <5>1 DEF Opening
          <5>3. i <= j BY <2>1, <4>1, <5>1
          <5> QED BY <5>1, <5>2, <5>3
        <4> QED BY <4>2, <4>3
      <3> QED BY <3>1, <3>2
    <2>10. /\ \A i, j \in 1..Len(input') : input'[i][1] = "connect" /\ input'[j][2] = input'[i][2] => i <= j
           /\ \A i, j \in 1..Len(input') :
                input'[i][1] = "connect" /\ input'[j][1] = "connect" /\ input'[j][2] = input'[i][2] => i = j
      BY <2>9
    <2>11. \A c \in Relays : at'[c] = "new" =>
             /\ \A i \in 1..Len(lock') : lock'[i][2] # c
             /\ \A i \in 1..Len(input') : input'[i][2] # c
      BY <2>7
    <2>12. \A i \in 1..Len(lock') : lock'[i][1] = "connect" =>
             /\ at'[lock'[i][2]] = "connect"
             /\ \A j \in 1..Len(lock') : lock'[j][2] = lock'[i][2] => i = j
             /\ \A j \in 1..Len(input') : input'[j][2] # lock'[i][2]
      BY <2>8
    <2> QED BY <1>b, <1>c, <2>10, <2>11, <2>12 DEF Opening
  <1>4. ASSUME ReadFrame \/ UNCHANGED streamsVars PROVE Opening'
    <2>1. UNCHANGED <<at, lock, input>> BY <1>4 DEF ReadFrame, streamsVars
    <2> QED BY <1>b, <1>c, <2>1 DEF Opening
  <1> QED BY <1>1, <1>2, <1>3, <1>4, ManagedCases
-----------------------------------------------------------------------------
(* What is on its way *)

\* The frames that are counted: what the server has taken, and its data.
LEMMA Weighed ==
  ASSUME NEW c \in Relays
  PROVE  /\ Written(c) \in Told /\ Written(c)[1] = "written" /\ Written(c)[2] = c /\ Written(c)[3] = 1
         /\ Chunk(c) \in Told /\ Chunk(c)[1] = "data" /\ Chunk(c)[2] = c /\ Chunk(c)[3] = 1
         /\ Written(c) # Chunk(c)
         /\ \A f \in Told : f[2] = c => /\ f[1] = "written" => f = Written(c)
                                        /\ f[1] = "data" => f = Chunk(c)
  <1>1. \A f \in Told : f[2] = c => /\ f[1] = "written" => f = <<"written", c, 1>>
                                    /\ f[1] = "data" => f = <<"data", c, 1>>
    BY Triples
  <1> QED BY <1>1 DEF Written, Chunk, Told

LEMMA FlowType ==
  ASSUME StreamPipes, NEW c \in Relays, NEW f
  PROVE  /\ Flow(c, f) \in Nat
         /\ Flow(c, f) = 0 => /\ \A i \in 1..Len(output) : output[i] # f
                              /\ \A i \in 1..Len(queue[c]) : queue[c][i] # f
                              /\ hand # f
         /\ Flow(c, f) = 0 <=> /\ \A i \in 1..Len(output) : output[i] # f
                               /\ \A i \in 1..Len(queue[c]) : queue[c][i] # f
                               /\ hand # f
  <1>1. /\ Count(output, f) \in Nat
        /\ Count(output, f) = 0 <=> \A i \in 1..Len(output) : output[i] # f
    BY CountType DEF StreamPipes
  <1>2. /\ Count(queue[c], f) \in Nat
        /\ Count(queue[c], f) = 0 <=> \A i \in 1..Len(queue[c]) : queue[c][i] # f
    <2>1. queue[c] \in Seq(Told) BY DEF StreamPipes
    <2> QED BY <2>1, CountType
  <1>3. Flow(c, f) \in Nat BY <1>1, <1>2 DEF Flow
  <1>4. Flow(c, f) = 0 <=> Count(output, f) = 0 /\ hand # f /\ Count(queue[c], f) = 0
    BY <1>1, <1>2 DEF Flow
  <1> QED BY <1>1, <1>2, <1>3, <1>4

LEMMA CountNone ==
  ASSUME NEW S, NEW s \in Seq(S), NEW f, Len(s) = 0
  PROVE  Count(s, f) = 0
  <1>1. \A i \in 1..Len(s) : s[i] # f OBVIOUS
  <1> QED BY <1>1, CountType

\* The server takes and sends one, ...
FlowIn(c, f) == (Gives(c) /\ f = Written(c)) \/ (Receives1(c) /\ f = Chunk(c))

LEMMA FlowServed ==
  ASSUME StreamPipes, NEW d \in Relays, Served(d), NEW c \in Relays, NEW f \in {Written(c), Chunk(c)}
  PROVE  Flow(c, f)' = Flow(c, f) + (IF FlowIn(c, f) THEN 1 ELSE 0)
  <1>1. UNCHANGED <<hand, queue>> BY ServedFrame
  <1>2. f \in Told /\ f[2] = c /\ f[1] \in {"written", "data"} BY Weighed
  <1>3. Count(output', f) = Count(output, f) + (IF FlowIn(c, f) THEN 1 ELSE 0)
    <2>1. CASE FlowIn(c, f)
      <3>1. output' = output \o <<f>> BY <2>1 DEF FlowIn, Gives, Receives1
      <3>2. <<f>> \in Seq(Told) /\ Count(<<f>>, f) = 1 BY <1>2, Few
      <3>3. \A g : Count(output', g) = Count(output, g) + Count(<<f>>, g) BY <3>1, <3>2, Emits
      <3> QED BY <2>1, <3>2, <3>3
    <2>2. CASE ~FlowIn(c, f)
      <3>1. CASE UNCHANGED output
        <4>1. Count(output, f) \in Nat BY CountType DEF StreamPipes
        <4> QED BY <2>2, <3>1, <4>1
      <3>2. ASSUME NEW fs \in Seq(Told), output' = output \o fs,
                   \/ Refuses(d) /\ fs = <<FaultOf(d)>>
                   \/ (Shuts(d) \/ Completes(d)) /\ fs = <<ClosedOf(d)>>
                   \/ Fails(d) /\ fs = <<FaultOf(d), ClosedOf(d)>>
                   \/ Connects(d) /\ fs = <<<<"connected", d, 0>>>>
                   \/ Receives1(d) /\ fs = <<Chunk(d)>>
                   \/ ReceivesEnd(d) /\ fs = <<EndOf(d)>>
                   \/ Gives(d) /\ fs = <<Written(d)>>
            PROVE  Count(fs, f) = 0
        <4>1. /\ FaultOf(d) \in Told /\ ClosedOf(d) \in Told /\ <<"connected", d, 0>> \in Told
              /\ Chunk(d) \in Told /\ EndOf(d) \in Told /\ Written(d) \in Told
              /\ FaultOf(d) # f /\ ClosedOf(d) # f /\ <<"connected", d, 0>> # f /\ EndOf(d) # f
          BY <1>2, Weighed DEF FaultOf, ClosedOf, EndOf, Told
        <4>2. CASE fs \in {<<FaultOf(d)>>, <<ClosedOf(d)>>, <<<<"connected", d, 0>>>>, <<EndOf(d)>>}
          <5>1. ASSUME NEW g \in Told, g # f PROVE Count(<<g>>, f) = 0 BY <5>1, Few
          <5> QED BY <4>1, <4>2, <5>1
        <4>3. CASE fs = <<FaultOf(d), ClosedOf(d)>>
          <5>1. Count(<<FaultOf(d)>>, f) = 0 BY <4>1, Few
          <5>2. <<FaultOf(d)>> \in Seq(Told) /\ Append(<<FaultOf(d)>>, ClosedOf(d)) = fs
            BY <4>1, <4>3, Few
          <5>3. ASSUME NEW e \in Seq(Told), Count(e, f) = 0, fs = Append(e, ClosedOf(d))
                PROVE  Count(fs, f) = 0
            <6>1. Count(Append(e, ClosedOf(d)), f) = Count(e, f) + (IF ClosedOf(d) = f THEN 1 ELSE 0)
              BY <4>1, CountAppend
            <6> QED BY <4>1, <5>3, <6>1
          <5> QED BY <5>1, <5>2, <5>3
        <4>4. CASE Receives1(d) /\ fs = <<Chunk(d)>>
          <5>1. Chunk(d) # f BY <1>2, <2>2, <4>4, Weighed DEF FlowIn
          <5> QED BY <4>1, <4>4, <5>1, Few
        <4>5. CASE Gives(d) /\ fs = <<Written(d)>>
          <5>1. Written(d) # f BY <1>2, <2>2, <4>5, Weighed DEF FlowIn
          <5> QED BY <4>1, <4>5, <5>1, Few
        <4> QED BY <3>2, <4>2, <4>3, <4>4, <4>5
      <3>3. ASSUME NEW fs \in Seq(Told), output' = output \o fs, Count(fs, f) = 0
            PROVE  Count(output', f) = Count(output, f) + (IF FlowIn(c, f) THEN 1 ELSE 0)
        <4>1. Count(output, f) \in Nat BY CountType DEF StreamPipes
        <4>2. Count(output', f) = Count(output, f) + Count(fs, f) BY <3>3, Emits
        <4> QED BY <2>2, <3>3, <4>1, <4>2
      <3> QED BY <3>1, <3>2, <3>3, Answers
    <2> QED BY <2>1, <2>2
  <1>4. /\ Count(output, f) \in Nat BY CountType DEF StreamPipes
  <1>5. Count(queue[c], f) \in Nat
    <2>1. queue[c] \in Seq(Told) BY DEF StreamPipes
    <2> QED BY <2>1, CountType
  <1> QED BY <1>1, <1>3, <1>4, <1>5 DEF Flow

\* ... and the connection takes one.
FlowOut(c, f) == (Acknowledges(c) /\ f = Written(c)) \/ (TakeData(c) /\ f = Chunk(c))

LEMMA FlowManaged ==
  ASSUME StreamTypes, StreamPipes, Attached, NEW d \in Relays, Managed(d), NEW c \in Relays,
         NEW f \in {Written(c), Chunk(c)}
  PROVE  /\ Flow(c, f)' \in Nat /\ Flow(c, f)' <= Flow(c, f)
         /\ FlowOut(c, f) => Flow(c, f) = Flow(c, f)' + 1
         /\ c \in channels /\ c \in channels' /\ ~FlowOut(c, f) => Flow(c, f)' = Flow(c, f)
  <1> DEFINE q == Count(queue[c], f)
             r == Count(queue'[c], f)
             h == IF hand = f THEN 1 ELSE 0
             i == IF hand' = f THEN 1 ELSE 0
  <1>a. f \in Told /\ f[2] = c /\ f[1] \in {"written", "data"} BY Weighed
  <1>b. Count(output, f) \in Nat /\ output' = output BY HandMoves, CountType DEF StreamPipes
  <1>c. queue[c] \in Seq(Told) /\ q \in Nat BY CountType DEF StreamPipes
  <1>d. ASSUME r \in Nat, r + i <= q + h, FlowOut(c, f) => q + h = r + i + 1,
               c \in channels /\ c \in channels' /\ ~FlowOut(c, f) => r + i = q + h
        PROVE  /\ Flow(c, f)' \in Nat /\ Flow(c, f)' <= Flow(c, f)
               /\ FlowOut(c, f) => Flow(c, f) = Flow(c, f)' + 1
               /\ c \in channels /\ c \in channels' /\ ~FlowOut(c, f) => Flow(c, f)' = Flow(c, f)
    <2>1. Flow(c, f) = Count(output, f) + h + q /\ Flow(c, f)' = Count(output, f) + i + r
      BY <1>b DEF Flow
    <2>2. h \in Nat /\ i \in Nat OBVIOUS
    <2> HIDE DEF h, i, q, r
    <2> QED BY <1>b, <1>c, <1>d, <2>1, <2>2
  <1>e. ASSUME queue'[c] = queue[c], hand' = hand, ~FlowOut(c, f)
        PROVE  /\ r \in Nat /\ r + i <= q + h /\ (FlowOut(c, f) => q + h = r + i + 1)
               /\ c \in channels /\ c \in channels' /\ ~FlowOut(c, f) => r + i = q + h
    BY <1>c, <1>e
  <1>f. FlowOut(c, f) => /\ queue[c] # <<>> /\ queue' = [queue EXCEPT ![c] = Tail(@)]
                         /\ Head(queue[c]) = f /\ hand' = hand
    <2> SUFFICES ASSUME FlowOut(c, f)
                 PROVE  /\ queue[c] # <<>> /\ queue' = [queue EXCEPT ![c] = Tail(@)]
                        /\ Head(queue[c]) = f /\ hand' = hand
      OBVIOUS
    <2>1. /\ queue[c] # <<>> /\ queue' = [queue EXCEPT ![c] = Tail(@)] /\ hand' = hand
          /\ Head(queue[c])[1] = f[1]
      BY Weighed DEF FlowOut, Acknowledges, TakeData, Takes
    <2>2. Head(queue[c]) \in Told /\ Head(queue[c])[2] = c BY <2>1, QueueHead
    <2> QED BY <1>a, <2>1, <2>2, Weighed
  <1>1. CASE FlowOut(c, f)
    <2>1. \A g : Count(queue[c], g) = Count(queue'[c], g) + (IF Head(queue[c]) = g THEN 1 ELSE 0)
      BY <1>1, <1>f, QueueTakes
    <2>2. queue'[c] \in Seq(Told) BY <1>1, <1>f, QueueTakes
    <2>3. r \in Nat BY <2>2, CountType
    <2>4. q = r + 1 /\ h = i /\ h \in Nat BY <1>1, <1>f, <2>1
    <2> HIDE DEF h, i, q, r
    <2> QED BY <1>1, <1>d, <2>3, <2>4
  <1>2. CASE ~FlowOut(c, f) /\ Shifts(d)
    <2>1. queue[d] # <<>> /\ queue' = [queue EXCEPT ![d] = Tail(@)] /\ hand' = hand
      BY <1>2 DEF Shifts, Relays1, TakeData, Acknowledges, TakeEnd, Takes
    <2>2. CASE d # c
      <3>1. queue'[c] = queue[c] BY <1>c, <2>1, <2>2, QueueTakes
      <3> HIDE DEF h, i, q, r
      <3> QED BY <1>2, <1>d, <1>e, <2>1, <3>1
    <2>3. CASE d = c
      <3>1. Head(queue[c]) # f
        <4>1. Head(queue[c])[1] \in {"connected", "data", "written", "end"}
          BY <1>2, <2>3 DEF Shifts, Relays1, TakeData, Acknowledges, TakeEnd, Takes
        <4>2. Head(queue[c]) = Chunk(c) => TakeData(c)
          BY <1>2, <2>3, Weighed DEF Shifts, Relays1, Acknowledges, TakeEnd, Takes
        <4>3. Head(queue[c]) = Written(c) => Acknowledges(c)
          BY <1>2, <2>3, Weighed DEF Shifts, Relays1, TakeData, TakeEnd, Takes
        <4> QED BY <1>2, <4>2, <4>3 DEF FlowOut
      <3>2. \A g : Count(queue[c], g) = Count(queue'[c], g) + (IF Head(queue[c]) = g THEN 1 ELSE 0)
        BY <2>1, <2>3, QueueTakes
      <3>3. queue'[c] \in Seq(Told) BY <2>1, <2>3, QueueTakes
      <3>4. r \in Nat BY <3>3, CountType
      <3>5. q = r /\ h = i /\ h \in Nat BY <2>1, <3>1, <3>2, <3>4
      <3> HIDE DEF h, i, q, r
      <3> QED BY <1>2, <1>d, <3>4, <3>5
    <2> QED BY <2>2, <2>3
  <1>3. CASE ~FlowOut(c, f) /\ Finishes(d)
    <2>1. queue' = [queue EXCEPT ![d] = <<>>] /\ hand' = hand /\ d \notin channels'
      BY <1>3 DEF Finishes, FinishRelay
    <2>2. CASE d # c
      <3>1. queue'[c] = queue[c] BY <2>1, <2>2
      <3> HIDE DEF h, i, q, r
      <3> QED BY <1>3, <1>d, <1>e, <2>1, <3>1
    <2>3. CASE d = c
      <3>1. queue'[c] = <<>> BY <2>1, <2>3 DEF StreamPipes
      <3>2. <<>> \in Seq(Told) /\ Len(<<>>) = 0 OBVIOUS
      <3>3. r = 0 BY <3>1, <3>2, CountNone
      <3>4. h = i /\ h \in Nat BY <2>1
      <3> HIDE DEF h, i, q, r
      <3>5. r + i <= q + h BY <1>c, <3>3, <3>4
      <3> QED BY <1>3, <1>d, <2>1, <2>3, <3>3, <3>5
    <2> QED BY <2>2, <2>3
  <1>4. CASE ~FlowOut(c, f) /\ Puts(d)
    <2>1. hand \in Told /\ hand[2] = d /\ hand' = <<>> /\ queue' = [queue EXCEPT ![d] = Append(@, hand)]
      BY <1>4 DEF Puts
    <2>2. i = 0 BY <1>a, <2>1, InPipes
    <2>3. CASE d # c
      <3>1. queue'[c] = queue[c] /\ hand # f BY <1>a, <2>1, <2>3
      <3>2. h = 0 /\ r = q BY <3>1
      <3> HIDE DEF h, i, q, r
      <3> QED BY <1>4, <1>c, <1>d, <2>2, <3>2
    <2>4. CASE d = c
      <3>1. Count(queue'[d], f) = Count(queue[d], f) + (IF hand = f THEN 1 ELSE 0)
        <4> HIDE DEF h, i, q, r
        <4>1. queue'[d] = Append(queue[d], hand) /\ queue[d] \in Seq(Told)
          BY <2>1 DEF StreamPipes
        <4> QED BY <2>1, <4>1, CountAppend
      <3>2. r = q + h /\ h \in Nat BY <2>4, <3>1
      <3> HIDE DEF h, i, q, r
      <3> QED BY <1>4, <1>c, <1>d, <2>2, <3>2
    <2> QED BY <2>3, <2>4
  <1>5. CASE ~FlowOut(c, f) /\ Drops(d)
    <2>1. hand \in Told /\ hand[2] = d /\ hand' = <<>> /\ queue' = queue /\ Over(d)
      BY <1>5 DEF Drops
    <2>2. i = 0 /\ h \in Nat /\ r = q BY <1>a, <2>1, InPipes
    <2>3. CASE d # c
      <3>1. h = 0 BY <1>a, <2>1, <2>3
      <3> HIDE DEF h, i, q, r
      <3> QED BY <1>5, <1>c, <1>d, <2>2, <3>1
    <2>4. CASE d = c
      <3>1. c \notin channels BY <2>1, <2>4 DEF Attached, Begun, Over
      <3> HIDE DEF h, i, q, r
      <3> QED BY <1>5, <1>c, <1>d, <2>2, <3>1
    <2> QED BY <2>3, <2>4
  <1>6. CASE ~FlowOut(c, f) /\ Cuts(d)
    <2>1. /\ hand \in Told /\ hand[2] = d /\ hand' = <<"overflow", d, 0>>
          /\ queue' = [queue EXCEPT ![d] = <<FaultOf(d)>>] /\ d \notin channels'
      BY <1>6 DEF Cuts
    <2>2. hand' # f
      <3>1. hand' \in TooSlow BY <2>1 DEF TooSlow
      <3> QED BY <1>a, <3>1, InPipes
    <2>3. i = 0 /\ h \in Nat BY <2>2
    <2>4. CASE d # c
      <3>1. queue'[c] = queue[c] /\ hand # f BY <1>a, <2>1, <2>4
      <3>2. h = 0 /\ r = q BY <3>1
      <3> HIDE DEF h, i, q, r
      <3> QED BY <1>6, <1>c, <1>d, <2>3, <3>2
    <2>5. CASE d = c
      <3>1. queue'[c] = <<FaultOf(c)>> BY <2>1, <2>5 DEF StreamPipes
      <3>2. FaultOf(c) \in Told /\ FaultOf(c) # f BY <1>a DEF FaultOf, Told
      <3>3. r = 0
        <4>1. Count(<<FaultOf(c)>>, f) = 0 BY <3>2, Few
        <4> QED BY <3>1, <4>1
      <3> HIDE DEF h, i, q, r
      <3>4. r + i <= q + h BY <1>c, <2>3, <3>3
      <3> QED BY <1>6, <1>d, <2>1, <2>5, <3>3, <3>4
    <2> QED BY <2>4, <2>5
  <1>7. CASE ~FlowOut(c, f) /\ ClientGone(d)
    <2>1. hand' = hand BY <1>7 DEF ClientGone
    <2>2. queue' = queue \/ queue' = [queue EXCEPT ![d] = Append(@, ClosedOf(d))]
      <3>1. CASE up[d] = "read" /\ Len(queue[d]) < QueueSize BY <1>7, <3>1 DEF ClientGone, ClosedOf
      <3>2. CASE ~(up[d] = "read" /\ Len(queue[d]) < QueueSize)
        <4>1. queue' = [queue EXCEPT ![d] = queue[d]] \/ queue' = queue
          BY <1>7, <3>2 DEF ClientGone
        <4> QED BY <4>1 DEF StreamPipes
      <3> QED BY <3>1, <3>2
    <2>3. CASE queue'[c] = queue[c]
      <3> HIDE DEF h, i, q, r
      <3> QED BY <1>7, <1>d, <1>e, <2>1, <2>3
    <2>4. CASE d = c /\ queue' = [queue EXCEPT ![d] = Append(@, ClosedOf(d))]
      <3>1. ClosedOf(d) \in Told /\ ClosedOf(d)[2] = d /\ ClosedOf(d) # f
        BY <1>a DEF ClosedOf, Told
      <3>2. Count(queue'[d], f) = Count(queue[d], f) + (IF ClosedOf(d) = f THEN 1 ELSE 0)
        <4> HIDE DEF h, i, q, r
        <4>1. queue'[d] = Append(queue[d], ClosedOf(d)) /\ queue[d] \in Seq(Told)
          BY <2>4 DEF StreamPipes
        <4> QED BY <3>1, <4>1, CountAppend
      <3>3. r = q + 0 BY <2>4, <3>1, <3>2
      <3>4. h = i /\ h \in Nat BY <2>1
      <3> HIDE DEF h, i, q, r
      <3> QED BY <1>7, <1>c, <1>d, <3>3, <3>4
    <2>5. d # c => queue'[c] = queue[c] BY <2>2 DEF StreamPipes
    <2> QED BY <2>2, <2>3, <2>4, <2>5
  <1>8. CASE /\ ~FlowOut(c, f)
             /\ \/ Begins(d) \/ Refused(d) \/ Drained(d) \/ Credited(d) \/ ReadEnd(d)
                \/ (\E n \in Nat \ {0} : ReadClient(d, n))
    <2>1. UNCHANGED <<queue, hand>>
      BY <1>8 DEF Begins, Refused, Drained, Credited, ReadEnd, ReadClient, Upload
    <2> HIDE DEF h, i, q, r
    <2> QED BY <1>8, <1>d, <1>e, <2>1
  <1> QED BY <1>1, <1>2, <1>3, <1>4, <1>5, <1>6, <1>7, <1>8, Zenon DEF Managed, Shifts

\* The writes and the reader only move what comes, and drop what is for none.
LEMMA FlowElse ==
  ASSUME StreamPipes, Write \/ ReadFrame \/ UNCHANGED streamsVars, NEW c \in Relays,
         NEW f \in {Written(c), Chunk(c)}
  PROVE  /\ Flow(c, f)' \in Nat /\ Flow(c, f)' <= Flow(c, f)
         /\ c \in channels => Flow(c, f)' = Flow(c, f)
  <1>a. f \in Told /\ f[2] = c BY Weighed
  <1>b. /\ Count(output, f) \in Nat BY CountType DEF StreamPipes
  <1>c. Count(queue[c], f) \in Nat
    <2>1. queue[c] \in Seq(Told) BY DEF StreamPipes
    <2> QED BY <2>1, CountType
  <1>1. CASE Write
    <2>1. UNCHANGED <<output, queue>> BY <1>1 DEF Write
    <2>2. hand' = hand \/ (hand \notin Told /\ hand' = <<>>)
      <3>1. \A d : <<"overflow", d, 0>> \notin Told BY DEF Told
      <3>2. Head(lock)[1] \in {"connect", "close", "data", "end"} BY <1>1, LockSends, Triples
      <3>3. hand' = hand \/ (hand = <<"overflow", Head(lock)[2], 0>> /\ hand' = <<>>)
        BY <1>1, <3>2 DEF Write
      <3> QED BY <3>1, <3>3
    <2>3. hand' = f <=> hand = f BY <1>a, <2>2, InPipes
    <2> QED BY <1>b, <1>c, <2>1, <2>3 DEF Flow
  <1>2. CASE ReadFrame
    <2>1. /\ hand = <<>> /\ output # <<>> /\ output' = Tail(output) /\ queue' = queue
          /\ hand' = IF Head(output)[2] \in channels THEN Head(output) ELSE <<>>
      BY <1>2 DEF ReadFrame
    <2>2. /\ output' \in Seq(Told) /\ Head(output) \in Told
          /\ Count(output, f) = Count(output', f) + (IF Head(output) = f THEN 1 ELSE 0)
      BY <2>1, ReaderTakes
    <2>3. Count(output', f) \in Nat BY <2>2, CountType
    <2>4. hand # f BY <1>a, <2>1, InPipes
    <2>5. hand' = f => Head(output) = f BY <1>a, <2>1, InPipes
    <2>6. Head(output) = f /\ c \in channels => hand' = f BY <1>a, <2>1
    <2> QED BY <1>c, <2>1, <2>2, <2>3, <2>4, <2>5, <2>6 DEF Flow
  <1>3. CASE UNCHANGED streamsVars
    BY <1>3, <1>b, <1>c DEF streamsVars, Flow
  <1> QED BY <1>1, <1>2, <1>3
-----------------------------------------------------------------------------
(* Acknowledgments *)

\* What a step of its own does to the upload of a connection.
LEMMA UploadMoves ==
  ASSUME StreamTypes, StreamPipes, Attached, NEW d \in Relays, Managed(d)
  PROVE  \/ up'[d] = up[d] /\ pending'[d] = pending[d] /\ sent'[d] = sent[d]
         \/ Finishes(d) /\ at'[d] = "close" /\ sent'[d] = sent[d]
         \/ /\ Acknowledges(d) /\ up'[d] = up[d] /\ sent'[d] = sent[d]
            /\ pending[d] >= 1 /\ pending'[d] = pending[d] - 1
         \/ /\ up[d] = "off" /\ up'[d] = "read" /\ pending'[d] = pending[d] /\ sent'[d] = sent[d]
         \/ /\ up[d] = "credit" /\ up'[d] = "read" /\ pending[d] = 0 /\ pending'[d] = 0
            /\ sent'[d] = sent[d]
         \/ /\ ReadEnd(d)
            /\ up[d] = "read" /\ up'[d] = "send" /\ pending'[d] = pending[d] /\ sent'[d] = sent[d]
         \/ /\ up[d] = "read" /\ up'[d] = "done" /\ pending'[d] = pending[d] /\ sent'[d] = sent[d]
         \/ \E n \in Nat \ {0} :
              /\ ReadClient(d, n) /\ up[d] = "read" /\ up'[d] = "send" /\ pending'[d] = n
              /\ sent'[d] = sent[d] + n
  <1> USE DEF StreamTypes
  <1>1. CASE Begins(d) \/ Refused(d) \/ TakeData(d) \/ Drained(d) \/ TakeEnd(d) \/ Puts(d) \/ Drops(d) \/ Cuts(d)
    BY <1>1 DEF Begins, Refused, TakeData, Drained, TakeEnd, Puts, Drops, Cuts
  <1>2. CASE Relays1(d)
    <2>1. up[d] = "off" BY <1>2 DEF Relays1, Attached
    <2> QED BY <1>2, <2>1 DEF Relays1
  <1>3. CASE Acknowledges(d)
    <2>1. queue[d] # <<>> /\ Head(queue[d])[1] = "written" BY <1>3 DEF Acknowledges
    <2>2. Head(queue[d])[3] = 1 BY <2>1, QueueHead, Triples
    <2>3. 1 <= pending[d] /\ pending' = [pending EXCEPT ![d] = @ - 1] BY <1>3, <2>2 DEF Acknowledges
    <2>4. up' = up /\ sent' = sent BY <1>3 DEF Acknowledges
    <2> QED BY <1>3, <2>3, <2>4
  <1>4. CASE Finishes(d) BY <1>4 DEF Finishes, FinishRelay
  <1>5. CASE Credited(d) BY <1>5 DEF Credited
  <1>6. CASE ReadEnd(d) BY <1>6 DEF ReadEnd, Upload
  <1>7. CASE ClientGone(d) BY <1>7 DEF ClientGone
  <1>8. ASSUME NEW n \in Nat \ {0}, ReadClient(d, n)
        PROVE  up[d] = "read" /\ up'[d] = "send" /\ pending'[d] = n /\ sent'[d] = sent[d] + n
    BY <1>8 DEF ReadClient, Upload
  <1> QED BY <1>1, <1>2, <1>3, <1>4, <1>5, <1>6, <1>7, <1>8, Zenon DEF Managed

\* What the supervisor has of a connection's data only changes hands.
LEMMA Balance ==
  ASSUME StreamTypes, StreamPipes, NEW d \in Relays, Served(d), NEW c \in Relays
  PROVE  /\ buffer'[c] \in Nat
         /\ \/ buffer[c] > 0 /\ buffer'[c] = buffer[c] - 1 /\ Taken(c)' = Taken(c) + 1 /\ Gives(c)
            \/ /\ Stores(c) /\ 1 \in 1..Len(input) /\ input[1] \in Asked
               /\ input[1][1] = "data" /\ input[1][2] = c
               /\ buffer'[c] = buffer[c] + input[1][3] /\ Taken(c)' = Taken(c)
            \/ buffer'[c] \in {buffer[c], 0} /\ Taken(c)' = Taken(c)
  <1> USE DEF StreamTypes
  <1>a. Taken(c)' = Taken(c) + (IF Gives(c) THEN 1 ELSE 0)
    <2>1. Flow(c, Written(c))' = Flow(c, Written(c)) + (IF FlowIn(c, Written(c)) THEN 1 ELSE 0)
      BY FlowServed
    <2>2. FlowIn(c, Written(c)) <=> Gives(c) BY Weighed DEF FlowIn
    <2> QED BY <2>1, <2>2 DEF Taken, Written
  <1>b. Taken(c) \in Nat BY FlowType DEF Taken
  <1>c. ~Gives(c) => Taken(c)' = Taken(c) BY <1>a, <1>b
  <1>1. CASE Gives(c)
    <2>1. buffer[c] > 0 /\ buffer'[c] = buffer[c] - 1 BY <1>1 DEF Gives
    <2> QED BY <1>1, <1>a, <2>1
  <1>2. CASE ~Gives(c) /\ c # d
    BY <1>2, <1>c, OthersServed DEF Same
  <1>3. CASE ~Gives(c) /\ c = d /\ Stores(c)
    <2>1. Receives("data", c) BY <1>3 DEF Stores
    <2>2. /\ Len(input) \in Nat \ {0} /\ Head(input) = input[1] /\ input[1] \in Asked
          /\ input[1][1] = "data" /\ input[1][2] = c
      BY <2>1, Arrives
    <2>3. buffer'[c] = buffer[c] + input[1][3] BY <1>3, <2>2 DEF Stores
    <2>4. input[1][3] \in Nat BY <2>2, Triples
    <2>5. 1 \in 1..Len(input) BY <2>2
    <2>6. buffer'[c] \in Nat BY <2>3, <2>4
    <2> QED BY <1>3, <1>c, <2>2, <2>3, <2>5, <2>6
  <1>4. CASE ~Gives(c) /\ c = d /\ ~Stores(c)
    <2>1. CASE Shuts(c) \/ Fails(c) \/ Completes(c)
      BY <1>4, <1>c, <2>1 DEF Shuts, Fails, Completes, Closing1
    <2>2. CASE Opens(c) \/ Refuses(c) \/ Notes(c) \/ Connects(c) \/ Retries(c) \/ Receives1(c) \/ ReceivesEnd(c) \/ HalfCloses(c)
      BY <1>4, <1>c, <2>2 DEF Opens, Refuses, Notes, Connects, Retries, Receives1, ReceivesEnd, HalfCloses
    <2> QED BY <1>4, <2>1, <2>2, Zenon DEF Served
  <1> QED BY <1>1, <1>2, <1>3, <1>4

\* And the manager only takes what has come.
LEMMA TakenLess ==
  ASSUME StreamTypes, StreamPipes, Attached, NEW c \in Relays,
         (\E d \in Relays : Managed(d)) \/ Write \/ ReadFrame \/ UNCHANGED streamsVars
  PROVE  /\ buffer' = buffer /\ Taken(c) \in Nat /\ Taken(c)' \in Nat /\ Taken(c)' <= Taken(c)
         /\ Acknowledges(c) => Taken(c) = Taken(c)' + 1
  <1>1. ASSUME NEW d \in Relays, Managed(d)
        PROVE  /\ Flow(c, Written(c))' \in Nat /\ Flow(c, Written(c))' <= Flow(c, Written(c))
               /\ Acknowledges(c) => Flow(c, Written(c)) = Flow(c, Written(c))' + 1
    <2>1. Acknowledges(c) => FlowOut(c, Written(c)) BY DEF FlowOut
    <2> QED BY <1>1, <2>1, FlowManaged
  <1>2. ASSUME Write \/ ReadFrame \/ UNCHANGED streamsVars
        PROVE  /\ Flow(c, Written(c))' \in Nat /\ Flow(c, Written(c))' <= Flow(c, Written(c))
               /\ ~Acknowledges(c)
    <2>1. queue' = queue BY <1>2 DEF Write, ReadFrame, streamsVars
    <2>2. ~Acknowledges(c)
      <3> SUFFICES ASSUME Acknowledges(c) PROVE FALSE OBVIOUS
      <3>1. queue[c] # <<>> /\ queue' = [queue EXCEPT ![c] = Tail(@)] BY DEF Acknowledges
      <3>2. Len(queue'[c]) = Len(queue[c]) - 1 /\ Len(queue[c]) \in Nat BY <3>1, QueueTakes
      <3> QED BY <2>1, <3>2
    <2> QED BY <1>2, <2>2, FlowElse
  <1>3. buffer' = buffer
    <2>1. ASSUME NEW d \in Relays, Managed(d) PROVE buffer' = buffer BY <2>1, HandMoves
    <2>2. ASSUME Write \/ ReadFrame \/ UNCHANGED streamsVars PROVE buffer' = buffer
      BY <2>2 DEF Write, ReadFrame, streamsVars
    <2> QED BY <2>1, <2>2
  <1>4. Flow(c, Written(c)) \in Nat BY FlowType
  <1> QED BY <1>1, <1>2, <1>3, <1>4 DEF Taken, Written

\* Data or an end that waits for the lock: the upload waits for it.
LEMMA Waiting ==
  ASSUME StreamTypes, StreamPipes, Attached, Window, NEW c \in Relays, NEW i \in 1..Len(lock),
         lock[i][2] = c, lock[i][1] \in {"data", "end"}
  PROVE  /\ up[c] = "send" /\ ~Over(c) /\ buffer[c] = 0 /\ Taken(c) = 0
         /\ lock[i][1] = "data" => pending[c] = lock[i][3] /\ lock[i][3] \in Nat \ {0}
         /\ lock[i][1] = "end" => pending[c] = 0
  <1>1. lock[i][1] = "data" => lock[i][3] \in Nat \ {0} BY InPipes, Triples
  <1>2. up[c] = "send" BY DEF Window
  <1>3. ~Over(c) BY <1>2 DEF Attached, Carries, Over
  <1>4. lock[i][1] = "data" => pending[c] = lock[i][3] /\ buffer[c] = 0 /\ Taken(c) = 0
    BY DEF Window, Settled
  <1>5. lock[i][1] = "end" => pending[c] = 0 BY DEF Window
  <1>6. buffer[c] + Taken(c) <= pending[c] BY <1>3 DEF Window
  <1>7. buffer[c] \in Nat /\ Taken(c) \in Nat BY FlowType DEF StreamTypes, Taken
  <1>8. lock[i][1] = "end" => buffer[c] = 0 /\ Taken(c) = 0 BY <1>5, <1>6, <1>7
  <1> QED BY <1>1, <1>2, <1>3, <1>4, <1>5, <1>8

\* Data that has not arrived: nothing else is with the supervisor.
LEMMA InFlight ==
  ASSUME StreamTypes, StreamPipes, Window, NEW c \in Relays, NEW i \in 1..Len(input),
         input[i][2] = c, input[i][1] = "data", ~Over(c)
  PROVE  /\ up[c] = "credit" /\ pending[c] = input[i][3] /\ input[i][3] \in Nat \ {0}
         /\ buffer[c] = 0 /\ Taken(c) = 0
  <1>1. input[i][3] \in Nat \ {0} BY InPipes, Triples
  <1>2. up[c] = "credit" /\ pending[c] = input[i][3] /\ Settled(c) BY DEF Window
  <1> QED BY <1>1, <1>2 DEF Settled

\* A frame that arrives leaves the others where they are.
LEMMA FrameLeaves ==
  ASSUME StreamPipes, NEW d \in Relays, Served(d)
  PROVE  \E s \in {0, 1} :
           /\ Len(input) \in Nat /\ Len(input') \in Nat
           /\ \A i \in 1..Len(input') : i + s \in 1..Len(input) /\ input'[i] = input[i + s]
           /\ s = 0 => \A c \in Relays : ~Stores(c)
  <1>1. CASE \E op \in {"connect", "data", "end", "close"} : Receives(op, d)
    <2>1. /\ Len(input) \in Nat \ {0} /\ Len(input') = Len(input) - 1
          /\ \A k \in 1..Len(input') : input'[k] = input[k + 1]
      BY <1>1, Arrives
    <2>2. /\ Len(input) \in Nat /\ Len(input') \in Nat
          /\ \A i \in 1..Len(input') : i + 1 \in 1..Len(input) /\ input'[i] = input[i + 1]
      BY <2>1
    <2> QED BY <2>2
  <1>2. CASE input' = input
    <2>1. ASSUME NEW c \in Relays, Stores(c) PROVE FALSE
      <3>1. Receives("data", c) BY <2>1 DEF Stores
      <3>2. Len(input) \in Nat \ {0} /\ Len(input') = Len(input) - 1 BY <3>1, Arrives
      <3> QED BY <1>2, <3>2
    <2>2. /\ Len(input) \in Nat /\ Len(input') \in Nat
          /\ \A i \in 1..Len(input') : i + 0 \in 1..Len(input) /\ input'[i] = input[i + 0]
      BY <1>2, InPipes
    <2> QED BY <2>1, <2>2
  <1> QED BY <1>1, <1>2, ServedFrame

LEMMA WindowServed ==
  ASSUME StreamTypes, StreamPipes, Attached, Window, NEW d \in Relays, Served(d)
  PROVE  Window'
  <1>1. UNCHANGED <<at, up, pending, lock>> BY ServedFrame
  <1>2. PICK s \in {0, 1} :
          /\ Len(input) \in Nat /\ Len(input') \in Nat
          /\ \A i \in 1..Len(input') : i + s \in 1..Len(input) /\ input'[i] = input[i + s]
          /\ s = 0 => \A c \in Relays : ~Stores(c)
    BY FrameLeaves
  <1> SUFFICES ASSUME NEW c \in Relays
               PROVE  /\ \A i \in 1..Len(lock') : lock'[i][2] = c /\ lock'[i][1] \in {"data", "end"} =>
                           /\ up'[c] = "send"
                           /\ lock'[i][1] = "data" => pending'[c] = lock'[i][3] /\ Settled(c)'
                           /\ lock'[i][1] = "end" => pending'[c] = 0
                           /\ \A j \in 1..Len(lock') : lock'[j][2] = c /\ lock'[j][1] \in {"data", "end"} => i = j
                      /\ \A i \in 1..Len(input') : input'[i][2] = c /\ input'[i][1] = "data" =>
                           /\ ~Over(c)' => up'[c] = "credit" /\ pending'[c] = input'[i][3] /\ Settled(c)'
                           /\ \A j \in 1..Len(input') : input'[j][2] = c /\ input'[j][1] = "data" => i = j
                      /\ ~Over(c)' => /\ up'[c] \in {"off", "read", "done"} => pending'[c] = 0
                                      /\ buffer'[c] + Taken(c)' <= pending'[c]
    BY DEF Window
  <1>3. /\ buffer'[c] \in Nat
        /\ \/ buffer[c] > 0 /\ buffer'[c] = buffer[c] - 1 /\ Taken(c)' = Taken(c) + 1
           \/ /\ Stores(c) /\ 1 \in 1..Len(input) /\ input[1] \in Asked
              /\ input[1][1] = "data" /\ input[1][2] = c
              /\ buffer'[c] = buffer[c] + input[1][3] /\ Taken(c)' = Taken(c)
           \/ buffer'[c] \in {buffer[c], 0} /\ Taken(c)' = Taken(c)
    BY Balance
  <1>4. buffer[c] \in Nat /\ Taken(c) \in Nat BY FlowType DEF StreamTypes, Taken
  <1>5. buffer[c] = 0 /\ Taken(c) = 0 /\ ~Stores(c) => Settled(c)' BY <1>3 DEF Settled
  <1>6. ASSUME Stores(c), ~Over(c)
        PROVE  up[c] = "credit" /\ pending[c] = input[1][3] /\ buffer[c] = 0 /\ Taken(c) = 0
               /\ 1 \in 1..Len(input) /\ input[1][1] = "data" /\ input[1][2] = c
    <2>1. Receives("data", c) BY <1>6 DEF Stores
    <2>2. 1 \in 1..Len(input) /\ input[1][1] = "data" /\ input[1][2] = c BY <2>1, Arrives
    <2> QED BY <1>6, <2>2, InFlight
  <1>7. Over(c)' <=> Over(c) BY <1>1 DEF Over
  <1>8. ASSUME NEW i \in 1..Len(lock'), lock'[i][2] = c, lock'[i][1] \in {"data", "end"}
        PROVE  /\ up'[c] = "send"
               /\ lock'[i][1] = "data" => pending'[c] = lock'[i][3] /\ Settled(c)'
               /\ lock'[i][1] = "end" => pending'[c] = 0
               /\ \A j \in 1..Len(lock') : lock'[j][2] = c /\ lock'[j][1] \in {"data", "end"} => i = j
    <2>1. i \in 1..Len(lock) /\ lock[i][2] = c /\ lock[i][1] \in {"data", "end"} /\ lock'[i] = lock[i]
      BY <1>1, <1>8
    <2>2. /\ up[c] = "send" /\ ~Over(c) /\ buffer[c] = 0 /\ Taken(c) = 0
          /\ lock[i][1] = "data" => pending[c] = lock[i][3] /\ lock[i][3] \in Nat \ {0}
          /\ lock[i][1] = "end" => pending[c] = 0
      BY <2>1, Waiting
    <2>3. ~Stores(c) BY <1>6, <2>2
    <2>4. \A j \in 1..Len(lock) : lock[j][2] = c /\ lock[j][1] \in {"data", "end"} => i = j
      BY <2>1 DEF Window
    <2> QED BY <1>1, <1>5, <2>1, <2>2, <2>3, <2>4
  <1>9. ASSUME NEW i \in 1..Len(input'), input'[i][2] = c, input'[i][1] = "data"
        PROVE  /\ ~Over(c)' => up'[c] = "credit" /\ pending'[c] = input'[i][3] /\ Settled(c)'
               /\ \A j \in 1..Len(input') : input'[j][2] = c /\ input'[j][1] = "data" => i = j
    <2>1. /\ i + s \in 1..Len(input) /\ input[i + s][2] = c /\ input[i + s][1] = "data"
          /\ input'[i] = input[i + s]
      BY <1>2, <1>9
    <2>2. \A j \in 1..Len(input) : input[j][2] = c /\ input[j][1] = "data" => i + s = j
      BY <2>1 DEF Window
    <2>3. ASSUME NEW j \in 1..Len(input'), input'[j][2] = c, input'[j][1] = "data" PROVE i = j
      <3>1. j + s \in 1..Len(input) /\ input[j + s][2] = c /\ input[j + s][1] = "data" BY <1>2, <2>3
      <3>2. i + s = j + s BY <2>2, <3>1
      <3> QED BY <3>2
    <2>4. ASSUME ~Over(c)' PROVE up'[c] = "credit" /\ pending'[c] = input'[i][3] /\ Settled(c)'
      <3>1. up[c] = "credit" /\ pending[c] = input[i + s][3] /\ buffer[c] = 0 /\ Taken(c) = 0
        BY <1>7, <2>1, <2>4, InFlight
      <3>2. ~Stores(c)
        <4> SUFFICES ASSUME Stores(c) PROVE FALSE OBVIOUS
        <4>1. i + s = 1 BY <1>6, <1>7, <2>2, <2>4
        <4>2. s = 1 BY <1>2
        <4> QED BY <4>1, <4>2
      <3> QED BY <1>1, <1>5, <2>1, <3>1, <3>2
    <2> QED BY <2>3, <2>4
  <1>10. ASSUME ~Over(c)'
         PROVE  /\ up'[c] \in {"off", "read", "done"} => pending'[c] = 0
                /\ buffer'[c] + Taken(c)' <= pending'[c]
    <2>1. /\ up[c] \in {"off", "read", "done"} => pending[c] = 0
          /\ buffer[c] + Taken(c) <= pending[c]
      BY <1>7, <1>10 DEF Window
    <2>2. pending[c] \in Nat BY DEF StreamTypes
    <2>3. buffer'[c] + Taken(c)' <= pending[c]
      <3>1. CASE Stores(c) /\ buffer'[c] = buffer[c] + input[1][3] /\ Taken(c)' = Taken(c)
        BY <1>6, <1>7, <1>10, <2>2, <3>1
      <3>2. CASE buffer[c] > 0 /\ buffer'[c] = buffer[c] - 1 /\ Taken(c)' = Taken(c) + 1
        BY <1>4, <2>1, <2>2, <3>2
      <3>3. CASE buffer'[c] \in {buffer[c], 0} /\ Taken(c)' = Taken(c)
        BY <1>4, <2>1, <2>2, <3>3
      <3> QED BY <1>3, <3>1, <3>2, <3>3
    <2> QED BY <1>1, <2>1, <2>3
  <1> QED BY <1>8, <1>9, <1>10

LEMMA WindowManaged ==
  ASSUME StreamTypes, StreamPipes, Attached, Opening, Window, NEW d \in Relays, Managed(d)
  PROVE  Window'
  <1>1. input' = input BY HandMoves
  <1>2. PICK p \in Nat :
          /\ p \in 1..Len(lock') => Joins(d, lock'[p])
          /\ \A j, k \in (1..Len(lock')) \ {p} :
               \E m, n \in 1..Len(lock) :
                 lock'[j] = lock[m] /\ lock'[k] = lock[n] /\ (j # k => m # n)
    BY LockMoves
  <1> SUFFICES ASSUME NEW c \in Relays
               PROVE  /\ \A i \in 1..Len(lock') : lock'[i][2] = c /\ lock'[i][1] \in {"data", "end"} =>
                           /\ up'[c] = "send"
                           /\ lock'[i][1] = "data" => pending'[c] = lock'[i][3] /\ Settled(c)'
                           /\ lock'[i][1] = "end" => pending'[c] = 0
                           /\ \A j \in 1..Len(lock') : lock'[j][2] = c /\ lock'[j][1] \in {"data", "end"} => i = j
                      /\ \A i \in 1..Len(input') : input'[i][2] = c /\ input'[i][1] = "data" =>
                           /\ ~Over(c)' => up'[c] = "credit" /\ pending'[c] = input'[i][3] /\ Settled(c)'
                           /\ \A j \in 1..Len(input') : input'[j][2] = c /\ input'[j][1] = "data" => i = j
                      /\ ~Over(c)' => /\ up'[c] \in {"off", "read", "done"} => pending'[c] = 0
                                      /\ buffer'[c] + Taken(c)' <= pending'[c]
    BY DEF Window
  <1>3. /\ buffer' = buffer /\ Taken(c) \in Nat /\ Taken(c)' \in Nat /\ Taken(c)' <= Taken(c)
        /\ Acknowledges(c) => Taken(c) = Taken(c)' + 1
    BY TakenLess
  <1>4. buffer[c] \in Nat /\ pending[c] \in Nat BY DEF StreamTypes
  <1>5. buffer[c] = 0 /\ Taken(c) = 0 => Settled(c)' /\ ~Acknowledges(c) BY <1>3 DEF Settled
  <1>6. Over(c) => Over(c)'
    <2>1. CASE c = d BY <2>1, TaskMoves
    <2>2. CASE c # d BY <2>2, OthersManaged DEF Same, Over
    <2> QED BY <2>1, <2>2
  <1>7. c # d => up'[c] = up[c] /\ pending'[c] = pending[c] BY OthersManaged DEF Same
  <1>8. ASSUME NEW i \in 1..Len(lock), lock[i][2] = c, lock[i][1] \in {"data", "end"}, ~Finishes(c)
        PROVE  /\ up'[c] = "send" /\ Settled(c)'
               /\ lock[i][1] = "data" => pending'[c] = lock[i][3]
               /\ lock[i][1] = "end" => pending'[c] = 0
    <2>1. /\ up[c] = "send" /\ ~Over(c) /\ buffer[c] = 0 /\ Taken(c) = 0
          /\ lock[i][1] = "data" => pending[c] = lock[i][3] /\ lock[i][3] \in Nat \ {0}
          /\ lock[i][1] = "end" => pending[c] = 0
      BY <1>8, Waiting
    <2>2. up'[c] = up[c] /\ pending'[c] = pending[c]
      <3>1. CASE c = d BY <1>5, <1>8, <2>1, <3>1, UploadMoves
      <3>2. CASE c # d BY <1>7, <3>2
      <3> QED BY <3>1, <3>2
    <2> QED BY <1>5, <2>1, <2>2
  <1>9. ASSUME p \in 1..Len(lock'), lock'[p][2] = c, lock'[p][1] \in {"data", "end"}
        PROVE  /\ c = d /\ up[c] = "read" /\ up'[c] = "send" /\ Settled(c)'
               /\ lock'[p][1] = "data" => pending'[c] = lock'[p][3]
               /\ lock'[p][1] = "end" => pending'[c] = 0
    <2>1. /\ c = d
          /\ \/ \E n \in Nat \ {0} : ReadClient(c, n) /\ lock'[p] = <<"data", c, n>>
             \/ ReadEnd(c) /\ lock'[p] = <<"end", c, 0>>
      BY <1>2, <1>9 DEF Joins
    <2>2. up[c] = "read" /\ up'[c] = "send" BY <2>1 DEF ReadClient, ReadEnd, Upload, StreamTypes
    <2>3. pending[c] = 0 /\ buffer[c] = 0 /\ Taken(c) = 0
      <3>1. ~Over(c) BY <2>2 DEF Attached, Carries, Over
      <3>2. pending[c] = 0 /\ buffer[c] + Taken(c) <= pending[c] BY <2>2, <3>1 DEF Window
      <3> QED BY <1>3, <1>4, <3>2
    <2>4. /\ lock'[p][1] = "data" => pending'[c] = lock'[p][3]
          /\ lock'[p][1] = "end" => pending'[c] = 0
      <3>1. ASSUME NEW n \in Nat \ {0}, ReadClient(c, n), lock'[p] = <<"data", c, n>>
            PROVE  pending'[c] = lock'[p][3] /\ lock'[p][1] = "data"
        BY <3>1 DEF ReadClient, StreamTypes
      <3>2. ASSUME ReadEnd(c), lock'[p] = <<"end", c, 0>>
            PROVE  pending'[c] = 0 /\ lock'[p][1] = "end"
        BY <2>3, <3>2 DEF ReadEnd
      <3> QED BY <2>1, <3>1, <3>2
    <2> QED BY <1>5, <2>1, <2>2, <2>3, <2>4
  <1>10. ASSUME NEW i \in (1..Len(lock')) \ {p}, lock'[i][2] = c, lock'[i][1] \in {"data", "end"}
         PROVE  /\ up'[c] = "send" /\ Settled(c)' /\ up[c] = "send"
                /\ lock'[i][1] = "data" => pending'[c] = lock'[i][3]
                /\ lock'[i][1] = "end" => pending'[c] = 0
    <2>1. PICK m \in 1..Len(lock) : lock'[i] = lock[m] BY <1>2
    <2>2. ~Finishes(c)
      <3>1. CASE c = d BY <1>10, <3>1, LockMoves
      <3>2. CASE c # d
        <4>1. ASSUME Finishes(c) PROVE FALSE
          <5>1. at'[c] = "close" /\ at[c] # "close" BY <4>1 DEF Finishes, FinishRelay, StreamTypes
          <5>2. at'[c] = at[c] BY <3>2, OthersManaged DEF Same
          <5> QED BY <5>1, <5>2
        <4> QED BY <4>1
      <3> QED BY <3>1, <3>2
    <2>3. lock[m][2] = c /\ lock[m][1] \in {"data", "end"} BY <1>10, <2>1
    <2>4. up[c] = "send" BY <2>3 DEF Window
    <2> QED BY <1>8, <2>1, <2>2, <2>3, <2>4
  <1>11. ASSUME NEW i \in 1..Len(lock'), lock'[i][2] = c, lock'[i][1] \in {"data", "end"}
         PROVE  /\ up'[c] = "send"
                /\ lock'[i][1] = "data" => pending'[c] = lock'[i][3] /\ Settled(c)'
                /\ lock'[i][1] = "end" => pending'[c] = 0
                /\ \A j \in 1..Len(lock') : lock'[j][2] = c /\ lock'[j][1] \in {"data", "end"} => i = j
    <2>1. /\ up'[c] = "send" /\ Settled(c)'
          /\ lock'[i][1] = "data" => pending'[c] = lock'[i][3]
          /\ lock'[i][1] = "end" => pending'[c] = 0
      <3>1. CASE i = p BY <1>9, <1>11, <3>1
      <3>2. CASE i # p BY <1>10, <1>11, <3>2
      <3> QED BY <3>1, <3>2
    <2>2. ASSUME NEW j \in 1..Len(lock'), lock'[j][2] = c, lock'[j][1] \in {"data", "end"}, i # j
          PROVE  FALSE
      <3>1. CASE i = p
        <4>1. up[c] = "read" BY <1>9, <1>11, <3>1
        <4>2. up[c] = "send" BY <1>10, <2>2, <3>1
        <4> QED BY <4>1, <4>2
      <3>2. CASE j = p
        <4>1. up[c] = "read" BY <1>9, <2>2, <3>2
        <4>2. up[c] = "send" BY <1>10, <1>11, <2>2, <3>2
        <4> QED BY <4>1, <4>2
      <3>3. CASE i # p /\ j # p
        <4>0. /\ i \in (1..Len(lock')) \ {p} /\ j \in (1..Len(lock')) \ {p} /\ i # j BY <2>2, <3>3
        <4>1. PICK m \in 1..Len(lock), n \in 1..Len(lock) :
                lock'[i] = lock[m] /\ lock'[j] = lock[n] /\ (i # j => m # n)
          BY <1>2, <4>0, Zenon
        <4> QED BY <1>11, <2>2, <4>0, <4>1 DEF Window
      <3> QED BY <3>1, <3>2, <3>3
    <2> QED BY <2>1, <2>2
  <1>12. ASSUME NEW i \in 1..Len(input'), input'[i][2] = c, input'[i][1] = "data"
         PROVE  /\ ~Over(c)' => up'[c] = "credit" /\ pending'[c] = input'[i][3] /\ Settled(c)'
                /\ \A j \in 1..Len(input') : input'[j][2] = c /\ input'[j][1] = "data" => i = j
    <2>1. i \in 1..Len(input) /\ input[i][2] = c /\ input[i][1] = "data" /\ input'[i] = input[i]
      BY <1>1, <1>12
    <2>2. \A j \in 1..Len(input) : input[j][2] = c /\ input[j][1] = "data" => i = j
      BY <2>1 DEF Window
    <2>3. ASSUME ~Over(c)' PROVE up'[c] = "credit" /\ pending'[c] = input'[i][3] /\ Settled(c)'
      <3>1. /\ up[c] = "credit" /\ pending[c] = input[i][3] /\ input[i][3] \in Nat \ {0}
            /\ buffer[c] = 0 /\ Taken(c) = 0
        BY <1>6, <2>1, <2>3, InFlight
      <3>2. up'[c] = up[c] /\ pending'[c] = pending[c]
        <4>1. CASE c = d
          <5>1. ~(at'[d] = "close") BY <2>3, <4>1 DEF Over
          <5> QED BY <1>5, <3>1, <4>1, <5>1, UploadMoves
        <4>2. CASE c # d BY <1>7, <4>2
        <4> QED BY <4>1, <4>2
      <3> QED BY <1>5, <2>1, <3>1, <3>2
    <2> QED BY <1>1, <2>2, <2>3
  <1>13. ASSUME ~Over(c)'
         PROVE  /\ up'[c] \in {"off", "read", "done"} => pending'[c] = 0
                /\ buffer'[c] + Taken(c)' <= pending'[c]
    <2>1. /\ up[c] \in {"off", "read", "done"} => pending[c] = 0
          /\ buffer[c] + Taken(c) <= pending[c]
      BY <1>6, <1>13 DEF Window
    <2>2. buffer[c] + Taken(c)' <= pending[c] BY <1>3, <1>4, <2>1
    <2>3. CASE c # d BY <1>3, <1>7, <2>1, <2>2, <2>3
    <2>4. CASE c = d
      <3>0. ~(at'[c] = "close") BY <1>13 DEF Over
      <3>1. CASE up'[c] = up[c] /\ pending'[c] = pending[c] BY <1>3, <2>1, <2>2, <3>1
      <3>2. CASE Acknowledges(c) /\ up'[c] = up[c] /\ pending[c] >= 1 /\ pending'[c] = pending[c] - 1
        <4>1. buffer[c] + Taken(c)' <= pending[c] - 1 BY <1>3, <1>4, <2>1, <3>2
        <4>2. up[c] \notin {"off", "read", "done"} BY <1>4, <2>1, <3>2
        <4> QED BY <1>3, <3>2, <4>1, <4>2
      <3>3. CASE up[c] \in {"off", "credit", "read"} /\ pending[c] = 0 /\ pending'[c] = 0
        BY <1>3, <2>2, <3>3
      <3>4. CASE up[c] \in {"off", "read"} /\ pending'[c] = pending[c]
        BY <1>3, <2>1, <2>2, <3>4
      <3>5. CASE up[c] = "read" /\ up'[c] = "send" /\ \E n \in Nat \ {0} : pending'[c] = n
        <4>1. buffer[c] + Taken(c)' <= 0 BY <2>1, <2>2, <3>5
        <4> QED BY <1>3, <1>4, <3>5, <4>1
      <3> QED BY <2>4, <3>0, <3>1, <3>2, <3>3, <3>4, <3>5, UploadMoves
    <2> QED BY <2>3, <2>4
  <1> QED BY <1>11, <1>12, <1>13

LEMMA WindowWrite ==
  ASSUME StreamTypes, StreamPipes, Attached, Opening, Window, Write
  PROVE  Window'
  <1> DEFINE d == lock[1][2]
  <1>1. /\ Len(lock) \in Nat \ {0} /\ Len(lock') = Len(lock) - 1
        /\ \A i \in 1..Len(lock') : lock'[i] = lock[i + 1]
        /\ Len(input) \in Nat /\ Len(input') = Len(input) + 1
        /\ \A i \in 1..Len(input) : input'[i] = input[i]
        /\ input'[Len(input) + 1] = lock[1]
    BY LockSends
  <1>2. /\ \A i \in 1..Len(lock') : i + 1 \in 1..Len(lock) /\ i + 1 # 1 /\ lock'[i] = lock[i + 1]
        /\ \A i \in 1..Len(input') : \/ i = Len(input) + 1 /\ input'[i] = lock[1]
                                     \/ i \in 1..Len(input) /\ input'[i] = input[i]
    BY <1>1
  <1>3. /\ d \in Relays /\ 1 \in 1..Len(lock) /\ UNCHANGED <<pending, buffer>>
        /\ \/ lock[1][1] = "connect" /\ at[d] = "connect" /\ at'[d] = "first" /\ up'[d] = up[d] /\ up[d] = "off"
           \/ lock[1][1] = "close" /\ up'[d] = up[d] /\ (Over(d) => at'[d] \in {"close", "done"})
           \/ lock[1][1] = "data" /\ at'[d] = at[d] /\ up[d] = "send" /\ up'[d] = "credit"
           \/ lock[1][1] = "end" /\ at'[d] = at[d] /\ up[d] = "send" /\ up'[d] = "done"
    <2>1. /\ d \in Relays /\ 1 \in 1..Len(lock) /\ UNCHANGED <<pending, buffer>> BY WriteMoves
    <2>2. \/ lock[1][1] = "connect" /\ at[d] = "connect" /\ at'[d] = "first" /\ up'[d] = up[d] /\ up[d] = "off"
          \/ lock[1][1] = "close" /\ up'[d] = up[d] /\ (Over(d) => at'[d] \in {"close", "done"})
          \/ lock[1][1] = "data" /\ at'[d] = at[d] /\ up[d] = "send" /\ up'[d] = "credit"
          \/ lock[1][1] = "end" /\ at'[d] = at[d] /\ up[d] = "send" /\ up'[d] = "done"
      <3>1. /\ <<"connect", d, 0>>[1] = "connect" /\ <<"close", d, 0>>[1] = "close"
            /\ <<"end", d, 0>>[1] = "end"
        OBVIOUS
      <3> HIDE DEF d
      <3> QED BY <3>1, WriteMoves DEF d
    <2> QED BY <2>1, <2>2
  <1>4. lock[1][2] = d OBVIOUS
  <1> HIDE DEF d
  <1> SUFFICES ASSUME NEW c \in Relays
               PROVE  /\ \A i \in 1..Len(lock') : lock'[i][2] = c /\ lock'[i][1] \in {"data", "end"} =>
                           /\ up'[c] = "send"
                           /\ lock'[i][1] = "data" => pending'[c] = lock'[i][3] /\ Settled(c)'
                           /\ lock'[i][1] = "end" => pending'[c] = 0
                           /\ \A j \in 1..Len(lock') : lock'[j][2] = c /\ lock'[j][1] \in {"data", "end"} => i = j
                      /\ \A i \in 1..Len(input') : input'[i][2] = c /\ input'[i][1] = "data" =>
                           /\ ~Over(c)' => up'[c] = "credit" /\ pending'[c] = input'[i][3] /\ Settled(c)'
                           /\ \A j \in 1..Len(input') : input'[j][2] = c /\ input'[j][1] = "data" => i = j
                      /\ ~Over(c)' => /\ up'[c] \in {"off", "read", "done"} => pending'[c] = 0
                                      /\ buffer'[c] + Taken(c)' <= pending'[c]
    BY DEF Window
  <1>5. Taken(c) \in Nat /\ Taken(c)' \in Nat /\ Taken(c)' <= Taken(c) BY TakenLess
  <1>6. buffer[c] \in Nat /\ pending[c] \in Nat BY DEF StreamTypes
  <1>7. buffer[c] = 0 /\ Taken(c) = 0 => Settled(c)' BY <1>3, <1>5 DEF Settled
  <1>8. c # d => at'[c] = at[c] /\ up'[c] = up[c] BY <1>4, OthersWrite DEF Same
  <1>9. Over(c) => Over(c)'
    <2>1. CASE c = d BY <1>3, <2>1 DEF Over
    <2>2. CASE c # d BY <1>8, <2>2 DEF Over
    <2> QED BY <2>1, <2>2
  <1>10. ASSUME NEW i \in 1..Len(lock'), lock'[i][2] = c, lock'[i][1] \in {"data", "end"}
         PROVE  /\ up'[c] = "send"
                /\ lock'[i][1] = "data" => pending'[c] = lock'[i][3] /\ Settled(c)'
                /\ lock'[i][1] = "end" => pending'[c] = 0
                /\ \A j \in 1..Len(lock') : lock'[j][2] = c /\ lock'[j][1] \in {"data", "end"} => i = j
    <2>1. /\ i + 1 \in 1..Len(lock) /\ i + 1 # 1 /\ lock'[i] = lock[i + 1]
          /\ lock[i + 1][2] = c /\ lock[i + 1][1] \in {"data", "end"}
      BY <1>2, <1>10
    <2>2. /\ up[c] = "send" /\ ~Over(c) /\ buffer[c] = 0 /\ Taken(c) = 0
          /\ lock[i + 1][1] = "data" => pending[c] = lock[i + 1][3] /\ lock[i + 1][3] \in Nat \ {0}
          /\ lock[i + 1][1] = "end" => pending[c] = 0
      BY <2>1, Waiting
    <2>3. \A j \in 1..Len(lock) : lock[j][2] = c /\ lock[j][1] \in {"data", "end"} => i + 1 = j
      BY <2>1 DEF Window
    <2>4. up'[c] = "send"
      <3>1. CASE c = d
        <4>1. lock[1][1] \notin {"data", "end"} BY <1>3, <1>4, <2>1, <2>3, <3>1
        <4> QED BY <1>3, <2>2, <3>1, <4>1
      <3>2. CASE c # d BY <1>8, <2>2, <3>2
      <3> QED BY <3>1, <3>2
    <2>5. ASSUME NEW j \in 1..Len(lock'), lock'[j][2] = c, lock'[j][1] \in {"data", "end"} PROVE i = j
      <3>1. j + 1 \in 1..Len(lock) /\ lock[j + 1][2] = c /\ lock[j + 1][1] \in {"data", "end"}
        BY <1>2, <2>5
      <3>2. i + 1 = j + 1 BY <2>3, <3>1
      <3>3. i \in Nat /\ j \in Nat OBVIOUS
      <3> QED BY <3>2, <3>3
    <2> QED BY <1>3, <1>7, <2>1, <2>2, <2>4, <2>5
  <1>11. ASSUME NEW i \in 1..Len(input), input[i][2] = c, input[i][1] = "data"
         PROVE  /\ ~Over(c)' => up'[c] = "credit" /\ pending'[c] = input[i][3] /\ Settled(c)' /\ up[c] = "credit"
                /\ \A j \in 1..Len(input) : input[j][2] = c /\ input[j][1] = "data" => i = j
    <2>2. \A j \in 1..Len(input) : input[j][2] = c /\ input[j][1] = "data" => i = j
      BY <1>11 DEF Window
    <2>3. ASSUME ~Over(c)'
          PROVE  up'[c] = "credit" /\ pending'[c] = input[i][3] /\ Settled(c)' /\ up[c] = "credit"
      <3>1. /\ up[c] = "credit" /\ pending[c] = input[i][3] /\ input[i][3] \in Nat \ {0}
            /\ buffer[c] = 0 /\ Taken(c) = 0
        BY <1>9, <1>11, <2>3, InFlight
      <3>2. up'[c] = up[c]
        <4>1. CASE c = d BY <1>3, <3>1, <4>1
        <4>2. CASE c # d BY <1>8, <4>2
        <4> QED BY <4>1, <4>2
      <3> QED BY <1>3, <1>7, <3>1, <3>2
    <2> QED BY <2>2, <2>3
  <1>12. ASSUME lock[1][2] = c, lock[1][1] = "data"
         PROVE  /\ up'[c] = "credit" /\ pending'[c] = lock[1][3] /\ Settled(c)' /\ ~Over(c)' /\ up[c] = "send"
    <2>1. /\ up[c] = "send" /\ ~Over(c) /\ buffer[c] = 0 /\ Taken(c) = 0
          /\ lock[1][1] = "data" => pending[c] = lock[1][3] /\ lock[1][3] \in Nat \ {0}
      BY <1>3, <1>12, Waiting
    <2>2. c = d /\ at'[c] = at[c] /\ up'[c] = "credit" BY <1>3, <1>4, <1>12
    <2> QED BY <1>3, <1>7, <1>12, <2>1, <2>2 DEF Over
  <1>13. ASSUME NEW i \in 1..Len(input'), input'[i][2] = c, input'[i][1] = "data"
         PROVE  /\ ~Over(c)' => up'[c] = "credit" /\ pending'[c] = input'[i][3] /\ Settled(c)'
                /\ \A j \in 1..Len(input') : input'[j][2] = c /\ input'[j][1] = "data" => i = j
    <2>1. CASE i = Len(input) + 1
      <3>1. input'[i] = lock[1] /\ lock[1][2] = c /\ lock[1][1] = "data" BY <1>1, <1>13, <2>1
      <3>2. /\ up'[c] = "credit" /\ pending'[c] = lock[1][3] /\ Settled(c)' /\ ~Over(c)' /\ up[c] = "send"
        BY <1>12, <3>1
      <3>3. \A j \in 1..Len(input) : ~(input[j][2] = c /\ input[j][1] = "data")
        BY <1>11, <3>2
      <3>4. \A j \in 1..Len(input') : input'[j][2] = c /\ input'[j][1] = "data" => i = j
        BY <1>2, <2>1, <3>3
      <3> QED BY <3>1, <3>2, <3>4
    <2>2. CASE i # Len(input) + 1
      <3>1. i \in 1..Len(input) /\ input'[i] = input[i] BY <1>2, <2>2
      <3>2. input[i][2] = c /\ input[i][1] = "data" BY <1>13, <3>1
      <3>3. /\ ~Over(c)' => up'[c] = "credit" /\ pending'[c] = input[i][3] /\ Settled(c)' /\ up[c] = "credit"
            /\ \A j \in 1..Len(input) : input[j][2] = c /\ input[j][1] = "data" => i = j
        BY <1>11, <3>1, <3>2
      <3>4. ~(lock[1][2] = c /\ lock[1][1] = "data") BY <1>12, <3>3
      <3>5. ASSUME NEW j \in 1..Len(input'), input'[j][2] = c, input'[j][1] = "data" PROVE i = j
        <4>1. CASE j = Len(input) + 1 /\ input'[j] = lock[1] BY <3>4, <3>5, <4>1
        <4>2. CASE j \in 1..Len(input) /\ input'[j] = input[j] BY <3>3, <3>5, <4>2
        <4> QED BY <1>2, <4>1, <4>2
      <3> QED BY <3>1, <3>3, <3>5
    <2> QED BY <2>1, <2>2
  <1>14. ASSUME ~Over(c)'
         PROVE  /\ up'[c] \in {"off", "read", "done"} => pending'[c] = 0
                /\ buffer'[c] + Taken(c)' <= pending'[c]
    <2>1. /\ up[c] \in {"off", "read", "done"} => pending[c] = 0
          /\ buffer[c] + Taken(c) <= pending[c]
      BY <1>9, <1>14 DEF Window
    <2>2. buffer[c] + Taken(c)' <= pending[c] BY <1>5, <1>6, <2>1
    <2>3. up'[c] \in {"off", "read", "done"} => pending[c] = 0
      <3>1. CASE c = d /\ lock[1][1] = "end"
        <4>1. pending[c] = 0 BY <1>3, <1>4, <3>1, Waiting
        <4> QED BY <4>1
      <3>2. CASE c = d /\ lock[1][1] # "end" BY <1>3, <2>1, <3>2
      <3>3. CASE c # d BY <1>8, <2>1, <3>3
      <3> QED BY <3>1, <3>2, <3>3
    <2> QED BY <1>3, <2>2, <2>3
  <1> QED BY <1>10, <1>13, <1>14

LEMMA WindowKept ==
  ASSUME StreamsAssumption, StreamTypes, StreamPipes, Attached, Opening, Window,
         [StreamsNext]_streamsVars
  PROVE  Window'
  <1>1. ASSUME ReadFrame \/ UNCHANGED streamsVars PROVE Window'
    <2>1. UNCHANGED <<at, up, pending, lock, input, buffer>> BY <1>1 DEF ReadFrame, streamsVars
    <2>2. ASSUME NEW c \in Relays
          PROVE  Taken(c) \in Nat /\ Taken(c)' \in Nat /\ Taken(c)' <= Taken(c)
      BY <1>1, TakenLess
    <2>3. ASSUME NEW c \in Relays
          PROVE  /\ Settled(c) => Settled(c)'
                 /\ buffer[c] + Taken(c) <= pending[c] => buffer'[c] + Taken(c)' <= pending'[c]
                 /\ Over(c)' <=> Over(c)
      <3>1. buffer[c] \in Nat /\ pending[c] \in Nat BY DEF StreamTypes
      <3>2. Taken(c) \in Nat /\ Taken(c)' \in Nat /\ Taken(c)' <= Taken(c) BY <2>2
      <3>3. Settled(c) => Settled(c)' BY <2>1, <3>2 DEF Settled
      <3>4. Over(c)' <=> Over(c) BY <2>1 DEF Over
      <3> QED BY <2>1, <3>1, <3>2, <3>3, <3>4
    <2> QED BY <2>1, <2>3 DEF Window
  <1> QED BY <1>1, WindowServed, WindowManaged, WindowWrite, ManagedCases
-----------------------------------------------------------------------------
(* The upload *)

\* What is over stays over, and an upload that is done stays done.
LEMMA Stays ==
  ASSUME StreamsAssumption, StreamTypes, StreamPipes, Attached, Opening, Window,
         [StreamsNext]_streamsVars, NEW c \in Relays
  PROVE  /\ Over(c) => at'[c] \in {"close", "done"}
         /\ up[c] = "done" => up'[c] = "done"
  <1>1. ASSUME NEW d \in Relays, Served(d)
        PROVE  UNCHANGED <<at, up>>
    BY <1>1, ServedFrame
  <1>2. ASSUME NEW d \in Relays, Managed(d)
        PROVE  /\ Over(c) => at'[c] \in {"close", "done"}
               /\ up[c] = "done" => up'[c] = "done"
    <2>1. CASE c = d BY <1>2, <2>1, TaskMoves DEF Over
    <2>2. CASE c # d BY <1>2, <2>2, OthersManaged DEF Same, Over
    <2> QED BY <2>1, <2>2
  <1>3. ASSUME Write
        PROVE  /\ Over(c) => at'[c] \in {"close", "done"}
               /\ up[c] = "done" => up'[c] = "done"
    <2>1. CASE c = lock[1][2]
      <3>1. /\ <<"connect", c, 0>>[1] = "connect" /\ <<"close", c, 0>>[1] = "close"
            /\ <<"end", c, 0>>[1] = "end"
        OBVIOUS
      <3>2. \/ at[c] = "connect" /\ up'[c] = up[c]
            \/ Over(c) /\ at'[c] \in {"close", "done"} /\ up'[c] = up[c]
            \/ at'[c] = at[c] /\ up'[c] = up[c]
            \/ Carries(c) /\ at'[c] = at[c] /\ up[c] = "send"
        BY <1>3, <2>1, WriteMoves
      <3> QED BY <3>2 DEF Over
    <2>2. CASE c # lock[1][2] BY <1>3, <2>2, OthersWrite DEF Same, Over
    <2> QED BY <2>1, <2>2
  <1>4. ASSUME ReadFrame \/ UNCHANGED streamsVars PROVE UNCHANGED <<at, up>>
    BY <1>4 DEF ReadFrame, streamsVars
  <1> QED BY <1>1, <1>2, <1>3, <1>4, ManagedCases DEF Over

\* What the supervisor does to the end of an upload.
LEMMA EndMoves ==
  ASSUME StreamPipes, NEW d \in Relays, Served(d), NEW c \in Relays
  PROVE  /\ c \in ended' => c \in ended \/ Notes(c)
         /\ c \in shut' => \/ HalfCloses(c) /\ c \in ended' /\ buffer[c] = 0 /\ buffer' = buffer
                           \/ c \in shut /\ (c \in ended => c \in ended')
  <1>1. CASE Opens(d) BY <1>1 DEF Opens
  <1>2. CASE Refuses(d) BY <1>2 DEF Refuses
  <1>3. CASE Stores(d) BY <1>3 DEF Stores
  <1>4. CASE Notes(d) BY <1>4 DEF Notes
  <1>5. CASE Shuts(d) BY <1>5 DEF Shuts, Closing1
  <1>6. CASE Fails(d) BY <1>6 DEF Fails, Closing1
  <1>7. CASE Connects(d) BY <1>7 DEF Connects
  <1>8. CASE Retries(d) BY <1>8 DEF Retries
  <1>9. CASE Receives1(d) BY <1>9 DEF Receives1
  <1>10. CASE ReceivesEnd(d) BY <1>10 DEF ReceivesEnd
  <1>11. CASE Gives(d) BY <1>11 DEF Gives
  <1>12. CASE HalfCloses(d)
    <2>1. CASE c = d BY <1>12, <2>1 DEF HalfCloses, Ended
    <2>2. CASE c # d BY <1>12, <2>2 DEF HalfCloses
    <2> QED BY <2>1, <2>2
  <1>13. CASE Completes(d) BY <1>13 DEF Completes, Closing1
  <1> QED BY <1>1, <1>2, <1>3, <1>4, <1>5, <1>6, <1>7, <1>8, <1>9, <1>10, <1>11, <1>12, <1>13
          DEF Served

\* The end of the upload is the last that it sends.
LEMMA UploadEnds ==
  ASSUME StreamsAssumption, StreamTypes, StreamPipes, Attached, Opening, Window, Uploaded,
         [StreamsNext]_streamsVars, NEW c \in Relays
  PROVE  /\ c \in ended' => up'[c] = "done"
         /\ \A i \in 1..Len(input') : input'[i][1] = "end" /\ input'[i][2] = c => up'[c] = "done"
  <1>1. up[c] = "done" => up'[c] = "done" BY Stays
  <1>2. \A i \in 1..Len(input) : input[i][1] = "end" /\ input[i][2] = c => up[c] = "done"
    BY DEF Uploaded
  <1>3. c \in ended => up[c] = "done" BY DEF Uploaded
  <1>4. ASSUME NEW d \in Relays, Served(d)
        PROVE  /\ c \in ended' => up'[c] = "done"
               /\ \A i \in 1..Len(input') : input'[i][1] = "end" /\ input'[i][2] = c => up'[c] = "done"
    <2>1. Notes(c) => up[c] = "done"
      <3>1. Notes(c) => 1 \in 1..Len(input) /\ input[1][1] = "end" /\ input[1][2] = c
        BY Arrives DEF Notes
      <3> QED BY <1>2, <3>1
    <2>2. PICK s \in {0, 1} :
            \A i \in 1..Len(input') : i + s \in 1..Len(input) /\ input'[i] = input[i + s]
      BY <1>4, FrameLeaves
    <2>3. c \in ended' => c \in ended \/ Notes(c) BY <1>4, EndMoves
    <2> QED BY <1>1, <1>2, <1>3, <2>1, <2>2, <2>3
  <1>5. ASSUME NEW d \in Relays, Managed(d) PROVE UNCHANGED <<input, ended>>
    BY <1>5, HandMoves
  <1>6. ASSUME Write
        PROVE  /\ c \in ended' => up'[c] = "done"
               /\ \A i \in 1..Len(input') : input'[i][1] = "end" /\ input'[i][2] = c => up'[c] = "done"
    <2>1. \A i \in 1..Len(input') : \/ input'[i] = lock[1]
                                    \/ i \in 1..Len(input) /\ input'[i] = input[i]
      BY <1>6, LockSends
    <2>2. ended' = ended BY <1>6 DEF Write
    <2>3. lock[1][1] = "end" /\ lock[1][2] = c => up'[c] = "done"
      <3>1. /\ <<"connect", c, 0>>[1] = "connect" /\ <<"close", c, 0>>[1] = "close"
        OBVIOUS
      <3> QED BY <1>6, <3>1, WriteMoves
    <2> QED BY <1>1, <1>2, <1>3, <2>1, <2>2, <2>3
  <1>7. ASSUME ReadFrame \/ UNCHANGED streamsVars PROVE UNCHANGED <<input, ended>>
    BY <1>7 DEF ReadFrame, streamsVars
  <1> QED BY <1>1, <1>2, <1>3, <1>4, <1>5, <1>6, <1>7, ManagedCases

\* Data that flies: nothing of what was sent before is unacknowledged.
LEMMA Flies ==
  ASSUME StreamTypes, StreamPipes, Attached, Window, NEW c \in Relays, Flying(c), ~Over(c)
  PROVE  buffer[c] = 0 /\ Taken(c) = 0 /\ up[c] \in {"send", "credit"}
  BY Waiting, InFlight DEF Flying

\* Data that waits for the lock goes on waiting.
LEMMA KeepsWaiting ==
  ASSUME StreamPipes, NEW d \in Relays, Managed(d), NEW i \in 1..Len(lock), lock[i][2] # d \/ ~Finishes(d)
  PROVE  \E k \in 1..Len(lock') : lock'[k] = lock[i]
  <1>1. ASSUME NEW f \in Asked, NEW s \in Seq(Asked), lock' = Append(s, f),
               \E k \in 1..Len(s) : s[k] = lock[i]
        PROVE  \E k \in 1..Len(lock') : lock'[k] = lock[i]
    BY <1>1, AppendProperties
  <1>2. CASE Finishes(d)
    <2> DEFINE mine == {k \in 1..Len(lock) : lock[k][2] = d /\ lock[k][1] # "close"}
               n == CHOOSE k \in mine : TRUE
    <2>1. lock' = Append(Withdrawn(d), <<"close", d, 0>>) /\ <<"close", d, 0>> \in Asked
      BY <1>2 DEF Finishes, FinishRelay, Asked
    <2>2. lock[i][2] # d BY <1>2
    <2>3. CASE mine = {}
      <3>1. Withdrawn(d) = lock /\ lock \in Seq(Asked) BY <2>3 DEF Withdrawn, StreamPipes
      <3> QED BY <1>1, <2>1, <3>1
    <2>4. CASE mine # {}
      <3>1. n \in 1..Len(lock) /\ lock[n][2] = d BY <2>4
      <3>2. Withdrawn(d) = RemoveAt(lock, n) BY <2>4 DEF Withdrawn
      <3> HIDE DEF n, mine
      <3>a. lock \in Seq(Asked) BY DEF StreamPipes
      <3>b. /\ RemoveAt(lock, n) \in Seq(Asked) /\ Len(RemoveAt(lock, n)) = Len(lock) - 1
            /\ \A k \in 1..(Len(lock) - 1) :
                 RemoveAt(lock, n)[k] = IF k < n THEN lock[k] ELSE lock[k + 1]
        BY <3>1, <3>a, RemovedPlace
      <3>3. /\ Withdrawn(d) \in Seq(Asked) /\ Len(Withdrawn(d)) = Len(lock) - 1
            /\ \A k \in 1..(Len(lock) - 1) : Withdrawn(d)[k] = IF k < n THEN lock[k] ELSE lock[k + 1]
        BY <3>2, <3>b
      <3>4. Len(lock) \in Nat /\ i # n BY <2>2, <3>1 DEF StreamPipes
      <3>5. \E k \in 1..Len(Withdrawn(d)) : Withdrawn(d)[k] = lock[i]
        <4>1. CASE i < n
          <5>1. i \in 1..(Len(lock) - 1) BY <3>1, <3>4, <4>1
          <5> QED BY <3>3, <4>1, <5>1
        <4>2. CASE ~(i < n)
          <5>1. i - 1 \in 1..(Len(lock) - 1) /\ ~(i - 1 < n) /\ (i - 1) + 1 = i BY <3>1, <3>4, <4>2
          <5>2. Withdrawn(d)[i - 1] = lock[(i - 1) + 1] BY <3>3, <5>1
          <5> QED BY <3>3, <5>1, <5>2
        <4> QED BY <4>1, <4>2
      <3> QED BY <1>1, <2>1, <3>3, <3>5
    <2> QED BY <2>3, <2>4
  <1>3. CASE ~Finishes(d)
    <2>1. lock' = lock \/ \E f \in Asked : lock' = Append(lock, f)
      BY <1>3 DEF Managed, Begins, Refused, Relays1, TakeData, Drained, Acknowledges, TakeEnd,
           Credited, ReadEnd, ClientGone, ReadClient, Upload, Puts, Drops, Cuts, Asked
    <2> QED BY <1>1, <2>1 DEF StreamPipes
  <1> QED BY <1>2, <1>3

\* A frame that arrives was the data that flew, and then the stream has it.
LEMMA SumServed ==
  ASSUME StreamTypes, StreamPipes, Attached, Opening, Window, Uploaded, NEW d \in Relays, Served(d),
         NEW c \in Relays, socket'[c] = "open", ~Over(c)
  PROVE  sent'[c] = given'[c] + IF Flying(c)' THEN pending'[c] ELSE buffer'[c]
  <1>0. UNCHANGED <<sent, pending, lock, at>> BY ServedFrame
  <1>1. /\ buffer[c] \in Nat /\ pending[c] \in Nat /\ given[c] \in Nat /\ sent[c] \in Nat
    BY DEF StreamTypes
  <1>2. PICK s \in {0, 1} :
          /\ \A i \in 1..Len(input') : i + s \in 1..Len(input) /\ input'[i] = input[i + s]
      BY FrameLeaves
  <1>3. Flying(c)' => Flying(c) BY <1>0, <1>2 DEF Flying
  <1>4. ASSUME NEW op, Receives(op, d), op # "data" \/ c # d
        PROVE  Flying(c) => Flying(c)'
    <2>1. /\ Len(input) \in Nat \ {0} /\ Len(input') = Len(input) - 1
          /\ input[1][1] = op /\ input[1][2] = d
          /\ \A i \in 1..Len(input') : input'[i] = input[i + 1]
      BY <1>4, Arrives
    <2>2. ASSUME NEW i \in 1..Len(input), input[i][1] = "data", input[i][2] = c
          PROVE  \E j \in 1..Len(input') : input'[j][1] = "data" /\ input'[j][2] = c
      <3>1. i # 1 BY <1>4, <2>1, <2>2
      <3>2. i - 1 \in 1..Len(input') /\ (i - 1) + 1 = i BY <2>1, <3>1
      <3>3. input'[i - 1] = input[i] BY <2>1, <3>2
      <3> QED BY <2>2, <3>2, <3>3
    <2> QED BY <1>0, <2>2 DEF Flying
  <1>5. ASSUME UNCHANGED input PROVE Flying(c) <=> Flying(c)'
    BY <1>0, <1>5 DEF Flying
  <1>6. ASSUME UNCHANGED <<socket, given, buffer>>, Flying(c) <=> Flying(c)'
        PROVE  sent'[c] = given'[c] + IF Flying(c)' THEN pending'[c] ELSE buffer'[c]
    BY <1>0, <1>6 DEF Uploaded
  <1>7. CASE c # d
    <2>1. socket'[c] = socket[c] /\ buffer'[c] = buffer[c] /\ given'[c] = given[c]
      BY <1>7, OthersServed DEF Same
    <2>2. UNCHANGED input \/ \E op \in {"connect", "data", "end", "close"} : Receives(op, d)
      BY ServedFrame
    <2>3. Flying(c) <=> Flying(c)' BY <1>3, <1>4, <1>5, <1>7, <2>2
    <2> QED BY <1>0, <2>1, <2>3 DEF Uploaded
  <1>8. CASE c = d
    <2>1. CASE Opens(c) BY <2>1 DEF Opens, StreamTypes
    <2>2. CASE Refuses(c)
      <3>1. PICK op \in {"connect", "data", "end", "close"} :
              Receives(op, c) /\ (op # "connect" => socket[c] = "none")
        BY <2>2 DEF Refuses
      <3>2. socket[c] = "open" BY <2>2 DEF Refuses
      <3>3. op = "connect" BY <3>1, <3>2
      <3>4. Asks(c) BY <3>1, <3>3, Heard
      <3> QED BY <3>2, <3>4 DEF Opening
    <2>3. CASE Stores(c)
      <3>1. /\ Len(input) \in Nat \ {0} /\ Len(input') = Len(input) - 1
            /\ Head(input) = input[1] /\ input[1] \in Asked
            /\ input[1][1] = "data" /\ input[1][2] = c
            /\ \A i \in 1..Len(input') : input'[i] = input[i + 1]
        BY <2>3, Arrives DEF Stores
      <3>2. up[c] = "credit" /\ pending[c] = input[1][3] /\ buffer[c] = 0 BY <3>1, InFlight
      <3>3. \A j \in 1..Len(input) : input[j][2] = c /\ input[j][1] = "data" => 1 = j
        BY <3>1 DEF Window
      <3>4. ~ \E i \in 1..Len(input') : input'[i][1] = "data" /\ input'[i][2] = c
        <4> SUFFICES ASSUME NEW i \in 1..Len(input'), input'[i][1] = "data", input'[i][2] = c
                     PROVE  FALSE
          OBVIOUS
        <4>1. i + 1 \in 1..Len(input) /\ i + 1 # 1 /\ input'[i] = input[i + 1] BY <3>1
        <4> QED BY <3>3, <4>1
      <3>5. ~ \E i \in 1..Len(lock') : lock'[i][1] = "data" /\ lock'[i][2] = c
        BY <1>0, <3>2, Waiting
      <3>6. ~Flying(c)' BY <3>4, <3>5 DEF Flying
      <3>7. Flying(c) BY <3>1 DEF Flying
      <3>8. socket[c] = "open" /\ buffer'[c] = buffer[c] + input[1][3] /\ given' = given
        BY <2>3, <3>1 DEF Stores, StreamTypes, Receives
      <3>9. sent[c] = given[c] + pending[c] BY <3>7, <3>8 DEF Uploaded
      <3>10. buffer'[c] = pending[c] BY <1>1, <3>2, <3>8
      <3> QED BY <1>0, <3>6, <3>8, <3>9, <3>10
    <2>4. CASE Notes(c)
      <3>1. UNCHANGED <<socket, given, buffer>> BY <2>4 DEF Notes, Receives
      <3>2. Flying(c) <=> Flying(c)' BY <1>3, <1>4, <1>8, <2>4 DEF Notes
      <3> QED BY <1>6, <3>1, <3>2
    <2>5. CASE Shuts(c) BY <2>5 DEF Shuts, Closing1, StreamTypes
    <2>6. CASE Fails(c) BY <2>6 DEF Fails, Closing1, StreamTypes
    <2>7. CASE Connects(c)
      <3>1. Unheard(c) BY <2>7 DEF Connects, Opening
      <3>2. UNCHANGED <<buffer, given, input>> BY <2>7 DEF Connects, Serves
      <3>3. ~Flying(c) BY <3>1 DEF Unheard, Flying
      <3>4. ~Flying(c)' BY <1>5, <3>2, <3>3
      <3>5. sent[c] = 0 /\ given[c] = 0 /\ buffer[c] = 0 BY <3>1 DEF Unheard
      <3> QED BY <1>0, <3>2, <3>4, <3>5
    <2>8. CASE Retries(c) BY <2>8 DEF Retries, StreamTypes
    <2>9. CASE Receives1(c) \/ ReceivesEnd(c) \/ HalfCloses(c)
      <3>1. UNCHANGED <<socket, given, buffer, input>>
        BY <2>9 DEF Receives1, ReceivesEnd, HalfCloses, Serves
      <3> QED BY <1>5, <1>6, <3>1
    <2>10. CASE Gives(c)
      <3>1. /\ UNCHANGED <<input, socket>> /\ buffer[c] > 0 /\ socket[c] = "open"
            /\ buffer'[c] = buffer[c] - 1 /\ given'[c] = given[c] + 1
        BY <2>10 DEF Gives, Serves, StreamTypes
      <3>2. ~Flying(c) BY <1>1, <3>1, Flies
      <3>3. ~Flying(c)' BY <1>5, <3>1, <3>2
      <3>4. sent[c] = given[c] + buffer[c] BY <3>1, <3>2 DEF Uploaded
      <3>5. sent[c] = (given[c] + 1) + (buffer[c] - 1) BY <1>1, <3>4
      <3> QED BY <1>0, <3>1, <3>3, <3>5
    <2>11. CASE Completes(c) BY <2>11 DEF Completes, Closing1, StreamTypes
    <2> QED BY <1>8, <2>1, <2>2, <2>3, <2>4, <2>5, <2>6, <2>7, <2>8, <2>9, <2>10, <2>11 DEF Served
  <1> QED BY <1>7, <1>8

\* What the upload reads is what flies, and what is acknowledged is not.
LEMMA SumManaged ==
  ASSUME StreamTypes, StreamPipes, Attached, Opening, Window, Uploaded, NEW d \in Relays, Managed(d),
         NEW c \in Relays, socket'[c] = "open", ~Over(c), at'[c] \notin {"close", "done"}
  PROVE  sent'[c] = given'[c] + IF Flying(c)' THEN pending'[c] ELSE buffer'[c]
  <1>0. UNCHANGED <<given, buffer, socket, input>> BY HandMoves
  <1>1. /\ buffer[c] \in Nat /\ pending[c] \in Nat /\ given[c] \in Nat /\ sent[c] \in Nat
    BY DEF StreamTypes
  <1>2. sent[c] = given[c] + IF Flying(c) THEN pending[c] ELSE buffer[c] BY <1>0 DEF Uploaded
  <1>3. ~Finishes(c) BY DEF Finishes, FinishRelay, StreamTypes
  <1>4. Flying(c) => Flying(c)'
    <2>1. ASSUME NEW i \in 1..Len(lock), lock[i][1] = "data", lock[i][2] = c
          PROVE  \E k \in 1..Len(lock') : lock'[k][1] = "data" /\ lock'[k][2] = c
      <3>1. lock[i][2] # d \/ ~Finishes(d) BY <1>3, <2>1
      <3>2. \E k \in 1..Len(lock') : lock'[k] = lock[i] BY <3>1, KeepsWaiting
      <3> QED BY <2>1, <3>2
    <2> QED BY <1>0, <2>1 DEF Flying
  <1>5. Flying(c)' => Flying(c) \/ (c = d /\ \E n \in Nat \ {0} : ReadClient(c, n))
    <2>1. PICK p \in Nat :
            /\ p \in 1..Len(lock') => Joins(d, lock'[p])
            /\ \A j, k \in (1..Len(lock')) \ {p} :
                 \E m, n \in 1..Len(lock) :
                   lock'[j] = lock[m] /\ lock'[k] = lock[n] /\ (j # k => m # n)
      BY LockMoves
    <2>2. ASSUME NEW k \in 1..Len(lock'), lock'[k][1] = "data", lock'[k][2] = c
          PROVE  \/ \E i \in 1..Len(lock) : lock[i][1] = "data" /\ lock[i][2] = c
                 \/ c = d /\ \E n \in Nat \ {0} : ReadClient(c, n)
      <3>1. CASE k = p
        <4>1. Joins(d, lock'[k]) BY <2>1, <3>1
        <4>2. /\ <<"connect", d, 0>>[1] = "connect" /\ <<"close", d, 0>>[1] = "close"
              /\ <<"end", d, 0>>[1] = "end" /\ \A n : <<"data", d, n>>[2] = d
          OBVIOUS
        <4>3. \E n \in Nat \ {0} : ReadClient(d, n) /\ lock'[k] = <<"data", d, n>>
          BY <2>2, <4>1, <4>2 DEF Joins
        <4> QED BY <2>2, <4>2, <4>3
      <3>2. CASE k # p
        <4>0. k \in (1..Len(lock')) \ {p} BY <3>2
        <4>1. \E m \in 1..Len(lock) : lock'[k] = lock[m] BY <2>1, <4>0
        <4> QED BY <2>2, <4>1
      <3> QED BY <3>1, <3>2
    <2> QED BY <1>0, <2>2 DEF Flying
  <1>6. CASE c # d
    <2>1. sent'[c] = sent[c] /\ pending'[c] = pending[c] BY <1>6, OthersManaged DEF Same
    <2>2. Flying(c)' <=> Flying(c) BY <1>4, <1>5, <1>6
    <2> QED BY <1>0, <1>2, <2>1, <2>2
  <1>7. CASE c = d
    <2>1. CASE \E n \in Nat \ {0} : ReadClient(c, n)
      <3>1. PICK n \in Nat \ {0} : ReadClient(c, n) BY <2>1
      <3>2. /\ up[c] = "read" /\ sent'[c] = sent[c] + n /\ pending'[c] = n
            /\ lock' = Append(lock, <<"data", c, n>>)
        BY <3>1 DEF ReadClient, Upload, StreamTypes
      <3>3. <<"data", c, n>> \in Asked BY DEF Asked
      <3>4. Flying(c)'
        <4>1. lock'[Len(lock) + 1] = <<"data", c, n>> /\ Len(lock) + 1 \in 1..Len(lock')
          BY <3>2, <3>3, LockJoins
        <4>2. <<"data", c, n>>[1] = "data" /\ <<"data", c, n>>[2] = c OBVIOUS
        <4> QED BY <4>1, <4>2 DEF Flying
      <3>5. ~Flying(c) BY <3>2, Flies
      <3>6. buffer[c] = 0
        <4>1. pending[c] = 0 /\ buffer[c] + Taken(c) <= pending[c] BY <3>2 DEF Window
        <4>2. Taken(c) \in Nat BY FlowType DEF Taken
        <4> QED BY <1>1, <4>1, <4>2
      <3>7. sent[c] = given[c] BY <1>1, <1>2, <3>5, <3>6
      <3> QED BY <1>0, <3>2, <3>4, <3>7
    <2>2. CASE ~ \E n \in Nat \ {0} : ReadClient(c, n)
      <3>1. Flying(c)' <=> Flying(c) BY <1>4, <1>5, <2>2
      <3>2. CASE Acknowledges(c)
        <4>1. Taken(c) = Taken(c)' + 1 /\ Taken(c)' \in Nat BY <1>7, <3>2, TakenLess
        <4>2. ~Flying(c) BY <4>1, Flies
        <4>3. sent'[c] = sent[c] BY <3>2 DEF Acknowledges
        <4> QED BY <1>0, <1>2, <3>1, <4>2, <4>3
      <3>3. CASE ~Acknowledges(c)
        <4>1. pending'[c] = pending[c] /\ sent'[c] = sent[c] BY <1>3, <1>7, <2>2, <3>3, UploadMoves
        <4> QED BY <1>0, <1>2, <3>1, <4>1
      <3> QED BY <3>2, <3>3
    <2> QED BY <2>1, <2>2
  <1> QED BY <1>6, <1>7

\* A write moves what flies from the lock's queue to the pipe.
LEMMA SumWrite ==
  ASSUME StreamTypes, StreamPipes, Attached, Opening, Window, Uploaded, Write,
         NEW c \in Relays, socket'[c] = "open", ~Over(c)
  PROVE  sent'[c] = given'[c] + IF Flying(c)' THEN pending'[c] ELSE buffer'[c]
  <1>0. UNCHANGED <<sent, given, buffer, socket, pending>> BY DEF Write
  <1>1. /\ Len(lock) \in Nat \ {0} /\ Len(lock') = Len(lock) - 1
        /\ \A i \in 1..Len(lock') : lock'[i] = lock[i + 1]
        /\ Len(input) \in Nat /\ Len(input') = Len(input) + 1
        /\ \A i \in 1..Len(input) : input'[i] = input[i]
        /\ input'[Len(input) + 1] = lock[1]
    BY LockSends
  <1>2. ASSUME NEW i \in 1..Len(lock), lock[i][1] = "data", lock[i][2] = c PROVE Flying(c)'
    <2>1. CASE i = 1
      <3>1. Len(input) + 1 \in 1..Len(input') /\ input'[Len(input) + 1] = lock[i] BY <1>1, <2>1
      <3> QED BY <1>2, <3>1 DEF Flying
    <2>2. CASE i # 1
      <3>1. i - 1 \in 1..Len(lock') /\ (i - 1) + 1 = i BY <1>1, <2>2
      <3>2. lock'[i - 1] = lock[i] BY <1>1, <3>1
      <3> QED BY <1>2, <3>1, <3>2 DEF Flying
    <2> QED BY <2>1, <2>2
  <1>3. ASSUME NEW i \in 1..Len(input), input[i][1] = "data", input[i][2] = c PROVE Flying(c)'
    <2>1. i \in 1..Len(input') /\ input'[i] = input[i] BY <1>1
    <2> QED BY <1>3, <2>1 DEF Flying
  <1>4. ASSUME Flying(c)' PROVE Flying(c)
    <2>1. ASSUME NEW i \in 1..Len(lock'), lock'[i][1] = "data", lock'[i][2] = c PROVE Flying(c)
      <3>1. i + 1 \in 1..Len(lock) /\ lock'[i] = lock[i + 1] BY <1>1
      <3> QED BY <2>1, <3>1 DEF Flying
    <2>2. ASSUME NEW i \in 1..Len(input'), input'[i][1] = "data", input'[i][2] = c PROVE Flying(c)
      <3>1. CASE i \in 1..Len(input) BY <1>1, <2>2, <3>1 DEF Flying
      <3>2. CASE i \notin 1..Len(input)
        <4>1. i = Len(input) + 1 /\ 1 \in 1..Len(lock) BY <1>1, <3>2
        <4> QED BY <1>1, <2>2, <4>1 DEF Flying
      <3> QED BY <3>1, <3>2
    <2> QED BY <1>4, <2>1, <2>2 DEF Flying
  <1>5. Flying(c) => Flying(c)' BY <1>2, <1>3 DEF Flying
  <1> QED BY <1>0, <1>4, <1>5 DEF Uploaded

LEMMA UploadedKept ==
  ASSUME StreamsAssumption, StreamTypes, StreamPipes, Attached, Opening, Window, Uploaded,
         [StreamsNext]_streamsVars
  PROVE  Uploaded'
  <1>0. \A c \in Relays : Over(c) => Over(c)' BY Stays DEF Over
  <1>1. \A c \in Relays :
          /\ c \in ended' => up'[c] = "done"
          /\ \A i \in 1..Len(input') : input'[i][1] = "end" /\ input'[i][2] = c => up'[c] = "done"
    BY UploadEnds
  <1>2. \A i \in 1..Len(input') : input'[i][2] \in Relays
    <2>1. StreamPipes' BY PipesKept
    <2>2. \A i \in 1..Len(input') : input'[i] \in Asked BY <2>1 DEF StreamPipes
    <2> QED BY <2>2, Triples
  <1>3. ASSUME NEW c \in Relays, socket'[c] = "open", ~Over(c)'
        PROVE  sent'[c] = given'[c] + IF Flying(c)' THEN pending'[c] ELSE buffer'[c]
    <2>0. ~Over(c) /\ at'[c] \notin {"close", "done"} BY <1>0, <1>3 DEF Over
    <2>1. ASSUME ReadFrame \/ UNCHANGED streamsVars
          PROVE  sent'[c] = given'[c] + IF Flying(c)' THEN pending'[c] ELSE buffer'[c]
      <3>1. UNCHANGED <<sent, given, lock, input, pending, buffer, socket>>
        BY <2>1 DEF ReadFrame, streamsVars
      <3>2. Flying(c)' <=> Flying(c) BY <3>1 DEF Flying
      <3> QED BY <1>3, <2>0, <3>1, <3>2 DEF Uploaded
    <2> QED BY <1>3, <2>0, <2>1, ManagedCases, SumServed, SumManaged, SumWrite
  <1>4. ASSUME NEW c \in Relays, c \in shut', ~Over(c)'
        PROVE  c \in ended' /\ buffer'[c] = 0
    <2>0. ~Over(c) BY <1>0, <1>4
    <2>1. c \in shut => c \in ended /\ buffer[c] = 0 /\ up[c] = "done" BY <2>0 DEF Uploaded
    <2>2. ASSUME UNCHANGED <<shut, ended, buffer>>
          PROVE  c \in ended' /\ buffer'[c] = 0
      BY <1>4, <2>1, <2>2
    <2>3. ASSUME NEW d \in Relays, Served(d)
          PROVE  c \in ended' /\ buffer'[c] = 0
      <3>1. \/ HalfCloses(c) /\ c \in ended' /\ buffer[c] = 0 /\ buffer' = buffer
            \/ c \in shut /\ (c \in ended => c \in ended')
        BY <1>4, <2>3, EndMoves
      <3>2. ASSUME c \in shut PROVE buffer'[c] = 0
        <4>1. buffer[c] = 0 /\ up[c] = "done" BY <2>1, <3>2
        <4>2. ~Stores(c)
          <5>1. Stores(c) => 1 \in 1..Len(input) /\ input[1][1] = "data" /\ input[1][2] = c
            BY Arrives DEF Stores
          <5>2. Stores(c) => up[c] = "credit" BY <2>0, <5>1, InFlight
          <5> QED BY <4>1, <5>2
        <4> QED BY <2>3, <4>1, <4>2, Balance
      <3> QED BY <2>1, <3>1, <3>2
    <2>4. ASSUME NEW d \in Relays, Managed(d) PROVE UNCHANGED <<shut, ended, buffer>>
      BY <2>4, HandMoves
    <2>5. ASSUME Write \/ ReadFrame \/ UNCHANGED streamsVars PROVE UNCHANGED <<shut, ended, buffer>>
      BY <2>5 DEF Write, ReadFrame, streamsVars
    <2> QED BY <2>2, <2>3, <2>4, <2>5, ManagedCases
  <1>5. ended' \subseteq Relays /\ shut' \subseteq Relays BY TypesKept DEF StreamTypes
  <1>6. /\ \A c \in ended' : up'[c] = "done"
        /\ \A i \in 1..Len(input') : input'[i][1] = "end" => up'[input'[i][2]] = "done"
    BY <1>1, <1>2, <1>5
  <1>7. \A c \in Relays : socket'[c] = "open" /\ ~Over(c)' =>
          sent'[c] = given'[c] + IF Flying(c)' THEN pending'[c] ELSE buffer'[c]
    BY <1>3
  <1>8. \A c \in shut' : ~Over(c)' => c \in ended' /\ buffer'[c] = 0
    BY <1>4, <1>5
  <1> QED BY <1>6, <1>7, <1>8 DEF Uploaded
-----------------------------------------------------------------------------
(* What the server sends *)

\* Nothing comes to a connection that the supervisor has not heard of.
LEMMA NothingComes ==
  ASSUME StreamPipes, NEW c \in Relays, Unheard(c)
  PROVE  Coming(c) = 0
  <1>1. Chunk(c)[2] = c /\ Chunk(c) # <<>> BY DEF Chunk
  <1>2. /\ \A i \in 1..Len(output) : output[i] # Chunk(c)
        /\ \A i \in 1..Len(queue[c]) : queue[c][i] # Chunk(c)
        /\ hand # Chunk(c)
    BY <1>1 DEF Unheard
  <1> QED BY <1>2, FlowType DEF Coming

\* Who has a channel has had it, or has just begun.
LEMMA Joined ==
  ASSUME StreamsAssumption, StreamTypes, StreamPipes, Attached, [StreamsNext]_streamsVars,
         NEW c \in channels'
  PROVE  c \in Relays /\ (c \in channels \/ Begins(c))
  <1>0. channels' \subseteq Relays BY TypesKept DEF StreamTypes
  <1>1. ASSUME NEW d \in Relays, Served(d) PROVE channels' = channels BY <1>1, ServedFrame
  <1>2. ASSUME NEW d \in Relays, Managed(d) PROVE c \in channels \/ Begins(c)
    <2>1. CASE c = d BY <1>2, <2>1, TaskMoves
    <2>2. CASE c # d BY <1>0, <1>2, <2>2, OthersManaged DEF Same
    <2> QED BY <2>1, <2>2
  <1>3. ASSUME Write \/ ReadFrame \/ UNCHANGED streamsVars PROVE channels' = channels
    BY <1>3 DEF Write, ReadFrame, streamsVars
  <1> QED BY <1>0, <1>1, <1>2, <1>3, ManagedCases

\* What was sent and given moves only with the data.
LEMMA MadeMoves ==
  ASSUME StreamTypes, StreamPipes, Attached, NEW d \in Relays, NEW c \in Relays
  PROVE  /\ Served(d) => /\ made'[c] = made[c] + (IF Receives1(c) THEN 1 ELSE 0)
                         /\ got' = got
         /\ Managed(d) => /\ made' = made
                          /\ got'[c] = got[c] + (IF TakeData(c) THEN 1 ELSE 0)
  <1>0. made[c] \in Nat /\ got[c] \in Nat /\ made \in [Relays -> Nat] /\ got \in [Relays -> Nat]
    BY DEF StreamTypes
  <1>1. ASSUME Served(d)
        PROVE  made'[c] = made[c] + (IF Receives1(c) THEN 1 ELSE 0)
    <2>1. CASE Receives1(c) BY <1>0, <2>1 DEF Receives1
    <2>2. CASE ~Receives1(c)
      <3>1. CASE c # d BY <1>0, <1>1, <2>2, <3>1, OthersServed DEF Same
      <3>2. CASE c = d
        <4>1. made' = made
          BY <1>1, <2>2, <3>2 DEF Served, Opens, Refuses, Stores, Notes, Shuts, Fails, Closing1, Connects,
             Retries, ReceivesEnd, Gives, HalfCloses, Completes, Receives
        <4> QED BY <1>0, <2>2, <4>1
      <3> QED BY <3>1, <3>2
    <2> QED BY <2>1, <2>2
  <1>2. Served(d) => got' = got BY ServedFrame
  <1>3. Managed(d) => made' = made BY HandMoves
  <1>4. ASSUME Managed(d)
        PROVE  got'[c] = got[c] + (IF TakeData(c) THEN 1 ELSE 0)
    <2>1. CASE TakeData(c) BY <1>0, <2>1 DEF TakeData
    <2>2. CASE ~TakeData(c)
      <3>1. CASE c # d BY <1>0, <1>4, <2>2, <3>1, OthersManaged DEF Same
      <3>2. CASE c = d
        <4>1. got' = got
          BY <1>4, <2>2, <3>2 DEF Managed, Begins, Refused, Relays1, Drained, Acknowledges, TakeEnd,
             Finishes, FinishRelay, Credited, ReadEnd, ClientGone, ReadClient, Upload, Puts, Drops, Cuts
        <4> QED BY <1>0, <2>2, <4>1
      <3> QED BY <3>1, <3>2
    <2> QED BY <2>1, <2>2
  <1> QED BY <1>1, <1>2, <1>3, <1>4

LEMMA CarriedKept ==
  ASSUME StreamsAssumption, StreamTypes, StreamPipes, Attached, Opening, Carried,
         [StreamsNext]_streamsVars
  PROVE  Carried'
  <1> SUFFICES ASSUME NEW c \in channels' PROVE made'[c] = got'[c] + Coming(c)'
    BY DEF Carried
  <1>0. c \in Relays /\ (c \in channels \/ Begins(c)) BY Joined
  <1>1. /\ made[c] \in Nat /\ got[c] \in Nat /\ Coming(c) \in Nat
    BY <1>0, FlowType DEF StreamTypes, Coming
  <1>2. Chunk(c) \in {Written(c), Chunk(c)} /\ Chunk(c) # Written(c) BY <1>0, Weighed
  <1>3. CASE c \in channels
    <2>0. made[c] = got[c] + Coming(c) BY <1>3 DEF Carried
    <2>1. ASSUME NEW d \in Relays, Served(d) PROVE made'[c] = got'[c] + Coming(c)'
      <3>1. Coming(c)' = Coming(c) + (IF Receives1(c) THEN 1 ELSE 0)
        BY <1>0, <1>2, <2>1, FlowServed DEF Coming, FlowIn
      <3>2. made'[c] = made[c] + (IF Receives1(c) THEN 1 ELSE 0) /\ got' = got
        BY <1>0, <2>1, MadeMoves
      <3> QED BY <1>1, <2>0, <3>1, <3>2
    <2>2. ASSUME NEW d \in Relays, Managed(d) PROVE made'[c] = got'[c] + Coming(c)'
      <3>1. Coming(c)' \in Nat /\ Coming(c) = Coming(c)' + (IF TakeData(c) THEN 1 ELSE 0)
        <4>1. /\ Flow(c, Chunk(c))' \in Nat
              /\ FlowOut(c, Chunk(c)) => Flow(c, Chunk(c)) = Flow(c, Chunk(c))' + 1
              /\ ~FlowOut(c, Chunk(c)) => Flow(c, Chunk(c))' = Flow(c, Chunk(c))
          BY <1>0, <1>2, <1>3, <2>2, FlowManaged
        <4>2. FlowOut(c, Chunk(c)) <=> TakeData(c) BY <1>2 DEF FlowOut
        <4> QED BY <1>1, <4>1, <4>2 DEF Coming
      <3>2. made' = made /\ got'[c] = got[c] + (IF TakeData(c) THEN 1 ELSE 0)
        BY <1>0, <2>2, MadeMoves
      <3> QED BY <1>1, <2>0, <3>1, <3>2
    <2>3. ASSUME Write \/ ReadFrame \/ UNCHANGED streamsVars PROVE made'[c] = got'[c] + Coming(c)'
      <3>1. Coming(c)' = Coming(c) BY <1>0, <1>2, <1>3, <2>3, FlowElse DEF Coming
      <3>2. made' = made /\ got' = got BY <2>3 DEF Write, ReadFrame, streamsVars
      <3> QED BY <2>0, <3>1, <3>2
    <2> QED BY <2>1, <2>2, <2>3, ManagedCases
  <1>4. CASE Begins(c)
    <2>1. Unheard(c) BY <1>0, <1>4 DEF Begins, Asks, Opening
    <2>2. Coming(c) = 0 /\ made[c] = 0 /\ got[c] = 0 BY <1>0, <2>1, NothingComes DEF Unheard
    <2>3. Managed(c) BY <1>4 DEF Managed
    <2>4. Coming(c)' \in Nat /\ Coming(c)' <= Coming(c) BY <1>0, <1>2, <2>3, FlowManaged DEF Coming
    <2>5. made' = made /\ got' = got BY <1>4 DEF Begins
    <2> QED BY <1>1, <2>2, <2>4, <2>5
  <1> QED BY <1>0, <1>3, <1>4
-----------------------------------------------------------------------------
(* The order of what comes *)

\* Places, counted from the front of the queue and from the front of the pipe.
LEMMA Places ==
  ASSUME NEW k \in Nat, NEW a \in Nat, NEW h \in Nat
  PROVE  /\ k - a - h = k - (a + h)
         /\ k > a + h => k > a
         /\ k - (a + 1) - h = k - 1 - a - h
         /\ k <= a + 1 + h <=> k - 1 <= a + h
  OBVIOUS

\* What comes is in the queue, in the reader's hand and in the pipe.
LEMMA Comings ==
  ASSUME StreamPipes, NEW c \in Relays
  PROVE  /\ Len(queue[c]) \in Nat /\ Held(c) \in {0, 1} /\ Held(c) \in Nat /\ Len(output) \in Nat
         /\ Total(c) \in Nat
         /\ \A k \in 1..Len(queue[c]) : k \in 1..Total(c) /\ Comes(c, k) = queue[c][k]
         /\ Held(c) = 1 => /\ Len(queue[c]) + 1 \in 1..Total(c)
                           /\ Comes(c, Len(queue[c]) + 1) = hand
         /\ \A i \in 1..Len(output) : /\ Len(queue[c]) + Held(c) + i \in 1..Total(c)
                                      /\ Comes(c, Len(queue[c]) + Held(c) + i) = output[i]
  <1>1. /\ Len(queue[c]) \in Nat /\ Held(c) \in {0, 1} /\ Held(c) \in Nat /\ Len(output) \in Nat
    BY DEF StreamPipes, Held
  <1>2. Total(c) \in Nat BY <1>1 DEF Total
  <1>3. ASSUME NEW k \in 1..Len(queue[c]) PROVE k \in 1..Total(c) /\ Comes(c, k) = queue[c][k]
    BY <1>1, <1>3 DEF Total, Comes
  <1>4. ASSUME Held(c) = 1
        PROVE  /\ Len(queue[c]) + 1 \in 1..Total(c)
               /\ Comes(c, Len(queue[c]) + 1) = hand
    BY <1>1, <1>4 DEF Total, Comes
  <1>5. ASSUME NEW i \in 1..Len(output)
        PROVE  /\ Len(queue[c]) + Held(c) + i \in 1..Total(c)
               /\ Comes(c, Len(queue[c]) + Held(c) + i) = output[i]
    <2> DEFINE n == Len(queue[c]) + Held(c)
    <2>1. n \in Nat /\ n >= Len(queue[c]) BY <1>1
    <2> HIDE DEF n
    <2>2. n + i \in 1..(n + Len(output)) /\ ~(n + i <= Len(queue[c])) /\ ~(n + i <= n) /\ n + i - n = i
      BY <1>1, <2>1
    <2>3. Total(c) = n + Len(output) BY DEF Total, n
    <2>4. ASSUME NEW k, k = n + i PROVE Comes(c, k) = output[i]
      <3>1. k - Len(queue[c]) - Held(c) = i BY <1>1, <2>4 DEF n
      <3>2. ~(k <= Len(queue[c])) /\ ~(k <= Len(queue[c]) + Held(c)) BY <2>2, <2>4 DEF n
      <3> QED BY <3>1, <3>2 DEF Comes
    <2> QED BY <2>2, <2>3, <2>4 DEF n
  <1> QED BY <1>1, <1>2, <1>3, <1>4, <1>5

\* What can happen to it: nothing, more comes behind it, one is taken out of
\* it, one is put into it.
Stands(c) == Total(c)' = Total(c) /\ \A k \in 1..Total(c) : Comes(c, k)' = Comes(c, k)

Grows(c, fs) ==
  /\ Total(c)' = Total(c) + Len(fs)
  /\ \A k \in 1..Total(c) : Comes(c, k)' = Comes(c, k)
  /\ \A k \in 1..Total(c)' : k > Total(c) => Comes(c, k)' = fs[k - Total(c)]

Loses(c, p) ==
  /\ Total(c)' = Total(c) - 1
  /\ \A k \in 1..Total(c)' : Comes(c, k)' = IF k < p THEN Comes(c, k) ELSE Comes(c, k + 1)

Pushes(c, p) ==
  /\ Total(c)' = Total(c) + 1
  /\ \A k \in 1..Total(c) : k < p => Comes(c, k)' = Comes(c, k)
  /\ \A k \in 1..Total(c)' : k > p => Comes(c, k)' = Comes(c, k - 1)
  /\ Comes(c, p)' = ClosedOf(c)

LEMMA StandsStill ==
  ASSUME NEW c \in Relays, queue'[c] = queue[c], output' = output, Held(c)' = Held(c),
         Held(c) = 1 => hand' = hand
  PROVE  Stands(c)
  <1>1. Total(c)' = Total(c) BY DEF Total
  <1>2. Held(c) \in {0, 1} BY DEF Held
  <1>3. ASSUME NEW k \in 1..Total(c) PROVE Comes(c, k)' = Comes(c, k)
    <2>1. CASE Held(c) = 1 BY <2>1 DEF Comes
    <2>2. CASE Held(c) = 0
      <3>1. Len(queue[c]) \in Nat \/ Len(queue[c]) \notin Nat OBVIOUS
      <3>2. k <= Len(queue[c]) + 0 <=> k <= Len(queue[c]) OBVIOUS
      <3> QED BY <2>2, <3>2 DEF Comes
    <2> QED BY <1>2, <2>1, <2>2
  <1> QED BY <1>1, <1>3 DEF Stands

LEMMA GrowsBehind ==
  ASSUME StreamPipes, NEW c \in Relays, NEW fs \in Seq(Told), output' = output \o fs,
         UNCHANGED <<queue, hand>>
  PROVE  Grows(c, fs)
  <1> DEFINE n == Len(queue[c]) + Held(c)
  <1>1. /\ Len(queue[c]) \in Nat /\ Held(c) \in {0, 1} /\ Total(c) = n + Len(output) /\ n \in Nat
        /\ Held(c)' = Held(c) /\ Total(c)' = n + Len(output') /\ Held(c) \in Nat
    <2>1. Len(queue[c]) \in Nat /\ Held(c) \in {0, 1} /\ Held(c) \in Nat BY Comings
    <2>2. Held(c)' = Held(c) BY DEF Held
    <2>3. Total(c) = n + Len(output) /\ Total(c)' = n + Len(output') BY <2>2 DEF Total
    <2> QED BY <2>1, <2>2, <2>3
  <1>2. /\ Len(output) \in Nat /\ Len(fs) \in Nat /\ Len(output') = Len(output) + Len(fs)
        /\ \A i \in 1..Len(output) : output'[i] = output[i]
        /\ \A i \in (Len(output) + 1)..Len(output') : output'[i] = fs[i - Len(output)]
    BY Emits
  <1>3. ASSUME NEW k \in Nat
        PROVE  /\ k > n => Comes(c, k) = output[k - n] /\ Comes(c, k)' = output'[k - n]
               /\ k <= n => Comes(c, k)' = Comes(c, k)
    <2>1. k - Len(queue[c]) - Held(c) = k - n /\ (k > n => ~(k <= Len(queue[c])))
      <3>1. Len(queue[c]) \in Nat /\ Held(c) \in Nat BY <1>1
      <3>2. k - Len(queue[c]) - Held(c) = k - (Len(queue[c]) + Held(c)) BY <3>1, Places
      <3>3. k > Len(queue[c]) + Held(c) => k > Len(queue[c]) BY <3>1, Places
      <3> QED BY <3>1, <3>2, <3>3
    <2>2. k > n => Comes(c, k) = output[k - n] BY <1>1, <2>1 DEF Comes
    <2>3. k > n => Comes(c, k)' = output'[k - n]
      <3>1. k - Len(queue'[c]) - Held(c)' = k - n BY <1>1, <2>1
      <3>2. k > n => ~(k <= Len(queue'[c])) /\ ~(k <= Len(queue'[c]) + Held(c)') BY <1>1
      <3> QED BY <3>1, <3>2 DEF Comes
    <2>4. k <= n => Comes(c, k)' = Comes(c, k) BY <1>1 DEF Comes
    <2> QED BY <2>2, <2>3, <2>4
  <1>4. Total(c)' = Total(c) + Len(fs) BY <1>1, <1>2
  <1> HIDE DEF n
  <1>5. ASSUME NEW k \in 1..Total(c) PROVE Comes(c, k)' = Comes(c, k)
    <2>0. k \in Nat BY <1>1, <1>2
    <2>1. CASE k <= n BY <1>3, <2>0, <2>1
    <2>2. CASE ~(k <= n)
      <3>1. k - n \in 1..Len(output) /\ k > n BY <1>1, <1>2, <2>0, <2>2
      <3> QED BY <1>2, <1>3, <2>0, <3>1
    <2> QED BY <2>1, <2>2
  <1>6. ASSUME NEW k \in 1..Total(c)', k > Total(c) PROVE Comes(c, k)' = fs[k - Total(c)]
    <2>1. k \in Nat /\ k > n /\ k - n \in (Len(output) + 1)..Len(output') BY <1>1, <1>2, <1>6
    <2>2. Comes(c, k)' = fs[(k - n) - Len(output)] BY <1>2, <1>3, <2>1
    <2>3. (k - n) - Len(output) = k - Total(c) BY <1>1, <1>2, <2>1
    <2> QED BY <2>2, <2>3
  <1> QED BY <1>4, <1>5, <1>6 DEF Grows

\* The connection takes the first frame from its queue.
LEMMA LosesFirst ==
  ASSUME StreamPipes, NEW c \in Relays, queue[c] # <<>>, queue' = [queue EXCEPT ![c] = Tail(@)],
         UNCHANGED <<hand, output>>
  PROVE  Loses(c, 1)
  <1>1. /\ Len(queue[c]) \in Nat \ {0} /\ Len(queue'[c]) = Len(queue[c]) - 1
        /\ \A i \in 1..Len(queue'[c]) : queue'[c][i] = queue[c][i + 1]
    BY QueueTakes
  <1>2. Held(c) \in {0, 1} /\ Held(c) \in Nat /\ Len(output) \in Nat /\ Held(c)' = Held(c)
    <2>1. Held(c)' = Held(c) BY DEF Held
    <2> QED BY <2>1, Comings
  <1>3. Total(c)' = Total(c) - 1 /\ Total(c) \in Nat BY <1>1, <1>2 DEF Total
  <1>4. ASSUME NEW k \in 1..Total(c)' PROVE Comes(c, k)' = Comes(c, k + 1)
    <2>0. k \in Nat /\ k >= 1 BY <1>3
    <2>1. CASE k <= Len(queue'[c])
      <3>1. k + 1 <= Len(queue[c]) /\ k \in 1..Len(queue'[c]) BY <1>1, <2>0, <2>1
      <3> QED BY <1>1, <2>1, <3>1 DEF Comes
    <2>2. CASE ~(k <= Len(queue'[c])) /\ k <= Len(queue'[c]) + Held(c)
      <3>1. ~(k + 1 <= Len(queue[c])) /\ k + 1 <= Len(queue[c]) + Held(c) BY <1>1, <1>2, <2>0, <2>2
      <3> QED BY <1>2, <2>2, <3>1 DEF Comes
    <2>3. CASE ~(k <= Len(queue'[c])) /\ ~(k <= Len(queue'[c]) + Held(c))
      <3>1. ASSUME NEW m \in Nat, m = k + 1 PROVE Comes(c, k)' = Comes(c, m)
        <4>1. /\ ~(m <= Len(queue[c])) /\ ~(m <= Len(queue[c]) + Held(c))
          BY <1>1, <1>2, <2>0, <2>3, <3>1
        <4>4. k - Len(queue'[c]) - Held(c) = m - Len(queue[c]) - Held(c)
          <5>1. /\ Len(queue'[c]) \in Nat /\ Len(queue[c]) = Len(queue'[c]) + 1 /\ Held(c) \in Nat
                /\ k \in Nat
            BY <1>1, <1>2, <2>0
          <5>2. \A a, h \in Nat : k - a - h = m - (a + 1) - h BY <3>1, <5>1
          <5> QED BY <5>1, <5>2
        <4>2. Comes(c, m) = output[m - Len(queue[c]) - Held(c)] BY <4>1 DEF Comes
        <4>3. Comes(c, k)' = output[k - Len(queue'[c]) - Held(c)] BY <1>2, <2>3 DEF Comes
        <4> QED BY <4>2, <4>3, <4>4
      <3>2. k + 1 \in Nat BY <2>0
      <3> QED BY <3>1, <3>2
    <2> QED BY <2>1, <2>2, <2>3
  <1>5. \A k \in 1..Total(c)' : ~(k < 1) BY <1>3
  <1> QED BY <1>3, <1>4, <1>5 DEF Loses

\* The reader puts the frame in its hand into the queue.
LEMMA StandsPut ==
  ASSUME StreamPipes, NEW c \in Relays, Puts(c)
  PROVE  Stands(c)
  <1>1. /\ hand \in Told /\ hand[2] = c /\ hand' = <<>> /\ output' = output
        /\ queue' = [queue EXCEPT ![c] = Append(@, hand)]
    BY DEF Puts
  <1>2. /\ Len(queue[c]) \in Nat /\ Len(queue'[c]) = Len(queue[c]) + 1
        /\ \A i \in 1..Len(queue[c]) : queue'[c][i] = queue[c][i]
        /\ queue'[c][Len(queue[c]) + 1] = hand
    BY <1>1, QueuePuts
  <1>3. Held(c) = 1 /\ Held(c)' = 0 /\ Len(output) \in Nat BY <1>1, InPipes DEF Held
  <1>4. Total(c)' = Total(c) /\ Total(c) \in Nat BY <1>1, <1>2, <1>3 DEF Total
  <1>5. ASSUME NEW k \in 1..Total(c) PROVE Comes(c, k)' = Comes(c, k)
    <2>0. k \in Nat /\ k >= 1 BY <1>4
    <2>1. CASE k <= Len(queue[c])
      <3>1. k <= Len(queue'[c]) /\ k \in 1..Len(queue[c]) BY <1>2, <2>0, <2>1
      <3> QED BY <1>2, <2>1, <3>1 DEF Comes
    <2>2. CASE k = Len(queue[c]) + 1
      <3>1. k <= Len(queue'[c]) /\ ~(k <= Len(queue[c])) /\ k <= Len(queue[c]) + Held(c)
        BY <1>2, <1>3, <2>2
      <3> QED BY <1>2, <2>2, <3>1 DEF Comes
    <2>3. CASE k > Len(queue[c]) + 1
      <3>1. /\ ~(k <= Len(queue'[c])) /\ ~(k <= Len(queue[c])) /\ ~(k <= Len(queue[c]) + Held(c))
            /\ ~(k <= Len(queue'[c]) + Held(c)')
            /\ k - Len(queue'[c]) - Held(c)' = k - Len(queue[c]) - Held(c)
        BY <1>2, <1>3, <2>0, <2>3
      <3> QED BY <1>1, <3>1 DEF Comes
    <2> QED BY <1>2, <2>0, <2>1, <2>2, <2>3
  <1> QED BY <1>4, <1>5 DEF Stands

\* The upload puts a frame behind those in the queue.
LEMMA PushesClosed ==
  ASSUME StreamPipes, NEW c \in Relays, queue' = [queue EXCEPT ![c] = Append(@, ClosedOf(c))],
         UNCHANGED <<hand, output>>
  PROVE  \E p \in 1..(Total(c) + 1) : Pushes(c, p)
  <1>0. ClosedOf(c) \in Told /\ ClosedOf(c)[2] = c BY DEF ClosedOf, Told
  <1>1. /\ Len(queue[c]) \in Nat /\ Len(queue'[c]) = Len(queue[c]) + 1
        /\ \A i \in 1..Len(queue[c]) : queue'[c][i] = queue[c][i]
        /\ queue'[c][Len(queue[c]) + 1] = ClosedOf(c)
    BY <1>0, QueuePuts
  <1>2. Held(c) \in {0, 1} /\ Held(c) \in Nat /\ Len(output) \in Nat /\ Held(c)' = Held(c)
    <2>1. Held(c)' = Held(c) BY DEF Held
    <2> QED BY <2>1, Comings
  <1>3. Total(c)' = Total(c) + 1 /\ Total(c) \in Nat /\ Total(c) >= Len(queue[c])
    <2>1. Total(c)' = (Len(queue[c]) + 1) + Held(c) + Len(output) BY <1>1, <1>2 DEF Total
    <2>2. Total(c) = Len(queue[c]) + Held(c) + Len(output) BY DEF Total
    <2>3. Len(queue[c]) \in Nat BY <1>1
    <2> QED BY SMTT(30), <1>2, <2>1, <2>2, <2>3
  <1>4. ASSUME NEW k \in 1..Total(c), k < Len(queue[c]) + 1 PROVE Comes(c, k)' = Comes(c, k)
    <2>1. k <= Len(queue'[c]) /\ k <= Len(queue[c]) /\ k \in 1..Len(queue[c]) BY <1>1, <1>3, <1>4
    <2> QED BY <1>1, <2>1 DEF Comes
  <1>5. ASSUME NEW k \in 1..Total(c)', k > Len(queue[c]) + 1 PROVE Comes(c, k)' = Comes(c, k - 1)
    <2>0. k \in Nat /\ ~(k <= Len(queue'[c])) /\ ~(k - 1 <= Len(queue[c])) BY <1>1, <1>3, <1>5
    <2>1. k <= Len(queue'[c]) + Held(c)' <=> k - 1 <= Len(queue[c]) + Held(c) BY <1>1, <1>2, <2>0
    <2>2. k - Len(queue'[c]) - Held(c)' = k - 1 - Len(queue[c]) - Held(c)
      <3>1. k - (Len(queue[c]) + 1) - Held(c) = k - 1 - Len(queue[c]) - Held(c)
        <4>1. Len(queue[c]) \in Nat /\ Held(c) \in Nat /\ k \in Nat BY <1>1, <1>2, <2>0
        <4> QED BY <4>1, Places
      <3> QED BY <1>1, <1>2, <3>1
    <2>3. CASE k <= Len(queue'[c]) + Held(c)'
      <3>1. Comes(c, k)' = hand' BY <2>0, <2>3 DEF Comes
      <3>2. Comes(c, k - 1) = hand BY <2>0, <2>1, <2>3 DEF Comes
      <3> QED BY <3>1, <3>2
    <2>4. CASE ~(k <= Len(queue'[c]) + Held(c)')
      <3>1. Comes(c, k)' = output'[k - Len(queue'[c]) - Held(c)'] BY <2>0, <2>4 DEF Comes
      <3>2. Comes(c, k - 1) = output[k - 1 - Len(queue[c]) - Held(c)] BY <2>0, <2>1, <2>4 DEF Comes
      <3> QED BY <2>2, <3>1, <3>2
    <2> QED BY <2>3, <2>4
  <1>6. ASSUME NEW p, p = Len(queue[c]) + 1
        PROVE  Pushes(c, p) /\ p \in 1..(Total(c) + 1)
    <2>1. p <= Len(queue'[c]) BY <1>1, <1>6
    <2>2. Comes(c, p)' = ClosedOf(c) BY <1>1, <1>6, <2>1 DEF Comes
    <2>3. p \in 1..(Total(c) + 1) BY <1>1, <1>3, <1>6
    <2> QED BY <1>3, <1>4, <1>5, <1>6, <2>2, <2>3 DEF Pushes
  <1> QED BY <1>6

\* The reader takes a frame from the pipe.
LEMMA ReadMoves ==
  ASSUME StreamPipes, ReadFrame, NEW c \in channels, c \in Relays
  PROVE  \/ Stands(c)
         \/ \E p \in 1..Total(c) : Loses(c, p) /\ Comes(c, p)[2] # c
  <1>1. /\ hand = <<>> /\ output # <<>> /\ output' = Tail(output) /\ queue' = queue
        /\ hand' = IF Head(output)[2] \in channels THEN Head(output) ELSE <<>>
    BY DEF ReadFrame
  <1>2. /\ Len(output) \in Nat \ {0} /\ Len(output') = Len(output) - 1
        /\ Head(output) = output[1] /\ output[1] \in Told
        /\ \A i \in 1..Len(output') : output'[i] = output[i + 1]
    BY <1>1, ReaderTakes
  <1>3. Held(c) = 0 /\ Len(queue[c]) \in Nat BY <1>1, InPipes DEF Held
  <1>4. Total(c) = Len(queue[c]) + Len(output) /\ Total(c) \in Nat BY <1>2, <1>3 DEF Total
  <1>5. CASE output[1][2] = c
    <2>1. hand' = output[1] /\ Held(c)' = 1 BY <1>1, <1>2, <1>5 DEF Held
    <2>2. Total(c)' = Total(c) BY <1>1, <1>2, <1>3, <1>4, <2>1 DEF Total
    <2>3. ASSUME NEW k \in 1..Total(c) PROVE Comes(c, k)' = Comes(c, k)
      <3>0. k \in Nat /\ k >= 1 BY <1>4
      <3>1. CASE k <= Len(queue[c]) BY <1>1, <3>1 DEF Comes
      <3>2. CASE k = Len(queue[c]) + 1
        <4>1. /\ ~(k <= Len(queue[c])) /\ ~(k <= Len(queue[c]) + 0) /\ k <= Len(queue[c]) + 1
              /\ k - Len(queue[c]) - 0 = 1
          BY <1>3, <3>2
        <4>2. Comes(c, k) = output[1] BY <1>3, <4>1 DEF Comes
        <4>3. Comes(c, k)' = hand' BY <1>1, <2>1, <4>1 DEF Comes
        <4> QED BY <2>1, <4>2, <4>3
      <3>3. CASE k > Len(queue[c]) + 1
        <4> DEFINE i == k - Len(queue[c]) - 1
        <4>1. /\ ~(k <= Len(queue[c])) /\ ~(k <= Len(queue[c]) + 0) /\ ~(k <= Len(queue[c]) + 1)
              /\ k - Len(queue[c]) - 0 = i + 1 /\ i \in 1..Len(output')
          BY <1>2, <1>3, <1>4, <3>0, <3>3
        <4>2. Comes(c, k) = output[i + 1] BY <1>3, <4>1 DEF Comes
        <4>3. Comes(c, k)' = output'[i] BY <1>1, <2>1, <4>1 DEF Comes
        <4> QED BY <1>2, <4>1, <4>2, <4>3
      <3> QED BY <1>3, <3>0, <3>1, <3>2, <3>3
    <2> QED BY <2>2, <2>3 DEF Stands
  <1>6. CASE output[1][2] # c
    <2> DEFINE p == Len(queue[c]) + 1
    <2>1. Held(c)' = 0 BY <1>1, <1>2, <1>6, InPipes DEF Held
    <2>2. Total(c)' = Total(c) - 1 BY <1>1, <1>2, <1>3, <1>4, <2>1 DEF Total
    <2>3. p \in 1..Total(c) /\ Comes(c, p) = output[1]
      <3>1. ~(p <= Len(queue[c])) /\ ~(p <= Len(queue[c]) + 0) /\ p - Len(queue[c]) - 0 = 1 BY <1>3
      <3>2. Comes(c, p) = output[1] BY <1>3, <3>1 DEF Comes
      <3> QED BY <1>2, <1>3, <1>4, <3>2
    <2>4. ASSUME NEW k \in 1..Total(c)'
          PROVE  Comes(c, k)' = IF k < p THEN Comes(c, k) ELSE Comes(c, k + 1)
      <3>0. k \in Nat /\ k >= 1 BY <1>4, <2>2
      <3>1. CASE k < p
        <4>1. k <= Len(queue[c]) BY <1>3, <3>0, <3>1
        <4> QED BY <1>1, <3>1, <4>1 DEF Comes
      <3>2. CASE ~(k < p)
        <4> DEFINE i == k - Len(queue[c])
        <4>1. /\ ~(k <= Len(queue[c])) /\ ~(k <= Len(queue[c]) + 0) /\ k - Len(queue[c]) - 0 = i
              /\ ~(k + 1 <= Len(queue[c])) /\ ~(k + 1 <= Len(queue[c]) + 0)
              /\ k + 1 - Len(queue[c]) - 0 = i + 1 /\ i \in 1..Len(output')
          BY SMTT(30), <1>2, <1>3, <1>4, <2>2, <3>0, <3>2
        <4>2. Comes(c, k)' = output'[i] BY <1>1, <2>1, <4>1 DEF Comes
        <4>3. Comes(c, k + 1) = output[i + 1] BY <1>3, <4>1 DEF Comes
        <4> QED BY <1>2, <3>2, <4>1, <4>2, <4>3
      <3> QED BY <3>1, <3>2
    <2>5. Loses(c, p) BY <2>2, <2>4 DEF Loses
    <2> QED BY <1>6, <2>3, <2>5
  <1> QED BY <1>5, <1>6

\* What the supervisor writes, and why.
Says(d, fs) ==
  /\ output' = output \o fs
  /\ \/ Refuses(d) /\ fs = <<FaultOf(d)>>
     \/ (Shuts(d) \/ Completes(d)) /\ fs = <<ClosedOf(d)>>
     \/ Fails(d) /\ fs = <<FaultOf(d), ClosedOf(d)>>
     \/ Connects(d) /\ fs = <<<<"connected", d, 0>>>>
     \/ Receives1(d) /\ fs = <<Chunk(d)>>
     \/ ReceivesEnd(d) /\ fs = <<EndOf(d)>>
     \/ Gives(d) /\ fs = <<Written(d)>>

\* A channel that has been there and stays: what comes to it moves so.
LEMMA ComesMoves ==
  ASSUME StreamsAssumption, StreamTypes, StreamPipes, Attached, Opening, Window,
         [StreamsNext]_streamsVars, NEW c \in channels, c \in channels', c \in Relays
  PROVE  \/ Stands(c)
         \/ \E d \in Relays : \E fs \in Seq(Told) : Served(d) /\ Says(d, fs) /\ Grows(c, fs)
         \/ Shifts(c) /\ queue[c] # <<>> /\ Loses(c, 1)
         \/ ReadFrame /\ \E p \in 1..Total(c) : Loses(c, p) /\ Comes(c, p)[2] # c
         \/ ClientGone(c) /\ \E p \in 1..(Total(c) + 1) : Pushes(c, p)
  <1>0. ~Over(c) BY DEF Attached, Begun, Over
  <1>1. ASSUME NEW d \in Relays, Served(d)
        PROVE  Stands(c) \/ \E fs \in Seq(Told) : Says(d, fs) /\ Grows(c, fs)
    <2>1. UNCHANGED <<queue, hand>> BY <1>1, ServedFrame
    <2>2. CASE UNCHANGED output
      <3>1. Held(c)' = Held(c) BY <2>1 DEF Held
      <3> QED BY <2>1, <2>2, <3>1, StandsStill
    <2>3. CASE \E fs \in Seq(Told) : Says(d, fs)
      <3>1. PICK fs \in Seq(Told) : Says(d, fs) BY <2>3
      <3>2. output' = output \o fs BY <3>1 DEF Says
      <3>3. Grows(c, fs) BY <2>1, <3>2, GrowsBehind
      <3> QED BY <3>1, <3>3
    <2>4. UNCHANGED output \/ \E fs \in Seq(Told) : Says(d, fs) BY <1>1, Answers DEF Says
    <2> QED BY <2>2, <2>3, <2>4
  <1>2. ASSUME NEW d \in Relays, Managed(d), c # d PROVE Stands(c)
    <2>1. queue'[c] = queue[c] /\ output' = output BY <1>2, OthersManaged, HandMoves DEF Same
    <2>2. Held(c)' = Held(c) /\ (Held(c) = 1 => hand' = hand)
      <3>1. CASE hand' = hand BY <3>1 DEF Held
      <3>2. CASE (Puts(d) \/ Drops(d)) /\ hand' = <<>>
        <4>1. hand[2] = d /\ <<>> \notin Told BY <3>2, InPipes DEF Puts, Drops
        <4> QED BY <1>2, <3>2, <4>1 DEF Held
      <3>3. CASE Cuts(d) /\ hand' = <<"overflow", d, 0>>
        <4>1. hand[2] = d BY <3>3 DEF Cuts
        <4>2. <<"overflow", d, 0>> \notin Told BY DEF Told
        <4> QED BY <1>2, <3>3, <4>1, <4>2 DEF Held
      <3> QED BY <1>2, <3>1, <3>2, <3>3, HandMoves
    <2> QED BY <2>1, <2>2, StandsStill
  <1>3. ASSUME Managed(c)
        PROVE  \/ Stands(c)
               \/ Shifts(c) /\ queue[c] # <<>> /\ Loses(c, 1)
               \/ ClientGone(c) /\ \E p \in 1..(Total(c) + 1) : Pushes(c, p)
    <2>0. ~Cuts(c) /\ ~Finishes(c) /\ ~Drops(c)
      <3>1. c \notin channels \ {c} OBVIOUS
      <3> QED BY <1>0, <3>1 DEF Cuts, Finishes, FinishRelay, Drops
    <2>1. output' = output BY <1>3, HandMoves
    <2>2. CASE Puts(c) BY <2>2, StandsPut
    <2>3. CASE ~Puts(c) /\ queue' = queue
      <3>1. hand' = hand BY <1>3, <2>0, <2>3, HandMoves
      <3>2. Held(c)' = Held(c) /\ queue'[c] = queue[c] BY <2>3, <3>1 DEF Held
      <3> QED BY <2>1, <3>1, <3>2, StandsStill
    <2>4. CASE Shifts(c) /\ queue[c] # <<>> /\ queue' = [queue EXCEPT ![c] = Tail(@)]
      <3>1. hand' = hand BY <2>4 DEF Shifts, Relays1, TakeData, Acknowledges, TakeEnd
      <3> QED BY <2>1, <2>4, <3>1, LosesFirst
    <2>5. CASE ClientGone(c) /\ queue' = [queue EXCEPT ![c] = Append(@, ClosedOf(c))]
      <3>1. hand' = hand BY <2>5 DEF ClientGone
      <3> QED BY <2>1, <2>5, <3>1, PushesClosed
    <2> QED BY <1>3, <2>0, <2>2, <2>3, <2>4, <2>5, QueueMoves
  <1>4. ASSUME Write PROVE Stands(c)
    <2>1. UNCHANGED <<queue, output>> BY <1>4 DEF Write
    <2>2. hand' = hand \/ (hand = <<"overflow", lock[1][2], 0>> /\ hand' = <<>>)
      BY <1>4, WriteMoves
    <2>3. <<>> \notin Told /\ \A d : <<"overflow", d, 0>> \notin Told BY DEF Told
    <2>4. Held(c)' = Held(c) /\ (Held(c) = 1 => hand' = hand) BY <2>2, <2>3 DEF Held
    <2> QED BY <2>1, <2>4, StandsStill
  <1>5. ASSUME UNCHANGED streamsVars PROVE Stands(c)
    <2>1. UNCHANGED <<queue, output, hand>> BY <1>5 DEF streamsVars
    <2>2. Held(c)' = Held(c) BY <2>1 DEF Held
    <2> QED BY <2>1, <2>2, StandsStill
  <1>6. ASSUME ReadFrame
        PROVE  Stands(c) \/ \E p \in 1..Total(c) : Loses(c, p) /\ Comes(c, p)[2] # c
    BY <1>6, ReadMoves
  <1> QED BY <1>1, <1>2, <1>3, <1>4, <1>5, <1>6, ManagedCases

\* To one that has just begun comes nothing of its own.
LEMMA BeginsEmpty ==
  ASSUME StreamTypes, StreamPipes, Opening, NEW c \in Relays, Begins(c)
  PROVE  /\ Unheard(c) /\ UNCHANGED <<readEnd, told, gone>>
         /\ \A k \in 1..Total(c)' : Comes(c, k)'[2] # c
  <1>1. Unheard(c) BY DEF Begins, Asks, Opening
  <1>2. UNCHANGED <<readEnd, told, gone, queue, hand, output>> BY DEF Begins
  <1>3. queue'[c] = <<>> /\ Len(queue'[c]) = 0 BY <1>1, <1>2 DEF Unheard
  <1>4. Held(c)' = 0
    <2>1. hand = <<>> \/ hand[2] # c BY <1>1 DEF Unheard
    <2> QED BY <1>2, <2>1, InPipes DEF Held
  <1>5. Len(output) \in Nat /\ \A i \in 1..Len(output) : output[i][2] # c
    BY <1>1, InPipes DEF Unheard
  <1>6. Total(c)' = Len(output) BY <1>2, <1>3, <1>4, <1>5 DEF Total
  <1>7. ASSUME NEW k \in 1..Total(c)' PROVE Comes(c, k)'[2] # c
    <2>1. k \in 1..Len(output) /\ k \in Nat /\ ~(k <= 0) /\ ~(k <= 0 + 0) /\ k - 0 - 0 = k
      BY <1>5, <1>6
    <2>2. Comes(c, k)' = output'[k] BY <1>3, <1>4, <2>1 DEF Comes
    <2> QED BY <1>2, <1>5, <2>1, <2>2
  <1> QED BY <1>1, <1>2, <1>7

\* A server that sends no more sends no more.
LEMMA NoMoreKept ==
  ASSUME StreamsAssumption, StreamTypes, StreamPipes, Attached, Window, Opening,
         [StreamsNext]_streamsVars, NEW c \in Relays, NoMore(c)
  PROVE  NoMore(c)' /\ ~Receives1(c)
  <1>0. ~Asks(c) BY DEF NoMore, Opening, Unheard
  <1>1. ~Asks(c)' BY <1>0, AsksLess
  <1>2. ~Receives1(c) BY DEF NoMore, Receives1
  <1>3. ASSUME UNCHANGED <<socket, readEnd>> PROVE NoMore(c)' BY <1>1, <1>3 DEF NoMore
  <1>4. ASSUME Served(c) PROVE NoMore(c)'
    <2>1. ~Opens(c)
      <3>1. Opens(c) => Asks(c) BY Heard DEF Opens
      <3> QED BY <1>0, <3>1
    <2>2. CASE Refuses(c) BY <1>3, <2>2 DEF Refuses
    <2>3. CASE Stores(c) BY <1>3, <2>3 DEF Stores
    <2>4. CASE Notes(c) BY <1>3, <2>4 DEF Notes
    <2>5. CASE Shuts(c) \/ Fails(c) \/ Completes(c)
      <3>1. socket'[c] = "none" BY <2>5 DEF Shuts, Fails, Completes, Closing1, StreamTypes
      <3> QED BY <1>1, <3>1 DEF NoMore
    <2>6. CASE Connects(c) \/ Retries(c)
      <3>1. socket[c] # "none" /\ readEnd' = readEnd BY <2>6 DEF Connects, Retries
      <3> QED BY <3>1 DEF NoMore
    <2>7. CASE ReceivesEnd(c) BY <2>7 DEF ReceivesEnd, NoMore
    <2>8. CASE Gives(c) BY <1>3, <2>8 DEF Gives
    <2>9. CASE HalfCloses(c) BY <1>3, <2>9 DEF HalfCloses
    <2> QED BY <1>2, <1>4, <2>1, <2>2, <2>3, <2>4, <2>5, <2>6, <2>7, <2>8, <2>9 DEF Served
  <1>5. ASSUME NEW d \in Relays, Served(d) PROVE NoMore(c)'
    <2>1. CASE c = d BY <1>4, <1>5, <2>1
    <2>2. CASE c # d
      <3>1. socket'[c] = socket[c] /\ (c \in readEnd' <=> c \in readEnd)
        BY <1>5, <2>2, OthersServed DEF Same
      <3> QED BY <1>1, <3>1 DEF NoMore
    <2> QED BY <2>1, <2>2
  <1>6. ASSUME NEW d \in Relays, Managed(d) PROVE NoMore(c)'
    BY <1>3, <1>6, HandMoves
  <1>7. ASSUME Write \/ ReadFrame \/ UNCHANGED streamsVars PROVE NoMore(c)'
    BY <1>3, <1>7 DEF Write, ReadFrame, streamsVars
  <1> QED BY <1>2, <1>5, <1>6, <1>7, ManagedCases

\* Who has everything keeps it.
LEMMA CleanKept ==
  ASSUME StreamsAssumption, StreamTypes, StreamPipes, Attached, Window, Opening,
         [StreamsNext]_streamsVars, NEW c \in Relays, Clean(c)
  PROVE  Clean(c)'
  <1>0. given[c] = sent[c] /\ up[c] = "done" /\ socket[c] = "none" /\ ~Asks(c) BY DEF Clean
  <1>1. ~Asks(c)' /\ up'[c] = "done" BY <1>0, AsksLess, Stays
  <1>2. ASSUME UNCHANGED <<socket, sent, given>> PROVE Clean(c)' BY <1>0, <1>1, <1>2 DEF Clean
  <1>4. ASSUME Served(c) PROVE Clean(c)'
    <2>1. ~Opens(c)
      <3>1. Opens(c) => Asks(c) BY Heard DEF Opens
      <3> QED BY <1>0, <3>1
    <2>2. CASE Refuses(c)
      <3>1. UNCHANGED <<socket, sent, given>> BY <2>2 DEF Refuses, Receives
      <3> QED BY <1>2, <3>1
    <2>3. Refuses(c)
      BY <1>0, <1>4, <2>1 DEF Served, Stores, Notes, Shuts, Fails, Completes, Closing1, Connects, Retries,
         Receives1, ReceivesEnd, Gives, HalfCloses
    <2> QED BY <2>2, <2>3
  <1>5. ASSUME NEW d \in Relays, Served(d) PROVE Clean(c)'
    <2>1. CASE c = d BY <1>4, <1>5, <2>1
    <2>2. CASE c # d
      <3>1. socket'[c] = socket[c] /\ sent'[c] = sent[c] /\ given'[c] = given[c]
        BY <1>5, <2>2, OthersServed DEF Same
      <3> QED BY <1>0, <1>1, <3>1 DEF Clean
    <2> QED BY <2>1, <2>2
  <1>6. ASSUME NEW d \in Relays, Managed(d) PROVE Clean(c)'
    <2>1. socket' = socket /\ given' = given BY <1>6, HandMoves
    <2>2. sent'[c] = sent[c]
      <3>1. CASE c = d BY <1>0, <1>6, <3>1, UploadMoves
      <3>2. CASE c # d BY <1>6, <3>2, OthersManaged DEF Same
      <3> QED BY <3>1, <3>2
    <2> QED BY <1>0, <1>1, <2>1, <2>2 DEF Clean
  <1>7. ASSUME Write \/ ReadFrame \/ UNCHANGED streamsVars PROVE Clean(c)'
    BY <1>2, <1>7 DEF Write, ReadFrame, streamsVars
  <1> QED BY <1>5, <1>6, <1>7, ManagedCases
-----------------------------------------------------------------------------
(* The end is the last *)

\* The frames that are told apart.
LEMMA Apart ==
  ASSUME NEW c, NEW d
  PROVE  /\ EndOf(c)[1] = "end" /\ EndOf(c)[2] = c
         /\ FaultOf(c)[1] = "error" /\ FaultOf(c)[2] = c
         /\ ClosedOf(c)[1] = "closed" /\ ClosedOf(c)[2] = c
         /\ Chunk(c)[1] = "data" /\ Chunk(c)[2] = c
         /\ Written(c)[1] = "written" /\ Written(c)[2] = c
         /\ <<"connected", c, 0>>[1] = "connected" /\ <<"connected", c, 0>>[2] = c
         /\ EndOf(c) = EndOf(d) => c = d
         /\ FaultOf(c) = FaultOf(d) => c = d
         /\ ClosedOf(c) = ClosedOf(d) => c = d
         /\ Chunk(c) = Chunk(d) => c = d
  BY DEF EndOf, FaultOf, ClosedOf, Chunk, Written

\* What is said, frame by frame.
LEMMA Spoken ==
  ASSUME NEW d \in Relays, NEW fs, Says(d, fs)
  PROVE  /\ Len(fs) \in {1, 2}
         /\ \A j \in 1..Len(fs) : fs[j][2] = d
         /\ \A j \in 1..Len(fs) : fs[j][1] = "end" => ReceivesEnd(d) /\ fs = <<EndOf(d)>>
         /\ \A j \in 1..Len(fs) : fs[j][1] = "data" => Receives1(d) /\ Len(fs) = 1
         /\ \A j \in 1..Len(fs) : fs[j][1] = "closed" =>
              \/ (Shuts(d) \/ Completes(d)) /\ Len(fs) = 1
              \/ j = 2 /\ fs[1] = FaultOf(d)
         /\ ReceivesEnd(d) => fs = <<EndOf(d)>>
  <1>1. CASE fs = <<FaultOf(d), ClosedOf(d)>>
    <2>1. Len(fs) = 2 /\ fs[1] = FaultOf(d) /\ fs[2] = ClosedOf(d) BY <1>1
    <2>2. ~ReceivesEnd(d)
      <3>1. fs # <<FaultOf(d)>> /\ Fails(d) BY <1>1, <2>1 DEF Says
      <3>2. Fails(d) => readEnd' = readEnd \ {d} BY DEF Fails, Closing1
      <3>3. ReceivesEnd(d) => d \in readEnd' BY DEF ReceivesEnd
      <3> QED BY <3>1, <3>2, <3>3
    <2>3. \A j \in 1..2 : j = 1 \/ j = 2 OBVIOUS
    <2> QED BY <2>1, <2>2, <2>3, Apart
  <1>2. ASSUME NEW f, fs = <<f>>
        PROVE  Len(fs) = 1 /\ \A j \in 1..Len(fs) : j = 1 /\ fs[j] = f
    BY <1>2
  <1>3. CASE Refuses(d) /\ fs = <<FaultOf(d)>>
    <2>1. ~ReceivesEnd(d) BY <1>3 DEF Refuses, ReceivesEnd
    <2> QED BY <1>2, <1>3, <2>1, Apart
  <1>4. CASE (Shuts(d) \/ Completes(d)) /\ fs = <<ClosedOf(d)>>
    <2>1. ~ReceivesEnd(d) BY <1>4 DEF Shuts, Completes, Closing1, ReceivesEnd
    <2> QED BY <1>2, <1>4, <2>1, Apart
  <1>5. CASE Connects(d) /\ fs = <<<<"connected", d, 0>>>>
    <2>1. ~ReceivesEnd(d) BY <1>5 DEF Connects, ReceivesEnd
    <2> QED BY <1>2, <1>5, <2>1, Apart
  <1>6. CASE Receives1(d) /\ fs = <<Chunk(d)>>
    <2>1. ~ReceivesEnd(d) BY <1>6 DEF Receives1, ReceivesEnd
    <2> QED BY <1>2, <1>6, <2>1, Apart
  <1>7. CASE ReceivesEnd(d) /\ fs = <<EndOf(d)>> BY <1>2, <1>7, Apart
  <1>8. CASE Gives(d) /\ fs = <<Written(d)>>
    <2>1. ~ReceivesEnd(d) BY <1>8 DEF Gives, ReceivesEnd
    <2> QED BY <1>2, <1>8, <2>1, Apart
  <1> QED BY <1>1, <1>3, <1>4, <1>5, <1>6, <1>7, <1>8 DEF Says

\* What a shift takes: its head, and a head that is the end is told.
LEMMA Shifted ==
  ASSUME StreamPipes, NEW c \in Relays, Shifts(c), queue[c] # <<>>
  PROVE  /\ 1 \in 1..Total(c) /\ Comes(c, 1) = queue[c][1] /\ queue[c][1] = Head(queue[c])
         /\ Comes(c, 1)[1] \in {"connected", "data", "written", "end"}
         /\ Comes(c, 1)[1] = "end" => c \in told'
  <1>1. Len(queue[c]) \in Nat \ {0} /\ Head(queue[c]) = queue[c][1] BY QueueHead
  <1>2. 1 \in 1..Len(queue[c]) BY <1>1
  <1>3. 1 \in 1..Total(c) /\ Comes(c, 1) = queue[c][1] BY <1>2, Comings
  <1>4. \/ Head(queue[c])[1] \in {"connected", "data", "written"}
        \/ Head(queue[c])[1] = "end" /\ c \in told'
    BY DEF Shifts, Relays1, TakeData, Acknowledges, TakeEnd, Takes
  <1> QED BY <1>1, <1>3, <1>4

LEMMA EndLastKept ==
  ASSUME StreamsAssumption, StreamTypes, StreamPipes, Attached, Window, Opening, EndLast,
         [StreamsNext]_streamsVars
  PROVE  EndLast'
  <1> SUFFICES ASSUME NEW c \in channels', NEW k \in 1..Total(c)', Comes(c, k)' = EndOf(c)
               PROVE  NoMore(c)' /\ \A j \in (k + 1)..Total(c)' : Comes(c, j)' # Chunk(c)
    BY DEF EndLast
  <1>0. c \in Relays /\ (c \in channels \/ Begins(c)) BY Joined
  <1>1. EndOf(c)[2] = c /\ Chunk(c)[2] = c /\ EndOf(c) # Chunk(c) BY Apart
  <1>2. CASE Begins(c) BY <1>0, <1>1, <1>2, BeginsEmpty
  <1>3. CASE c \in channels
    <2>0. Total(c) \in Nat BY <1>0, Comings
    <2>1. ASSUME NEW i \in 1..Total(c), Comes(c, i) = EndOf(c)
          PROVE  /\ NoMore(c)' /\ ~Receives1(c)
                 /\ \A j \in 1..Total(c) : j > i => Comes(c, j) # Chunk(c)
      <3>1. NoMore(c) /\ \A j \in (i + 1)..Total(c) : Comes(c, j) # Chunk(c)
        BY <1>3, <2>1 DEF EndLast
      <3>2. \A j \in 1..Total(c) : j > i => j \in (i + 1)..Total(c) BY <2>0
      <3> QED BY <1>0, <3>1, <3>2, NoMoreKept
    <2>2. CASE Stands(c)
      <3>1. Total(c)' = Total(c) /\ \A i \in 1..Total(c) : Comes(c, i)' = Comes(c, i)
        BY <2>2 DEF Stands
      <3>2. k \in 1..Total(c) /\ Comes(c, k) = EndOf(c) BY <3>1
      <3>3. \A j \in (k + 1)..Total(c) : j \in 1..Total(c) /\ j > k BY <2>0, <3>2
      <3> QED BY <2>1, <3>1, <3>2, <3>3
    <2>3. ASSUME NEW d \in Relays, NEW fs \in Seq(Told), Served(d), Says(d, fs), Grows(c, fs)
          PROVE  NoMore(c)' /\ \A j \in (k + 1)..Total(c)' : Comes(c, j)' # Chunk(c)
      <3>1. /\ Total(c)' = Total(c) + Len(fs) /\ Len(fs) \in {1, 2} /\ Len(fs) \in Nat
            /\ \A i \in 1..Total(c) : Comes(c, i)' = Comes(c, i)
            /\ \A i \in 1..Total(c)' : i > Total(c) => Comes(c, i)' = fs[i - Total(c)]
        BY <2>3, Spoken DEF Grows
      <3>2. ASSUME NEW i \in 1..Total(c)', i > Total(c)
            PROVE  i - Total(c) \in 1..Len(fs) /\ Comes(c, i)' = fs[i - Total(c)]
        BY <2>0, <3>1, <3>2
      <3>3. CASE k <= Total(c)
        <4>1. k \in 1..Total(c) /\ Comes(c, k) = EndOf(c) BY <2>0, <3>1, <3>3
        <4>2. ASSUME NEW j \in (k + 1)..Total(c)' PROVE Comes(c, j)' # Chunk(c)
          <5>1. CASE j <= Total(c)
            <6>1. j \in 1..Total(c) /\ j > k BY <2>0, <3>1, <4>1, <5>1
            <6> QED BY <2>1, <3>1, <4>1, <6>1
          <5>2. CASE ~(j <= Total(c))
            <6>1. j \in 1..Total(c)' /\ j > Total(c) BY <2>0, <3>1, <4>1, <5>2
            <6>2. j - Total(c) \in 1..Len(fs) /\ Comes(c, j)' = fs[j - Total(c)] BY <3>2, <6>1
            <6>3. ASSUME NEW i \in 1..Len(fs), fs[i] = Chunk(c) PROVE Receives1(d) /\ d = c
              <7>1. fs[i][1] = "data" /\ fs[i][2] = c BY <6>3, Apart
              <7> QED BY <2>3, <7>1, Spoken
            <6> QED BY <2>1, <4>1, <6>2, <6>3
          <5> QED BY <5>1, <5>2
        <4> QED BY <2>1, <4>1, <4>2
      <3>4. CASE ~(k <= Total(c))
        <4>1. k - Total(c) \in 1..Len(fs) /\ fs[k - Total(c)] = EndOf(c)
          <5>1. k > Total(c) BY <2>0, <3>1, <3>4
          <5> QED BY <3>2, <5>1
        <4>2. ReceivesEnd(d) /\ d = c /\ fs = <<EndOf(d)>>
          <5>1. PICK i \in 1..Len(fs) : fs[i] = EndOf(c) BY <4>1
          <5>2. fs[i][1] = "end" /\ fs[i][2] = c BY SMTT(30), <5>1, Apart
          <5> QED BY <2>3, <5>2, Spoken
        <4>3. Len(fs) = 1 BY <4>2
        <4>4. \A j \in (k + 1)..Total(c)' : FALSE BY <2>0, <3>1, <3>4, <4>3
        <4>5. NoMore(c)' BY <4>2 DEF ReceivesEnd, NoMore
        <4> QED BY <4>4, <4>5
      <3> QED BY <3>3, <3>4
    <2>4. ASSUME NEW p \in 1..Total(c), Loses(c, p)
          PROVE  NoMore(c)' /\ \A j \in (k + 1)..Total(c)' : Comes(c, j)' # Chunk(c)
      <3> DEFINE was(i) == IF i < p THEN i ELSE i + 1
      <3>1. /\ Total(c)' = Total(c) - 1
            /\ \A i \in 1..Total(c)' : Comes(c, i)' = IF i < p THEN Comes(c, i) ELSE Comes(c, i + 1)
        BY <2>4 DEF Loses
      <3>2. ASSUME NEW i \in 1..Total(c)'
            PROVE  was(i) \in 1..Total(c) /\ Comes(c, i)' = Comes(c, was(i))
        <4>1. CASE i < p BY <2>0, <3>1, <4>1
        <4>2. CASE ~(i < p) BY <2>0, <3>1, <4>2
        <4> QED BY <4>1, <4>2
      <3>3. \A j \in (k + 1)..Total(c)' : j \in 1..Total(c)' /\ was(j) > was(k)
        BY <2>0, <3>1
      <3> HIDE DEF was
      <3>4. was(k) \in 1..Total(c) /\ Comes(c, was(k)) = EndOf(c) BY <3>2
      <3>5. ASSUME NEW j \in (k + 1)..Total(c)' PROVE Comes(c, j)' # Chunk(c)
        <4>1. j \in 1..Total(c)' /\ was(j) > was(k) BY <3>3
        <4>2. was(j) \in 1..Total(c) /\ Comes(c, j)' = Comes(c, was(j)) BY <3>2, <4>1
        <4> QED BY <2>1, <3>4, <4>1, <4>2
      <3> QED BY <2>1, <3>4, <3>5
    <2>5. ASSUME NEW p \in 1..(Total(c) + 1), Pushes(c, p)
          PROVE  NoMore(c)' /\ \A j \in (k + 1)..Total(c)' : Comes(c, j)' # Chunk(c)
      <3> DEFINE was(i) == IF i < p THEN i ELSE i - 1
      <3>1. /\ Total(c)' = Total(c) + 1
            /\ \A i \in 1..Total(c) : i < p => Comes(c, i)' = Comes(c, i)
            /\ \A i \in 1..Total(c)' : i > p => Comes(c, i)' = Comes(c, i - 1)
            /\ Comes(c, p)' = ClosedOf(c)
        BY <2>5 DEF Pushes
      <3>2. ASSUME NEW i \in 1..Total(c)', i # p
            PROVE  was(i) \in 1..Total(c) /\ Comes(c, i)' = Comes(c, was(i))
        <4>1. CASE i < p
          <5>1. i \in 1..Total(c) BY <2>0, <3>1, <4>1
          <5> QED BY <3>1, <4>1, <5>1
        <4>2. CASE ~(i < p)
          <5>1. i > p /\ i - 1 \in 1..Total(c) BY <2>0, <3>1, <3>2, <4>2
          <5> QED BY <3>1, <4>2, <5>1
        <4> QED BY <4>1, <4>2
      <3>3. \A j \in (k + 1)..Total(c)' : j \in 1..Total(c)' /\ (j # p /\ k # p => was(j) > was(k))
        BY <2>0, <3>1
      <3> HIDE DEF was
      <3>4. ClosedOf(c) # EndOf(c) /\ ClosedOf(c) # Chunk(c) BY Apart
      <3>5. k # p /\ was(k) \in 1..Total(c) /\ Comes(c, was(k)) = EndOf(c) BY <3>1, <3>2, <3>4
      <3>6. ASSUME NEW j \in (k + 1)..Total(c)', j # p PROVE Comes(c, j)' # Chunk(c)
        <4>1. j \in 1..Total(c)' /\ was(j) > was(k) BY <3>3, <3>5, <3>6
        <4>2. was(j) \in 1..Total(c) /\ Comes(c, j)' = Comes(c, was(j)) BY <3>2, <3>6, <4>1
        <4> QED BY <2>1, <3>5, <4>1, <4>2
      <3> QED BY <2>1, <3>1, <3>4, <3>5, <3>6
    <2>6. 1 \in 1..Total(c) \/ ~(Shifts(c) /\ queue[c] # <<>>) BY <1>0, Shifted
    <2> QED BY <1>0, <1>3, <2>2, <2>3, <2>4, <2>5, <2>6, ComesMoves
  <1> QED BY <1>0, <1>2, <1>3
-----------------------------------------------------------------------------
(* What a close says *)

\* Clients that are told or gone stay so, and who ends says so.
LEMMA OneWay ==
  ASSUME StreamsAssumption, StreamTypes, StreamPipes, [StreamsNext]_streamsVars, NEW c \in Relays
  PROVE  /\ c \in told => c \in told'
         /\ c \in gone => c \in gone'
         /\ c \in readEnd' => c \in readEnd \/ ReceivesEnd(c)
  <1>1. ASSUME NEW d \in Relays, Served(d)
        PROVE  UNCHANGED <<told, gone>> /\ (c \in readEnd' => c \in readEnd \/ ReceivesEnd(c))
    <2>1. UNCHANGED <<told, gone>> BY <1>1, ServedFrame
    <2>2. CASE c # d BY <1>1, <2>1, <2>2, OthersServed DEF Same
    <2>3. CASE c = d
      <3>1. CASE ReceivesEnd(c) BY <2>1, <3>1
      <3>2. CASE ~ReceivesEnd(c)
        <4>1. readEnd' = readEnd \/ readEnd' = readEnd \ {c}
          BY <1>1, <2>3, <3>2 DEF Served, Opens, Refuses, Stores, Notes, Shuts, Fails, Completes, Closing1,
             Connects, Retries, Receives1, Gives, HalfCloses
        <4> QED BY <2>1, <4>1
      <3> QED BY <3>1, <3>2
    <2> QED BY <2>2, <2>3
  <1>2. ASSUME NEW d \in Relays, Managed(d)
        PROVE  readEnd' = readEnd /\ (c \in told => c \in told') /\ (c \in gone => c \in gone')
    <2>1. readEnd' = readEnd BY <1>2, HandMoves
    <2>2. CASE TakeEnd(d) BY <2>1, <2>2 DEF TakeEnd
    <2>3. CASE ClientGone(d) BY <2>1, <2>3 DEF ClientGone
    <2>4. CASE ~TakeEnd(d) /\ ~ClientGone(d)
      <3>1. UNCHANGED <<told, gone>>
        BY <1>2, <2>4 DEF Managed, Begins, Refused, Relays1, TakeData, Drained, Acknowledges, Finishes,
           FinishRelay, Credited, ReadEnd, ReadClient, Upload, Puts, Drops, Cuts
      <3> QED BY <2>1, <3>1
    <2> QED BY <2>2, <2>3, <2>4
  <1>3. ASSUME Write \/ ReadFrame \/ UNCHANGED streamsVars PROVE UNCHANGED <<told, gone, readEnd>>
    BY <1>3 DEF Write, ReadFrame, streamsVars
  <1> QED BY <1>1, <1>2, <1>3, ManagedCases

\* A stream that completes has given the server everything.
LEMMA CompletesClean ==
  ASSUME StreamTypes, StreamPipes, Attached, Opening, Window, Uploaded, NEW c \in channels, c \in Relays,
         Completes(c)
  PROVE  Clean(c)'
  <1>1. ~Over(c) BY DEF Attached, Begun, Over
  <1>2. socket[c] = "open" /\ (c \in shut \/ Ended(c)) /\ Serves /\ UNCHANGED dataVars BY DEF Completes
  <1>3. c \in ended /\ buffer[c] = 0 BY <1>1, <1>2 DEF Ended, Uploaded
  <1>4. up[c] = "done" BY <1>3 DEF Uploaded
  <1>5. ~Flying(c) BY <1>1, <1>4, Flies
  <1>6. sent[c] = given[c] + buffer[c] BY <1>1, <1>2, <1>5 DEF Uploaded
  <1>7. sent[c] = given[c] BY <1>3, <1>6 DEF StreamTypes
  <1>8. ~Asks(c) BY <1>2 DEF Opening
  <1>9. UNCHANGED <<at, lock, input, up>> BY <1>2 DEF Serves
  <1>10. ~Asks(c)' BY <1>8, <1>9 DEF Asks
  <1>11. socket'[c] = "none" BY DEF Completes, Closing1, StreamTypes
  <1>12. sent' = sent /\ given' = given BY <1>2
  <1> QED BY <1>4, <1>7, <1>9, <1>10, <1>11, <1>12 DEF Clean

\* A stream that was closed on request is none's that has a channel.
LEMMA ShutsUnattached ==
  ASSUME StreamPipes, Attached, NEW c, Shuts(c)
  PROVE  c \notin channels
  <1>1. 1 \in 1..Len(input) /\ input[1][1] = "close" /\ input[1][2] = c BY Arrives DEF Shuts
  <1> QED BY <1>1 DEF Attached

\* What comes before a place goes on coming before it, but for a head that is
\* taken.
LEMMA ClosedLastKept ==
  ASSUME StreamsAssumption, StreamTypes, StreamPipes, Attached, Window, Opening, Uploaded, EndLast,
         ClosedLast, [StreamsNext]_streamsVars
  PROVE  ClosedLast'
  <1> SUFFICES ASSUME NEW c \in channels'
               PROVE  /\ c \in readEnd' => c \in told' \/ \E j \in 1..Total(c)' : Comes(c, j)' = EndOf(c)
                      /\ c \notin gone' => \A k \in 1..Total(c)' : Comes(c, k)' = ClosedOf(c) =>
                           \/ \E j \in 1..(k - 1) : Comes(c, j)' = FaultOf(c)
                           \/ Clean(c)' /\ (c \in told' \/ \E j \in 1..(k - 1) : Comes(c, j)' = EndOf(c))
    BY DEF ClosedLast, Before
  <1>0. c \in Relays /\ (c \in channels \/ Begins(c)) BY Joined
  <1>1. /\ EndOf(c)[2] = c /\ ClosedOf(c)[2] = c /\ FaultOf(c)[2] = c
        /\ EndOf(c)[1] = "end" /\ ClosedOf(c)[1] = "closed" /\ FaultOf(c)[1] = "error"
    BY Apart
  <1>2. CASE Begins(c)
    <2>1. c \notin readEnd' /\ \A k \in 1..Total(c)' : Comes(c, k)' # ClosedOf(c)
      BY <1>0, <1>1, <1>2, BeginsEmpty DEF Unheard
    <2> QED BY <2>1
  <1>3. CASE c \in channels
    <2>0. Total(c) \in Nat BY <1>0, Comings
    <2>1. /\ c \in told => c \in told'
          /\ c \in gone => c \in gone'
          /\ c \in readEnd' => c \in readEnd \/ ReceivesEnd(c)
          /\ Clean(c) => Clean(c)'
      BY <1>0, OneWay, CleanKept
    <2>2. c \in readEnd => c \in told \/ \E j \in 1..Total(c) : Comes(c, j) = EndOf(c)
      BY <1>3 DEF ClosedLast, Before
    <2>3. ASSUME NEW i \in 1..Total(c), Comes(c, i) = ClosedOf(c), c \notin gone'
          PROVE  \/ \E j \in 1..(i - 1) : Comes(c, j) = FaultOf(c)
                 \/ Clean(c)' /\ (c \in told \/ \E j \in 1..(i - 1) : Comes(c, j) = EndOf(c))
      BY <1>3, <2>1, <2>3 DEF ClosedLast, Before
    <2>4. CASE Stands(c)
      <3>1. Total(c)' = Total(c) /\ \A i \in 1..Total(c) : Comes(c, i)' = Comes(c, i)
        BY <2>4 DEF Stands
      <3>2. ~ReceivesEnd(c)
        <4>1. ASSUME ReceivesEnd(c) PROVE FALSE
          <5>1. output' = output \o <<EndOf(c)>> /\ Serves BY <4>1 DEF ReceivesEnd
          <5>2. <<EndOf(c)>> \in Seq(Told) BY <1>0 DEF EndOf, Told
          <5>3. UNCHANGED <<queue, hand>> BY <5>1 DEF Serves
          <5>4. Grows(c, <<EndOf(c)>>) BY <1>0, <5>1, <5>2, <5>3, GrowsBehind
          <5>5. Total(c)' = Total(c) + 1 BY <5>4 DEF Grows
          <5> QED BY <2>0, <3>1, <5>5
        <4> QED BY <4>1
      <3>3. c \in readEnd' => c \in told' \/ \E j \in 1..Total(c)' : Comes(c, j)' = EndOf(c)
        BY <2>1, <2>2, <3>1, <3>2
      <3>4. ASSUME NEW k \in 1..Total(c)', Comes(c, k)' = ClosedOf(c), c \notin gone'
            PROVE  \/ \E j \in 1..(k - 1) : Comes(c, j)' = FaultOf(c)
                   \/ Clean(c)' /\ (c \in told' \/ \E j \in 1..(k - 1) : Comes(c, j)' = EndOf(c))
        <4>1. k \in 1..Total(c) /\ Comes(c, k) = ClosedOf(c) BY <3>1, <3>4
        <4>2. \A j \in 1..(k - 1) : Comes(c, j)' = Comes(c, j) BY <2>0, <3>1, <4>1
        <4> QED BY <2>1, <2>3, <3>4, <4>1, <4>2
      <3> QED BY <3>3, <3>4
    <2>5. ASSUME NEW d \in Relays, NEW fs \in Seq(Told), Served(d), Says(d, fs), Grows(c, fs)
          PROVE  /\ c \in readEnd' => c \in told' \/ \E j \in 1..Total(c)' : Comes(c, j)' = EndOf(c)
                 /\ c \notin gone' => \A k \in 1..Total(c)' : Comes(c, k)' = ClosedOf(c) =>
                      \/ \E j \in 1..(k - 1) : Comes(c, j)' = FaultOf(c)
                      \/ Clean(c)' /\ (c \in told' \/ \E j \in 1..(k - 1) : Comes(c, j)' = EndOf(c))
      <3>1. /\ Total(c)' = Total(c) + Len(fs) /\ Len(fs) \in {1, 2} /\ Len(fs) \in Nat
            /\ \A i \in 1..Total(c) : Comes(c, i)' = Comes(c, i)
            /\ \A i \in 1..Total(c)' : i > Total(c) => Comes(c, i)' = fs[i - Total(c)]
        BY <2>5, Spoken DEF Grows
      <3>2. ASSUME NEW i \in 1..Len(fs), NEW k, k = Total(c) + i
            PROVE  k \in 1..Total(c)' /\ Comes(c, k)' = fs[i]
        <4>1. k \in 1..Total(c)' /\ k > Total(c) /\ k - Total(c) = i BY <2>0, <3>1, <3>2
        <4> QED BY <3>1, <4>1
      <3>3. \A i \in 1..Total(c) : i \in 1..Total(c)' BY <2>0, <3>1
      <3>4. ASSUME c \in readEnd', c \notin told'
            PROVE  \E j \in 1..Total(c)' : Comes(c, j)' = EndOf(c)
        <4>1. CASE c \in readEnd BY <2>1, <2>2, <3>1, <3>3, <3>4, <4>1
        <4>2. CASE ReceivesEnd(c)
          <5>1. c = d
            <6>1. c \in readEnd' /\ c \notin readEnd BY <3>4, <4>2 DEF ReceivesEnd
            <6> QED BY <1>0, <2>5, <6>1, OthersServed DEF Same
          <5>2. fs = <<EndOf(c)>> BY <2>5, <4>2, <5>1, Spoken
          <5>3. 1 \in 1..Len(fs) /\ fs[1] = EndOf(c) BY <5>2
          <5> QED BY <3>2, <5>3
        <4> QED BY <2>1, <3>4, <4>1, <4>2
      <3>5. ASSUME NEW k \in 1..Total(c)', Comes(c, k)' = ClosedOf(c), c \notin gone'
            PROVE  \/ \E j \in 1..(k - 1) : Comes(c, j)' = FaultOf(c)
                   \/ Clean(c)' /\ (c \in told' \/ \E j \in 1..(k - 1) : Comes(c, j)' = EndOf(c))
        <4>1. CASE k <= Total(c)
          <5>1. k \in 1..Total(c) BY <2>0, <3>1, <4>1
          <5>2. Comes(c, k) = ClosedOf(c) BY <3>1, <3>5, <5>1
          <5>3. \A j \in 1..(k - 1) : Comes(c, j)' = Comes(c, j) BY <2>0, <3>1, <5>1
          <5> QED BY <2>1, <2>3, <3>5, <5>1, <5>2, <5>3
        <4>2. CASE ~(k <= Total(c))
          <5>1. PICK i \in 1..Len(fs) : k = Total(c) + i
            <6>1. k - Total(c) \in 1..Len(fs) /\ k = Total(c) + (k - Total(c)) BY <2>0, <3>1, <4>2
            <6> QED BY <6>1
          <5>2. fs[i] = ClosedOf(c) BY <3>2, <3>5, <5>1
          <5>3. fs[i][1] = "closed" /\ fs[i][2] = c BY <1>1, <5>2
          <5>4. d = c BY <2>5, <5>3, Spoken
          <5>5. \/ (Shuts(c) \/ Completes(c)) /\ Len(fs) = 1
                \/ i = 2 /\ fs[1] = FaultOf(c)
            BY <2>5, <5>3, <5>4, Spoken
          <5>6. CASE i = 2 /\ fs[1] = FaultOf(c)
            <6>1. 1 \in 1..Len(fs) /\ Total(c) + 1 \in 1..(k - 1) BY <2>0, <3>1, <5>1, <5>6
            <6>2. \A m : m = Total(c) + 1 => Comes(c, m)' = FaultOf(c) BY <3>2, <5>6, <6>1
            <6> QED BY <6>1, <6>2
          <5>7. CASE Completes(c) /\ Len(fs) = 1
            <6>1. Clean(c)' BY <1>0, <1>3, <5>7, CompletesClean
            <6>2. c \in readEnd BY <5>7 DEF Completes
            <6>3. i = 1 /\ k - 1 = Total(c) BY <2>0, <5>1, <5>7
            <6>4. c \in told' \/ \E j \in 1..(k - 1) : Comes(c, j)' = EndOf(c)
              BY <2>1, <2>2, <3>1, <6>2, <6>3
            <6> QED BY <6>1, <6>4
          <5> QED BY <1>3, <5>5, <5>6, <5>7, ShutsUnattached
        <4> QED BY <4>1, <4>2
      <3> QED BY <3>4, <3>5
    <2>6. ASSUME NEW p \in 1..Total(c), Loses(c, p), readEnd' = readEnd,
                 Comes(c, p) = EndOf(c) => c \in told', Comes(c, p) # FaultOf(c)
          PROVE  /\ c \in readEnd' => c \in told' \/ \E j \in 1..Total(c)' : Comes(c, j)' = EndOf(c)
                 /\ c \notin gone' => \A k \in 1..Total(c)' : Comes(c, k)' = ClosedOf(c) =>
                      \/ \E j \in 1..(k - 1) : Comes(c, j)' = FaultOf(c)
                      \/ Clean(c)' /\ (c \in told' \/ \E j \in 1..(k - 1) : Comes(c, j)' = EndOf(c))
      <3>1. /\ Total(c)' = Total(c) - 1
            /\ \A i \in 1..Total(c)' : Comes(c, i)' = IF i < p THEN Comes(c, i) ELSE Comes(c, i + 1)
        BY <2>6 DEF Loses
      <3>2. ASSUME NEW i \in 1..Total(c), i # p
            PROVE  \E m \in 1..Total(c)' : /\ Comes(c, m)' = Comes(c, i)
                                           /\ m = IF i < p THEN i ELSE i - 1
        <4>1. CASE i < p
          <5>1. i \in 1..Total(c)' BY <2>0, <3>1, <4>1
          <5> QED BY <3>1, <4>1, <5>1
        <4>2. CASE ~(i < p)
          <5>1. i - 1 \in 1..Total(c)' /\ ~(i - 1 < p) /\ (i - 1) + 1 = i BY <2>0, <3>1, <3>2, <4>2
          <5>2. \A m : m = i - 1 => Comes(c, m)' = Comes(c, i) BY <3>1, <5>1
          <5> QED BY <4>2, <5>1, <5>2
        <4> QED BY <4>1, <4>2
      <3>3. ASSUME c \in readEnd', c \notin told' PROVE \E j \in 1..Total(c)' : Comes(c, j)' = EndOf(c)
        <4>1. PICK j \in 1..Total(c) : Comes(c, j) = EndOf(c) BY <2>1, <2>2, <2>6, <3>3
        <4>2. j # p BY <2>6, <3>3, <4>1
        <4> QED BY <3>2, <4>1, <4>2
      <3>4. ASSUME NEW k \in 1..Total(c)', Comes(c, k)' = ClosedOf(c), c \notin gone'
            PROVE  \/ \E j \in 1..(k - 1) : Comes(c, j)' = FaultOf(c)
                   \/ Clean(c)' /\ (c \in told' \/ \E j \in 1..(k - 1) : Comes(c, j)' = EndOf(c))
        <4>1. PICK i \in 1..Total(c) : Comes(c, i) = ClosedOf(c) /\ i = IF k < p THEN k ELSE k + 1
          <5>1. CASE k < p
            <6>1. k \in 1..Total(c) BY <2>0, <3>1
            <6> QED BY <3>1, <3>4, <5>1, <6>1
          <5>2. CASE ~(k < p)
            <6>1. k + 1 \in 1..Total(c) BY <2>0, <3>1
            <6> QED BY <3>1, <3>4, <5>2, <6>1
          <5> QED BY <5>1, <5>2
        <4>2. ASSUME NEW j \in 1..(i - 1), j # p
              PROVE  \E m \in 1..(k - 1) : Comes(c, m)' = Comes(c, j)
          <5>1. j \in 1..Total(c) BY <2>0, <4>1
          <5>2. PICK m \in 1..Total(c)' : Comes(c, m)' = Comes(c, j) /\ m = IF j < p THEN j ELSE j - 1
            BY <3>2, <4>2, <5>1
          <5>3. m \in 1..(k - 1)
            <6>1. /\ m \in Nat /\ k \in Nat /\ j \in Nat /\ p \in Nat /\ i \in Nat
                  /\ 1 <= m /\ j <= i - 1 /\ j # p
              BY <2>0, <3>1, <4>1, <4>2
            <6>2. m <= k - 1
              <7>1. CASE k < p BY <4>1, <5>2, <6>1, <7>1
              <7>2. CASE ~(k < p) BY <4>1, <5>2, <6>1, <7>2
              <7> QED BY <7>1, <7>2
            <6> QED BY <6>1, <6>2
          <5> QED BY <5>2, <5>3
        <4>3. CASE \E j \in 1..(i - 1) : Comes(c, j) = FaultOf(c)
          <5>1. PICK j \in 1..(i - 1) : Comes(c, j) = FaultOf(c) BY <4>3
          <5>2. j # p BY <2>6, <5>1
          <5> QED BY <4>2, <5>1, <5>2
        <4>4. CASE Clean(c)' /\ c \in told BY <2>1, <4>4
        <4>5. CASE Clean(c)' /\ \E j \in 1..(i - 1) : Comes(c, j) = EndOf(c)
          <5>1. PICK j \in 1..(i - 1) : Comes(c, j) = EndOf(c) BY <4>5
          <5>2. CASE j = p BY <2>6, <4>5, <5>1, <5>2
          <5>3. CASE j # p BY <4>2, <4>5, <5>1, <5>3
          <5> QED BY <5>2, <5>3
        <4> QED BY <2>3, <3>4, <4>1, <4>3, <4>4, <4>5
      <3> QED BY <3>3, <3>4
    <2>7. ASSUME NEW p \in 1..(Total(c) + 1), Pushes(c, p), c \in gone', readEnd' = readEnd
          PROVE  c \in readEnd' => c \in told' \/ \E j \in 1..Total(c)' : Comes(c, j)' = EndOf(c)
      <3>1. /\ Total(c)' = Total(c) + 1
            /\ \A i \in 1..Total(c) : i < p => Comes(c, i)' = Comes(c, i)
            /\ \A i \in 1..Total(c)' : i > p => Comes(c, i)' = Comes(c, i - 1)
        BY <2>7 DEF Pushes
      <3>2. ASSUME c \in readEnd', c \notin told' PROVE \E j \in 1..Total(c)' : Comes(c, j)' = EndOf(c)
        <4>1. PICK j \in 1..Total(c) : Comes(c, j) = EndOf(c) BY <2>1, <2>2, <2>7, <3>2
        <4>2. CASE j < p
          <5>1. j \in 1..Total(c)' BY <2>0, <3>1
          <5> QED BY <3>1, <4>1, <4>2, <5>1
        <4>3. CASE ~(j < p)
          <5>1. j + 1 \in 1..Total(c)' /\ j + 1 > p /\ (j + 1) - 1 = j BY <2>0, <3>1, <4>3
          <5>2. \A m : m = j + 1 => Comes(c, m)' = Comes(c, j) BY <3>1, <5>1
          <5> QED BY <4>1, <5>1, <5>2
        <4> QED BY <4>2, <4>3
      <3> QED BY <3>2
    <2>8. CASE Shifts(c) /\ queue[c] # <<>> /\ Loses(c, 1)
      <3>1. readEnd' = readEnd BY <2>8 DEF Shifts, Relays1, TakeData, Acknowledges, TakeEnd
      <3>2. /\ 1 \in 1..Total(c) /\ Comes(c, 1) # FaultOf(c)
            /\ Comes(c, 1) = EndOf(c) => c \in told'
        BY <1>0, <1>1, <2>8, Shifted
      <3> QED BY <2>6, <2>8, <3>1, <3>2
    <2>9. CASE ReadFrame /\ \E p \in 1..Total(c) : Loses(c, p) /\ Comes(c, p)[2] # c
      <3>1. readEnd' = readEnd BY <2>9 DEF ReadFrame
      <3>2. PICK p \in 1..Total(c) : Loses(c, p) /\ Comes(c, p)[2] # c BY <2>9
      <3>3. Comes(c, p) # EndOf(c) /\ Comes(c, p) # FaultOf(c) BY <1>1, <3>2
      <3> QED BY <2>6, <3>1, <3>2, <3>3
    <2>10. CASE ClientGone(c) /\ \E p \in 1..(Total(c) + 1) : Pushes(c, p)
      <3>1. c \in gone' /\ readEnd' = readEnd BY <2>10 DEF ClientGone
      <3> QED BY <2>7, <2>10, <3>1
    <2> QED BY <1>0, <1>3, <2>4, <2>5, <2>8, <2>9, <2>10, ComesMoves
  <1> QED BY <1>0, <1>2, <1>3
-----------------------------------------------------------------------------
(* What clients are told *)

\* What a task takes is taken by one that has a channel, unless it is the fault
\* of one that was too slow.
LEMMA TakesAttached ==
  ASSUME StreamTypes, StreamPipes, Attached, NEW c \in Relays, NEW event, Takes(c, event), event # "error"
  PROVE  /\ c \in channels /\ ~Over(c) /\ queue[c] # <<>> /\ Head(queue[c]) = queue[c][1]
         /\ queue[c][1] \in Told /\ queue[c][1][1] = event /\ queue[c][1][2] = c
         /\ 1 \in 1..Total(c) /\ 1 \in 1..Len(queue[c]) /\ Comes(c, 1) = queue[c][1]
  <1>1. at[c] = "relay" /\ queue[c] # <<>> /\ Head(queue[c])[1] = event BY DEF Takes
  <1>2. /\ Len(queue[c]) \in Nat \ {0} /\ Head(queue[c]) = queue[c][1]
        /\ queue[c][1] \in Told /\ queue[c][1][2] = c
    BY <1>1, QueueHead
  <1>3. c \in channels /\ ~Over(c) BY <1>1, <1>2 DEF Attached, Begun, Over
  <1>4. 1 \in 1..Len(queue[c]) BY <1>2
  <1> QED BY <1>1, <1>2, <1>3, <1>4, Comings

\* Nothing of a server's data is on its way when none comes in order.
LEMMA NoneComes ==
  ASSUME StreamPipes, NEW c \in Relays, \A j \in 1..Total(c) : Comes(c, j) # Chunk(c)
  PROVE  Coming(c) = 0
  <1>1. \A i \in 1..Len(output) : output[i] # Chunk(c) BY Comings
  <1>2. \A i \in 1..Len(queue[c]) : queue[c][i] # Chunk(c) BY Comings
  <1>3. hand # Chunk(c)
    <2>1. ASSUME hand = Chunk(c) PROVE FALSE
      <3>1. hand \in Told /\ hand[2] = c BY <2>1, Weighed
      <3>2. Held(c) = 1 BY <3>1 DEF Held
      <3>3. \E j \in 1..Total(c) : Comes(c, j) = hand BY <3>2, Comings
      <3> QED BY <2>1, <3>3
    <2> QED BY <2>1
  <1> QED BY <1>1, <1>2, <1>3, FlowType DEF Coming

\* Who is told the end has had everything ...
LEMMA TellsAll ==
  ASSUME StreamTypes, StreamPipes, Attached, Carried, EndLast, NEW c \in Relays, TakeEnd(c)
  PROVE  got[c] = made[c] /\ NoMore(c)
  <1>1. /\ c \in channels /\ 1 \in 1..Total(c) /\ Comes(c, 1) = queue[c][1]
        /\ queue[c][1] \in Told /\ queue[c][1][1] = "end" /\ queue[c][1][2] = c
    BY TakesAttached DEF TakeEnd
  <1>2. queue[c][1] = EndOf(c) BY <1>1, Triples DEF EndOf
  <1>3. NoMore(c) /\ \A j \in 2..Total(c) : Comes(c, j) # Chunk(c)
    <2>1. NoMore(c) /\ \A j \in (1 + 1)..Total(c) : Comes(c, j) # Chunk(c) BY <1>1, <1>2 DEF EndLast
    <2> QED BY <2>1
  <1>4. \A j \in 1..Total(c) : Comes(c, j) # Chunk(c)
    <2>1. Comes(c, 1) # Chunk(c) BY <1>1, <1>2, Apart
    <2>2. Total(c) \in Nat /\ \A j \in 1..Total(c) : j = 1 \/ j \in 2..Total(c) BY Comings
    <2> QED BY <1>3, <2>1, <2>2
  <1>5. Coming(c) = 0 BY <1>4, NoneComes
  <1>6. made[c] = got[c] + Coming(c) BY <1>1 DEF Carried
  <1> QED BY <1>3, <1>5, <1>6 DEF StreamTypes

\* ... and takes no more data.
LEMMA ToldTakesNone ==
  ASSUME StreamTypes, StreamPipes, Attached, Carried, Ends, NEW c \in Relays, c \in told
  PROVE  ~TakeData(c)
  <1> SUFFICES ASSUME TakeData(c) PROVE FALSE OBVIOUS
  <1>1. /\ c \in channels /\ 1 \in 1..Len(queue[c])
        /\ queue[c][1] \in Told /\ queue[c][1][1] = "data" /\ queue[c][1][2] = c
    BY TakesAttached DEF TakeData
  <1>2. queue[c][1] = Chunk(c) BY <1>1, Weighed
  <1>3. Coming(c) \in Nat /\ Coming(c) # 0 BY <1>1, <1>2, FlowType DEF Coming
  <1>4. made[c] = got[c] + Coming(c) /\ got[c] = made[c] BY <1>1 DEF Carried, Ends
  <1> QED BY <1>3, <1>4 DEF StreamTypes

\* How a relay that finishes has ended.
LEMMA FinishesWell ==
  ASSUME StreamTypes, StreamPipes, Attached, Window, ClosedLast, NEW c \in Relays, Finishes(c)
  PROVE  \E how \in {"failed", "cut", "closed"} :
           /\ FinishRelay(c, how)
           /\ how = "closed" => c \in told /\ Clean(c)
  <1>1. PICK how \in {"failed", "cut", "closed", "invalid"} :
          /\ FinishRelay(c, how)
          /\ how = "closed" =>
               at[c] = "relay" /\ queue[c] # <<>> /\ Head(queue[c])[1] = "closed" /\ c \notin gone
          /\ how = "invalid" => /\ at[c] = "relay" /\ queue[c] # <<>> /\ Head(queue[c])[1] = "written"
                                /\ Head(queue[c])[3] > pending[c]
    BY DEF Finishes
  <1>2. CASE how = "closed"
    <2>1. Takes(c, "closed") /\ c \notin gone BY <1>1, <1>2 DEF Takes
    <2>2. /\ c \in channels /\ 1 \in 1..Total(c) /\ Comes(c, 1) = queue[c][1]
          /\ queue[c][1] \in Told /\ queue[c][1][1] = "closed" /\ queue[c][1][2] = c
      BY <2>1, TakesAttached
    <2>3. Comes(c, 1) = ClosedOf(c) BY <2>2, Triples DEF ClosedOf
    <2>4. \/ Before(c, 1 - 1, FaultOf(c))
          \/ Clean(c) /\ (c \in told \/ Before(c, 1 - 1, EndOf(c)))
      BY <2>1, <2>2, <2>3 DEF ClosedLast
    <2>5. \A j \in 1..(1 - 1) : FALSE OBVIOUS
    <2>6. Clean(c) /\ c \in told BY <2>4, <2>5 DEF Before
    <2> QED BY <1>1, <1>2, <2>6
  <1>3. CASE how = "invalid"
    <2>1. Takes(c, "written") BY <1>1, <1>3 DEF Takes
    <2>2. /\ ~Over(c) /\ 1 \in 1..Len(queue[c]) /\ Head(queue[c]) = queue[c][1]
          /\ queue[c][1] \in Told /\ queue[c][1][1] = "written" /\ queue[c][1][2] = c
      BY <2>1, TakesAttached
    <2>3. queue[c][1] = Written(c) BY <2>2, Weighed
    <2>4. Taken(c) \in Nat /\ Taken(c) # 0 BY <2>2, <2>3, FlowType DEF Taken
    <2>5. buffer[c] + Taken(c) <= pending[c] /\ buffer[c] \in Nat /\ pending[c] \in Nat
      BY <2>2 DEF Window, StreamTypes
    <2>6. pending[c] >= 1 BY <2>4, <2>5
    <2>7. Head(queue[c])[3] = 1 BY <2>2, <2>3, Weighed
    <2>8. 1 > pending[c] BY <1>1, <1>3, <2>7
    <2> QED BY <2>5, <2>6, <2>8
  <1> QED BY <1>1, <1>2, <1>3

LEMMA EndsKept ==
  ASSUME StreamsAssumption, StreamTypes, StreamPipes, Attached, Opening, Window, Carried,
         EndLast, ClosedLast, Ends, [StreamsNext]_streamsVars
  PROVE  Ends'
  <1> SUFFICES ASSUME NEW c \in Relays
               PROVE  /\ c \in told' => got'[c] = made'[c] /\ NoMore(c)'
                      /\ result'[c] = "closed" => c \in told' /\ Clean(c)' /\ Over(c)'
                      /\ result'[c] # "invalid"
    <2>1. told' \subseteq Relays BY TypesKept DEF StreamTypes
    <2> QED BY <2>1 DEF Ends
  <1>1. /\ c \in told => got[c] = made[c] /\ NoMore(c)
        /\ result[c] = "closed" => c \in told /\ Clean(c) /\ Over(c)
        /\ result[c] # "invalid"
    BY DEF Ends
  <1>2. /\ c \in told => c \in told'
        /\ Clean(c) => Clean(c)'
        /\ Over(c) => Over(c)'
        /\ NoMore(c) => NoMore(c)' /\ ~Receives1(c)
    BY OneWay, CleanKept, Stays, NoMoreKept DEF Over
  <1>3. ASSUME c \in told PROVE got'[c] = made'[c]
    <2>0. got[c] \in Nat /\ made[c] \in Nat BY DEF StreamTypes
    <2>1. ASSUME NEW d \in Relays, Served(d) PROVE got'[c] = made'[c]
      BY <1>1, <1>2, <1>3, <2>0, <2>1, MadeMoves
    <2>2. ASSUME NEW d \in Relays, Managed(d) PROVE got'[c] = made'[c]
      BY <1>1, <1>3, <2>0, <2>2, MadeMoves, ToldTakesNone
    <2>3. ASSUME Write \/ ReadFrame \/ UNCHANGED streamsVars PROVE got'[c] = made'[c]
      BY <1>1, <1>3, <2>3 DEF Write, ReadFrame, streamsVars
    <2> QED BY <2>1, <2>2, <2>3, ManagedCases
  <1>4. ASSUME c \in told', c \notin told PROVE TakeEnd(c)
    <2>1. ASSUME NEW d \in Relays, Served(d) PROVE told' = told BY <2>1, ServedFrame
    <2>2. ASSUME NEW d \in Relays, Managed(d) PROVE TakeEnd(c)
      <3>1. CASE c # d BY <1>4, <2>2, <3>1, OthersManaged DEF Same
      <3>2. CASE c = d /\ ~TakeEnd(d)
        <4>1. told' = told
          BY <2>2, <3>2 DEF Managed, Begins, Refused, Relays1, TakeData, Drained, Acknowledges, Finishes,
             FinishRelay, Credited, ReadEnd, ReadClient, Upload, ClientGone, Puts, Drops, Cuts
        <4> QED BY <1>4, <4>1
      <3> QED BY <3>1, <3>2
    <2>3. ASSUME Write \/ ReadFrame \/ UNCHANGED streamsVars PROVE told' = told
      BY <2>3 DEF Write, ReadFrame, streamsVars
    <2> QED BY <1>4, <2>1, <2>2, <2>3, ManagedCases
  <1>5. ASSUME TakeEnd(c) PROVE got'[c] = made'[c] /\ NoMore(c)'
    <2>1. got' = got /\ made' = made BY <1>5 DEF TakeEnd
    <2>2. got[c] = made[c] /\ NoMore(c) BY <1>5, TellsAll
    <2> QED BY <1>2, <2>1, <2>2
  <1>6. \/ result'[c] = result[c] \/ result'[c] = "refused" \/ Finishes(c)
    <2>1. ASSUME NEW d \in Relays, Served(d) PROVE result' = result BY <2>1, ServedFrame
    <2>2. ASSUME NEW d \in Relays, Managed(d)
          PROVE  result'[c] = result[c] \/ result'[c] = "refused" \/ Finishes(c)
      <3>1. CASE c # d BY <2>2, <3>1, OthersManaged DEF Same
      <3>2. CASE c = d /\ Refused(c) BY <3>2 DEF Refused, StreamTypes
      <3>3. CASE c = d /\ ~Finishes(c) /\ ~Refused(c)
        <4>1. result' = result
          BY <2>2, <3>3 DEF Managed, Begins, Relays1, TakeData, Drained, Acknowledges, TakeEnd,
             Credited, ReadEnd, ReadClient, Upload, ClientGone, Puts, Drops, Cuts
        <4> QED BY <4>1
      <3> QED BY <3>1, <3>2, <3>3
    <2>3. ASSUME Write \/ ReadFrame \/ UNCHANGED streamsVars PROVE result' = result
      BY <2>3 DEF Write, ReadFrame, streamsVars
    <2> QED BY <2>1, <2>2, <2>3, ManagedCases
  <1>7. ASSUME Finishes(c)
        PROVE  /\ result'[c] = "closed" => c \in told' /\ Clean(c)' /\ Over(c)'
               /\ result'[c] # "invalid"
    <2>1. PICK how \in {"failed", "cut", "closed"} :
            FinishRelay(c, how) /\ (how = "closed" => c \in told /\ Clean(c))
      BY <1>7, FinishesWell
    <2>2. result'[c] = how /\ at'[c] = "close" BY <2>1 DEF FinishRelay, StreamTypes
    <2>3. Over(c)' BY <2>2 DEF Over
    <2> QED BY <1>2, <2>1, <2>2, <2>3
  <1>8. /\ result'[c] = "closed" => c \in told' /\ Clean(c)' /\ Over(c)'
        /\ result'[c] # "invalid"
    BY <1>1, <1>2, <1>6, <1>7
  <1> QED BY <1>1, <1>2, <1>3, <1>4, <1>5, <1>8
-----------------------------------------------------------------------------
(* What the connections promise *)

LEMMA StreamsStart ==
  ASSUME StreamsAssumption, StreamsInit
  PROVE  StreamsInv
  <1> USE DEF StreamsInit
  <1>1. StreamTypes BY DEF StreamTypes, Zero
  <1>2. StreamPipes
    <2>1. lock \in Seq(Asked) /\ input \in Seq(Asked) /\ output \in Seq(Told)
          /\ queue \in [Relays -> Seq(Told)]
      OBVIOUS
    <2>2. \A c \in Relays : Len(queue[c]) = 0 /\ \A i \in 1..0 : FALSE OBVIOUS
    <2>3. \A c \in Relays : \A i \in 1..Len(queue[c]) : queue[c][i][2] = c BY <2>2
    <2> QED BY <2>1, <2>3 DEF StreamPipes
  <1>3. /\ Len(lock) = 0 /\ Len(input) = 0 /\ Len(output) = 0 /\ \A i \in 1..0 : FALSE
    OBVIOUS
  <1>4. \A i \in 1..Len(lock) : FALSE BY <1>3
  <1>5. \A i \in 1..Len(input) : FALSE BY <1>3
  <1>6. \A i \in 1..Len(output) : FALSE BY <1>3
  <1>7. \A c \in Relays : at[c] = "new" /\ up[c] = "off" /\ result[c] = "none" /\ socket[c] = "none"
    OBVIOUS
  <1>8. hand \notin Told /\ hand = <<>> BY DEF Told
  <1>9. Attached BY <1>4, <1>5, <1>7, <1>8 DEF Attached, Begun
  <1>10. ASSUME NEW c \in Relays PROVE Unheard(c)
    <2>1. buffer[c] = 0 /\ sent[c] = 0 /\ made[c] = 0 /\ given[c] = 0 /\ got[c] = 0 BY DEF Zero
    <2>2. ~Carries(c) BY <1>7 DEF Carries
    <2> QED BY <1>4, <1>5, <1>6, <1>7, <1>8, <2>1, <2>2 DEF Unheard
  <1>11. Opening BY <1>4, <1>5, <1>7, <1>10 DEF Opening
  <1>12. Window
    <2>1. ASSUME NEW c \in Relays PROVE pending[c] = 0 /\ buffer[c] + Taken(c) <= pending[c]
      <3>1. hand # Written(c) /\ \A i \in 1..Len(queue[c]) : queue[c][i] # Written(c)
        <4>1. Written(c) \in Told BY Weighed
        <4>2. Len(queue[c]) = 0 OBVIOUS
        <4> QED BY <1>8, <4>1, <4>2
      <3>2. Taken(c) = 0 BY <1>2, <1>6, <3>1, FlowType DEF Taken
      <3> QED BY <3>2 DEF Zero
    <2> QED BY <1>4, <1>5, <2>1 DEF Window
  <1>13. Uploaded
    <2>1. \A c \in Relays : sent[c] = 0 /\ given[c] = 0 /\ buffer[c] = 0 BY DEF Zero
    <2> QED BY <1>5, <1>7 DEF Uploaded
  <1>14. Carried /\ EndLast /\ ClosedLast BY DEF Carried, EndLast, ClosedLast
  <1>15. Ends BY <1>7 DEF Ends
  <1> QED BY <1>1, <1>2, <1>9, <1>11, <1>12, <1>13, <1>14, <1>15 DEF StreamsInv

LEMMA StreamsStep ==
  ASSUME StreamsAssumption, StreamsInv, [StreamsNext]_streamsVars
  PROVE  StreamsInv'
  <1>1. /\ StreamTypes /\ StreamPipes /\ Attached /\ Opening /\ Window /\ Uploaded /\ Carried
        /\ EndLast /\ ClosedLast /\ Ends
    BY DEF StreamsInv
  <1>2. StreamTypes' /\ StreamPipes' BY <1>1, TypesKept, PipesKept
  <1>3. Attached' BY <1>1, AttachedKept
  <1>4. Opening' BY <1>1, OpeningKept
  <1>5. Window' BY <1>1, WindowKept
  <1>6. Uploaded' BY <1>1, UploadedKept
  <1>7. Carried' BY <1>1, CarriedKept
  <1>8. EndLast' BY <1>1, EndLastKept
  <1>9. ClosedLast' BY <1>1, ClosedLastKept
  <1>10. Ends' BY <1>1, EndsKept
  <1> QED BY <1>2, <1>3, <1>4, <1>5, <1>6, <1>7, <1>8, <1>9, <1>10 DEF StreamsInv

\* The invariant holds of every behaviour of the connections.
THEOREM StreamsInvariance == StreamsSpec => []StreamsInv
  <1>1. StreamsInit => StreamsInv BY StreamsAssumption, StreamsStart
  <1>2. StreamsInv /\ [StreamsNext]_streamsVars => StreamsInv' BY StreamsAssumption, StreamsStep
  <1> QED BY <1>1, <1>2, PTL DEF StreamsSpec

\* Credits: however the upload, the reader and the supervisor interleave, no
\* acknowledgment is unexpected (manager.py:843) and no stream has more pending
\* than the connection has sent without an acknowledgment.
THEOREM CreditsHold == StreamsSpec => []CreditsAgree
  <1>1. StreamsInv => CreditsAgree
    <2> SUFFICES ASSUME StreamsInv, NEW c \in Relays
                 PROVE  /\ result[c] # "invalid"
                        /\ buffer[c] <= pending[c] \/ at[c] \in {"close", "done"}
      BY DEF CreditsAgree
    <2>1. result[c] # "invalid" BY DEF StreamsInv, Ends
    <2>2. ASSUME ~Over(c) PROVE buffer[c] <= pending[c]
      <3>1. buffer[c] + Taken(c) <= pending[c] BY <2>2 DEF StreamsInv, Window
      <3>2. Taken(c) \in Nat BY FlowType DEF StreamsInv, Taken
      <3>3. buffer[c] \in Nat /\ pending[c] \in Nat BY DEF StreamsInv, StreamTypes
      <3> QED BY <3>1, <3>2, <3>3
    <2> QED BY <2>1, <2>2 DEF Over
  <1> QED BY <1>1, StreamsInvariance, PTL

\* Completeness: a client that is told the end has everything the server sent,
\* and a connection that closes cleanly has carried everything both ways.
THEOREM EndsAreComplete == StreamsSpec => []ToldHasAll
  <1>1. StreamsInv => ToldHasAll BY DEF StreamsInv, Ends, Clean, ToldHasAll
  <1> QED BY <1>1, StreamsInvariance, PTL
=============================================================================
