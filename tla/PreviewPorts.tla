---------------------------- MODULE PreviewPorts ----------------------------
(***************************************************************************)
(* The previews of one workspace over its successive runtimes: the ports a *)
(* heartbeat reports, the Unix sockets and mappings the manager keeps for  *)
(* them (pkgs/opencode-preview/manager.py), the requests the gateway       *)
(* admits (gateway.py), their connections, and _stop_runtime.              *)
(*                                                                         *)
(* A manager action is what a task does between two awaits.  What flows    *)
(* through a connection is in PreviewStreams.                              *)
(***************************************************************************)
EXTENDS Naturals, Sequences, FiniteSets

CONSTANTS
  Conns, Ports, NoPort,
  MaxPorts,    \* config.max_ports
  MaxRuns,     \* bound: runtimes of the workspace, one after the other
  MaxChanges   \* bound: how often a server starts or ends listening

ASSUME PortsAssumption ==
  /\ IsFiniteSet(Ports) /\ NoPort \notin Ports
  /\ MaxPorts \in Nat /\ MaxRuns \in Nat /\ MaxChanges \in Nat

VARIABLES
  run,        \* the number of the runtime; it stands for runtime_id
  stopped,    \* Runtime.stopped, and why
  teardown,   \* where _stop_runtime is
  reader,     \* read_frames reads, applies ports, awaits a server or is gone
  closing,    \* the port whose server it awaits, or NoPort
  target,     \* the ports it applies
  known,      \* Runtime.known_ports
  listeners,  \* Runtime.listeners
  mapping,    \* Manager.mappings: runtime, token and availability by port
  issued,     \* how many tokens there have been
  serving,    \* the ports on which the workload listens
  changes,    \* counts them
  fromSup,    \* the supervisor's output: reported ports and closed streams
  tab,        \* the link by which each client has logged in
  conn,       \* the request and connection of each client
  entry,      \* the mapping the gateway has looked up for it
  stream,     \* the supervisor's stream of each connection
  half        \* the clients that have sent the end of their stream

runVars == <<run, stopped, teardown>>
readerVars == <<reader, closing, target, known>>
portVars == <<listeners, mapping, issued>>
loadVars == <<serving, changes>>
connVars == <<tab, conn, entry, stream, half>>
vars == <<runVars, readerVars, portVars, loadVars, fromSup, connVars>>

None == [run |-> 0, port |-> NoPort, token |-> 0, available |-> FALSE]

Init ==
  /\ run = 1 /\ stopped = "no" /\ teardown = "none"
  /\ reader = "read" /\ closing = NoPort /\ target = {} /\ known = {}
  /\ listeners = {} /\ mapping = [p \in Ports |-> None] /\ issued = 0
  /\ serving = {} /\ changes = 0 /\ fromSup = <<>>
  /\ tab = [c \in Conns |-> None] /\ entry = [c \in Conns |-> None]
  /\ conn = [c \in Conns |-> "new"] /\ stream = [c \in Conns |-> "none"] /\ half = {}

\* Connections whose transport the server still has: told ones will close it.
Open == {c \in Conns : conn[c] \in {"open", "told"}}
-----------------------------------------------------------------------------
(* Heartbeats *)

Reads == stopped = "no" /\ reader = "read" /\ fromSup # <<>>

\* Ports that have disappeared count.
TooMany(ports) == Cardinality(known \cup ports) > MaxPorts

ReadPorts ==
  /\ Reads /\ Head(fromSup)[1] = "ports"
  /\ fromSup' = Tail(fromSup)
  /\ IF TooMany(Head(fromSup)[2])
     THEN /\ stopped' = "limit" /\ reader' = "gone"
          /\ UNCHANGED <<target, known>>
     ELSE /\ target' = Head(fromSup)[2] /\ known' = known \cup target'
          /\ reader' = "apply" /\ UNCHANGED stopped
  /\ UNCHANGED <<run, teardown, closing, portVars, loadVars, connVars>>

\* _ports: a port that is gone loses its server, ...
Drop(p) ==
  /\ stopped = "no" /\ reader = "apply" /\ p \in listeners \ target
  /\ listeners' = listeners \ {p}
  /\ reader' = "await" /\ closing' = p
  /\ UNCHANGED <<runVars, target, known, mapping, issued, loadVars, fromSup, connVars>>

\* Server.wait_closed: since Python 3.12 it awaits the server's connections.
Closed(ports) == \A c \in Open : entry[c].port \notin ports

\* ... and then its mapping is not available.
Withdraw ==
  /\ stopped = "no" /\ reader = "await" /\ Closed({closing})
  /\ mapping' = [mapping EXCEPT ![closing].available = FALSE]
  /\ reader' = "apply" /\ closing' = NoPort
  /\ UNCHANGED <<runVars, target, known, listeners, issued, loadVars, fromSup, connVars>>

\* The mapping of a port and its token are made once in a runtime.
Mapped(p) ==
  /\ issued' = IF mapping[p] = None THEN issued + 1 ELSE issued
  /\ mapping' = [mapping EXCEPT ![p] =
                   [run |-> run, port |-> p, available |-> TRUE,
                    token |-> IF @ = None THEN issued' ELSE @.token]]

\* A port that is new gets a server.
Listen(p) ==
  /\ stopped = "no" /\ reader = "apply" /\ listeners \subseteq target /\ p \in target \ listeners
  /\ listeners' = listeners \cup {p} /\ Mapped(p)
  /\ UNCHANGED <<runVars, readerVars, loadVars, fromSup, connVars>>

Applied ==
  /\ stopped = "no" /\ reader = "apply" /\ listeners = target /\ reader' = "read"
  /\ UNCHANGED <<runVars, closing, target, known, portVars, loadVars, fromSup, connVars>>

\* The connection's channel learns that its stream is closed.
ReadClosed ==
  /\ Reads /\ Head(fromSup)[1] = "closed"
  /\ fromSup' = Tail(fromSup)
  /\ conn' = [conn EXCEPT ![Head(fromSup)[2]] = IF @ = "open" THEN "told" ELSE @]
  /\ UNCHANGED <<runVars, readerVars, portVars, loadVars, tab, entry, stream, half>>
-----------------------------------------------------------------------------
(* Requests and connections *)

\* A person opens a link of the directory; the gateway sets a cookie for the host.
Login(c, p) ==
  /\ conn[c] = "new" /\ mapping[p].available
  /\ tab' = [tab EXCEPT ![c] = mapping[p]]
  /\ UNCHANGED <<runVars, readerVars, portVars, loadVars, fromSup, conn, entry, stream, half>>

\* Mutant of Authorized: any cookie does.
AuthorizedAll(c) == mapping[tab[c].port].available

\* handle(): the mapping of the host, if it is available and the cookie's.
Authorized(c) ==
  /\ mapping[tab[c].port].available
  /\ mapping[tab[c].port].token = tab[c].token

LookUp(c) ==
  /\ conn[c] = "new" /\ tab[c] # None /\ Authorized(c)
  /\ conn' = [conn EXCEPT ![c] = "looked"]
  /\ entry' = [entry EXCEPT ![c] = mapping[tab[c].port]]
  /\ UNCHANGED <<runVars, readerVars, portVars, loadVars, fromSup, tab, stream, half>>

\* Whether the socket of the entry is there: its path has runtime and port.
Reachable(c) == run = entry[c].run /\ entry[c].port \in listeners /\ teardown = "none"

\* proxy() connects, _accept starts a connection and the supervisor a stream;
\* it is refused without a socket, when the runtime stops, or at a limit.
Connect(c) ==
  /\ conn[c] = "looked"
  /\ \/ /\ Reachable(c) /\ stopped = "no"
        /\ conn' = [conn EXCEPT ![c] = "open"]
        /\ stream' = [stream EXCEPT ![c] = "open"]
     \/ conn' = [conn EXCEPT ![c] = "done"] /\ UNCHANGED stream
  /\ UNCHANGED <<runVars, readerVars, portVars, loadVars, fromSup, tab, entry, half>>

\* The client sends, or leaves: upstream() fails once the runtime is stopped.
Sends(c) ==
  /\ conn[c] = "open" /\ c \notin half /\ stopped # "no"
  /\ conn' = [conn EXCEPT ![c] = "told"]
  /\ UNCHANGED <<runVars, readerVars, portVars, loadVars, fromSup, tab, entry, stream, half>>

Leaves(c) ==
  /\ conn[c] = "open" /\ c \notin half
  /\ half' = half \cup {c}
  /\ conn' = IF stopped = "no" THEN conn ELSE [conn EXCEPT ![c] = "told"]
  /\ UNCHANGED <<runVars, readerVars, portVars, loadVars, fromSup, tab, entry, stream>>

\* The finally of _connection: the transport is closed.
Finish(c) ==
  /\ conn[c] = "told"
  /\ conn' = [conn EXCEPT ![c] = "done"]
  /\ stream' = [stream EXCEPT ![c] = "closed"]
  /\ UNCHANGED <<runVars, readerVars, portVars, loadVars, fromSup, tab, entry, half>>
-----------------------------------------------------------------------------
(* The workload and the supervisor *)

\* A server starts or ends listening; it may go on with its connections.
Change(p) ==
  /\ changes < MaxChanges /\ changes' = changes + 1 /\ teardown # "gone"
  /\ serving' = IF p \in serving THEN serving \ {p} ELSE serving \cup {p}
  /\ UNCHANGED <<runVars, readerVars, portVars, fromSup, connVars>>

\* A server closes a connection.
Closes(c) ==
  /\ stream[c] = "open" /\ teardown # "gone"
  /\ stream' = [stream EXCEPT ![c] = "closed"]
  /\ fromSup' = Append(fromSup, <<"closed", c>>)
  /\ UNCHANGED <<runVars, readerVars, portVars, loadVars, tab, conn, entry, half>>

\* The heartbeat.  Bound: one at a time is in the pipe.
ReportPorts ==
  /\ teardown # "gone" /\ \A i \in 1..Len(fromSup) : fromSup[i][1] # "ports"
  /\ fromSup' = Append(fromSup, <<"ports", serving>>)
  /\ UNCHANGED <<runVars, readerVars, portVars, loadVars, connVars>>
-----------------------------------------------------------------------------
(* Stopping *)

\* Someone asks, the lifetime is over, the workspace or the supervisor is gone.
Stop ==
  /\ stopped = "no" /\ stopped' = "asked"
  /\ UNCHANGED <<run, teardown, readerVars, portVars, loadVars, fromSup, connVars>>

\* Mutant of WatchStale: the watcher does not look at the heartbeats.
WatchNothing == stopped = "no" /\ reader = "await" /\ UNCHANGED vars

\* No heartbeat has been read for five seconds, as the reader awaits a server.
WatchStale ==
  /\ stopped = "no" /\ reader = "await" /\ ~Closed({closing})
  /\ stopped' = "stale"
  /\ UNCHANGED <<run, teardown, readerVars, portVars, loadVars, fromSup, connVars>>

\* _stop_runtime cancels the reader and closes the servers, ...
CloseServers ==
  /\ stopped # "no" /\ teardown = "none"
  /\ teardown' = "wait" /\ reader' = "gone" /\ closing' = NoPort
  /\ UNCHANGED <<run, stopped, target, known, portVars, loadVars, fromSup, connVars>>

\* ... awaits them, removes the mappings, and ends the connections, ...
Disconnect ==
  /\ teardown = "wait" /\ Closed(listeners)
  /\ teardown' = "gather"
  /\ mapping' = [p \in Ports |-> None]
  /\ conn' = [c \in Conns |-> IF c \in Open THEN "told" ELSE conn[c]]
  /\ UNCHANGED <<run, stopped, readerVars, listeners, issued, loadVars, fromSup, tab, entry,
                 stream, half>>

\* Mutant of Kill: the connections are not awaited.
KillAtOnce ==
  /\ teardown = "gather"
  /\ teardown' = "gone" /\ listeners' = {} /\ serving' = {} /\ fromSup' = <<>>
  /\ stream' = [c \in Conns |-> IF stream[c] = "open" THEN "closed" ELSE stream[c]]
  /\ UNCHANGED <<run, stopped, readerVars, mapping, issued, changes, tab, conn, entry, half>>

\* ... and when these have ended everything is killed.
Kill ==
  /\ teardown = "gather" /\ Open = {}
  /\ teardown' = "gone" /\ listeners' = {} /\ serving' = {} /\ fromSup' = <<>>
  /\ stream' = [c \in Conns |-> IF stream[c] = "open" THEN "closed" ELSE stream[c]]
  /\ UNCHANGED <<run, stopped, readerVars, mapping, issued, changes, tab, conn, entry, half>>

\* The next call makes another runtime in the workspace, with the same hosts.
Create ==
  /\ teardown = "gone" /\ run < MaxRuns
  /\ run' = run + 1 /\ stopped' = "no" /\ teardown' = "none"
  /\ reader' = "read" /\ closing' = NoPort /\ target' = {} /\ known' = {}
  /\ UNCHANGED <<portVars, loadVars, fromSup, connVars>>
-----------------------------------------------------------------------------
Reader ==
  ReadPorts \/ Withdraw \/ Applied \/ ReadClosed \/ \E p \in Ports : Drop(p) \/ Listen(p)

Next ==
  \/ Reader
  \/ \E c \in Conns, p \in Ports : Login(c, p)
  \/ \E c \in Conns : LookUp(c) \/ Connect(c) \/ Sends(c) \/ Leaves(c) \/ Finish(c) \/ Closes(c)
  \/ \E p \in Ports : Change(p)
  \/ ReportPorts
  \/ Stop \/ WatchStale \/ CloseServers \/ Disconnect \/ Kill \/ Create

Spec == Init /\ [][Next]_vars

\* The tasks of the event loop go on, the supervisor reports, the watcher
\* looks, and every client leaves in the end.  Nothing is assumed of servers.
Fairness ==
  /\ WF_vars(Reader) /\ WF_vars(ReportPorts) /\ WF_vars(WatchStale)
  /\ WF_vars(CloseServers) /\ WF_vars(Disconnect) /\ WF_vars(Kill)
  /\ \A c \in Conns : WF_vars(Connect(c)) /\ WF_vars(Leaves(c)) /\ WF_vars(Finish(c))

FairSpec == Spec /\ Fairness
=============================================================================
