------------------------ MODULE PreviewManagerProofs ------------------------
(***************************************************************************)
(* The preview manager implements exclusive leases of workspaces, leaves   *)
(* no process behind that a teardown does not reach, evicts only empty     *)
(* runtimes, and closes completely: for any calls, sessions, workspaces,   *)
(* limits and failing teardowns.                                           *)
(***************************************************************************)
EXTENDS PreviewManagerProperties, FiniteSetTheorems, TLAPS

USE DEF callVars, frameVars, idleVars, serveVars, stopVars, closeVars, processVars
-----------------------------------------------------------------------------
(* The inductive invariant *)

\* Who is past the lock has it.
LockHeld ==
  \A c \in Execs :
    pc[c] \in {"evicting", "evicted", "starting", "readying", "cleanup"} => lock = c

\* A workspace has one runtime, and one that is being made room for has none.
OneRuntime ==
  /\ \A q, r \in runtimes : WorkspaceOf[q] = WorkspaceOf[r] => q = r
  /\ \A c \in Execs : pc[c] \in {"evicting", "evicted"} => Owners(c) = {}

\* The limit holds, and after an eviction there is room for one more.
Room ==
  /\ Cardinality(runtimes) <= MaxRuntimes
  /\ \A c \in Execs : pc[c] = "evicted" => ~Full

\* A teardown is of a registered runtime, waits for its launch, and kills the
\* launcher before it waits for the cgroup.
TeardownOrder ==
  \A r \in Execs :
    /\ stop[r] # "none" => r \in runtimes
    /\ startup[r] = "spawning" => r \in runtimes /\ stop[r] \in {"none", "startup"}
    /\ stop[r] = "reap" => r \notin helper

\* While close() waits, it waits for every runtime there is.
CloseWaits ==
  /\ closing = "closing" => runtimes \subseteq closeWait
  /\ closing = "closed" => runtimes = {}

\* What a heartbeat found empty is empty.
QuietIsEmpty == quiet \cap (busy \cup held) = {}

IInv ==
  /\ ManagerTypeOK /\ LockHeld /\ OneRuntime /\ Room
  /\ TeardownOrder /\ NoOrphans /\ CloseWaits /\ QuietIsEmpty
-----------------------------------------------------------------------------
(* Steps *)

\* A step is a step of one of these actions.
LEMMA StepCases ==
  ASSUME [Next]_vars
  PROVE  \/ \E c \in Calls :
              \/ Request(c) \/ StopRequest(c) \/ Finish(c)
              \/ Refuse(c) \/ RefuseStopping(c) \/ Join(c) \/ Evict(c)
              \/ Create(c) \/ CreateFails(c)
              \/ StartSpawned(c) \/ StartReady(c) \/ StartFails(c) \/ Answer(c)
         \/ \E r \in Execs :
              \/ ReadReady(r) \/ Heartbeat(r) \/ ReaderEnds(r) \/ Lapse(r) \/ Visit(r) \/ VisitEnds(r)
              \/ StopClose(r) \/ StopListeners(r) \/ StopKill(r) \/ StopDone(r) \/ StopFails(r)
              \/ SpawnEnds(r) \/ Launch(r) \/ ProcessesEnd(r)
         \/ Watch \/ Close \/ Closed
         \/ UNCHANGED vars
  BY DEF Next, GetRuntime, StopRuntime

\* Reserving teardowns changes stopped and stop by their types, and only stop
\* entries that were "none", of runtimes, which then say "startup".
LEMMA Reserving ==
  ASSUME ManagerTypeOK, NEW R, BackgroundStop(R)
  PROVE  /\ stopped' \in SUBSET Execs
         /\ stop' \in [Execs -> {"none", "startup", "listeners", "kill", "reap"}]
         /\ \A r \in Execs :
              stop'[r] # stop[r] => stop[r] = "none" /\ stop'[r] = "startup" /\ r \in runtimes
  BY DEF BackgroundStop, ManagerTypeOK

\* Every action of a handler keeps the types.
LEMMA HandlerTypes ==
  ASSUME ManagerTypeOK, NEW c \in Calls,
         \/ Request(c) \/ StopRequest(c) \/ Finish(c)
         \/ Refuse(c) \/ RefuseStopping(c) \/ Join(c) \/ Evict(c)
         \/ Create(c) \/ CreateFails(c)
         \/ StartSpawned(c) \/ StartReady(c) \/ StartFails(c) \/ Answer(c)
  PROVE  ManagerTypeOK'
<1> USE DEF ManagerTypeOK
<1>1. CASE Request(c) BY <1>1 DEF Request
<1>2. CASE StopRequest(c) BY <1>2, Reserving DEF StopRequest, Owners
<1>3. CASE Finish(c) BY <1>3 DEF Finish, Active
<1>4. CASE Refuse(c) BY <1>4 DEF Refuse
<1>5. CASE RefuseStopping(c) BY <1>5, Reserving DEF RefuseStopping
<1>6. CASE Join(c) BY <1>6 DEF Join, Active, Owners
<1>7. CASE Evict(c) BY <1>7, Reserving DEF Evict, Holds, Candidates
<1>8. CASE Create(c) BY <1>8 DEF Create
<1>9. CASE CreateFails(c) BY <1>9 DEF CreateFails
<1>10. CASE StartSpawned(c) BY <1>10 DEF StartSpawned
<1>11. CASE StartReady(c) BY <1>11 DEF StartReady, Active
<1>12. CASE StartFails(c) BY <1>12, Reserving DEF StartFails
<1>13. CASE Answer(c) BY <1>13 DEF Answer
<1> QED BY <1>1, <1>2, <1>3, <1>4, <1>5, <1>6, <1>7, <1>8, <1>9, <1>10, <1>11, <1>12, <1>13

\* So does every action of a reader, a teardown or a sandbox.
LEMMA RuntimeTypes ==
  ASSUME ManagerTypeOK, NEW r \in Execs,
         \/ ReadReady(r) \/ Heartbeat(r) \/ ReaderEnds(r) \/ Lapse(r) \/ Visit(r) \/ VisitEnds(r)
         \/ StopClose(r) \/ StopListeners(r) \/ StopKill(r) \/ StopDone(r) \/ StopFails(r)
         \/ SpawnEnds(r) \/ Launch(r) \/ ProcessesEnd(r)
  PROVE  ManagerTypeOK'
<1> USE DEF ManagerTypeOK
<1>1. CASE ReadReady(r) BY <1>1 DEF ReadReady
<1>2. CASE Heartbeat(r) BY <1>2 DEF Heartbeat
<1>3. CASE ReaderEnds(r) BY <1>3, Reserving DEF ReaderEnds
<1>4. CASE Lapse(r) BY <1>4 DEF Lapse
<1>5. CASE StopClose(r) BY <1>5 DEF StopClose
<1>6. CASE StopKill(r) BY <1>6 DEF StopKill
<1>7. CASE StopDone(r) BY <1>7 DEF StopDone
<1>8. CASE StopFails(r) BY <1>8, ManagerAssumption DEF StopFails
<1>9. CASE SpawnEnds(r) BY <1>9 DEF SpawnEnds
<1>10. CASE Launch(r) BY <1>10 DEF Launch
<1>11. CASE ProcessesEnd(r) BY <1>11 DEF ProcessesEnd
<1>12. CASE Visit(r) \/ VisitEnds(r) BY <1>12 DEF Visit, VisitEnds
<1>13. CASE StopListeners(r) BY <1>13 DEF StopListeners
<1> QED BY <1>1, <1>2, <1>3, <1>4, <1>5, <1>6, <1>7, <1>8, <1>9, <1>10, <1>11, <1>12, <1>13

\* Every step keeps the types.
LEMMA TypeStep == ASSUME ManagerTypeOK, [Next]_vars PROVE ManagerTypeOK'
<1> USE DEF ManagerTypeOK
<1>1. CASE Watch BY <1>1, Reserving DEF Watch
<1>2. CASE Close BY <1>2, Reserving DEF Close
<1>3. CASE Closed BY <1>3 DEF Closed
<1>4. CASE UNCHANGED vars BY <1>4 DEF vars
<1> QED BY <1>1, <1>2, <1>3, <1>4, StepCases, HandlerTypes, RuntimeTypes

\* Every variable of the manager has its type, for all constants.
THEOREM ManagerTypeCorrect == Spec => []ManagerTypeOK
<1>1. Init => ManagerTypeOK BY ManagerAssumption DEF Init, ManagerTypeOK
<1>2. ManagerTypeOK /\ [Next]_vars => ManagerTypeOK' BY TypeStep
<1> QED BY <1>1, <1>2, PTL DEF Spec
-----------------------------------------------------------------------------
(* What changes the variables the invariant is about *)

\* Runtimes are registered and forgotten in one place each.
LEMMA Registered ==
  ASSUME [Next]_vars
  PROVE  \/ \E c \in Calls : Create(c)
         \/ \E r \in Execs : StopDone(r)
         \/ runtimes' = runtimes
<1> USE StepCases
<1>1. ASSUME NEW c \in Calls,
             \/ Request(c) \/ StopRequest(c) \/ Finish(c)
             \/ Refuse(c) \/ RefuseStopping(c) \/ Join(c) \/ Evict(c)
             \/ CreateFails(c)
             \/ StartSpawned(c) \/ StartReady(c) \/ StartFails(c) \/ Answer(c)
      PROVE  runtimes' = runtimes
  BY <1>1 DEF Request, StopRequest, Finish, Refuse, RefuseStopping, Join, Evict,
              CreateFails, StartSpawned, StartReady, StartFails, Answer
<1>2. ASSUME NEW r \in Execs,
             \/ ReadReady(r) \/ Heartbeat(r) \/ ReaderEnds(r) \/ Lapse(r) \/ Visit(r) \/ VisitEnds(r)
             \/ StopClose(r) \/ StopListeners(r) \/ StopKill(r) \/ StopFails(r)
             \/ SpawnEnds(r) \/ Launch(r) \/ ProcessesEnd(r)
      PROVE  runtimes' = runtimes
  BY <1>2 DEF ReadReady, Heartbeat, ReaderEnds, Lapse, Visit, VisitEnds, StopClose, StopListeners, StopKill, StopFails,
              SpawnEnds, Launch, ProcessesEnd
<1>3. Watch \/ Close \/ Closed \/ UNCHANGED vars => runtimes' = runtimes
  BY DEF Watch, Close, Closed, vars
<1> QED BY <1>1, <1>2, <1>3

\* Only handlers and ending teardowns move handlers.
LEMMA OthersKeepCalls ==
  ASSUME NEW r \in Execs,
         \/ ReadReady(r) \/ Heartbeat(r) \/ ReaderEnds(r) \/ Lapse(r) \/ Visit(r) \/ VisitEnds(r)
         \/ StopClose(r) \/ StopListeners(r) \/ StopKill(r)
         \/ SpawnEnds(r) \/ Launch(r) \/ ProcessesEnd(r)
         \/ Watch \/ Close \/ Closed \/ UNCHANGED vars
  PROVE  UNCHANGED callVars
  BY DEF ReadReady, Heartbeat, ReaderEnds, Lapse, Visit, VisitEnds, StopClose, StopListeners, StopKill,
         SpawnEnds, Launch, ProcessesEnd, Watch, Close, Closed, vars

\* The end of a teardown moves the handlers that await it, and no others.
LEMMA TeardownEnds ==
  ASSUME ManagerTypeOK, NEW r \in Execs, StopDone(r) \/ StopFails(r)
  PROVE  /\ UNCHANGED <<of, lock>>
         /\ \A c \in Calls :
              \/ pc'[c] = pc[c]
              \/ pc[c] \in {"evicting", "stopping", "cleanup"} /\ pc'[c] = "answering"
              \/ pc[c] = "evicting" /\ of[c] = r /\ pc'[c] = "evicted" /\ StopDone(r)
<1>1. CASE StopDone(r) BY <1>1 DEF StopDone, Awaiting, ManagerTypeOK
<1>2. CASE StopFails(r) BY <1>2 DEF StopFails, Awaiting, ManagerTypeOK
<1> QED BY <1>1, <1>2
-----------------------------------------------------------------------------
(* The lock *)

\* A handler gets past the lock by taking it, and gives it up at its end.
LEMMA HandlerLocks ==
  ASSUME ManagerTypeOK, LockHeld, NEW c \in Calls,
         \/ Request(c) \/ StopRequest(c) \/ Finish(c)
         \/ Refuse(c) \/ RefuseStopping(c) \/ Join(c) \/ Evict(c)
         \/ Create(c) \/ CreateFails(c)
         \/ StartSpawned(c) \/ StartReady(c) \/ StartFails(c) \/ Answer(c)
  PROVE  LockHeld'
<1> USE ManagerAssumption DEF ManagerTypeOK, LockHeld, Calls
<1>1. CASE Request(c) BY <1>1 DEF Request
<1>2. CASE StopRequest(c)
  <2>1. pc[c] = "new" /\ UNCHANGED lock BY <1>2 DEF StopRequest, Arrives
  <2>2. pc' = [pc EXCEPT ![c] = "ended"] \/ pc' = [pc EXCEPT ![c] = "stopping"] BY <1>2 DEF StopRequest
  <2> QED BY <2>1, <2>2
<1>3. CASE Finish(c) BY <1>3 DEF Finish
<1>4. CASE Refuse(c) BY <1>4 DEF Refuse, Holds
<1>5. CASE RefuseStopping(c) BY <1>5 DEF RefuseStopping, Holds
<1>6. CASE Join(c) BY <1>6 DEF Join, Holds
<1>7. CASE Evict(c) BY <1>7 DEF Evict, Holds
<1>8. CASE Create(c) BY <1>8 DEF Create, MayCreate, Holds
<1>9. CASE CreateFails(c) BY <1>9 DEF CreateFails, MayCreate, Holds
<1>10. CASE StartSpawned(c) BY <1>10 DEF StartSpawned
<1>11. CASE StartReady(c) BY <1>11 DEF StartReady
<1>12. CASE StartFails(c) BY <1>12 DEF StartFails
<1>13. CASE Answer(c) BY <1>13 DEF Answer
<1> QED BY <1>1, <1>2, <1>3, <1>4, <1>5, <1>6, <1>7, <1>8, <1>9, <1>10, <1>11, <1>12, <1>13

\* Every step leaves the lock with the handler that is past it.
LEMMA LockStep == ASSUME ManagerTypeOK, LockHeld, [Next]_vars PROVE LockHeld'
<1>1. ASSUME UNCHANGED callVars PROVE LockHeld' BY <1>1 DEF LockHeld
<1>2. ASSUME NEW r \in Execs, StopDone(r) \/ StopFails(r) PROVE LockHeld'
  BY <1>2, TeardownEnds DEF LockHeld, Calls
<1>3. CASE Watch \/ Close \/ Closed \/ UNCHANGED vars
  BY <1>1, <1>3 DEF Watch, Close, Closed, vars
<1> QED BY <1>1, <1>2, <1>3, StepCases, HandlerLocks, OthersKeepCalls

\* While one handler is past the lock, no other one can create or evict.
LEMMA Exclusive ==
  ASSUME ManagerTypeOK, LockHeld, NEW c \in Calls, Evict(c) \/ Create(c),
         NEW d \in Execs, d # c,
         pc[d] \in {"evicting", "evicted", "starting", "readying", "cleanup"}
  PROVE  FALSE
  BY ManagerAssumption DEF LockHeld, Evict, Create, MayCreate, Holds, Calls

\* Only Evict and the end of a teardown put handlers where they make room.
LEMMA MakingRoom ==
  ASSUME ManagerTypeOK, [Next]_vars, NEW d \in Execs, pc'[d] \in {"evicting", "evicted"}
  PROVE  \/ Evict(d)
         \/ \E r \in Execs : StopDone(r)
         \/ pc'[d] = pc[d]
<1> USE DEF ManagerTypeOK, Calls
<1>1. ASSUME NEW c \in Calls,
             \/ Request(c) \/ StopRequest(c) \/ Finish(c)
             \/ Refuse(c) \/ RefuseStopping(c) \/ Join(c)
             \/ Create(c) \/ CreateFails(c)
             \/ StartSpawned(c) \/ StartReady(c) \/ StartFails(c) \/ Answer(c)
      PROVE  pc'[d] = pc[d]
  BY <1>1 DEF Request, StopRequest, Finish, Refuse, RefuseStopping, Join,
              Create, CreateFails, StartSpawned, StartReady, StartFails, Answer
<1>2. ASSUME NEW c \in Calls, Evict(c) PROVE Evict(d) \/ pc'[d] = pc[d]
  BY <1>2 DEF Evict
<1>3. ASSUME NEW r \in Execs, StopFails(r) PROVE pc'[d] = pc[d]
  BY <1>3 DEF StopFails, Awaiting
<1>4. CASE Watch \/ Close \/ Closed \/ UNCHANGED vars
  BY <1>4 DEF Watch, Close, Closed, vars
<1> QED BY <1>1, <1>2, <1>3, <1>4, StepCases, OthersKeepCalls
-----------------------------------------------------------------------------
(* Registered runtimes *)

\* A runtime is created only where its workspace has none and the limit allows it.
LEMMA CreatesOneMore ==
  ASSUME ManagerTypeOK, OneRuntime, Room, NEW c \in Calls, Create(c)
  PROVE  c \in Execs /\ Owners(c) = {} /\ ~Full /\ closing = "no"
  BY DEF Create, MayCreate, Holds, OneRuntime, Room

\* A workspace never has two runtimes.
LEMMA OneRuntimeStep ==
  ASSUME ManagerTypeOK, LockHeld, OneRuntime, Room, [Next]_vars PROVE OneRuntime'
<1> USE DEF ManagerTypeOK, Owners
<1>1. ASSUME NEW c \in Calls, Create(c) PROVE OneRuntime'
  <2>1. Owners(c) = {} /\ runtimes' = runtimes \cup {c}
    BY <1>1, CreatesOneMore DEF Create
  <2>2. \A q, r \in runtimes' : WorkspaceOf[q] = WorkspaceOf[r] => q = r
    BY <2>1 DEF OneRuntime
  <2>3. \A d \in Execs : pc'[d] \notin {"evicting", "evicted"}
    BY <1>1, Exclusive DEF Create, Calls
  <2> QED BY <2>2, <2>3 DEF OneRuntime
<1>2. ASSUME NEW r \in Execs, StopDone(r) PROVE OneRuntime'
  <2>1. runtimes' \subseteq runtimes BY <1>2 DEF StopDone
  <2>2. \A d \in Execs : pc'[d] \in {"evicting", "evicted"} => pc[d] \in {"evicting", "evicted"}
    BY <1>2, TeardownEnds DEF Calls
  <2> QED BY <2>1, <2>2 DEF OneRuntime
<1>3. ASSUME runtimes' = runtimes, ~ \E r \in Execs : StopDone(r) PROVE OneRuntime'
  <2>1. ASSUME NEW d \in Execs, Evict(d) PROVE Owners(d) = {} BY <2>1 DEF Evict
  <2> QED BY <1>3, <2>1, MakingRoom DEF OneRuntime
<1> QED BY <1>1, <1>2, <1>3, Registered

\* The limit survives: one more where there is room, one less after an eviction.
LEMMA RoomStep ==
  ASSUME ManagerTypeOK, LockHeld, OneRuntime, Room, TeardownOrder, [Next]_vars PROVE Room'
<1> USE ManagerAssumption
<1>1. IsFiniteSet(runtimes) /\ Cardinality(runtimes) \in Nat
  BY FS_Subset, FS_CardinalityType DEF ManagerTypeOK
<1>2. ASSUME NEW c \in Calls, Create(c) PROVE Room'
  <2>1. ~Full /\ runtimes' = runtimes \cup {c}
    BY <1>2, CreatesOneMore DEF Create
  <2>2. Cardinality(runtimes \cup {c}) \in
          {Cardinality(runtimes), Cardinality(runtimes) + 1}
    BY <1>1, FS_AddElement
  <2>3. \A d \in Execs : pc'[d] # "evicted"
    BY <1>2, Exclusive DEF Create, Calls, ManagerTypeOK
  <2> QED BY <1>1, <2>1, <2>2, <2>3 DEF Room, Full
<1>3. ASSUME NEW r \in Execs, StopDone(r) PROVE Room'
  <2>1. r \in runtimes /\ runtimes' = runtimes \ {r}
    BY <1>3 DEF StopDone, TeardownOrder
  <2>2. Cardinality(runtimes') = Cardinality(runtimes) - 1
    BY <1>1, <2>1, FS_RemoveElement
  <2> QED BY <1>1, <2>2 DEF Room, Full
<1>4. ASSUME runtimes' = runtimes, ~ \E r \in Execs : StopDone(r) PROVE Room'
  <2>1. ASSUME NEW d \in Execs, pc'[d] = "evicted" PROVE pc[d] = "evicted"
    <3>1. ASSUME Evict(d) PROVE FALSE BY <2>1, <3>1 DEF Evict, ManagerTypeOK, Calls
    <3> QED BY <1>4, <2>1, <3>1, MakingRoom
  <2> QED BY <1>4, <2>1 DEF Room, Full
<1> QED BY <1>2, <1>3, <1>4, Registered
-----------------------------------------------------------------------------
(* Teardown *)

\* Handlers only reserve teardowns; only Create starts a launch.
LEMMA HandlerTeardowns ==
  ASSUME ManagerTypeOK, OneRuntime, Room, TeardownOrder, NEW c \in Calls,
         \/ Request(c) \/ StopRequest(c) \/ Finish(c)
         \/ Refuse(c) \/ RefuseStopping(c) \/ Join(c) \/ Evict(c)
         \/ Create(c) \/ CreateFails(c)
         \/ StartSpawned(c) \/ StartReady(c) \/ StartFails(c) \/ Answer(c)
  PROVE  TeardownOrder'
<1>1. CASE Request(c) \/ Finish(c) \/ Refuse(c) \/ Join(c) \/ CreateFails(c)
           \/ StartSpawned(c) \/ StartReady(c) \/ Answer(c)
  BY <1>1 DEF Request, Finish, Refuse, Join, CreateFails, StartSpawned, StartReady, Answer,
              TeardownOrder
<1>2. ASSUME NEW R, BackgroundStop(R), UNCHANGED <<runtimes, startup, helper>>
      PROVE  TeardownOrder'
  BY <1>2, Reserving DEF TeardownOrder
<1>3. CASE StopRequest(c) BY <1>2, <1>3 DEF StopRequest, TeardownOrder
<1>4. CASE RefuseStopping(c) BY <1>2, <1>4 DEF RefuseStopping
<1>5. CASE Evict(c) BY <1>2, <1>5 DEF Evict
<1>6. CASE StartFails(c) BY <1>2, <1>6 DEF StartFails
<1>7. CASE Create(c)
  <2>1. c \notin runtimes BY <1>7, CreatesOneMore DEF Owners
  <2>2. stop[c] = "none" BY <1>7, <2>1 DEF TeardownOrder, Create
  <2> QED BY <1>7, <2>2 DEF Create, TeardownOrder, ManagerTypeOK
<1> QED BY <1>1, <1>3, <1>4, <1>5, <1>6, <1>7

\* Teardowns go on in their order.
LEMMA TeardownStep ==
  ASSUME ManagerTypeOK, OneRuntime, Room, TeardownOrder, [Next]_vars PROVE TeardownOrder'
<1>1. ASSUME NEW R, BackgroundStop(R), UNCHANGED <<runtimes, startup, helper>>
      PROVE  TeardownOrder'
  BY <1>1, Reserving DEF TeardownOrder
<1>2. ASSUME NEW r \in Execs,
             \/ ReadReady(r) \/ Heartbeat(r) \/ ReaderEnds(r) \/ Lapse(r) \/ Visit(r) \/ VisitEnds(r)
             \/ StopClose(r) \/ StopListeners(r) \/ StopKill(r) \/ StopDone(r) \/ StopFails(r)
             \/ SpawnEnds(r) \/ Launch(r) \/ ProcessesEnd(r)
      PROVE  TeardownOrder'
  <2> USE DEF ManagerTypeOK
  <2>1. CASE ReadReady(r) \/ Heartbeat(r) \/ Lapse(r) \/ Visit(r) \/ VisitEnds(r) \/ Launch(r)
    BY <2>1 DEF ReadReady, Heartbeat, Lapse, Visit, VisitEnds, Launch, TeardownOrder
  <2>2. CASE ReaderEnds(r) BY <1>1, <2>2 DEF ReaderEnds
  <2>3. CASE StopClose(r) BY <2>3 DEF StopClose, TeardownOrder
  <2>9. CASE StopListeners(r) BY <2>9 DEF StopListeners, TeardownOrder
  <2>4. CASE StopKill(r) BY <2>4 DEF StopKill, TeardownOrder
  <2>5. CASE StopDone(r) BY <2>5 DEF StopDone, TeardownOrder
  <2>6. CASE StopFails(r) BY <2>6 DEF StopFails, TeardownOrder
  <2>7. CASE SpawnEnds(r) BY <2>7 DEF SpawnEnds, TeardownOrder
  <2>8. CASE ProcessesEnd(r) BY <2>8 DEF ProcessesEnd, TeardownOrder
  <2> QED BY <1>2, <2>1, <2>2, <2>3, <2>4, <2>5, <2>6, <2>7, <2>8, <2>9
<1>3. CASE Watch BY <1>1, <1>3 DEF Watch
<1>4. CASE Close BY <1>1, <1>4 DEF Close
<1>5. CASE Closed \/ UNCHANGED vars BY <1>5 DEF Closed, vars, TeardownOrder
<1> QED BY <1>2, <1>3, <1>4, <1>5, StepCases, HandlerTeardowns

\* Only the launcher, the sandbox and the teardown change what lives.
LEMMA Processes ==
  ASSUME [Next]_vars
  PROVE  \/ \E r \in Execs : SpawnEnds(r) \/ Launch(r) \/ ProcessesEnd(r)
         \/ \E r \in Execs : StopKill(r) \/ StopDone(r)
         \/ UNCHANGED <<helper, group, files>>
<1>1. ASSUME NEW c \in Calls,
             \/ Request(c) \/ StopRequest(c) \/ Finish(c)
             \/ Refuse(c) \/ RefuseStopping(c) \/ Join(c) \/ Evict(c)
             \/ Create(c) \/ CreateFails(c)
             \/ StartSpawned(c) \/ StartReady(c) \/ StartFails(c) \/ Answer(c)
      PROVE  UNCHANGED <<helper, group, files>>
  BY <1>1 DEF Request, StopRequest, Finish, Refuse, RefuseStopping, Join, Evict, Create,
              CreateFails, StartSpawned, StartReady, StartFails, Answer
<1>2. ASSUME NEW r \in Execs,
             \/ ReadReady(r) \/ Heartbeat(r) \/ ReaderEnds(r) \/ Lapse(r) \/ Visit(r) \/ VisitEnds(r)
             \/ StopClose(r) \/ StopListeners(r) \/ StopFails(r)
      PROVE  UNCHANGED <<helper, group, files>>
  BY <1>2 DEF ReadReady, Heartbeat, ReaderEnds, Lapse, Visit, VisitEnds, StopClose, StopListeners, StopFails
<1>3. CASE Watch \/ Close \/ Closed \/ UNCHANGED vars
  BY <1>3 DEF Watch, Close, Closed, vars
<1> QED BY <1>1, <1>2, <1>3, StepCases

\* No process outlives its registration.
LEMMA OrphansStep ==
  ASSUME ManagerTypeOK, TeardownOrder, NoOrphans, [Next]_vars PROVE NoOrphans'
<1> USE DEF NoOrphans
<1>1. runtimes \subseteq runtimes' \/ \E r \in Execs : StopDone(r)
  BY Registered DEF Create
<1>2. ASSUME NEW r \in Execs, StopDone(r) PROVE NoOrphans'
  BY <1>2 DEF StopDone, TeardownOrder
<1>3. ASSUME NEW r \in Execs, SpawnEnds(r) PROVE NoOrphans'
  BY <1>3 DEF SpawnEnds, TeardownOrder
<1>4. ASSUME NEW r \in Execs, Launch(r) \/ ProcessesEnd(r) \/ StopKill(r)
      PROVE  NoOrphans'
  BY <1>4 DEF Launch, ProcessesEnd, StopKill
<1> QED BY <1>1, <1>2, <1>3, <1>4, Processes
-----------------------------------------------------------------------------
(* Closing, and what heartbeats find *)

\* close() waits for every runtime, as none is created after it began.
LEMMA CloseStep ==
  ASSUME ManagerTypeOK, OneRuntime, Room, TeardownOrder, CloseWaits, [Next]_vars
  PROVE  CloseWaits'
<1> USE DEF CloseWaits
<1>1. ASSUME NEW c \in Calls, Create(c) PROVE CloseWaits'
  BY <1>1, CreatesOneMore DEF Create
<1>2. ASSUME NEW r \in Execs, StopDone(r) PROVE CloseWaits'
  BY <1>2 DEF StopDone
<1>3. ASSUME NEW r \in Execs, StopFails(r) PROVE CloseWaits'
  BY <1>3 DEF StopFails, TeardownOrder
<1>4. CASE Close BY <1>4 DEF Close
<1>5. CASE Closed BY <1>5 DEF Closed
<1>6. ASSUME NEW c \in Calls,
             \/ Request(c) \/ StopRequest(c) \/ Finish(c)
             \/ Refuse(c) \/ RefuseStopping(c) \/ Join(c) \/ Evict(c)
             \/ CreateFails(c)
             \/ StartSpawned(c) \/ StartReady(c) \/ StartFails(c) \/ Answer(c)
      PROVE  UNCHANGED <<runtimes, closing, closeWait>>
  BY <1>6 DEF Request, StopRequest, Finish, Refuse, RefuseStopping, Join, Evict,
              CreateFails, StartSpawned, StartReady, StartFails, Answer
<1>7. ASSUME NEW r \in Execs,
             \/ ReadReady(r) \/ Heartbeat(r) \/ ReaderEnds(r) \/ Lapse(r) \/ Visit(r) \/ VisitEnds(r)
             \/ StopClose(r) \/ StopListeners(r) \/ StopKill(r) \/ SpawnEnds(r) \/ Launch(r) \/ ProcessesEnd(r)
      PROVE  UNCHANGED <<runtimes, closing, closeWait>>
  BY <1>7 DEF ReadReady, Heartbeat, ReaderEnds, Lapse, Visit, VisitEnds, StopClose, StopListeners, StopKill,
              SpawnEnds, Launch, ProcessesEnd
<1>8. CASE Watch \/ UNCHANGED vars BY <1>8 DEF Watch, vars
<1> QED BY <1>1, <1>2, <1>3, <1>4, <1>5, <1>6, <1>7, <1>8, StepCases

\* A call that leaves processes behind also ends what the heartbeat found.
LEMMA QuietStep == ASSUME ManagerTypeOK, QuietIsEmpty, [Next]_vars PROVE QuietIsEmpty'
<1> USE DEF QuietIsEmpty
<1>1. ASSUME NEW c \in Calls, Finish(c) \/ Join(c) \/ StartReady(c) PROVE QuietIsEmpty'
  BY <1>1 DEF Finish, Join, StartReady, Active
<1>2. ASSUME NEW r \in Execs, Heartbeat(r) PROVE QuietIsEmpty' BY <1>2 DEF Heartbeat
<1>3. ASSUME NEW r \in Execs, ProcessesEnd(r) \/ Visit(r) \/ VisitEnds(r) PROVE QuietIsEmpty'
  BY <1>3 DEF ProcessesEnd, Visit, VisitEnds
<1>4. ASSUME NEW c \in Calls,
             \/ Request(c) \/ StopRequest(c) \/ Refuse(c) \/ RefuseStopping(c) \/ Evict(c)
             \/ Create(c) \/ CreateFails(c) \/ StartSpawned(c) \/ StartFails(c) \/ Answer(c)
      PROVE  UNCHANGED <<quiet, busy, held>>
  BY <1>4 DEF Request, StopRequest, Refuse, RefuseStopping, Evict, Create, CreateFails,
              StartSpawned, StartFails, Answer
<1>5. ASSUME NEW r \in Execs,
             \/ ReadReady(r) \/ ReaderEnds(r) \/ Lapse(r)
             \/ StopClose(r) \/ StopListeners(r) \/ StopKill(r) \/ StopDone(r) \/ StopFails(r)
             \/ SpawnEnds(r) \/ Launch(r)
      PROVE  UNCHANGED <<quiet, busy, held>>
  BY <1>5 DEF ReadReady, ReaderEnds, Lapse, StopClose, StopListeners, StopKill, StopDone, StopFails,
              SpawnEnds, Launch
<1>6. CASE Watch \/ Close \/ Closed \/ UNCHANGED vars
  BY <1>6 DEF Watch, Close, Closed, vars
<1> QED BY <1>1, <1>2, <1>3, <1>4, <1>5, <1>6, StepCases
-----------------------------------------------------------------------------
(* The invariant, and the safety theorems *)

\* The invariant holds at the start.
LEMMA InitInv == Init => IInv
<1> SUFFICES ASSUME Init PROVE IInv OBVIOUS
<1>1. runtimes = {} /\ Cardinality(runtimes) = 0
  BY FS_EmptySet DEF Init
<1>2. Room BY <1>1, ManagerAssumption DEF Room, Init, Calls
<1>3. ManagerTypeOK BY ManagerAssumption DEF Init, ManagerTypeOK
<1>4. LockHeld /\ OneRuntime BY DEF Init, LockHeld, OneRuntime, Calls
<1>5. TeardownOrder /\ NoOrphans /\ CloseWaits /\ QuietIsEmpty
  BY DEF Init, TeardownOrder, NoOrphans, CloseWaits, QuietIsEmpty
<1> QED BY <1>2, <1>3, <1>4, <1>5 DEF IInv

\* Every step keeps the invariant.
LEMMA StepInv == IInv /\ [Next]_vars => IInv'
  BY TypeStep, LockStep, OneRuntimeStep, RoomStep, TeardownStep, OrphansStep, CloseStep,
     QuietStep DEF IInv

\* So it always holds.
LEMMA Invariant == Spec => []IInv
  BY InitInv, StepInv, PTL DEF Spec

\* A process the manager started belongs to a registered runtime with its
\* directories, whatever is stopped, fails or ends by itself: teardown reaches it.
THEOREM OrphansNever == Spec => []NoOrphans
<1>1. IInv => NoOrphans BY DEF IInv
<1> QED BY <1>1, Invariant, PTL

\* When close() has returned, nothing the manager started is left.
THEOREM CloseIsComplete == Spec => []ClosedIsEmpty
<1>1. IInv => ClosedIsEmpty BY DEF IInv, CloseWaits, NoOrphans, ClosedIsEmpty
<1> QED BY <1>1, Invariant, PTL

\* No eviction hits a runtime that serves a call, in which processes run that a
\* call left behind, or that a client is connected to.
THEOREM EvictionIsSafe == Spec => EvictsOnlyEmpty
<1>1. ASSUME IInv, [Next]_vars, NEW c \in Execs, pc[c] = "waiting", pc'[c] = "evicting"
      PROVE  of'[c] \notin busy \cup held /\ Serving(of'[c]) = {}
  <2>1. Evict(c) \/ \E r \in Execs : StopDone(r)
    BY <1>1, MakingRoom DEF IInv
  <2>2. ASSUME NEW r \in Execs, StopDone(r) PROVE FALSE
    BY <1>1, <2>2, TeardownEnds DEF IInv, Calls
  <2>3. PICK r \in Candidates : of'[c] = r
    BY <1>1, <2>1, <2>2 DEF Evict, IInv, ManagerTypeOK, Calls
  <2> QED BY <1>1, <2>3 DEF Candidates, Idle, IInv, QuietIsEmpty
<1>2. IInv /\ [Next]_vars =>
        \A c \in Execs : pc[c] = "waiting" /\ pc'[c] = "evicting" =>
          of'[c] \notin busy \cup held /\ Serving(of'[c]) = {}
  BY <1>1
<1> QED BY <1>2, Invariant, PTL DEF EvictsOnlyEmpty, Spec
-----------------------------------------------------------------------------
(* Leases of workspaces *)

\* The runtime of a workspace, among runtimes of different workspaces.
LEMMA TheRuntime ==
  ASSUME NEW R, \A q, r \in R : WorkspaceOf[q] = WorkspaceOf[r] => q = r, NEW r \in R
  PROVE  (CHOOSE x \in R : WorkspaceOf[x] = WorkspaceOf[r]) = r
  OBVIOUS

\* A workspace belongs to the session of its runtime, or to nobody.
LEMMA Ownership ==
  ASSUME ManagerTypeOK, OneRuntime
  PROVE  /\ \A r \in runtimes : OwnerOf(WorkspaceOf[r]) = SessionOf[r] /\ SessionOf[r] # Nobody
         /\ \A w \in Workspaces : OwnerOf(w) # Nobody <=> \E r \in runtimes : WorkspaceOf[r] = w
<1>1. ASSUME NEW r \in runtimes
      PROVE  OwnerOf(WorkspaceOf[r]) = SessionOf[r] /\ SessionOf[r] # Nobody
  <2>1. (CHOOSE x \in runtimes : WorkspaceOf[x] = WorkspaceOf[r]) = r
    BY TheRuntime DEF OneRuntime
  <2>2. SessionOf[r] # Nobody BY LeaseAssumption DEF ManagerTypeOK, Calls
  <2> QED BY <2>1, <2>2 DEF OwnerOf
<1>2. ASSUME NEW w \in Workspaces, ~ \E r \in runtimes : WorkspaceOf[r] = w
      PROVE  OwnerOf(w) = Nobody
  BY <1>2 DEF OwnerOf
<1> QED BY <1>1, <1>2

\* Only the owner of a workspace has processes in it.
LEMMA OwnWork ==
  ASSUME ManagerTypeOK, OneRuntime, NoOrphans, NEW w \in Workspaces
  PROVE  /\ OwnerOf(w) # Nobody => WorkIn(w) \in SUBSET {OwnerOf(w)}
         /\ OwnerOf(w) = Nobody => WorkIn(w) = {}
  BY Ownership DEF WorkIn, NoOrphans

\* No more workspaces are leased than there are runtimes.
LEMMA LeasedAreFew ==
  ASSUME ManagerTypeOK, OneRuntime
  PROVE  /\ Cardinality(Leases!Leased) \in Nat
         /\ Cardinality(Leases!Leased) <= Cardinality(runtimes)
<1> DEFINE f == [r \in runtimes |-> WorkspaceOf[r]]
<1>1. IsFiniteSet(runtimes) BY ManagerAssumption, FS_Subset DEF ManagerTypeOK
<1>2. Leases!Leased = {w \in Workspaces : OwnerOf(w) # Nobody} BY DEF Leases!Leased
<1>3. f \in Surjection(runtimes, Leases!Leased)
  BY <1>2, Ownership, LeaseAssumption DEF Surjection, ManagerTypeOK, Calls
<1> QED BY <1>1, <1>3, FS_Surjection, FS_CardinalityType

\* At the start nothing is leased.
LEMMA InitLeases == Init => Leases!Init
  BY DEF Init, Leases!Init, OwnerOf, WorkIn

\* Every step is a step of the leases, or changes nothing about them.
LEMMA StepLeases ==
  ASSUME IInv, IInv', [Next]_vars PROVE [Leases!Next]_(Leases!vars)
<1> DEFINE owner == [w \in Workspaces |-> OwnerOf(w)]
           work  == [w \in Workspaces |-> WorkIn(w)]
<1> USE DEF IInv
<1>1. ASSUME NEW c \in Calls, Create(c) PROVE Leases!Next
  <2> DEFINE v == WorkspaceOf[c]
  <2>1. /\ c \in Execs /\ Owners(c) = {} /\ ~Full
        /\ runtimes' = runtimes \cup {c} /\ UNCHANGED <<helper, group>>
    BY <1>1, CreatesOneMore DEF Create
  <2>2. v \in Workspaces /\ SessionOf[c] \in Sessions BY LeaseAssumption
  <2>3. OwnerOf(v) = Nobody BY <2>1, <2>2, Ownership DEF Owners
  <2>4. OwnerOf(v)' = SessionOf[c]
    <3>1. (CHOOSE x \in runtimes' : WorkspaceOf[x] = v) = c
      BY <2>1, TheRuntime DEF OneRuntime
    <3> QED BY <2>1, <3>1 DEF OwnerOf
  <2>5. \A w \in Workspaces \ {v} : OwnerOf(w)' = OwnerOf(w)
    <3> SUFFICES ASSUME NEW w \in Workspaces \ {v} PROVE OwnerOf(w)' = OwnerOf(w)
      OBVIOUS
    <3>1. CASE \E r \in runtimes : WorkspaceOf[r] = w
      <4>1. PICK r \in runtimes : WorkspaceOf[r] = w BY <3>1
      <4>2. (CHOOSE x \in runtimes' : WorkspaceOf[x] = w) = r
        BY <2>1, <4>1, TheRuntime DEF OneRuntime
      <4>3. OwnerOf(w)' = SessionOf[r] BY <2>1, <4>1, <4>2 DEF OwnerOf
      <4> QED BY <4>1, <4>3, Ownership
    <3>2. CASE ~ \E r \in runtimes : WorkspaceOf[r] = w
      BY <2>1, <3>2 DEF OwnerOf
    <3> QED BY <3>1, <3>2
  <2>6. work' = work BY <2>1 DEF WorkIn
  <2>7. Cardinality(Leases!Leased) < MaxRuntimes
    <3>1. IsFiniteSet(runtimes) BY ManagerAssumption, FS_Subset DEF ManagerTypeOK
    <3>2. Cardinality(runtimes) \in Nat BY <3>1, FS_CardinalityType
    <3>3. Cardinality(Leases!Leased) \in Nat BY LeasedAreFew
    <3> QED BY <2>1, <3>2, <3>3, LeasedAreFew, ManagerAssumption DEF Full
  <2>8. owner' = [owner EXCEPT ![v] = SessionOf[c]] BY <2>2, <2>4, <2>5
  <2>9. Leases!Lease(v, SessionOf[c])
    \* The instance has a copy of Cardinality of its own.
    <3>1. Leases!Cardinality(Leases!Leased) = Cardinality(Leases!Leased)
      BY DEF Cardinality, Leases!Cardinality, IsFiniteSet, Leases!IsFiniteSet
    <3> QED BY <2>2, <2>3, <2>6, <2>7, <2>8, <3>1 DEF Leases!Lease
  <2> QED BY <2>2, <2>9 DEF Leases!Next
<1>2. ASSUME NEW r \in Execs, StopDone(r) PROVE Leases!Next
  <2> DEFINE v == WorkspaceOf[r]
  <2>1. /\ r \in runtimes /\ r \notin helper \cup group
        /\ runtimes' = runtimes \ {r} /\ UNCHANGED <<helper, group>>
    BY <1>2 DEF StopDone, TeardownOrder
  <2>2. v \in Workspaces BY LeaseAssumption DEF Calls
  <2>3. OwnerOf(v) # Nobody BY <2>1, Ownership
  <2>4. OwnerOf(v)' = Nobody BY <2>1 DEF OwnerOf, OneRuntime
  <2>5. ASSUME NEW w \in Workspaces \ {v} PROVE OwnerOf(w)' = OwnerOf(w)
    <3>1. CASE \E x \in runtimes : WorkspaceOf[x] = w
      <4>1. PICK x \in runtimes : WorkspaceOf[x] = w BY <3>1
      <4>2. (CHOOSE y \in runtimes' : WorkspaceOf[y] = w) = x
        BY <2>1, <4>1, TheRuntime DEF OneRuntime
      <4>3. OwnerOf(w)' = SessionOf[x] BY <2>1, <4>1, <4>2 DEF OwnerOf
      <4> QED BY <4>1, <4>3, Ownership
    <3>2. CASE ~ \E x \in runtimes : WorkspaceOf[x] = w
      BY <2>1, <3>2 DEF OwnerOf
    <3> QED BY <3>1, <3>2
  <2>6. work' = work BY <2>1 DEF WorkIn
  <2>7. WorkIn(v) = {} BY <2>1 DEF WorkIn, NoOrphans, OneRuntime
  <2>8. owner' = [owner EXCEPT ![v] = Nobody] BY <2>2, <2>4, <2>5
  <2>9. Leases!Release(v) BY <2>2, <2>3, <2>6, <2>7, <2>8 DEF Leases!Release
  <2> QED BY <2>2, <2>9 DEF Leases!Next
<1>3. ASSUME NEW r \in Execs, UNCHANGED runtimes,
             helper' \ {r} = helper \ {r}, group' \ {r} = group \ {r}
      PROVE  [Leases!Next]_(Leases!vars)
  <2> DEFINE v == WorkspaceOf[r]
  <2>1. v \in Workspaces BY LeaseAssumption DEF Calls
  <2>2. owner' = owner BY <1>3 DEF OwnerOf
  <2>3. \A w \in Workspaces \ {v} : WorkIn(w)' = WorkIn(w)
    BY <1>3 DEF WorkIn
  <2>4. CASE r \in runtimes
    <3>1. OwnerOf(v) = SessionOf[r] /\ SessionOf[r] # Nobody BY <2>4, Ownership
    <3>2. WorkIn(v)' \in SUBSET {OwnerOf(v)}
      BY <1>3, <2>4, <3>1 DEF WorkIn, NoOrphans, OneRuntime
    <3>3. work' = [work EXCEPT ![v] = WorkIn(v)'] BY <2>1, <2>3
    <3>4. Leases!Work(v) BY <2>1, <2>2, <3>1, <3>2, <3>3 DEF Leases!Work
    <3> QED BY <2>1, <3>4 DEF Leases!Next
  <2>5. CASE r \notin runtimes
    <3>1. UNCHANGED <<helper \cup group>> BY <1>3, <2>5 DEF NoOrphans
    <3>2. work' = work BY <3>1 DEF WorkIn
    <3> QED BY <2>2, <3>2 DEF Leases!vars
  <2> QED BY <2>4, <2>5
<1>4. ASSUME NEW r \in Execs, SpawnEnds(r) \/ Launch(r) \/ ProcessesEnd(r) \/ StopKill(r)
      PROVE  /\ UNCHANGED runtimes
             /\ helper' \ {r} = helper \ {r} /\ group' \ {r} = group \ {r}
  BY <1>4 DEF SpawnEnds, Launch, ProcessesEnd, StopKill
<1>5. CASE UNCHANGED <<runtimes, helper, group>>
  BY <1>5 DEF Leases!vars, OwnerOf, WorkIn
<1> QED BY <1>1, <1>2, <1>3, <1>4, <1>5, Registered, Processes

\* The manager implements exclusive leases: a workspace goes to a session only
\* when no runtime has it, no more than max_runtimes are leased, and a session
\* loses its workspace only when none of its processes is left in it.
THEOREM Leased == Spec => ImplementsLeases
<1>1. IInv /\ IInv' /\ [Next]_vars => [Leases!Next]_(Leases!vars) BY StepLeases
<1> QED BY <1>1, InitLeases, Invariant, PTL DEF Spec, ImplementsLeases, Leases!Spec
=============================================================================
