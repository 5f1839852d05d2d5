--------------------------- MODULE PreviewManager ---------------------------
(***************************************************************************)
(* The sandbox runtimes of pkgs/opencode-preview/manager.py: how a call    *)
(* gets the runtime of its session and workspace, and how runtimes end.    *)
(* The manager is one asyncio event loop: an action is what one task does  *)
(* between two awaits.  Its tasks are the HTTP calls (shell commands, which*)
(* take a lock to find or create their runtime, and /stop requests), the   *)
(* watcher, a reader for every runtime, and a teardown for every runtime   *)
(* that is being stopped.  Outside the loop are the launcher and the       *)
(* processes of the sandbox.                                               *)
(*                                                                         *)
(* A runtime is named for the call that creates it.  A call is "serving"   *)
(* from its admission until its handler has left and the supervisor has    *)
(* confirmed the end of its command; PreviewExec has the details.          *)
(***************************************************************************)
EXTENDS Naturals, FiniteSets

CONSTANTS
  Execs, Stops,           \* calls of /exec and of /stop
  SessionOf, WorkspaceOf, \* the session and the workspace a call names
  MaxRuntimes,            \* config.max_runtimes
  NoCall,
  Crowds,                 \* bound: the sets of calls that arrive in one behaviour
  MaxFaults               \* bound: teardowns that fail

Calls == Execs \cup Stops

ASSUME ManagerAssumption ==
  /\ IsFiniteSet(Execs)
  /\ Execs \cap Stops = {} /\ NoCall \notin Calls
  /\ MaxRuntimes \in Nat \ {0} /\ MaxFaults \in Nat /\ Crowds \subseteq SUBSET Calls

VARIABLES
  pc,        \* where the handler of each call is
  of,        \* the runtime it uses or waits for
  lock,      \* Manager.lock
  runtimes,  \* Manager.runtimes
  startup,   \* Runtime.startup_task: the launch of its processes
  ready,     \* Runtime.ready
  reader,    \* the runtimes whose frames are being read
  started, stopped, \* Runtime.started, Runtime.stopped
  valid,     \* what _valid finds: the last heartbeat, the directories and the age
  quiet,     \* a heartbeat after the last activity found no process, no port
  idle,      \* Runtime.idle_since is set
  held,      \* runtimes of which a listener has a client
  stop,      \* Manager.stopping: how far the teardown is
  closing,   \* Manager.closing, and how close() went
  closeWait, \* the teardowns close() waits for
  helper,    \* runtimes whose launcher, later the supervisor's parent, lives
  group,     \* runtimes with processes in their cgroup
  busy,      \* sandboxes in which processes were left running
  files,     \* broker and browser directories
  faults

callVars    == <<pc, of, lock>>
frameVars   == <<ready, reader, valid>>
idleVars    == <<quiet, idle>>
serveVars   == <<started, held>>
stopVars    == <<stopped, stop>>
closeVars   == <<closing, closeWait>>
processVars == <<helper, group, busy, files>>
vars == <<callVars, runtimes, startup, serveVars, frameVars, idleVars, stopVars,
          closeVars, processVars, faults>>

Init ==
  /\ pc = [c \in Calls |-> "new"] /\ of = [c \in Calls |-> NoCall] /\ lock = NoCall
  /\ runtimes = {} /\ started = {} /\ stopped = {}
  /\ startup = [r \in Execs |-> "none"] /\ stop = [r \in Execs |-> "none"]
  /\ ready = [r \in Execs |-> "pending"] /\ reader = {}
  /\ valid = Execs
  /\ quiet = {} /\ idle = {} /\ held = {}
  /\ closing = "no" /\ closeWait = {}
  /\ helper = {} /\ group = {} /\ busy = {} /\ files = {}
  /\ faults = 0
-----------------------------------------------------------------------------
(* Idle runtimes, and the teardown they are handed to *)

Serving(r) == {c \in Execs : pc[c] = "serving" /\ of[c] = r}

Idle(r) ==
  /\ r \in started \ stopped
  /\ Serving(r) = {}
  /\ r \in quiet \cap valid

\* A call begins or ends: what was known of the sandbox says nothing any more.
Active(r) ==
  /\ quiet' = quiet \ {r} /\ idle' = idle \ {r}

\* _background_stop, for a set: reserve the runtimes and start their teardown.
BackgroundStop(R) ==
  LET S == {r \in R \cap runtimes : stop[r] = "none"}
  IN /\ stopped' = stopped \cup S
     /\ stop' = [r \in Execs |-> IF r \in S THEN "startup" ELSE stop[r]]
-----------------------------------------------------------------------------
(* _get_runtime: under the lock *)

Arrives(c) ==
  /\ pc[c] = "new"
  /\ \E C \in Crowds : {d \in Calls : pc[d] # "new"} \cup {c} \subseteq C

Request(c) ==
  /\ c \in Execs /\ Arrives(c)
  /\ pc' = [pc EXCEPT ![c] = "waiting"]
  /\ UNCHANGED <<of, lock, runtimes, startup, serveVars, frameVars, idleVars, stopVars,
                 closeVars, processVars, faults>>

Holds(c) == c \in Execs /\ pc[c] = "waiting" /\ lock = NoCall

Owners(c) == {r \in runtimes : WorkspaceOf[r] = WorkspaceOf[c]}

\* Mutant of Full: one runtime more.
FullOneMore == Cardinality(runtimes) > MaxRuntimes

Full == Cardinality(runtimes) >= MaxRuntimes

\* Mutant of Candidates: a runtime without calls is taken for empty.
CandidatesUnserved == {r \in (runtimes \cap started) \ stopped : Serving(r) = {}}

\* The empty runtimes.  The code takes the one that has been idle for longest;
\* here it may be any of them, as no property tells them apart.
Candidates == {r \in runtimes \cap idle : Idle(r)}

Refuse(c) ==
  /\ Holds(c)
  /\ \/ closing # "no"
     \/ \E r \in Owners(c) : SessionOf[r] # SessionOf[c]
     \/ Owners(c) = {} /\ Full /\ Candidates = {}
  /\ pc' = [pc EXCEPT ![c] = "ended"]
  /\ UNCHANGED <<of, lock, runtimes, startup, serveVars, frameVars, idleVars, stopVars,
                 closeVars, processVars, faults>>

RefuseStopping(c) ==
  /\ Holds(c) /\ closing = "no"
  /\ \E r \in Owners(c) :
       /\ SessionOf[r] = SessionOf[c] /\ (r \in stopped \/ r \notin valid)
       /\ BackgroundStop({r})
  /\ pc' = [pc EXCEPT ![c] = "ended"]
  /\ UNCHANGED <<of, lock, runtimes, startup, serveVars, frameVars, idleVars,
                 closeVars, processVars, faults>>

\* The runtime of the session; nothing is awaited before channel("exec").
Join(c) ==
  /\ Holds(c) /\ closing = "no"
  /\ \E r \in Owners(c) :
       /\ SessionOf[r] = SessionOf[c] /\ r \in valid \ stopped
       /\ of' = [of EXCEPT ![c] = r]
       /\ Active(r)
  /\ pc' = [pc EXCEPT ![c] = "serving"]
  /\ UNCHANGED <<lock, runtimes, startup, serveVars, frameVars, stopVars,
                 closeVars, processVars, faults>>

Evict(c) ==
  /\ Holds(c) /\ closing = "no" /\ Owners(c) = {} /\ Full
  /\ \E r \in Candidates :
       /\ of' = [of EXCEPT ![c] = r]
       /\ BackgroundStop({r})
  /\ pc' = [pc EXCEPT ![c] = "evicting"]
  /\ lock' = c
  /\ UNCHANGED <<runtimes, startup, serveVars, frameVars, idleVars, closeVars,
                 processVars, faults>>

\* Mutant of MayCreate: closing is not looked at again after an eviction.
MayCreateClosing(c) ==
  \/ Holds(c) /\ closing = "no" /\ Owners(c) = {} /\ ~Full
  \/ pc[c] = "evicted"

MayCreate(c) ==
  \/ Holds(c) /\ closing = "no" /\ Owners(c) = {} /\ ~Full
  \/ pc[c] = "evicted" /\ closing = "no"

\* Register the runtime and start its launch; its directory may be unusable.
Create(c) ==
  /\ c \in Execs /\ MayCreate(c)
  /\ runtimes' = runtimes \cup {c}
  /\ startup' = [startup EXCEPT ![c] = "spawning"]
  /\ pc' = [pc EXCEPT ![c] = "starting"]
  /\ lock' = c
  /\ UNCHANGED <<of, serveVars, frameVars, idleVars, stopVars, closeVars, processVars, faults>>

CreateFails(c) ==
  /\ c \in Execs
  /\ MayCreate(c) \/ (pc[c] = "evicted" /\ closing # "no")
  /\ pc' = [pc EXCEPT ![c] = "ended"]
  /\ lock' = NoCall
  /\ UNCHANGED <<of, runtimes, startup, serveVars, frameVars, idleVars, stopVars,
                 closeVars, processVars, faults>>

\* The launch is done: read the frames of the runtime and wait for "ready".
StartSpawned(c) ==
  /\ c \in Execs /\ pc[c] = "starting" /\ startup[c] = "spawned"
  /\ pc' = [pc EXCEPT ![c] = "readying"]
  /\ reader' = reader \cup {c}
  /\ UNCHANGED <<of, lock, runtimes, startup, serveVars, ready, valid, idleVars, stopVars,
                 closeVars, processVars, faults>>

StartReady(c) ==
  /\ c \in Execs /\ pc[c] = "readying" /\ ready[c] = "set"
  /\ c \in valid \ stopped
  /\ started' = started \cup {c}
  /\ pc' = [pc EXCEPT ![c] = "serving"]
  /\ of' = [of EXCEPT ![c] = c]
  /\ lock' = NoCall
  /\ Active(c)
  /\ UNCHANGED <<runtimes, startup, held, frameVars, stopVars, closeVars, processVars, faults>>

\* An exception, a refused runtime, or the 30 seconds are over.
StartFails(c) ==
  /\ c \in Execs /\ pc[c] \in {"starting", "readying"}
  /\ pc' = [pc EXCEPT ![c] = IF c \in runtimes THEN "cleanup" ELSE "answering"]
  /\ BackgroundStop({c})
  /\ UNCHANGED <<of, lock, runtimes, startup, serveVars, frameVars, idleVars,
                 closeVars, processVars, faults>>

\* Mutant of Answer: an exception leaves the lock taken.
AnswerLocked(c) ==
  /\ pc[c] = "answering"
  /\ pc' = [pc EXCEPT ![c] = "ended"]
  /\ UNCHANGED <<of, lock, runtimes, startup, serveVars, frameVars, idleVars, stopVars,
                 closeVars, processVars, faults>>

Answer(c) ==
  /\ pc[c] = "answering"
  /\ pc' = [pc EXCEPT ![c] = "ended"]
  /\ lock' = IF lock = c THEN NoCall ELSE lock
  /\ UNCHANGED <<of, runtimes, startup, serveVars, frameVars, idleVars, stopVars,
                 closeVars, processVars, faults>>

\* The call is over; it may leave processes behind in the sandbox.
Finish(c) ==
  /\ c \in Execs /\ pc[c] = "serving"
  /\ pc' = [pc EXCEPT ![c] = "ended"]
  /\ Active(of[c])
  /\ busy' \in {busy, busy \cup ({of[c]} \cap group)}
  /\ UNCHANGED <<of, lock, runtimes, startup, serveVars, frameVars, stopVars,
                 closeVars, helper, group, files, faults>>

\* _stop_request: the runtime of that session and workspace, if there is one.
StopRequest(c) ==
  /\ c \in Stops /\ Arrives(c)
  /\ LET mine == {r \in Owners(c) : SessionOf[r] = SessionOf[c]}
     IN \/ /\ mine = {} /\ pc' = [pc EXCEPT ![c] = "ended"]
           /\ UNCHANGED <<of, stopVars>>
        \/ \E r \in mine :
             /\ pc' = [pc EXCEPT ![c] = "stopping"]
             /\ of' = [of EXCEPT ![c] = r]
             /\ BackgroundStop({r})
  /\ UNCHANGED <<lock, runtimes, startup, serveVars, frameVars, idleVars,
                 closeVars, processVars, faults>>
-----------------------------------------------------------------------------
(* The reader of a runtime, and the watcher *)

\* "ready" is read.  A heartbeat is one of the things that make a runtime valid.
ReadReady(r) ==
  /\ r \in reader \cap group /\ ready[r] = "pending"
  /\ ready' = [ready EXCEPT ![r] = "set"]
  /\ valid' \in {valid, valid \cup {r}}
  /\ UNCHANGED <<callVars, runtimes, startup, serveVars, reader, idleVars, stopVars,
                 closeVars, processVars, faults>>

\* "ports" is read: what the supervisor counts when nothing is in progress.  A
\* frame without ports is done with when the listeners are closed and their
\* clients have left.
Heartbeat(r) ==
  /\ r \in reader \cap group /\ ready[r] = "set"
  /\ valid' \in {valid, valid \cup {r}}
  /\ LET found == r \notin busy /\ Serving(r) = {} /\ r \notin held
         nowIdle == found /\ r \in started \ stopped /\ r \in valid'
     IN /\ quiet' = IF found THEN quiet \cup {r} ELSE quiet \ {r}
        /\ idle' = IF nowIdle THEN idle \cup {r} ELSE idle \ {r}
  /\ UNCHANGED <<callVars, runtimes, startup, serveVars, ready, reader, stopVars,
                 closeVars, processVars, faults>>

\* The stream ends, or breaks the protocol: the finally of read_frames.
ReaderEnds(r) ==
  /\ r \in reader
  /\ reader' = reader \ {r}
  /\ ready' = [ready EXCEPT ![r] = IF @ = "pending" THEN "failed" ELSE @]
  /\ BackgroundStop({r} \ stopped)
  /\ UNCHANGED <<callVars, runtimes, startup, serveVars, valid, idleVars,
                 closeVars, processVars, faults>>

\* A client connects to a port that a frame has reported, or leaves.
Visit(r) ==
  /\ r \in (reader \cap started) \ (stopped \cup quiet)
  /\ held' = held \cup {r}
  /\ UNCHANGED <<callVars, runtimes, startup, started, frameVars, idleVars, stopVars,
                 closeVars, processVars, faults>>

VisitEnds(r) ==
  /\ r \in held
  /\ held' = held \ {r}
  /\ UNCHANGED <<callVars, runtimes, startup, started, frameVars, idleVars, stopVars,
                 closeVars, processVars, faults>>

\* One sweep of _watch: the runtimes that are no longer valid, and those idle
\* for the time-out.
Watch ==
  /\ closing = "no"
  /\ \E late \in SUBSET Candidates :
       LET gone == {r \in runtimes : ready[r] # "pending" /\ r \notin valid}
       IN /\ \E r \in gone \cup late : stop[r] = "none"
          /\ BackgroundStop(gone \cup late)
  /\ UNCHANGED <<callVars, runtimes, startup, serveVars, frameVars, idleVars,
                 closeVars, processVars, faults>>

\* No heartbeat for five seconds, another directory, or the maximal age.
Lapse(r) ==
  /\ r \in runtimes \cap valid
  /\ valid' = valid \ {r}
  /\ UNCHANGED <<callVars, runtimes, startup, serveVars, ready, reader, idleVars, stopVars,
                 closeVars, processVars, faults>>
-----------------------------------------------------------------------------
(* _stop_runtime and close *)

\* The handlers that await the teardown of r.
Awaiting(r) == {c \in Calls : \/ pc[c] \in {"evicting", "stopping"} /\ of[c] = r
                              \/ pc[c] = "cleanup" /\ c = r}

\* Mutant of StopClose: it does not wait for the launch to settle.
StopCloseEarly(r) ==
  /\ stop[r] = "startup" /\ pc[r] # "starting"
  /\ reader' = reader \ {r}
  /\ ready' = [ready EXCEPT ![r] = IF @ = "pending" THEN "failed" ELSE @]
  /\ stop' = [stop EXCEPT ![r] = "listeners"]
  /\ UNCHANGED <<callVars, runtimes, startup, serveVars, valid, idleVars, stopped,
                 closeVars, processVars, faults>>

\* The launch has settled, and the handler that waits for it has gone on (its
\* callback is older): stop reading, close the listeners.
StopClose(r) ==
  /\ stop[r] = "startup" /\ startup[r] \in {"spawned", "failed"} /\ pc[r] # "starting"
  /\ reader' = reader \ {r}
  /\ ready' = [ready EXCEPT ![r] = IF @ = "pending" THEN "failed" ELSE @]
  /\ stop' = [stop EXCEPT ![r] = "listeners"]
  /\ UNCHANGED <<callVars, runtimes, startup, serveVars, valid, idleVars, stopped,
                 closeVars, processVars, faults>>

\* wait_closed has returned for every listener, which takes as long as their
\* clients stay: only now the channels of the calls fail.
StopListeners(r) ==
  /\ stop[r] = "listeners" /\ r \notin held
  /\ stop' = [stop EXCEPT ![r] = "kill"]
  /\ UNCHANGED <<callVars, runtimes, startup, serveVars, frameVars, idleVars, stopped,
                 closeVars, processVars, faults>>

\* _kill_cgroup: first the launcher, so that nothing can enter the killed group.
StopKill(r) ==
  /\ stop[r] = "kill"
  /\ helper' = helper \ {r}
  /\ stop' = [stop EXCEPT ![r] = "reap"]
  /\ UNCHANGED <<callVars, runtimes, startup, serveVars, frameVars, idleVars, stopped,
                 closeVars, group, busy, files, faults>>

\* The cgroup is empty: remove the private directories, forget the runtime.
StopDone(r) ==
  /\ stop[r] = "reap" /\ r \notin group
  /\ runtimes' = runtimes \ {r}
  /\ files' = files \ {r}
  /\ stop' = [stop EXCEPT ![r] = "none"]
  /\ closeWait' = closeWait \ {r}
  /\ pc' = [c \in Calls |->
              IF c \notin Awaiting(r) THEN pc[c]
              ELSE IF pc[c] = "evicting" THEN "evicted" ELSE "answering"]
  /\ UNCHANGED <<of, lock, startup, serveVars, frameVars, idleVars, stopped, closing,
                 helper, group, busy, faults>>

\* A process does not die, a directory cannot be removed: the teardown raises,
\* and the runtime stays registered.
StopFails(r) ==
  /\ stop[r] \in {"kill", "reap"}
  /\ faults < MaxFaults /\ faults' = faults + 1
  /\ stop' = [stop EXCEPT ![r] = "none"]
  /\ closeWait' = closeWait \ {r}
  /\ closing' = IF r \in closeWait THEN "failing" ELSE closing
  /\ pc' = [c \in Calls |-> IF c \in Awaiting(r) THEN "answering" ELSE pc[c]]
  /\ UNCHANGED <<of, lock, runtimes, startup, serveVars, frameVars, idleVars, stopped,
                 processVars>>

Close ==
  /\ closing = "no" /\ closing' = "closing"
  /\ closeWait' = runtimes
  /\ BackgroundStop(runtimes)
  /\ UNCHANGED <<callVars, runtimes, startup, serveVars, frameVars, idleVars,
                 processVars, faults>>

\* close() returns, or raises what a teardown raised.
Closed ==
  /\ closeWait = {}
  /\ \/ closing = "closing" /\ closing' = "closed"
     \/ closing = "failing" /\ closing' = "failed"
  /\ UNCHANGED <<callVars, runtimes, startup, serveVars, frameVars, idleVars, stopVars,
                 closeWait, processVars, faults>>
-----------------------------------------------------------------------------
(* The launcher and the sandbox *)

\* create_subprocess_exec returns.
SpawnEnds(r) ==
  /\ startup[r] = "spawning"
  /\ \/ startup' = [startup EXCEPT ![r] = "spawned"] /\ helper' = helper \cup {r}
     \/ startup' = [startup EXCEPT ![r] = "failed"] /\ UNCHANGED helper
  /\ UNCHANGED <<callVars, runtimes, serveVars, frameVars, idleVars, stopVars,
                 closeVars, group, busy, files, faults>>

\* launch.py enters the cgroup and starts the sandbox.
Launch(r) ==
  /\ r \in helper \ files
  /\ group' = group \cup {r} /\ files' = files \cup {r}
  /\ UNCHANGED <<callVars, runtimes, startup, serveVars, frameVars, idleVars, stopVars,
                 closeVars, helper, busy, faults>>

\* Processes that were left behind end, or everything does, killed or not.
ProcessesEnd(r) ==
  /\ \/ r \in busy /\ UNCHANGED <<helper, group>>
     \/ r \in helper \cup group /\ helper' = helper \ {r} /\ group' = group \ {r}
  /\ busy' = busy \ {r}
  /\ UNCHANGED <<callVars, runtimes, startup, serveVars, frameVars, idleVars, stopVars,
                 closeVars, files, faults>>
-----------------------------------------------------------------------------
GetRuntime(c) ==
  \/ Refuse(c) \/ RefuseStopping(c) \/ Join(c) \/ Evict(c)
  \/ Create(c) \/ CreateFails(c)
  \/ StartSpawned(c) \/ StartReady(c) \/ StartFails(c)
  \/ Answer(c)

StopRuntime(r) == StopClose(r) \/ StopListeners(r) \/ StopKill(r) \/ StopDone(r)

Next ==
  \/ \E c \in Calls : Request(c) \/ StopRequest(c) \/ GetRuntime(c) \/ Finish(c)
  \/ \E r \in Execs :
       \/ ReadReady(r) \/ Heartbeat(r) \/ ReaderEnds(r) \/ Lapse(r)
       \/ Visit(r) \/ VisitEnds(r)
       \/ StopRuntime(r) \/ StopFails(r)
       \/ SpawnEnds(r) \/ Launch(r) \/ ProcessesEnd(r)
  \/ Watch \/ Close \/ Closed

Spec == Init /\ [][Next]_vars

\* The event loop runs every task that can go on; a launch settles; a runtime
\* whose frames are not read any more goes silent; and the calls of a runtime
\* end when the teardown has failed their channels.  What is killed dies.
\* Nothing else is assumed of the sandbox, nor of callers and the commands they
\* run, nor of the clients of the listeners.
ChannelsFailed(r) == r \in stopped /\ stop[r] \notin {"startup", "listeners"}

Fairness ==
  /\ \A c \in Calls : WF_vars(GetRuntime(c))
  /\ \A r \in Execs :
       /\ WF_vars(StopRuntime(r)) /\ WF_vars(SpawnEnds(r))
       /\ WF_vars(Lapse(r) /\ r \notin reader)
       /\ WF_vars(Finish(r) /\ ChannelsFailed(of[r]))
       /\ WF_vars(ProcessesEnd(r) /\ stop[r] = "reap")
  /\ WF_vars(Watch) /\ WF_vars(Closed)

FairSpec == Spec /\ Fairness
=============================================================================
