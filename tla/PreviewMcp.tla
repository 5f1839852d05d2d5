----------------------------- MODULE PreviewMcp -----------------------------
(***************************************************************************)
(* Browser tools in one started runtime: the handler of every MCP request  *)
(* and the frame reader in pkgs/opencode-preview/manager.py, the two       *)
(* pipes, and the supervisor's MCP child (mcp_transport.py), a browser     *)
(* server in a namespace of its own that trusted code waits for.           *)
(*                                                                         *)
(* As in PreviewExec, a manager action is what a task does between two     *)
(* awaits.  A supervisor action is the service of one event or one step of *)
(* refresh().  Frames are <<event, id, detail>>, and <<"ports", "", found>>*)
(***************************************************************************)
EXTENDS Naturals, Sequences, SequencesExt

CONSTANTS
  Calls, None,
  Engines, Default,  \* browser_select chooses one of them
  QueueSize,         \* QUEUE_SIZE
  Chunks             \* bound: the frames of a result

ASSUME McpAssumption ==
  /\ None \notin Calls /\ Default \in Engines
  /\ QueueSize \in Nat \ {0} /\ Chunks \in Nat \ {0}

VARIABLES
  http, result, want,  \* each request: its handler, how it ended, what it asks
  channels, queue,     \* Runtime.channels of kind "mcp", and their queues
  active,              \* Runtime.active_mcp
  hand,                \* the frame read_frames is about to put, or <<>>
  quiet,               \* a heartbeat newer than all activity found no process
  stopped,             \* Runtime.stopped, and why
  lock,                \* the frames that wait for Runtime.write_lock
  toSup, fromSup,      \* the supervisor's standard input and output
  out, barrier,        \* Supervisor.output; how much of it retirement awaits
  id, last, phase,     \* MCPChild.id, last_id and phase
  engine,              \* MCPChild.browser
  retiring, sent,      \* retire_after_result; frames of the result emitted
  child, old,          \* MCPChild.process and retired
  runs,                \* the engine of the process
  home,                \* its private directory exists
  died                 \* why the supervisor has given up, or "no"

callVars == <<http, result, want>>
runtimeVars == <<channels, queue, active, hand>>
pipeVars == <<lock, toSup>>
supVars == <<id, last, phase, engine, retiring, sent>>
childVars == <<child, old, runs, home>>
outVars == <<out, barrier>>
vars == <<callVars, runtimeVars, quiet, stopped, pipeVars, fromSup, outVars, supVars,
          childVars, died>>

Init ==
  /\ http = [c \in Calls |-> "new"] /\ result = [c \in Calls |-> "none"]
  /\ want = [c \in Calls |-> "use"]
  /\ channels = {} /\ queue = [c \in Calls |-> <<>>] /\ active = None /\ hand = <<>>
  /\ quiet = FALSE /\ stopped = "no"
  /\ lock = <<>> /\ toSup = <<>> /\ fromSup = <<>> /\ out = <<>> /\ barrier = 0
  /\ id = None /\ last = None /\ phase = "none" /\ engine = Default
  /\ retiring = FALSE /\ sent = 0
  /\ child = "none" /\ old = "none" /\ runs = Default /\ home = FALSE /\ died = "no"
-----------------------------------------------------------------------------
(* The handler of a request *)

\* Mutant of Admit: an abandoned request does not count.
AdmitByChannel(c) ==
  /\ http[c] = "new" /\ stopped = "no"
  /\ want' \in {[want EXCEPT ![c] = w] : w \in {"use"} \cup Engines}
  /\ IF channels # {}
     THEN /\ http' = [http EXCEPT ![c] = "ended"]
          /\ result' = [result EXCEPT ![c] = "refused"]
          /\ UNCHANGED <<channels, lock, quiet>>
     ELSE /\ http' = [http EXCEPT ![c] = "send"]
          /\ channels' = {c} /\ lock' = Append(lock, <<"mcp", c>>) /\ quiet' = FALSE
          /\ UNCHANGED result
  /\ UNCHANGED <<queue, active, hand, stopped, toSup, fromSup, outVars, supVars, childVars,
                 died>>

\* One request at a time: none has a channel, and the supervisor has ended the
\* last.  The channel is made and the frame queues for the lock in one turn.
Admit(c) ==
  /\ http[c] = "new" /\ stopped = "no"
  /\ want' \in {[want EXCEPT ![c] = w] : w \in {"use"} \cup Engines}
  /\ IF active # None \/ channels # {}
     THEN /\ http' = [http EXCEPT ![c] = "ended"]
          /\ result' = [result EXCEPT ![c] = "refused"]
          /\ UNCHANGED <<channels, lock, quiet>>
     ELSE /\ http' = [http EXCEPT ![c] = "send"]
          /\ channels' = {c} /\ lock' = Append(lock, <<"mcp", c>>) /\ quiet' = FALSE
          /\ UNCHANGED result
  /\ UNCHANGED <<queue, active, hand, stopped, toSup, fromSup, outVars, supVars, childVars,
                 died>>

\* Runtime.send: the first in the lock's queue writes, and an MCP request
\* becomes the active one.
Write ==
  /\ lock # <<>> /\ stopped = "no"
  /\ lock' = Tail(lock) /\ toSup' = Append(toSup, Head(lock))
  /\ IF Head(lock)[1] = "mcp"
     THEN /\ active' = Head(lock)[2] /\ quiet' = FALSE
          /\ http' = [http EXCEPT ![Head(lock)[2]] = "await"]
     ELSE UNCHANGED <<active, quiet, http>>
  /\ hand' = IF Head(lock)[1] = "mcp_cancel" /\ hand = <<"overflow", Head(lock)[2], "">>
             THEN <<>> ELSE hand
  /\ UNCHANGED <<result, want, channels, queue, stopped, fromSup, outVars, supVars,
                 childVars, died>>

\* What waits for the lock but the request of this handler, if it still does.
Withdrawn(c) ==
  LET mine == {k \in 1..Len(lock) : lock[k] = <<"mcp", c>>}
  IN IF mine = {} THEN lock ELSE RemoveAt(lock, CHOOSE k \in mine : TRUE)

\* The finally of a handler; without an answer a cancel queues for the lock.
Finish(c, how, frames) ==
  /\ http' = [http EXCEPT ![c] = "ended"]
  /\ result' = [result EXCEPT ![c] = how]
  /\ channels' = channels \ {c} /\ queue' = [queue EXCEPT ![c] = <<>>]
  /\ lock' = Withdrawn(c) \o frames
  /\ quiet' = FALSE
  /\ UNCHANGED <<want, active, hand, stopped, toSup, fromSup, outVars, supVars, childVars,
                 died>>

\* A stopped runtime takes no more frames.
WriteFails ==
  /\ lock # <<>> /\ stopped # "no"
  /\ IF Head(lock)[1] = "mcp"
     THEN Finish(Head(lock)[2], "failed", <<>>)
     ELSE /\ lock' = Tail(lock)
          /\ UNCHANGED <<callVars, runtimeVars, quiet, stopped, toSup, fromSup, outVars,
                         supVars, childVars, died>>

\* The caller has gone, or MCP_TIMEOUT is over.
GiveUp(c) ==
  /\ http[c] \in {"send", "await"}
  /\ Finish(c, "left", <<<<"mcp_cancel", c>>>>)

TakeData(c) ==
  /\ http[c] = "await" /\ queue[c] # <<>> /\ Head(queue[c])[1] = "mcp_data"
  /\ queue' = [queue EXCEPT ![c] = Tail(@)]
  /\ UNCHANGED <<callVars, channels, active, hand, quiet, stopped, pipeVars, fromSup, outVars,
                 supVars, childVars, died>>

TakeEnd(c) ==
  /\ http[c] = "await" /\ queue[c] # <<>> /\ Head(queue[c])[1] = "mcp_end"
  /\ Finish(c, "ok", <<>>)

TakeError(c) ==
  /\ http[c] = "await" /\ queue[c] # <<>> /\ Head(queue[c])[1] = "error"
  /\ Finish(c, "failed", <<<<"mcp_cancel", c>>>>)
-----------------------------------------------------------------------------
(* The reader, the watcher and the teardown *)

Reads == stopped = "no" /\ hand = <<>> /\ fromSup # <<>>

ReadPorts ==
  /\ Reads /\ Head(fromSup)[1] = "ports"
  /\ fromSup' = Tail(fromSup) /\ quiet' = ~Head(fromSup)[3]
  /\ UNCHANGED <<callVars, runtimeVars, stopped, pipeVars, outVars, supVars, childVars, died>>

\* The end of a request or an error frees the runtime for the next.  The frame
\* is put only after the other tasks have had a turn.
ReadFrame ==
  /\ Reads /\ Head(fromSup)[1] # "ports"
  /\ fromSup' = Tail(fromSup)
  /\ LET frame == Head(fromSup)
     IN /\ IF frame[2] = active /\ frame[1] # "mcp_data"
           THEN active' = None /\ quiet' = FALSE
           ELSE UNCHANGED <<active, quiet>>
        /\ hand' = IF frame[2] \in channels THEN frame ELSE <<>>
  /\ UNCHANGED <<callVars, channels, queue, stopped, pipeVars, outVars, supVars, childVars, died>>

\* The reader goes on when a cancel of its own is sent.
PutFrame ==
  /\ stopped = "no" /\ hand # <<>> /\ hand[1] # "overflow"
  /\ LET c == hand[2]
     IN IF http[c] = "ended"  \* nobody has the queue any more
        THEN hand' = <<>> /\ UNCHANGED <<queue, channels, lock>>
        ELSE IF Len(queue[c]) < QueueSize
        THEN /\ queue' = [queue EXCEPT ![c] = Append(@, hand)] /\ hand' = <<>>
             /\ UNCHANGED <<channels, lock>>
        ELSE /\ channels' = channels \ {c} /\ hand' = <<"overflow", c, "">>
             /\ queue' = [queue EXCEPT ![c] = <<<<"error", c, "overflow">>>>]
             /\ lock' = Append(lock, <<"mcp_cancel", c>>)
  /\ UNCHANGED <<callVars, active, quiet, stopped, toSup, fromSup, outVars, supVars, childVars,
                 died>>

\* Manager._idle holds for the time-out: the watcher stops the runtime.
Retire ==
  /\ stopped = "no" /\ quiet /\ active = None /\ channels = {}
  /\ stopped' = "idle"
  /\ UNCHANGED <<callVars, runtimeVars, quiet, pipeVars, fromSup, outVars, supVars, childVars,
                 died>>

\* The supervisor is gone and its output read; or any other reason to stop.
Stop ==
  /\ stopped = "no" /\ stopped' = "other"
  /\ UNCHANGED <<callVars, runtimeVars, quiet, pipeVars, fromSup, outVars, supVars, childVars,
                 died>>

\* _stop_runtime: requests get an error, everything is killed, what a browser
\* has left in the session's directory is removed.
Teardown ==
  /\ stopped \in {"idle", "other"} /\ stopped' = "done"
  /\ queue' = [c \in Calls |-> IF c \in channels THEN <<<<"error", c, "stopped">>>> ELSE queue[c]]
  /\ hand' = <<>> /\ toSup' = <<>> /\ fromSup' = <<>> /\ out' = <<>> /\ barrier' = 0
  /\ id' = None /\ last' = None /\ phase' = "none" /\ retiring' = FALSE /\ sent' = 0
  /\ child' = "none" /\ old' = "none" /\ home' = FALSE
  /\ UNCHANGED <<callVars, channels, active, quiet, lock, engine, runs, died>>
-----------------------------------------------------------------------------
(* The supervisor: requests *)

Alive == stopped # "done" /\ died = "no"

Emit(frames) == out' = out \o frames /\ UNCHANGED barrier

Receives(op, c) ==
  /\ Alive /\ toSup # <<>> /\ Head(toSup) = <<op, c>> /\ toSup' = Tail(toSup)
  /\ UNCHANGED <<callVars, runtimeVars, quiet, stopped, lock, fromSup, died>>

\* The engine once a request is taken up.
Selected(c) == IF want[c] \in Engines THEN want[c] ELSE engine

\* start() with nothing there: a selection is answered without a browser.
Launch(c) ==
  /\ sent' = 0 /\ retiring' = FALSE /\ UNCHANGED <<old, barrier>>
  /\ \/ /\ want[c] \in Engines
        /\ id' = c /\ last' = c /\ phase' = "result"
        /\ UNCHANGED <<out, child, runs, home>>
     \/ /\ want[c] \notin Engines
        /\ id' = c /\ last' = c /\ phase' = "call"
        /\ child' = "live" /\ runs' = engine' /\ home' = TRUE
        /\ UNCHANGED out
     \/ /\ want[c] \notin Engines
        /\ id' = None /\ last' = None /\ phase' = "none"
        /\ out' = Append(out, <<"error", c, "startup failed">>)
        /\ home' \in BOOLEAN /\ UNCHANGED <<child, runs>>

CallStarts(c) ==
  /\ Receives("mcp", c) /\ id = None
  /\ child = "none" /\ old = "none" /\ ~home
  /\ engine' = Selected(c) /\ Launch(c)

\* One request is served at a time.  When the browser is there the request is
\* forwarded, a selection of what is selected answered.
CallForwards(c) ==
  /\ Receives("mcp", c)
  /\ id # None \/ (child # "none" /\ Selected(c) = engine)
  /\ IF id # None
     THEN Emit(<<<<"error", c, "busy">>>>) /\ UNCHANGED supVars
     ELSE /\ id' = c /\ last' = c /\ sent' = 0
          /\ phase' = IF want[c] \in Engines THEN "result" ELSE "call"
          /\ UNCHANGED <<engine, retiring, outVars>>
  /\ UNCHANGED childVars

\* Another engine retires the browser.  While one is retired, or its directory
\* is there, requests wait for refresh().
CallWaits(c) ==
  /\ Receives("mcp", c) /\ id = None
  /\ IF child = "none" THEN old # "none" \/ home ELSE Selected(c) # engine
  /\ child' = "none" /\ old' = IF child = "none" THEN old ELSE child
  /\ id' = c /\ last' = c /\ engine' = Selected(c)
  /\ phase' = "wait" /\ sent' = 0 /\ retiring' = FALSE
  /\ UNCHANGED <<runs, home, outVars>>

\* reset(): the process is told to end, and who asked gets an error.
Reset(why) ==
  /\ child' = "none" /\ old' = IF child = "none" THEN old ELSE child
  /\ Emit(IF id = None THEN <<>> ELSE <<<<"error", id, why>>>>)
  /\ id' = None /\ last' = None /\ phase' = "none" /\ retiring' = FALSE /\ sent' = 0
  /\ UNCHANGED <<engine, runs, home>>

\* Mutant of Cancel: whatever is being done is cancelled.
CancelAny(c) == Receives("mcp_cancel", c) /\ Reset("cancelled")

\* A late cancel still retires the browser its request has used, unless
\* another request has come since.
Cancel(c) ==
  /\ Receives("mcp_cancel", c)
  /\ IF c = last THEN Reset("cancelled") ELSE UNCHANGED <<supVars, childVars, outVars>>
-----------------------------------------------------------------------------
(* The supervisor: the browser and refresh() *)

Refreshes ==
  Alive /\ UNCHANGED <<callVars, runtimeVars, quiet, stopped, pipeVars, fromSup, died>>

\* message(): the answer.  That of a close, of the last tab's close and of an
\* error retires the browser afterwards.
ChildAnswers ==
  /\ Refreshes /\ child # "none" /\ phase = "call"
  /\ phase' = "result" /\ sent' = 0 /\ retiring' \in BOOLEAN
  /\ UNCHANGED <<id, last, engine, childVars, outVars>>

\* service(): its output ends or is not valid.
ChildFails ==
  /\ Refreshes /\ child # "none" /\ phase # "result"
  /\ Reset("failed")

NoticeExit ==
  /\ Refreshes /\ child \in {"exited", "killed"} /\ phase # "result"
  /\ Reset("exited")

TimeOut == Refreshes /\ id # None /\ Reset("timed out")

StartWaiting ==
  /\ Refreshes /\ phase = "wait" /\ child = "none" /\ old = "none" /\ ~home
  /\ UNCHANGED engine /\ Launch(id)

EmitData ==
  /\ Refreshes /\ phase = "result" /\ sent + 1 < Chunks
  /\ sent' = sent + 1 /\ Emit(<<<<"mcp_data", id, "">>>>)
  /\ UNCHANGED <<id, last, phase, engine, retiring, childVars>>

LastFrames ==
  <<<<"mcp_data", id, "">>, <<"mcp_end", id, IF retiring THEN "retired" ELSE "">>>>

\* Mutant of EmitEnd: retirement does not wait for the answer to be written.
EmitEndUnguarded ==
  /\ Refreshes /\ phase = "result" /\ sent + 1 = Chunks
  /\ Emit(LastFrames) /\ id' = None /\ sent' = 0 /\ retiring' = FALSE
  /\ IF retiring
     THEN /\ child' = "none" /\ old' = child
          /\ last' = None /\ phase' = "none"
     ELSE phase' = "ready" /\ UNCHANGED <<child, old, last>>
  /\ UNCHANGED <<engine, runs, home>>

\* The last data, the end, and retirement: it awaits that all this is written.
EmitEnd ==
  /\ Refreshes /\ phase = "result" /\ sent + 1 = Chunks
  /\ out' = out \o LastFrames
  /\ id' = None /\ sent' = 0 /\ retiring' = FALSE
  /\ IF retiring
     THEN /\ child' = "none" /\ old' = child
          /\ last' = None /\ phase' = "none" /\ barrier' = Len(out')
     ELSE phase' = "ready" /\ UNCHANGED <<child, old, last, barrier>>
  /\ UNCHANGED <<engine, runs, home>>

\* reap(): the namespace is empty, and its directory is removed.
Reap ==
  /\ Refreshes /\ barrier = 0
  /\ child = "none" /\ old \in {"none", "exited"} /\ (home \/ old # "none")
  /\ old' = "none" /\ home' = FALSE
  /\ UNCHANGED <<child, runs, supVars, outVars>>

\* Otherwise it is given up, and the supervisor with it: the answer cannot be
\* written, the namespace stays or may stay, the directory cannot be removed.
ReapFails(why) ==
  /\ Alive /\ died' = why
  /\ \/ why = "flush" /\ barrier > 0
     \/ why = "teardown" /\ barrier = 0 /\ old = "live"
     \/ why = "unconfirmed" /\ barrier = 0 /\ old = "killed"
     \/ why = "home" /\ barrier = 0 /\ child = "none" /\ old \in {"none", "exited"} /\ home
  /\ UNCHANGED <<callVars, runtimeVars, quiet, stopped, pipeVars, fromSup, outVars, supVars,
                 childVars>>

Flush ==
  /\ Alive /\ out # <<>>
  /\ fromSup' = Append(fromSup, Head(out)) /\ out' = Tail(out)
  /\ barrier' = IF barrier > 0 THEN barrier - 1 ELSE 0
  /\ UNCHANGED <<callVars, runtimeVars, quiet, stopped, pipeVars, supVars, childVars, died>>

Populated == {child, old} \cap {"live", "killed"} # {}

\* The heartbeat.  Bound: one at a time is on its way.
ReportPorts ==
  /\ Refreshes
  /\ \A f \in ToSet(out \o fromSup) : f[1] # "ports"
  /\ Emit(<<<<"ports", "", Populated>>>>)
  /\ UNCHANGED <<supVars, childVars>>

\* The waiter ends when its namespace is empty, or is killed before.
ChildEnds ==
  /\ stopped # "done"
  /\ \E how \in {"exited", "killed"} :
       \/ child = "live" /\ child' = how /\ UNCHANGED old
       \/ old = "live" /\ old' = how /\ UNCHANGED child
  /\ UNCHANGED <<callVars, runtimeVars, quiet, stopped, pipeVars, fromSup, outVars, supVars,
                 runs, home, died>>
-----------------------------------------------------------------------------
Handler(c) == TakeData(c) \/ TakeEnd(c) \/ TakeError(c)

Requests(c) ==
  CallStarts(c) \/ CallForwards(c) \/ CallWaits(c) \/ Cancel(c)

Refresh == NoticeExit \/ StartWaiting \/ EmitData \/ EmitEnd \/ Reap

Causes == {"flush", "teardown", "unconfirmed", "home"}

Next ==
  \/ \E c \in Calls : Admit(c) \/ GiveUp(c) \/ Handler(c) \/ Requests(c)
  \/ Write \/ WriteFails \/ ReadPorts \/ ReadFrame \/ PutFrame
  \/ Retire \/ Stop \/ Teardown
  \/ ChildAnswers \/ ChildFails \/ TimeOut \/ Refresh \/ ChildEnds
  \/ \E why \in Causes : ReapFails(why)
  \/ Flush \/ ReportPorts

Spec == Init /\ [][Next]_vars
=============================================================================
