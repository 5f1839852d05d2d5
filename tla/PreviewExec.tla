---------------------------- MODULE PreviewExec -----------------------------
(***************************************************************************)
(* Shell calls in one started runtime: the handler of every call and the   *)
(* frame reader in pkgs/opencode-preview/manager.py, the supervisor inside *)
(* the sandbox (supervisor.py), and the two pipes between them.            *)
(*                                                                         *)
(* The manager is an event loop: its actions are what a task does between  *)
(* two awaits.  The supervisor is a loop of its own, which the manager     *)
(* knows only by the frames it has read.  Frames are <<event, call>>, and  *)
(* <<"ports", some>>, whether the supervisor counts processes or ports.    *)
(* Time-outs of the response and of the pipe are calls that leave.         *)
(***************************************************************************)
EXTENDS Naturals, Sequences, FiniteSets

CONSTANTS
  Calls,
  MaxExecs,     \* config.max_execs
  QueueSize,    \* QUEUE_SIZE
  PipeSize,     \* how much the pipes of a command hold
  MaxChunks     \* bound: how much each command writes until its exit is noticed;
                \* after that it may write for ever, if it writes at all

ASSUME ExecAssumption ==
  /\ IsFiniteSet(Calls)
  /\ MaxExecs \in Nat \ {0} /\ QueueSize \in Nat \ {0, 1}
  /\ PipeSize \in Nat \ {0} /\ MaxChunks \in [Calls -> Nat]

VARIABLES
  http,      \* where the handler of each call is
  result,    \* how it ended
  got,       \* the output its caller has
  channels,  \* Runtime.channels
  queue,     \* the queue of each channel
  active,    \* Runtime.active_execs
  hand,      \* the frame read_frames is about to put, or <<>>
  fresh,     \* last_heartbeat > last_exec_activity
  counted,   \* the last heartbeat found processes or ports
  idle,      \* idle_since is set
  stopped,   \* Runtime.stopped and why, later how far the teardown is
  toSup, fromSup, \* the supervisor's standard input and output
  commands,  \* Supervisor.commands
  credits,   \* Command.credits
  discard,   \* Command.discard
  kills,     \* Supervisor.kills
  exited,    \* the commands with an exitcode
  remaining, \* Pipe.remaining: what was in the pipes then, and is still to be read
  buf,       \* output in the pipes of a command
  running,   \* the commands whose process runs
  children,  \* the commands that have left processes behind
  made       \* the output of a command before its exit was noticed

handlerVars == <<http, result, got>>
runtimeVars == <<channels, queue, active, hand>>
idleVars    == <<fresh, counted, idle>>
supVars     == <<commands, credits, discard, kills, exited, remaining>>
workVars    == <<running, children, made>>
vars == <<handlerVars, runtimeVars, idleVars, stopped, toSup, fromSup, supVars, buf, workVars>>

Init ==
  /\ http = [c \in Calls |-> "new"] /\ result = [c \in Calls |-> "none"]
  /\ got = [c \in Calls |-> 0]
  /\ channels = {} /\ queue = [c \in Calls |-> <<>>] /\ active = {} /\ hand = <<>>
  /\ fresh = FALSE /\ counted = TRUE /\ idle = FALSE /\ stopped = "no"
  /\ toSup = <<>> /\ fromSup = <<>>
  /\ commands = {} /\ credits = [c \in Calls |-> 0] /\ discard = {} /\ kills = {}
  /\ exited = {} /\ remaining = [c \in Calls |-> 0]
  /\ buf = [c \in Calls |-> 0]
  /\ running = {} /\ children = {} /\ made = [c \in Calls |-> 0]
-----------------------------------------------------------------------------
(* The handler of a call *)

\* Runtime.send: a stopped runtime raises, so the caller must look first.
Send(frame) == toSup' = Append(toSup, frame)

\* Mutant of Activity: what the last heartbeat found is kept.
ActivityUnnoticed == UNCHANGED idleVars

\* A call begins or ends, or its last frame is read.
Activity == fresh' = FALSE /\ idle' = FALSE /\ UNCHANGED counted

\* Calls with a channel and calls that still run share the slots.
Admit(c) ==
  /\ http[c] = "new" /\ stopped = "no"
  /\ IF Cardinality(active \cup channels) >= MaxExecs
     THEN /\ http' = [http EXCEPT ![c] = "ended"]
          /\ result' = [result EXCEPT ![c] = "refused"]
          /\ UNCHANGED <<channels, idleVars>>
     ELSE /\ http' = [http EXCEPT ![c] = "prepare"]
          /\ channels' = channels \cup {c}
          /\ Activity
          /\ UNCHANGED result
  /\ UNCHANGED <<got, queue, active, hand, stopped, toSup, fromSup, supVars, buf, workVars>>

\* The response is prepared: send the command.
SendExec(c) ==
  /\ http[c] = "prepare" /\ stopped = "no"
  /\ http' = [http EXCEPT ![c] = "await"]
  /\ active' = active \cup {c}
  /\ Send(<<"exec", c>>)
  /\ Activity
  /\ UNCHANGED <<result, got, channels, queue, hand, stopped, fromSup, supVars, buf, workVars>>

\* The finally of a call that has not seen its exit; the cancel is yet to send.
Quit(c, why) ==
  /\ http' = [http EXCEPT ![c] = "cancel"]
  /\ result' = [result EXCEPT ![c] = why]
  /\ channels' = channels \ {c}
  /\ queue' = [queue EXCEPT ![c] = <<>>]
  /\ Activity

\* The caller disconnects, or sending or writing to it fails.
Leave(c) ==
  /\ http[c] \in {"prepare", "await", "written"}
  /\ Quit(c, "left")
  /\ UNCHANGED <<got, active, hand, stopped, toSup, fromSup, supVars, buf, workVars>>

TakeData(c) ==
  /\ http[c] = "await" /\ queue[c] # <<>> /\ Head(queue[c])[1] = "data"
  /\ http' = [http EXCEPT ![c] = "written"]
  /\ got' = [got EXCEPT ![c] = @ + 1]
  /\ queue' = [queue EXCEPT ![c] = Tail(@)]
  /\ UNCHANGED <<result, channels, active, hand, idleVars, stopped, toSup, fromSup,
                 supVars, buf, workVars>>

\* The data is written.  A call that is active returns a credit; it may have
\* ended since the handler has looked, while other frames were being sent.
SendCredit(c) ==
  /\ http[c] = "written" /\ stopped = "no"
  /\ http' = [http EXCEPT ![c] = "await"]
  /\ \/ Send(<<"credit", c>>)
     \/ c \notin active /\ UNCHANGED toSup
  /\ UNCHANGED <<result, got, runtimeVars, idleVars, stopped, fromSup, supVars, buf, workVars>>

TakeExit(c) ==
  /\ http[c] = "await" /\ queue[c] # <<>> /\ Head(queue[c])[1] = "exit"
  /\ http' = [http EXCEPT ![c] = "ended"]
  /\ result' = [result EXCEPT ![c] = "exit"]
  /\ channels' = channels \ {c}
  /\ queue' = [queue EXCEPT ![c] = <<>>]
  /\ Activity
  /\ UNCHANGED <<got, active, hand, stopped, toSup, fromSup, supVars, buf, workVars>>

TakeError(c) ==
  /\ http[c] = "await" /\ queue[c] # <<>> /\ Head(queue[c])[1] = "error"
  /\ Quit(c, "error")
  /\ UNCHANGED <<got, active, hand, stopped, toSup, fromSup, supVars, buf, workVars>>

SendCancel(c) ==
  /\ http[c] = "cancel"
  /\ http' = [http EXCEPT ![c] = "ended"]
  /\ IF stopped = "no" THEN Send(<<"cancel", c>>) ELSE UNCHANGED toSup
  /\ UNCHANGED <<result, got, runtimeVars, idleVars, stopped, fromSup, supVars, buf, workVars>>
-----------------------------------------------------------------------------
(* The reader, the watcher and the teardown *)

\* Manager._idle; the watcher's own conditions on ports and age are left out.
IsIdle ==
  stopped = "no" /\ active = {} /\ channels = {} /\ ~counted /\ fresh

Reads == stopped = "no" /\ hand = <<>> /\ fromSup # <<>>

ReadPorts ==
  /\ Reads /\ Head(fromSup)[1] = "ports"
  /\ fromSup' = Tail(fromSup)
  /\ counted' = Head(fromSup)[2] /\ fresh' = TRUE
  /\ idle' = (active = {} /\ channels = {} /\ ~counted')
  /\ UNCHANGED <<handlerVars, runtimeVars, stopped, toSup, supVars, buf, workVars>>

\* An exit or an error frees the slot, whether or not the caller is there.
\* The frame is put only after the other tasks have had a turn.
ReadFrame ==
  /\ Reads /\ Head(fromSup)[1] # "ports"
  /\ fromSup' = Tail(fromSup)
  /\ LET kind == Head(fromSup)[1]
         c    == Head(fromSup)[2]
     IN /\ IF kind \in {"exit", "error"} /\ c \in active
           THEN active' = active \ {c} /\ Activity
           ELSE UNCHANGED <<active, idleVars>>
        /\ hand' = IF c \in channels THEN <<kind, c>> ELSE <<>>
  /\ UNCHANGED <<handlerVars, channels, queue, stopped, toSup, supVars, buf, workVars>>

PutFrame ==
  /\ stopped = "no" /\ hand # <<>>
  /\ hand' = <<>>
  /\ LET c == hand[2]
     IN IF http[c] \in {"cancel", "ended"}
        THEN UNCHANGED <<queue, channels, toSup>>  \* nobody has the queue any more
        ELSE IF Len(queue[c]) < QueueSize
        THEN /\ queue' = [queue EXCEPT ![c] = Append(@, hand)]
             /\ UNCHANGED <<channels, toSup>>
        ELSE /\ channels' = channels \ {c}
             /\ queue' = [queue EXCEPT ![c] = <<<<"error", c>>>>]
             /\ Send(<<"cancel", c>>)
  /\ UNCHANGED <<handlerVars, active, idleVars, stopped, fromSup, supVars, buf, workVars>>

\* The watcher stops a runtime that has been idle for the time-out.
Retire ==
  /\ idle /\ IsIdle
  /\ stopped' = "idle"
  /\ UNCHANGED <<handlerVars, runtimeVars, idleVars, toSup, fromSup, supVars, buf, workVars>>

\* It is stopped for any other reason: see PreviewManager.
Stop ==
  /\ stopped = "no" /\ stopped' = "other"
  /\ UNCHANGED <<handlerVars, runtimeVars, idleVars, toSup, fromSup, supVars, buf, workVars>>

\* _stop_runtime: the reader is cancelled, the listeners are closed, and when the
\* clients of every listener have left, which may be never, the channels get an
\* error.
FailChannels ==
  /\ stopped \in {"idle", "other"} /\ stopped' = "failed"
  /\ queue' = [c \in Calls |-> IF c \in channels THEN <<<<"error", c>>>> ELSE queue[c]]
  /\ hand' = <<>>
  /\ UNCHANGED <<handlerVars, channels, active, idleVars, toSup, fromSup, supVars, buf,
                 workVars>>

\* Then everything is killed.
KillAll ==
  /\ stopped = "failed" /\ stopped' = "done"
  /\ toSup' = <<>> /\ fromSup' = <<>>
  /\ commands' = {} /\ credits' = [c \in Calls |-> 0] /\ discard' = {} /\ kills' = {}
  /\ exited' = {} /\ remaining' = [c \in Calls |-> 0]
  /\ buf' = [c \in Calls |-> 0] /\ running' = {} /\ children' = {}
  /\ UNCHANGED <<handlerVars, runtimeVars, idleVars, made>>
-----------------------------------------------------------------------------
(* The supervisor *)

Alive == stopped # "done"

Emit(frame) == fromSup' = Append(fromSup, frame)

Receives(op) == Alive /\ toSup # <<>> /\ Head(toSup)[1] = op /\ toSup' = Tail(toSup)

SupExec ==
  /\ Receives("exec")
  /\ LET c == Head(toSup)[2]
     IN \/ /\ Cardinality(commands) < MaxExecs /\ c \notin commands \cup kills
           /\ commands' = commands \cup {c} /\ running' = running \cup {c}
           /\ credits' = [credits EXCEPT ![c] = QueueSize - 1]
           /\ UNCHANGED fromSup
        \/ \* the limit, an id in use, or the process cannot be started
           /\ Emit(<<"error", c>>)
           /\ UNCHANGED <<commands, running, credits>>
  /\ UNCHANGED <<handlerVars, runtimeVars, idleVars, stopped, discard, kills, exited,
                 remaining, buf, children, made>>

\* The last credit can arrive after the exit; one too many is an error.
SupCredit ==
  /\ Receives("credit")
  /\ LET c == Head(toSup)[2]
     IN IF c \in commands /\ credits[c] < QueueSize - 1
        THEN credits' = [credits EXCEPT ![c] = @ + 1] /\ UNCHANGED fromSup
        ELSE /\ IF c \in commands THEN Emit(<<"error", c>>) ELSE UNCHANGED fromSup
             /\ UNCHANGED credits
  /\ UNCHANGED <<handlerVars, runtimeVars, idleVars, stopped, commands, discard, kills,
                 exited, remaining, buf, workVars>>

\* SIGTERM for the process group, and SIGKILL when two seconds are over.
SupCancel ==
  /\ Receives("cancel")
  /\ LET c == Head(toSup)[2]
     IN IF c \in commands
        THEN discard' = discard \cup {c} /\ kills' = kills \cup {c} /\ UNCHANGED fromSup
        ELSE Emit(<<"error", c>>) /\ UNCHANGED <<discard, kills>>
  /\ UNCHANGED <<handlerVars, runtimeVars, idleVars, stopped, commands, credits, exited,
                 remaining, buf, workVars>>

\* What has left the process group survives.
Kill(c) ==
  /\ Alive /\ c \in kills
  /\ kills' = kills \ {c}
  /\ running' = running \ {c}
  /\ children' \in {children \ {c}, children \cup ({c} \cap (running \cup children))}
  /\ UNCHANGED <<handlerVars, runtimeVars, idleVars, stopped, toSup, fromSup, commands,
                 credits, discard, exited, remaining, buf, made>>

\* poll_commands: the process has ended, and FIONREAD tells what it has left in
\* the pipes.
PollExit(c) ==
  /\ Alive /\ c \in commands \ (running \cup exited)
  /\ exited' = exited \cup {c}
  /\ remaining' = [remaining EXCEPT ![c] = buf[c]]
  /\ UNCHANGED <<handlerVars, runtimeVars, idleVars, stopped, toSup, fromSup, commands,
                 credits, discard, kills, buf, workVars>>

\* Mutant of Queued: all that is in the pipes, when it is read.
QueuedNow(c) == buf[c]

\* What is to be read of a command: nothing that is written after its exit.
Queued(c) == IF c \in exited THEN remaining[c] ELSE buf[c]

\* read_pipe: forward output against a credit, or discard it.
ReadPipe(c) ==
  /\ Alive /\ c \in commands /\ Queued(c) > 0
  /\ buf' = [buf EXCEPT ![c] = @ - 1]
  /\ remaining' = [remaining EXCEPT ![c] = IF c \in exited THEN Queued(c) - 1 ELSE @]
  /\ IF c \in discard
     THEN UNCHANGED <<fromSup, credits>>
     ELSE /\ credits[c] > 0 /\ credits' = [credits EXCEPT ![c] = @ - 1]
          /\ Emit(<<"data", c>>)
  /\ UNCHANGED <<handlerVars, runtimeVars, idleVars, stopped, toSup, commands, discard,
                 kills, exited, workVars>>

\* Mutant of ReportExit: output that is still in the pipes is not waited for.
ReportExitAtOnce(c) ==
  /\ Alive /\ c \in exited \ kills
  /\ commands' = commands \ {c} /\ exited' = exited \ {c}
  /\ remaining' = [remaining EXCEPT ![c] = 0] /\ buf' = [buf EXCEPT ![c] = 0]
  /\ credits' = [credits EXCEPT ![c] = 0] /\ discard' = discard \ {c}
  /\ Emit(<<"exit", c>>)
  /\ UNCHANGED <<handlerVars, runtimeVars, idleVars, stopped, toSup, kills, workVars>>

\* poll_commands: what the process has left is read, and no kill is due.  From
\* here on the pipes are read into nothing.
ReportExit(c) ==
  /\ Alive /\ c \in exited \ kills /\ Queued(c) = 0
  /\ commands' = commands \ {c} /\ exited' = exited \ {c}
  /\ remaining' = [remaining EXCEPT ![c] = 0] /\ buf' = [buf EXCEPT ![c] = 0]
  /\ credits' = [credits EXCEPT ![c] = 0] /\ discard' = discard \ {c}
  /\ Emit(<<"exit", c>>)
  /\ UNCHANGED <<handlerVars, runtimeVars, idleVars, stopped, toSup, kills, workVars>>

\* The heartbeat.  Bound: one at a time is in the pipe.
ReportPorts ==
  /\ Alive /\ \A i \in 1..Len(fromSup) : fromSup[i][1] # "ports"
  /\ Emit(<<"ports", running \cup children # {}>>)
  /\ UNCHANGED <<handlerVars, runtimeVars, idleVars, stopped, toSup, supVars, buf, workVars>>
-----------------------------------------------------------------------------
(* The commands *)

\* The process writes, or what it has left behind, which may go on for ever when
\* the exit has been noticed.
Write(c) ==
  /\ c \in commands \cap (running \cup children) /\ buf[c] < PipeSize
  /\ buf' = [buf EXCEPT ![c] = @ + 1]
  /\ IF c \notin exited
     THEN made[c] < MaxChunks[c] /\ made' = [made EXCEPT ![c] = @ + 1]
     ELSE MaxChunks[c] > 0 /\ UNCHANGED made
  /\ UNCHANGED <<handlerVars, runtimeVars, idleVars, stopped, toSup, fromSup, supVars,
                 running, children>>

\* The process ends by itself, and may leave others behind.
End(c) ==
  /\ c \in running /\ running' = running \ {c}
  /\ children' \in {children, children \cup {c}}
  /\ UNCHANGED <<handlerVars, runtimeVars, idleVars, stopped, toSup, fromSup, supVars,
                 buf, made>>

ChildrenEnd(c) ==
  /\ c \in children /\ children' = children \ {c}
  /\ UNCHANGED <<handlerVars, runtimeVars, idleVars, stopped, toSup, fromSup, supVars,
                 buf, running, made>>
-----------------------------------------------------------------------------
Handler(c) ==
  SendExec(c) \/ TakeData(c) \/ SendCredit(c) \/ TakeExit(c) \/ TakeError(c) \/ SendCancel(c)

Supervisor ==
  \/ SupExec \/ SupCredit \/ SupCancel
  \/ \E c \in Calls : Kill(c) \/ PollExit(c) \/ ReadPipe(c) \/ ReportExit(c)

Next ==
  \/ \E c \in Calls : Admit(c) \/ Handler(c) \/ Leave(c)
  \/ ReadPorts \/ ReadFrame \/ PutFrame
  \/ Retire \/ Stop \/ FailChannels \/ KillAll
  \/ Supervisor \/ ReportPorts
  \/ \E c \in Calls : Write(c) \/ End(c) \/ ChildrenEnd(c)

Spec == Init /\ [][Next]_vars

\* A heartbeat is handled, or the runtime is stopped: while the reader waits for
\* the clients of a listener that the heartbeat closes, the watcher hears nothing
\* and gives up after five seconds (PreviewPorts has the details).
Heard == ReadPorts \/ (Stop /\ fromSup # <<>> /\ Head(fromSup)[1] = "ports")

\* The event loop runs the tasks that can go on, a send to a stopped runtime
\* fails, and the supervisor's loop serves its input, its deadlines and every
\* command.  Nothing is assumed of callers, commands, the clients of listeners,
\* and so of the teardown.
Fairness ==
  /\ \A c \in Calls :
       /\ WF_vars(Handler(c))
       /\ WF_vars(Leave(c) /\ stopped # "no" /\ http[c] \in {"prepare", "written"})
       /\ WF_vars(Kill(c)) /\ WF_vars(PollExit(c)) /\ WF_vars(ReadPipe(c))
       /\ WF_vars(ReportExit(c))
  /\ WF_vars(Heard) /\ WF_vars(ReadFrame) /\ WF_vars(PutFrame)
  /\ WF_vars(SupExec) /\ WF_vars(SupCredit) /\ WF_vars(SupCancel)

FairSpec == Spec /\ Fairness
=============================================================================
