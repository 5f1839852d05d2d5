------------------------ MODULE PreviewExecProperties -----------------------
(***************************************************************************)
(* What the manager and the supervisor promise to shell calls.             *)
(***************************************************************************)
EXTENDS PreviewExec

InFlight == {c \in Calls : \E i \in 1..Len(toSup) : toSup[i] = <<"exec", c>>}

\* A caller that is given an exit status was given all output before it: what was
\* written, by the process and what it left behind, when its exit was noticed.
OutputBeforeExit == \A c \in Calls : result[c] = "exit" => got[c] = made[c]

\* A runtime that is stopped because it is idle is: nothing runs in it, and no
\* command is on its way, whatever the heartbeat that said so had overtaken.
IdleIsEmpty ==
  stopped = "idle" => commands \cup running \cup children \cup InFlight = {}

\* "Disconnected calls keep their slots until the supervisor confirms
\* termination" (manager.py:224), and it does: the slot of a call that has
\* ended, although nobody returns its credits any more, and that of a call whose
\* process has, although what it left behind goes on writing, comes back, or the
\* runtime is stopped.  And a call that has no slot any more ends, and one that a
\* stopped runtime leaves, as soon as the teardown has come to the channels.
SlotsReturn ==
  \A c \in Calls :
    /\ c \in active /\ (http[c] = "ended" \/ c \in commands \ running)
         ~> c \notin active \/ stopped # "no"
    /\ \/ c \notin active /\ http[c] \in {"await", "written", "cancel"}
       \/ stopped \in {"failed", "done"} /\ http[c] # "new"
         ~> http[c] = "ended" \/ stopped \in {"idle", "other"}
=============================================================================
