--------------------------- MODULE PreviewFrontend --------------------------
(***************************************************************************)
(* The stdio proxy that gives an agent the browser tools                   *)
(* (pkgs/opencode-preview/mcp_frontend.py): one task reads requests, one   *)
(* task per tool call asks the manager and answers, and all of them share  *)
(* the output.  An action is what a task does between two awaits.          *)
(***************************************************************************)
EXTENDS Naturals, Sequences, SequencesExt, FiniteSets

CONSTANTS
  Ids, Reader, Nobody,
  MaxConcurrent,  \* MAX_CONCURRENT
  MaxAsked        \* bound: how often the agent uses an id

ASSUME FrontendAssumption ==
  /\ IsFiniteSet(Ids) /\ {Reader, Nobody, "read", "failed"} \cap Ids = {} /\ Reader # Nobody
  /\ MaxConcurrent \in Nat /\ MaxAsked \in Nat

VARIABLES
  run,        \* Frontend.run: "on", "ending" or "over"
  stopping,    \* the event that ends it
  reader,     \* consume(): it reads, or sends an answer of its own, or has ended
  pending,    \* Frontend.pending
  task,       \* the task of each id
  cancelled,  \* the ids whose task is cancelled
  waiting,    \* who waits for output_lock, in order
  holder,     \* who has it
  asked, answered  \* how often an id was read, and answered

taskVars == <<pending, task, cancelled>>
lockVars == <<waiting, holder>>
frontendVars == <<run, stopping, reader, taskVars, lockVars, asked, answered>>

FrontendInit ==
  /\ run = "on" /\ stopping = FALSE /\ reader = "read"
  /\ pending = {} /\ task = [i \in Ids |-> "none"] /\ cancelled = {}
  /\ waiting = <<>> /\ holder = Nobody
  /\ asked = [i \in Ids |-> 0] /\ answered = [i \in Ids |-> 0]
-----------------------------------------------------------------------------
(* consume() and accept() *)

Consumes(i) == run = "on" /\ reader = "read" /\ asked[i] < MaxAsked

\* An answer that needs no manager: the reader itself sends it.
AnswerDirectly(i) ==
  /\ reader' = i /\ waiting' = Append(waiting, Reader)
  /\ asked' = [asked EXCEPT ![i] = @ + 1]
  /\ UNCHANGED <<run, stopping, taskVars, holder, answered>>

\* An id that is outstanding ends the connection: it could be answered twice.
Duplicate(i) ==
  /\ Consumes(i) /\ i \in pending
  /\ reader' = "failed"
  /\ UNCHANGED <<run, stopping, taskVars, lockVars, asked, answered>>

\* A tool call gets a task, or is told that the frontend is busy.
ReadCall(i) ==
  /\ Consumes(i) /\ i \notin pending
  /\ IF Cardinality(pending) >= MaxConcurrent
     THEN AnswerDirectly(i)
     ELSE /\ pending' = pending \cup {i} /\ task' = [task EXCEPT ![i] = "http"]
          /\ asked' = [asked EXCEPT ![i] = @ + 1]
          /\ UNCHANGED <<run, stopping, reader, cancelled, lockVars, answered>>

\* initialize, ping, the list of tools, and what is not valid.
ReadOther(i) == Consumes(i) /\ i \notin pending /\ AnswerDirectly(i)

ReadCancel(i) ==
  /\ run = "on" /\ reader = "read" /\ i \in pending
  /\ cancelled' = cancelled \cup {i}
  /\ UNCHANGED <<run, stopping, reader, pending, task, lockVars, asked, answered>>

\* The agent ends its output, or sends a line that is too long.
ReadEnd ==
  /\ run = "on" /\ reader = "read" /\ reader' = "failed"
  /\ UNCHANGED <<run, stopping, taskVars, lockVars, asked, answered>>
-----------------------------------------------------------------------------
(* perform(), send() and finished() *)

\* The manager has answered, or the request has failed or taken HTTP_TIMEOUT.
Answered(i) ==
  /\ task[i] = "http" /\ i \notin cancelled
  /\ task' = [task EXCEPT ![i] = "send"] /\ waiting' = Append(waiting, i)
  /\ UNCHANGED <<run, stopping, reader, pending, cancelled, holder, asked, answered>>

\* The first who waits gets the lock, and its answer is in the output.
Output ==
  /\ holder = Nobody /\ waiting # <<>> /\ Head(waiting) \notin cancelled
  /\ holder' = Head(waiting) /\ waiting' = Tail(waiting)
  /\ LET i == IF holder' = Reader THEN reader ELSE holder'
     IN answered' = [answered EXCEPT ![i] = @ + 1]
  /\ UNCHANGED <<run, stopping, reader, taskVars, asked>>

\* Whoever ends or is cancelled no longer waits for the lock, or has it.
Leave(who) ==
  /\ waiting' = IF \E k \in 1..Len(waiting) : waiting[k] = who
                THEN RemoveAt(waiting, CHOOSE k \in 1..Len(waiting) : waiting[k] = who)
                ELSE waiting
  /\ holder' = IF holder = who THEN Nobody ELSE holder

\* Mutant of TaskEnds: a place among those who wait is kept.
TaskEndsWaiting(i) ==
  /\ task' = [task EXCEPT ![i] = "ended"]
  /\ holder' = (IF holder = i THEN Nobody ELSE holder)
  /\ UNCHANGED <<run, reader, pending, waiting, asked, answered>>

TaskEnds(i) ==
  /\ task' = [task EXCEPT ![i] = "ended"] /\ Leave(i)
  /\ UNCHANGED <<run, reader, pending, asked, answered>>

\* The agent has read the answer.
Drained ==
  /\ holder # Nobody /\ holder \notin cancelled
  /\ IF holder = Reader
     THEN /\ reader' = "read" /\ Leave(Reader)
          /\ UNCHANGED <<run, taskVars, asked, answered>>
     ELSE TaskEnds(holder) /\ UNCHANGED cancelled
  /\ UNCHANGED stopping

CancelTask(i) ==
  /\ i \in cancelled /\ task[i] \in {"http", "send"}
  /\ TaskEnds(i) /\ UNCHANGED <<stopping, cancelled>>

\* The agent has not read for OUTPUT_TIMEOUT: the connection ends.
OutputTimeout(who) ==
  /\ who \in ToSet(waiting) \cup {holder} /\ who # Nobody
  /\ IF who = Reader
     THEN /\ reader' = "failed" /\ Leave(Reader)
          /\ UNCHANGED <<run, stopping, taskVars, asked, answered>>
     ELSE TaskEnds(who) /\ stopping' = TRUE /\ UNCHANGED cancelled

\* Mutant of Finished: the callback returns early for a cancelled task.
FinishedAnswered(i) ==
  /\ task[i] = "ended"
  /\ task' = [task EXCEPT ![i] = "none"]
  /\ pending' = (IF i \in cancelled THEN pending ELSE pending \ {i})
  /\ UNCHANGED <<run, stopping, reader, cancelled, lockVars, asked, answered>>

\* finished(): only now the id is free.
Finished(i) ==
  /\ task[i] = "ended"
  /\ task' = [task EXCEPT ![i] = "none"]
  /\ pending' = pending \ {i} /\ cancelled' = cancelled \ {i}
  /\ UNCHANGED <<run, stopping, reader, lockVars, asked, answered>>

\* run() ends: all tasks are cancelled, ...
End ==
  /\ run = "on" /\ (stopping \/ reader = "failed")
  /\ run' = "ending" /\ reader' = "failed"
  /\ cancelled' = cancelled \cup pending /\ Leave(Reader)
  /\ UNCHANGED <<stopping, pending, task, asked, answered>>

\* ... and awaited.
Over ==
  /\ run = "ending" /\ pending = {} /\ run' = "over"
  /\ UNCHANGED <<stopping, reader, taskVars, lockVars, asked, answered>>
-----------------------------------------------------------------------------
FrontendNext ==
  \/ \E i \in Ids :
       \/ Duplicate(i) \/ ReadCall(i) \/ ReadOther(i) \/ ReadCancel(i)
       \/ Answered(i) \/ CancelTask(i) \/ Finished(i)
  \/ ReadEnd \/ Output \/ Drained \/ End \/ Over
  \/ \E who \in Ids \cup {Reader} : OutputTimeout(who)

FrontendSpec == FrontendInit /\ [][FrontendNext]_frontendVars

\* Tasks go on, the manager's answer or its time-out comes, and the output's
\* time-out passes.  Nothing is assumed of the agent.
Fairness ==
  /\ WF_frontendVars(Output) /\ WF_frontendVars(End) /\ WF_frontendVars(Over)
  /\ \A i \in Ids : WF_frontendVars(Answered(i)) /\ WF_frontendVars(CancelTask(i)) /\ WF_frontendVars(Finished(i))
  /\ \A who \in Ids \cup {Reader} : WF_frontendVars(OutputTimeout(who))

FairFrontendSpec == FrontendSpec /\ Fairness
-----------------------------------------------------------------------------
(* What the proxy promises *)

\* The state has its types, and pending are the ids with a task, at most
\* MaxConcurrent of them.
FrontendTypeOK ==
  /\ pending = {i \in Ids : task[i] # "none"} /\ cancelled \subseteq pending
  /\ holder \in Ids => task[holder] = "send"
  /\ Cardinality(pending) <= MaxConcurrent

\* "A duplicate cannot receive an unambiguous response" (mcp_frontend.py:218):
\* while a call is outstanding the reader has no answer of its own for that id,
\* and no id is answered more often than it was asked, although agents use ids
\* again, cancel them and stop reading.
OneAnswer ==
  \A i \in Ids : answered[i] <= asked[i] /\ (reader = i => i \notin pending)

\* What is answered is outstanding and not cancelled, or the reader's own: no
\* answer of a call that was cancelled, or has ended, goes out later.
NoLateAnswer ==
  [][\A i \in Ids : answered'[i] # answered[i]
                   => reader = i \/ i \in pending \ cancelled]_frontendVars

\* When the connection is over no task is left that could still ask the manager
\* or write, and nobody has the output.
OverIsOver == run = "over" => \A i \in Ids : task[i] = "none" /\ holder = Nobody

\* Every call that is taken up leaves the table, answered, cancelled or with the
\* end of the connection, also when the agent stops reading.
CallsFinish == \A i \in Ids : i \in pending ~> i \notin pending
=============================================================================
