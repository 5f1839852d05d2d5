----------------------------- MODULE BridgeStore -----------------------------
(***************************************************************************)
(* The state of the GitHub bridge (pkgs/github-bridge/bridge.py): the rows *)
(* of its SQLite database, the parts of GitHub, OpenCode and the workspace *)
(* manager it acts on, and the program counter and locals of the one run   *)
(* that may be in progress.  The operators below are the methods of class  *)
(* Database; each is one SQLite transaction, so the modules that extend    *)
(* this one use at most one of them in a step.                             *)
(*                                                                         *)
(* Events are numbered in the order of pending_events (source time, then   *)
(* action, then GitHub ID).  A task, its session and its workspace are one *)
(* identity: the session is found again by its title, which names the task *)
(* and the command it was started for.                                     *)
(* The task an event starts carries the event's number; Manual tasks live  *)
(* in workspaces a person made.  The delivery an event creates, and the    *)
(* OpenCode message of that delivery, have IDs derived from the event, so  *)
(* they carry its number too.                                              *)
(***************************************************************************)
EXTENDS Naturals, FiniteSets

CONSTANTS
  Events,        \* GitHub comments, assignments, review requests and reviews
  Reviews,       \* the events that are submitted pull request reviews
  Subjects,      \* issues, pull requests and discussions
  PullRequests,  \* the subjects that are bot-authored pull requests
  SubjectOf,     \* the subject of each event
  Manual,        \* tasks in manual workspaces
  MaxTasks,      \* config.max_tasks
  NoEvent, NoTask

ASSUME StoreAssumption ==
  /\ Events \subseteq Nat /\ IsFiniteSet(Events)
  /\ Reviews \subseteq Events
  /\ PullRequests \subseteq Subjects
  /\ SubjectOf \in [Events -> Subjects]
  /\ \A r \in Reviews : SubjectOf[r] \in PullRequests
  /\ Manual \cap Events = {}
  /\ MaxTasks \in Nat
  /\ NoEvent \notin Events
  /\ NoTask \notin Events \cup Manual

VARIABLES
  evState, evAction,                   \* table events
  taskState,                           \* table tasks
  mapping,                             \* table mappings, the active rows
  delState, delTask, carried, older,   \* tables deliveries, delivery_events
  github,                              \* what each event says on GitHub now
  aged,                                \* events older than REGISTRATION_GRACE
  sess, title, startMsg, contMsg,      \* OpenCode sessions and messages
  stray,                               \* prompted sessions no title finds
  workspace,                           \* the automated task workspaces
  pc, ev, held, found, dl, rowState, todo, queue, ctx, tasksLeft, tk,
  blockedSub, blockedSess,             \* the run in progress
  cliPc, cliTask                       \* a delete-session command in progress

eventVars    == <<evState, evAction>>
deliveryVars == <<delState, delTask, carried, older>>
dbVars       == <<eventVars, taskState, mapping, deliveryVars>>
githubVars   == <<github, aged>>
opencodeVars == <<sess, title, startMsg, contMsg, stray>>
worldVars    == <<githubVars, opencodeVars, workspace>>
loopVars     == <<dl, rowState, todo, queue, ctx, tasksLeft, tk,
                  blockedSub, blockedSess>>
workVars     == <<ev, held, found, loopVars>>
cliVars      == <<cliPc, cliTask>>
runVars      == <<pc, workVars>>
storeVars    == <<dbVars, worldVars, runVars, cliVars>>

Tasks         == Events \cup Manual
StartCommands == {"answer", "implement", "review"}
Commands      == StartCommands \cup {"continue", "cancel"}
Contents      == Commands \cup {"none", "ambiguous"}
EventStates   == {"unseen", "pending", "queued", "delivered", "ignored"}
TaskStates    == {"none", "queued", "active", "completed", "paused",
                  "cleanup_blocked", "collecting", "collected"}
ActiveStates  == {"queued", "active"}
Live          == {"pending", "dispatching"}
DelStates     == Live \cup {"none", "delivered", "cancelled"}

ActiveCount       == Cardinality({t \in Events : taskState[t] \in ActiveStates})
LiveDeliveries(t) == {d \in Events : delTask[d] = t /\ delState[d] \in Live}
Oldest(S)         == {d \in S : older[d] \cap S = {}}
First(S)          == {e \in S : \A x \in S : e <= x}
-----------------------------------------------------------------------------
(* Database methods *)

UpdateEvent(e, s) == evState' = [evState EXCEPT ![e] = s]

SaveTask(t, s) == taskState' = [taskState EXCEPT ![t] = s]

\* An UPDATE: it leaves a task without a row alone.
SetTaskState(t, s) ==
  taskState' = [taskState EXCEPT ![t] = IF @ = "none" THEN @ ELSE s]

ActivateMapping(s, t) == mapping' = [mapping EXCEPT ![s] = t]

\* The row of delivery d for session t, unless an uncancelled row exists.
InsertDelivery(d, t) ==
  IF delState[d] \in {"none", "cancelled"}
    THEN /\ delState' = [delState EXCEPT ![d] = "pending"]
         /\ delTask' = [delTask EXCEPT ![d] = t]
         /\ older' = [older EXCEPT ![d] =
              IF delState[d] = "none"
                THEN {x \in Events : delState[x] # "none"} ELSE @]
    ELSE UNCHANGED <<delState, delTask, older>>

\* Mutant of QueueDelivery: the review joins, but its link is not written.
QueueDeliveryForgetsLink(e, t, full) ==
  LET open == {d \in LiveDeliveries(t) :
                 delState[d] = "pending" /\ SubjectOf[d] = SubjectOf[e]}
  IN IF e \in Reviews /\ open # {} /\ ~full
       THEN UNCHANGED deliveryVars
       ELSE /\ InsertDelivery(e, t)
            /\ carried' = [carried EXCEPT ![e] = @ \cup {e}]

\* A review joins the oldest delivery that is still pending for its subject
\* and session; anything else has a delivery of its own.  "full" says that
\* the joined text would exceed 32768 characters.
QueueDelivery(e, t, full) ==
  LET open == {d \in LiveDeliveries(t) :
                 delState[d] = "pending" /\ SubjectOf[d] = SubjectOf[e]}
  IN IF e \in Reviews /\ open # {} /\ ~full
       THEN \E d \in Oldest(open) :
              /\ carried' = [carried EXCEPT ![d] = @ \cup {e}]
              /\ UNCHANGED <<delState, delTask, older>>
       ELSE /\ InsertDelivery(e, t)
            /\ carried' = [carried EXCEPT ![e] = @ \cup {e}]

\* Insert into the new delivery first, then delete from the old one: when
\* both are the same delivery the event is in neither afterwards.
MoveDeliveryEvent(d, e) ==
  /\ IF delState[e] = "cancelled"
       THEN /\ delState' = [delState EXCEPT ![e] = "pending"]
            /\ UNCHANGED <<delTask, older>>
       ELSE InsertDelivery(e, delTask[d])
  /\ carried' = [x \in Events |-> IF x = d THEN carried[x] \ {e}
                                  ELSE IF x = e THEN carried[x] \cup {e}
                                  ELSE carried[x]]

MarkDelivery(d, s) ==
  delState' = [delState EXCEPT ![d] = IF @ = "none" THEN @ ELSE s]

FinalizeDelivery(d) ==
  /\ MarkDelivery(d, "delivered")
  /\ evState' = [e \in Events |->
       IF e \in carried[d] THEN "delivered" ELSE evState[e]]

RemoveDeliveryEvent(d, e) == carried' = [carried EXCEPT ![d] = @ \ {e}]

\* Mutant of CancelSession: deliveries that were being dispatched stay.
CancelSessionPending(t) ==
  /\ SetTaskState(t, "paused")
  /\ delState' = [d \in Events |->
       IF d \in LiveDeliveries(t) /\ delState[d] = "pending"
         THEN "cancelled" ELSE delState[d]]

CancelSession(t) ==
  /\ SetTaskState(t, "paused")
  /\ delState' = [d \in Events |->
       IF d \in LiveDeliveries(t) THEN "cancelled" ELSE delState[d]]

DeleteSessionRecords(t) ==
  LET gone == {d \in Events : delTask[d] = t}
  IN /\ delState' = [d \in Events |-> IF d \in gone THEN "none" ELSE delState[d]]
     /\ delTask' = [d \in Events |-> IF d \in gone THEN NoTask ELSE delTask[d]]
     /\ carried' = [d \in Events |-> IF d \in gone THEN {} ELSE carried[d]]
     /\ older' = [d \in Events |-> IF d \in gone THEN {} ELSE older[d] \ gone]
     /\ mapping' = [s \in Subjects |->
          IF mapping[s] = t THEN NoTask ELSE mapping[s]]
     /\ taskState' = [taskState EXCEPT ![t] = "none"]
-----------------------------------------------------------------------------
(* OpenCode.  contMsg[t][d] is the set of events whose text the message of  *)
(* delivery d carries in session t; it is empty while there is no such     *)
(* message.  startMsg is the set of tasks whose session has its first      *)
(* prompt.  Deleting a session deletes its messages.                       *)

Posted(d) == delTask[d] # NoTask /\ contMsg[delTask[d]][d] # {}

DropSession(t) ==
  /\ sess' = [sess EXCEPT ![t] = "none"]
  /\ title' = [e \in Events |-> IF e = t THEN "none" ELSE title[e]]
  /\ UNCHANGED stray
  /\ startMsg' = startMsg \ {t}
  /\ contMsg' = [contMsg EXCEPT ![t] = [d \in Events |-> {}]]
=============================================================================
