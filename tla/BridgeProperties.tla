-------------------------- MODULE BridgeProperties ---------------------------
(***************************************************************************)
(* What the bridge promises to the controller and to the agents.           *)
(***************************************************************************)
EXTENDS Bridge

Labels == {"rest", "poll", "pending", "dispatch", "complete", "cleanup",
           "remove", "collected"} \cup PendingLabels \cup DispatchLabels

DbType ==
  /\ evState \in [Events -> EventStates] /\ evAction \in [Events -> Commands]
  /\ taskState \in [Tasks -> TaskStates]
  /\ mapping \in [Subjects -> Tasks \cup {NoTask}]
  /\ delState \in [Events -> DelStates]
  /\ delTask \in [Events -> Tasks \cup {NoTask}]
  /\ carried \in [Events -> SUBSET Events] /\ older \in [Events -> SUBSET Events]

WorldType ==
  /\ github \in [Events -> Contents \cup {"unposted"}] /\ aged \in SUBSET Events
  /\ sess \in [Tasks -> {"none", "idle", "busy"}]
  /\ title \in [Events -> Commands \cup {"none"}]
  /\ startMsg \in SUBSET Events /\ stray \in SUBSET Events
  /\ contMsg \in [Tasks -> [Events -> SUBSET Events]]
  /\ workspace \in [Tasks -> {"absent", "clean", "dirty"}]

RunType ==
  /\ pc \in Labels
  /\ ev \in Events \cup {NoEvent} /\ dl \in Events \cup {NoEvent}
  /\ held \in Tasks \cup {NoTask} /\ tk \in Tasks \cup {NoTask}
  /\ found \in BOOLEAN /\ rowState \in DelStates
  /\ todo \in SUBSET Events /\ queue \in SUBSET Events /\ ctx \in SUBSET Events
  /\ tasksLeft \in SUBSET Tasks
  /\ blockedSub \in SUBSET Subjects /\ blockedSess \in SUBSET Tasks

\* Every variable has its type.
TypeOK ==
  /\ DbType /\ WorldType /\ RunType
  /\ cliPc \in {"idle", "remove", "delete", "records"}
  /\ cliTask \in Tasks \cup {NoTask}
  /\ edits \in Nat /\ faults \in Nat
-----------------------------------------------------------------------------
(* Prompts *)

\* A prompt OpenCode has accepted is final: whatever is retried after lost
\* responses and kills, the message of a delivery is never sent with another
\* text.  It goes only when its session is deleted or replaced.
PromptsAreFinal ==
  [][\A t \in Tasks, d \in Events :
       contMsg[t][d] # {} => contMsg'[t][d] \in {{}, contMsg[t][d]}]_vars

\* A delivery is recorded as delivered only when OpenCode has its message, or
\* the session has been deleted under the run.
DeliveredWasPosted ==
  [][\A d \in Events :
       delState[d] # "delivered" /\ delState'[d] = "delivered" =>
         Posted(d) \/ delTask[d] = NoTask \/ sess[delTask[d]] = "none"]_vars

Prompted(e) == e \in startMsg \cup stray \/ \E t \in Tasks, d \in Events : e \in contMsg[t][d]

\* An event becomes delivered only when an agent was given it, or it was a
\* cancel that has been carried out.  The one exception is a review that joined
\* a delivery which had been prompted before and was open again: finalizing the
\* delivery (state pending: it was taken open and found posted) delivers it too.
DeliveredReachedAgent ==
  [][\A e \in Events : evState[e] # "delivered" /\ evState'[e] = "delivered" =>
       \/ Prompted(e) \/ evAction[e] = "cancel"
       \/ pc = "finalize" /\ rowState = "pending"]_vars

\* The delivery in hand is posted, and its text contains an event that an agent
\* was given before.
GivenAgain(e) == pc = "post" /\ pc' = "finalize" /\ e \in ctx /\ Prompted(e)

\* A review that was queued more than once is carried by another delivery too.
Shared(e) == e \in Reviews /\ \E d \in Events \ {dl} : e \in carried[d]

\* The delivery was given to another session, withdrawn there by a cancel, and
\* brought back for this session when its event was considered again.
BroughtBack(e) == \E t \in Tasks \ {delTask[dl]} : e \in contMsg[t][dl]

\* The event was the first prompt of a session of its own, which was not recorded;
\* its subject was registered to another session before the next run.
StartedBefore(e) == e \in startMsg \cup stray

\* The text of an event is posted to agents at most once, whatever was lost,
\* killed and retried, except in these three cases, which the code has.
PromptedOnce ==
  [][\A e \in Events :
       GivenAgain(e) => Shared(e) \/ BroughtBack(e) \/ StartedBefore(e)]_vars

\* New feedback never joins a prompt that may already exist: a delivery whose
\* message OpenCode has does not become open to more events, whatever failed,
\* unless its row was withdrawn by a cancel, or deleted, and is made again.
PostedIsSealed ==
  [][\A d \in Events : Posted(d)' /\ delState'[d] = "pending" =>
       \/ Posted(d) /\ delState[d] = "pending"
       \/ delState[d] \in {"none", "cancelled"}]_vars

\* Feedback that is queued has a delivery that carries it and can still be
\* dispatched, unless a cancel withdrew that delivery.
QueuedIsCarried ==
  \A e \in Events : evState[e] = "queued" =>
    \E d \in Events : e \in carried[d] /\ delState[d] \in Live \cup {"cancelled"}

\* After a cancel the session gets no prompt until a later continue.
PausedStaysQuiet ==
  [][\A t \in Tasks : taskState[t] = "paused" =>
       \A d \in Events : contMsg[t][d] = {} => contMsg'[t][d] = {}]_vars

\* A cancel withdraws what was queued: no feedback waits for a paused session.
CancelWithdraws ==
  \A t \in Tasks : taskState[t] = "paused" => LiveDeliveries(t) = {}

\* The pull request of review x has no session, or one that a later event has
\* just started.
Unregistered(x) ==
  LET t == mapping[SubjectOf[x]]
  IN t = NoTask \/ (t \in Events /\ x < t /\ SubjectOf[t] = SubjectOf[x])

\* Work for one subject is taken up in source order: an event is taken up by
\* process_pending_events only when no earlier event of its subject is pending,
\* a failed one included; only a review that waits for its pull request to be
\* registered, and has not failed, is passed over.
SubjectOrder ==
  [][\A e, x \in Events :
       /\ x < e /\ SubjectOf[x] = SubjectOf[e] /\ evState[x] = "pending"
       /\ pc = "pending" /\ pc' = "event" /\ ev' = e
       => x \in Reviews /\ Unregistered(x) /\ SubjectOf[x] \notin blockedSub]_vars

\* A pending event is settled in the end: delivered, queued or ignored.
EventsSettle ==
  \A e \in Events \ Settled : evState[e] = "pending" ~> evState[e] # "pending"

\* The run cannot read the head of a pull request that delivery d is about: the
\* workspace of its task was collected, and only a continue restores it.
HeadLost(d) == \E e \in carried[d] : /\ SubjectOf[e] \in PullRequests
                                     /\ delTask[d] \in Events
                                     /\ workspace[delTask[d]] = "absent"

\* Feedback that is queued is prompted or withdrawn in the end, unless its head
\* cannot be read; when it can be again, this holds again.
DeliveriesSettle ==
  \A d \in Events \ Settled : delState[d] \in Live ~> delState[d] \notin Live \/ HeadLost(d)
-----------------------------------------------------------------------------
(* Tasks *)

\* Withdrawing a command that is being started never deletes a prompted session
\* that the run has found under this command, whichever attempt made it.  (One
\* that an attempt under another command prompted is deleted when its task has a
\* row, though the docstring of discard_unprompted_task says otherwise.)
DiscardOnlyUnprompted ==
  [][\A e \in Events :
       At("discard", e) /\ pc' # pc /\ sess[e] # "none" /\ sess'[e] = "none"
       => e \notin startMsg \/ ~found]_vars

\* A subject is mapped to a session only once OpenCode has accepted the first
\* prompt of that session, so no feedback is queued to an agent without a task.
MappedWasPrompted ==
  \A s \in Subjects : LET t == mapping[s]
    IN t # NoTask => t \in startMsg \cup stray \cup Manual \/ sess[t] = "none"

\* An operator deletes only sessions that are not at work.
DeletesOnlyQuiet ==
  [][\A t \in Tasks : sess[t] # "none" /\ sess'[t] = "none" => sess[t] # "busy"]_vars

\* At most MaxTasks automated tasks are queued or active at a time.
TaskLimit == ActiveCount <= MaxTasks

\* A task is collected only while no feedback waits for its session.
CollectedIsQuiet ==
  \A t \in Tasks : taskState[t] \in {"collecting", "collected"} =>
    LiveDeliveries(t) = {}

\* A session that is at work has its workspace.
WorkHasWorkspace ==
  \A t \in Tasks : sess[t] = "busy" => workspace[t] # "absent"

\* Collection never removes a workspace with uncommitted or unpushed work.
CollectsOnlyClean == pc = "remove" => workspace[tk] # "dirty"
=============================================================================
