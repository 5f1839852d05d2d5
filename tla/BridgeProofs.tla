---------------------------- MODULE BridgeProofs -----------------------------
(***************************************************************************)
(* Type correctness of the bridge, and the promises of dispatch_pending     *)
(* that make its retries safe: an accepted prompt is never sent with other  *)
(* text, and nothing is recorded as delivered that OpenCode does not have.  *)
(* Then what holds between the states of tasks and of their deliveries (no  *)
(* feedback waits for a session that is collected, or paused by a cancel),  *)
(* where the sessions of subjects come from, and what becomes of feedback:  *)
(* it is not lost, joins no prompt that was sent, reaches an agent, is      *)
(* given to no second one, and keeps the order of its subject.              *)
(* All of it for any number of events, subjects, tasks, edits and faults.   *)
(***************************************************************************)
EXTENDS BridgeProperties, FiniteSetTheorems, WellFoundedInduction, TLAPS

USE DEF dbVars, eventVars, deliveryVars, githubVars, opencodeVars, worldVars,
        runVars, workVars, loopVars, cliVars, budgetVars
-----------------------------------------------------------------------------
(* The constants and the names of states and labels *)

\* What the assumptions on the constants say of the domains.
LEMMA Domains ==
  /\ SubjectOf \in [Events -> Subjects]
  /\ NoTask \notin Tasks /\ NoEvent \notin Events
  /\ Events \subseteq Tasks /\ Settled \subseteq Events
  BY StoreAssumption, BridgeAssumption DEF Tasks

\* The states the operations write are states of their tables.
LEMMA Names ==
  /\ {"unseen", "pending", "queued", "delivered", "ignored"} \subseteq EventStates
  /\ {"none", "queued", "active", "completed", "paused", "cleanup_blocked",
      "collecting", "collected"} \subseteq TaskStates
  /\ {"none", "pending", "dispatching", "delivered", "cancelled"} \subseteq DelStates
  /\ {"implement", "continue", "cancel"} \subseteq Commands
  /\ StartCommands \subseteq Commands
  /\ Commands \subseteq Contents /\ {"none", "ambiguous"} \subseteq Contents
  /\ \A c \in Contents : c \notin {"none", "ambiguous"} => c \in Commands
  /\ "unposted" \notin Contents
  BY DEF EventStates, TaskStates, DelStates, Live, Contents, Commands, StartCommands

\* The labels the run goes to are labels.
LEMMA LabelNames ==
  /\ {"rest", "poll", "pending", "dispatch", "complete", "cleanup",
      "remove", "collected"} \subseteq Labels
  /\ {"event", "continue", "resume", "queue", "queued", "cancel", "abort",
      "delivered", "start", "recover", "adopt", "adoptmap", "confirm", "create",
      "save", "prompt", "map", "activate", "discard", "discardrecords",
      "discardspace"} \subseteq Labels
  /\ {"refresh", "drop", "move", "post", "finalize"} \subseteq Labels
  BY DEF Labels, PendingLabels, DispatchLabels

\* A set of events that is not empty has a first one.
LEMMA FirstExists == ASSUME NEW S \in SUBSET Events, S # {} PROVE First(S) # {}
<1> DEFINE R == OpToRel(<, Nat)
<1>1. IsWellFoundedOn(R, Nat) BY NatLessThanWellFounded
<1>2. S \subseteq Nat BY StoreAssumption
<1>3. PICK x \in S : \A y \in S : <<y, x>> \notin R
  <2> HIDE DEF R
  <2> QED BY <1>1, <1>2, WFMin
<1>4. ASSUME NEW y \in S PROVE x <= y
  <2>1. ~ (y < x) BY <1>2, <1>3 DEF OpToRel
  <2> QED BY <1>2, <2>1
<1> QED BY <1>4 DEF First

\* A step is a step of one of these groups of actions.
LEMMA StepCases ==
  ASSUME [Next]_vars
  PROVE  \/ Environment
         \/ StartRun \/ EndPoll \/ \E e \in Events : Discover(e)
         \/ \E e \in Events : PendingStep(e) \/ StartStep(e) \/ DispatchStep(e)
         \/ EndPending \/ DispatchLoop \/ EndDispatch
         \/ \E t \in Tasks : UpkeepStep(t)
         \/ EndComplete \/ UpkeepLoop \/ EndRun
         \/ \E p \in Subjects, t \in Tasks : RegisterPr(p, t)
         \/ Operator
         \/ Crash \/ PendingRaises \/ DispatchRaises \/ CleanupRaises \/ DeleteFails
         \/ UNCHANGED vars
  BY DEF Next, Run, Refusal, Fault
-----------------------------------------------------------------------------
(* The bridge holds only events that are, or were, on GitHub. *)

Known == {e \in Events : github[e] # "unposted"}

EventsKnown ==
  /\ ev \in Known \cup {NoEvent}
  /\ todo \subseteq Known /\ ctx \subseteq Known
  /\ \A e \in Events : evState[e] # "unseen" => e \in Known
  /\ \A d \in Events : carried[d] \subseteq Known

(* The promises of dispatch_pending *)

\* OpenCode has the message of delivery d, or its session has been deleted.
Reached(d) == Posted(d) \/ delTask[d] = NoTask \/ sess[delTask[d]] = "none"

\* Where the run is while a delivery is in progress.
Control ==
  /\ pc \in {"refresh", "drop", "move", "post", "finalize"} => dl # NoEvent
  /\ dl # NoEvent => pc \in DispatchLabels
  /\ pc \in {"move", "post"} => ctx # {}
  /\ dl \notin queue

\* What is left in the queue is not delivered, nor was what is in progress.
Waiting ==
  /\ rowState # "delivered"
  /\ \A d \in queue : delState[d] # "delivered"

\* The delivery in progress has no message before its prompt, and has one when
\* it is finalized.
Message ==
  /\ dl # NoEvent /\ pc # "finalize" => ~Posted(dl)
  /\ pc = "finalize" => Reached(dl)

DispatchInv == Control /\ Waiting /\ Message
-----------------------------------------------------------------------------
(* Types of the database *)

\* The database starts with rows of its types.
LEMMA DbInit == Init => DbType
  BY Domains, Names, BridgeAssumption DEF Init, DbType

\* INSERT OR IGNORE into deliveries, as queue_delivery does it, keeps the
\* row types.
LEMMA DbInsert ==
  ASSUME DbType, NEW d \in Events, NEW t \in Tasks \cup {NoTask}, InsertDelivery(d, t)
  PROVE  /\ delState' \in [Events -> DelStates]
         /\ delTask' \in [Events -> Tasks \cup {NoTask}]
         /\ older' \in [Events -> SUBSET Events]
<1> USE Names DEF DbType
<1>1. CASE delState[d] = "none" BY <1>1 DEF InsertDelivery
<1>2. CASE delState[d] = "cancelled" BY <1>2 DEF InsertDelivery
<1>3. CASE delState[d] \notin {"none", "cancelled"} BY <1>3 DEF InsertDelivery
<1> QED BY <1>1, <1>2, <1>3

\* queue_delivery keeps the delivery tables well-typed.
LEMMA DbQueue ==
  ASSUME DbType, NEW e \in Events, NEW t \in Tasks, NEW full, QueueDelivery(e, t, full),
         UNCHANGED <<eventVars, taskState, mapping>>
  PROVE  DbType'
<1>1. CASE InsertDelivery(e, t) /\ carried' = [carried EXCEPT ![e] = @ \cup {e}]
  BY <1>1, DbInsert DEF DbType
<1>2. CASE /\ \E d \in Events : carried' = [carried EXCEPT ![d] = @ \cup {e}]
           /\ UNCHANGED <<delState, delTask, older>>
  BY <1>2 DEF DbType
<1> QED BY <1>1, <1>2 DEF QueueDelivery, Oldest, LiveDeliveries

\* So does move_delivery_event, which may reopen a cancelled row.
LEMMA DbMove ==
  ASSUME DbType, NEW d \in Events, NEW e \in Events,
         delTask[d] \in Tasks \cup {NoTask}, MoveDeliveryEvent(d, e),
         UNCHANGED <<eventVars, taskState, mapping>>
  PROVE  DbType'
<1>1. carried' \in [Events -> SUBSET Events]
  BY DEF MoveDeliveryEvent, DbType
<1>2. /\ delState' \in [Events -> DelStates]
      /\ delTask' \in [Events -> Tasks \cup {NoTask}]
      /\ older' \in [Events -> SUBSET Events]
  <2>1. CASE delState[e] = "cancelled"
    BY <2>1, Names DEF MoveDeliveryEvent, DbType
  <2>2. CASE delState[e] # "cancelled"
    BY <2>2, DbInsert DEF MoveDeliveryEvent
  <2> QED BY <2>1, <2>2
<1> QED BY <1>1, <1>2 DEF DbType

\* A step of process_pending_events, continue_task or cancel keeps the row
\* types.
LEMMA DbPending ==
  ASSUME DbType, RunType, NEW e \in Events, PendingStep(e) PROVE DbType'
<1> USE Domains, Names DEF DbType
<1>1. CASE EventUnmapped(e) BY <1>1 DEF EventUnmapped, UpdateEvent
<1>2. CASE EventClosed(e) BY <1>2 DEF EventClosed, UpdateEvent
<1>3. CASE EventDelivered(e) BY <1>3 DEF EventDelivered, UpdateEvent
<1>4. CASE ContinueResume(e) BY <1>4 DEF ContinueResume, SetTaskState
<1>5. CASE ContinueQueue(e)
  <2> HIDE DEF DbType
  <2> QED BY <1>5, DbQueue DEF ContinueQueue, RunType
<1>6. CASE ContinueQueued(e) BY <1>6 DEF ContinueQueued, UpdateEvent
<1>7. CASE CancelRecords(e) BY <1>7 DEF CancelRecords, CancelSession, SetTaskState
<1>8. CASE \/ TakeEvent(e) \/ EventCancel(e) \/ EventContinue(e) \/ EventStart(e)
           \/ ContinueCheck(e) \/ CancelAbort(e)
  BY <1>8 DEF TakeEvent, EventCancel, EventContinue, EventStart, ContinueCheck,
              CancelAbort
<1> QED BY <1>1, <1>2, <1>3, <1>4, <1>5, <1>6, <1>7, <1>8 DEF PendingStep

\* delete_session_records leaves rows of the same types.
LEMMA DbDeleteRecords ==
  ASSUME DbType, NEW t, DeleteSessionRecords(t), UNCHANGED eventVars PROVE DbType'
  BY Domains, Names DEF DbType, DeleteSessionRecords

\* A step of start_task or discard_unprompted_task keeps the row types.
LEMMA DbStart ==
  ASSUME DbType, WorldType, EventsKnown, NEW e \in Events, StartStep(e) PROVE DbType'
<1> USE Domains, Names DEF DbType
<1>1. CASE AdoptTask(e) BY <1>1 DEF AdoptTask, SaveTask
<1>2. CASE AdoptMapping(e) BY <1>2 DEF AdoptMapping, ActivateMapping
<1>3. CASE StartConfirm(e)
  <2>1. github[e] \in Contents BY <1>3 DEF StartConfirm, At, WorldType, EventsKnown, Known
  <2>2. /\ evState' \in [Events -> EventStates] /\ evAction' \in [Events -> Commands]
        /\ UNCHANGED <<taskState, mapping, deliveryVars>>
    BY <1>3, <2>1 DEF StartConfirm, UpdateEvent
  <2> QED BY <2>2
<1>4. CASE StartSave(e) BY <1>4 DEF StartSave, SaveTask
<1>5. CASE StartMap(e) BY <1>5 DEF StartMap, ActivateMapping
<1>6. CASE StartActivate(e) BY <1>6 DEF StartActivate, SetTaskState
<1>7. CASE DiscardRecords(e) BY <1>7, DbDeleteRecords DEF DiscardRecords
<1>8. CASE \/ StartPrepare(e) \/ StartRecover(e) \/ StartCreate(e) \/ StartPrompt(e)
           \/ DiscardSession(e) \/ DiscardWorkspace(e)
  BY <1>8 DEF StartPrepare, StartRecover, StartCreate, StartPrompt, DiscardSession,
              DiscardWorkspace
<1> QED BY <1>1, <1>2, <1>3, <1>4, <1>5, <1>6, <1>7, <1>8 DEF StartStep

\* A step of dispatch_pending on one event or delivery keeps the row types.
LEMMA DbDispatch ==
  ASSUME DbType, RunType, Control, NEW e \in Events, DispatchStep(e) PROVE DbType'
<1> USE Domains, Names DEF DbType
<1>1. CASE RefreshEvent(e) BY <1>1 DEF RefreshEvent, UpdateEvent
<1>2. CASE DispatchCancelled(e) BY <1>2 DEF DispatchCancelled, UpdateEvent
<1>3. CASE DropEvent(e) BY <1>3 DEF DropEvent, RemoveDeliveryEvent
<1>4. CASE MoveContext(e)
  <2>1. dl \in Events BY <1>4 DEF MoveContext, Control, RunType
  <2> HIDE DEF DbType
  <2>2. delTask[dl] \in Tasks \cup {NoTask} BY <2>1 DEF DbType
  <2> QED BY <1>4, <2>1, <2>2, DbMove DEF MoveContext
<1>5. CASE TakeDelivery(e) BY <1>5 DEF TakeDelivery
<1> QED BY <1>1, <1>2, <1>3, <1>4, <1>5 DEF DispatchStep

\* So does a step of dispatch_pending on the delivery in progress.
LEMMA DbLoop ==
  ASSUME DbType, RunType, DispatchLoop \/ PendingRaises \/ DispatchRaises PROVE DbType'
<1> USE Domains, Names DEF DbType, RunType
<1>1. CASE NothingLeft BY <1>1 DEF NothingLeft, MarkDelivery
<1>2. CASE SealDelivery BY <1>2 DEF SealDelivery, MarkDelivery
<1>3. CASE Finalize BY <1>3 DEF Finalize, FinalizeDelivery, MarkDelivery
<1>4. CASE SelectContexts \/ PostPrompt BY <1>4 DEF SelectContexts, PostPrompt
<1>5. CASE PendingRaises BY <1>5 DEF PendingRaises, UpdateEvent
<1>6. CASE DispatchRaises BY <1>6 DEF DispatchRaises, MarkDelivery
<1> QED BY <1>1, <1>2, <1>3, <1>4, <1>5, <1>6 DEF DispatchLoop

\* So does a step of update_completed_tasks or cleanup_tasks.
LEMMA DbUpkeep ==
  ASSUME DbType,
         \/ \E t \in Tasks : UpkeepStep(t)
         \/ UpkeepLoop \/ CleanupRaises
  PROVE  DbType'
<1> USE Domains, Names DEF DbType, UpkeepFrame, SetTaskState
<1>1. ASSUME NEW t \in Tasks, CompleteTask(t) PROVE DbType' BY <1>1 DEF CompleteTask
<1>2. ASSUME NEW t \in Tasks, RetainTask(t) PROVE DbType' BY <1>2 DEF RetainTask
<1>3. ASSUME NEW t \in Tasks, BlockTask(t) PROVE DbType' BY <1>3 DEF BlockTask
<1>4. ASSUME NEW t \in Tasks, CollectTask(t) PROVE DbType' BY <1>4 DEF CollectTask
<1>5. CASE UpkeepLoop BY <1>5 DEF UpkeepLoop, RemoveWorkspace, Collected
<1>6. CASE CleanupRaises BY <1>6 DEF CleanupRaises
<1> QED BY <1>1, <1>2, <1>3, <1>4, <1>5, <1>6 DEF UpkeepStep

\* Every step keeps the database well-typed.
LEMMA DbStep ==
  ASSUME DbType, WorldType, RunType, EventsKnown, Control, [Next]_vars
  PROVE  DbType'
<1>1. CASE UNCHANGED dbVars BY <1>1 DEF DbType
<1>2. CASE Environment
  BY <1>1, <1>2 DEF Environment, Post, Edit, Age, AgentWorks, PersonPrompts
<1>3. CASE StartRun \/ EndPoll BY <1>1, <1>3 DEF StartRun, EndPoll
<1>4. ASSUME NEW e \in Events, Discover(e) PROVE DbType'
  BY <1>4, Names DEF Discover, UpdateEvent, DbType
<1>5. ASSUME NEW e \in Events, PendingStep(e) \/ StartStep(e) \/ DispatchStep(e)
      PROVE  DbType'
  BY <1>5, DbPending, DbStart, DbDispatch
<1>6. CASE EndPending \/ EndDispatch \/ EndComplete \/ EndRun
  BY <1>1, <1>6 DEF EndPending, EndDispatch, EndComplete, EndRun, UpkeepFrame
<1>7. CASE DispatchLoop \/ PendingRaises \/ DispatchRaises BY <1>7, DbLoop
<1>8. CASE \/ \E t \in Tasks : UpkeepStep(t)
           \/ UpkeepLoop \/ CleanupRaises
  BY <1>8, DbUpkeep
<1>9. ASSUME NEW p \in Subjects, NEW t \in Tasks, RegisterPr(p, t) PROVE DbType'
  <2>1. taskState' \in [Tasks -> TaskStates] BY <1>9, Names DEF RegisterPr, DbType
  <2>2. mapping' \in [Subjects -> Tasks \cup {NoTask}]
    BY <1>9 DEF RegisterPr, ActivateMapping, DbType
  <2> QED BY <1>9, <2>1, <2>2 DEF RegisterPr, DbType
<1>10. CASE Operator
  <2>1. CASE DeleteRecords BY <2>1, DbDeleteRecords DEF DeleteRecords
  <2> QED BY <1>1, <1>10, <2>1 DEF Operator, DeleteCheck, DeleteWorkspace, DeleteSession
<1>11. CASE Crash \/ DeleteFails BY <1>1, <1>11 DEF Crash, DeleteFails
<1>12. CASE UNCHANGED vars BY <1>1, <1>12 DEF vars, storeVars
<1> QED BY StepCases, <1>2, <1>3, <1>4, <1>5, <1>6, <1>7, <1>8, <1>9, <1>10, <1>11, <1>12
-----------------------------------------------------------------------------
(* Types of GitHub, OpenCode and the workspaces *)

\* GitHub, OpenCode and the workspaces start with values of their types.
LEMMA WorldInit == Init => WorldType
  BY Domains, Names, BridgeAssumption DEF Init, WorldType

\* Deleting a session keeps the OpenCode state well-typed.
LEMMA WorldDrop ==
  ASSUME WorldType, NEW t, DropSession(t), UNCHANGED <<githubVars, workspace>>
  PROVE  WorldType'
  BY DEF WorldType, DropSession

\* What the controller, the agents and a person do keeps the world well-
\* typed.
LEMMA WorldEnvironment == ASSUME WorldType, Environment PROVE WorldType'
<1> USE Names, BridgeAssumption DEF WorldType
<1>1. ASSUME NEW e \in Events, Post(e) PROVE WorldType' BY <1>1 DEF Post
<1>2. ASSUME NEW e \in Events, Edit(e) PROVE WorldType' BY <1>2 DEF Edit
<1>3. ASSUME NEW e \in Events, Age(e) PROVE WorldType' BY <1>3 DEF Age
<1>4. ASSUME NEW t \in Tasks, AgentWorks(t) PROVE WorldType' BY <1>4 DEF AgentWorks
<1>5. ASSUME NEW t \in Tasks, PersonPrompts(t) PROVE WorldType' BY <1>5 DEF PersonPrompts
<1> QED BY <1>1, <1>2, <1>3, <1>4, <1>5 DEF Environment

\* So do the calls start_task and discard_unprompted_task make.
LEMMA WorldStart ==
  ASSUME WorldType, DbType, NEW e \in Events, StartStep(e) PROVE WorldType'
<1> USE Names, Domains DEF WorldType
<1>1. CASE StartPrepare(e) BY <1>1 DEF StartPrepare
<1>2. CASE StartCreate(e) 
  <2>1. StartAction(e) \in Commands BY DEF StartAction, DbType
  <2>2. sess' \in [Tasks -> {"none", "idle", "busy"}] BY <1>2 DEF StartCreate
  <2>3. title' \in [Events -> Commands \cup {"none"}] BY <1>2, <2>1 DEF StartCreate
  <2>4. /\ startMsg' \in SUBSET Events /\ stray' \in SUBSET Events
        /\ contMsg' \in [Tasks -> [Events -> SUBSET Events]]
    BY <1>2 DEF StartCreate
  <2> QED BY <1>2, <2>2, <2>3, <2>4 DEF StartCreate
<1>3. CASE StartPrompt(e) BY <1>3 DEF StartPrompt
<1>4. CASE DiscardSession(e) BY <1>4, WorldDrop DEF DiscardSession
<1>5. CASE DiscardWorkspace(e) BY <1>5 DEF DiscardWorkspace
<1>6. CASE \/ StartRecover(e) \/ AdoptTask(e) \/ AdoptMapping(e) \/ StartConfirm(e)
           \/ StartSave(e) \/ StartMap(e) \/ StartActivate(e) \/ DiscardRecords(e)
  BY <1>6 DEF StartRecover, AdoptTask, AdoptMapping, StartConfirm, StartSave, StartMap,
              StartActivate, DiscardRecords
<1> QED BY <1>1, <1>2, <1>3, <1>4, <1>5, <1>6 DEF StartStep

\* So do the calls continue_task and cancel make.
LEMMA WorldPending ==
  ASSUME WorldType, NEW e \in Events, PendingStep(e) \/ DispatchStep(e)
  PROVE  WorldType'
<1> USE DEF WorldType
<1>1. CASE ContinueCheck(e) BY <1>1 DEF ContinueCheck
<1>2. CASE CancelAbort(e) BY <1>2 DEF CancelAbort
<1>3. CASE UNCHANGED worldVars BY <1>3
<1>4. CASE \/ TakeEvent(e) \/ EventCancel(e) \/ EventContinue(e) \/ EventStart(e)
           \/ EventUnmapped(e) \/ EventClosed(e) \/ EventDelivered(e)
  BY <1>3, <1>4 DEF TakeEvent, EventCancel, EventContinue, EventStart, EventUnmapped,
              EventClosed, EventDelivered
<1>5. CASE \/ ContinueResume(e) \/ ContinueQueue(e) \/ ContinueQueued(e)
           \/ CancelRecords(e)
  BY <1>3, <1>5 DEF ContinueResume, ContinueQueue, ContinueQueued, CancelRecords
<1>6. CASE DispatchStep(e)
  BY <1>3, <1>6 DEF DispatchStep, TakeDelivery, RefreshEvent, DispatchCancelled,
              DropEvent, MoveContext
<1> QED BY <1>1, <1>2, <1>4, <1>5, <1>6 DEF PendingStep

\* Every step keeps the world well-typed.
LEMMA WorldStep == ASSUME WorldType, DbType, RunType, [Next]_vars PROVE WorldType'
<1>1. CASE UNCHANGED worldVars BY <1>1 DEF WorldType
<1>2. CASE StartRun \/ EndPoll \/ \E e \in Events : Discover(e)
  BY <1>1, <1>2 DEF StartRun, EndPoll, Discover
<1>3. CASE EndPending \/ EndDispatch \/ EndComplete \/ EndRun
  BY <1>1, <1>3 DEF EndPending, EndDispatch, EndComplete, EndRun, UpkeepFrame, worldVars
<1>4. CASE DispatchLoop
  <2>1. CASE PostPrompt BY <2>1 DEF PostPrompt, WorldType, RunType
  <2> QED BY <1>1, <1>4, <2>1 DEF DispatchLoop, NothingLeft, SelectContexts,
                                  SealDelivery, Finalize
<1>5. ASSUME NEW t \in Tasks, UpkeepStep(t) PROVE WorldType'
  BY <1>1, <1>5 DEF UpkeepStep, CompleteTask, RetainTask, BlockTask, CollectTask,
                    UpkeepFrame
<1>6. CASE UpkeepLoop
  BY <1>6 DEF UpkeepLoop, RemoveWorkspace, Collected, UpkeepFrame, WorldType
<1>7. CASE \E p \in Subjects, t \in Tasks : RegisterPr(p, t)
  BY <1>1, <1>7 DEF RegisterPr
<1>8. CASE Operator
  <2>1. CASE DeleteWorkspace BY <2>1 DEF DeleteWorkspace, WorldType
  <2>2. CASE DeleteSession BY <2>2, WorldDrop DEF DeleteSession
  <2> QED BY <1>1, <1>8, <2>1, <2>2 DEF Operator, DeleteCheck, DeleteRecords
<1>9. CASE Crash \/ PendingRaises \/ DispatchRaises \/ CleanupRaises \/ DeleteFails
  BY <1>1, <1>9 DEF Crash, PendingRaises, DispatchRaises, CleanupRaises, DeleteFails,
                    UpkeepFrame
<1>10. CASE UNCHANGED vars BY <1>1, <1>10 DEF vars, storeVars
<1> QED BY StepCases, WorldEnvironment, WorldPending, WorldStart, <1>2, <1>3, <1>4,
           <1>5, <1>6, <1>7, <1>8, <1>9, <1>10
-----------------------------------------------------------------------------
(* Types of the run *)

\* The run starts at rest, with locals of their types.
LEMMA RunInit == Init => RunType
<1> SUFFICES ASSUME Init PROVE RunType OBVIOUS
<1>1. pc \in Labels /\ rowState \in DelStates BY LabelNames, Names DEF Init
<1>2. found \in BOOLEAN BY DEF Init
<1>3. /\ ev = NoEvent /\ dl = NoEvent /\ held = NoTask /\ tk = NoTask
      /\ todo = {} /\ queue = {} /\ ctx = {} /\ tasksLeft = {}
      /\ blockedSub = {} /\ blockedSess = {}
  BY DEF Init
<1> QED BY <1>1, <1>2, <1>3 DEF RunType

\* process_pending_events, continue_task and cancel keep the locals of a
\* run well-typed.
LEMMA RunPending ==
  ASSUME RunType, DbType, NEW e \in Events, PendingStep(e) PROVE RunType'
<1> USE LabelNames DEF RunType, Goto, EventDone
<1>1. CASE TakeEvent(e) BY <1>1, Domains DEF TakeEvent, First, DbType
<1>2. CASE EventCancel(e) \/ EventContinue(e) \/ EventStart(e)
  BY <1>2 DEF EventCancel, EventContinue, EventStart
<1>3. CASE EventUnmapped(e) BY <1>3 DEF EventUnmapped
<1>4. CASE EventClosed(e) BY <1>4 DEF EventClosed
<1>5. CASE EventDelivered(e) BY <1>5 DEF EventDelivered
<1>6. CASE ContinueCheck(e) BY <1>6, Domains DEF ContinueCheck, DbType
<1>7. CASE ContinueResume(e) \/ ContinueQueue(e) BY <1>7 DEF ContinueResume, ContinueQueue
<1>8. CASE ContinueQueued(e) BY <1>8 DEF ContinueQueued
<1>9. CASE CancelRecords(e) BY <1>9, Domains DEF CancelRecords, DbType
<1>10. CASE CancelAbort(e) BY <1>10 DEF CancelAbort
<1> QED BY <1>1, <1>2, <1>3, <1>4, <1>5, <1>6, <1>7, <1>8, <1>9, <1>10 DEF PendingStep

\* So do start_task and discard_unprompted_task.
LEMMA RunStart ==
  ASSUME RunType, NEW e \in Events, StartStep(e) PROVE RunType'
<1> USE LabelNames DEF RunType, Goto, EventDone
<1>1. CASE StartPrepare(e) BY <1>1 DEF StartPrepare
<1>2. CASE StartRecover(e) BY <1>2 DEF StartRecover, Found
<1>3. CASE AdoptTask(e) \/ AdoptMapping(e) BY <1>3 DEF AdoptTask, AdoptMapping
<1>4. CASE StartConfirm(e) BY <1>4 DEF StartConfirm
<1>5. CASE StartCreate(e) BY <1>5 DEF StartCreate
<1>6. CASE StartSave(e) \/ StartPrompt(e) BY <1>6 DEF StartSave, StartPrompt
<1>7. CASE StartMap(e) \/ StartActivate(e) BY <1>7 DEF StartMap, StartActivate
<1>8. CASE DiscardSession(e) \/ DiscardRecords(e)
  BY <1>8 DEF DiscardSession, DiscardRecords
<1>9. CASE DiscardWorkspace(e) BY <1>9 DEF DiscardWorkspace
<1> QED BY <1>1, <1>2, <1>3, <1>4, <1>5, <1>6, <1>7, <1>8, <1>9 DEF StartStep

\* So does dispatch_pending, on one event or delivery.
LEMMA RunDispatch ==
  ASSUME RunType, DbType, NEW e \in Events, DispatchStep(e) PROVE RunType'
<1> USE LabelNames DEF RunType, Goto
<1>1. CASE TakeDelivery(e) BY <1>1 DEF TakeDelivery, DbType
<1>2. CASE RefreshEvent(e) BY <1>2 DEF RefreshEvent, First
<1>3. CASE DispatchCancelled(e) BY <1>3 DEF DispatchCancelled
<1>4. CASE DropEvent(e) BY <1>4 DEF DropEvent
<1>5. CASE MoveContext(e) BY <1>5 DEF MoveContext
<1> QED BY <1>1, <1>2, <1>3, <1>4, <1>5 DEF DispatchStep

\* So does dispatch_pending, on the delivery in progress, and every
\* exception.
LEMMA RunLoop ==
  ASSUME RunType, DbType, DispatchLoop \/ PendingRaises \/ DispatchRaises
  PROVE  RunType'
<1> USE LabelNames, Names DEF RunType, Goto, DeliveryDone
<1>1. CASE NothingLeft BY <1>1 DEF NothingLeft
<1>2. CASE SelectContexts BY <1>2 DEF SelectContexts
<1>3. CASE SealDelivery BY <1>3 DEF SealDelivery
<1>4. CASE PostPrompt BY <1>4 DEF PostPrompt
<1>5. CASE Finalize BY <1>5 DEF Finalize
<1>6. CASE PendingRaises
  <2>1. SubjectOf[ev] \in Subjects BY <1>6, Domains DEF PendingRaises
  <2> QED BY <1>6, <2>1 DEF PendingRaises, EventDone
<1>7. CASE DispatchRaises BY <1>7 DEF DispatchRaises
<1> QED BY <1>1, <1>2, <1>3, <1>4, <1>5, <1>6, <1>7 DEF DispatchLoop

\* So do update_completed_tasks and cleanup_tasks.
LEMMA RunUpkeep ==
  ASSUME RunType, DbType,
         \/ \E t \in Tasks : UpkeepStep(t)
         \/ UpkeepLoop \/ CleanupRaises \/ EndDispatch \/ EndComplete \/ EndRun
  PROVE  RunType'
<1> USE LabelNames, Domains DEF RunType, UpkeepFrame, Goto
<1>1. ASSUME NEW t \in Tasks, CompleteTask(t) PROVE RunType' BY <1>1 DEF CompleteTask
<1>2. ASSUME NEW t \in Tasks, RetainTask(t) PROVE RunType' BY <1>2 DEF RetainTask
<1>3. ASSUME NEW t \in Tasks, BlockTask(t) PROVE RunType' BY <1>3 DEF BlockTask
<1>4. ASSUME NEW t \in Tasks, CollectTask(t) PROVE RunType' BY <1>4 DEF CollectTask
<1>5. CASE UpkeepLoop BY <1>5 DEF UpkeepLoop, RemoveWorkspace, Collected
<1>6. CASE CleanupRaises BY <1>6 DEF CleanupRaises
<1>7. CASE EndDispatch BY <1>7 DEF EndDispatch
<1>8. CASE EndComplete BY <1>8 DEF EndComplete
<1>9. CASE EndRun BY <1>9 DEF EndRun
<1> QED BY <1>1, <1>2, <1>3, <1>4, <1>5, <1>6, <1>7, <1>8, <1>9 DEF UpkeepStep

\* Every step keeps the label and the locals of the run well-typed.
LEMMA RunStep == ASSUME RunType, DbType, [Next]_vars PROVE RunType'
<1>1. CASE UNCHANGED runVars BY <1>1 DEF RunType
<1>2. CASE Environment
  BY <1>1, <1>2 DEF Environment, Post, Edit, Age, AgentWorks, PersonPrompts
<1>3. CASE StartRun \/ EndPoll \/ EndPending
  BY <1>3, LabelNames DEF StartRun, EndPoll, EndPending, Goto, RunType
<1>4. CASE \E e \in Events : Discover(e) BY <1>1, <1>4 DEF Discover
<1>5. CASE \/ \E p \in Subjects, t \in Tasks : RegisterPr(p, t)
           \/ Operator \/ DeleteFails
  BY <1>1, <1>5 DEF RegisterPr, Operator, DeleteCheck, DeleteWorkspace, DeleteSession,
              DeleteRecords, DeleteFails
<1>6. CASE Crash BY <1>6, LabelNames, Names DEF Crash, Idle, RunType
<1>7. CASE UNCHANGED vars BY <1>1, <1>7 DEF vars, storeVars
<1> QED BY StepCases, RunPending, RunStart, RunDispatch, RunLoop, RunUpkeep, <1>2, <1>3,
           <1>4, <1>5, <1>6, <1>7
-----------------------------------------------------------------------------
(* Only events that are on GitHub *)

\* At first the bridge holds only the events that were settled before.
LEMMA KnownInit == Init => EventsKnown
  BY DEF Init, EventsKnown, Known

\* Nothing takes an event back: what is on GitHub only changes its content.
LEMMA KnownStays == ASSUME WorldType, [Next]_vars PROVE Known \subseteq Known'
<1>1. CASE UNCHANGED github BY <1>1 DEF Known
<1>2. ASSUME NEW e \in Events, Post(e) PROVE Known \subseteq Known'
  BY <1>2 DEF Post, Known, WorldType
<1>3. ASSUME NEW e \in Events, Edit(e) PROVE Known \subseteq Known'
  BY <1>3, Names, BridgeAssumption DEF Edit, Known, WorldType
<1>4. CASE Environment
  BY <1>1, <1>2, <1>3, <1>4 DEF Environment, Age, AgentWorks, PersonPrompts
<1>5. CASE StartRun \/ EndPoll \/ \E e \in Events : Discover(e)
  BY <1>1, <1>5 DEF StartRun, EndPoll, Discover
<1>6. ASSUME NEW e \in Events, PendingStep(e) PROVE UNCHANGED github
  BY <1>6 DEF PendingStep, TakeEvent, EventCancel, EventContinue, EventStart,
              EventUnmapped, EventClosed, EventDelivered, ContinueCheck, ContinueResume,
              ContinueQueue, ContinueQueued, CancelRecords, CancelAbort
<1>7. ASSUME NEW e \in Events, StartStep(e) PROVE UNCHANGED github
  BY <1>7 DEF StartStep, StartPrepare, StartRecover, AdoptTask, AdoptMapping,
              StartConfirm, StartCreate, StartSave, StartPrompt, StartMap,
              StartActivate, DiscardSession, DiscardRecords, DiscardWorkspace
<1>8. ASSUME NEW e \in Events, DispatchStep(e) PROVE UNCHANGED github
  BY <1>8 DEF DispatchStep, TakeDelivery, RefreshEvent, DispatchCancelled, DropEvent,
              MoveContext
<1>9. CASE EndPending \/ DispatchLoop \/ EndDispatch \/ EndComplete \/ UpkeepLoop \/ EndRun
  BY <1>1, <1>9 DEF EndPending, DispatchLoop, NothingLeft, SelectContexts, SealDelivery,
              PostPrompt, Finalize, EndDispatch, EndComplete, UpkeepLoop,
              RemoveWorkspace, Collected, EndRun, UpkeepFrame
<1>10. CASE \E t \in Tasks : UpkeepStep(t)
  BY <1>1, <1>10 DEF UpkeepStep, CompleteTask, RetainTask, BlockTask, CollectTask,
              UpkeepFrame
<1>11. CASE (\E q \in Subjects, t \in Tasks : RegisterPr(q, t)) \/ Operator
  BY <1>1, <1>11 DEF RegisterPr, Operator, DeleteCheck, DeleteWorkspace, DeleteSession,
              DeleteRecords
<1>12. CASE Crash \/ PendingRaises \/ DispatchRaises \/ CleanupRaises \/ DeleteFails
  BY <1>1, <1>12 DEF Crash, PendingRaises, DispatchRaises, CleanupRaises, DeleteFails,
              UpkeepFrame
<1>13. CASE UNCHANGED vars BY <1>1, <1>13 DEF vars, storeVars
<1> QED BY StepCases, <1>1, <1>4, <1>5, <1>6, <1>7, <1>8, <1>9, <1>10, <1>11, <1>12, <1>13

\* process_pending_events works on events it has found.
LEMMA KnownPending ==
  ASSUME EventsKnown, DbType, Known \subseteq Known', NEW e \in Events, PendingStep(e)
  PROVE  EventsKnown'
<1> USE DEF EventsKnown, EventDone, UpdateEvent, At
<1>1. CASE TakeEvent(e) BY <1>1 DEF TakeEvent, First
<1>2. CASE EventCancel(e) \/ EventContinue(e) \/ EventStart(e)
  BY <1>2 DEF EventCancel, EventContinue, EventStart
<1>3. CASE EventUnmapped(e) BY <1>3 DEF EventUnmapped, DbType
<1>4. CASE EventClosed(e) BY <1>4 DEF EventClosed, DbType
<1>5. CASE EventDelivered(e) BY <1>5 DEF EventDelivered, DbType
<1>6. CASE ContinueCheck(e) \/ ContinueResume(e)
  BY <1>6 DEF ContinueCheck, ContinueResume
<1>7. CASE ContinueQueue(e)
  <2>1. \A d \in Events : carried'[d] \subseteq carried[d] \cup {e}
    BY <1>7 DEF ContinueQueue, QueueDelivery, DbType
  <2>2. e \in Known BY <1>7 DEF ContinueQueue
  <2> QED BY <1>7, <2>1, <2>2 DEF ContinueQueue
<1>8. CASE ContinueQueued(e) BY <1>8 DEF ContinueQueued, DbType
<1>9. CASE CancelRecords(e) \/ CancelAbort(e) BY <1>9 DEF CancelRecords, CancelAbort
<1> QED BY <1>1, <1>2, <1>3, <1>4, <1>5, <1>6, <1>7, <1>8, <1>9 DEF PendingStep

\* So does start_task.
LEMMA KnownStart ==
  ASSUME EventsKnown, DbType, Known \subseteq Known', NEW e \in Events, StartStep(e)
  PROVE  EventsKnown'
<1> USE DEF EventsKnown, EventDone, UpdateEvent, At
<1>1. CASE StartConfirm(e) BY <1>1 DEF StartConfirm, DbType
<1>2. CASE DiscardRecords(e) BY <1>2 DEF DiscardRecords, DeleteSessionRecords, DbType
<1>3. CASE StartPrepare(e) \/ StartRecover(e) \/ AdoptTask(e) \/ AdoptMapping(e)
  BY <1>3 DEF StartPrepare, StartRecover, AdoptTask, AdoptMapping
<1>4. CASE StartCreate(e) \/ StartSave(e) \/ StartPrompt(e) \/ StartMap(e)
  BY <1>4 DEF StartCreate, StartSave, StartPrompt, StartMap
<1>5. CASE StartActivate(e) \/ DiscardSession(e) \/ DiscardWorkspace(e)
  BY <1>5 DEF StartActivate, DiscardSession, DiscardWorkspace
<1> QED BY <1>1, <1>2, <1>3, <1>4, <1>5 DEF StartStep

\* dispatch_pending moves and drops only events that are on GitHub.
LEMMA KnownDispatch ==
  ASSUME EventsKnown, DbType, Known \subseteq Known', NEW e \in Events, DispatchStep(e)
  PROVE  EventsKnown'
<1> USE DEF EventsKnown, UpdateEvent, At
<1>1. CASE TakeDelivery(e) BY <1>1 DEF TakeDelivery, Oldest
<1>2. CASE RefreshEvent(e) BY <1>2 DEF RefreshEvent, First, DbType
<1>3. CASE DispatchCancelled(e) BY <1>3 DEF DispatchCancelled, DbType
<1>4. CASE DropEvent(e) BY <1>4 DEF DropEvent, RemoveDeliveryEvent, DbType
<1>5. CASE MoveContext(e)
  <2>1. \A d \in Events : carried'[d] \subseteq carried[d] \cup {e}
    BY <1>5 DEF MoveContext, MoveDeliveryEvent
  <2>2. e \in Known BY <1>5 DEF MoveContext, First
  <2> QED BY <1>5, <2>1, <2>2 DEF MoveContext
<1> QED BY <1>1, <1>2, <1>3, <1>4, <1>5 DEF DispatchStep

\* So do the steps that end a delivery and those of exceptions.
LEMMA KnownLoop ==
  ASSUME EventsKnown, DbType, RunType, Control, Known \subseteq Known',
         DispatchLoop \/ PendingRaises \/ DispatchRaises
  PROVE  EventsKnown'
<1> USE DEF EventsKnown, DeliveryDone
<1>1. CASE NothingLeft BY <1>1 DEF NothingLeft
<1>2. CASE SelectContexts BY <1>2 DEF SelectContexts
<1>3. CASE SealDelivery BY <1>3 DEF SealDelivery
<1>4. CASE PostPrompt BY <1>4 DEF PostPrompt
<1>5. CASE Finalize
  <2>1. dl \in Events BY <1>5 DEF Finalize, Control, RunType
  <2> QED BY <1>5, <2>1 DEF Finalize, FinalizeDelivery
<1>6. CASE PendingRaises BY <1>6 DEF PendingRaises, EventDone, UpdateEvent, DbType
<1>7. CASE DispatchRaises BY <1>7 DEF DispatchRaises
<1> QED BY <1>1, <1>2, <1>3, <1>4, <1>5, <1>6, <1>7 DEF DispatchLoop

\* Every step leaves the bridge with events that are on GitHub.
LEMMA KnownStep ==
  ASSUME EventsKnown, DbType, WorldType, RunType, Control, [Next]_vars
  PROVE  EventsKnown'
<1>1. Known \subseteq Known' BY KnownStays
<1>2. CASE UNCHANGED <<ev, todo, ctx, evState, carried>> BY <1>1, <1>2 DEF EventsKnown
<1>3. CASE Environment
  BY <1>2, <1>3 DEF Environment, Post, Edit, Age, AgentWorks, PersonPrompts
<1>4. CASE StartRun \/ EndPoll \/ EndPending
  BY <1>1, <1>4 DEF StartRun, EndPoll, EndPending, EventsKnown
<1>5. ASSUME NEW e \in Events, Discover(e) PROVE EventsKnown'
  <2>1. e \in Known BY <1>5 DEF Discover, Known
  <2> QED BY <1>1, <1>5, <2>1 DEF Discover, UpdateEvent, EventsKnown, DbType
<1>6. CASE \/ \E t \in Tasks : UpkeepStep(t)
           \/ EndDispatch \/ EndComplete \/ UpkeepLoop \/ EndRun \/ CleanupRaises
  BY <1>2, <1>6 DEF UpkeepStep, CompleteTask, RetainTask, BlockTask, CollectTask,
              EndDispatch, EndComplete, UpkeepLoop, RemoveWorkspace, Collected, EndRun,
              CleanupRaises, UpkeepFrame
<1>7. CASE \/ \E q \in Subjects, t \in Tasks : RegisterPr(q, t)
           \/ DeleteFails
  BY <1>2, <1>7 DEF RegisterPr, DeleteFails
<1>8. CASE Operator
  <2>1. CASE DeleteRecords
    BY <1>1, <2>1 DEF DeleteRecords, DeleteSessionRecords, EventsKnown
  <2> QED BY <1>2, <1>8, <2>1 DEF Operator, DeleteCheck, DeleteWorkspace, DeleteSession
<1>9. CASE Crash BY <1>1, <1>9 DEF Crash, Idle, EventsKnown
<1>10. CASE UNCHANGED vars BY <1>2, <1>10 DEF vars, storeVars
<1> QED BY StepCases, KnownPending, KnownStart, KnownDispatch, KnownLoop, <1>1, <1>3,
           <1>4, <1>5, <1>6, <1>7, <1>8, <1>9, <1>10
-----------------------------------------------------------------------------
(* The command line and the bounds *)

RestType ==
  /\ cliPc \in {"idle", "remove", "delete", "records"}
  /\ cliTask \in Tasks \cup {NoTask}
  /\ edits \in Nat /\ faults \in Nat

\* delete_session keeps its label and its task well-typed.
LEMMA RestCli ==
  ASSUME RestType, [Next]_vars
  PROVE  /\ cliPc' \in {"idle", "remove", "delete", "records"}
         /\ cliTask' \in Tasks \cup {NoTask}
<1>1. CASE UNCHANGED cliVars BY <1>1 DEF RestType
<1>2. CASE Environment
  BY <1>1, <1>2 DEF Environment, Post, Edit, Age, AgentWorks, PersonPrompts
<1>3. CASE StartRun \/ EndPoll \/ \E e \in Events : Discover(e)
  BY <1>1, <1>3 DEF StartRun, EndPoll, Discover
<1>4. ASSUME NEW e \in Events, PendingStep(e) PROVE UNCHANGED cliVars
  BY <1>4 DEF PendingStep, TakeEvent, EventCancel, EventContinue, EventStart,
              EventUnmapped, EventClosed, EventDelivered, ContinueCheck, ContinueResume,
              ContinueQueue, ContinueQueued, CancelRecords, CancelAbort
<1>5. ASSUME NEW e \in Events, StartStep(e) PROVE UNCHANGED cliVars
  BY <1>5 DEF StartStep, StartPrepare, StartRecover, AdoptTask, AdoptMapping,
              StartConfirm, StartCreate, StartSave, StartPrompt, StartMap,
              StartActivate, DiscardSession, DiscardRecords, DiscardWorkspace
<1>6. ASSUME NEW e \in Events, DispatchStep(e) PROVE UNCHANGED cliVars
  BY <1>6 DEF DispatchStep, TakeDelivery, RefreshEvent, DispatchCancelled, DropEvent,
              MoveContext
<1>7. CASE EndPending \/ DispatchLoop \/ EndDispatch \/ EndComplete \/ UpkeepLoop \/ EndRun
  BY <1>1, <1>7 DEF EndPending, DispatchLoop, NothingLeft, SelectContexts, SealDelivery,
              PostPrompt, Finalize, EndDispatch, EndComplete, UpkeepLoop,
              RemoveWorkspace, Collected, EndRun, UpkeepFrame
<1>8. CASE \E t \in Tasks : UpkeepStep(t)
  BY <1>1, <1>8 DEF UpkeepStep, CompleteTask, RetainTask, BlockTask, CollectTask,
              UpkeepFrame
<1>9. CASE \/ \E q \in Subjects, t \in Tasks : RegisterPr(q, t)
           \/ Crash \/ PendingRaises \/ DispatchRaises \/ CleanupRaises
  BY <1>1, <1>9 DEF RegisterPr, Crash, PendingRaises, DispatchRaises, CleanupRaises,
              UpkeepFrame
<1>10. CASE Operator \/ DeleteFails
  BY <1>10 DEF Operator, DeleteCheck, DeleteWorkspace, DeleteSession, DeleteRecords,
               DeleteFails, RestType
<1>11. CASE UNCHANGED vars BY <1>1, <1>11 DEF vars, storeVars
<1> QED BY StepCases, <1>1, <1>2, <1>3, <1>4, <1>5, <1>6, <1>7, <1>8, <1>9, <1>10, <1>11

\* The counters of edits and faults stay natural numbers.
LEMMA RestBudget ==
  ASSUME RestType, [Next]_vars PROVE edits' \in Nat /\ faults' \in Nat
<1>1. CASE UNCHANGED budgetVars BY <1>1 DEF RestType
<1>2. ASSUME NEW e \in Events, Edit(e) PROVE edits' \in Nat /\ faults' \in Nat
  BY <1>2 DEF Edit, RestType
<1>3. CASE Environment
  BY <1>1, <1>2, <1>3 DEF Environment, Post, Age, AgentWorks, PersonPrompts
<1>4. CASE StartRun \/ EndPoll \/ \E e \in Events : Discover(e)
  BY <1>1, <1>4 DEF StartRun, EndPoll, Discover
<1>5. CASE Fault BY <1>5 DEF Fault, RestType
<1>6. CASE UNCHANGED vars BY <1>1, <1>6 DEF vars
<1> QED BY <1>1, <1>3, <1>4, <1>5, <1>6 DEF Next

\* The remaining variables keep their types.
LEMMA RestStep == ASSUME RestType, [Next]_vars PROVE RestType'
  BY RestCli, RestBudget DEF RestType
-----------------------------------------------------------------------------
(* The delivery in progress *)

\* No delivery is in progress at the start.
LEMMA DispatchInit == Init => DispatchInv
  BY Domains DEF Init, DispatchInv, Control, Waiting, Message


\* Only PostPrompt gives a delivery a message, the one in progress.
LEMMA OnlyPosts ==
  ASSUME WorldType, [Next]_vars, NEW t \in Tasks, NEW d \in Events,
         contMsg'[t][d] # {}, contMsg'[t][d] # contMsg[t][d]
  PROVE  PostPrompt /\ t = delTask[dl] /\ d = dl
<1>1. CASE UNCHANGED contMsg BY <1>1
<1>2. CASE Environment
  BY <1>1, <1>2 DEF Environment, Post, Edit, Age, AgentWorks, PersonPrompts
<1>3. CASE StartRun \/ EndPoll \/ \E e \in Events : Discover(e)
  BY <1>1, <1>3 DEF StartRun, EndPoll, Discover
<1>4. ASSUME NEW e \in Events, PendingStep(e) PROVE UNCHANGED contMsg
  BY <1>4 DEF PendingStep, TakeEvent, EventCancel, EventContinue, EventStart,
              EventUnmapped, EventClosed, EventDelivered, ContinueCheck, ContinueResume,
              ContinueQueue, ContinueQueued, CancelRecords, CancelAbort
<1>5. ASSUME NEW e \in Events, StartStep(e) PROVE contMsg'[t][d] \in {{}, contMsg[t][d]}
  <2>1. CASE StartCreate(e) BY <2>1 DEF StartCreate, WorldType
  <2>2. CASE DiscardSession(e) BY <2>2 DEF DiscardSession, DropSession, WorldType
  <2> QED BY <1>5, <2>1, <2>2
          DEF StartStep, StartPrepare, StartRecover, AdoptTask, AdoptMapping,
              StartConfirm, StartSave, StartPrompt, StartMap, StartActivate,
              DiscardRecords, DiscardWorkspace
<1>6. ASSUME NEW e \in Events, DispatchStep(e) PROVE UNCHANGED contMsg
  BY <1>6 DEF DispatchStep, TakeDelivery, RefreshEvent, DispatchCancelled, DropEvent,
              MoveContext
<1>7. CASE EndPending \/ EndDispatch \/ EndComplete \/ UpkeepLoop \/ EndRun
  BY <1>1, <1>7 DEF EndPending, EndDispatch, EndComplete, UpkeepLoop,
              RemoveWorkspace, Collected, EndRun, UpkeepFrame
<1>8. CASE DispatchLoop
  <2>1. CASE PostPrompt BY <2>1 DEF PostPrompt, WorldType
  <2> QED BY <1>1, <1>8, <2>1 DEF DispatchLoop, NothingLeft, SelectContexts,
                                  SealDelivery, Finalize
<1>9. CASE \E u \in Tasks : UpkeepStep(u)
  BY <1>1, <1>9 DEF UpkeepStep, CompleteTask, RetainTask, BlockTask, CollectTask,
              UpkeepFrame
<1>10. CASE \/ \E q \in Subjects, u \in Tasks : RegisterPr(q, u)
            \/ Crash \/ PendingRaises \/ DispatchRaises \/ CleanupRaises \/ DeleteFails
  BY <1>1, <1>10 DEF RegisterPr, Crash, PendingRaises, DispatchRaises, CleanupRaises,
              DeleteFails, UpkeepFrame
<1>11. CASE Operator
  <2>1. CASE DeleteSession BY <2>1 DEF DeleteSession, DropSession, WorldType
  <2> QED BY <1>1, <1>11, <2>1 DEF Operator, DeleteCheck, DeleteWorkspace, DeleteRecords
<1>12. CASE UNCHANGED vars BY <1>1, <1>12 DEF vars, storeVars
<1> QED BY StepCases, <1>2, <1>3, <1>4, <1>5, <1>6, <1>7, <1>8, <1>9, <1>10, <1>11, <1>12

\* Inserting a delivery row never makes a delivery delivered.
LEMMA InsertDelivers ==
  ASSUME DbType, NEW x \in Events, NEW t, InsertDelivery(x, t),
         NEW d \in Events, delState'[d] = "delivered"
  PROVE  delState[d] = "delivered"
  BY DEF InsertDelivery, DbType

\* Only Finalize makes a delivery delivered, the one in progress.
LEMMA OnlyFinalizes ==
  ASSUME DbType, Waiting, [Next]_vars, NEW d \in Events,
         delState[d] # "delivered", delState'[d] = "delivered"
  PROVE  Finalize /\ d = dl
<1>1. CASE UNCHANGED delState BY <1>1
<1>2. CASE Environment
  BY <1>1, <1>2 DEF Environment, Post, Edit, Age, AgentWorks, PersonPrompts
<1>3. CASE StartRun \/ EndPoll \/ \E e \in Events : Discover(e)
  BY <1>1, <1>3 DEF StartRun, EndPoll, Discover
<1>4. ASSUME NEW e \in Events, PendingStep(e) PROVE FALSE
  <2>1. CASE ContinueQueue(e)
    BY <1>1, <2>1, InsertDelivers DEF ContinueQueue, QueueDelivery
  <2>2. CASE CancelRecords(e) BY <2>2 DEF CancelRecords, CancelSession
  <2> QED BY <1>1, <1>4, <2>1, <2>2
          DEF PendingStep, TakeEvent, EventCancel, EventContinue, EventStart,
              EventUnmapped, EventClosed, EventDelivered, ContinueCheck, ContinueResume,
              ContinueQueued, CancelAbort
<1>5. ASSUME NEW e \in Events, StartStep(e) PROVE FALSE
  <2>1. CASE DiscardRecords(e) BY <2>1 DEF DiscardRecords, DeleteSessionRecords
  <2> QED BY <1>1, <1>5, <2>1
          DEF StartStep, StartPrepare, StartRecover, AdoptTask, AdoptMapping,
              StartConfirm, StartCreate, StartSave, StartPrompt, StartMap, StartActivate,
              DiscardSession, DiscardWorkspace
<1>6. ASSUME NEW e \in Events, DispatchStep(e) PROVE FALSE
  <2>1. CASE MoveContext(e)
    <3>1. CASE delState[e] = "cancelled"
      BY <2>1, <3>1 DEF MoveContext, MoveDeliveryEvent, DbType
    <3>2. CASE delState[e] # "cancelled"
      BY <2>1, <3>2, InsertDelivers DEF MoveContext, MoveDeliveryEvent
    <3> QED BY <3>1, <3>2
  <2> QED BY <1>1, <1>6, <2>1
          DEF DispatchStep, TakeDelivery, RefreshEvent, DispatchCancelled, DropEvent
<1>7. CASE EndPending \/ EndDispatch \/ EndComplete \/ UpkeepLoop \/ EndRun
  BY <1>1, <1>7 DEF EndPending, EndDispatch, EndComplete, UpkeepLoop,
              RemoveWorkspace, Collected, EndRun, UpkeepFrame
<1>8. CASE DispatchLoop
  <2>1. CASE NothingLeft \/ SealDelivery
    BY <2>1 DEF NothingLeft, SealDelivery, MarkDelivery, DbType
  <2>2. CASE Finalize BY <2>2 DEF Finalize, FinalizeDelivery, MarkDelivery, DbType
  <2> QED BY <1>1, <1>8, <2>1, <2>2 DEF DispatchLoop, SelectContexts, PostPrompt
<1>9. CASE \E u \in Tasks : UpkeepStep(u)
  BY <1>1, <1>9 DEF UpkeepStep, CompleteTask, RetainTask, BlockTask, CollectTask,
              UpkeepFrame
<1>10. CASE DispatchRaises
  BY <1>10 DEF DispatchRaises, MarkDelivery, DbType, Waiting
<1>11. CASE \/ \E q \in Subjects, u \in Tasks : RegisterPr(q, u)
            \/ Crash \/ PendingRaises \/ CleanupRaises \/ DeleteFails
  BY <1>1, <1>11 DEF RegisterPr, Crash, PendingRaises, CleanupRaises, DeleteFails,
              UpkeepFrame
<1>12. CASE Operator
  <2>1. CASE DeleteRecords BY <2>1 DEF DeleteRecords, DeleteSessionRecords
  <2> QED BY <1>1, <1>12, <2>1 DEF Operator, DeleteCheck, DeleteWorkspace, DeleteSession
<1>13. CASE UNCHANGED vars BY <1>1, <1>13 DEF vars, storeVars
<1> QED BY StepCases, <1>2, <1>3, <1>4, <1>5, <1>6, <1>7, <1>8, <1>9, <1>10, <1>11, <1>12,
           <1>13

\* process_pending_events never enters the labels of a delivery in
\* progress.
LEMMA ControlPending ==
  ASSUME Control, NEW e \in Events, PendingStep(e) PROVE Control'
<1> USE DEF Control, Goto, At, EventDone, DispatchLabels
<1>1. CASE TakeEvent(e) BY <1>1 DEF TakeEvent
<1>2. CASE EventCancel(e) \/ EventContinue(e) \/ EventStart(e)
  BY <1>2 DEF EventCancel, EventContinue, EventStart
<1>3. CASE EventUnmapped(e) \/ EventClosed(e) \/ EventDelivered(e)
  BY <1>3 DEF EventUnmapped, EventClosed, EventDelivered
<1>4. CASE \/ ContinueCheck(e) \/ ContinueResume(e) \/ ContinueQueue(e)
           \/ ContinueQueued(e)
  BY <1>4 DEF ContinueCheck, ContinueResume, ContinueQueue, ContinueQueued
<1>5. CASE CancelRecords(e) \/ CancelAbort(e) BY <1>5 DEF CancelRecords, CancelAbort
<1> QED BY <1>1, <1>2, <1>3, <1>4, <1>5 DEF PendingStep

\* Nor does start_task.
LEMMA ControlStart ==
  ASSUME Control, NEW e \in Events, StartStep(e) PROVE Control'
<1> USE DEF Control, Goto, At, EventDone, DispatchLabels
<1>1. CASE StartPrepare(e) \/ StartRecover(e) \/ AdoptTask(e) \/ AdoptMapping(e)
  BY <1>1 DEF StartPrepare, StartRecover, AdoptTask, AdoptMapping
<1>2. CASE StartConfirm(e) \/ StartCreate(e) \/ StartSave(e) \/ StartPrompt(e)
  BY <1>2 DEF StartConfirm, StartCreate, StartSave, StartPrompt
<1>3. CASE StartMap(e) \/ StartActivate(e) BY <1>3 DEF StartMap, StartActivate
<1>4. CASE DiscardSession(e) \/ DiscardRecords(e) \/ DiscardWorkspace(e)
  BY <1>4 DEF DiscardSession, DiscardRecords, DiscardWorkspace
<1> QED BY <1>1, <1>2, <1>3, <1>4 DEF StartStep

\* dispatch_pending takes a delivery out of the queue and keeps it until it
\* is done.
LEMMA ControlDispatch ==
  ASSUME Control, RunType, NEW e \in Events, DispatchStep(e) PROVE Control'
<1> USE Domains DEF Control, Goto, At, DispatchLabels
<1>1. CASE TakeDelivery(e) BY <1>1 DEF TakeDelivery
<1>2. CASE RefreshEvent(e) BY <1>2 DEF RefreshEvent
<1>3. CASE DispatchCancelled(e) \/ DropEvent(e) \/ MoveContext(e)
  BY <1>3 DEF DispatchCancelled, DropEvent, MoveContext
<1> QED BY <1>1, <1>2, <1>3 DEF DispatchStep

\* A delivery that is sealed or prompted carries at least one event; one
\* that is done is let go.
LEMMA ControlLoop ==
  ASSUME Control, RunType, DispatchLoop \/ PendingRaises \/ DispatchRaises
  PROVE  Control'
<1> USE Domains DEF Control, Goto, RunType, DeliveryDone, DispatchLabels
<1>1. CASE NothingLeft \/ Finalize BY <1>1 DEF NothingLeft, Finalize
<1>2. CASE SelectContexts
  <2>1. First(ctx) # {} BY <1>2, FirstExists DEF SelectContexts
  <2>2. First(ctx) \subseteq ctx BY DEF First
  <2>3. ctx' # {} BY <1>2, <2>1, <2>2 DEF SelectContexts
  <2> QED BY <1>2, <2>3 DEF SelectContexts
<1>3. CASE SealDelivery \/ PostPrompt BY <1>3 DEF SealDelivery, PostPrompt
<1>4. CASE PendingRaises BY <1>4 DEF PendingRaises, EventDone
<1>5. CASE DispatchRaises BY <1>5 DEF DispatchRaises
<1> QED BY <1>1, <1>2, <1>3, <1>4, <1>5 DEF DispatchLoop

\* The upkeep loops run with no delivery in progress.
LEMMA ControlUpkeep ==
  ASSUME Control, RunType,
         \/ \E t \in Tasks : UpkeepStep(t)
         \/ UpkeepLoop \/ CleanupRaises \/ EndDispatch \/ EndComplete \/ EndRun
  PROVE  Control'
<1> USE Domains DEF Control, UpkeepFrame, Goto, DispatchLabels
<1>1. ASSUME NEW t \in Tasks, UpkeepStep(t) PROVE Control'
  BY <1>1 DEF UpkeepStep, CompleteTask, RetainTask, BlockTask, CollectTask
<1>2. CASE UpkeepLoop BY <1>2 DEF UpkeepLoop, RemoveWorkspace, Collected
<1>3. CASE CleanupRaises BY <1>3 DEF CleanupRaises
<1>4. CASE EndDispatch \/ EndComplete \/ EndRun
  BY <1>4 DEF EndDispatch, EndComplete, EndRun
<1> QED BY <1>1, <1>2, <1>3, <1>4

\* Every step keeps the control facts of dispatch_pending.
LEMMA ControlStep == ASSUME Control, RunType, [Next]_vars PROVE Control'
<1>1. CASE UNCHANGED runVars BY <1>1 DEF Control
<1>2. CASE Environment
  BY <1>1, <1>2 DEF Environment, Post, Edit, Age, AgentWorks, PersonPrompts
<1>3. CASE StartRun \/ EndPoll \/ EndPending
  BY <1>3, Domains DEF StartRun, EndPoll, EndPending, Goto, Control, DispatchLabels
<1>4. CASE \E e \in Events : Discover(e) BY <1>1, <1>4 DEF Discover
<1>5. CASE \/ \E p \in Subjects, t \in Tasks : RegisterPr(p, t)
           \/ Operator \/ DeleteFails
  BY <1>1, <1>5 DEF RegisterPr, Operator, DeleteCheck, DeleteWorkspace, DeleteSession,
              DeleteRecords, DeleteFails
<1>6. CASE Crash BY <1>6 DEF Crash, Idle, Control
<1>7. CASE UNCHANGED vars BY <1>1, <1>7 DEF vars, storeVars
<1> QED BY StepCases, ControlPending, ControlStart, ControlDispatch, ControlLoop,
           ControlUpkeep, <1>2, <1>3, <1>4, <1>5, <1>6, <1>7

\* Only what is not delivered is queued or taken.
LEMMA WaitingTaken ==
  ASSUME Waiting, [Next]_vars
  PROVE  rowState' # "delivered" /\ \A d \in queue' : delState[d] # "delivered"
<1> USE DEF Waiting
<1>1. CASE UNCHANGED <<rowState, queue>> BY <1>1
<1>2. CASE Environment
  BY <1>1, <1>2 DEF Environment, Post, Edit, Age, AgentWorks, PersonPrompts
<1>3. CASE StartRun \/ EndPoll \/ \E e \in Events : Discover(e)
  BY <1>1, <1>3 DEF StartRun, EndPoll, Discover
<1>4. ASSUME NEW e \in Events, PendingStep(e) PROVE UNCHANGED <<rowState, queue>>
  BY <1>4 DEF PendingStep, TakeEvent, EventCancel, EventContinue, EventStart,
              EventUnmapped, EventClosed, EventDelivered, ContinueCheck, ContinueResume,
              ContinueQueue, ContinueQueued, CancelRecords, CancelAbort
<1>5. ASSUME NEW e \in Events, StartStep(e) PROVE UNCHANGED <<rowState, queue>>
  BY <1>5 DEF StartStep, StartPrepare, StartRecover, AdoptTask, AdoptMapping,
              StartConfirm, StartCreate, StartSave, StartPrompt, StartMap,
              StartActivate, DiscardSession, DiscardRecords, DiscardWorkspace
<1>6. ASSUME NEW e \in Events, DispatchStep(e)
      PROVE  rowState' # "delivered" /\ \A d \in queue' : delState[d] # "delivered"
  <2>1. CASE TakeDelivery(e) BY <2>1 DEF TakeDelivery, Oldest
  <2> QED BY <1>6, <2>1
          DEF DispatchStep, RefreshEvent, DispatchCancelled, DropEvent, MoveContext
<1>7. CASE EndPending BY <1>7 DEF EndPending, Live
<1>8. CASE DispatchLoop
  BY <1>8 DEF DispatchLoop, NothingLeft, SelectContexts, SealDelivery, PostPrompt,
              Finalize, DeliveryDone
<1>9. CASE EndDispatch \/ EndComplete \/ UpkeepLoop \/ EndRun
  BY <1>1, <1>9 DEF EndDispatch, EndComplete, UpkeepLoop, RemoveWorkspace, Collected,
              EndRun, UpkeepFrame
<1>10. CASE \E t \in Tasks : UpkeepStep(t)
  BY <1>1, <1>10 DEF UpkeepStep, CompleteTask, RetainTask, BlockTask, CollectTask,
              UpkeepFrame
<1>11. CASE DispatchRaises BY <1>11 DEF DispatchRaises, DeliveryDone
<1>12. CASE Crash BY <1>12 DEF Crash, Idle
<1>13. CASE \/ \E q \in Subjects, t \in Tasks : RegisterPr(q, t)
            \/ Operator \/ PendingRaises \/ CleanupRaises \/ DeleteFails
  BY <1>1, <1>13 DEF RegisterPr, Operator, DeleteCheck, DeleteWorkspace, DeleteSession,
              DeleteRecords, PendingRaises, CleanupRaises, DeleteFails, UpkeepFrame
<1>14. CASE UNCHANGED vars BY <1>1, <1>14 DEF vars, storeVars
<1> QED BY StepCases, <1>2, <1>3, <1>4, <1>5, <1>6, <1>7, <1>8, <1>9, <1>10, <1>11, <1>12,
           <1>13, <1>14

\* What waits in the queue stays undelivered until it is taken.
LEMMA WaitingStep ==
  ASSUME Control, Waiting, DbType, RunType, [Next]_vars PROVE Waiting'
<1>1. rowState' # "delivered" /\ \A d \in queue' : delState[d] # "delivered"
  BY WaitingTaken
<1>2. ASSUME NEW d \in queue', delState'[d] = "delivered" PROVE FALSE
  <2>1. d \in Events BY RunStep DEF RunType
  <2>2. Finalize /\ d = dl BY <1>1, <1>2, <2>1, OnlyFinalizes
  <2>3. queue' = queue BY <2>2 DEF Finalize
  <2> QED BY <1>2, <2>2, <2>3 DEF Control
<1> QED BY <1>1, <1>2 DEF Waiting

\* While a delivery is in progress its session stays the same, or is deleted.
LEMMA TargetStays ==
  ASSUME DbType, Control, [Next]_vars, dl \in Events, dl # NoEvent
  PROVE  delTask'[dl] \in {delTask[dl], NoTask}
<1> USE DEF Control, DispatchLabels
<1>1. CASE UNCHANGED delTask BY <1>1
<1>2. CASE Environment
  BY <1>1, <1>2 DEF Environment, Post, Edit, Age, AgentWorks, PersonPrompts
<1>3. CASE StartRun \/ EndPoll \/ \E e \in Events : Discover(e)
  BY <1>1, <1>3 DEF StartRun, EndPoll, Discover
<1>4. ASSUME NEW e \in Events, PendingStep(e) PROVE UNCHANGED delTask
  <2>1. ~ContinueQueue(e) BY DEF ContinueQueue, At
  <2> QED BY <1>4, <2>1
          DEF PendingStep, TakeEvent, EventCancel, EventContinue, EventStart,
              EventUnmapped, EventClosed, EventDelivered, ContinueCheck, ContinueResume,
              ContinueQueued, CancelRecords, CancelAbort
<1>5. ASSUME NEW e \in Events, StartStep(e) PROVE UNCHANGED delTask
  <2>1. ~DiscardRecords(e) BY DEF DiscardRecords, At
  <2> QED BY <1>5, <2>1
          DEF StartStep, StartPrepare, StartRecover, AdoptTask, AdoptMapping,
              StartConfirm, StartCreate, StartSave, StartPrompt, StartMap,
              StartActivate, DiscardSession, DiscardWorkspace
<1>6. ASSUME NEW e \in Events, DispatchStep(e) PROVE delTask'[dl] = delTask[dl]
  <2>1. CASE MoveContext(e)
    BY <2>1 DEF MoveContext, MoveDeliveryEvent, InsertDelivery, DbType
  <2> QED BY <1>6, <2>1
          DEF DispatchStep, TakeDelivery, RefreshEvent, DispatchCancelled, DropEvent
<1>7. CASE EndPending \/ DispatchLoop \/ EndDispatch \/ EndComplete \/ UpkeepLoop \/ EndRun
  BY <1>1, <1>7 DEF EndPending, DispatchLoop, NothingLeft, SelectContexts, SealDelivery,
              PostPrompt, Finalize, EndDispatch, EndComplete, UpkeepLoop,
              RemoveWorkspace, Collected, EndRun, UpkeepFrame
<1>8. CASE \E t \in Tasks : UpkeepStep(t)
  BY <1>1, <1>8 DEF UpkeepStep, CompleteTask, RetainTask, BlockTask, CollectTask,
              UpkeepFrame
<1>9. CASE \/ \E q \in Subjects, t \in Tasks : RegisterPr(q, t)
           \/ Crash \/ PendingRaises \/ DispatchRaises \/ CleanupRaises \/ DeleteFails
  BY <1>1, <1>9 DEF RegisterPr, Crash, PendingRaises, DispatchRaises, CleanupRaises,
              DeleteFails, UpkeepFrame
<1>10. CASE Operator
  <2>1. CASE DeleteRecords BY <2>1 DEF DeleteRecords, DeleteSessionRecords, DbType
  <2> QED BY <1>1, <1>10, <2>1 DEF Operator, DeleteCheck, DeleteWorkspace, DeleteSession
<1>11. CASE UNCHANGED vars BY <1>1, <1>11 DEF vars, storeVars
<1> QED BY StepCases, <1>1, <1>2, <1>3, <1>4, <1>5, <1>6, <1>7, <1>8, <1>9, <1>10, <1>11

\* While a delivery is in progress no session comes back, and the messages of
\* a session go only with it.
LEMMA SessionsStay ==
  ASSUME WorldType, Control, [Next]_vars, dl # NoEvent, NEW t \in Tasks, NEW d \in Events
  PROVE  /\ sess[t] = "none" => sess'[t] = "none"
         /\ contMsg'[t][d] # contMsg[t][d] => sess'[t] = "none" \/ PostPrompt
<1> USE DEF Control, DispatchLabels, WorldType
<1>1. CASE UNCHANGED <<sess, contMsg>> BY <1>1
<1>2. CASE Environment
  <2>1. ASSUME NEW u \in Tasks, AgentWorks(u) \/ PersonPrompts(u)
        PROVE  UNCHANGED contMsg /\ (sess[t] = "none" => sess'[t] = "none")
    BY <2>1 DEF AgentWorks, PersonPrompts
  <2> QED BY <1>1, <1>2, <2>1 DEF Environment, Post, Edit, Age
<1>3. CASE StartRun \/ EndPoll \/ \E e \in Events : Discover(e)
  BY <1>1, <1>3 DEF StartRun, EndPoll, Discover
<1>4. ASSUME NEW e \in Events, PendingStep(e)
      PROVE  UNCHANGED contMsg /\ (sess[t] = "none" => sess'[t] = "none")
  <2>1. CASE CancelAbort(e) BY <2>1 DEF CancelAbort
  <2> QED BY <1>4, <2>1
          DEF PendingStep, TakeEvent, EventCancel, EventContinue, EventStart,
              EventUnmapped, EventClosed, EventDelivered, ContinueCheck, ContinueResume,
              ContinueQueue, ContinueQueued, CancelRecords
<1>5. ASSUME NEW e \in Events, StartStep(e) PROVE FALSE
  BY <1>5 DEF StartStep, StartPrepare, StartRecover, AdoptTask, AdoptMapping,
              StartConfirm, StartCreate, StartSave, StartPrompt, StartMap,
              StartActivate, DiscardSession, DiscardRecords, DiscardWorkspace, At
<1>6. ASSUME NEW e \in Events, DispatchStep(e) PROVE UNCHANGED <<sess, contMsg>>
  BY <1>6 DEF DispatchStep, TakeDelivery, RefreshEvent, DispatchCancelled, DropEvent,
              MoveContext
<1>7. CASE PostPrompt BY <1>7 DEF PostPrompt
<1>8. CASE EndPending \/ DispatchLoop \/ EndDispatch \/ EndComplete \/ UpkeepLoop \/ EndRun
  BY <1>1, <1>7, <1>8 DEF EndPending, DispatchLoop, NothingLeft, SelectContexts,
              SealDelivery, Finalize, EndDispatch, EndComplete, UpkeepLoop,
              RemoveWorkspace, Collected, EndRun, UpkeepFrame
<1>9. CASE \E u \in Tasks : UpkeepStep(u)
  BY <1>1, <1>9 DEF UpkeepStep, CompleteTask, RetainTask, BlockTask, CollectTask,
              UpkeepFrame
<1>10. CASE \/ \E q \in Subjects, u \in Tasks : RegisterPr(q, u)
            \/ Crash \/ PendingRaises \/ DispatchRaises \/ CleanupRaises \/ DeleteFails
  BY <1>1, <1>10 DEF RegisterPr, Crash, PendingRaises, DispatchRaises, CleanupRaises,
              DeleteFails, UpkeepFrame
<1>11. CASE Operator
  <2>1. CASE DeleteSession BY <2>1 DEF DeleteSession, DropSession
  <2> QED BY <1>1, <1>11, <2>1 DEF Operator, DeleteCheck, DeleteWorkspace, DeleteRecords
<1>12. CASE UNCHANGED vars BY <1>1, <1>12 DEF vars, storeVars
<1> QED BY StepCases, <1>2, <1>3, <1>4, <1>5, <1>6, <1>8, <1>9, <1>10, <1>11, <1>12

\* Only TakeDelivery takes a delivery up, and only it and PostPrompt lead to
\* the end of one.
LEMMA DeliveryStays ==
  ASSUME Control, [Next]_vars, ~PostPrompt, \A e \in Events : ~TakeDelivery(e)
  PROVE  dl' = NoEvent \/ (dl' = dl /\ (pc' = "finalize" <=> pc = "finalize"))
<1> USE DEF Control, DispatchLabels, Goto
<1>1. CASE UNCHANGED <<pc, dl>> BY <1>1
<1>2. CASE Environment
  BY <1>1, <1>2 DEF Environment, Post, Edit, Age, AgentWorks, PersonPrompts
<1>3. CASE StartRun \/ EndPoll \/ \E e \in Events : Discover(e)
  BY <1>1, <1>3 DEF StartRun, EndPoll, Discover
<1>4. ASSUME NEW e \in Events, PendingStep(e)
      PROVE  dl' = dl /\ pc' # "finalize" /\ pc # "finalize"
  BY <1>4 DEF PendingStep, TakeEvent, EventCancel, EventContinue, EventStart,
              EventUnmapped, EventClosed, EventDelivered, ContinueCheck, ContinueResume,
              ContinueQueue, ContinueQueued, CancelRecords, CancelAbort, EventDone, At
<1>5. ASSUME NEW e \in Events, StartStep(e) PROVE dl' = NoEvent
  BY <1>5 DEF StartStep, StartPrepare, StartRecover, AdoptTask, AdoptMapping,
              StartConfirm, StartCreate, StartSave, StartPrompt, StartMap,
              StartActivate, DiscardSession, DiscardRecords, DiscardWorkspace, At
<1>6. ASSUME NEW e \in Events, DispatchStep(e)
      PROVE  dl' = dl /\ pc' # "finalize" /\ pc # "finalize"
  BY <1>6 DEF DispatchStep, RefreshEvent, DispatchCancelled, DropEvent, MoveContext, At
<1>7. CASE DispatchLoop
  BY <1>7 DEF DispatchLoop, NothingLeft, SelectContexts, SealDelivery, Finalize,
              DeliveryDone
<1>8. CASE EndPending \/ EndDispatch \/ EndComplete \/ UpkeepLoop \/ EndRun
  BY <1>8 DEF EndPending, EndDispatch, EndComplete, UpkeepLoop, RemoveWorkspace,
              Collected, EndRun, UpkeepFrame
<1>9. CASE \E u \in Tasks : UpkeepStep(u)
  BY <1>9 DEF UpkeepStep, CompleteTask, RetainTask, BlockTask, CollectTask, UpkeepFrame
<1>10. CASE PendingRaises \/ DispatchRaises
  BY <1>10 DEF PendingRaises, DispatchRaises, EventDone, DeliveryDone
<1>11. CASE Crash \/ CleanupRaises
  BY <1>11 DEF Crash, Idle, CleanupRaises, UpkeepFrame
<1>12. CASE \/ \E q \in Subjects, u \in Tasks : RegisterPr(q, u)
            \/ Operator \/ DeleteFails
  BY <1>1, <1>12 DEF RegisterPr, Operator, DeleteCheck, DeleteWorkspace, DeleteSession,
              DeleteRecords, DeleteFails
<1>13. CASE UNCHANGED vars BY <1>1, <1>13 DEF vars, storeVars
<1> QED BY StepCases, <1>2, <1>3, <1>4, <1>5, <1>6, <1>7, <1>8, <1>9, <1>10, <1>11, <1>12,
           <1>13

\* Between TakeDelivery and Finalize only PostPrompt changes whether OpenCode
\* has the message of the delivery in progress.
LEMMA MessageStep ==
  ASSUME DbType, WorldType, RunType, Control, Message, [Next]_vars
  PROVE  Message'
<1> USE Domains
<1>1. ASSUME NEW e \in Events, TakeDelivery(e) PROVE Message'
  <2>1. Posted(e)' <=> Posted(e) BY <1>1 DEF TakeDelivery, Posted
  <2>2. dl = NoEvent BY <1>1 DEF TakeDelivery, Control, DispatchLabels
  <2>3. CASE dl' = dl BY <1>1, <2>2, <2>3 DEF TakeDelivery, Message
  <2>4. CASE dl' = e /\ pc' = IF Posted(e) THEN "finalize" ELSE "refresh"
    BY <2>1, <2>4 DEF Message, Reached
  <2> QED BY <1>1, <2>3, <2>4 DEF TakeDelivery, Goto
<1>2. CASE PostPrompt
  <2>1. dl \in Events /\ ctx # {} BY <1>2 DEF PostPrompt, Control, RunType
  <2>2. delTask[dl] \in Tasks BY <1>2, <2>1 DEF PostPrompt, DbType
  <2>3. contMsg'[delTask[dl]][dl] = ctx BY <1>2, <2>1, <2>2 DEF PostPrompt, WorldType
  <2>4. delTask' = delTask /\ dl' = dl /\ pc' = "finalize"
    BY <1>2 DEF PostPrompt, Goto
  <2> QED BY <2>1, <2>2, <2>3, <2>4 DEF Message, Reached, Posted
<1>3. CASE ~PostPrompt /\ \A e \in Events : ~TakeDelivery(e)
  <2>1. dl' = NoEvent \/ (dl' = dl /\ (pc' = "finalize" <=> pc = "finalize"))
    BY <1>3, DeliveryStays
  <2>2. CASE dl' = NoEvent
    <3>1. pc' # "finalize" BY <2>2, ControlStep DEF Control
    <3> QED BY <2>2, <3>1 DEF Message
  <2>3. CASE dl' = dl /\ dl # NoEvent /\ (pc' = "finalize" <=> pc = "finalize")
    <3>1. dl \in Events BY <2>3 DEF RunType
    <3>2. delTask'[dl] \in {delTask[dl], NoTask} BY <2>3, <3>1, TargetStays
    <3>3. delTask[dl] \in Tasks \cup {NoTask} BY <3>1 DEF DbType
    <3>4. CASE delTask'[dl] = NoTask
      BY <2>3, <3>4 DEF Message, Reached, Posted
    <3>5. CASE delTask'[dl] = delTask[dl] /\ delTask[dl] \in Tasks
      <4>1. CASE pc = "finalize"
        <5>1. Posted(dl) \/ sess[delTask[dl]] = "none"
          BY <3>5, <4>1 DEF Message, Reached
        <5>2. CASE sess[delTask[dl]] = "none"
          BY <2>3, <3>1, <3>5, <4>1, <5>2, SessionsStay DEF Message, Reached
        <5>3. CASE contMsg'[delTask[dl]][dl] = contMsg[delTask[dl]][dl]
          BY <2>3, <3>5, <4>1, <5>1, <5>2, <5>3 DEF Message, Reached, Posted
        <5>4. CASE contMsg'[delTask[dl]][dl] # contMsg[delTask[dl]][dl]
          <6>1. sess'[delTask[dl]] = "none"
            BY <1>3, <2>3, <3>1, <3>5, <5>4, SessionsStay
          <6> QED BY <2>3, <3>5, <4>1, <6>1 DEF Message, Reached
        <5> QED BY <5>3, <5>4
      <4>2. CASE pc # "finalize"
        <5>1. contMsg[delTask[dl]][dl] = {}
          BY <2>3, <3>5, <4>2, Domains DEF Message, Posted
        <5>2. contMsg'[delTask[dl]][dl] = {}
          BY <1>3, <3>1, <3>5, <5>1, OnlyPosts
        <5> QED BY <2>3, <3>5, <4>2, <5>2 DEF Message, Posted
      <4> QED BY <4>1, <4>2
    <3> QED BY <3>2, <3>3, <3>4, <3>5
  <2> QED BY <2>1, <2>2, <2>3
<1> QED BY <1>1, <1>2, <1>3
-----------------------------------------------------------------------------
(* The theorems *)

\* The inductive invariant of the bridge.
IInv == TypeOK /\ EventsKnown /\ DispatchInv

\* The inductive invariant holds at the start.
LEMMA IInvInit == Init => IInv
  BY DbInit, WorldInit, RunInit, KnownInit, DispatchInit
  DEF Init, IInv, TypeOK

\* Every step keeps the inductive invariant.
LEMMA IInvStep == ASSUME IInv, [Next]_vars PROVE IInv'
<1>1. DbType /\ WorldType /\ RunType /\ RestType BY DEF IInv, TypeOK, RestType
<1>2. EventsKnown /\ Control /\ Waiting /\ Message BY DEF IInv, DispatchInv
<1>3. DbType' BY <1>1, <1>2, DbStep
<1>4. WorldType' BY <1>1, WorldStep
<1>5. RunType' BY <1>1, RunStep
<1>6. RestType' BY <1>1, RestStep
<1>7. EventsKnown' BY <1>1, <1>2, KnownStep
<1>8. Control' BY <1>1, <1>2, ControlStep
<1>9. Waiting' BY <1>1, <1>2, WaitingStep
<1>10. Message' BY <1>1, <1>2, MessageStep
<1> QED BY <1>3, <1>4, <1>5, <1>6, <1>7, <1>8, <1>9, <1>10
        DEF IInv, TypeOK, RestType, DispatchInv

\* The inductive invariant holds in every reachable state.
LEMMA Invariance == Spec => []IInv
<1>1. IInv /\ [Next]_vars => IInv' BY IInvStep
<1> QED BY IInvInit, <1>1, PTL DEF Spec

\* Every variable of the bridge has its type in every reachable state: every
\* row, local and label the code writes is one of those it can be read as.
THEOREM TypeCorrect == Spec => []TypeOK
<1>1. IInv => TypeOK BY DEF IInv
<1> QED BY <1>1, Invariance, PTL

\* dispatch_pending never sends the message of a delivery again with another
\* text: message_exists is asked after every failure or kill before the prompt,
\* and nothing else writes the message while the delivery is in progress.
THEOREM PromptsFinal == Spec => PromptsAreFinal
<1>1. ASSUME IInv, [Next]_vars, NEW t \in Tasks, NEW d \in Events, contMsg[t][d] # {}
      PROVE  contMsg'[t][d] \in {{}, contMsg[t][d]}
  <2> SUFFICES ASSUME contMsg'[t][d] # {}, contMsg'[t][d] # contMsg[t][d] PROVE FALSE
    OBVIOUS
  <2>1. PostPrompt /\ t = delTask[dl] /\ d = dl
    BY <1>1, OnlyPosts DEF IInv, TypeOK
  <2>2. pc = "post" /\ dl # NoEvent
    BY <1>1, <2>1 DEF PostPrompt, IInv, DispatchInv, Control
  <2>3. ~Posted(dl) BY <1>1, <2>2 DEF IInv, DispatchInv, Message
  <2> QED BY <1>1, <2>1, <2>3 DEF Posted, PostPrompt
<1>2. IInv /\ [Next]_vars =>
        \A t \in Tasks, d \in Events :
          contMsg[t][d] # {} => contMsg'[t][d] \in {{}, contMsg[t][d]}
  BY <1>1
<1>3. IInv /\ [Next]_vars =>
        [\A t \in Tasks, d \in Events :
          contMsg[t][d] # {} => contMsg'[t][d] \in {{}, contMsg[t][d]}]_vars
  BY <1>2
<1> QED BY <1>3, Invariance, PTL DEF Spec, PromptsAreFinal

\* No delivery is recorded as delivered whose message OpenCode does not have,
\* whatever calls fail and wherever runs are killed; only an operator who
\* deletes the session between the prompt and the record can take it away.
THEOREM DeliveredPosted == Spec => DeliveredWasPosted
<1>1. ASSUME IInv, [Next]_vars, NEW d \in Events,
             delState[d] # "delivered", delState'[d] = "delivered"
      PROVE  Posted(d) \/ delTask[d] = NoTask \/ sess[delTask[d]] = "none"
  <2>1. Finalize /\ d = dl BY <1>1, OnlyFinalizes DEF IInv, TypeOK, DispatchInv
  <2>2. Reached(dl) BY <1>1, <2>1 DEF Finalize, IInv, DispatchInv, Message
  <2> QED BY <2>1, <2>2 DEF Reached
<1>2. IInv /\ [Next]_vars =>
        [\A d \in Events :
          delState[d] # "delivered" /\ delState'[d] = "delivered" =>
            Posted(d) \/ delTask[d] = NoTask \/ sess[delTask[d]] = "none"]_vars
  BY <1>1
<1> QED BY <1>2, Invariance, PTL DEF Spec, DeliveredWasPosted
-----------------------------------------------------------------------------
(* Who changes what *)

\* The operations that write delivery rows.
LEMMA RowSteps ==
  ASSUME [Next]_vars
  PROVE  \/ UNCHANGED <<delState, delTask>>
         \/ \E e \in Events : ContinueQueue(e) \/ CancelRecords(e) \/ DiscardRecords(e)
                              \/ MoveContext(e)
         \/ NothingLeft \/ SealDelivery \/ Finalize \/ DispatchRaises \/ DeleteRecords
<1> DEFINE Same == UNCHANGED <<delState, delTask>>
<1>1. CASE Environment
  BY <1>1 DEF Environment, Post, Edit, Age, AgentWorks, PersonPrompts
<1>2. CASE StartRun \/ EndPoll \/ \E e \in Events : Discover(e)
  BY <1>2 DEF StartRun, EndPoll, Discover
<1>3. ASSUME NEW e \in Events, PendingStep(e)
      PROVE  Same \/ ContinueQueue(e) \/ CancelRecords(e)
  BY <1>3 DEF PendingStep, TakeEvent, EventCancel, EventContinue, EventStart,
              EventUnmapped, EventClosed, EventDelivered, ContinueCheck, ContinueResume,
              ContinueQueued, CancelAbort
<1>4. ASSUME NEW e \in Events, StartStep(e) PROVE Same \/ DiscardRecords(e)
  BY <1>4 DEF StartStep, StartPrepare, StartRecover, AdoptTask, AdoptMapping,
              StartConfirm, StartCreate, StartSave, StartPrompt, StartMap, StartActivate,
              DiscardSession, DiscardWorkspace
<1>5. ASSUME NEW e \in Events, DispatchStep(e) PROVE Same \/ MoveContext(e)
  BY <1>5 DEF DispatchStep, TakeDelivery, RefreshEvent, DispatchCancelled, DropEvent
<1>6. CASE EndPending \/ EndDispatch \/ EndComplete \/ UpkeepLoop \/ EndRun
  BY <1>6 DEF EndPending, EndDispatch, EndComplete, UpkeepLoop, RemoveWorkspace,
              Collected, EndRun, UpkeepFrame
<1>7. CASE DispatchLoop BY <1>7 DEF DispatchLoop, SelectContexts, PostPrompt
<1>8. CASE \E t \in Tasks : UpkeepStep(t)
  BY <1>8 DEF UpkeepStep, CompleteTask, RetainTask, BlockTask, CollectTask, UpkeepFrame
<1>9. CASE \/ \E p \in Subjects, t \in Tasks : RegisterPr(p, t)
           \/ Crash \/ PendingRaises \/ CleanupRaises \/ DeleteFails
  BY <1>9 DEF RegisterPr, Crash, PendingRaises, CleanupRaises, DeleteFails, UpkeepFrame
<1>10. CASE Operator BY <1>10 DEF Operator, DeleteCheck, DeleteWorkspace, DeleteSession
<1>11. CASE UNCHANGED vars BY <1>11 DEF vars, storeVars
<1> QED BY StepCases, <1>1, <1>2, <1>3, <1>4, <1>5, <1>6, <1>7, <1>8, <1>9, <1>10, <1>11

\* The operations that write task rows.
LEMMA TaskSteps ==
  ASSUME [Next]_vars
  PROVE  \/ UNCHANGED taskState
         \/ \E e \in Events : \/ ContinueResume(e) \/ CancelRecords(e) \/ AdoptTask(e)
                              \/ StartSave(e) \/ StartActivate(e) \/ DiscardRecords(e)
         \/ \E t \in Tasks : CompleteTask(t) \/ BlockTask(t) \/ CollectTask(t)
         \/ Collected \/ CleanupRaises \/ DeleteRecords
         \/ \E p \in Subjects, t \in Tasks : RegisterPr(p, t)
<1> DEFINE Same == UNCHANGED taskState
<1>1. CASE Environment
  BY <1>1 DEF Environment, Post, Edit, Age, AgentWorks, PersonPrompts
<1>2. CASE StartRun \/ EndPoll \/ \E e \in Events : Discover(e)
  BY <1>2 DEF StartRun, EndPoll, Discover
<1>3. ASSUME NEW e \in Events, PendingStep(e)
      PROVE  Same \/ ContinueResume(e) \/ CancelRecords(e)
  BY <1>3 DEF PendingStep, TakeEvent, EventCancel, EventContinue, EventStart,
              EventUnmapped, EventClosed, EventDelivered, ContinueCheck, ContinueQueue,
              ContinueQueued, CancelAbort
<1>4. ASSUME NEW e \in Events, StartStep(e)
      PROVE  Same \/ AdoptTask(e) \/ StartSave(e) \/ StartActivate(e) \/ DiscardRecords(e)
  BY <1>4 DEF StartStep, StartPrepare, StartRecover, AdoptMapping, StartConfirm,
              StartCreate, StartPrompt, StartMap, DiscardSession, DiscardWorkspace
<1>5. ASSUME NEW e \in Events, DispatchStep(e) PROVE Same
  BY <1>5 DEF DispatchStep, TakeDelivery, RefreshEvent, DispatchCancelled, DropEvent,
              MoveContext
<1>6. CASE EndPending \/ EndDispatch \/ EndComplete \/ RemoveWorkspace \/ EndRun
  BY <1>6 DEF EndPending, EndDispatch, EndComplete, RemoveWorkspace, EndRun, UpkeepFrame
<1>7. CASE DispatchLoop
  BY <1>7 DEF DispatchLoop, NothingLeft, SelectContexts, SealDelivery, PostPrompt, Finalize
<1>8. ASSUME NEW t \in Tasks, UpkeepStep(t)
      PROVE  Same \/ CompleteTask(t) \/ BlockTask(t) \/ CollectTask(t)
  BY <1>8 DEF UpkeepStep, RetainTask
<1>9. CASE Crash \/ PendingRaises \/ DispatchRaises \/ DeleteFails
  BY <1>9 DEF Crash, PendingRaises, DispatchRaises, DeleteFails
<1>10. CASE Operator BY <1>10 DEF Operator, DeleteCheck, DeleteWorkspace, DeleteSession
<1>11. CASE UNCHANGED vars BY <1>11 DEF vars, storeVars
<1> QED BY StepCases, <1>1, <1>2, <1>3, <1>4, <1>5, <1>6, <1>7, <1>8, <1>9, <1>10, <1>11
        DEF UpkeepLoop
-----------------------------------------------------------------------------
(* Feedback and the state of its task *)

Shelved == {"collecting", "collected"}

\* While feedback always fits its prompt no delivery is split; and between
\* deliveries no event is left over.
Whole == pc \in {"move", "dispatch"} => todo = {}

\* The latter half of it, which holds in any case.
Fresh == pc = "dispatch" => todo = {}

\* Where the run is when it queues feedback, collects a task or dispatches,
\* and what it knows of the task then.
Aware ==
  /\ pc = "queue" /\ held # NoTask => taskState[held] \in {"none", "active"}
  /\ pc \in {"remove", "collected"} =>
       tk # NoTask /\ taskState[tk] \in {"none", "collecting"}
  /\ queue # {} => pc = "dispatch" \/ dl # NoEvent
  /\ \A d \in queue :
       delTask[d] # NoTask /\ taskState[delTask[d]] \notin {"none", "paused"} =>
         delState[d] \in Live
  /\ dl # NoEvent /\ delTask[dl] # NoTask => taskState[delTask[dl]] \notin Shelved

QuietInv == Whole /\ Aware /\ CollectedIsQuiet

\* Nothing is split.
LEMMA WholeKept ==
  ASSUME CanOverflow = FALSE, [Next]_vars, Whole
  PROVE  Whole'
<1> USE DEF Whole, Goto, At, EventDone, DeliveryDone
<1>1. CASE UNCHANGED <<pc, todo>> BY <1>1
<1>2. CASE Environment
  BY <1>1, <1>2 DEF Environment, Post, Edit, Age, AgentWorks, PersonPrompts
<1>3. CASE StartRun \/ EndPoll \/ \E e \in Events : Discover(e)
  BY <1>1, <1>3 DEF StartRun, EndPoll, Discover
<1>4. ASSUME NEW e \in Events, PendingStep(e) PROVE Whole'
  BY <1>4 DEF PendingStep, TakeEvent, EventCancel, EventContinue, EventStart,
              EventUnmapped, EventClosed, EventDelivered, ContinueCheck, ContinueResume,
              ContinueQueue, ContinueQueued, CancelRecords, CancelAbort
<1>5. ASSUME NEW e \in Events, StartStep(e) PROVE Whole'
  BY <1>5 DEF StartStep, StartPrepare, StartRecover, AdoptTask, AdoptMapping,
              StartConfirm, StartCreate, StartSave, StartPrompt, StartMap,
              StartActivate, DiscardSession, DiscardRecords, DiscardWorkspace
<1>6. ASSUME NEW e \in Events, DispatchStep(e) PROVE Whole'
  BY <1>6 DEF DispatchStep, TakeDelivery, RefreshEvent, DispatchCancelled, DropEvent,
              MoveContext, First
<1>7. CASE SelectContexts BY <1>7 DEF SelectContexts
<1>8. CASE DispatchLoop
  BY <1>7, <1>8 DEF DispatchLoop, NothingLeft, SealDelivery, PostPrompt, Finalize
<1>9. CASE EndPending \/ EndDispatch \/ EndComplete \/ UpkeepLoop \/ EndRun
  BY <1>9 DEF EndPending, EndDispatch, EndComplete, UpkeepLoop, RemoveWorkspace,
              Collected, EndRun, UpkeepFrame
<1>10. CASE \E t \in Tasks : UpkeepStep(t)
  BY <1>1, <1>10 DEF UpkeepStep, CompleteTask, RetainTask, BlockTask, CollectTask, UpkeepFrame
<1>11. CASE Crash \/ PendingRaises \/ DispatchRaises
  BY <1>11 DEF Crash, Idle, PendingRaises, DispatchRaises
<1>12. CASE CleanupRaises BY <1>1, <1>12 DEF CleanupRaises, UpkeepFrame
<1>13. CASE \/ \E q \in Subjects, u \in Tasks : RegisterPr(q, u)
            \/ Operator \/ DeleteFails
  BY <1>1, <1>13 DEF RegisterPr, Operator, DeleteCheck, DeleteWorkspace, DeleteSession,
              DeleteRecords, DeleteFails
<1>14. CASE UNCHANGED vars BY <1>1, <1>14 DEF vars, storeVars
<1> QED BY StepCases, <1>2, <1>3, <1>4, <1>5, <1>6, <1>8, <1>9, <1>10, <1>11, <1>12,
           <1>13, <1>14

\* A delivery comes to wait for a session when feedback is queued for it, or
\* when the delivery in progress, which is the session's, is sealed or put back.
LEMMA LiveComes ==
  ASSUME IInv, Whole, [Next]_vars, NEW t \in Tasks, NEW d \in Events,
         delTask'[d] = t, delState'[d] \in Live, ~(delTask[d] = t /\ delState[d] \in Live)
  PROVE  /\ taskState' = taskState
         /\ (pc = "queue" /\ held = t /\ dl = NoEvent) \/ (dl # NoEvent /\ delTask[dl] = t)
<1> USE DEF Live
<1>1. DbType /\ Control /\ dl \in Events \cup {NoEvent}
  BY DEF IInv, TypeOK, DispatchInv, RunType
<1>2. /\ delState \in [Events -> DelStates] /\ delTask \in [Events -> Tasks \cup {NoTask}]
  BY <1>1 DEF DbType
<1>3. ASSUME NEW e \in Events, ContinueQueue(e)
      PROVE  taskState' = taskState /\ pc = "queue" /\ held = t /\ dl = NoEvent
  <2>1. pc = "queue" /\ taskState' = taskState BY <1>3 DEF ContinueQueue, At
  <2>2. dl = NoEvent BY <2>1, <1>1 DEF Control, DispatchLabels
  <2>3. InsertDelivery(e, held)
    BY <1>3 DEF ContinueQueue, QueueDelivery
  <2>4. held = t BY <2>3, <1>2 DEF InsertDelivery
  <2> QED BY <2>1, <2>2, <2>4
<1>4. ASSUME NEW e \in Events, CancelRecords(e) PROVE FALSE
  BY <1>4, <1>2 DEF CancelRecords, CancelSession
<1>5. ASSUME DeleteSessionRecords(cliTask) \/ \E e \in Events : DeleteSessionRecords(e)
      PROVE  FALSE
  BY <1>5, <1>2 DEF DeleteSessionRecords
<1>6. ASSUME NEW e \in Events, MoveContext(e) PROVE FALSE
  BY <1>6 DEF MoveContext, Whole, First
<1>7. ASSUME NothingLeft \/ SealDelivery \/ Finalize \/ DispatchRaises
      PROVE  taskState' = taskState /\ dl # NoEvent /\ delTask[dl] = t
  <2>1. dl # NoEvent
    BY <1>7, <1>1 DEF Control, NothingLeft, SealDelivery, Finalize, DispatchRaises
  <2>2. taskState' = taskState /\ delTask' = delTask
    BY <1>7 DEF NothingLeft, SealDelivery, Finalize, DispatchRaises
  <2>3. \E s : delState' = [delState EXCEPT ![dl] = s]
    BY <1>7 DEF NothingLeft, SealDelivery, Finalize, DispatchRaises, MarkDelivery,
                FinalizeDelivery
  <2> QED BY <1>2, <2>1, <2>2, <2>3
<1> QED BY RowSteps, <1>3, <1>4, <1>5, <1>6, <1>7 DEF DiscardRecords, DeleteRecords

\* A task is shelved by CollectTask, which saw that nothing waits for it, or
\* has been before; and one that is paused was, or is cancelled with what waits.
LEMMA TaskComes ==
  ASSUME IInv, Aware, [Next]_vars, NEW t \in Tasks, taskState'[t] # taskState[t]
  PROVE  /\ taskState'[t] \in Shelved =>
              taskState[t] \in Shelved \/ LiveDeliveries(t) = {}
         /\ taskState'[t] = "paused" =>
              \A d \in Events : delTask'[d] = t => delState'[d] \notin Live
<1> USE DEF Shelved
<1>1. taskState \in [Tasks -> TaskStates] /\ delTask \in [Events -> Tasks \cup {NoTask}]
      /\ delState \in [Events -> DelStates]
  BY DEF IInv, TypeOK, DbType
<1>2. ASSUME NEW e \in Events, CancelRecords(e)
      PROVE  /\ taskState'[t] \notin Shelved
             /\ \A d \in Events : delTask'[d] = t => delState'[d] \notin Live
  <2> DEFINE u == mapping[SubjectOf[e]]
  <2>1. CancelSession(u) /\ delTask' = delTask BY <1>2 DEF CancelRecords
  <2>2. u = t /\ taskState'[t] = "paused"
    BY <2>1, <1>1 DEF CancelSession, SetTaskState
  <2>3. ASSUME NEW d \in Events, delTask'[d] = t PROVE delState'[d] \notin Live
    BY <2>1, <2>2, <2>3 DEF CancelSession, LiveDeliveries, Live
  <2> QED BY <2>2, <2>3
<1>3. ASSUME NEW e \in Events,
             \/ ContinueResume(e) \/ AdoptTask(e) \/ StartSave(e) \/ StartActivate(e)
             \/ DiscardRecords(e)
      PROVE  taskState'[t] \in {"none", "active", "queued"}
  BY <1>1, <1>3, Domains DEF ContinueResume, AdoptTask, StartSave, StartActivate,
              DiscardRecords, SetTaskState, SaveTask, DeleteSessionRecords
<1>4. ASSUME NEW u \in Tasks, CompleteTask(u) \/ BlockTask(u)
      PROVE  taskState'[t] \in {"completed", "cleanup_blocked"}
  BY <1>1, <1>4 DEF CompleteTask, BlockTask, SetTaskState
<1>5. ASSUME NEW u \in Tasks, CollectTask(u)
      PROVE  taskState'[t] = "collecting" /\ LiveDeliveries(t) = {}
  BY <1>1, <1>5 DEF CollectTask, SetTaskState, Blocking
<1>6. CASE Collected
  BY <1>1, <1>6 DEF Collected, SetTaskState, Aware
<1>7. CASE CleanupRaises
  <2>1. ASSUME NEW u \in Tasks, SetTaskState(u, "cleanup_blocked")
        PROVE  taskState'[t] = "cleanup_blocked"
    BY <2>1, <1>1 DEF SetTaskState
  <2> QED BY <1>7, <2>1 DEF CleanupRaises, IInv, TypeOK, RunType
<1>8. CASE DeleteRecords
  BY <1>1, <1>8 DEF DeleteRecords, DeleteSessionRecords
<1>9. ASSUME NEW p \in Subjects, NEW u \in Tasks, RegisterPr(p, u)
      PROVE  taskState'[t] = "active"
  BY <1>1, <1>9 DEF RegisterPr
<1> QED BY TaskSteps, <1>2, <1>3, <1>4, <1>5, <1>6, <1>7, <1>8, <1>9

\* So a task is collected only while no feedback waits for its session.
LEMMA CollectedKept ==
  ASSUME IInv, QuietInv, [Next]_vars
  PROVE  CollectedIsQuiet'
<1> SUFFICES ASSUME NEW t \in Tasks, taskState'[t] \in Shelved,
                    NEW d \in Events, delTask'[d] = t, delState'[d] \in Live
             PROVE  FALSE
  BY DEF CollectedIsQuiet, LiveDeliveries, Shelved
<1> USE DEF QuietInv
<1>1. CASE delTask[d] = t /\ delState[d] \in Live
  <2>1. LiveDeliveries(t) # {} BY <1>1 DEF LiveDeliveries
  <2>2. taskState[t] \notin Shelved BY <2>1 DEF CollectedIsQuiet, Shelved
  <2> QED BY <2>1, <2>2, TaskComes
<1>2. CASE ~(delTask[d] = t /\ delState[d] \in Live)
  <2>1. /\ taskState' = taskState
        /\ (pc = "queue" /\ held = t /\ dl = NoEvent) \/ (dl # NoEvent /\ delTask[dl] = t)
    BY <1>2, LiveComes
  <2>2. t # NoTask BY Domains
  <2> QED BY <2>1, <2>2 DEF Aware, Shelved
<1> QED BY <1>1, <1>2

\* While deliveries are dispatched a task is only paused or deleted.
LEMMA DispatchTasks ==
  ASSUME Control, [Next]_vars, pc = "dispatch" \/ dl # NoEvent,
         taskState \in [Tasks -> TaskStates], NEW t \in Tasks, taskState'[t] # taskState[t]
  PROVE  taskState'[t] \in {"none", "paused"}
<1> USE DEF Control, DispatchLabels
<1>1. ASSUME NEW e \in Events, CancelRecords(e) PROVE taskState'[t] = "paused"
  BY <1>1 DEF CancelRecords, CancelSession, SetTaskState
<1>2. CASE DeleteRecords BY <1>2 DEF DeleteRecords, DeleteSessionRecords
<1> QED
  BY TaskSteps, <1>1, <1>2
  DEF At, ContinueResume, AdoptTask, StartSave, StartActivate, DiscardRecords,
      CompleteTask, BlockTask, CollectTask, Collected, CleanupRaises, RegisterPr

\* The run comes to queue feedback from ContinueResume, and to remove a workspace
\* from CollectTask; it has deliveries left while it dispatches.
LEMMA PlaceComes ==
  ASSUME Control, [Next]_vars
  PROVE  /\ pc' = "queue" => (pc = "queue" /\ held' = held)
                             \/ \E e \in Events : ContinueResume(e)
         /\ pc' \in {"remove", "collected"} =>
              (pc \in {"remove", "collected"} /\ tk' = tk) \/ \E t \in Tasks : CollectTask(t)
         /\ queue' # {} /\ ~EndPending =>
              /\ queue' \subseteq queue
              /\ pc = "dispatch" \/ dl # NoEvent => pc' = "dispatch" \/ dl' # NoEvent
<1> USE DEF Control, DispatchLabels, Goto, At, EventDone, DeliveryDone
<1>1. CASE UNCHANGED <<pc, held, tk, queue, dl>> BY <1>1
<1>2. CASE Environment
  BY <1>1, <1>2 DEF Environment, Post, Edit, Age, AgentWorks, PersonPrompts
<1>3. CASE StartRun \/ EndPoll \/ \E e \in Events : Discover(e)
  BY <1>3 DEF StartRun, EndPoll, Discover
<1>4. ASSUME NEW e \in Events, PendingStep(e), ~ContinueResume(e)
      PROVE  /\ pc' = "queue" => pc = "queue" /\ held' = held
             /\ pc' \notin {"remove", "collected"} /\ queue' = queue
             /\ pc = "dispatch" \/ dl # NoEvent => pc' = "dispatch" \/ dl' # NoEvent
  BY <1>4 DEF PendingStep, TakeEvent, EventCancel, EventContinue, EventStart,
              EventUnmapped, EventClosed, EventDelivered, ContinueCheck,
              ContinueQueue, ContinueQueued, CancelRecords, CancelAbort
<1>5. ASSUME NEW e \in Events, ContinueResume(e)
      PROVE  /\ pc' = "queue" /\ queue' = queue
             /\ pc # "dispatch" /\ dl = NoEvent
  BY <1>5 DEF ContinueResume
<1>6. ASSUME NEW e \in Events, StartStep(e)
      PROVE  /\ pc' # "queue" /\ pc' \notin {"remove", "collected"} /\ queue' = queue
             /\ pc # "dispatch" /\ dl = NoEvent
  BY <1>6 DEF StartStep, StartPrepare, StartRecover, AdoptTask, AdoptMapping,
              StartConfirm, StartCreate, StartSave, StartPrompt, StartMap,
              StartActivate, DiscardSession, DiscardRecords, DiscardWorkspace
<1>7. ASSUME NEW e \in Events, DispatchStep(e)
      PROVE  /\ pc' # "queue" /\ pc' \notin {"remove", "collected"} /\ queue' \subseteq queue
             /\ pc = "dispatch" \/ dl # NoEvent => pc' = "dispatch" \/ dl' # NoEvent
  BY <1>7, Domains DEF DispatchStep, TakeDelivery, RefreshEvent, DispatchCancelled, DropEvent,
              MoveContext, Oldest
<1>8. CASE DispatchLoop
  BY <1>8 DEF DispatchLoop, NothingLeft, SelectContexts, SealDelivery, PostPrompt, Finalize
<1>9. CASE EndPending BY <1>9 DEF EndPending
<1>10. CASE EndDispatch \/ EndComplete \/ UpkeepLoop \/ EndRun
  BY <1>10 DEF EndDispatch, EndComplete, UpkeepLoop, RemoveWorkspace, Collected, EndRun,
               UpkeepFrame
<1>11. ASSUME NEW t \in Tasks, UpkeepStep(t), ~CollectTask(t)
       PROVE  UNCHANGED <<pc, held, tk, queue, dl>>
  BY <1>11 DEF UpkeepStep, CompleteTask, RetainTask, BlockTask, UpkeepFrame
<1>12. ASSUME NEW t \in Tasks, CollectTask(t)
       PROVE  /\ pc' = "remove" /\ queue' = queue /\ dl' = dl /\ pc # "dispatch"
  BY <1>12 DEF CollectTask, UpkeepFrame
<1>13. CASE Crash \/ PendingRaises \/ DispatchRaises
  BY <1>13 DEF Crash, Idle, PendingRaises, DispatchRaises, PendingLabels
<1>14. CASE CleanupRaises BY <1>14 DEF CleanupRaises, UpkeepFrame
<1>15. CASE \/ \E q \in Subjects, u \in Tasks : RegisterPr(q, u)
            \/ Operator \/ DeleteFails
  BY <1>1, <1>15 DEF RegisterPr, Operator, DeleteCheck, DeleteWorkspace, DeleteSession,
              DeleteRecords, DeleteFails
<1>16. CASE UNCHANGED vars BY <1>1, <1>16 DEF vars, storeVars
<1> QED BY StepCases, <1>1, <1>2, <1>3, <1>4, <1>5, <1>6, <1>7, <1>8, <1>9, <1>10,
           <1>11, <1>12, <1>13, <1>14, <1>15, <1>16

\* The task of feedback about to be queued stays active, or is deleted.
LEMMA QueueAware ==
  ASSUME IInv, Aware, [Next]_vars, pc' = "queue", held' # NoTask
  PROVE  taskState'[held'] \in {"none", "active"}
<1>1. taskState \in [Tasks -> TaskStates] /\ held \in Tasks \cup {NoTask}
  BY DEF IInv, TypeOK, DbType, RunType
<1>2. ASSUME NEW e \in Events, ContinueResume(e) PROVE taskState'[held'] \in {"none", "active"}
  BY <1>1, <1>2 DEF ContinueResume, SetTaskState
<1>3. CASE pc = "queue" /\ held' = held
  <2>1. taskState[held] \in {"none", "active"} /\ held \in Tasks BY <1>1, <1>3 DEF Aware
  <2>2. CASE DeleteRecords
    BY <1>1, <1>3, <2>1, <2>2 DEF DeleteRecords, DeleteSessionRecords
  <2> QED
    BY TaskSteps, <1>3, <2>1, <2>2
    DEF At, ContinueResume, CancelRecords, AdoptTask, StartSave, StartActivate, DiscardRecords,
        CompleteTask, BlockTask, CollectTask, Collected, CleanupRaises, RegisterPr
<1> QED BY PlaceComes, <1>2, <1>3 DEF IInv, DispatchInv

\* A task whose workspace is being removed stays in that state, or is deleted.
LEMMA RemoveAware ==
  ASSUME IInv, Aware, [Next]_vars, pc' \in {"remove", "collected"}
  PROVE  tk' # NoTask /\ taskState'[tk'] \in {"none", "collecting"}
<1>1. taskState \in [Tasks -> TaskStates] /\ tk \in Tasks \cup {NoTask}
  BY DEF IInv, TypeOK, DbType, RunType
<1>2. ASSUME NEW t \in Tasks, CollectTask(t)
      PROVE  tk' # NoTask /\ taskState'[tk'] \in {"none", "collecting"}
  BY <1>1, <1>2, Domains DEF CollectTask, SetTaskState
<1>3. CASE pc \in {"remove", "collected"} /\ tk' = tk
  <2>1. taskState[tk] \in {"none", "collecting"} /\ tk \in Tasks BY <1>1, <1>3 DEF Aware
  <2>2. CASE DeleteRecords
    BY <1>1, <1>3, <2>1, <2>2, Domains DEF DeleteRecords, DeleteSessionRecords
  <2>3. CASE Collected \/ CleanupRaises
    BY <1>1, <1>3, <2>1, <2>3, Domains DEF Collected, CleanupRaises, UpkeepFrame, Goto
  <2> QED
    BY TaskSteps, <1>1, <1>3, <2>1, <2>2, <2>3, Domains
    DEF At, ContinueResume, CancelRecords, AdoptTask, StartSave, StartActivate, DiscardRecords,
        CompleteTask, BlockTask, CollectTask, RegisterPr
<1> QED BY PlaceComes, <1>2, <1>3 DEF IInv, DispatchInv

\* What is left in the queue is live, unless its task is paused or deleted.
LEMMA LeftAware ==
  ASSUME IInv, Whole, Aware, [Next]_vars, NEW d \in queue',
         delTask'[d] # NoTask, taskState'[delTask'[d]] \notin {"none", "paused"}
  PROVE  delState'[d] \in Live
<1>1. /\ taskState \in [Tasks -> TaskStates] /\ delState \in [Events -> DelStates]
      /\ delTask \in [Events -> Tasks \cup {NoTask}] /\ queue \subseteq Events
      /\ taskState' \in [Tasks -> TaskStates]
      /\ delTask' \in [Events -> Tasks \cup {NoTask}] /\ queue' \subseteq Events
      /\ Control
  BY IInvStep DEF IInv, TypeOK, DbType, RunType, DispatchInv
<1>2. CASE EndPending BY <1>2 DEF EndPending
<1>3. CASE d \in queue /\ (pc = "dispatch" \/ dl # NoEvent)
  <2>1. d \in Events /\ delTask'[d] \in Tasks /\ d # dl BY <1>1, <1>3 DEF Control
  <2>2. taskState[delTask'[d]] \notin {"none", "paused"}
    BY <1>1, <1>3, <2>1, DispatchTasks
  <2>3. delTask'[d] = delTask[d] => delState[d] \in Live BY <1>3, <2>1, <2>2 DEF Aware
  <2>4. CASE UNCHANGED <<delState, delTask>> BY <2>3, <2>4
  <2>5. ASSUME NEW e \in Events, CancelRecords(e) PROVE delState'[d] \in Live
    <3> DEFINE u == mapping[SubjectOf[e]]
    <3>1. CancelSession(u) /\ delTask' = delTask /\ u # NoTask /\ taskState[u] # "none"
      BY <2>5 DEF CancelRecords
    <3>2. u \in Tasks BY <3>1, Domains DEF IInv, TypeOK, DbType
    <3>3. taskState'[u] = "paused" BY <3>1, <3>2, <1>1 DEF CancelSession, SetTaskState
    <3>4. delTask[d] # u BY <3>1, <3>3
    <3> QED BY <2>1, <2>3, <3>1, <3>4 DEF CancelSession, LiveDeliveries
  <2>6. CASE NothingLeft \/ SealDelivery \/ Finalize \/ DispatchRaises
    <3>1. \E s : delState' = [delState EXCEPT ![dl] = s]
      BY <2>6 DEF NothingLeft, SealDelivery, Finalize, DispatchRaises, MarkDelivery,
                  FinalizeDelivery
    <3>2. delTask' = delTask
      BY <2>6 DEF NothingLeft, SealDelivery, Finalize, DispatchRaises
    <3> QED BY <1>1, <2>1, <2>3, <3>1, <3>2
  <2>7. CASE DeleteRecords
    BY <1>1, <2>1, <2>3, <2>7 DEF DeleteRecords, DeleteSessionRecords
  <2>8. ASSUME NEW e \in Events, MoveContext(e) PROVE FALSE
    BY <2>8 DEF MoveContext, Whole, First
  <2>9. ASSUME NEW e \in Events, ContinueQueue(e) \/ DiscardRecords(e) PROVE FALSE
    BY <1>1, <1>3, <2>9 DEF ContinueQueue, DiscardRecords, At, Control, DispatchLabels
  <2> QED BY RowSteps, <2>4, <2>5, <2>6, <2>7, <2>8, <2>9
<1> QED BY <1>1, <1>2, <1>3, PlaceComes DEF Aware

\* The task of the delivery in progress is not shelved.
LEMMA ProgressAware ==
  ASSUME IInv, QuietInv, [Next]_vars, dl' # NoEvent, delTask'[dl'] # NoTask
  PROVE  taskState'[delTask'[dl']] \notin Shelved
<1> USE DEF QuietInv
<1>1. /\ taskState \in [Tasks -> TaskStates] /\ dl \in Events \cup {NoEvent}
      /\ delTask \in [Events -> Tasks \cup {NoTask}] /\ queue \subseteq Events
      /\ DbType /\ Control
  BY DEF IInv, TypeOK, DbType, RunType, DispatchInv
<1>2. ASSUME NEW d \in Events, TakeDelivery(d), dl' = d
      PROVE  taskState'[delTask'[dl']] \notin Shelved
  <2>1. dl # d BY <1>1, <1>2, Domains DEF TakeDelivery, Control, DispatchLabels
  <2>2. /\ delTask[d] # NoTask /\ taskState[delTask[d]] \notin {"none", "paused"}
        /\ d \in queue /\ UNCHANGED <<taskState, delTask>>
    BY <1>2, <2>1 DEF TakeDelivery, Oldest
  <2>3. delState[d] \in Live BY <2>2 DEF Aware
  <2>4. d \in LiveDeliveries(delTask[d]) BY <2>3 DEF LiveDeliveries
  <2>5. delTask[d] \in Tasks BY <1>1, <2>2
  <2>6. taskState[delTask[d]] \notin Shelved
    BY <2>4, <2>5 DEF CollectedIsQuiet, Shelved
  <2> QED BY <1>2, <2>2, <2>6
<1>3. CASE dl' = dl
  <2>1. delTask'[dl] = delTask[dl] /\ delTask[dl] \in Tasks
    BY <1>1, <1>3, TargetStays
  <2>2. taskState[delTask[dl]] \notin Shelved BY <1>3, <2>1 DEF Aware
  <2> QED BY <1>1, <1>3, <2>1, <2>2, DispatchTasks DEF Shelved
<1>4. PostPrompt => dl' = dl BY DEF PostPrompt
<1>5. ASSUME NEW d \in Events, TakeDelivery(d) PROVE dl' = d \/ dl' = dl
  BY <1>5 DEF TakeDelivery
<1> QED BY <1>1, <1>2, <1>3, <1>4, <1>5, DeliveryStays

\* The run goes on knowing its tasks.
LEMMA AwareKept == ASSUME IInv, QuietInv, [Next]_vars PROVE Aware'
<1> USE DEF QuietInv
<1>1. queue' # {} => pc' = "dispatch" \/ dl' # NoEvent
  <2>1. EndPending => pc' = "dispatch" BY DEF EndPending, Goto
  <2> QED BY <2>1, PlaceComes DEF IInv, DispatchInv, Aware
<1> QED BY <1>1, QueueAware, RemoveAware, LeftAware, ProgressAware DEF Aware

\* In every reachable state, while feedback always fits its prompt.
LEMMA QuietInvariance == ASSUME CanOverflow = FALSE PROVE Spec => []QuietInv
<1>1. Init => QuietInv
  <2> SUFFICES ASSUME Init PROVE QuietInv OBVIOUS
  <2>1. Whole /\ Aware BY DEF Init, Whole, Aware
  <2>2. CollectedIsQuiet BY DEF Init, CollectedIsQuiet, LiveDeliveries
  <2> QED BY <2>1, <2>2 DEF QuietInv
<1>2. IInv /\ QuietInv /\ [Next]_vars => QuietInv'
  BY WholeKept, AwareKept, CollectedKept DEF QuietInv
<1> QED BY <1>1, <1>2, Invariance, PTL DEF Spec

\* A task is collected only while no feedback waits for its session, wherever
\* runs are killed and calls fail and whatever comes in meanwhile, if feedback
\* never outgrows a prompt.  Where it does, move_delivery_event can reopen a
\* cancelled row with the session it had before (bridge.py:674), and the argument
\* would have to follow the rows of one event from session to session.
THEOREM CollectedAreQuiet == ASSUME CanOverflow = FALSE PROVE Spec => []CollectedIsQuiet
<1>1. QuietInv => CollectedIsQuiet BY DEF QuietInv
<1> QED BY <1>1, QuietInvariance, PTL
-----------------------------------------------------------------------------
(* Who changes events *)

\* The operations that write event rows.
LEMMA EventSteps ==
  ASSUME [Next]_vars
  PROVE  \/ UNCHANGED eventVars
         \/ \E e \in Events : \/ Discover(e) \/ EventUnmapped(e) \/ EventClosed(e)
                              \/ EventDelivered(e) \/ ContinueQueued(e) \/ StartConfirm(e)
                              \/ RefreshEvent(e) \/ DispatchCancelled(e)
         \/ Finalize \/ PendingRaises
<1> DEFINE Same == UNCHANGED eventVars
<1>1. CASE Environment
  BY <1>1 DEF Environment, Post, Edit, Age, AgentWorks, PersonPrompts
<1>2. CASE StartRun \/ EndPoll BY <1>2 DEF StartRun, EndPoll
<1>3. ASSUME NEW e \in Events, PendingStep(e)
      PROVE  Same \/ EventUnmapped(e) \/ EventClosed(e) \/ EventDelivered(e)
             \/ ContinueQueued(e)
  BY <1>3 DEF PendingStep, TakeEvent, EventCancel, EventContinue, EventStart,
              ContinueCheck, ContinueResume, ContinueQueue, CancelRecords, CancelAbort
<1>4. ASSUME NEW e \in Events, StartStep(e) PROVE Same \/ StartConfirm(e)
  BY <1>4 DEF StartStep, StartPrepare, StartRecover, AdoptTask, AdoptMapping,
              StartCreate, StartSave, StartPrompt, StartMap, StartActivate,
              DiscardSession, DiscardRecords, DiscardWorkspace
<1>5. ASSUME NEW e \in Events, DispatchStep(e)
      PROVE  Same \/ RefreshEvent(e) \/ DispatchCancelled(e)
  BY <1>5 DEF DispatchStep, TakeDelivery, DropEvent, MoveContext
<1>6. CASE EndPending \/ EndDispatch \/ EndComplete \/ UpkeepLoop \/ EndRun
  BY <1>6 DEF EndPending, EndDispatch, EndComplete, UpkeepLoop, RemoveWorkspace,
              Collected, EndRun, UpkeepFrame
<1>7. CASE DispatchLoop
  BY <1>7 DEF DispatchLoop, NothingLeft, SelectContexts, SealDelivery, PostPrompt
<1>8. CASE \E t \in Tasks : UpkeepStep(t)
  BY <1>8 DEF UpkeepStep, CompleteTask, RetainTask, BlockTask, CollectTask, UpkeepFrame
<1>9. CASE \/ \E p \in Subjects, t \in Tasks : RegisterPr(p, t)
           \/ Crash \/ DispatchRaises \/ CleanupRaises \/ DeleteFails
  BY <1>9 DEF RegisterPr, Crash, DispatchRaises, CleanupRaises, DeleteFails, UpkeepFrame
<1>10. CASE Operator
  BY <1>10 DEF Operator, DeleteCheck, DeleteWorkspace, DeleteSession, DeleteRecords
<1>11. CASE UNCHANGED vars BY <1>11 DEF vars, storeVars
<1> QED BY StepCases, <1>1, <1>2, <1>3, <1>4, <1>5, <1>6, <1>7, <1>8, <1>9, <1>10, <1>11

\* The controller alone writes on GitHub.
LEMMA TextSteps ==
  ASSUME [Next]_vars
  PROVE  UNCHANGED github \/ \E e \in Events : Post(e) \/ Edit(e)
<1> DEFINE Same == UNCHANGED github
<1>1. CASE Environment
  BY <1>1 DEF Environment, Age, AgentWorks, PersonPrompts
<1>2. CASE StartRun \/ EndPoll \/ \E e \in Events : Discover(e)
  BY <1>2 DEF StartRun, EndPoll, Discover
<1>3. ASSUME NEW e \in Events, PendingStep(e) PROVE Same
  BY <1>3 DEF PendingStep, TakeEvent, EventCancel, EventContinue, EventStart,
              EventUnmapped, EventClosed, EventDelivered, ContinueCheck, ContinueResume,
              ContinueQueue, ContinueQueued, CancelRecords, CancelAbort
<1>4. ASSUME NEW e \in Events, StartStep(e) PROVE Same
  BY <1>4 DEF StartStep, StartPrepare, StartRecover, AdoptTask, AdoptMapping,
              StartConfirm, StartCreate, StartSave, StartPrompt, StartMap,
              StartActivate, DiscardSession, DiscardRecords, DiscardWorkspace
<1>5. ASSUME NEW e \in Events, DispatchStep(e) PROVE Same
  BY <1>5 DEF DispatchStep, TakeDelivery, RefreshEvent, DispatchCancelled, DropEvent,
              MoveContext
<1>6. CASE EndPending \/ EndDispatch \/ EndComplete \/ UpkeepLoop \/ EndRun
  BY <1>6 DEF EndPending, EndDispatch, EndComplete, UpkeepLoop, RemoveWorkspace,
              Collected, EndRun, UpkeepFrame
<1>7. CASE DispatchLoop
  BY <1>7 DEF DispatchLoop, NothingLeft, SelectContexts, SealDelivery, PostPrompt, Finalize
<1>8. CASE \E t \in Tasks : UpkeepStep(t)
  BY <1>8 DEF UpkeepStep, CompleteTask, RetainTask, BlockTask, CollectTask, UpkeepFrame
<1>9. CASE \/ \E p \in Subjects, t \in Tasks : RegisterPr(p, t)
           \/ Crash \/ PendingRaises \/ DispatchRaises \/ CleanupRaises \/ DeleteFails
  BY <1>9 DEF RegisterPr, Crash, PendingRaises, DispatchRaises, CleanupRaises, DeleteFails,
              UpkeepFrame
<1>10. CASE Operator
  BY <1>10 DEF Operator, DeleteCheck, DeleteWorkspace, DeleteSession, DeleteRecords
<1>11. CASE UNCHANGED vars BY <1>11 DEF vars, storeVars
<1> QED BY StepCases, <1>1, <1>2, <1>3, <1>4, <1>5, <1>6, <1>7, <1>8, <1>9, <1>10, <1>11
-----------------------------------------------------------------------------
(* Cancels *)

\* No comment becomes a cancel after it was posted.
NoLateCancels == "cancel" \notin EditCommands \/ MaxEdits = 0

\* What was taken for feedback is not a cancel on GitHub.
Sincere ==
  /\ \A e \in Events : github[e] = "cancel" /\ evState[e] # "unseen" => evAction[e] = "cancel"
  /\ \A d \in Events : \A e \in carried[d] : github[e] # "cancel"
  /\ \A e \in ctx : github[e] # "cancel"
  /\ dl # NoEvent => \A e \in todo : github[e] # "cancel"
  /\ dl # NoEvent => pc \notin {"cancel", "abort", "delivered"}
  /\ dl = NoEvent => \A e \in todo \cup ({ev} \ {NoEvent}) : evState[e] # "unseen"
  /\ pc \in {"continue", "resume", "queue"} => ev # NoEvent /\ github[ev] # "cancel"

\* The task of a delivery in progress is not paused.
Unpaused == dl # NoEvent /\ delTask[dl] # NoTask => taskState[delTask[dl]] # "paused"

PauseInv == Sincere /\ Unpaused /\ CancelWithdraws

\* What is on GitHub does not become a cancel.
LEMMA NotCancelled ==
  ASSUME NoLateCancels, IInv, [Next]_vars, NEW e \in Known, github[e] # "cancel"
  PROVE  github'[e] # "cancel"
<1>1. github \in [Events -> Contents \cup {"unposted"}] /\ edits \in Nat
  BY DEF IInv, TypeOK, WorldType
<1>2. ASSUME NEW x \in Events, Post(x) PROVE github'[e] = github[e]
  BY <1>1, <1>2 DEF Post, Known
<1>3. ASSUME NEW x \in Events, Edit(x) PROVE github'[e] # "cancel"
  <2>1. "cancel" \notin EditCommands
    BY <1>1, <1>3, BridgeAssumption DEF Edit, NoLateCancels
  <2>2. PICK c \in EditCommands : github' = [github EXCEPT ![x] = c] BY <1>3 DEF Edit
  <2> QED BY <1>1, <2>1, <2>2 DEF Known
<1> QED BY TextSteps, <1>2, <1>3

\* An event that was seen stays seen.
LEMMA SeenStays ==
  ASSUME IInv, [Next]_vars, NEW e \in Events, evState[e] # "unseen"
  PROVE  evState'[e] # "unseen"
<1>1. evState \in [Events -> EventStates] BY DEF IInv, TypeOK, DbType
<1> QED BY <1>1, EventSteps
        DEF Discover, EventUnmapped, EventClosed, EventDelivered, ContinueQueued, StartConfirm,
            RefreshEvent, DispatchCancelled, Finalize, FinalizeDelivery, PendingRaises, UpdateEvent

\* A cancel is recorded as one.
LEMMA ActionKept ==
  ASSUME NoLateCancels, IInv, Sincere, [Next]_vars, NEW e \in Events,
         github'[e] = "cancel", evState'[e] # "unseen"
  PROVE  evAction'[e] = "cancel"
<1>1. /\ evState \in [Events -> EventStates] /\ evAction \in [Events -> Commands]
      /\ \A x \in Events : evState[x] # "unseen" => x \in Known
      /\ \A d \in Events : carried[d] \subseteq Known
      /\ ev \in Events \cup {NoEvent} /\ dl \in Events \cup {NoEvent} /\ Control
  BY DEF IInv, TypeOK, DbType, RunType, EventsKnown, DispatchInv
<1>2. evState[e] # "unseen" => github[e] = "cancel"
  BY <1>1, NotCancelled
<1>3. CASE UNCHANGED eventVars BY <1>2, <1>3 DEF Sincere
<1>4. ASSUME NEW x \in Events, Discover(x) PROVE evAction'[e] = "cancel"
  <2>1. github' = github BY <1>4 DEF Discover
  <2>2. CASE e # x
    <3>1. evState'[e] = evState[e] /\ evAction'[e] = evAction[e]
      BY <1>1, <1>4, <2>2 DEF Discover, UpdateEvent
    <3> QED BY <2>1, <3>1 DEF Sincere
  <2>3. CASE e = x
    BY <1>1, <1>4, <2>1, <2>3 DEF Discover, UpdateEvent, Sincere
  <2> QED BY <2>2, <2>3
<1>5. ASSUME evAction' = evAction, github' = github, NEW x \in Events, NEW s,
             UpdateEvent(x, s), evState[x] # "unseen" \/ github[x] # "cancel"
      PROVE  evAction'[e] = "cancel"
  BY <1>1, <1>5 DEF UpdateEvent, Sincere
<1>6. ASSUME NEW x \in Events,
             EventUnmapped(x) \/ EventClosed(x) \/ EventDelivered(x) \/ ContinueQueued(x)
      PROVE  evAction'[e] = "cancel"
  <2>1. ev = x /\ dl = NoEvent
    BY <1>1, <1>6 DEF EventUnmapped, EventClosed, EventDelivered, ContinueQueued, At, Control,
                      DispatchLabels
  <2>2. evState[x] # "unseen" BY <2>1, Domains DEF Sincere
  <2>3. evAction' = evAction /\ github' = github
        /\ (UNCHANGED evState \/ \E s : UpdateEvent(x, s))
    BY <1>6 DEF EventUnmapped, EventClosed, EventDelivered, ContinueQueued
  <2> QED BY <1>3, <1>5, <2>2, <2>3
<1>7. ASSUME NEW x \in Events, StartConfirm(x) PROVE evAction'[e] = "cancel"
  <2>1. github' = github /\ x = ev /\ dl = NoEvent
    BY <1>1, <1>7 DEF StartConfirm, At, Control, DispatchLabels
  <2>2. evState[x] # "unseen" BY <2>1, Domains DEF Sincere
  <2>3. CASE github[x] \in {"none", "ambiguous"}
    BY <1>5, <1>7, <2>1, <2>2, <2>3 DEF StartConfirm
  <2>4. CASE github[x] \notin {"none", "ambiguous"}
    <3>1. evAction' = [evAction EXCEPT ![x] = github[x]] /\ evState' = evState
      BY <1>7, <2>4 DEF StartConfirm
    <3> QED BY <1>1, <2>1, <3>1 DEF Sincere
  <2> QED BY <2>3, <2>4
<1>8. ASSUME NEW x \in Events, RefreshEvent(x) PROVE evAction'[e] = "cancel"
  <2>1. github' = github BY <1>8 DEF RefreshEvent
  <2>2. CASE e # x
    <3>1. evState'[e] = evState[e] /\ evAction'[e] = evAction[e]
      BY <1>1, <1>8, <2>2 DEF RefreshEvent, UpdateEvent
    <3> QED BY <2>1, <3>1 DEF Sincere
  <2>3. CASE e = x
    <3>1. github[x] = "cancel" BY <2>1, <2>3
    <3>2. evAction' = [evAction EXCEPT ![x] = "cancel"]
      BY <1>8, <3>1 DEF RefreshEvent, StartCommands
    <3> QED BY <1>1, <2>3, <3>2
  <2> QED BY <2>2, <2>3
<1>9. ASSUME NEW x \in Events, DispatchCancelled(x) PROVE FALSE
  BY <1>9 DEF DispatchCancelled, At, Sincere
<1>10. CASE Finalize
  <2>1. evAction' = evAction /\ github' = github BY <1>10 DEF Finalize
  <2>2. dl \in Events BY <1>1, <1>10 DEF Finalize, Control
  <2>3. evState'[e] = evState[e] \/ e \in carried[dl]
    BY <1>10 DEF Finalize, FinalizeDelivery
  <2> QED BY <2>1, <2>2, <2>3 DEF Sincere
<1>11. CASE PendingRaises
  <2>1. evState[ev] # "unseen" /\ ev \in Events
    BY <1>1, <1>11 DEF PendingRaises, Sincere
  <2> QED BY <1>5, <1>11, <2>1 DEF PendingRaises
<1> QED BY EventSteps, <1>3, <1>4, <1>6, <1>7, <1>8, <1>9, <1>10, <1>11

\* What is collected into the prompt in progress, or is still to be, was carried
\* by the delivery.
LEMMA FeedbackComes ==
  ASSUME Control, Fresh, [Next]_vars
  PROVE  /\ \A e \in ctx' : e \in ctx \/ (dl # NoEvent /\ e \in todo /\ RefreshEvent(e))
         /\ dl' # NoEvent => \A e \in todo' : \/ dl # NoEvent /\ e \in todo \cup ctx
                                              \/ \E d \in Events : e \in carried[d]
<1> USE DEF Control, Fresh, DispatchLabels, Goto, At, EventDone, DeliveryDone
<1>1. CASE UNCHANGED <<dl, todo, ctx>> BY <1>1
<1>2. CASE Environment
  BY <1>1, <1>2 DEF Environment, Post, Edit, Age, AgentWorks, PersonPrompts
<1>3. CASE StartRun \/ EndPoll \/ \E e \in Events : Discover(e)
  BY <1>1, <1>3 DEF StartRun, EndPoll, Discover
<1>4. ASSUME NEW e \in Events, PendingStep(e)
      PROVE  ctx' = ctx /\ dl' = dl /\ todo' \subseteq todo
  BY <1>4 DEF PendingStep, TakeEvent, EventCancel, EventContinue, EventStart,
              EventUnmapped, EventClosed, EventDelivered, ContinueCheck, ContinueResume,
              ContinueQueue, ContinueQueued, CancelRecords, CancelAbort
<1>5. ASSUME NEW e \in Events, StartStep(e) PROVE UNCHANGED <<dl, todo, ctx>>
  BY <1>5 DEF StartStep, StartPrepare, StartRecover, AdoptTask, AdoptMapping,
              StartConfirm, StartCreate, StartSave, StartPrompt, StartMap,
              StartActivate, DiscardSession, DiscardRecords, DiscardWorkspace
<1>6. ASSUME NEW e \in Events, TakeDelivery(e)
      PROVE  ctx' = ctx /\ todo' \subseteq carried[e]
  BY <1>6 DEF TakeDelivery
<1>7. ASSUME NEW e \in Events, RefreshEvent(e)
      PROVE  /\ dl # NoEvent /\ todo' \subseteq todo
             /\ \A x \in ctx' : x \in ctx \/ (x \in todo /\ RefreshEvent(x))
  BY <1>7 DEF RefreshEvent, First
<1>8. ASSUME NEW e \in Events, DispatchCancelled(e) \/ DropEvent(e) \/ MoveContext(e)
      PROVE  ctx' = ctx /\ dl' = dl /\ todo' \subseteq todo
  BY <1>8 DEF DispatchCancelled, DropEvent, MoveContext
<1>9. ASSUME NEW e \in Events, DispatchStep(e)
      PROVE  TakeDelivery(e) \/ RefreshEvent(e)
             \/ DispatchCancelled(e) \/ DropEvent(e) \/ MoveContext(e)
  BY <1>9 DEF DispatchStep
<1>10. CASE DispatchLoop
  BY <1>10 DEF DispatchLoop, NothingLeft, SelectContexts, SealDelivery, PostPrompt, Finalize
<1>11. CASE EndPending \/ EndDispatch \/ EndComplete \/ UpkeepLoop \/ EndRun
  BY <1>1, <1>11 DEF EndPending, EndDispatch, EndComplete, UpkeepLoop, RemoveWorkspace,
              Collected, EndRun, UpkeepFrame
<1>12. CASE \E t \in Tasks : UpkeepStep(t)
  BY <1>1, <1>12 DEF UpkeepStep, CompleteTask, RetainTask, BlockTask, CollectTask, UpkeepFrame
<1>13. CASE Crash \/ PendingRaises \/ DispatchRaises
  BY <1>13 DEF Crash, Idle, PendingRaises, DispatchRaises
<1>14. CASE CleanupRaises BY <1>1, <1>14 DEF CleanupRaises, UpkeepFrame
<1>15. CASE \/ \E q \in Subjects, u \in Tasks : RegisterPr(q, u)
            \/ Operator \/ DeleteFails
  BY <1>1, <1>15 DEF RegisterPr, Operator, DeleteCheck, DeleteWorkspace, DeleteSession,
              DeleteRecords, DeleteFails
<1>16. CASE UNCHANGED vars BY <1>1, <1>16 DEF vars, storeVars
<1>17. CASE \E e \in Events : TakeDelivery(e) BY <1>6, <1>17
<1>18. CASE \E e \in Events : \/ DispatchCancelled(e) \/ DropEvent(e) \/ MoveContext(e)
                              \/ PendingStep(e) \/ StartStep(e)
  BY <1>4, <1>5, <1>8, <1>18
<1>19. CASE \E e \in Events : RefreshEvent(e) BY <1>7, <1>19
<1> QED BY StepCases, <1>2, <1>3, <1>9, <1>10, <1>11, <1>12, <1>13, <1>14, <1>15, <1>16,
           <1>17, <1>18, <1>19

\* The event in progress, and those still to be processed, were pending.
LEMMA EventsCome ==
  ASSUME Control, Fresh, [Next]_vars, dl' = NoEvent
  PROVE  /\ \A e \in todo' : \/ dl = NoEvent /\ e \in todo
                             \/ e \in Events /\ evState[e] = "pending"
         /\ ev' # NoEvent => dl = NoEvent /\ ev' \in todo \cup {ev}
<1> USE DEF Control, Fresh, DispatchLabels, Goto, At, EventDone, DeliveryDone
<1>1. CASE UNCHANGED <<dl, todo, ev>> BY <1>1
<1>2. CASE Environment
  BY <1>1, <1>2 DEF Environment, Post, Edit, Age, AgentWorks, PersonPrompts
<1>3. CASE StartRun \/ EndPoll \/ \E e \in Events : Discover(e)
  BY <1>1, <1>3 DEF StartRun, EndPoll, Discover
<1>4. ASSUME NEW e \in Events, PendingStep(e)
      PROVE  dl' = dl /\ todo' \subseteq todo /\ ev' \in todo \cup {ev, NoEvent}
  BY <1>4 DEF PendingStep, TakeEvent, EventCancel, EventContinue, EventStart,
              EventUnmapped, EventClosed, EventDelivered, ContinueCheck, ContinueResume,
              ContinueQueue, ContinueQueued, CancelRecords, CancelAbort, First
<1>5. ASSUME NEW e \in Events, StartStep(e)
      PROVE  dl' = dl /\ todo' = todo /\ ev' \in {ev, NoEvent}
  BY <1>5 DEF StartStep, StartPrepare, StartRecover, AdoptTask, AdoptMapping,
              StartConfirm, StartCreate, StartSave, StartPrompt, StartMap,
              StartActivate, DiscardSession, DiscardRecords, DiscardWorkspace
<1>6. ASSUME NEW e \in Events, DispatchStep(e) PROVE UNCHANGED <<dl, todo, ev>>
  BY <1>6, Domains DEF DispatchStep, TakeDelivery, RefreshEvent, DispatchCancelled, DropEvent,
              MoveContext
<1>7. CASE DispatchLoop
  BY <1>7 DEF DispatchLoop, NothingLeft, SelectContexts, SealDelivery, PostPrompt, Finalize
<1>8. CASE EndPending \/ EndDispatch \/ EndComplete \/ UpkeepLoop \/ EndRun
  BY <1>1, <1>8 DEF EndPending, EndDispatch, EndComplete, UpkeepLoop, RemoveWorkspace,
              Collected, EndRun, UpkeepFrame
<1>9. CASE \E t \in Tasks : UpkeepStep(t)
  BY <1>1, <1>9 DEF UpkeepStep, CompleteTask, RetainTask, BlockTask, CollectTask, UpkeepFrame
<1>10. CASE Crash \/ PendingRaises \/ DispatchRaises
  BY <1>10 DEF Crash, Idle, PendingRaises, DispatchRaises
<1>11. CASE CleanupRaises BY <1>1, <1>11 DEF CleanupRaises, UpkeepFrame
<1>12. CASE \/ \E q \in Subjects, u \in Tasks : RegisterPr(q, u)
            \/ Operator \/ DeleteFails
  BY <1>1, <1>12 DEF RegisterPr, Operator, DeleteCheck, DeleteWorkspace, DeleteSession,
              DeleteRecords, DeleteFails
<1>13. CASE UNCHANGED vars BY <1>1, <1>13 DEF vars, storeVars
<1> QED BY StepCases, <1>1, <1>2, <1>3, <1>4, <1>5, <1>6, <1>7, <1>8, <1>9, <1>10, <1>11,
           <1>12, <1>13

\* dispatch_pending cancels for an event it was to dispatch, and continue_task
\* is called for a continue.
LEMMA CallsCome ==
  ASSUME Control, [Next]_vars
  PROVE  /\ dl' # NoEvent /\ pc' \in {"cancel", "abort", "delivered"} =>
              dl # NoEvent /\ (\/ pc \in {"cancel", "abort", "delivered"}
                               \/ \E e \in todo : github[e] = "cancel")
         /\ pc' \in {"continue", "resume", "queue"} =>
              /\ ev' = ev
              /\ \/ pc \in {"continue", "resume", "queue"}
                 \/ ev # NoEvent /\ dl = NoEvent /\ evAction[ev] = "continue" /\ github' = github
<1> USE DEF Control, DispatchLabels, Goto, At, EventDone, DeliveryDone
<1>1. CASE UNCHANGED <<pc, ev, dl>> BY <1>1
<1>2. CASE Environment
  BY <1>1, <1>2 DEF Environment, Post, Edit, Age, AgentWorks, PersonPrompts
<1>3. CASE StartRun \/ EndPoll \/ \E e \in Events : Discover(e)
  BY <1>1, <1>3 DEF StartRun, EndPoll, Discover
<1>4. ASSUME NEW e \in Events, PendingStep(e)
      PROVE  /\ dl' = dl
             /\ dl # NoEvent /\ pc' \in {"cancel", "abort", "delivered"} =>
                  pc \in {"cancel", "abort", "delivered"}
             /\ pc' \in {"continue", "resume", "queue"} =>
                  /\ ev' = ev
                  /\ \/ pc \in {"continue", "resume", "queue"}
                     \/ ev # NoEvent /\ dl = NoEvent /\ evAction[ev] = "continue"
                        /\ github' = github
  <2>1. CASE TakeEvent(e) BY <1>4, <2>1 DEF TakeEvent
  <2>2. CASE EventCancel(e) \/ EventContinue(e) \/ EventStart(e)
    BY <2>2 DEF EventCancel, EventContinue, EventStart
  <2>3. CASE EventUnmapped(e) \/ EventClosed(e) \/ EventDelivered(e) \/ ContinueQueued(e)
    BY <2>3 DEF EventUnmapped, EventClosed, EventDelivered, ContinueQueued
  <2>4. CASE ContinueCheck(e) \/ ContinueResume(e) \/ ContinueQueue(e)
    BY <2>4 DEF ContinueCheck, ContinueResume, ContinueQueue
  <2>5. CASE CancelRecords(e) \/ CancelAbort(e)
    BY <2>5 DEF CancelRecords, CancelAbort
  <2> QED BY <1>4, <2>1, <2>2, <2>3, <2>4, <2>5 DEF PendingStep
<1>5. ASSUME NEW e \in Events, StartStep(e)
      PROVE  dl' = NoEvent /\ pc' \notin {"continue", "resume", "queue"}
  BY <1>5 DEF StartStep, StartPrepare, StartRecover, AdoptTask, AdoptMapping,
              StartConfirm, StartCreate, StartSave, StartPrompt, StartMap,
              StartActivate, DiscardSession, DiscardRecords, DiscardWorkspace
<1>6. ASSUME NEW e \in Events, DispatchStep(e)
      PROVE  /\ pc' \notin {"continue", "resume", "queue", "abort", "delivered"}
             /\ pc' = "cancel" => dl # NoEvent /\ \E x \in todo : github[x] = "cancel"
  <2>1. CASE RefreshEvent(e) BY <2>1 DEF RefreshEvent, First
  <2> QED BY <1>6, <2>1 DEF DispatchStep, TakeDelivery, DispatchCancelled, DropEvent,
              MoveContext
<1>7. CASE DispatchLoop
  BY <1>7 DEF DispatchLoop, NothingLeft, SelectContexts, SealDelivery, PostPrompt, Finalize
<1>8. CASE EndPending \/ EndDispatch \/ EndComplete \/ UpkeepLoop \/ EndRun
  BY <1>8 DEF EndPending, EndDispatch, EndComplete, UpkeepLoop, RemoveWorkspace,
              Collected, EndRun, UpkeepFrame
<1>9. CASE \E t \in Tasks : UpkeepStep(t)
  BY <1>1, <1>9 DEF UpkeepStep, CompleteTask, RetainTask, BlockTask, CollectTask, UpkeepFrame
<1>10. CASE Crash \/ PendingRaises \/ DispatchRaises
  BY <1>10 DEF Crash, Idle, PendingRaises, DispatchRaises
<1>11. CASE CleanupRaises BY <1>11 DEF CleanupRaises, UpkeepFrame
<1>12. CASE \/ \E q \in Subjects, u \in Tasks : RegisterPr(q, u)
            \/ Operator \/ DeleteFails
  BY <1>1, <1>12 DEF RegisterPr, Operator, DeleteCheck, DeleteWorkspace, DeleteSession,
              DeleteRecords, DeleteFails
<1>13. CASE UNCHANGED vars BY <1>1, <1>13 DEF vars, storeVars
<1> QED BY StepCases, <1>2, <1>3, <1>4, <1>5, <1>6, <1>7, <1>8, <1>9, <1>10, <1>11,
           <1>12, <1>13

\* The operations that write what deliveries carry.
LEMMA CarriedSteps ==
  ASSUME [Next]_vars
  PROVE  \/ UNCHANGED carried
         \/ \E e \in Events : ContinueQueue(e) \/ DropEvent(e) \/ MoveContext(e) \/ DiscardRecords(e)
         \/ DeleteRecords
<1> DEFINE Same == UNCHANGED carried
<1>1. CASE Environment
  BY <1>1 DEF Environment, Post, Edit, Age, AgentWorks, PersonPrompts
<1>2. CASE StartRun \/ EndPoll \/ \E x \in Events : Discover(x)
  BY <1>2 DEF StartRun, EndPoll, Discover
<1>3. ASSUME NEW x \in Events, PendingStep(x) PROVE Same \/ ContinueQueue(x)
  BY <1>3 DEF PendingStep, TakeEvent, EventCancel, EventContinue, EventStart,
              EventUnmapped, EventClosed, EventDelivered, ContinueCheck, ContinueResume,
              ContinueQueued, CancelRecords, CancelAbort
<1>4. ASSUME NEW x \in Events, StartStep(x) PROVE Same \/ DiscardRecords(x)
  BY <1>4 DEF StartStep, StartPrepare, StartRecover, AdoptTask, AdoptMapping,
              StartConfirm, StartCreate, StartSave, StartPrompt, StartMap,
              StartActivate, DiscardSession, DiscardWorkspace
<1>5. ASSUME NEW x \in Events, DispatchStep(x) PROVE Same \/ DropEvent(x) \/ MoveContext(x)
  BY <1>5 DEF DispatchStep, TakeDelivery, RefreshEvent, DispatchCancelled
<1>6. CASE EndPending \/ EndDispatch \/ EndComplete \/ UpkeepLoop \/ EndRun
  BY <1>6 DEF EndPending, EndDispatch, EndComplete, UpkeepLoop, RemoveWorkspace,
              Collected, EndRun, UpkeepFrame
<1>7. CASE DispatchLoop
  BY <1>7 DEF DispatchLoop, NothingLeft, SelectContexts, SealDelivery, PostPrompt, Finalize
<1>8. CASE \E t \in Tasks : UpkeepStep(t)
  BY <1>8 DEF UpkeepStep, CompleteTask, RetainTask, BlockTask, CollectTask, UpkeepFrame
<1>9. CASE \/ \E p \in Subjects, t \in Tasks : RegisterPr(p, t)
           \/ Crash \/ PendingRaises \/ DispatchRaises \/ CleanupRaises \/ DeleteFails
  BY <1>9 DEF RegisterPr, Crash, PendingRaises, DispatchRaises, CleanupRaises,
              DeleteFails, UpkeepFrame
<1>10. CASE Operator BY <1>10 DEF Operator, DeleteCheck, DeleteWorkspace, DeleteSession
<1>11. CASE UNCHANGED vars BY <1>11 DEF vars, storeVars
<1> QED BY StepCases, <1>1, <1>2, <1>3, <1>4, <1>5, <1>6, <1>7, <1>8, <1>9, <1>10, <1>11

\* Only feedback that is queued joins a delivery, or that is moved to one of its own.
LEMMA CarriedComes ==
  ASSUME IInv, [Next]_vars, NEW d \in Events, NEW e \in carried'[d], e \notin carried[d]
  PROVE  e \in Events /\ (ContinueQueue(e) \/ MoveContext(e))
<1>1. carried \in [Events -> SUBSET Events] /\ dl \in Events \cup {NoEvent} /\ Control
  BY DEF IInv, TypeOK, DbType, RunType, DispatchInv
<1>2. ASSUME NEW x \in Events, ContinueQueue(x) PROVE x = e
  <2>1. \E y \in Events : carried' = [carried EXCEPT ![y] = @ \cup {x}]
    BY <1>2 DEF ContinueQueue, QueueDelivery, Oldest, LiveDeliveries
  <2> QED BY <1>1, <2>1
<1>3. ASSUME NEW x \in Events, DropEvent(x) PROVE FALSE
  BY <1>1, <1>3 DEF DropEvent, RemoveDeliveryEvent
<1>4. ASSUME NEW x \in Events, MoveContext(x) PROVE x = e
  BY <1>1, <1>4 DEF MoveContext, MoveDeliveryEvent
<1>5. ASSUME NEW x, DeleteSessionRecords(x) PROVE FALSE
  BY <1>1, <1>5 DEF DeleteSessionRecords
<1> QED BY <1>2, <1>3, <1>4, <1>5, CarriedSteps DEF DiscardRecords, DeleteRecords

\* What was taken for feedback is not a cancel.
LEMMA SincereKept ==
  ASSUME NoLateCancels, IInv, Whole, Sincere, [Next]_vars
  PROVE  Sincere'
<1>1. /\ ctx \subseteq Known /\ todo \subseteq Known /\ ev \in Known \cup {NoEvent}
      /\ \A d \in Events : carried[d] \subseteq Known
      /\ \A e \in Events : evState[e] # "unseen" => e \in Known
      /\ Control /\ Known \subseteq Events
  BY DEF IInv, EventsKnown, DispatchInv, Known
<1>2. EventsKnown' /\ Known' \subseteq Events BY IInvStep DEF IInv, Known
<1>3. \A e \in Events : github'[e] = "cancel" /\ evState'[e] # "unseen" => evAction'[e] = "cancel"
  BY ActionKept
<1>4. ASSUME NEW d \in Events, NEW e \in carried'[d] PROVE github'[e] # "cancel"
  <2>1. CASE e \in carried[d] BY <1>1, <2>1, NotCancelled DEF Sincere
  <2>2. CASE e \notin carried[d]
    <3>1. e \in Events /\ ContinueQueue(e)
      BY <2>2, CarriedComes DEF MoveContext, First, Whole
    <3> QED BY <3>1, Domains DEF ContinueQueue, At, Sincere
  <2> QED BY <2>1, <2>2
<1>5. ASSUME NEW e \in ctx' PROVE github'[e] # "cancel"
  <2>1. Fresh BY DEF Fresh, Whole
  <2>2. ASSUME e \in ctx PROVE github'[e] # "cancel"
    BY <1>1, <2>2, NotCancelled DEF Sincere
  <2>3. ASSUME e \in todo, dl # NoEvent PROVE github'[e] # "cancel"
    BY <1>1, <2>3, NotCancelled DEF Sincere
  <2> QED BY <1>1, <1>5, <2>1, <2>2, <2>3, FeedbackComes
<1>6. ASSUME dl' # NoEvent, NEW e \in todo' PROVE github'[e] # "cancel"
  <2>1. github[e] # "cancel" /\ e \in Known BY <1>1, <1>6, FeedbackComes DEF Sincere, Fresh, Whole
  <2> QED BY <2>1, NotCancelled
<1>7. dl' # NoEvent => pc' \notin {"cancel", "abort", "delivered"}
  BY CallsCome, <1>1 DEF Sincere
<1>8. ASSUME dl' = NoEvent, NEW e \in todo' \cup ({ev'} \ {NoEvent}) PROVE evState'[e] # "unseen"
  <2>1. e \in Events BY <1>2 DEF EventsKnown
  <2>2. evState[e] # "unseen" BY <1>1, <1>8, EventsCome DEF Sincere, Fresh, Whole
  <2> QED BY <2>1, <2>2, SeenStays
<1>9. ASSUME pc' \in {"continue", "resume", "queue"} PROVE ev' # NoEvent /\ github'[ev'] # "cancel"
  <2>1. CASE pc \in {"continue", "resume", "queue"} /\ ev' = ev
    BY <1>1, <2>1, NotCancelled DEF Sincere
  <2>2. CASE ev' = ev /\ ev # NoEvent /\ dl = NoEvent /\ evAction[ev] = "continue" /\ github' = github
    BY <1>1, <2>2 DEF Sincere
  <2> QED BY <1>1, <1>9, <2>1, <2>2, CallsCome
<1> QED BY <1>3, <1>4, <1>5, <1>6, <1>7, <1>8, <1>9 DEF Sincere

\* Only a cancel pauses a task.
LEMMA OnlyCancelPauses ==
  ASSUME DbType, [Next]_vars, NEW t \in Tasks, taskState[t] # "paused", taskState'[t] = "paused"
  PROVE  pc = "cancel"
<1> USE DEF DbType, At
<1>1. ASSUME NEW s, s # "paused", NEW u, SetTaskState(u, s) PROVE FALSE
  BY <1>1 DEF SetTaskState
<1>2. ASSUME NEW e \in Events, CancelRecords(e) PROVE pc = "cancel"
  BY <1>2 DEF CancelRecords
<1>3. ASSUME NEW e \in Events,
             \/ ContinueResume(e) \/ AdoptTask(e) \/ StartSave(e) \/ StartActivate(e)
             \/ DiscardRecords(e)
      PROVE  FALSE
  BY <1>1, <1>3 DEF ContinueResume, AdoptTask, StartSave, StartActivate, DiscardRecords,
                    SaveTask, DeleteSessionRecords
<1>4. ASSUME NEW u \in Tasks, CompleteTask(u) \/ BlockTask(u) \/ CollectTask(u) PROVE FALSE
  BY <1>1, <1>4 DEF CompleteTask, BlockTask, CollectTask
<1>5. CASE Collected \/ CleanupRaises
  BY <1>1, <1>5 DEF Collected, CleanupRaises
<1>6. CASE DeleteRecords BY <1>6 DEF DeleteRecords, DeleteSessionRecords
<1>7. ASSUME NEW p \in Subjects, NEW u \in Tasks, RegisterPr(p, u) PROVE FALSE
  BY <1>7 DEF RegisterPr
<1> QED BY TaskSteps, <1>2, <1>3, <1>4, <1>5, <1>6, <1>7

\* Nothing pauses the task of the delivery in progress.
LEMMA UnpausedKept ==
  ASSUME IInv, Sincere, Unpaused, [Next]_vars
  PROVE  Unpaused'
<1> SUFFICES ASSUME dl' # NoEvent, delTask'[dl'] # NoTask
             PROVE  taskState'[delTask'[dl']] # "paused"
  BY DEF Unpaused
<1>1. /\ taskState \in [Tasks -> TaskStates] /\ dl \in Events \cup {NoEvent}
      /\ delTask \in [Events -> Tasks \cup {NoTask}] /\ queue \subseteq Events
      /\ DbType /\ Control
  BY DEF IInv, TypeOK, DbType, RunType, DispatchInv
<1>2. ASSUME NEW d \in Events, TakeDelivery(d), dl' = d
      PROVE  taskState'[delTask'[dl']] # "paused"
  <2>1. dl # d BY <1>1, <1>2, Domains DEF TakeDelivery, Control, DispatchLabels
  <2>2. /\ taskState[delTask[d]] \notin {"none", "paused"}
        /\ UNCHANGED <<taskState, delTask>>
    BY <1>2, <2>1 DEF TakeDelivery
  <2> QED BY <1>2, <2>2
<1>3. CASE dl' = dl
  <2>1. delTask'[dl] = delTask[dl] /\ delTask[dl] \in Tasks
    BY <1>1, <1>3, TargetStays
  <2>2. taskState[delTask[dl]] # "paused" BY <1>3, <2>1 DEF Unpaused
  <2>3. pc # "cancel" BY <1>3 DEF Sincere
  <2> QED BY <1>1, <1>3, <2>1, <2>2, <2>3, OnlyCancelPauses
<1>4. PostPrompt => dl' = dl BY DEF PostPrompt
<1>5. ASSUME NEW d \in Events, TakeDelivery(d) PROVE dl' = d \/ dl' = dl
  BY <1>5 DEF TakeDelivery
<1> QED BY <1>1, <1>2, <1>3, <1>4, <1>5, DeliveryStays

\* So nothing comes to wait for a session that is paused.
LEMMA WithdrawsKept ==
  ASSUME IInv, Whole, Aware, Unpaused, CancelWithdraws, [Next]_vars
  PROVE  CancelWithdraws'
<1> SUFFICES ASSUME NEW t \in Tasks, taskState'[t] = "paused",
                    NEW d \in Events, delTask'[d] = t, delState'[d] \in Live
             PROVE  FALSE
  BY DEF CancelWithdraws, LiveDeliveries
<1>1. taskState'[t] = taskState[t] BY TaskComes
<1>2. CASE delTask[d] = t /\ delState[d] \in Live
  <2>1. LiveDeliveries(t) # {} BY <1>2 DEF LiveDeliveries
  <2> QED BY <1>1, <2>1 DEF CancelWithdraws
<1>3. CASE ~(delTask[d] = t /\ delState[d] \in Live)
  <2>1. (pc = "queue" /\ held = t /\ dl = NoEvent) \/ (dl # NoEvent /\ delTask[dl] = t)
    BY <1>3, LiveComes
  <2>2. t # NoTask BY Domains
  <2> QED BY <1>1, <2>1, <2>2 DEF Aware, Unpaused
<1> QED BY <1>2, <1>3

\* In every reachable state, while feedback fits its prompt and no comment is
\* edited into a cancel.
LEMMA PauseInvariance ==
  ASSUME CanOverflow = FALSE, NoLateCancels
  PROVE  Spec => [](QuietInv /\ PauseInv)
<1>1. Init => PauseInv
  <2> SUFFICES ASSUME Init PROVE PauseInv OBVIOUS
  <2>1. Sincere BY DEF Init, Sincere
  <2>2. Unpaused /\ CancelWithdraws BY DEF Init, Unpaused, CancelWithdraws, LiveDeliveries
  <2> QED BY <2>1, <2>2 DEF PauseInv
<1>2. IInv /\ QuietInv /\ PauseInv /\ [Next]_vars => PauseInv'
  BY SincereKept, UnpausedKept, WithdrawsKept DEF PauseInv, QuietInv
<1> QED BY <1>1, <1>2, Invariance, QuietInvariance, PTL DEF Spec

\* After a cancel no feedback waits for the session, wherever runs are killed
\* and calls fail and in whatever order comments and cancels come in.
THEOREM CancelsWithdraw ==
  ASSUME CanOverflow = FALSE, NoLateCancels PROVE Spec => []CancelWithdraws
<1>1. PauseInv => CancelWithdraws BY DEF PauseInv
<1> QED BY <1>1, PauseInvariance, PTL

\* After a cancel the session gets no prompt until a later continue.
THEOREM PausedQuiet ==
  ASSUME CanOverflow = FALSE, NoLateCancels PROVE Spec => PausedStaysQuiet
<1>1. ASSUME IInv, PauseInv, [Next]_vars, NEW t \in Tasks, taskState[t] = "paused",
             NEW d \in Events, contMsg[t][d] = {}
      PROVE  contMsg'[t][d] = {}
  <2> SUFFICES ASSUME contMsg'[t][d] # {} PROVE FALSE OBVIOUS
  <2>1. PostPrompt /\ t = delTask[dl] BY <1>1, OnlyPosts DEF IInv, TypeOK
  <2>2. dl # NoEvent BY <2>1, <1>1 DEF PostPrompt, IInv, DispatchInv, Control
  <2>3. t # NoTask BY Domains
  <2> QED BY <1>1, <2>1, <2>2, <2>3 DEF PauseInv, Unpaused
<1>2. IInv /\ PauseInv /\ [Next]_vars =>
        [\A t \in Tasks : taskState[t] = "paused" =>
           \A d \in Events : contMsg[t][d] = {} => contMsg'[t][d] = {}]_vars
  BY <1>1
<1> QED BY <1>2, Invariance, PauseInvariance, PTL DEF Spec, PausedStaysQuiet
-----------------------------------------------------------------------------
(* Who starts tasks *)

\* The operations that write sessions' titles and first prompts.
LEMMA PromptSteps ==
  ASSUME [Next]_vars
  PROVE  \/ UNCHANGED <<title, startMsg>>
         \/ \E e \in Events : StartCreate(e) \/ StartPrompt(e) \/ DiscardSession(e)
         \/ DeleteSession
<1> DEFINE Same == UNCHANGED <<title, startMsg>>
<1>1. CASE Environment
  BY <1>1 DEF Environment, Post, Edit, Age, AgentWorks, PersonPrompts
<1>2. CASE StartRun \/ EndPoll \/ \E e \in Events : Discover(e)
  BY <1>2 DEF StartRun, EndPoll, Discover
<1>3. ASSUME NEW e \in Events, PendingStep(e) PROVE Same
  BY <1>3 DEF PendingStep, TakeEvent, EventCancel, EventContinue, EventStart,
              EventUnmapped, EventClosed, EventDelivered, ContinueCheck, ContinueResume,
              ContinueQueue, ContinueQueued, CancelRecords, CancelAbort
<1>4. ASSUME NEW e \in Events, StartStep(e)
      PROVE  Same \/ StartCreate(e) \/ StartPrompt(e) \/ DiscardSession(e)
  BY <1>4 DEF StartStep, StartPrepare, StartRecover, AdoptTask, AdoptMapping,
              StartConfirm, StartSave, StartMap, StartActivate, DiscardRecords,
              DiscardWorkspace
<1>5. ASSUME NEW e \in Events, DispatchStep(e) PROVE Same
  BY <1>5 DEF DispatchStep, TakeDelivery, RefreshEvent, DispatchCancelled, DropEvent,
              MoveContext
<1>6. CASE EndPending \/ EndDispatch \/ EndComplete \/ UpkeepLoop \/ EndRun
  BY <1>6 DEF EndPending, EndDispatch, EndComplete, UpkeepLoop, RemoveWorkspace,
              Collected, EndRun, UpkeepFrame
<1>7. CASE DispatchLoop
  BY <1>7 DEF DispatchLoop, NothingLeft, SelectContexts, SealDelivery, PostPrompt, Finalize
<1>8. CASE \E t \in Tasks : UpkeepStep(t)
  BY <1>8 DEF UpkeepStep, CompleteTask, RetainTask, BlockTask, CollectTask, UpkeepFrame
<1>9. CASE \/ \E p \in Subjects, t \in Tasks : RegisterPr(p, t)
           \/ Crash \/ PendingRaises \/ DispatchRaises \/ CleanupRaises \/ DeleteFails
  BY <1>9 DEF RegisterPr, Crash, PendingRaises, DispatchRaises, CleanupRaises,
              DeleteFails, UpkeepFrame
<1>10. CASE Operator BY <1>10 DEF Operator, DeleteCheck, DeleteWorkspace, DeleteRecords
<1>11. CASE UNCHANGED vars BY <1>11 DEF vars, storeVars
<1> QED BY StepCases, <1>1, <1>2, <1>3, <1>4, <1>5, <1>6, <1>7, <1>8, <1>9, <1>10, <1>11

\* The operations that write mappings.
LEMMA MappingSteps ==
  ASSUME [Next]_vars
  PROVE  \/ UNCHANGED mapping
         \/ \E e \in Events : AdoptMapping(e) \/ StartMap(e) \/ DiscardRecords(e)
         \/ DeleteRecords \/ \E p \in Subjects, t \in Tasks : RegisterPr(p, t)
<1> DEFINE Same == UNCHANGED mapping
<1>1. CASE Environment
  BY <1>1 DEF Environment, Post, Edit, Age, AgentWorks, PersonPrompts
<1>2. CASE StartRun \/ EndPoll \/ \E e \in Events : Discover(e)
  BY <1>2 DEF StartRun, EndPoll, Discover
<1>3. ASSUME NEW e \in Events, PendingStep(e) PROVE Same
  BY <1>3 DEF PendingStep, TakeEvent, EventCancel, EventContinue, EventStart,
              EventUnmapped, EventClosed, EventDelivered, ContinueCheck, ContinueResume,
              ContinueQueue, ContinueQueued, CancelRecords, CancelAbort
<1>4. ASSUME NEW e \in Events, StartStep(e)
      PROVE  Same \/ AdoptMapping(e) \/ StartMap(e) \/ DiscardRecords(e)
  BY <1>4 DEF StartStep, StartPrepare, StartRecover, AdoptTask, StartConfirm, StartCreate,
              StartSave, StartPrompt, StartActivate, DiscardSession, DiscardWorkspace
<1>5. ASSUME NEW e \in Events, DispatchStep(e) PROVE Same
  BY <1>5 DEF DispatchStep, TakeDelivery, RefreshEvent, DispatchCancelled, DropEvent,
              MoveContext
<1>6. CASE EndPending \/ EndDispatch \/ EndComplete \/ UpkeepLoop \/ EndRun
  BY <1>6 DEF EndPending, EndDispatch, EndComplete, UpkeepLoop, RemoveWorkspace,
              Collected, EndRun, UpkeepFrame
<1>7. CASE DispatchLoop
  BY <1>7 DEF DispatchLoop, NothingLeft, SelectContexts, SealDelivery, PostPrompt, Finalize
<1>8. CASE \E t \in Tasks : UpkeepStep(t)
  BY <1>8 DEF UpkeepStep, CompleteTask, RetainTask, BlockTask, CollectTask, UpkeepFrame
<1>9. CASE Crash \/ PendingRaises \/ DispatchRaises \/ CleanupRaises \/ DeleteFails
  BY <1>9 DEF Crash, PendingRaises, DispatchRaises, CleanupRaises, DeleteFails, UpkeepFrame
<1>10. CASE Operator BY <1>10 DEF Operator, DeleteCheck, DeleteWorkspace, DeleteSession
<1>11. CASE UNCHANGED vars BY <1>11 DEF vars, storeVars
<1> QED BY StepCases, <1>1, <1>2, <1>3, <1>4, <1>5, <1>6, <1>7, <1>8, <1>9, <1>10, <1>11

\* A session goes only with discard_unprompted_task or delete_session.
LEMMA SessionGoes ==
  ASSUME WorldType, [Next]_vars, NEW t \in Tasks, sess[t] # "none", sess'[t] = "none"
  PROVE  DeleteSession \/ \E e \in Events : DiscardSession(e) /\ t = e
<1> USE DEF WorldType
<1>1. CASE UNCHANGED sess BY <1>1
<1>2. CASE Environment
  BY <1>1, <1>2 DEF Environment, Post, Edit, Age, AgentWorks, PersonPrompts
<1>3. CASE StartRun \/ EndPoll \/ \E e \in Events : Discover(e)
  BY <1>1, <1>3 DEF StartRun, EndPoll, Discover
<1>4. ASSUME NEW e \in Events, PendingStep(e) PROVE FALSE
  <2>1. CASE CancelAbort(e) BY <2>1 DEF CancelAbort
  <2> QED BY <1>1, <1>4, <2>1
          DEF PendingStep, TakeEvent, EventCancel, EventContinue, EventStart,
              EventUnmapped, EventClosed, EventDelivered, ContinueCheck, ContinueResume,
              ContinueQueue, ContinueQueued, CancelRecords
<1>5. ASSUME NEW e \in Events, StartStep(e) PROVE DiscardSession(e) /\ t = e
  <2>1. CASE StartCreate(e) BY <2>1 DEF StartCreate
  <2>2. CASE StartPrompt(e) BY <2>2 DEF StartPrompt
  <2>3. CASE DiscardSession(e) BY <2>3 DEF DiscardSession, DropSession
  <2> QED BY <1>1, <1>5, <2>1, <2>2, <2>3
          DEF StartStep, StartPrepare, StartRecover, AdoptTask, AdoptMapping,
              StartConfirm, StartSave, StartMap, StartActivate, DiscardRecords,
              DiscardWorkspace
<1>6. ASSUME NEW e \in Events, DispatchStep(e) PROVE FALSE
  BY <1>1, <1>6 DEF DispatchStep, TakeDelivery, RefreshEvent, DispatchCancelled, DropEvent,
              MoveContext
<1>7. CASE EndPending \/ EndDispatch \/ EndComplete \/ UpkeepLoop \/ EndRun
  BY <1>1, <1>7 DEF EndPending, EndDispatch, EndComplete, UpkeepLoop, RemoveWorkspace,
              Collected, EndRun, UpkeepFrame
<1>8. CASE DispatchLoop
  <2>1. CASE PostPrompt BY <2>1 DEF PostPrompt
  <2> QED BY <1>1, <1>8, <2>1 DEF DispatchLoop, NothingLeft, SelectContexts, SealDelivery,
                                  Finalize
<1>9. CASE \E u \in Tasks : UpkeepStep(u)
  BY <1>1, <1>9 DEF UpkeepStep, CompleteTask, RetainTask, BlockTask, CollectTask, UpkeepFrame
<1>10. CASE \/ \E p \in Subjects, u \in Tasks : RegisterPr(p, u)
            \/ Crash \/ PendingRaises \/ DispatchRaises \/ CleanupRaises \/ DeleteFails
  BY <1>1, <1>10 DEF RegisterPr, Crash, PendingRaises, DispatchRaises, CleanupRaises,
              DeleteFails, UpkeepFrame
<1>11. CASE Operator
  BY <1>1, <1>11 DEF Operator, DeleteCheck, DeleteWorkspace, DeleteRecords
<1>12. CASE UNCHANGED vars BY <1>1, <1>12 DEF vars, storeVars
<1> QED BY StepCases, <1>2, <1>3, <1>4, <1>5, <1>6, <1>7, <1>8, <1>9, <1>10, <1>11, <1>12

\* What is recorded of a command is what GitHub says then.
LEMMA ActionComes ==
  ASSUME DbType, [Next]_vars, NEW e \in Events, evAction'[e] # evAction[e]
  PROVE  /\ evAction'[e] = github[e] /\ github' = github
         /\ \/ Discover(e) /\ evState[e] \in {"unseen", "ignored"}
            \/ StartConfirm(e) \/ RefreshEvent(e)
<1> USE DEF DbType
<1>1. ASSUME NEW x \in Events, Discover(x)
      PROVE  x = e /\ evAction'[e] = github[e] /\ github' = github
             /\ evState[e] \in {"unseen", "ignored"}
  BY <1>1 DEF Discover
<1>2. ASSUME NEW x \in Events, StartConfirm(x)
      PROVE  x = e /\ evAction'[e] = github[e] /\ github' = github
  BY <1>2 DEF StartConfirm
<1>3. ASSUME NEW x \in Events, RefreshEvent(x)
      PROVE  x = e /\ evAction'[e] = github[e] /\ github' = github
  <2>1. github' = github BY <1>3 DEF RefreshEvent
  <2>2. \E c : c = github[x] /\ evAction' = [evAction EXCEPT ![x] = c]
    BY <1>3 DEF RefreshEvent
  <2> QED BY <2>1, <2>2
<1>4. CASE UNCHANGED evAction BY <1>4
<1> QED BY EventSteps, <1>1, <1>2, <1>3, <1>4
        DEF EventUnmapped, EventClosed, EventDelivered, ContinueQueued, DispatchCancelled,
            Finalize, PendingRaises

\* An event is moved on by discovery, by the turn of the loop that has it, or
\* with its delivery.
LEMMA StateComes ==
  ASSUME DbType, [Next]_vars, NEW e \in Events, evState'[e] # evState[e]
  PROVE  \/ Discover(e) \/ RefreshEvent(e) \/ DispatchCancelled(e)
         \/ EventUnmapped(e) \/ EventClosed(e) \/ EventDelivered(e) \/ ContinueQueued(e)
         \/ StartConfirm(e)
         \/ PendingRaises /\ ev = e /\ evState'[e] = "pending"
         \/ Finalize /\ e \in carried[dl] /\ evState'[e] = "delivered"
<1> USE DEF DbType
<1>1. ASSUME NEW x \in Events, NEW s, UpdateEvent(x, s) PROVE x = e /\ evState'[e] = s
  BY <1>1 DEF UpdateEvent
<1>2. ASSUME UNCHANGED evState PROVE FALSE BY <1>2
<1>3. ASSUME NEW x \in Events,
             \/ Discover(x) \/ EventUnmapped(x) \/ EventClosed(x) \/ EventDelivered(x)
             \/ ContinueQueued(x) \/ StartConfirm(x) \/ RefreshEvent(x) \/ DispatchCancelled(x)
      PROVE  x = e
  BY <1>1, <1>2, <1>3 DEF Discover, EventUnmapped, EventClosed, EventDelivered,
                          ContinueQueued, StartConfirm, RefreshEvent, DispatchCancelled
<1>4. CASE Finalize BY <1>4 DEF Finalize, FinalizeDelivery
<1>5. CASE PendingRaises
  <2>1. UpdateEvent(ev, "pending") BY <1>5 DEF PendingRaises
  <2> QED BY <1>5, <2>1 DEF UpdateEvent
<1> QED BY EventSteps, <1>2, <1>3, <1>4, <1>5

\* No comment is edited into a start, nor withdrawn, after it was posted.
NoRestarts == MaxEdits = 0 \/ EditCommands \subseteq {"continue", "cancel"}

StartLabels      == {"start", "recover", "confirm", "create", "save", "prompt"}
DiscardLabels    == {"discard", "discardrecords", "discardspace"}
UnpromptedLabels == {"confirm", "create", "save"} \cup DiscardLabels

\* No operator deletes a session.
Unattended == cliPc = "idle"

\* A session that has its first prompt is the one that its event started, and
\* the event is still a start.
Begun ==
  \A e \in startMsg :
    /\ sess[e] # "none" /\ title[e] = StartAction(e) /\ StartAction(e) \in StartCommands
    /\ evState[e] \notin {"unseen", "ignored"} /\ github[e] \in Commands

Engaged == startMsg \cup Manual
Mapped  == \A s \in Subjects : mapping[s] # NoTask => mapping[s] \in Engaged

\* Deliveries carry feedback, which does not become a start.
Asked == \A e \in Events : evAction[e] \in {"continue", "cancel"} =>
                             github[e] \in {"continue", "cancel"}
Meant == {e \in Events : e \in Reviews \/ evAction[e] \in {"continue", "cancel"}}
Gathered ==
  /\ \A d \in Events : carried[d] \subseteq Meant
  /\ ctx \subseteq Meant
  /\ dl # NoEvent => todo \subseteq Meant

\* Between the turns of the loops there is no event in hand.
Between == dl = NoEvent /\ pc \notin PendingLabels => ev = NoEvent

\* What process_pending_events has in hand and has still before it is pending.
InHand ==
  dl = NoEvent =>
    /\ pc \in {"pending"} \cup PendingLabels =>
         ev \notin todo /\ \A e \in todo : evState[e] = "pending"
    /\ pc \in PendingLabels =>
         /\ ev # NoEvent /\ evState[ev] \in {"pending", "ignored"}
         /\ pc \notin DiscardLabels => evState[ev] = "pending"
    /\ pc \in {"continue", "resume", "queue", "queued"} => evAction[ev] = "continue"

\* Where start_task is, and what it knows then of the session and its prompt.
Starting ==
  /\ pc \in StartLabels => StartAction(ev) \in StartCommands
  /\ pc \in UnpromptedLabels => ev \notin startMsg
  /\ (pc \in {"confirm", "create"} /\ found) \/ pc \in {"save", "prompt"} =>
       sess[ev] # "none" /\ title[ev] = StartAction(ev)
  /\ pc \in {"create", "save", "prompt"} => github[ev] \in Commands
  /\ pc \in {"adopt", "adoptmap", "map", "activate"} => ev \in startMsg

StartInv == Unattended /\ Begun /\ Mapped /\ Asked /\ Gathered /\ Fresh /\ Between /\ InHand /\ Starting

\* Without sessions to delete there is no delete-session.
LEMMA UnattendedKept ==
  ASSUME Deletable = {}, Unattended, [Next]_vars
  PROVE  Unattended' /\ ~Operator /\ ~DeleteFails
<1> USE DEF Unattended
<1>1. ~Operator /\ ~DeleteFails
  BY DEF Operator, DeleteCheck, DeleteWorkspace, DeleteSession, DeleteRecords, DeleteFails
<1>2. CASE UNCHANGED cliVars BY <1>1, <1>2
<1>3. CASE Environment
  BY <1>2, <1>3 DEF Environment, Post, Edit, Age, AgentWorks, PersonPrompts
<1>4. CASE StartRun \/ EndPoll \/ \E e \in Events : Discover(e)
  BY <1>2, <1>4 DEF StartRun, EndPoll, Discover
<1>5. ASSUME NEW e \in Events, PendingStep(e) PROVE UNCHANGED cliVars
  BY <1>5 DEF PendingStep, TakeEvent, EventCancel, EventContinue, EventStart,
              EventUnmapped, EventClosed, EventDelivered, ContinueCheck, ContinueResume,
              ContinueQueue, ContinueQueued, CancelRecords, CancelAbort
<1>6. ASSUME NEW e \in Events, StartStep(e) PROVE UNCHANGED cliVars
  BY <1>6 DEF StartStep, StartPrepare, StartRecover, AdoptTask, AdoptMapping,
              StartConfirm, StartCreate, StartSave, StartPrompt, StartMap,
              StartActivate, DiscardSession, DiscardRecords, DiscardWorkspace
<1>7. ASSUME NEW e \in Events, DispatchStep(e) PROVE UNCHANGED cliVars
  BY <1>7 DEF DispatchStep, TakeDelivery, RefreshEvent, DispatchCancelled, DropEvent,
              MoveContext
<1>8. CASE EndPending \/ EndDispatch \/ EndComplete \/ UpkeepLoop \/ EndRun
  BY <1>2, <1>8 DEF EndPending, EndDispatch, EndComplete, UpkeepLoop, RemoveWorkspace,
              Collected, EndRun, UpkeepFrame
<1>9. CASE DispatchLoop
  BY <1>2, <1>9 DEF DispatchLoop, NothingLeft, SelectContexts, SealDelivery, PostPrompt, Finalize
<1>10. CASE \E t \in Tasks : UpkeepStep(t)
  BY <1>2, <1>10 DEF UpkeepStep, CompleteTask, RetainTask, BlockTask, CollectTask, UpkeepFrame
<1>11. CASE \/ \E p \in Subjects, t \in Tasks : RegisterPr(p, t)
            \/ Crash \/ PendingRaises \/ DispatchRaises \/ CleanupRaises
  BY <1>2, <1>11 DEF RegisterPr, Crash, PendingRaises, DispatchRaises, CleanupRaises, UpkeepFrame
<1>12. CASE UNCHANGED vars BY <1>2, <1>12 DEF vars, storeVars
<1> QED BY StepCases, <1>1, <1>2, <1>3, <1>4, <1>5, <1>6, <1>7, <1>8, <1>9, <1>10, <1>11, <1>12

\* When the turn of a delivery is over nothing of it is left.
LEMMA FreshKept == ASSUME [Next]_vars, Fresh PROVE Fresh'
<1> USE DEF Fresh, Goto, At, EventDone, DeliveryDone
<1>1. CASE UNCHANGED <<pc, todo>> BY <1>1
<1>2. CASE Environment
  BY <1>1, <1>2 DEF Environment, Post, Edit, Age, AgentWorks, PersonPrompts
<1>3. CASE StartRun \/ EndPoll \/ \E e \in Events : Discover(e)
  BY <1>1, <1>3 DEF StartRun, EndPoll, Discover
<1>4. ASSUME NEW e \in Events, PendingStep(e) PROVE Fresh'
  BY <1>4 DEF PendingStep, TakeEvent, EventCancel, EventContinue, EventStart,
              EventUnmapped, EventClosed, EventDelivered, ContinueCheck, ContinueResume,
              ContinueQueue, ContinueQueued, CancelRecords, CancelAbort
<1>5. ASSUME NEW e \in Events, StartStep(e) PROVE Fresh'
  BY <1>5 DEF StartStep, StartPrepare, StartRecover, AdoptTask, AdoptMapping,
              StartConfirm, StartCreate, StartSave, StartPrompt, StartMap,
              StartActivate, DiscardSession, DiscardRecords, DiscardWorkspace
<1>6. ASSUME NEW e \in Events, DispatchStep(e) PROVE Fresh'
  BY <1>6 DEF DispatchStep, TakeDelivery, RefreshEvent, DispatchCancelled, DropEvent,
              MoveContext, First
<1>7. CASE DispatchLoop
  BY <1>7 DEF DispatchLoop, NothingLeft, SelectContexts, SealDelivery, PostPrompt, Finalize
<1>8. CASE EndPending \/ EndDispatch \/ EndComplete \/ UpkeepLoop \/ EndRun
  BY <1>8 DEF EndPending, EndDispatch, EndComplete, UpkeepLoop, RemoveWorkspace,
              Collected, EndRun, UpkeepFrame
<1>9. CASE \E t \in Tasks : UpkeepStep(t)
  BY <1>1, <1>9 DEF UpkeepStep, CompleteTask, RetainTask, BlockTask, CollectTask, UpkeepFrame
<1>10. CASE Crash \/ PendingRaises \/ DispatchRaises
  BY <1>10 DEF Crash, Idle, PendingRaises, DispatchRaises
<1>11. CASE CleanupRaises BY <1>1, <1>11 DEF CleanupRaises, UpkeepFrame
<1>12. CASE \/ \E q \in Subjects, u \in Tasks : RegisterPr(q, u)
            \/ Operator \/ DeleteFails
  BY <1>1, <1>12 DEF RegisterPr, Operator, DeleteCheck, DeleteWorkspace, DeleteSession,
              DeleteRecords, DeleteFails
<1>13. CASE UNCHANGED vars BY <1>1, <1>13 DEF vars, storeVars
<1> QED BY StepCases, <1>2, <1>3, <1>4, <1>5, <1>6, <1>7, <1>8, <1>9, <1>10, <1>11, <1>12, <1>13

\* When no turn of a loop is under way there is no event in hand.
LEMMA BetweenKept == ASSUME [Next]_vars, Control, Between PROVE Between'
<1> USE DEF Control, Between, PendingLabels, DispatchLabels, Goto, At, EventDone, DeliveryDone
<1>1. CASE UNCHANGED <<pc, ev, dl>> BY <1>1
<1>2. CASE Environment
  BY <1>1, <1>2 DEF Environment, Post, Edit, Age, AgentWorks, PersonPrompts
<1>3. CASE StartRun \/ EndPoll \/ \E e \in Events : Discover(e)
  BY <1>1, <1>3 DEF StartRun, EndPoll, Discover
<1>4. ASSUME NEW e \in Events, PendingStep(e) PROVE Between'
  BY <1>4 DEF PendingStep, TakeEvent, EventCancel, EventContinue, EventStart,
              EventUnmapped, EventClosed, EventDelivered, ContinueCheck, ContinueResume,
              ContinueQueue, ContinueQueued, CancelRecords, CancelAbort
<1>5. ASSUME NEW e \in Events, StartStep(e) PROVE Between'
  BY <1>5 DEF StartStep, StartPrepare, StartRecover, AdoptTask, AdoptMapping,
              StartConfirm, StartCreate, StartSave, StartPrompt, StartMap,
              StartActivate, DiscardSession, DiscardRecords, DiscardWorkspace
<1>6. ASSUME NEW e \in Events, DispatchStep(e) PROVE Between'
  BY <1>6, Domains DEF DispatchStep, TakeDelivery, RefreshEvent, DispatchCancelled, DropEvent,
              MoveContext, First
<1>7. CASE DispatchLoop
  BY <1>7 DEF DispatchLoop, NothingLeft, SelectContexts, SealDelivery, PostPrompt, Finalize
<1>8. CASE EndPending \/ EndDispatch \/ EndComplete \/ UpkeepLoop \/ EndRun
  BY <1>8 DEF EndPending, EndDispatch, EndComplete, UpkeepLoop, RemoveWorkspace,
              Collected, EndRun, UpkeepFrame
<1>9. CASE \E t \in Tasks : UpkeepStep(t)
  BY <1>1, <1>9 DEF UpkeepStep, CompleteTask, RetainTask, BlockTask, CollectTask, UpkeepFrame
<1>10. CASE Crash \/ PendingRaises \/ DispatchRaises
  BY <1>10 DEF Crash, Idle, PendingRaises, DispatchRaises
<1>11. CASE CleanupRaises BY <1>1, <1>11 DEF CleanupRaises, UpkeepFrame
<1>12. CASE \/ \E q \in Subjects, u \in Tasks : RegisterPr(q, u)
            \/ Operator \/ DeleteFails
  BY <1>1, <1>12 DEF RegisterPr, Operator, DeleteCheck, DeleteWorkspace, DeleteSession,
              DeleteRecords, DeleteFails
<1>13. CASE UNCHANGED vars BY <1>1, <1>13 DEF vars, storeVars
<1> QED BY StepCases, <1>2, <1>3, <1>4, <1>5, <1>6, <1>7, <1>8, <1>9, <1>10, <1>11, <1>12, <1>13

\* The steps that leave the run in process_pending_events.
LEMMA PhaseSteps ==
  ASSUME Deletable = {}, Unattended, Control, [Next]_vars,
         dl' = NoEvent, pc' \in {"pending"} \cup PendingLabels
  PROVE  \/ UNCHANGED <<runVars, eventVars, title, startMsg>>
         \/ EndPoll \/ PendingRaises
         \/ dl = NoEvent /\ \E e \in Events : PendingStep(e) \/ StartStep(e)
<1> USE DEF Control, PendingLabels, DispatchLabels, Goto, At, DeliveryDone
<1>1. CASE Environment
  BY <1>1 DEF Environment, Post, Edit, Age, AgentWorks, PersonPrompts
<1>2. CASE StartRun \/ \E e \in Events : Discover(e)
  BY <1>2 DEF StartRun, Discover
<1>3. ASSUME NEW e \in Events, PendingStep(e) PROVE dl = NoEvent
  BY <1>3 DEF PendingStep, TakeEvent, EventCancel, EventContinue, EventStart,
              EventUnmapped, EventClosed, EventDelivered, ContinueCheck, ContinueResume,
              ContinueQueue, ContinueQueued, CancelRecords, CancelAbort
<1>4. ASSUME NEW e \in Events, StartStep(e) PROVE dl = NoEvent
  BY <1>4 DEF StartStep, StartPrepare, StartRecover, AdoptTask, AdoptMapping,
              StartConfirm, StartCreate, StartSave, StartPrompt, StartMap,
              StartActivate, DiscardSession, DiscardRecords, DiscardWorkspace
<1>5. ASSUME NEW e \in Events, DispatchStep(e) PROVE FALSE
  BY <1>5, Domains DEF DispatchStep, TakeDelivery, RefreshEvent, DispatchCancelled, DropEvent,
              MoveContext
<1>6. CASE DispatchLoop
  BY <1>6 DEF DispatchLoop, NothingLeft, SelectContexts, SealDelivery, PostPrompt, Finalize
<1>7. CASE EndPending \/ EndDispatch \/ EndComplete \/ UpkeepLoop \/ EndRun
  BY <1>7 DEF EndPending, EndDispatch, EndComplete, UpkeepLoop, RemoveWorkspace,
              Collected, EndRun, UpkeepFrame
<1>8. CASE \E t \in Tasks : UpkeepStep(t)
  BY <1>8 DEF UpkeepStep, CompleteTask, RetainTask, BlockTask, CollectTask, UpkeepFrame
<1>9. CASE Crash \/ DispatchRaises \/ CleanupRaises
  BY <1>9 DEF Crash, Idle, DispatchRaises, CleanupRaises, UpkeepFrame
<1>10. CASE \E q \in Subjects, u \in Tasks : RegisterPr(q, u)
  BY <1>10 DEF RegisterPr
<1>11. CASE UNCHANGED vars BY <1>11 DEF vars, storeVars
<1> QED BY StepCases, UnattendedKept, <1>1, <1>2, <1>3, <1>4, <1>5, <1>6, <1>7, <1>8, <1>9,
           <1>10, <1>11

\* What is on GitHub changes when it is posted, and then only to feedback.
LEMMA TextsGoOn ==
  ASSUME NoRestarts, IInv, [Next]_vars, NEW e \in Known
  PROVE  github'[e] \in {github[e], "continue", "cancel"}
<1>1. github \in [Events -> Contents \cup {"unposted"}] /\ edits \in Nat
  BY DEF IInv, TypeOK, WorldType
<1>2. ASSUME NEW x \in Events, Post(x) PROVE github'[e] = github[e]
  BY <1>1, <1>2 DEF Post, Known
<1>3. ASSUME NEW x \in Events, Edit(x) PROVE github'[e] \in {github[e], "continue", "cancel"}
  <2>1. EditCommands \subseteq {"continue", "cancel"}
    BY <1>1, <1>3, BridgeAssumption DEF Edit, NoRestarts
  <2>2. PICK c \in EditCommands : github' = [github EXCEPT ![x] = c] BY <1>3 DEF Edit
  <2> QED BY <1>1, <2>1, <2>2 DEF Known
<1> QED BY TextSteps, <1>2, <1>3 DEF Known

\* What is recorded as feedback is feedback on GitHub.
LEMMA AskedKept == ASSUME NoRestarts, IInv, Asked, [Next]_vars PROVE Asked'
<1> SUFFICES ASSUME NEW e \in Events, evAction'[e] \in {"continue", "cancel"}
             PROVE  github'[e] \in {"continue", "cancel"}
  BY DEF Asked
<1>1. CASE evAction'[e] # evAction[e] BY <1>1, ActionComes DEF IInv, TypeOK
<1>2. CASE evAction'[e] = evAction[e]
  <2>1. github[e] \in {"continue", "cancel"} BY <1>2 DEF Asked
  <2> QED BY <2>1, TextsGoOn DEF Known
<1> QED BY <1>1, <1>2

\* So it stays feedback.
LEMMA MeantStays == ASSUME IInv, Asked, [Next]_vars PROVE Meant \subseteq Meant'
<1> SUFFICES ASSUME NEW e \in Meant, e \notin Reviews
             PROVE  evAction'[e] \in {"continue", "cancel"}
  BY DEF Meant
<1>1. evAction[e] \in {"continue", "cancel"} BY DEF Meant
<1> QED BY <1>1, ActionComes DEF IInv, TypeOK, Meant, Asked

\* Deliveries carry feedback.
LEMMA GatheredKept ==
  ASSUME IInv, Asked, Gathered, Fresh, InHand, [Next]_vars
  PROVE  Gathered'
<1>1. Meant \subseteq Meant' BY MeantStays
<1>2. Control BY DEF IInv, DispatchInv
<1>3. ASSUME NEW d \in Events, NEW e \in carried'[d], e \notin carried[d] PROVE e \in Meant
  <2>1. e \in Events /\ (ContinueQueue(e) \/ MoveContext(e)) BY <1>3, CarriedComes
  <2>2. CASE ContinueQueue(e)
    <3>1. pc = "queue" /\ ev = e BY <2>2 DEF ContinueQueue, At
    <3>2. dl = NoEvent BY <1>2, <3>1 DEF Control, DispatchLabels
    <3> QED BY <2>1, <3>1, <3>2 DEF InHand, Meant
  <2>3. CASE MoveContext(e)
    <3>1. dl # NoEvent /\ e \in todo BY <1>2, <2>3 DEF MoveContext, First, Control
    <3> QED BY <3>1 DEF Gathered
  <2> QED BY <2>1, <2>2, <2>3
<1>4. \A d \in Events : carried'[d] \subseteq Meant BY <1>3 DEF Gathered
<1>5. ctx' \subseteq Meant BY <1>2, FeedbackComes DEF Gathered
<1>6. dl' # NoEvent => todo' \subseteq Meant BY <1>2, FeedbackComes DEF Gathered
<1> QED BY <1>1, <1>4, <1>5, <1>6 DEF Gathered

\* What process_pending_events has in hand is pending.
LEMMA InHandKept ==
  ASSUME Deletable = {}, Unattended, IInv, Between, InHand, [Next]_vars
  PROVE  InHand'
<1>1. Control /\ evState \in [Events -> EventStates] /\ evAction \in [Events -> Commands]
      /\ todo \subseteq Events /\ ev \in Events \cup {NoEvent}
  BY DEF IInv, DispatchInv, TypeOK, DbType, RunType
<1> USE DEF InHand, PendingLabels, DiscardLabels, Goto, At, EventDone
<1>2. CASE UNCHANGED <<runVars, eventVars>> BY <1>2
<1>3. CASE EndPoll
  BY <1>3, <1>1, Domains DEF EndPoll, Between, Control, DispatchLabels
<1>4. CASE PendingRaises BY <1>4, <1>1, Domains DEF PendingRaises, UpdateEvent
<1>5. ASSUME NEW e \in Events, TakeEvent(e), dl = NoEvent PROVE InHand'
  <2>1. /\ e \in todo /\ todo' = todo \ {e} /\ evState' = evState /\ dl' = dl
        /\ pc = "pending"
        /\ \/ pc' = "pending" /\ ev' = ev
           \/ pc' = "event" /\ ev' = e
    BY <1>5 DEF TakeEvent, First
  <2> QED BY <1>1, <1>5, <2>1, Domains
<1>6. ASSUME NEW e \in Events, EventCancel(e) \/ EventContinue(e) \/ EventStart(e), dl = NoEvent
      PROVE  InHand'
  BY <1>6 DEF EventCancel, EventContinue, EventStart
<1>7. ASSUME NEW e \in Events,
             EventUnmapped(e) \/ EventClosed(e) \/ EventDelivered(e) \/ ContinueQueued(e),
             dl = NoEvent
      PROVE  InHand'
  BY <1>7, <1>1, Domains DEF EventUnmapped, EventClosed, EventDelivered, ContinueQueued, UpdateEvent
<1>8. ASSUME NEW e \in Events,
             \/ ContinueCheck(e) \/ ContinueResume(e) \/ ContinueQueue(e)
             \/ CancelRecords(e) \/ CancelAbort(e),
             dl = NoEvent
      PROVE  InHand'
  <2>1. /\ UNCHANGED <<evState, evAction, ev, dl, todo>>
        /\ \/ pc \in {"continue", "resume", "queue"} /\ pc' \in {"resume", "queue", "queued"}
           \/ pc \in {"cancel", "abort"} /\ pc' \in {"abort", "delivered"}
    <3>1. CASE ContinueCheck(e) BY <3>1 DEF ContinueCheck
    <3>2. CASE ContinueResume(e) BY <3>2 DEF ContinueResume
    <3>3. CASE ContinueQueue(e) BY <3>3 DEF ContinueQueue
    <3>4. CASE CancelRecords(e) BY <3>4 DEF CancelRecords
    <3>5. CASE CancelAbort(e) BY <3>5 DEF CancelAbort
    <3> QED BY <1>8, <3>1, <3>2, <3>3, <3>4, <3>5
  <2> QED BY <1>8, <2>1
<1>9. ASSUME NEW e \in Events, StartConfirm(e), dl = NoEvent PROVE InHand'
  BY <1>9, <1>1, Domains DEF StartConfirm, UpdateEvent
<1>10. ASSUME NEW e \in Events, StartStep(e), ~StartConfirm(e), dl = NoEvent PROVE InHand'
  BY <1>10, <1>1, Domains DEF StartStep, StartPrepare, StartRecover, AdoptTask, AdoptMapping,
              StartCreate, StartSave, StartPrompt, StartMap,
              StartActivate, DiscardSession, DiscardRecords, DiscardWorkspace
<1>11. ASSUME NEW e \in Events, PendingStep(e), dl = NoEvent PROVE InHand'
  BY <1>5, <1>6, <1>7, <1>8, <1>11 DEF PendingStep
<1>12. dl' = NoEvent /\ pc' \in {"pending"} \cup PendingLabels => InHand'
  BY <1>1, <1>2, <1>3, <1>4, <1>9, <1>10, <1>11, PhaseSteps
<1> QED BY <1>12

\* What start_task knows of the session and of its prompt.
LEMMA StartingKept ==
  ASSUME Deletable = {}, NoRestarts, Unattended, IInv, Begun, InHand, Starting, [Next]_vars
  PROVE  Starting'
<1>1. /\ Control /\ DbType /\ WorldType
      /\ todo \subseteq Events /\ ev \in Events \cup {NoEvent}
      /\ ev \in Known \cup {NoEvent}
  BY DEF IInv, DispatchInv, TypeOK, RunType, EventsKnown
<1> DEFINE Others == StartLabels \cup UnpromptedLabels \cup {"adopt", "adoptmap", "map", "activate"}
<1>2. pc' \in Others => dl' = NoEvent /\ pc' \in PendingLabels
  BY <1>1, ControlStep DEF Control, DispatchLabels, PendingLabels, StartLabels, UnpromptedLabels,
                          DiscardLabels, IInv, TypeOK
<1>3. CASE pc' \notin Others
  BY <1>3 DEF Starting, StartLabels, UnpromptedLabels
<1>4. CASE UNCHANGED <<runVars, eventVars, title, startMsg>>
  <2>1. StartAction(ev)' = StartAction(ev) BY <1>4 DEF StartAction
  <2>2. ASSUME ev # NoEvent, sess[ev] # "none" PROVE sess'[ev] # "none"
    <3>1. ~Operator BY UnattendedKept
    <3>2. ~DeleteSession BY <3>1 DEF Operator
    <3>3. ASSUME NEW e \in Events PROVE ~DiscardSession(e)
      BY <1>4 DEF DiscardSession, At, Goto
    <3> QED BY <1>1, <2>2, <3>2, <3>3, SessionGoes, Domains
  <2>3. ASSUME ev # NoEvent, github[ev] \in Commands PROVE github'[ev] \in Commands
    BY <1>1, <2>3, TextsGoOn, Names
  <2>4. pc \in Others => ev # NoEvent BY <1>2, <1>4 DEF InHand
  <2> QED BY <1>4, <2>1, <2>2, <2>3, <2>4 DEF Starting, StartLabels, UnpromptedLabels, DiscardLabels
<1>5. CASE EndPoll \/ PendingRaises
  BY <1>3, <1>5 DEF EndPoll, PendingRaises, EventDone, Goto, StartLabels, UnpromptedLabels,
                    DiscardLabels
<1>6. ASSUME NEW e \in Events, PendingStep(e) PROVE Starting'
  <2>1. CASE EventStart(e)
    <3>1. pc' = "start" /\ ev = e /\ UNCHANGED <<ev, evAction>> BY <2>1 DEF EventStart, At, Goto
    <3>2. StartAction(e)' = StartAction(e) BY <3>1 DEF StartAction
    <3>3. StartAction(e) \in StartCommands BY <2>1 DEF EventStart, StartAction, StartCommands
    <3> QED BY <3>1, <3>2, <3>3 DEF Starting, UnpromptedLabels, DiscardLabels
  <2>2. CASE ~EventStart(e)
    <3>1. pc' \notin Others
      <4>1. CASE TakeEvent(e)
        BY <4>1 DEF TakeEvent, Goto, StartLabels, UnpromptedLabels, DiscardLabels
      <4>2. CASE EventCancel(e) \/ EventContinue(e)
        BY <4>2 DEF EventCancel, EventContinue, Goto, StartLabels, UnpromptedLabels, DiscardLabels
      <4>3. CASE EventUnmapped(e) \/ EventClosed(e) \/ EventDelivered(e) \/ ContinueQueued(e)
        BY <4>3 DEF EventUnmapped, EventClosed, EventDelivered, ContinueQueued, EventDone, Goto,
                    StartLabels, UnpromptedLabels, DiscardLabels
      <4>4. CASE \/ ContinueCheck(e) \/ ContinueResume(e) \/ ContinueQueue(e)
                 \/ CancelRecords(e) \/ CancelAbort(e)
        BY <4>4 DEF ContinueCheck, ContinueResume, ContinueQueue, CancelRecords, CancelAbort, Goto,
                    StartLabels, UnpromptedLabels, DiscardLabels
      <4> QED BY <1>6, <2>2, <4>1, <4>2, <4>3, <4>4 DEF PendingStep
    <3> QED BY <1>3, <3>1
  <2> QED BY <2>1, <2>2
<1> USE DEF At, Goto, StartLabels, UnpromptedLabels, DiscardLabels
<1>7. ASSUME NEW e \in Events, StartPrepare(e) PROVE Starting'
  <2>1. pc = "start" /\ pc' = "recover" /\ UNCHANGED <<ev, evAction>> BY <1>7 DEF StartPrepare
  <2> QED BY <2>1 DEF Starting, StartAction
<1>8. ASSUME NEW e \in Events, StartRecover(e) PROVE Starting'
  <2>1. /\ pc = "recover" /\ ev = e /\ UNCHANGED <<ev, evAction, sess, title, startMsg>>
        /\ found' = Found(e)
        /\ pc' = IF Found(e) /\ e \in startMsg THEN "adopt" ELSE "confirm"
    BY <1>8 DEF StartRecover
  <2>2. e \in startMsg => Found(e) BY DEF Begun, Found
  <2>3. StartAction(e)' = StartAction(e) /\ StartAction(e) \in StartCommands
    BY <2>1 DEF Starting, StartAction
  <2> QED BY <2>1, <2>2, <2>3 DEF Starting, Found
<1>9. ASSUME NEW e \in Events, AdoptTask(e) \/ AdoptMapping(e) \/ StartMap(e) \/ StartActivate(e)
      PROVE  Starting'
  <2>1. /\ pc \in {"adopt", "map", "adoptmap", "activate"} /\ UNCHANGED <<ev, startMsg>>
        /\ pc' \in {"adoptmap", "activate", "delivered"}
    BY <1>9 DEF AdoptTask, AdoptMapping, StartMap, StartActivate
  <2> QED BY <2>1 DEF Starting
<1>10. ASSUME NEW e \in Events, StartConfirm(e) PROVE Starting'
  <2>1. pc = "confirm" /\ ev = e /\ UNCHANGED <<ev, found, github, sess, title, startMsg>>
    BY <1>10 DEF StartConfirm
  <2>2. ev \notin startMsg BY <2>1 DEF Starting
  <2>3. CASE pc' = "discard" BY <2>1, <2>2, <2>3 DEF Starting
  <2>4. CASE pc' # "discard"
    <3>1. /\ pc' = "create" /\ github[e] \notin {"none", "ambiguous"}
          /\ evAction' = [evAction EXCEPT ![e] = github[e]]
          /\ e \in Reviews \/ github[e] = StartAction(e)
      BY <1>10, <2>4 DEF StartConfirm
    <3>2. github[e] \in Commands
      <4>1. e \in Known BY <1>1, <2>1, Domains
      <4>2. github[e] \in Contents BY <1>1, <4>1 DEF WorldType, Known
      <4> QED BY <3>1, <4>2, Names
    <3>3. evAction'[e] = github[e] BY <1>1, <3>1 DEF DbType
    <3>4. StartAction(e)' = StartAction(e) BY <3>1, <3>3 DEF StartAction
    <3>5. /\ StartAction(e) \in StartCommands
          /\ found => sess[e] # "none" /\ title[e] = StartAction(e)
      BY <2>1 DEF Starting
    <3> QED BY <2>1, <2>2, <3>1, <3>2, <3>4, <3>5 DEF Starting
  <2> QED BY <2>3, <2>4
<1>11. ASSUME NEW e \in Events, StartCreate(e) PROVE Starting'
  <2>1. /\ pc = "create" /\ pc' = "save" /\ ev = e /\ UNCHANGED <<ev, evAction, github>>
    BY <1>11 DEF StartCreate
  <2>2. StartAction(e)' = StartAction(e) /\ StartAction(e) \in StartCommands
        /\ github[e] \in Commands /\ e \notin startMsg
    BY <2>1 DEF Starting, StartAction
  <2>3. sess'[e] # "none" /\ title'[e] = StartAction(e) /\ e \notin startMsg'
    <3>1. CASE found BY <1>11, <2>1, <2>2, <3>1 DEF StartCreate, Starting
    <3>2. CASE ~found BY <1>1, <1>11, <2>1, <2>2, <3>2, Domains DEF StartCreate, WorldType
    <3> QED BY <3>1, <3>2
  <2> QED BY <2>1, <2>2, <2>3 DEF Starting
<1>12. ASSUME NEW e \in Events, StartSave(e) PROVE Starting'
  <2>1. pc = "save" /\ pc' = "prompt" /\ UNCHANGED <<ev, evAction, github, sess, title, startMsg>>
    BY <1>12 DEF StartSave
  <2> QED BY <2>1 DEF Starting, StartAction
<1>13. ASSUME NEW e \in Events, StartPrompt(e) PROVE Starting'
  <2>1. pc' = "map" /\ ev = e /\ ev' = e /\ e \in startMsg' BY <1>13 DEF StartPrompt
  <2> QED BY <2>1 DEF Starting
<1>14. ASSUME NEW e \in Events, DiscardSession(e) PROVE Starting'
  <2>1. pc = "discard" /\ pc' \in {"discardrecords", "discardspace"} /\ ev' = ev
        /\ startMsg' \subseteq startMsg
    BY <1>14 DEF DiscardSession, DropSession
  <2> QED BY <2>1 DEF Starting
<1>15. ASSUME NEW e \in Events, DiscardRecords(e) \/ DiscardWorkspace(e) PROVE Starting'
  <2>1. CASE DiscardRecords(e)
    <3>1. pc = "discardrecords" /\ pc' = "discardspace" /\ UNCHANGED <<ev, startMsg>>
      BY <2>1 DEF DiscardRecords
    <3> QED BY <3>1 DEF Starting
  <2>2. CASE DiscardWorkspace(e) BY <1>3, <2>2 DEF DiscardWorkspace, EventDone
  <2> QED BY <1>15, <2>1, <2>2
<1>16. ASSUME NEW e \in Events, StartStep(e) PROVE Starting'
  BY <1>7, <1>8, <1>9, <1>10, <1>11, <1>12, <1>13, <1>14, <1>15, <1>16 DEF StartStep
<1> HIDE DEF Others
<1>17. CASE pc' \in Others
  BY <1>1, <1>2, <1>4, <1>5, <1>6, <1>16, <1>17, PhaseSteps
<1> QED BY <1>3, <1>17

\* A prompted session is not started again, and stays.
LEMMA BegunKept ==
  ASSUME Deletable = {}, NoRestarts, Unattended, IInv, Begun, Gathered, InHand, Starting, [Next]_vars
  PROVE  Begun'
<1>1. /\ Control /\ DbType /\ WorldType /\ ev \in Events \cup {NoEvent}
      /\ startMsg \subseteq Events
  BY DEF IInv, DispatchInv, TypeOK, RunType, WorldType
<1>2. ~DeleteSession BY UnattendedKept DEF Operator
<1>3. ASSUME NEW e \in Events, StartPrompt(e)
      PROVE  /\ startMsg' = startMsg \cup {e} /\ title' = title /\ evState' = evState
             /\ sess[e] # "none" /\ title[e] = StartAction(e) /\ StartAction(e) \in StartCommands
             /\ evState[e] = "pending" /\ github[e] \in Commands
  <2>1. pc = "prompt" /\ ev = e /\ evState' = evState /\ title' = title
        /\ startMsg' = startMsg \cup {e}
    BY <1>3 DEF StartPrompt, At
  <2>2. dl = NoEvent BY <1>1, <2>1 DEF Control, DispatchLabels
  <2> QED BY <2>1, <2>2 DEF Starting, StartLabels, DiscardLabels, InHand, PendingLabels
<1>4. ASSUME NEW e \in startMsg', e \notin startMsg PROVE StartPrompt(e)
  <2>1. ASSUME NEW x \in Events, StartPrompt(x) PROVE x = e BY <1>3, <1>4, <2>1
  <2>2. ASSUME NEW x \in Events, StartCreate(x) \/ DiscardSession(x) PROVE FALSE
    BY <1>4, <2>2 DEF StartCreate, DiscardSession, DropSession
  <2> QED BY <1>2, <1>4, <2>1, <2>2, PromptSteps
<1>5. \A e \in startMsg' :
        /\ e \in Events /\ sess[e] # "none" /\ title[e] = StartAction(e)
        /\ StartAction(e) \in StartCommands
        /\ evState[e] \notin {"unseen", "ignored"} /\ github[e] \in Commands
  <2> SUFFICES ASSUME NEW e \in startMsg'
               PROVE  /\ e \in Events /\ sess[e] # "none" /\ title[e] = StartAction(e)
                      /\ StartAction(e) \in StartCommands
                      /\ evState[e] \notin {"unseen", "ignored"} /\ github[e] \in Commands
    OBVIOUS
  <2>1. CASE e \in startMsg BY <1>1, <2>1 DEF Begun
  <2>2. CASE e \notin startMsg
    <3>1. StartPrompt(e) BY <1>4, <2>2
    <3>2. e \in Events BY <3>1, <1>1, Domains DEF StartPrompt, At
    <3> QED BY <1>3, <3>1, <3>2
  <2> QED BY <2>1, <2>2
<1>6. ASSUME NEW e \in startMsg' PROVE pc \notin UnpromptedLabels \/ ev # e
  <2>1. CASE e \in startMsg BY <2>1 DEF Starting
  <2>2. CASE e \notin startMsg
    BY <1>4, <2>2 DEF StartPrompt, At, UnpromptedLabels, DiscardLabels
  <2> QED BY <2>1, <2>2
<1>7. ASSUME NEW e \in startMsg' PROVE StartAction(e)' = StartAction(e)
  <2> SUFFICES ASSUME evAction'[e] # evAction[e], e \notin Reviews PROVE FALSE
    BY DEF StartAction
  <2>1. e \in Events /\ evState[e] \notin {"unseen", "ignored"} /\ evAction[e] \in StartCommands
    BY <1>5 DEF StartAction
  <2>2. ~StartConfirm(e) BY <1>6 DEF StartConfirm, At, UnpromptedLabels
  <2>3. RefreshEvent(e) BY <1>1, <2>1, <2>2, ActionComes
  <2>4. e \in todo /\ dl # NoEvent BY <1>1, <2>3 DEF RefreshEvent, First, Control
  <2>5. evAction[e] \in {"continue", "cancel"} BY <2>4 DEF Gathered, Meant
  <2> QED BY <2>1, <2>5 DEF StartCommands
<1>8. ASSUME NEW e \in startMsg' PROVE title'[e] = title[e]
  <2>1. ASSUME NEW x \in Events, StartCreate(x) PROVE title'[e] = title[e]
    <3>1. x # e BY <1>6, <2>1 DEF StartCreate, At, UnpromptedLabels
    <3> QED BY <1>1, <1>5, <2>1, <3>1 DEF StartCreate, WorldType
  <2>2. ASSUME NEW x \in Events, DiscardSession(x) PROVE title'[e] = title[e]
    <3>1. x # e BY <1>6, <2>2 DEF DiscardSession, At, UnpromptedLabels, DiscardLabels
    <3> QED BY <1>5, <2>2, <3>1 DEF DiscardSession, DropSession
  <2> QED BY <1>2, <1>3, <2>1, <2>2, PromptSteps
<1>9. ASSUME NEW e \in startMsg' PROVE sess'[e] # "none"
  <2>1. e \in Tasks /\ sess[e] # "none" BY <1>5, Domains
  <2>2. ~DiscardSession(e) BY <1>6 DEF DiscardSession, At, UnpromptedLabels, DiscardLabels
  <2> QED BY <1>1, <1>2, <2>1, <2>2, SessionGoes
<1>10. ASSUME NEW e \in startMsg' PROVE github'[e] \in Commands
  <2>1. e \in Known BY <1>5, Names DEF Known
  <2> QED BY <1>5, <2>1, TextsGoOn, Names
<1>11. ASSUME NEW e \in startMsg' PROVE evState'[e] \notin {"unseen", "ignored"}
  <2> SUFFICES ASSUME evState'[e] # evState[e], evState'[e] \in {"unseen", "ignored"} PROVE FALSE
    BY <1>5
  <2>1. /\ e \in Events /\ evState[e] \notin {"unseen", "ignored"}
        /\ StartAction(e) \in StartCommands
        /\ github[e] \notin {"none", "ambiguous"} /\ "ignored" # "delivered"
    BY <1>5 DEF Commands, StartCommands
  <2>2. ASSUME NEW s, UpdateEvent(e, s) PROVE evState'[e] = s
    BY <1>1, <2>1, <2>2 DEF UpdateEvent, DbType
  <2>3. CASE Discover(e) \/ EventClosed(e) BY <2>1, <2>3, <2>2 DEF Discover, EventClosed
  <2>4. CASE RefreshEvent(e) BY <2>1, <2>2, <2>4 DEF RefreshEvent
  <2>5. CASE EventUnmapped(e)
    BY <2>1, <2>5, <2>2 DEF EventUnmapped, StartAction, StartCommands
  <2>6. CASE EventDelivered(e) \/ ContinueQueued(e) \/ DispatchCancelled(e)
    BY <2>2, <2>6 DEF EventDelivered, ContinueQueued, DispatchCancelled
  <2>7. CASE StartConfirm(e) BY <1>6, <2>7 DEF StartConfirm, At, UnpromptedLabels
  <2> QED BY <1>1, <2>1, <2>3, <2>4, <2>5, <2>6, <2>7, StateComes
<1> QED BY <1>5, <1>7, <1>8, <1>9, <1>10, <1>11 DEF Begun

\* A session at a task stays at it.
LEMMA EngagedStays ==
  ASSUME Deletable = {}, Unattended, Starting, [Next]_vars
  PROVE  Engaged \subseteq Engaged'
<1>1. ~DeleteSession BY UnattendedKept DEF Operator
<1>2. ASSUME NEW x \in Events, StartCreate(x) PROVE startMsg \subseteq startMsg'
  <2>1. x \notin startMsg
    BY <1>2 DEF Starting, StartCreate, At, UnpromptedLabels
  <2> QED BY <1>2, <2>1 DEF StartCreate
<1>3. ASSUME NEW x \in Events, StartPrompt(x) PROVE startMsg \subseteq startMsg'
  BY <1>3 DEF StartPrompt
<1>4. ASSUME NEW x \in Events, DiscardSession(x) PROVE startMsg \subseteq startMsg'
  <2>1. x \notin startMsg
    BY <1>4 DEF Starting, DiscardSession, At, UnpromptedLabels, DiscardLabels
  <2> QED BY <1>4, <2>1 DEF DiscardSession, DropSession
<1>5. startMsg \subseteq startMsg' BY <1>1, <1>2, <1>3, <1>4, PromptSteps
<1> QED BY <1>5 DEF Engaged

\* So a session that a subject is mapped to keeps its task.
LEMMA MappedKept ==
  ASSUME Deletable = {}, Unattended, IInv, Mapped, Starting, [Next]_vars
  PROVE  Mapped'
<1>1. /\ mapping \in [Subjects -> Tasks \cup {NoTask}] /\ ev \in Events \cup {NoEvent}
      /\ startMsg \subseteq Events
  BY DEF IInv, TypeOK, DbType, RunType, WorldType
<1>2. ~Operator /\ ~DeleteSession /\ ~DeleteRecords BY UnattendedKept DEF Operator
<1>3. Engaged \subseteq Engaged' BY EngagedStays
<1>4. ASSUME NEW s \in Subjects, NEW t \in Engaged, ActivateMapping(s, t) PROVE Mapped'
  <2>1. \A q \in Subjects : mapping'[q] \in {mapping[q], t}
    BY <1>1, <1>4 DEF ActivateMapping
  <2> QED BY <1>3, <2>1 DEF Mapped
<1>5. ASSUME NEW e \in Events, AdoptMapping(e) \/ StartMap(e) PROVE Mapped'
  <2>1. e \in startMsg /\ ActivateMapping(SubjectOf[e], e)
    BY <1>5 DEF AdoptMapping, StartMap, At, Starting
  <2>2. SubjectOf[e] \in Subjects BY Domains
  <2> QED BY <1>4, <2>1, <2>2 DEF Engaged
<1>6. ASSUME NEW e \in Events, DiscardRecords(e) PROVE Mapped'
  <2>1. \A s \in Subjects : mapping'[s] \in {mapping[s], NoTask}
    BY <1>6 DEF DiscardRecords, DeleteSessionRecords
  <2> QED BY <1>3, <2>1 DEF Mapped
<1>7. ASSUME NEW p \in Subjects, NEW t \in Tasks, RegisterPr(p, t) PROVE Mapped'
  BY <1>4, <1>7 DEF RegisterPr, Engaged
<1>8. CASE UNCHANGED mapping BY <1>3, <1>8 DEF Mapped
<1> QED BY <1>2, <1>5, <1>6, <1>7, <1>8, MappingSteps

\* In every reachable state, while nobody deletes sessions and no comment is
\* edited into a start or withdrawn.
LEMMA StartInvariance ==
  ASSUME Deletable = {}, NoRestarts PROVE Spec => []StartInv
<1>1. Init => StartInv
  <2> SUFFICES ASSUME Init PROVE StartInv OBVIOUS
  <2>1. /\ pc = "rest" /\ cliPc = "idle" /\ dl = NoEvent /\ ev = NoEvent /\ ctx = {} /\ todo = {}
        /\ carried = [d \in Events |-> {}] /\ startMsg = Settled /\ mapping = InitialMapping
    BY DEF Init
  <2>2. Begun
    BY Domains, Names, StoreAssumption, BridgeAssumption
       DEF Init, Begun, StartAction, StartCommands, Commands, Tasks
  <2>3. Mapped BY <2>1, BridgeAssumption DEF Mapped, Engaged
  <2>4. Asked BY DEF Init, Asked
  <2>5. Gathered BY <2>1 DEF Gathered
  <2>6. Unattended /\ Fresh /\ Between BY <2>1 DEF Unattended, Fresh, Between
  <2>7. InHand BY <2>1 DEF InHand, PendingLabels
  <2>8. Starting BY <2>1 DEF Starting, StartLabels, UnpromptedLabels, DiscardLabels
  <2> QED BY <2>2, <2>3, <2>4, <2>5, <2>6, <2>7, <2>8 DEF StartInv
<1>2. IInv /\ StartInv /\ [Next]_vars => StartInv'
  <2> SUFFICES ASSUME IInv, StartInv, [Next]_vars PROVE StartInv' OBVIOUS
  <2>1. Control BY DEF IInv, DispatchInv
  <2> USE DEF StartInv
  <2>2. Unattended' BY UnattendedKept
  <2>3. Fresh' /\ Between' BY <2>1, FreshKept, BetweenKept
  <2>4. Asked' /\ Gathered' BY AskedKept, GatheredKept
  <2>5. InHand' BY InHandKept
  <2>6. Starting' BY StartingKept
  <2>7. Begun' BY BegunKept
  <2>8. Mapped' BY MappedKept
  <2> QED BY <2>2, <2>3, <2>4, <2>5, <2>6, <2>7, <2>8
<1> QED BY <1>1, <1>2, Invariance, PTL DEF Spec

\* A subject is mapped to a session only once OpenCode has accepted the first
\* prompt of that session, wherever runs are killed and calls fail.
THEOREM MappedPrompted ==
  ASSUME Deletable = {}, NoRestarts PROVE Spec => []MappedWasPrompted
<1>1. StartInv => MappedWasPrompted BY DEF StartInv, Mapped, Engaged, MappedWasPrompted
<1> QED BY <1>1, StartInvariance, PTL

\* What the run has found under the command it is about to start, or to withdraw,
\* has no prompt: one that has would have been adopted.
FoundUnprompted == pc \in {"confirm", "create", "discard"} /\ found => ev \notin startMsg

LEMMA FoundKept == ASSUME FoundUnprompted, [Next]_vars PROVE FoundUnprompted'
<1> SUFFICES ASSUME pc' \in {"confirm", "create", "discard"}, found' PROVE ev' \notin startMsg'
  BY DEF FoundUnprompted
<1> USE DEF Goto, At, EventDone, DeliveryDone
<1>1. CASE UNCHANGED <<pc, ev, found>> /\ startMsg' \subseteq startMsg
  BY <1>1 DEF FoundUnprompted
<1>2. CASE Environment
  BY <1>1, <1>2 DEF Environment, Post, Edit, Age, AgentWorks, PersonPrompts
<1>3. CASE StartRun \/ EndPoll \/ \E e \in Events : Discover(e)
  BY <1>1, <1>3 DEF StartRun, EndPoll, Discover
<1>4. ASSUME NEW e \in Events, PendingStep(e) PROVE ev' \notin startMsg'
  BY <1>1, <1>4 DEF PendingStep, TakeEvent, EventCancel, EventContinue, EventStart,
              EventUnmapped, EventClosed, EventDelivered, ContinueCheck, ContinueResume,
              ContinueQueue, ContinueQueued, CancelRecords, CancelAbort
<1>5. ASSUME NEW e \in Events, StartRecover(e) PROVE ev' \notin startMsg'
  BY <1>5 DEF StartRecover
<1>6. ASSUME NEW e \in Events, StartConfirm(e) PROVE ev' \notin startMsg'
  BY <1>6 DEF StartConfirm, FoundUnprompted
<1>7. ASSUME NEW e \in Events, StartStep(e), ~StartRecover(e), ~StartConfirm(e) PROVE FALSE
  BY <1>7 DEF StartStep, StartPrepare, AdoptTask, AdoptMapping, StartCreate, StartSave,
              StartPrompt, StartMap, StartActivate, DiscardSession, DiscardRecords,
              DiscardWorkspace
<1>8. ASSUME NEW e \in Events, DispatchStep(e) PROVE ev' \notin startMsg'
  BY <1>1, <1>8 DEF DispatchStep, TakeDelivery, RefreshEvent, DispatchCancelled, DropEvent,
              MoveContext
<1>9. CASE DispatchLoop
  BY <1>9 DEF DispatchLoop, NothingLeft, SelectContexts, SealDelivery, PostPrompt, Finalize
<1>10. CASE EndPending \/ EndDispatch \/ EndComplete \/ UpkeepLoop \/ EndRun
  BY <1>10 DEF EndPending, EndDispatch, EndComplete, UpkeepLoop, RemoveWorkspace,
              Collected, EndRun, UpkeepFrame
<1>11. CASE \E t \in Tasks : UpkeepStep(t)
  BY <1>11 DEF UpkeepStep, CompleteTask, RetainTask, BlockTask, CollectTask, UpkeepFrame
<1>12. CASE Crash \/ PendingRaises \/ DispatchRaises \/ CleanupRaises
  BY <1>12 DEF Crash, Idle, PendingRaises, DispatchRaises, CleanupRaises, UpkeepFrame
<1>13. CASE \/ \E q \in Subjects, u \in Tasks : RegisterPr(q, u)
            \/ Operator \/ DeleteFails
  BY <1>1, <1>13 DEF RegisterPr, Operator, DeleteCheck, DeleteWorkspace, DeleteSession,
              DropSession, DeleteRecords, DeleteFails
<1>14. CASE UNCHANGED vars BY <1>1, <1>14 DEF vars, storeVars
<1> QED BY StepCases, <1>2, <1>3, <1>4, <1>5, <1>6, <1>7, <1>8, <1>9, <1>10, <1>11, <1>12,
           <1>13, <1>14

\* start_task deletes no session it has found that has its prompt, whatever is
\* edited, withdrawn, killed or deleted.
THEOREM DiscardsUnprompted == Spec => DiscardOnlyUnprompted
<1>1. Init => FoundUnprompted BY DEF Init, FoundUnprompted
<1>2. FoundUnprompted /\ [Next]_vars => FoundUnprompted' BY FoundKept
<1>3. FoundUnprompted /\ [Next]_vars =>
        [\A e \in Events :
           At("discard", e) /\ pc' # pc /\ sess[e] # "none" /\ sess'[e] = "none"
           => e \notin startMsg \/ ~found]_vars
  BY DEF FoundUnprompted, At
<1> QED BY <1>1, <1>2, <1>3, PTL DEF Spec, DiscardOnlyUnprompted
-----------------------------------------------------------------------------
(* What becomes of feedback *)

\* No comment is edited but into a continue.
OnlyContinues == MaxEdits = 0 \/ EditCommands \subseteq {"continue"}

\* What deliveries carry asks for a continue, and goes on doing so.
Feed == {e \in Events : github[e] = "continue"}
Fed ==
  /\ \A e \in Events : evAction[e] = "continue" => e \in Feed
  /\ \A d \in Events : carried[d] \subseteq Feed
  /\ ctx \subseteq Feed
  /\ dl # NoEvent => todo \subseteq Feed

\* So dispatch_pending has nothing to drop or to cancel.
Steady == dl # NoEvent => pc \in {"refresh", "move", "post", "finalize"}

\* A delivery is for a session that has its first prompt, and so is the one in
\* progress.
Rows ==
  \A d \in Events : /\ (delState[d] = "none") <=> (delTask[d] = NoTask)
                    /\ delTask[d] \in Engaged \cup {NoTask}
Target ==
  /\ held \in Engaged \cup {NoTask}
  /\ dl # NoEvent => delTask[dl] # NoTask /\ rowState # "none"
Attended == \A t \in Engaged : sess[t] # "none"

FeedInv == Fed /\ Steady /\ Rows /\ Target /\ Attended

\* The steps of a delivery in progress.
LEMMA TurnSteps ==
  ASSUME Control, [Next]_vars, dl' # NoEvent
  PROVE  \/ dl # NoEvent /\ UNCHANGED <<pc, dl, ev, held, rowState, todo, ctx>>
         \/ dl = NoEvent /\ \E e \in Events : TakeDelivery(e)
         \/ dl # NoEvent /\ \E e \in Events :
              \/ RefreshEvent(e) \/ DispatchCancelled(e) \/ DropEvent(e) \/ MoveContext(e)
              \/ CancelRecords(e) \/ CancelAbort(e)
         \/ dl # NoEvent /\ (SelectContexts \/ SealDelivery \/ PostPrompt)
<1> USE DEF Control, DispatchLabels, Goto, At, EventDone, DeliveryDone
<1> DEFINE Same == UNCHANGED <<pc, dl, ev, held, rowState, todo, ctx>>
<1>1. CASE Environment
  BY <1>1 DEF Environment, Post, Edit, Age, AgentWorks, PersonPrompts
<1>2. CASE StartRun \/ EndPoll \/ \E e \in Events : Discover(e)
  BY <1>2 DEF StartRun, EndPoll, Discover
<1>3. ASSUME NEW e \in Events, PendingStep(e) PROVE CancelRecords(e) \/ CancelAbort(e)
  BY <1>3 DEF PendingStep, TakeEvent, EventCancel, EventContinue, EventStart,
              EventUnmapped, EventClosed, EventDelivered, ContinueCheck, ContinueResume,
              ContinueQueue, ContinueQueued
<1>4. ASSUME NEW e \in Events, CancelRecords(e) \/ CancelAbort(e) PROVE dl' = dl
  BY <1>4 DEF CancelRecords, CancelAbort
<1>5. ASSUME NEW e \in Events, StartStep(e) PROVE FALSE
  BY <1>5 DEF StartStep, StartPrepare, StartRecover, AdoptTask, AdoptMapping,
              StartConfirm, StartCreate, StartSave, StartPrompt, StartMap,
              StartActivate, DiscardSession, DiscardRecords, DiscardWorkspace
<1>6. ASSUME NEW e \in Events, DispatchStep(e)
      PROVE  \/ dl = NoEvent /\ TakeDelivery(e)
             \/ dl # NoEvent /\ (\/ RefreshEvent(e) \/ DispatchCancelled(e) \/ DropEvent(e)
                                 \/ MoveContext(e))
  BY <1>6 DEF DispatchStep, TakeDelivery, RefreshEvent, DispatchCancelled, DropEvent,
              MoveContext
<1>7. CASE DispatchLoop
  BY <1>7 DEF DispatchLoop, NothingLeft, SelectContexts, SealDelivery, PostPrompt, Finalize
<1>8. CASE EndPending \/ EndDispatch \/ EndComplete \/ UpkeepLoop \/ EndRun
  BY <1>8 DEF EndPending, EndDispatch, EndComplete, UpkeepLoop, RemoveWorkspace,
              Collected, EndRun, UpkeepFrame
<1>9. CASE \E t \in Tasks : UpkeepStep(t)
  BY <1>9 DEF UpkeepStep, CompleteTask, RetainTask, BlockTask, CollectTask, UpkeepFrame
<1>10. CASE Crash \/ PendingRaises \/ DispatchRaises \/ CleanupRaises
  BY <1>10 DEF Crash, Idle, PendingRaises, DispatchRaises, CleanupRaises, UpkeepFrame
<1>11. CASE \/ \E q \in Subjects, u \in Tasks : RegisterPr(q, u)
            \/ Operator \/ DeleteFails
  BY <1>11 DEF RegisterPr, Operator, DeleteCheck, DeleteWorkspace, DeleteSession,
              DeleteRecords, DeleteFails
<1>12. CASE UNCHANGED vars BY <1>12 DEF vars, storeVars
<1> QED BY StepCases, <1>1, <1>2, <1>3, <1>4, <1>5, <1>6, <1>7, <1>8, <1>9, <1>10, <1>11, <1>12

\* Nothing is dropped or cancelled among them.
LEMMA TurnGoesOn ==
  ASSUME Control, Fed, Steady, [Next]_vars, dl' # NoEvent
  PROVE  \/ dl # NoEvent /\ UNCHANGED <<pc, dl, held, rowState, todo, ctx>>
         \/ dl = NoEvent /\ \E e \in Events : TakeDelivery(e) /\ dl' = e
         \/ /\ dl # NoEvent /\ pc = "refresh" /\ todo' \cup ctx' = todo \cup ctx
            /\ UNCHANGED <<pc, dl, held, rowState>>
         \/ dl # NoEvent /\ dl' = dl
            /\ (SelectContexts \/ SealDelivery \/ PostPrompt \/ \E e \in Events : MoveContext(e))
<1>1. ASSUME NEW e \in Events, RefreshEvent(e), dl # NoEvent
      PROVE  /\ pc = "refresh" /\ todo' \cup ctx' = todo \cup ctx
             /\ UNCHANGED <<pc, dl, held, rowState>>
  <2>1. e \in todo BY <1>1 DEF RefreshEvent, First
  <2>2. github[e] = "continue" BY <1>1, <2>1 DEF Fed, Feed
  <2>3. /\ pc = "refresh" /\ todo' = todo \ {e} /\ ctx' = ctx \cup {e}
        /\ UNCHANGED <<pc, dl, held, rowState>>
    BY <1>1, <2>2 DEF RefreshEvent, StartCommands
  <2> QED BY <2>1, <2>3
<1>2. ASSUME NEW e \in Events, dl # NoEvent
      PROVE  ~DispatchCancelled(e) /\ ~DropEvent(e) /\ ~CancelRecords(e) /\ ~CancelAbort(e)
  BY <1>2 DEF Steady, DispatchCancelled, DropEvent, CancelRecords, CancelAbort, At
<1>3. ASSUME NEW e \in Events, TakeDelivery(e), dl = NoEvent PROVE dl' = e
  BY <1>3 DEF TakeDelivery
<1>4. SelectContexts \/ SealDelivery \/ PostPrompt \/ (\E e \in Events : MoveContext(e)) => dl' = dl
  BY DEF SelectContexts, SealDelivery, PostPrompt, MoveContext
<1> QED BY TurnSteps, <1>1, <1>2, <1>3, <1>4

\* The run does not come to drop or to cancel.
LEMMA SteadyKept == ASSUME Control, Fed, Steady, [Next]_vars PROVE Steady'
<1> SUFFICES ASSUME dl' # NoEvent PROVE pc' \in {"refresh", "move", "post", "finalize"}
  BY DEF Steady
<1>1. ASSUME NEW e \in Events, TakeDelivery(e), dl = NoEvent
      PROVE  pc' \in {"refresh", "finalize"}
  BY <1>1 DEF TakeDelivery, Goto
<1>2. SelectContexts \/ SealDelivery \/ PostPrompt \/ (\E e \in Events : MoveContext(e)) =>
        pc' \in {"move", "post", "finalize"}
  BY DEF SelectContexts, SealDelivery, PostPrompt, MoveContext, Goto
<1> QED BY TurnGoesOn, <1>1, <1>2 DEF Steady

\* What is on GitHub and asks for a continue goes on asking for it.
LEMMA FeedStays == ASSUME OnlyContinues, IInv, [Next]_vars PROVE Feed \subseteq Feed'
<1> SUFFICES ASSUME NEW e \in Feed PROVE github'[e] = "continue" BY DEF Feed
<1>1. github \in [Events -> Contents \cup {"unposted"}] /\ edits \in Nat /\ e \in Events
      /\ github[e] = "continue"
  BY DEF IInv, TypeOK, WorldType, Feed
<1>2. ASSUME NEW x \in Events, Post(x) PROVE github'[e] = github[e]
  BY <1>1, <1>2 DEF Post
<1>3. ASSUME NEW x \in Events, Edit(x) PROVE github'[e] = "continue"
  <2>1. EditCommands \subseteq {"continue"}
    BY <1>1, <1>3, BridgeAssumption DEF Edit, OnlyContinues
  <2>2. PICK c \in EditCommands : github' = [github EXCEPT ![x] = c] BY <1>3 DEF Edit
  <2> QED BY <1>1, <2>1, <2>2
<1> QED BY TextSteps, <1>1, <1>2, <1>3

\* What is carried goes on asking for a continue, and nothing else is recorded of it.
LEMMA FedKept ==
  ASSUME OnlyContinues, IInv, Fed, Fresh, InHand, [Next]_vars
  PROVE  Fed'
<1>1. Feed \subseteq Feed' BY FeedStays
<1>2. Control BY DEF IInv, DispatchInv
<1>3. ASSUME NEW d \in Events, NEW e \in carried'[d], e \notin carried[d] PROVE e \in Feed
  <2>1. e \in Events /\ (ContinueQueue(e) \/ MoveContext(e)) BY <1>3, CarriedComes
  <2>2. CASE ContinueQueue(e)
    <3>1. pc = "queue" /\ ev = e BY <2>2 DEF ContinueQueue, At
    <3>2. dl = NoEvent BY <1>2, <3>1 DEF Control, DispatchLabels
    <3> QED BY <2>1, <3>1, <3>2 DEF InHand, Fed
  <2>3. CASE MoveContext(e)
    <3>1. dl # NoEvent /\ e \in todo BY <1>2, <2>3 DEF MoveContext, First, Control
    <3> QED BY <3>1 DEF Fed
  <2> QED BY <2>1, <2>2, <2>3
<1>4. \A d \in Events : carried'[d] \subseteq Feed BY <1>3 DEF Fed
<1>5. ctx' \subseteq Feed BY <1>2, FeedbackComes DEF Fed
<1>6. dl' # NoEvent => todo' \subseteq Feed BY <1>2, FeedbackComes DEF Fed
<1>7. ASSUME NEW e \in Events, evAction'[e] = "continue" PROVE e \in Feed'
  <2>1. CASE evAction'[e] # evAction[e] BY <1>7, <2>1, ActionComes DEF IInv, TypeOK, Feed
  <2>2. CASE evAction'[e] = evAction[e] BY <1>1, <1>7, <2>2 DEF Fed
  <2> QED BY <2>1, <2>2
<1> QED BY <1>1, <1>4, <1>5, <1>6, <1>7 DEF Fed

\* discard_unprompted_task finds no delivery for the session it discards.
LEMMA NoneDiscarded ==
  ASSUME Starting, Rows, NEW e \in Events, DiscardRecords(e)
  PROVE  \A d \in Events : delTask[d] # e
<1>1. e \notin startMsg BY DEF DiscardRecords, At, Starting, UnpromptedLabels, DiscardLabels
<1>2. e \notin Engaged /\ e # NoTask BY <1>1, StoreAssumption DEF Engaged
<1> QED BY <1>2 DEF Rows

\* A row is written once for its session, or again after it was cancelled.
LEMMA InsertRows ==
  ASSUME DbType, WorldType, NEW x \in Events, NEW t \in Engaged, InsertDelivery(x, t), Rows,
         Engaged \subseteq Engaged'
  PROVE  Rows'
<1>1. /\ delState \in [Events -> DelStates] /\ delTask \in [Events -> Tasks \cup {NoTask}]
      /\ t # NoTask
  BY StoreAssumption DEF DbType, WorldType, Engaged, Rows
<1> QED BY <1>1 DEF InsertDelivery, Rows

\* Deliveries are for sessions that have their first prompt.
LEMMA RowsKept ==
  ASSUME Deletable = {}, Unattended, IInv, Starting, Rows, Target, [Next]_vars,
         WorldType
  PROVE  Rows'
<1>1. /\ DbType /\ Control /\ delState \in [Events -> DelStates]
      /\ delTask \in [Events -> Tasks \cup {NoTask}]
      /\ dl \in Events \cup {NoEvent}
  BY DEF IInv, TypeOK, DbType, RunType, DispatchInv
<1>2. Engaged \subseteq Engaged' BY EngagedStays
<1>3. ~DeleteRecords BY UnattendedKept DEF Operator
<1>4. CASE UNCHANGED <<delState, delTask>> BY <1>2, <1>4 DEF Rows
<1>5. ASSUME NEW e \in Events, ContinueQueue(e) PROVE Rows'
  <2>1. held \in Engaged BY <1>5 DEF ContinueQueue, Target
  <2>2. InsertDelivery(e, held) \/ UNCHANGED <<delState, delTask>>
    BY <1>5 DEF ContinueQueue, QueueDelivery
  <2> QED BY <1>1, <1>2, <1>4, <2>1, <2>2, InsertRows
<1>6. ASSUME NEW e \in Events, CancelRecords(e) PROVE Rows'
  BY <1>1, <1>2, <1>6 DEF CancelRecords, CancelSession, LiveDeliveries, Live, Rows
<1>7. ASSUME NEW e \in Events, DiscardRecords(e) PROVE Rows'
  BY <1>1, <1>2, <1>7 DEF DiscardRecords, DeleteSessionRecords, Rows
<1>8. ASSUME NEW e \in Events, MoveContext(e) PROVE Rows'
  <2>1. dl \in Events /\ delTask[dl] \in Engaged
    BY <1>1, <1>8 DEF MoveContext, Control, Target, Rows
  <2>2. CASE delState[e] = "cancelled"
    BY <1>1, <1>2, <1>8, <2>2 DEF MoveContext, MoveDeliveryEvent, Rows
  <2>3. CASE delState[e] # "cancelled"
    <3>1. InsertDelivery(e, delTask[dl]) BY <1>8, <2>3 DEF MoveContext, MoveDeliveryEvent
    <3> QED BY <1>1, <1>2, <2>1, <3>1, InsertRows
  <2> QED BY <2>2, <2>3
<1>9. ASSUME NEW s, s # "none", NEW d, MarkDelivery(d, s), delTask' = delTask PROVE Rows'
  BY <1>1, <1>2, <1>9 DEF MarkDelivery, Rows
<1>10. CASE NothingLeft \/ SealDelivery
  BY <1>9, <1>10 DEF NothingLeft, SealDelivery
<1>11. CASE Finalize BY <1>9, <1>11 DEF Finalize, FinalizeDelivery
<1>12. CASE DispatchRaises BY <1>9, <1>12 DEF DispatchRaises, Target
<1> QED BY <1>3, <1>4, <1>5, <1>6, <1>7, <1>8, <1>10, <1>11, <1>12, RowSteps

\* A task is in hand as the one a subject is mapped to.
LEMMA HeldComes ==
  ASSUME [Next]_vars
  PROVE  held' \in {held, NoTask} \/ \E e \in Events : held' = mapping[SubjectOf[e]]
<1> USE DEF Goto, At, EventDone, DeliveryDone
<1>1. CASE UNCHANGED held BY <1>1
<1>2. CASE Environment
  BY <1>1, <1>2 DEF Environment, Post, Edit, Age, AgentWorks, PersonPrompts
<1>3. CASE StartRun \/ EndPoll \/ \E e \in Events : Discover(e)
  BY <1>1, <1>3 DEF StartRun, EndPoll, Discover
<1>4. ASSUME NEW e \in Events, PendingStep(e)
      PROVE  held' \in {held, NoTask, mapping[SubjectOf[e]]}
  BY <1>4 DEF PendingStep, TakeEvent, EventCancel, EventContinue, EventStart,
              EventUnmapped, EventClosed, EventDelivered, ContinueCheck, ContinueResume,
              ContinueQueue, ContinueQueued, CancelRecords, CancelAbort
<1>5. ASSUME NEW e \in Events, StartStep(e) PROVE held' \in {held, NoTask}
  BY <1>5 DEF StartStep, StartPrepare, StartRecover, AdoptTask, AdoptMapping,
              StartConfirm, StartCreate, StartSave, StartPrompt, StartMap,
              StartActivate, DiscardSession, DiscardRecords, DiscardWorkspace
<1>6. ASSUME NEW e \in Events, DispatchStep(e) PROVE held' \in {held, NoTask}
  BY <1>6 DEF DispatchStep, TakeDelivery, RefreshEvent, DispatchCancelled, DropEvent,
              MoveContext
<1>7. CASE DispatchLoop
  BY <1>7 DEF DispatchLoop, NothingLeft, SelectContexts, SealDelivery, PostPrompt, Finalize
<1>8. CASE EndPending \/ EndDispatch \/ EndComplete \/ UpkeepLoop \/ EndRun
  BY <1>1, <1>8 DEF EndPending, EndDispatch, EndComplete, UpkeepLoop, RemoveWorkspace,
              Collected, EndRun, UpkeepFrame
<1>9. CASE \E t \in Tasks : UpkeepStep(t)
  BY <1>1, <1>9 DEF UpkeepStep, CompleteTask, RetainTask, BlockTask, CollectTask, UpkeepFrame
<1>10. CASE Crash \/ PendingRaises \/ DispatchRaises
  BY <1>10 DEF Crash, Idle, PendingRaises, DispatchRaises
<1>11. CASE CleanupRaises BY <1>1, <1>11 DEF CleanupRaises, UpkeepFrame
<1>12. CASE \/ \E q \in Subjects, u \in Tasks : RegisterPr(q, u)
            \/ Operator \/ DeleteFails
  BY <1>1, <1>12 DEF RegisterPr, Operator, DeleteCheck, DeleteWorkspace, DeleteSession,
              DeleteRecords, DeleteFails
<1>13. CASE UNCHANGED vars BY <1>1, <1>13 DEF vars, storeVars
<1> QED BY StepCases, <1>2, <1>3, <1>4, <1>5, <1>6, <1>7, <1>8, <1>9, <1>10, <1>11, <1>12, <1>13

\* A delivery in progress stays one for its session.
LEMMA TargetKept ==
  ASSUME Deletable = {}, Unattended, IInv, StartInv, Fed, Steady, Rows, Target, [Next]_vars
  PROVE  Target'
<1>1. /\ DbType /\ Control /\ delState \in [Events -> DelStates]
      /\ delTask \in [Events -> Tasks \cup {NoTask}]
      /\ dl \in Events \cup {NoEvent}
  BY DEF IInv, TypeOK, DbType, RunType, DispatchInv
<1>2. Engaged \subseteq Engaged' BY EngagedStays DEF StartInv
<1>3. held' \in Engaged' \cup {NoTask}
  <2>1. ASSUME NEW e \in Events PROVE mapping[SubjectOf[e]] \in Engaged \cup {NoTask}
    BY Domains DEF StartInv, Mapped
  <2> QED BY <1>2, <2>1, HeldComes DEF Target
<1>4. ASSUME NEW d \in Events, delTask[d] # NoTask PROVE delTask'[d] # NoTask
  <2> USE DEF MarkDelivery
  <2>1. CASE UNCHANGED delTask BY <1>4, <2>1
  <2>2. ASSUME NEW e \in Events, NEW t, t # NoTask, InsertDelivery(e, t) PROVE delTask'[d] # NoTask
    BY <1>1, <1>4, <2>2 DEF InsertDelivery
  <2>3. ASSUME NEW e \in Events, ContinueQueue(e) PROVE delTask'[d] # NoTask
    BY <2>1, <2>2, <2>3 DEF ContinueQueue, QueueDelivery
  <2>4. ASSUME NEW e \in Events, DiscardRecords(e) PROVE delTask'[d] # NoTask
    BY <1>4, <2>4, NoneDiscarded DEF DiscardRecords, DeleteSessionRecords, StartInv
  <2>5. ASSUME NEW e \in Events, MoveContext(e) PROVE delTask'[d] # NoTask
    <3>1. delTask[dl] # NoTask BY <1>1, <2>5 DEF MoveContext, Control, Target
    <3> QED BY <2>1, <2>2, <2>5, <3>1 DEF MoveContext, MoveDeliveryEvent
  <2>6. CASE NothingLeft \/ SealDelivery \/ Finalize \/ DispatchRaises
    BY <2>1, <2>6 DEF NothingLeft, SealDelivery, Finalize, DispatchRaises
  <2>7. ASSUME NEW e \in Events, CancelRecords(e) PROVE delTask'[d] # NoTask
    BY <2>1, <2>7 DEF CancelRecords
  <2>8. ~DeleteRecords BY UnattendedKept DEF Operator
  <2> QED BY <2>1, <2>3, <2>4, <2>5, <2>6, <2>7, <2>8, RowSteps
<1>5. ASSUME dl' # NoEvent PROVE delTask'[dl'] # NoTask /\ rowState' # "none"
  <2>1. ASSUME NEW e \in Events, TakeDelivery(e), dl = NoEvent, dl' = e
        PROVE  delTask[e] # NoTask /\ rowState' # "none"
    <3>1. delTask[e] # NoTask /\ rowState' = delState[e]
      BY <2>1, Domains DEF TakeDelivery
    <3> QED BY <3>1 DEF Rows
  <2>2. SelectContexts \/ PostPrompt \/ (\E e \in Events : MoveContext(e)) => rowState' = rowState
    BY DEF SelectContexts, PostPrompt, MoveContext
  <2>3. SealDelivery => rowState' = "dispatching" BY DEF SealDelivery
  <2>4. rowState' # "none" BY <1>5, <1>1, TurnGoesOn, <2>1, <2>2, <2>3 DEF Target
  <2>5. (dl' = dl /\ dl # NoEvent) \/ (\E e \in Events : TakeDelivery(e) /\ dl' = e /\ dl = NoEvent)
    BY <1>5, <1>1, TurnGoesOn
  <2>6. dl' \in Events /\ delTask[dl'] # NoTask BY <1>1, <2>1, <2>5 DEF Target
  <2> QED BY <1>4, <2>4, <2>6
<1> QED BY <1>3, <1>5 DEF Target

\* A session that has its first prompt is there.
LEMMA AttendedKept ==
  ASSUME Deletable = {}, Unattended, IInv, Starting, Attended, Begun', [Next]_vars
  PROVE  Attended'
<1> SUFFICES ASSUME NEW t \in Engaged' PROVE sess'[t] # "none" BY DEF Attended
<1>1. CASE t \in startMsg' BY <1>1 DEF Begun
<1>2. CASE t \in Manual
  <2>1. t \in Tasks /\ t \notin Events /\ sess[t] # "none"
    BY <1>2, StoreAssumption DEF Tasks, Attended, Engaged
  <2>2. ~DeleteSession BY UnattendedKept DEF Operator
  <2> QED BY <2>1, <2>2, SessionGoes DEF IInv, TypeOK
<1> QED BY <1>1, <1>2 DEF Engaged

\* In every reachable state.
LEMMA FeedInvariance ==
  ASSUME Deletable = {}, OnlyContinues PROVE Spec => [](StartInv /\ FeedInv)
<1>1. Init => FeedInv
  <2> SUFFICES ASSUME Init PROVE FeedInv OBVIOUS
  <2>1. Fed BY DEF Init, Fed
  <2>2. Steady /\ Target BY DEF Init, Steady, Target
  <2>3. Rows BY DEF Init, Rows
  <2>4. Attended BY Domains, StoreAssumption DEF Init, Attended, Engaged, Tasks
  <2> QED BY <2>1, <2>2, <2>3, <2>4 DEF FeedInv
<1>2. NoRestarts BY DEF OnlyContinues, NoRestarts
<1>3. IInv /\ StartInv /\ StartInv' /\ FeedInv /\ [Next]_vars => FeedInv'
  <2> SUFFICES ASSUME IInv, StartInv, StartInv', FeedInv, [Next]_vars PROVE FeedInv' OBVIOUS
  <2>1. Control /\ WorldType BY DEF IInv, DispatchInv, TypeOK
  <2>2. Unattended /\ Starting /\ Fresh /\ InHand /\ Begun' BY DEF StartInv
  <2> USE DEF FeedInv
  <2>3. Fed' BY <2>2, FedKept
  <2>4. Steady' BY <2>1, SteadyKept
  <2>5. Rows' BY <2>1, <2>2, RowsKept
  <2>6. Target' BY <2>2, TargetKept
  <2>7. Attended' BY <2>2, AttendedKept
  <2> QED BY <2>3, <2>4, <2>5, <2>6, <2>7
<1>4. Spec => []StartInv BY <1>2, StartInvariance
<1>5. Spec => []FeedInv BY <1>1, <1>3, <1>4, Invariance, PTL DEF Spec
<1> QED BY <1>4, <1>5, PTL
-----------------------------------------------------------------------------
(* Sealed deliveries *)

\* Nobody cancels anything.
NoCancels == "cancel" \notin InitialCommands /\ OnlyContinues

Calm ==
  /\ \A e \in Events : github[e] # "cancel" /\ evAction[e] # "cancel"
  /\ pc \notin {"cancel", "abort"}

\* A delivery whose message exists is one that was sealed, for the session
\* that has the message.
Sealed ==
  \A t \in Tasks, d \in Events : contMsg[t][d] # {} =>
    delTask[d] = t /\ delState[d] \in {"dispatching", "delivered"}

\* The run knows that what it sends is sealed.
Marked ==
  /\ pc \in {"post", "finalize"} => rowState = "dispatching"
  /\ pc = "post" => delState[dl] = "dispatching"

SealInv == Calm /\ Sealed /\ Marked

\* The run comes to cancel for an event that asks for it.
LEMMA CancelComes ==
  ASSUME [Next]_vars, pc' \in {"cancel", "abort"}
  PROVE  \/ pc \in {"cancel", "abort"}
         \/ \E e \in Events : evAction[e] = "cancel" \/ github[e] = "cancel"
<1> USE DEF Goto, At, EventDone, DeliveryDone
<1>1. CASE Environment
  BY <1>1 DEF Environment, Post, Edit, Age, AgentWorks, PersonPrompts
<1>2. CASE StartRun \/ EndPoll \/ \E e \in Events : Discover(e)
  BY <1>2 DEF StartRun, EndPoll, Discover
<1>3. ASSUME NEW e \in Events, PendingStep(e)
      PROVE  pc \in {"cancel", "abort"} \/ evAction[e] = "cancel"
  BY <1>3 DEF PendingStep, TakeEvent, EventCancel, EventContinue, EventStart,
              EventUnmapped, EventClosed, EventDelivered, ContinueCheck, ContinueResume,
              ContinueQueue, ContinueQueued, CancelRecords, CancelAbort
<1>4. ASSUME NEW e \in Events, StartStep(e) PROVE FALSE
  BY <1>4 DEF StartStep, StartPrepare, StartRecover, AdoptTask, AdoptMapping,
              StartConfirm, StartCreate, StartSave, StartPrompt, StartMap,
              StartActivate, DiscardSession, DiscardRecords, DiscardWorkspace
<1>5. ASSUME NEW e \in Events, DispatchStep(e) PROVE github[e] = "cancel"
  BY <1>5 DEF DispatchStep, TakeDelivery, RefreshEvent, DispatchCancelled, DropEvent,
              MoveContext
<1>6. CASE DispatchLoop
  BY <1>6 DEF DispatchLoop, NothingLeft, SelectContexts, SealDelivery, PostPrompt, Finalize
<1>7. CASE EndPending \/ EndDispatch \/ EndComplete \/ UpkeepLoop \/ EndRun
  BY <1>7 DEF EndPending, EndDispatch, EndComplete, UpkeepLoop, RemoveWorkspace,
              Collected, EndRun, UpkeepFrame
<1>8. CASE \E t \in Tasks : UpkeepStep(t)
  BY <1>8 DEF UpkeepStep, CompleteTask, RetainTask, BlockTask, CollectTask, UpkeepFrame
<1>9. CASE Crash \/ PendingRaises \/ DispatchRaises \/ CleanupRaises
  BY <1>9 DEF Crash, Idle, PendingRaises, DispatchRaises, CleanupRaises, UpkeepFrame
<1>10. CASE \/ \E q \in Subjects, u \in Tasks : RegisterPr(q, u)
            \/ Operator \/ DeleteFails
  BY <1>10 DEF RegisterPr, Operator, DeleteCheck, DeleteWorkspace, DeleteSession,
              DeleteRecords, DeleteFails
<1>11. CASE UNCHANGED vars BY <1>11 DEF vars, storeVars
<1> QED BY StepCases, <1>1, <1>2, <1>3, <1>4, <1>5, <1>6, <1>7, <1>8, <1>9, <1>10, <1>11

\* Where nobody cancels, nothing is cancelled.
LEMMA CalmKept == ASSUME NoCancels, IInv, Calm, [Next]_vars PROVE Calm'
<1>1. /\ github \in [Events -> Contents \cup {"unposted"}] /\ edits \in Nat /\ DbType
  BY DEF IInv, TypeOK, WorldType
<1>2. ASSUME NEW e \in Events PROVE github'[e] # "cancel"
  <2>1. ASSUME NEW x \in Events, Post(x) PROVE github'[e] # "cancel"
    <3>1. PICK c \in InitialCommands \cup {"continue"} : github' = [github EXCEPT ![x] = c]
      BY <2>1 DEF Post
    <3> QED BY <1>1, <3>1 DEF Calm, NoCancels
  <2>2. ASSUME NEW x \in Events, Edit(x) PROVE github'[e] # "cancel"
    <3>1. EditCommands \subseteq {"continue"}
      BY <1>1, <2>2, BridgeAssumption DEF Edit, NoCancels, OnlyContinues
    <3>2. PICK c \in EditCommands : github' = [github EXCEPT ![x] = c] BY <2>2 DEF Edit
    <3> QED BY <1>1, <3>1, <3>2 DEF Calm
  <2> QED BY TextSteps, <2>1, <2>2 DEF Calm
<1>3. ASSUME NEW e \in Events PROVE evAction'[e] # "cancel"
  BY <1>1, ActionComes DEF Calm
<1>4. pc' \notin {"cancel", "abort"} BY CancelComes DEF Calm
<1> QED BY <1>2, <1>3, <1>4 DEF Calm

\* A sealed delivery that has a message stays so.
LEMMA RowStays ==
  ASSUME Deletable = {}, Unattended, IInv, Starting, Rows, Calm, Sealed, Marked, [Next]_vars,
         NEW t \in Tasks, NEW d \in Events, contMsg[t][d] # {}
  PROVE  delTask'[d] = t /\ delState'[d] \in {"dispatching", "delivered"}
<1>1. /\ DbType /\ Control /\ Message /\ delState \in [Events -> DelStates]
      /\ delTask \in [Events -> Tasks \cup {NoTask}]
      /\ dl \in Events \cup {NoEvent}
  BY DEF IInv, TypeOK, DbType, RunType, DispatchInv
<1>2. delTask[d] = t /\ delState[d] \in {"dispatching", "delivered"} /\ t # NoTask
  BY Domains DEF Sealed
<1>3. Posted(d) BY <1>2 DEF Posted
<1>4. CASE UNCHANGED <<delState, delTask>> BY <1>2, <1>4
<1>5. ASSUME NEW x \in Events, NEW u, InsertDelivery(x, u)
      PROVE  delTask'[d] = t /\ delState'[d] \in {"dispatching", "delivered"}
  BY <1>1, <1>2, <1>5 DEF InsertDelivery
<1>6. ASSUME NEW e \in Events, ContinueQueue(e)
      PROVE  delTask'[d] = t /\ delState'[d] \in {"dispatching", "delivered"}
  BY <1>4, <1>5, <1>6 DEF ContinueQueue, QueueDelivery
<1>7. ASSUME NEW e \in Events, CancelRecords(e) PROVE FALSE
  BY <1>7 DEF CancelRecords, At, Calm
<1>8. ASSUME NEW e \in Events, DiscardRecords(e)
      PROVE  delTask'[d] = t /\ delState'[d] \in {"dispatching", "delivered"}
  BY <1>2, <1>8, NoneDiscarded DEF DiscardRecords, DeleteSessionRecords
<1>9. ASSUME NEW e \in Events, MoveContext(e)
      PROVE  delTask'[d] = t /\ delState'[d] \in {"dispatching", "delivered"}
  <2>1. CASE delState[e] = "cancelled"
    BY <1>1, <1>2, <1>9, <2>1 DEF MoveContext, MoveDeliveryEvent
  <2> QED BY <1>5, <1>9, <2>1 DEF MoveContext, MoveDeliveryEvent
<1>10. ASSUME NEW s, s \in {"dispatching", "delivered"} \/ dl # d, MarkDelivery(dl, s), delTask' = delTask
       PROVE  delTask'[d] = t /\ delState'[d] \in {"dispatching", "delivered"}
  BY <1>1, <1>2, <1>10 DEF MarkDelivery
<1>11. CASE NothingLeft
  <2>1. dl # d BY <1>1, <1>3, <1>11 DEF NothingLeft, Control, Message
  <2> QED BY <1>10, <1>11, <2>1 DEF NothingLeft
<1>12. CASE SealDelivery BY <1>10, <1>12 DEF SealDelivery
<1>13. CASE Finalize BY <1>10, <1>13 DEF Finalize, FinalizeDelivery
<1>14. CASE DispatchRaises
  <2>1. dl = d => pc = "finalize" BY <1>1, <1>3, <1>14 DEF DispatchRaises, Message
  <2> QED BY <1>10, <1>14, <2>1 DEF DispatchRaises, Marked
<1>15. ~DeleteRecords BY UnattendedKept DEF Operator
<1> QED BY <1>4, <1>6, <1>7, <1>8, <1>9, <1>11, <1>12, <1>13, <1>14, <1>15, RowSteps

\* A delivery that has a message has been sealed.
LEMMA SealedKept ==
  ASSUME Deletable = {}, Unattended, IInv, Starting, Rows, Target, Calm, Sealed, Marked, [Next]_vars
  PROVE  Sealed'
<1> SUFFICES ASSUME NEW t \in Tasks, NEW d \in Events, contMsg'[t][d] # {}
             PROVE  delTask'[d] = t /\ delState'[d] \in {"dispatching", "delivered"}
  BY DEF Sealed
<1>1. CASE contMsg[t][d] # {} BY <1>1, RowStays
<1>2. CASE contMsg[t][d] = {}
  <2>1. PostPrompt /\ t = delTask[dl] /\ d = dl BY <1>2, OnlyPosts DEF IInv, TypeOK
  <2>2. delTask' = delTask /\ delState' = delState /\ pc = "post" BY <2>1 DEF PostPrompt
  <2> QED BY <2>1, <2>2 DEF Marked
<1> QED BY <1>1, <1>2

\* The run knows what it has sealed.
LEMMA MarkedKept ==
  ASSUME Deletable = {}, Unattended, IInv, Fed, Steady, Rows, Target, Calm, Sealed, Marked,
         [Next]_vars
  PROVE  Marked'
<1>1. /\ DbType /\ Control /\ Waiting /\ delState \in [Events -> DelStates]
      /\ dl \in Events \cup {NoEvent}
  BY DEF IInv, TypeOK, DbType, RunType, DispatchInv
<1>2. pc' \in {"post", "finalize"} => dl' # NoEvent
  BY ControlStep DEF IInv, DispatchInv, TypeOK, Control
<1>3. CASE dl # NoEvent /\ UNCHANGED <<pc, dl, rowState>>
  <2>1. CASE pc # "post" BY <1>3, <2>1 DEF Marked
  <2>2. CASE pc = "post"
    <3>1. delState'[dl] = delState[dl]
      <4>1. ~DeleteRecords BY UnattendedKept DEF Operator
      <4> QED BY <1>1, <1>3, <2>2, <4>1, RowSteps
              DEF ContinueQueue, CancelRecords, DiscardRecords, MoveContext, NothingLeft,
                  SealDelivery, Finalize, DispatchRaises, DeliveryDone, At, Goto
    <3> QED BY <1>3, <3>1 DEF Marked
  <2> QED BY <2>1, <2>2
<1>4. ASSUME NEW e \in Events, TakeDelivery(e), dl = NoEvent, dl' = e PROVE Marked'
  <2>1. /\ rowState' = delState[e] /\ e \in queue
        /\ pc' = IF Posted(e) THEN "finalize" ELSE "refresh"
    BY <1>4, Domains DEF TakeDelivery, Oldest, Goto
  <2>2. delState[e] # "delivered" BY <1>1, <2>1 DEF Waiting
  <2>3. ASSUME Posted(e) PROVE delState[e] = "dispatching"
    <3>1. delTask[e] \in Tasks /\ contMsg[delTask[e]][e] # {}
      BY <1>1, <2>3 DEF Posted, DbType
    <3> QED BY <2>2, <3>1 DEF Sealed
  <2> QED BY <2>1, <2>3 DEF Marked
<1>5. CASE SelectContexts BY <1>5 DEF SelectContexts, Goto, Marked
<1>6. CASE SealDelivery
  <2>1. dl \in Events /\ delState[dl] # "none"
    BY <1>1, <1>6 DEF SealDelivery, Control, Target, Rows
  <2>2. delState'[dl] = "dispatching" /\ dl' = dl /\ rowState' = "dispatching"
    BY <1>1, <1>6, <2>1 DEF SealDelivery, MarkDelivery
  <2> QED BY <2>2 DEF Marked
<1>7. CASE PostPrompt BY <1>7 DEF PostPrompt, Goto, Marked
<1>8. CASE \E e \in Events : MoveContext(e) BY <1>8 DEF MoveContext, Marked
<1>9. CASE pc = "refresh" /\ pc' = pc BY <1>9 DEF Marked
<1>10. ASSUME dl' # NoEvent PROVE Marked'
  BY <1>1, <1>3, <1>4, <1>5, <1>6, <1>7, <1>8, <1>9, <1>10, TurnGoesOn
<1> QED BY <1>2, <1>10 DEF Marked

\* In every reachable state, while nobody cancels.
LEMMA SealInvariance ==
  ASSUME Deletable = {}, NoCancels PROVE Spec => [](StartInv /\ FeedInv /\ SealInv)
<1>1. Init => SealInv
  <2> SUFFICES ASSUME Init PROVE SealInv OBVIOUS
  <2>1. Calm BY DEF Init, Calm
  <2>2. Sealed BY DEF Init, Sealed
  <2>3. Marked BY DEF Init, Marked
  <2> QED BY <2>1, <2>2, <2>3 DEF SealInv
<1>2. OnlyContinues BY DEF NoCancels
<1>3. IInv /\ StartInv /\ FeedInv /\ SealInv /\ [Next]_vars => SealInv'
  BY CalmKept, SealedKept, MarkedKept DEF SealInv, FeedInv, StartInv
<1>4. Spec => [](StartInv /\ FeedInv) BY <1>2, FeedInvariance
<1>5. Spec => []SealInv BY <1>1, <1>3, <1>4, Invariance, PTL DEF Spec
<1> QED BY <1>4, <1>5, PTL

\* What is sent is sealed, and what is finalized has the state it was taken with,
\* unless the row has been deleted.
SealKnown ==
  /\ pc = "post" => rowState = "dispatching" /\ delState[dl] \in {"dispatching", "none"}
  /\ pc = "finalize" /\ rowState = "pending" => delState[dl] \in {"pending", "none"}

LEMMA SealKnownKept == ASSUME IInv, SealKnown, [Next]_vars PROVE SealKnown'
<1>1. /\ Control /\ delState \in [Events -> DelStates] /\ dl \in Events \cup {NoEvent}
  BY DEF IInv, TypeOK, DbType, RunType, DispatchInv
<1> SUFFICES ASSUME pc' \in {"post", "finalize"} PROVE SealKnown' BY DEF SealKnown
<1>2. dl' # NoEvent /\ dl' \in Events \cup {NoEvent}
  BY ControlStep, RunStep DEF IInv, DispatchInv, TypeOK, Control, RunType
<1>3. CASE dl # NoEvent /\ UNCHANGED <<pc, dl, rowState>>
  <2>1. delState'[dl] \in {delState[dl], "none"}
    <3>1. CASE DeleteRecords BY <1>1, <1>3, <3>1 DEF DeleteRecords, DeleteSessionRecords
    <3>2. CASE ~DeleteRecords
      BY <1>1, <1>3, <3>2, RowSteps
         DEF ContinueQueue, CancelRecords, DiscardRecords, MoveContext, NothingLeft,
             SealDelivery, Finalize, DispatchRaises, DeliveryDone, At, Goto
    <3> QED BY <3>1, <3>2
  <2> QED BY <1>3, <2>1 DEF SealKnown
<1>4. ASSUME NEW e \in Events, TakeDelivery(e), dl = NoEvent PROVE SealKnown'
  <2>1. dl' = e /\ rowState' = delState[e] /\ delState' = delState /\ pc' = "finalize"
    BY <1>2, <1>4 DEF TakeDelivery, Goto
  <2> QED BY <2>1 DEF SealKnown
<1>5. ~SelectContexts BY DEF SelectContexts, Goto
<1>6. CASE SealDelivery
  <2>1. dl \in Events BY <1>1, <1>6 DEF SealDelivery, Control
  <2>2. /\ delState'[dl] \in {"dispatching", "none"} /\ dl' = dl /\ rowState' = "dispatching"
        /\ pc' = "post"
    BY <1>1, <1>6, <2>1 DEF SealDelivery, MarkDelivery, Goto
  <2> QED BY <2>2 DEF SealKnown
<1>7. CASE PostPrompt BY <1>7 DEF PostPrompt, Goto, SealKnown
<1>8. ASSUME NEW e \in Events, \/ RefreshEvent(e) \/ DispatchCancelled(e) \/ DropEvent(e)
                               \/ MoveContext(e) \/ CancelRecords(e) \/ CancelAbort(e)
      PROVE  FALSE
  BY <1>8 DEF RefreshEvent, DispatchCancelled, DropEvent, MoveContext, CancelRecords, CancelAbort,
              At, Goto
<1> QED BY <1>1, <1>2, <1>3, <1>4, <1>5, <1>6, <1>7, <1>8, TurnSteps

\* A delivery opens only where its row is made or made again, and where the run
\* gives back the state it was taken with.
LEMMA OpensAgain ==
  ASSUME IInv, SealKnown, [Next]_vars, NEW d \in Events, delState'[d] = "pending", Posted(d)'
  PROVE  (Posted(d) /\ delState[d] = "pending") \/ delState[d] \in {"none", "cancelled"}
<1> SUFFICES ASSUME delState[d] \notin {"none", "cancelled"}
             PROVE  Posted(d) /\ delState[d] = "pending"
  OBVIOUS
<1>1. /\ DbType /\ WorldType /\ Control /\ Message /\ dl \in Events \cup {NoEvent}
      /\ delState \in [Events -> DelStates] /\ delTask \in [Events -> Tasks \cup {NoTask}]
      /\ DbType'
  BY IInvStep DEF IInv, TypeOK, DbType, RunType, DispatchInv
<1>2. delTask'[d] = delTask[d] /\ (delState[d] # "pending" => DispatchRaises /\ dl = d /\ rowState = "pending")
  <2> DEFINE Same == delTask'[d] = delTask[d] /\ delState'[d] = delState[d]
  <2>1. CASE UNCHANGED <<delState, delTask>> BY <2>1
  <2>2. ASSUME NEW x \in Events, NEW u, InsertDelivery(x, u) PROVE Same
    BY <1>1, <2>2 DEF InsertDelivery
  <2>3. ASSUME NEW e \in Events, ContinueQueue(e) PROVE Same
    BY <2>2, <2>3 DEF ContinueQueue, QueueDelivery
  <2>4. ASSUME NEW e \in Events, CancelRecords(e) PROVE Same
    BY <1>1, <2>4 DEF CancelRecords, CancelSession
  <2>5. ASSUME NEW u, DeleteSessionRecords(u) PROVE Same
    BY <1>1, <2>5 DEF DeleteSessionRecords
  <2>6. ASSUME NEW e \in Events, MoveContext(e) PROVE Same
    <3>1. CASE delState[e] = "cancelled"
      BY <1>1, <2>6, <3>1 DEF MoveContext, MoveDeliveryEvent
    <3> QED BY <2>2, <2>6, <3>1 DEF MoveContext, MoveDeliveryEvent
  <2>7. ASSUME NEW s, s # "pending", MarkDelivery(dl, s), delTask' = delTask PROVE Same
    BY <1>1, <2>7 DEF MarkDelivery
  <2>8. CASE NothingLeft \/ SealDelivery \/ Finalize
    BY <2>7, <2>8 DEF NothingLeft, SealDelivery, Finalize, FinalizeDelivery
  <2>9. CASE DispatchRaises
    <3>1. MarkDelivery(dl, rowState) /\ delTask' = delTask BY <2>9 DEF DispatchRaises
    <3>2. CASE rowState # "pending" BY <2>7, <3>1, <3>2
    <3>3. CASE rowState = "pending" BY <1>1, <2>9, <3>1, <3>3 DEF MarkDelivery
    <3> QED BY <3>2, <3>3
  <2> QED BY <2>1, <2>3, <2>4, <2>5, <2>6, <2>8, <2>9, RowSteps DEF DiscardRecords, DeleteRecords
<1>3. CASE delState[d] # "pending"
  <2>1. DispatchRaises /\ dl = d /\ rowState = "pending" BY <1>2, <1>3
  <2>2. Posted(d) BY <1>2, <2>1 DEF DispatchRaises, Posted
  <2>3. pc = "finalize" BY <1>1, <2>1, <2>2, Domains DEF DispatchRaises, Message
  <2> QED BY <1>3, <2>1, <2>3 DEF SealKnown
<1>4. CASE delState[d] = "pending"
  <2> SUFFICES ASSUME ~Posted(d) PROVE FALSE BY <1>4
  <2>1. /\ delTask[d] \in Tasks /\ contMsg[delTask[d]][d] = {} /\ contMsg'[delTask[d]][d] # {}
    BY <1>1, <1>2 DEF Posted
  <2>2. PostPrompt /\ d = dl BY <1>1, <2>1, OnlyPosts
  <2> QED BY <1>4, <2>2 DEF PostPrompt, SealKnown
<1> QED BY <1>3, <1>4

\* New feedback never joins a prompt that may already exist, wherever runs are
\* killed and calls fail, whatever is cancelled, edited and deleted, also where a
\* batch outgrows its prompt.
THEOREM PostedSealed == Spec => PostedIsSealed
<1>1. Init => SealKnown BY DEF Init, SealKnown
<1>2. IInv /\ SealKnown /\ [Next]_vars => SealKnown' BY SealKnownKept
<1>3. IInv /\ SealKnown /\ [Next]_vars =>
        [\A d \in Events : Posted(d)' /\ delState'[d] = "pending" =>
           \/ Posted(d) /\ delState[d] = "pending"
           \/ delState[d] \in {"none", "cancelled"}]_vars
  BY OpensAgain
<1> QED BY <1>1, <1>2, <1>3, Invariance, PTL DEF Spec, PostedIsSealed
-----------------------------------------------------------------------------
(* Queued feedback *)

\* A row goes with its link, what a delivered row links is delivered, and what
\* continue_task has just queued is linked to a row that is not.
Rooted == \A d \in Events : delState[d] # "none" => d \in carried[d]
Done ==
  \A d \in Events : delState[d] = "delivered" => \A e \in carried[d] : evState[e] = "delivered"
JustQueued ==
  pc = "queued" =>
    \E d \in Events : ev \in carried[d] /\ delState[d] \in Live \cup {"cancelled"}

CarryInv == Rooted /\ Done /\ JustQueued /\ QueuedIsCarried

\* No feedback leaves its delivery.
LEMMA CarriedStays ==
  ASSUME Deletable = {}, Unattended, IInv, Whole, Steady, Starting, Rows, [Next]_vars,
         NEW d \in Events
  PROVE  carried[d] \subseteq carried'[d]
<1>1. carried \in [Events -> SUBSET Events] BY DEF IInv, TypeOK, DbType
<1>2. ASSUME NEW x \in Events, ContinueQueue(x) PROVE carried[d] \subseteq carried'[d]
  <2>1. \E y \in Events : carried' = [carried EXCEPT ![y] = @ \cup {x}]
    BY <1>2 DEF ContinueQueue, QueueDelivery, Oldest, LiveDeliveries
  <2> QED BY <1>1, <2>1
<1>3. ASSUME NEW x \in Events PROVE ~DropEvent(x)
  BY DEF DropEvent, At, Steady, IInv, DispatchInv, Control
<1>4. ASSUME NEW x \in Events PROVE ~MoveContext(x)
  BY DEF MoveContext, Whole, First
<1>5. ASSUME NEW x \in Events, DiscardRecords(x) PROVE carried[d] \subseteq carried'[d]
  BY <1>1, <1>5, NoneDiscarded DEF DiscardRecords, DeleteSessionRecords
<1>6. ~DeleteRecords BY UnattendedKept DEF Operator
<1>7. CASE UNCHANGED carried BY <1>7
<1> QED BY <1>2, <1>3, <1>4, <1>5, <1>6, <1>7, CarriedSteps

\* A row stays, and a new one comes with its link.
LEMMA RowLasts ==
  ASSUME Deletable = {}, Unattended, IInv, Whole, Starting, Rows, Target, [Next]_vars,
         NEW d \in Events
  PROVE  /\ delState[d] # "none" => delState'[d] # "none"
         /\ delState[d] = "none" /\ delState'[d] # "none" => d \in carried'[d]
<1> DEFINE Good == /\ delState[d] # "none" => delState'[d] # "none"
                   /\ delState[d] = "none" /\ delState'[d] # "none" => d \in carried'[d]
<1>1. DbType BY DEF IInv, TypeOK
<1>2. ASSUME NEW x \in Events, ContinueQueue(x) PROVE Good
  <2>1. CASE UNCHANGED delState BY <2>1
  <2>2. CASE /\ InsertDelivery(x, held)
             /\ carried' = [carried EXCEPT ![x] = @ \cup {x}]
    BY <1>1, <2>2 DEF InsertDelivery, DbType
  <2> QED BY <1>2, <2>1, <2>2 DEF ContinueQueue, QueueDelivery
<1>3. ASSUME NEW x \in Events, CancelRecords(x) PROVE Good
  BY <1>1, <1>3 DEF CancelRecords, CancelSession, LiveDeliveries, Live, DbType
<1>4. ASSUME NEW x \in Events, DiscardRecords(x) PROVE Good
  BY <1>1, <1>4, NoneDiscarded DEF DiscardRecords, DeleteSessionRecords
<1>5. ASSUME NEW x \in Events PROVE ~MoveContext(x)
  BY DEF MoveContext, Whole, First
<1>6. ASSUME NEW x, NEW s, s # "none", MarkDelivery(x, s) PROVE Good
  BY <1>1, <1>6 DEF MarkDelivery, DbType
<1>7. CASE NothingLeft \/ SealDelivery \/ Finalize
  BY <1>6, <1>7 DEF NothingLeft, SealDelivery, Finalize, FinalizeDelivery
<1>8. CASE DispatchRaises BY <1>6, <1>8 DEF DispatchRaises, Target
<1>9. ~DeleteRecords BY UnattendedKept DEF Operator
<1>10. CASE UNCHANGED <<delState, delTask>> BY <1>10
<1> QED BY <1>2, <1>3, <1>4, <1>5, <1>7, <1>8, <1>9, <1>10, RowSteps

\* Every row has its link.
LEMMA RootedKept ==
  ASSUME Deletable = {}, Unattended, IInv, Whole, Steady, Starting, Rows, Target, Rooted,
         [Next]_vars
  PROVE  Rooted'
BY CarriedStays, RowLasts DEF Rooted

\* What was delivered stays so.
LEMMA DeliveredStays ==
  ASSUME IInv, Fed, InHand, [Next]_vars, NEW e \in Events, evState[e] = "delivered"
  PROVE  evState'[e] = "delivered"
<1> SUFFICES ASSUME evState'[e] # "delivered" PROVE FALSE OBVIOUS
<1>1. DbType /\ Control BY DEF IInv, TypeOK, DispatchInv
<1>2. ~Discover(e) BY <1>1 DEF Discover, UpdateEvent, DbType
<1>3. ~RefreshEvent(e)
  <2> SUFFICES ASSUME RefreshEvent(e) PROVE FALSE OBVIOUS
  <2>1. e \in todo /\ dl # NoEvent BY <1>1 DEF RefreshEvent, First, Control
  <2>2. github[e] = "continue" BY <2>1 DEF Fed, Feed
  <2> QED BY <2>2 DEF RefreshEvent, StartCommands
<1>4. ~DispatchCancelled(e) /\ ~EventDelivered(e)
  BY <1>1 DEF DispatchCancelled, EventDelivered, UpdateEvent, DbType
<1>5. ASSUME pc \in PendingLabels, dl = NoEvent, ev = e PROVE FALSE
  BY <1>5 DEF InHand
<1>6. ~EventUnmapped(e) /\ ~EventClosed(e) /\ ~ContinueQueued(e) /\ ~StartConfirm(e)
  BY <1>1, <1>5 DEF EventUnmapped, EventClosed, ContinueQueued, StartConfirm, At,
                    PendingLabels, Control, DispatchLabels
<1>7. ~(PendingRaises /\ ev = e) BY <1>5 DEF PendingRaises
<1> QED BY <1>1, <1>2, <1>3, <1>4, <1>6, <1>7, StateComes

\* What a delivered row links is delivered.
LEMMA DoneKept ==
  ASSUME IInv, Whole, Fed, InHand, Rooted, Done, [Next]_vars
  PROVE  Done'
<1>1. DbType /\ Waiting BY DEF IInv, TypeOK, DispatchInv
<1> SUFFICES ASSUME NEW d \in Events, delState'[d] = "delivered", NEW e \in carried'[d]
             PROVE  evState'[e] = "delivered"
  BY DEF Done
<1>2. CASE delState[d] # "delivered"
  <2>1. Finalize /\ d = dl BY <1>1, <1>2, OnlyFinalizes
  <2>2. carried'[d] = carried[d] /\ carried[d] \subseteq Events
    BY <1>1, <2>1 DEF Finalize, DbType
  <2> QED BY <2>1, <2>2 DEF Finalize, FinalizeDelivery
<1>3. CASE delState[d] = "delivered" /\ e \in carried[d]
  <2>1. e \in Events /\ evState[e] = "delivered" BY <1>1, <1>3 DEF Done, DbType
  <2> QED BY <2>1, DeliveredStays
<1>4. CASE delState[d] = "delivered" /\ e \notin carried[d]
  <2>1. e \in Events /\ (ContinueQueue(e) \/ MoveContext(e)) BY <1>4, CarriedComes
  <2>2. ~MoveContext(e) BY DEF MoveContext, Whole, First
  <2>3. PICK y \in Events : /\ carried' = [carried EXCEPT ![y] = @ \cup {e}]
                            /\ \/ y = e /\ InsertDelivery(e, held)
                               \/ delState[y] = "pending"
    BY <2>1, <2>2 DEF ContinueQueue, QueueDelivery, Oldest, LiveDeliveries
  <2>4. y = d BY <1>1, <1>4, <2>3 DEF DbType
  <2> QED BY <1>4, <2>3, <2>4 DEF Rooted
<1> QED BY <1>2, <1>3, <1>4

\* A row that can still be dispatched, or was withdrawn, is so until Finalize.
LEMMA OpenStays ==
  ASSUME Deletable = {}, Unattended, IInv, Whole, Starting, Rows, Target, [Next]_vars, DbType',
         NEW d \in Events, delState[d] \in Live \cup {"cancelled"}
  PROVE  delState'[d] \in Live \cup {"cancelled"} \/ (Finalize /\ d = dl)
<1>1. DbType /\ Waiting BY DEF IInv, TypeOK, DispatchInv
<1>2. delState[d] \notin {"none", "delivered"} BY DEF Live
<1>3. delState'[d] # "none" BY <1>2, RowLasts
<1>4. delState'[d] = "delivered" => Finalize /\ d = dl BY <1>1, <1>2, OnlyFinalizes
<1>5. delState'[d] \in DelStates BY DEF DbType
<1> QED BY <1>3, <1>4, <1>5 DEF DelStates

\* What continue_task queued has its row until it is recorded as queued.
LEMMA JustQueuedKept ==
  ASSUME Deletable = {}, Unattended, IInv, Whole, Steady, Starting, Rows, Target, Rooted, Done,
         InHand, JustQueued, [Next]_vars, DbType', Control'
  PROVE  JustQueued'
<1> SUFFICES ASSUME pc' = "queued"
             PROVE  \E d \in Events : ev' \in carried'[d] /\ delState'[d] \in Live \cup {"cancelled"}
  BY DEF JustQueued
<1>1. dl' = NoEvent BY DEF Control, DispatchLabels
<1>2. DbType /\ Control BY DEF IInv, TypeOK, DispatchInv
<1>3. CASE pc = "queued" /\ ev' = ev
  <2>1. PICK d \in Events : ev \in carried[d] /\ delState[d] \in Live \cup {"cancelled"}
    BY <1>3 DEF JustQueued
  <2>2. ~Finalize BY <1>3 DEF Finalize
  <2> QED BY <1>3, <2>1, <2>2, CarriedStays, OpenStays
<1>4. ASSUME NEW e \in Events, ContinueQueue(e), dl = NoEvent
      PROVE  \E d \in Events : ev' \in carried'[d] /\ delState'[d] \in Live \cup {"cancelled"}
  <2>1. ev' = e /\ evState[e] = "pending"
    BY <1>4 DEF ContinueQueue, At, InHand, PendingLabels, DiscardLabels
  <2>2. delState[e] # "delivered" BY <2>1, <1>4 DEF Rooted, Done
  <2>3. PICK y \in Events : /\ carried' = [carried EXCEPT ![y] = @ \cup {e}]
                            /\ \/ y = e /\ InsertDelivery(e, held)
                               \/ delState[y] = "pending" /\ delState' = delState
    BY <1>4 DEF ContinueQueue, QueueDelivery, Oldest, LiveDeliveries
  <2>4. delState'[y] \in Live \cup {"cancelled"}
    BY <1>2, <2>2, <2>3 DEF InsertDelivery, DbType, DelStates, Live
  <2>5. e \in carried'[y] BY <1>2, <2>3 DEF DbType
  <2> QED BY <2>1, <2>4, <2>5
<1>5. \/ UNCHANGED <<runVars, eventVars, title, startMsg>> \/ EndPoll \/ PendingRaises
      \/ dl = NoEvent /\ \E e \in Events : PendingStep(e) \/ StartStep(e)
  BY <1>1, <1>2, PhaseSteps DEF PendingLabels
<1>6. ASSUME NEW e \in Events, PendingStep(e) PROVE ContinueQueue(e) \/ (pc = "queued" /\ ev' = ev)
  BY <1>6 DEF PendingStep, TakeEvent, EventCancel, EventContinue, EventStart, EventUnmapped,
              EventClosed, EventDelivered, ContinueCheck, ContinueResume, ContinueQueued,
              CancelRecords, CancelAbort, Goto, EventDone
<1>7. ASSUME NEW e \in Events, StartStep(e) PROVE FALSE
  BY <1>7 DEF StartStep, StartPrepare, StartRecover, AdoptTask, AdoptMapping,
              StartConfirm, StartCreate, StartSave, StartPrompt, StartMap,
              StartActivate, DiscardSession, DiscardRecords, DiscardWorkspace, Goto, EventDone
<1>8. ~EndPoll /\ ~PendingRaises BY DEF EndPoll, PendingRaises, EventDone, Goto
<1> QED BY <1>3, <1>4, <1>5, <1>6, <1>7, <1>8

\* And then until it is delivered.
LEMMA QueuedKept ==
  ASSUME Deletable = {}, Unattended, IInv, Whole, Steady, Starting, Rows, Target, Fed,
         JustQueued, QueuedIsCarried, [Next]_vars, DbType'
  PROVE  QueuedIsCarried'
<1> SUFFICES ASSUME NEW e \in Events, evState'[e] = "queued"
             PROVE  \E d \in Events : e \in carried'[d] /\ delState'[d] \in Live \cup {"cancelled"}
  BY DEF QueuedIsCarried
<1>1. DbType /\ Control BY DEF IInv, TypeOK, DispatchInv
<1>2. CASE evState[e] = "queued"
  <2>1. PICK d \in Events : e \in carried[d] /\ delState[d] \in Live \cup {"cancelled"}
    BY <1>2 DEF QueuedIsCarried
  <2>2. ~(Finalize /\ d = dl) BY <2>1 DEF Finalize, FinalizeDelivery
  <2> QED BY <2>1, <2>2, CarriedStays, OpenStays
<1>3. CASE evState[e] # "queued"
  <2>1. ContinueQueued(e)
    BY <1>1, <1>3, StateComes
       DEF Discover, RefreshEvent, DispatchCancelled, EventUnmapped, EventClosed,
           EventDelivered, StartConfirm, UpdateEvent, DbType
  <2>2. pc = "queued" /\ ev = e /\ UNCHANGED <<carried, delState>>
    BY <2>1 DEF ContinueQueued, At
  <2> QED BY <2>2 DEF JustQueued
<1> QED BY <1>2, <1>3

\* In every reachable state.
LEMMA CarryInvariance ==
  ASSUME Deletable = {}, OnlyContinues, CanOverflow = FALSE PROVE Spec => []CarryInv
<1>1. Init => CarryInv
  <2> SUFFICES ASSUME Init PROVE CarryInv OBVIOUS
  <2>1. Rooted /\ Done /\ JustQueued BY DEF Init, Rooted, Done, JustQueued
  <2>2. QueuedIsCarried BY DEF Init, QueuedIsCarried
  <2> QED BY <2>1, <2>2 DEF CarryInv
<1>2. IInv /\ IInv' /\ QuietInv /\ StartInv /\ FeedInv /\ CarryInv /\ [Next]_vars => CarryInv'
  <2> SUFFICES ASSUME IInv, IInv', QuietInv, StartInv, FeedInv, CarryInv, [Next]_vars
               PROVE  CarryInv'
    OBVIOUS
  <2>1. /\ Whole /\ Unattended /\ Starting /\ InHand /\ Fed /\ Steady /\ Rows /\ Target
        /\ DbType' /\ Control'
    BY DEF QuietInv, StartInv, FeedInv, IInv, TypeOK, DispatchInv
  <2> USE DEF CarryInv
  <2>2. Rooted' BY <2>1, RootedKept
  <2>3. Done' BY <2>1, DoneKept
  <2>4. JustQueued' BY <2>1, JustQueuedKept
  <2>5. QueuedIsCarried' BY <2>1, QueuedKept
  <2> QED BY <2>2, <2>3, <2>4, <2>5
<1>3. Spec => [](StartInv /\ FeedInv) BY FeedInvariance
<1>4. Spec => []QuietInv BY QuietInvariance
<1> QED BY <1>1, <1>2, <1>3, <1>4, Invariance, PTL DEF Spec

\* Feedback that is queued is not lost: wherever runs are killed and calls fail,
\* some delivery that can still be dispatched, or that a cancel withdrew, carries
\* it, while feedback always fits its prompt and no comment is withdrawn or edited
\* into another command.
THEOREM QueuedCarried ==
  ASSUME Deletable = {}, OnlyContinues, CanOverflow = FALSE PROVE Spec => []QueuedIsCarried
<1>1. CarryInv => QueuedIsCarried BY DEF CarryInv
<1> QED BY <1>1, CarryInvariance, PTL
-----------------------------------------------------------------------------
(* What agents were given *)

\* The message of a sealed delivery has the text of all that the delivery carries.
Filled ==
  \A d \in Events : delState[d] = "dispatching" /\ Posted(d) =>
    carried[d] \subseteq contMsg[delTask[d]][d]

\* So has the prompt that is being made.
Batch ==
  /\ pc \in {"refresh", "move", "post"} => carried[dl] \subseteq todo \cup ctx
  /\ pc = "post" => todo = {}

\* What is finalized was taken open, or is sealed.
Ended == pc = "finalize" /\ rowState # "pending" => delState[dl] = "dispatching"

\* A start that is recorded as delivered is one whose first prompt was sent; the
\* others are cancels.
Answered ==
  dl = NoEvent => /\ pc \in {"cancel", "abort"} => evAction[ev] = "cancel"
                  /\ pc = "delivered" => ev \in startMsg \/ evAction[ev] = "cancel"

ReachInv == SealKnown /\ Filled /\ Batch /\ Ended /\ Answered

\* The operations that write messages.
LEMMA MessageSteps ==
  ASSUME [Next]_vars
  PROVE  \/ UNCHANGED <<contMsg, stray>>
         \/ \E e \in Events : StartCreate(e) \/ DiscardSession(e)
         \/ DeleteSession \/ PostPrompt
<1> DEFINE Same == UNCHANGED <<contMsg, stray>>
<1>1. CASE Environment
  BY <1>1 DEF Environment, Post, Edit, Age, AgentWorks, PersonPrompts
<1>2. CASE StartRun \/ EndPoll \/ \E e \in Events : Discover(e)
  BY <1>2 DEF StartRun, EndPoll, Discover
<1>3. ASSUME NEW e \in Events, PendingStep(e) PROVE Same
  BY <1>3 DEF PendingStep, TakeEvent, EventCancel, EventContinue, EventStart,
              EventUnmapped, EventClosed, EventDelivered, ContinueCheck, ContinueResume,
              ContinueQueue, ContinueQueued, CancelRecords, CancelAbort
<1>4. ASSUME NEW e \in Events, StartStep(e) PROVE Same \/ StartCreate(e) \/ DiscardSession(e)
  BY <1>4 DEF StartStep, StartPrepare, StartRecover, AdoptTask, AdoptMapping,
              StartConfirm, StartSave, StartPrompt, StartMap,
              StartActivate, DiscardRecords, DiscardWorkspace
<1>5. ASSUME NEW e \in Events, DispatchStep(e) PROVE Same
  BY <1>5 DEF DispatchStep, TakeDelivery, RefreshEvent, DispatchCancelled, DropEvent,
              MoveContext
<1>6. CASE EndPending \/ EndDispatch \/ EndComplete \/ UpkeepLoop \/ EndRun
  BY <1>6 DEF EndPending, EndDispatch, EndComplete, UpkeepLoop, RemoveWorkspace,
              Collected, EndRun, UpkeepFrame
<1>7. CASE DispatchLoop
  BY <1>7 DEF DispatchLoop, NothingLeft, SelectContexts, SealDelivery, Finalize
<1>8. CASE \E t \in Tasks : UpkeepStep(t)
  BY <1>8 DEF UpkeepStep, CompleteTask, RetainTask, BlockTask, CollectTask, UpkeepFrame
<1>9. CASE \/ \E p \in Subjects, t \in Tasks : RegisterPr(p, t)
           \/ Crash \/ PendingRaises \/ DispatchRaises \/ CleanupRaises \/ DeleteFails
  BY <1>9 DEF RegisterPr, Crash, PendingRaises, DispatchRaises, CleanupRaises,
              DeleteFails, UpkeepFrame
<1>10. CASE Operator BY <1>10 DEF Operator, DeleteCheck, DeleteWorkspace, DeleteRecords
<1>11. CASE UNCHANGED vars BY <1>11 DEF vars, storeVars
<1> QED BY StepCases, <1>1, <1>2, <1>3, <1>4, <1>5, <1>6, <1>7, <1>8, <1>9, <1>10, <1>11

\* What joins a delivery joins one that is open.
LEMMA OpenGrows ==
  ASSUME IInv, Whole, Rooted, [Next]_vars,
         NEW d \in Events, NEW e \in carried'[d], e \notin carried[d]
  PROVE  delState[d] \in {"pending", "none"} /\ ContinueQueue(e)
<1>1. DbType BY DEF IInv, TypeOK
<1>2. e \in Events /\ (ContinueQueue(e) \/ MoveContext(e)) BY CarriedComes
<1>3. ~MoveContext(e) BY DEF MoveContext, Whole, First
<1>4. PICK y \in Events : /\ carried' = [carried EXCEPT ![y] = @ \cup {e}]
                          /\ y = e \/ delState[y] = "pending"
  BY <1>2, <1>3 DEF ContinueQueue, QueueDelivery, Oldest, LiveDeliveries
<1>5. y = d BY <1>1, <1>4 DEF DbType
<1> QED BY <1>2, <1>3, <1>4, <1>5 DEF Rooted

\* A delivery is sealed by the run that has it, for the session it has.
LEMMA Seals ==
  ASSUME DbType, [Next]_vars, NEW d \in Events, delState'[d] = "dispatching"
  PROVE  /\ delTask'[d] = delTask[d]
         /\ \/ delState[d] = "dispatching"
            \/ dl = d /\ SealDelivery
            \/ dl = d /\ DispatchRaises /\ rowState = "dispatching"
<1>1. /\ delState \in [Events -> DelStates] /\ delTask \in [Events -> Tasks \cup {NoTask}]
  BY DEF DbType
<1> DEFINE Same == delTask'[d] = delTask[d] /\ delState'[d] = delState[d]
<1>2. CASE UNCHANGED <<delState, delTask>> BY <1>2
<1>3. ASSUME NEW x \in Events, NEW u, InsertDelivery(x, u) PROVE Same
  BY <1>1, <1>3 DEF InsertDelivery
<1>4. ASSUME NEW e \in Events, ContinueQueue(e) PROVE Same
  BY <1>3, <1>4 DEF ContinueQueue, QueueDelivery
<1>5. ASSUME NEW e \in Events, CancelRecords(e) PROVE Same
  BY <1>1, <1>5 DEF CancelRecords, CancelSession
<1>6. ASSUME NEW u, DeleteSessionRecords(u) PROVE Same
  BY <1>1, <1>6 DEF DeleteSessionRecords
<1>7. ASSUME NEW e \in Events, MoveContext(e) PROVE Same
  <2>1. CASE delState[e] = "cancelled"
    BY <1>1, <1>7, <2>1 DEF MoveContext, MoveDeliveryEvent
  <2> QED BY <1>3, <1>7, <2>1 DEF MoveContext, MoveDeliveryEvent
<1>8. ASSUME NEW s, MarkDelivery(dl, s), delTask' = delTask, s # "dispatching" \/ dl # d PROVE Same
  BY <1>1, <1>8 DEF MarkDelivery
<1>9. CASE NothingLeft \/ Finalize BY <1>8, <1>9 DEF NothingLeft, Finalize, FinalizeDelivery
<1>10. CASE SealDelivery BY <1>8, <1>10 DEF SealDelivery
<1>11. CASE DispatchRaises BY <1>8, <1>11 DEF DispatchRaises
<1> QED BY <1>2, <1>4, <1>5, <1>6, <1>7, <1>9, <1>10, <1>11, RowSteps
        DEF DiscardRecords, DeleteRecords

\* The message of a delivery stays in the session the delivery is for.
LEMMA MessageKept ==
  ASSUME Deletable = {}, Unattended, IInv, Starting, Rows, [Next]_vars,
         NEW d \in Events, Posted(d)
  PROVE  contMsg'[delTask[d]][d] = contMsg[delTask[d]][d]
<1>1. WorldType /\ Message /\ DbType /\ Control BY DEF IInv, TypeOK, DispatchInv
<1> DEFINE t == delTask[d]
<1>2. t \in Engaged /\ t \in Tasks BY <1>1 DEF Posted, Rows, DbType
<1> HIDE DEF t
<1>3. CASE UNCHANGED contMsg BY <1>3 DEF t
<1>4. ASSUME NEW x \in Events, StartCreate(x) \/ DiscardSession(x)
      PROVE  contMsg'[t][d] = contMsg[t][d]
  <2>1. x # t
    <3>1. x \notin startMsg
      BY <1>4 DEF Starting, StartCreate, DiscardSession, At, UnpromptedLabels, DiscardLabels
    <3> QED BY <1>2, <3>1, StoreAssumption DEF Engaged
  <2> QED BY <1>1, <1>2, <1>4, <2>1 DEF StartCreate, DiscardSession, DropSession, WorldType
<1>5. ~DeleteSession BY UnattendedKept DEF Operator
<1>6. CASE PostPrompt
  <2>1. dl # NoEvent /\ ~Posted(dl) BY <1>1, <1>6 DEF PostPrompt, Control, Message
  <2>2. d # dl BY <2>1
  <2> QED BY <1>1, <1>2, <1>6, <2>2 DEF PostPrompt, WorldType
<1> QED BY <1>3, <1>4, <1>5, <1>6, MessageSteps DEF t

\* A message goes on having what its delivery carries.
LEMMA FilledKept ==
  ASSUME Deletable = {}, Unattended, IInv, Whole, Starting, Rows, Rooted, Filled, Batch, Ended,
         [Next]_vars
  PROVE  Filled'
<1>1. DbType /\ WorldType /\ Control /\ Message BY DEF IInv, TypeOK, DispatchInv
<1> SUFFICES ASSUME NEW d \in Events, delState'[d] = "dispatching", Posted(d)'
             PROVE  carried'[d] \subseteq contMsg'[delTask'[d]][d]
  BY DEF Filled
<1> DEFINE t == delTask[d]
<1>2. delTask'[d] = t /\ t \in Tasks /\ contMsg'[t][d] # {}
  BY <1>1, Seals DEF Posted, DbType
<1>3. CASE contMsg[t][d] # {}
  <2>1. Posted(d) BY <1>2, <1>3, Domains DEF Posted
  <2>2. delState[d] = "dispatching"
    <3>1. ~(dl = d /\ SealDelivery) BY <1>1, <2>1, Domains DEF SealDelivery, Message
    <3>2. ASSUME dl = d, DispatchRaises, rowState = "dispatching" PROVE delState[d] = "dispatching"
      <4>1. pc = "finalize" BY <1>1, <2>1, <3>2 DEF DispatchRaises, Message
      <4> QED BY <3>2, <4>1 DEF Ended
    <3> QED BY <1>1, <3>1, <3>2, Seals
  <2>3. contMsg'[t][d] = contMsg[t][d] BY <2>1, MessageKept
  <2>4. carried[d] \subseteq contMsg[t][d] BY <2>1, <2>2 DEF Filled
  <2>5. carried'[d] \subseteq carried[d] BY <2>2, OpenGrows
  <2> QED BY <1>2, <2>3, <2>4, <2>5
<1>4. CASE contMsg[t][d] = {}
  <2>1. PostPrompt /\ t = delTask[dl] /\ d = dl BY <1>1, <1>2, <1>4, OnlyPosts
  <2>2. contMsg'[t][d] = ctx /\ carried' = carried /\ pc = "post"
    BY <1>1, <1>2, <2>1 DEF PostPrompt, WorldType
  <2> QED BY <1>2, <2>1, <2>2 DEF Batch
<1> QED BY <1>3, <1>4

\* The run finalizes what it took open or sealed.
LEMMA EndedKept ==
  ASSUME Deletable = {}, Unattended, IInv, Aware, Rows, Target, SealKnown, Ended, [Next]_vars
  PROVE  Ended'
<1>1. /\ Control /\ delState \in [Events -> DelStates] /\ dl \in Events \cup {NoEvent}
  BY DEF IInv, TypeOK, DbType, RunType, DispatchInv
<1> SUFFICES ASSUME pc' = "finalize" PROVE Ended' BY DEF Ended
<1>2. dl' # NoEvent BY ControlStep DEF IInv, DispatchInv, TypeOK, Control
<1>3. CASE dl # NoEvent /\ UNCHANGED <<pc, dl, rowState>>
  <2>1. ~DeleteRecords BY UnattendedKept DEF Operator
  <2>2. delState'[dl] = delState[dl]
    BY <1>1, <1>3, <2>1, RowSteps
       DEF ContinueQueue, CancelRecords, DiscardRecords, MoveContext, NothingLeft,
           SealDelivery, Finalize, DispatchRaises, DeliveryDone, At, Goto
  <2> QED BY <1>3, <2>2 DEF Ended
<1>4. ASSUME NEW e \in Events, TakeDelivery(e), dl = NoEvent PROVE Ended'
  <2>1. /\ dl' = e /\ rowState' = delState[e] /\ delState' = delState /\ e \in queue
        /\ delTask[e] # NoTask /\ taskState[delTask[e]] \notin {"none", "paused"}
    BY <1>2, <1>4 DEF TakeDelivery, Oldest
  <2>2. delState[e] \in Live BY <2>1 DEF Aware
  <2> QED BY <2>1, <2>2 DEF Ended, Live
<1>5. ~SelectContexts /\ ~SealDelivery BY DEF SelectContexts, SealDelivery, Goto
<1>6. CASE PostPrompt
  <2>1. pc = "post" /\ dl # NoEvent /\ dl \in Events /\ UNCHANGED <<dl, delState>>
    BY <1>1, <1>6 DEF PostPrompt, Control
  <2>2. delState[dl] = "dispatching" BY <2>1 DEF SealKnown, Target, Rows
  <2> QED BY <2>1, <2>2 DEF Ended
<1>7. ASSUME NEW e \in Events, \/ RefreshEvent(e) \/ DispatchCancelled(e) \/ DropEvent(e)
                               \/ MoveContext(e) \/ CancelRecords(e) \/ CancelAbort(e)
      PROVE  FALSE
  BY <1>7 DEF RefreshEvent, DispatchCancelled, DropEvent, MoveContext, CancelRecords, CancelAbort,
              At, Goto
<1> QED BY <1>1, <1>2, <1>3, <1>4, <1>5, <1>6, <1>7, TurnSteps

\* Nothing of a delivery is left out of its prompt.
LEMMA BatchKept ==
  ASSUME CanOverflow = FALSE, IInv, Whole, Fed, Steady, Rooted, Batch, [Next]_vars, Control'
  PROVE  Batch'
<1>1. Control /\ dl \in Events \cup {NoEvent} BY DEF IInv, DispatchInv, TypeOK, RunType
<1>2. ASSUME dl # NoEvent PROVE carried'[dl] \subseteq carried[dl]
  <2>1. ASSUME NEW e \in carried'[dl], e \notin carried[dl] PROVE FALSE
    <3>1. ContinueQueue(e) BY <1>1, <1>2, <2>1, OpenGrows
    <3> QED BY <1>1, <1>2, <3>1 DEF ContinueQueue, At, Control, DispatchLabels
  <2> QED BY <2>1
<1>3. CASE dl # NoEvent /\ UNCHANGED <<pc, dl, todo, ctx>> BY <1>2, <1>3 DEF Batch
<1>4. ASSUME NEW e \in Events, TakeDelivery(e), dl' = e, dl = NoEvent PROVE Batch'
  <2>1. /\ carried' = carried /\ pc' \in {"refresh", "finalize"}
        /\ pc' = "refresh" => todo' = carried[e]
    BY <1>4, Domains DEF TakeDelivery, Goto
  <2> QED BY <1>4, <2>1 DEF Batch
<1>5. CASE dl # NoEvent /\ pc = "refresh" /\ pc' = pc /\ dl' = dl /\ todo' \cup ctx' = todo \cup ctx
  BY <1>2, <1>5 DEF Batch
<1>6. CASE SelectContexts
  <2>1. /\ pc = "refresh" /\ pc' = "move" /\ todo = {} /\ todo' = {} /\ ctx' = ctx
        /\ carried' = carried /\ dl' = dl
    BY <1>6 DEF SelectContexts, Goto
  <2> QED BY <2>1 DEF Batch
<1>7. CASE SealDelivery
  <2>1. pc = "move" /\ pc' = "post" /\ todo = {} /\ UNCHANGED <<todo, ctx, carried, dl>>
    BY <1>7 DEF SealDelivery, Goto
  <2> QED BY <2>1 DEF Batch
<1>8. CASE PostPrompt BY <1>8 DEF PostPrompt, Goto, Batch
<1>9. ASSUME NEW e \in Events PROVE ~MoveContext(e) BY DEF MoveContext, Whole, First
<1>10. CASE dl' = NoEvent BY <1>10 DEF Batch, Control
<1>11. CASE dl' # NoEvent
  BY <1>1, <1>3, <1>4, <1>5, <1>6, <1>7, <1>8, <1>9, <1>11, TurnGoesOn
<1> QED BY <1>10, <1>11

\* A start is recorded as delivered only after its first prompt.
LEMMA AnsweredKept ==
  ASSUME Deletable = {}, Unattended, IInv, Starting, Answered, [Next]_vars
  PROVE  Answered'
<1> SUFFICES ASSUME dl' = NoEvent, pc' \in {"cancel", "abort", "delivered"}
             PROVE  \/ evAction'[ev'] = "cancel"
                    \/ pc' = "delivered" /\ ev' \in startMsg'
  BY DEF Answered
<1>1. Control BY DEF IInv, DispatchInv
<1>2. CASE UNCHANGED <<runVars, eventVars, title, startMsg>> BY <1>2 DEF Answered
<1>3. ~EndPoll /\ ~PendingRaises BY DEF EndPoll, PendingRaises, EventDone, Goto
<1>4. ASSUME NEW e \in Events, PendingStep(e), dl = NoEvent PROVE evAction'[ev'] = "cancel"
  <2>1. EventCancel(e) \/ CancelRecords(e) \/ CancelAbort(e)
    BY <1>4 DEF PendingStep, TakeEvent, EventContinue, EventStart, EventUnmapped,
                EventClosed, EventDelivered, ContinueCheck, ContinueResume, ContinueQueue,
                ContinueQueued, Goto, EventDone, At
  <2>2. UNCHANGED <<ev, evAction>> /\ ev = e /\ (evAction[e] = "cancel" \/ pc \in {"cancel", "abort"})
    BY <2>1 DEF EventCancel, CancelRecords, CancelAbort, At
  <2> QED BY <1>4, <2>2 DEF Answered
<1>5. ASSUME NEW e \in Events, StartStep(e) PROVE pc' = "delivered" /\ ev' \in startMsg'
  <2>1. AdoptMapping(e) \/ StartActivate(e)
    BY <1>5 DEF StartStep, StartPrepare, StartRecover, AdoptTask, StartConfirm, StartCreate,
                StartSave, StartPrompt, StartMap, DiscardSession, DiscardRecords,
                DiscardWorkspace, Goto, EventDone
  <2> QED BY <2>1 DEF AdoptMapping, StartActivate, At, Goto, Starting
<1> QED BY <1>1, <1>2, <1>3, <1>4, <1>5, PhaseSteps DEF PendingLabels

\* In every reachable state.
LEMMA ReachInvariance ==
  ASSUME Deletable = {}, OnlyContinues, CanOverflow = FALSE
  PROVE  Spec => [](StartInv /\ FeedInv /\ QuietInv /\ CarryInv /\ ReachInv)
<1>1. Init => ReachInv
  BY DEF Init, ReachInv, SealKnown, Filled, Posted, Batch, Ended, Answered
<1>2. IInv /\ IInv' /\ QuietInv /\ StartInv /\ FeedInv /\ CarryInv /\ ReachInv /\ [Next]_vars
        => ReachInv'
  <2> SUFFICES ASSUME IInv, IInv', QuietInv, StartInv, FeedInv, CarryInv, ReachInv, [Next]_vars
               PROVE  ReachInv'
    OBVIOUS
  <2>1. /\ Whole /\ Aware /\ Unattended /\ Starting /\ Fed /\ Steady /\ Rows /\ Target
        /\ Rooted /\ Control'
    BY DEF QuietInv, StartInv, FeedInv, CarryInv, IInv, DispatchInv
  <2>2. SealKnown /\ Filled /\ Batch /\ Ended /\ Answered BY DEF ReachInv
  <2>3. SealKnown' BY <2>2, SealKnownKept
  <2>4. Filled' BY <2>1, <2>2, FilledKept
  <2>5. Batch' BY <2>1, <2>2, BatchKept
  <2>6. Ended' BY <2>1, <2>2, EndedKept
  <2>7. Answered' BY <2>1, <2>2, AnsweredKept
  <2> QED BY <2>3, <2>4, <2>5, <2>6, <2>7 DEF ReachInv
<1>3. Spec => [](StartInv /\ FeedInv) BY FeedInvariance
<1>4. Spec => []CarryInv BY CarryInvariance
<1>5. Spec => []QuietInv BY QuietInvariance
<1>6. Spec => []ReachInv BY <1>1, <1>2, <1>3, <1>4, <1>5, Invariance, PTL DEF Spec
<1> QED BY <1>3, <1>4, <1>5, <1>6, PTL

\* What becomes delivered an agent has been given.
LEMMA ReachesAgent ==
  ASSUME IInv, StartInv, FeedInv, ReachInv, [Next]_vars,
         NEW e \in Events, evState[e] # "delivered", evState'[e] = "delivered"
  PROVE  \/ Prompted(e) \/ evAction[e] = "cancel"
         \/ pc = "finalize" /\ rowState = "pending"
<1>1. /\ DbType /\ Control /\ Message /\ dl \in Events \cup {NoEvent}
      /\ Steady /\ Target /\ Rows /\ Attended /\ Filled /\ Ended /\ Answered
  BY DEF IInv, TypeOK, RunType, DispatchInv, FeedInv, ReachInv
<1>2. CASE EventDelivered(e)
  BY <1>1, <1>2 DEF EventDelivered, At, Answered, Prompted
<1>3. CASE Finalize /\ e \in carried[dl]
  <2> SUFFICES ASSUME rowState # "pending" PROVE Prompted(e) BY <1>3 DEF Finalize
  <2>1. dl \in Events /\ Reached(dl) /\ delState[dl] = "dispatching"
    BY <1>1, <1>3 DEF Finalize, Control, Message, Ended
  <2>2. delTask[dl] \in Tasks /\ sess[delTask[dl]] # "none"
    BY <1>1, <2>1, Domains DEF Target, Rows, Attended, DbType
  <2>3. e \in contMsg[delTask[dl]][dl]
    BY <1>1, <1>3, <2>1, <2>2, Domains DEF Reached, Filled
  <2> QED BY <2>1, <2>2, <2>3 DEF Prompted
<1>4. ~DispatchCancelled(e) BY <1>1, Domains DEF DispatchCancelled, At, Steady
<1> QED BY <1>1, <1>2, <1>3, <1>4, StateComes
        DEF Discover, RefreshEvent, EventUnmapped, EventClosed, ContinueQueued, StartConfirm,
            UpdateEvent, DbType

\* What is recorded as delivered an agent was given: a start as the first prompt
\* of its session and feedback in the message of its delivery, wherever runs are
\* killed and calls fail, while feedback always fits its prompt and no comment is
\* withdrawn or edited into another command.
THEOREM DeliveredReached ==
  ASSUME Deletable = {}, OnlyContinues, CanOverflow = FALSE PROVE Spec => DeliveredReachedAgent
<1>1. IInv /\ StartInv /\ FeedInv /\ ReachInv /\ [Next]_vars =>
        [\A e \in Events : evState[e] # "delivered" /\ evState'[e] = "delivered" =>
           \/ Prompted(e) \/ evAction[e] = "cancel"
           \/ pc = "finalize" /\ rowState = "pending"]_vars
  BY ReachesAgent
<1> QED BY <1>1, ReachInvariance, Invariance, PTL DEF Spec, DeliveredReachedAgent
-----------------------------------------------------------------------------
(* Comments are given once *)

\* A comment is carried by its own delivery only, so it is in no other message,
\* and a comment that is in one is not a start.
OwnText ==
  /\ \A d \in Events : carried[d] \ Reviews \subseteq {d}
  /\ (todo \cup ctx) \ Reviews \subseteq {dl} \/ dl = NoEvent
  /\ dl = NoEvent => ctx = {}
  /\ \A t \in Tasks, d \in Events : /\ contMsg[t][d] \ Reviews \subseteq {d}
                                    /\ contMsg[t][d] \subseteq Meant
  /\ stray = {}

\* What was collected goes with its delivery.
LEMMA TurnEnds ==
  ASSUME Control, [Next]_vars, dl' = NoEvent
  PROVE  ctx' = {} \/ (dl = NoEvent /\ ctx' = ctx)
<1> USE DEF Control, DispatchLabels, Goto, At, EventDone, DeliveryDone
<1>1. CASE UNCHANGED <<dl, ctx>> BY <1>1
<1>2. CASE Environment
  BY <1>1, <1>2 DEF Environment, Post, Edit, Age, AgentWorks, PersonPrompts
<1>3. CASE StartRun \/ EndPoll \/ \E e \in Events : Discover(e)
  BY <1>1, <1>3 DEF StartRun, EndPoll, Discover
<1>4. ASSUME NEW e \in Events, PendingStep(e) PROVE UNCHANGED <<dl, ctx>>
  BY <1>4 DEF PendingStep, TakeEvent, EventCancel, EventContinue, EventStart,
              EventUnmapped, EventClosed, EventDelivered, ContinueCheck, ContinueResume,
              ContinueQueue, ContinueQueued, CancelRecords, CancelAbort
<1>5. ASSUME NEW e \in Events, StartStep(e) PROVE UNCHANGED <<dl, ctx>>
  BY <1>5 DEF StartStep, StartPrepare, StartRecover, AdoptTask, AdoptMapping,
              StartConfirm, StartCreate, StartSave, StartPrompt, StartMap,
              StartActivate, DiscardSession, DiscardRecords, DiscardWorkspace
<1>6. ASSUME NEW e \in Events, DispatchStep(e) PROVE dl = NoEvent /\ ctx' = ctx
  BY <1>6, Domains DEF DispatchStep, TakeDelivery, RefreshEvent, DispatchCancelled, DropEvent,
              MoveContext
<1>7. CASE DispatchLoop
  BY <1>7 DEF DispatchLoop, NothingLeft, SelectContexts, SealDelivery, PostPrompt, Finalize
<1>8. CASE EndPending \/ EndDispatch \/ EndComplete \/ UpkeepLoop \/ EndRun
  BY <1>1, <1>8 DEF EndPending, EndDispatch, EndComplete, UpkeepLoop, RemoveWorkspace,
              Collected, EndRun, UpkeepFrame
<1>9. CASE \E t \in Tasks : UpkeepStep(t)
  BY <1>1, <1>9 DEF UpkeepStep, CompleteTask, RetainTask, BlockTask, CollectTask, UpkeepFrame
<1>10. CASE Crash \/ PendingRaises \/ DispatchRaises
  BY <1>1, <1>10 DEF Crash, Idle, PendingRaises, DispatchRaises
<1>11. CASE CleanupRaises BY <1>1, <1>11 DEF CleanupRaises, UpkeepFrame
<1>12. CASE \/ \E q \in Subjects, u \in Tasks : RegisterPr(q, u)
            \/ Operator \/ DeleteFails
  BY <1>1, <1>12 DEF RegisterPr, Operator, DeleteCheck, DeleteWorkspace, DeleteSession,
              DeleteRecords, DeleteFails
<1>13. CASE UNCHANGED vars BY <1>1, <1>13 DEF vars, storeVars
<1> QED BY StepCases, <1>1, <1>2, <1>3, <1>4, <1>5, <1>6, <1>7, <1>8, <1>9, <1>10, <1>11, <1>12, <1>13

\* A comment stays with its own delivery.
LEMMA OwnTextKept ==
  ASSUME IInv, Asked, Gathered, Fresh, Starting, Fed, Steady, OwnText, [Next]_vars
  PROVE  OwnText'
<1>1. DbType /\ WorldType /\ Control /\ dl \in Events \cup {NoEvent}
  BY DEF IInv, TypeOK, RunType, DispatchInv
<1>2. ASSUME NEW d \in Events, NEW e \in carried'[d] \ Reviews PROVE e = d
  <2>1. CASE e \in carried[d] BY <2>1 DEF OwnText
  <2>2. CASE e \notin carried[d]
    <3>1. e \in Events /\ (ContinueQueue(e) \/ MoveContext(e)) BY <2>2, CarriedComes
    <3>2. CASE ContinueQueue(e)
      BY <1>1, <1>2, <2>2, <3>1, <3>2 DEF ContinueQueue, QueueDelivery, DbType
    <3>3. CASE MoveContext(e)
      BY <1>1, <1>2, <2>2, <3>1, <3>3 DEF MoveContext, MoveDeliveryEvent, DbType
    <3> QED BY <3>1, <3>2, <3>3
  <2> QED BY <2>1, <2>2
<1>3. (todo' \cup ctx') \ Reviews \subseteq {dl'} \/ dl' = NoEvent
  <2> SUFFICES ASSUME dl' # NoEvent PROVE (todo' \cup ctx') \ Reviews \subseteq {dl'} OBVIOUS
  <2>1. CASE dl # NoEvent /\ dl' = dl /\ todo' \cup ctx' \subseteq todo \cup ctx
    BY <2>1 DEF OwnText
  <2>2. ASSUME NEW e \in Events, dl = NoEvent, TakeDelivery(e), dl' = e
        PROVE  (todo' \cup ctx') \ Reviews \subseteq {dl'}
    <3>1. ctx' = {} BY <2>2 DEF TakeDelivery, OwnText
    <3>2. todo' \in {{}, carried[e]} BY <2>2 DEF TakeDelivery, Fresh
    <3> QED BY <2>2, <3>1, <3>2 DEF OwnText
  <2>3. ASSUME SelectContexts \/ SealDelivery \/ PostPrompt \/ \E e \in Events : MoveContext(e)
        PROVE  todo' \cup ctx' \subseteq todo \cup ctx
    BY <2>3 DEF SelectContexts, SealDelivery, PostPrompt, MoveContext
  <2> QED BY <1>1, <2>1, <2>2, <2>3, TurnGoesOn
<1>4. dl' = NoEvent => ctx' = {} BY <1>1, TurnEnds DEF OwnText
<1>5. Meant \subseteq Meant' BY MeantStays
<1>6. ASSUME NEW t \in Tasks, NEW d \in Events
      PROVE  contMsg'[t][d] \ Reviews \subseteq {d} /\ contMsg'[t][d] \subseteq Meant'
  <2>1. CASE contMsg'[t][d] \in {{}, contMsg[t][d]} BY <1>5, <2>1 DEF OwnText
  <2>2. CASE contMsg'[t][d] \notin {{}, contMsg[t][d]}
    <3>1. PostPrompt /\ t = delTask[dl] /\ d = dl BY <1>1, <2>2, OnlyPosts
    <3>2. contMsg'[t][d] = ctx /\ dl # NoEvent
      BY <1>1, <3>1 DEF PostPrompt, WorldType, Control
    <3> QED BY <1>5, <3>1, <3>2 DEF OwnText, Gathered
  <2> QED BY <2>1, <2>2
<1>7. stray' = {}
  <2>1. ASSUME NEW x \in Events, StartCreate(x) PROVE stray' = {}
    <3>1. x \notin startMsg BY <2>1 DEF Starting, StartCreate, At, UnpromptedLabels
    <3> QED BY <2>1, <3>1 DEF StartCreate, OwnText
  <2> QED BY <2>1, MessageSteps
          DEF DiscardSession, DeleteSession, DropSession, PostPrompt, OwnText
<1> QED BY <1>2, <1>3, <1>4, <1>6, <1>7 DEF OwnText

\* How often an agent was given the text of event e.
Given(e) ==
  Cardinality({x \in Tasks \X Events : e \in contMsg[x[1]][x[2]]})
    + Cardinality({e} \cap startMsg) + Cardinality({e} \cap stray)

\* A comment was given to an agent as the first prompt of a session, or in the
\* message of its own delivery.
LEMMA OwnGiven ==
  ASSUME Begun, Sealed, OwnText, IInv, NEW e \in Events \ Reviews PROVE Given(e) <= 1
<1> DEFINE In == {x \in Tasks \X Events : e \in contMsg[x[1]][x[2]]}
<1>1. In \subseteq {<<delTask[e], e>>}
  <2> SUFFICES ASSUME NEW t \in Tasks, NEW d \in Events, e \in contMsg[t][d]
               PROVE  t = delTask[e] /\ d = e
    OBVIOUS
  <2> QED BY DEF OwnText, Sealed
<1>2. IsFiniteSet(In) /\ Cardinality(In) <= 1 /\ Cardinality(In) \in Nat
  <2>1. IsFiniteSet({<<delTask[e], e>>}) /\ Cardinality({<<delTask[e], e>>}) = 1
    BY FS_Singleton
  <2> QED BY <1>1, <2>1, FS_Subset, FS_CardinalityType
<1>3. {e} \cap stray = {} BY DEF OwnText
<1>4. Cardinality({}) = 0 BY FS_EmptySet
<1>5. CASE e \in startMsg
  <2>1. e \notin Meant BY <1>5 DEF Begun, Meant, StartAction, StartCommands
  <2>2. In = {} BY <2>1 DEF OwnText
  <2>3. Cardinality({e} \cap startMsg) = 1
    <3>1. {e} \cap startMsg = {e} BY <1>5
    <3> QED BY <3>1, FS_Singleton
  <2> QED BY <1>3, <1>4, <2>2, <2>3 DEF Given
<1>6. CASE e \notin startMsg
  <2>1. {e} \cap startMsg = {} BY <1>6
  <2> QED BY <1>2, <1>3, <1>4, <2>1 DEF Given
<1> QED BY <1>5, <1>6

\* The text of a comment is given to agents at most once, wherever runs are
\* killed and calls fail, while nobody cancels and no comment is withdrawn or
\* edited into another command.
THEOREM CommentsGivenOnce ==
  ASSUME Deletable = {}, NoCancels
  PROVE  Spec => [](\A e \in Events \ Reviews : Given(e) <= 1)
<1>1. Init => OwnText
  BY DEF Init, OwnText
<1>2. IInv /\ StartInv /\ FeedInv /\ OwnText /\ [Next]_vars => OwnText'
  BY OwnTextKept DEF StartInv, FeedInv
<1>3. IInv /\ StartInv /\ SealInv /\ OwnText => \A e \in Events \ Reviews : Given(e) <= 1
  BY OwnGiven DEF StartInv, SealInv
<1>4. Spec => [](StartInv /\ FeedInv /\ SealInv) BY SealInvariance
<1> QED BY <1>1, <1>2, <1>3, <1>4, Invariance, PTL DEF Spec

\* What is posted stays linked to its delivery, and so does what is about to be.
Texts ==
  /\ \A t \in Tasks, d \in Events : contMsg[t][d] \subseteq carried[d]
  /\ dl # NoEvent => todo \cup ctx \subseteq carried[dl]

LEMMA TextsKept ==
  ASSUME Deletable = {}, Unattended, IInv, Whole, Fresh, Starting, Fed, Steady, Rows, OwnText,
         Texts, [Next]_vars
  PROVE  Texts'
<1>1. WorldType /\ Control /\ dl \in Events \cup {NoEvent}
  BY DEF IInv, TypeOK, RunType, DispatchInv
<1>2. ASSUME NEW d \in Events PROVE carried[d] \subseteq carried'[d]
  BY CarriedStays
<1>3. ASSUME NEW t \in Tasks, NEW d \in Events PROVE contMsg'[t][d] \subseteq carried'[d]
  <2>1. CASE contMsg'[t][d] \in {{}, contMsg[t][d]} BY <1>2, <2>1 DEF Texts
  <2>2. CASE contMsg'[t][d] \notin {{}, contMsg[t][d]}
    <3>1. PostPrompt /\ t = delTask[dl] /\ d = dl BY <1>1, <2>2, OnlyPosts
    <3>2. contMsg'[t][d] = ctx /\ dl # NoEvent BY <1>1, <3>1 DEF PostPrompt, WorldType, Control
    <3> QED BY <1>2, <3>1, <3>2 DEF Texts
  <2> QED BY <2>1, <2>2
<1>4. ASSUME dl' # NoEvent PROVE todo' \cup ctx' \subseteq carried'[dl']
  <2>1. CASE dl # NoEvent /\ dl' = dl /\ todo' \cup ctx' \subseteq todo \cup ctx
    BY <1>1, <1>2, <2>1 DEF Texts
  <2>2. ASSUME NEW e \in Events, dl = NoEvent, TakeDelivery(e), dl' = e
        PROVE  todo' \cup ctx' \subseteq carried'[dl']
    <3>1. ctx' = {} BY <2>2 DEF TakeDelivery, OwnText
    <3>2. todo' \in {{}, carried[e]} BY <2>2 DEF TakeDelivery, Fresh
    <3> QED BY <1>2, <2>2, <3>1, <3>2
  <2>3. ASSUME SelectContexts \/ SealDelivery \/ PostPrompt \/ \E e \in Events : MoveContext(e)
        PROVE  todo' \cup ctx' \subseteq todo \cup ctx
    BY <2>3 DEF SelectContexts, SealDelivery, PostPrompt, MoveContext
  <2> QED BY <1>1, <1>4, <2>1, <2>2, <2>3, TurnGoesOn
<1> QED BY <1>3, <1>4 DEF Texts

\* What is given again is a review another delivery carries, or was given to
\* another session, or as a first prompt.
LEMMA AgainGiven ==
  ASSUME IInv, Target, OwnText, Texts, NEW e \in Events, GivenAgain(e)
  PROVE  Shared(e) \/ BroughtBack(e) \/ StartedBefore(e)
<1> SUFFICES ASSUME ~StartedBefore(e) PROVE Shared(e) \/ BroughtBack(e) OBVIOUS
<1>1. /\ pc = "post" /\ e \in ctx /\ dl # NoEvent /\ dl \in Events /\ ~Posted(dl)
  BY DEF GivenAgain, IInv, TypeOK, RunType, DispatchInv, Control, Message
<1>2. PICK t \in Tasks, d \in Events : e \in contMsg[t][d]
  BY DEF GivenAgain, Prompted, StartedBefore
<1>3. CASE d = dl
  <2>1. delTask[dl] # NoTask BY <1>1 DEF Target
  <2>2. t # delTask[dl] BY <1>1, <1>2, <1>3, <2>1 DEF Posted
  <2> QED BY <1>2, <1>3, <2>2 DEF BroughtBack
<1>4. CASE d # dl
  <2>1. e \in carried[d] BY <1>2 DEF Texts
  <2>2. CASE e \in Reviews BY <1>4, <2>1, <2>2 DEF Shared
  <2>3. CASE e \notin Reviews
    <3>1. e = d BY <2>1, <2>3 DEF OwnText
    <3>2. e = dl BY <1>1, <2>3 DEF OwnText
    <3> QED BY <1>4, <3>1, <3>2
  <2> QED BY <2>2, <2>3
<1> QED BY <1>3, <1>4

\* The text of an event, a review included, is posted again only where the code
\* has the three exceptions, wherever runs are killed and calls fail, whatever is
\* cancelled and registered, while feedback always fits its prompt and no comment
\* is withdrawn or edited into another command.
THEOREM TextPostedOnce ==
  ASSUME Deletable = {}, OnlyContinues, CanOverflow = FALSE PROVE Spec => PromptedOnce
<1>1. Init => OwnText /\ Texts
  BY DEF Init, OwnText, Texts
<1>2. IInv /\ StartInv /\ FeedInv /\ QuietInv /\ OwnText /\ Texts /\ [Next]_vars
        => (OwnText /\ Texts)'
  BY OwnTextKept, TextsKept DEF StartInv, FeedInv, QuietInv
<1>3. IInv /\ FeedInv /\ OwnText /\ Texts /\ [Next]_vars =>
        [\A e \in Events :
           GivenAgain(e) => Shared(e) \/ BroughtBack(e) \/ StartedBefore(e)]_vars
  BY AgainGiven DEF FeedInv
<1>4. Spec => [](StartInv /\ FeedInv) BY FeedInvariance
<1>5. Spec => []QuietInv BY QuietInvariance
<1> QED BY <1>1, <1>2, <1>3, <1>4, <1>5, Invariance, PTL DEF Spec, PromptedOnce
-----------------------------------------------------------------------------
(* The order within a subject *)

\* No comment starts a task.
NoStarts == InitialCommands \cap StartCommands = {}

\* What a comment starts stays as it was when it was prepared: no comment
\* changes, and none is on a pull request, whose head could move.
Unmoved == MaxEdits = 0 /\ \A e \in Events \ Reviews : SubjectOf[e] \notin PullRequests

\* In the first case only reviews are started.
Startless ==
  /\ \A e \in Events \ Reviews :
       /\ github[e] \in StartCommands => evState[e] = "delivered"
       /\ evAction[e] \in StartCommands => evState[e] \in {"unseen", "delivered", "ignored"}
  /\ pc \in StartLabels \cup DiscardLabels => ev \in Reviews

\* In the second, GitHub says what was taken for a command.
Settling ==
  /\ \A e \in Events \ Reviews : evState[e] = "pending" => evAction[e] = github[e]
  /\ pc \in DiscardLabels => ev \in Reviews

\* In both, no comment that stays pending is passed over.
Undiscarded == pc \in DiscardLabels => ev \in Reviews

Blocked(s) == s \in blockedSub \/ mapping[s] \in blockedSess

\* Review x may be passed over: it waits for its pull request to be registered.
Passable(x) == x \in Reviews /\ Unregistered(x)

\* What was taken up comes before what is in hand and to come.
Before(x) == (ev # NoEvent => x < ev) /\ \A y \in todo : x < y

\* An event that is pending while the run is in process_pending_events is still
\* to come, or in hand, or left for the next run with its subject, or a review
\* that waits; and what is in hand comes before all that is to come.
Waits ==
  dl = NoEvent /\ pc \in {"pending"} \cup PendingLabels =>
    \A x \in Events : evState[x] = "pending" =>
      \/ x \in todo \/ x = ev
      \/ /\ Before(x)
         /\ Blocked(SubjectOf[x]) \/ Passable(x)
InOrder ==
  dl = NoEvent /\ pc \in PendingLabels =>
    /\ \A y \in todo : ev <= y
    /\ \A x \in Events :
         evState[x] = "pending" /\ SubjectOf[x] = SubjectOf[ev] =>
           x \in todo \/ x = ev \/ (Before(x) /\ Passable(x))

\* A review never says anything else, and is started only while its pull request
\* has no session.
Reviewed ==
  /\ \A e \in Reviews : github[e] \in {"unposted", "continue", "none"}
  /\ \A e \in Reviews : evState[e] = "pending" => evAction[e] \notin StartCommands
  /\ dl = NoEvent /\ pc \in PendingLabels /\ ev \in Reviews => evAction[ev] \notin StartCommands
  /\ pc \in StartLabels \cup DiscardLabels /\ ev \in Reviews => mapping[SubjectOf[ev]] = NoTask

\* Where the run is in start_task, it came there from the label before, and from
\* "event" with a start.
LEMMA StartComes ==
  ASSUME Deletable = {}, Unattended, Control, Control', [Next]_vars,
         pc' \in StartLabels \cup DiscardLabels
  PROVE  \/ ev' = ev /\ pc \in StartLabels \cup DiscardLabels
                     /\ (pc' \in DiscardLabels => pc \in DiscardLabels \/ StartConfirm(ev))
         \/ ev' = ev /\ EventStart(ev) /\ pc' = "start" /\ ev \in Events
<1> USE DEF StartLabels, DiscardLabels
<1>1. dl' = NoEvent BY DEF Control, DispatchLabels
<1>2. CASE UNCHANGED <<runVars, eventVars, title, startMsg>> BY <1>2
<1>3. ~EndPoll /\ ~PendingRaises BY DEF EndPoll, PendingRaises, EventDone, Goto
<1>4. ASSUME NEW e \in Events, PendingStep(e)
      PROVE  ev' = ev /\ EventStart(ev) /\ pc' = "start" /\ ev \in Events
  <2>1. EventStart(e)
    BY <1>4 DEF PendingStep, TakeEvent, EventCancel, EventContinue, EventUnmapped,
                EventClosed, EventDelivered, ContinueCheck, ContinueResume, ContinueQueue,
                ContinueQueued, CancelRecords, CancelAbort, Goto, EventDone, At
  <2> QED BY <2>1 DEF EventStart, At, Goto
<1>5. ASSUME NEW e \in Events, StartStep(e)
      PROVE  ev' = ev /\ pc \in StartLabels \cup DiscardLabels
                      /\ (pc' \in DiscardLabels => pc \in DiscardLabels \/ StartConfirm(ev))
  <2>1. CASE StartConfirm(e) BY <2>1 DEF StartConfirm, At
  <2>2. CASE ~StartConfirm(e)
    BY <1>5, <2>2 DEF StartStep, StartPrepare, StartRecover, AdoptTask, AdoptMapping,
                StartCreate, StartSave, StartPrompt, StartMap,
                StartActivate, DiscardSession, DiscardRecords, DiscardWorkspace, Goto, EventDone, At
  <2> QED BY <2>1, <2>2
<1> QED BY <1>1, <1>2, <1>3, <1>4, <1>5, PhaseSteps DEF PendingLabels

\* Feedback that is taken up to be dispatched is no start.
LEMMA NoRefreshedStart ==
  ASSUME IInv, Asked, Gathered, NEW e \in Events \ Reviews, RefreshEvent(e)
  PROVE  github[e] \in {"continue", "cancel"}
<1>1. dl # NoEvent /\ e \in todo BY DEF RefreshEvent, First, IInv, DispatchInv, Control
<1> QED BY <1>1 DEF Gathered, Meant, Asked

\* Only reviews are started.
LEMMA StartlessKept ==
  ASSUME NoStarts, Deletable = {}, NoRestarts, IInv, Control', DbType', Unattended, Asked, Gathered,
         InHand, Startless, [Next]_vars
  PROVE  Startless'
<1>1. /\ DbType /\ Control /\ github \in [Events -> Contents \cup {"unposted"}] /\ edits \in Nat
  BY DEF IInv, TypeOK, WorldType, DispatchInv
<1>2. ASSUME NEW e \in Events \ Reviews, RefreshEvent(e) PROVE github[e] \notin StartCommands
  BY <1>2, NoRefreshedStart DEF StartCommands
<1>3. ASSUME NEW e \in Events, pc \in PendingLabels, dl = NoEvent, ev = e
      PROVE  /\ evState[e] \in {"pending", "ignored"}
             /\ e \notin Reviews => evState[e] = "pending"
  BY <1>3 DEF InHand, Startless
<1>4. ASSUME NEW e \in Events \ Reviews, github'[e] \in StartCommands
      PROVE  evState'[e] = "delivered"
  <2>1. CASE github'[e] = github[e]
    <3>1. evState[e] = "delivered" BY <1>4, <2>1 DEF Startless
    <3> SUFFICES ASSUME evState'[e] # evState[e] PROVE FALSE BY <3>1
    <3>2. ~Discover(e) BY <3>1 DEF Discover
    <3>3. ~RefreshEvent(e) BY <1>2, <1>4, <2>1
    <3>4. DispatchCancelled(e) => evState'[e] = "delivered"
      BY <1>1 DEF DispatchCancelled, UpdateEvent, DbType
    <3>5. ~(pc \in PendingLabels /\ dl = NoEvent /\ ev = e) BY <1>3, <3>1
    <3> QED BY <1>1, <3>1, <3>2, <3>3, <3>4, <3>5, StateComes
            DEF EventUnmapped, EventClosed, EventDelivered, ContinueQueued, StartConfirm,
                PendingRaises, At, PendingLabels, Control, DispatchLabels
  <2>2. CASE github'[e] # github[e]
    <3>1. ASSUME NEW x \in Events, Post(x) PROVE github'[e] \notin StartCommands
      <4>1. x = e BY <1>1, <2>2, <3>1 DEF Post
      <4>2. PICK c \in InitialCommands : github' = [github EXCEPT ![x] = c]
        BY <3>1, <4>1 DEF Post
      <4> QED BY <1>1, <4>1, <4>2 DEF NoStarts
    <3>2. ASSUME NEW x \in Events, Edit(x) PROVE github'[e] \notin StartCommands
      <4>1. EditCommands \subseteq {"continue", "cancel"}
        BY <1>1, <3>2, BridgeAssumption DEF Edit, NoRestarts
      <4>2. PICK c \in EditCommands : github' = [github EXCEPT ![x] = c] BY <3>2 DEF Edit
      <4> QED BY <1>1, <2>2, <4>1, <4>2 DEF StartCommands
    <3> QED BY <1>4, <2>2, <3>1, <3>2, TextSteps
  <2> QED BY <2>1, <2>2
<1>5. ASSUME NEW e \in Events \ Reviews, evAction'[e] \in StartCommands
      PROVE  evState'[e] \in {"unseen", "delivered", "ignored"}
  <2>1. CASE evAction'[e] # evAction[e]
    <3>1. github'[e] \in StartCommands BY <1>1, <1>5, <2>1, ActionComes
    <3> QED BY <1>4, <3>1
  <2>2. CASE evAction'[e] = evAction[e]
    <3>1. evState[e] \in {"unseen", "delivered", "ignored"} BY <1>5, <2>2 DEF Startless
    <3> SUFFICES ASSUME evState'[e] # evState[e], evState'[e] \in {"pending", "queued"} PROVE FALSE
      <4>1. evState'[e] \in EventStates BY DEF DbType
      <4> QED BY <3>1, <4>1 DEF EventStates
    <3>2. ~Discover(e)
      <4> SUFFICES ASSUME Discover(e) PROVE FALSE OBVIOUS
      <4>1. evState'[e] = "pending" => evAction'[e] = github[e] /\ evState[e] # "delivered"
        BY <1>1 DEF Discover, UpdateEvent, DbType
      <4>2. evState'[e] \in {"pending", "ignored"} BY <1>1 DEF Discover, UpdateEvent, DbType
      <4> QED BY <1>5, <3>1, <4>1, <4>2 DEF Startless
    <3>3. ~RefreshEvent(e)
      <4> SUFFICES ASSUME RefreshEvent(e) PROVE FALSE OBVIOUS
      <4>1. e \in todo /\ dl # NoEvent BY <1>1 DEF RefreshEvent, First, Control
      <4>2. evAction[e] \in {"continue", "cancel"} BY <4>1 DEF Gathered, Meant
      <4> QED BY <1>5, <2>2, <4>2 DEF StartCommands
    <3>4. ~(pc \in PendingLabels /\ dl = NoEvent /\ ev = e) BY <1>3, <3>1
    <3> QED BY <1>1, <3>2, <3>3, <3>4, StateComes
            DEF EventUnmapped, EventClosed, EventDelivered, ContinueQueued, StartConfirm,
                DispatchCancelled, UpdateEvent, DbType,
                PendingRaises, At, PendingLabels, Control, DispatchLabels
  <2> QED BY <2>1, <2>2
<1>6. ASSUME pc' \in StartLabels \cup DiscardLabels PROVE ev' \in Reviews
  <2>1. CASE ev' = ev /\ pc \in StartLabels \cup DiscardLabels BY <2>1 DEF Startless
  <2>2. CASE ev' = ev /\ EventStart(ev) /\ ev \in Events
    <3>1. evState[ev] = "pending" \/ ev \in Reviews
      BY <1>1, <1>3, <2>2 DEF EventStart, At, PendingLabels, Control, DispatchLabels
    <3>2. ev \notin Reviews => evAction[ev] \in StartCommands BY <2>2 DEF EventStart
    <3> QED BY <2>2, <3>1, <3>2 DEF Startless
  <2> QED BY <1>1, <1>6, <2>1, <2>2, StartComes
<1> QED BY <1>4, <1>5, <1>6 DEF Startless

\* What is pending GitHub still says.
LEMMA SettlingKept ==
  ASSUME Unmoved, Deletable = {}, IInv, Control', Unattended, InHand, Starting, Settling, [Next]_vars
  PROVE  Settling'
<1>1. /\ DbType /\ Control /\ github \in [Events -> Contents \cup {"unposted"}] /\ edits \in Nat
      /\ \A e \in Events : evState[e] # "unseen" => e \in Known
  BY DEF IInv, TypeOK, WorldType, DispatchInv, EventsKnown
<1>2. ASSUME NEW e \in Events \ Reviews, evState'[e] = "pending" PROVE evAction'[e] = github'[e]
  <2>1. CASE evState[e] = "pending"
    <3>1. evAction[e] = github[e] /\ github[e] # "unposted"
      BY <1>1, <2>1 DEF Settling, Known
    <3>2. github'[e] = github[e]
      BY <1>1, <3>1, TextSteps, BridgeAssumption DEF Post, Edit, Unmoved
    <3> QED BY <1>1, <3>1, <3>2, ActionComes
  <2>2. CASE evState[e] # "pending"
    <3>1. ~(PendingRaises /\ ev = e)
      BY <2>2 DEF PendingRaises, InHand, Settling
    <3>2. Discover(e) \/ RefreshEvent(e)
      BY <1>1, <1>2, <2>2, <3>1, StateComes
         DEF DispatchCancelled, EventUnmapped, EventClosed, EventDelivered, ContinueQueued,
             StartConfirm, UpdateEvent, DbType
    <3>3. evAction'[e] = github[e] /\ github' = github
      BY <1>1, <1>2, <2>2, <3>2 DEF Discover, RefreshEvent, UpdateEvent, DbType
    <3> QED BY <3>3
  <2> QED BY <2>1, <2>2
<1>3. ASSUME pc' \in DiscardLabels PROVE ev' \in Reviews
  <2>1. CASE ev' = ev /\ pc \in DiscardLabels BY <2>1 DEF Settling
  <2>2. CASE ev' = ev /\ StartConfirm(ev)
    <3> SUFFICES ASSUME ev \notin Reviews PROVE FALSE BY <2>2
    <3>1. pc = "confirm" /\ ev # NoEvent /\ dl = NoEvent
      BY <1>1, <2>2 DEF StartConfirm, At, Control, DispatchLabels
    <3>2. ev \in Events BY <3>1 DEF IInv, TypeOK, RunType
    <3>3. evState[ev] = "pending" BY <3>1 DEF InHand, PendingLabels, DiscardLabels
    <3>4. github[ev] = evAction[ev] /\ evAction[ev] = StartAction(ev) /\ StartAction(ev) \in StartCommands
      BY <3>1, <3>2, <3>3 DEF Settling, Starting, StartLabels, StartAction
    <3>5. SubjectOf[ev] \notin PullRequests BY <3>2 DEF Unmoved
    <3>6. pc' = "create"
      BY <2>2, <3>4, <3>5 DEF StartConfirm, StartCommands, Goto
    <3> QED BY <1>3, <3>6 DEF DiscardLabels
  <2>3. StartLabels \cap DiscardLabels = {} /\ "start" \notin DiscardLabels
    BY DEF StartLabels, DiscardLabels
  <2> QED BY <1>1, <1>3, <2>1, <2>2, <2>3, StartComes
<1> QED BY <1>2, <1>3 DEF Settling

\* The subject of an event that is not in hand keeps its session during
\* process_pending_events.
LEMMA SubjectStays ==
  ASSUME Deletable = {}, Unattended, Mapped, Starting, IInv, [Next]_vars, pc # "rest",
         NEW s \in Subjects, ev # NoEvent => SubjectOf[ev] # s
  PROVE  mapping'[s] = mapping[s]
<1>1. DbType BY DEF IInv, TypeOK
<1>2. ASSUME NEW e \in Events, AdoptMapping(e) \/ StartMap(e) PROVE mapping'[s] = mapping[s]
  BY <1>1, <1>2, Domains DEF AdoptMapping, StartMap, ActivateMapping, At, DbType
<1>3. ASSUME NEW e \in Events, DiscardRecords(e) PROVE mapping'[s] = mapping[s]
  <2>1. e \notin startMsg
    BY <1>3 DEF DiscardRecords, At, Starting, UnpromptedLabels, DiscardLabels
  <2>2. e \notin Engaged /\ e # NoTask BY <2>1, StoreAssumption DEF Engaged
  <2>3. mapping[s] # e BY <2>2 DEF Mapped
  <2> QED BY <1>3, <2>3 DEF DiscardRecords, DeleteSessionRecords
<1>4. ~DeleteRecords BY UnattendedKept DEF Operator
<1>5. ~\E p \in Subjects, t \in Tasks : RegisterPr(p, t) BY DEF RegisterPr
<1> QED BY <1>2, <1>3, <1>4, <1>5, MappingSteps

\* The steps of process_pending_events: the run takes an event, works on it, or is
\* done with it.
LEMMA TurnsComes ==
  ASSUME Deletable = {}, Unattended, IInv, Between, InHand, Undiscarded, Reviewed, [Next]_vars,
         dl' = NoEvent, pc' \in {"pending"} \cup PendingLabels
  PROVE  \/ EndPoll
         \/ dl = NoEvent /\ pc = "pending" /\ \E e \in Events : TakeEvent(e)
         \/ /\ dl = NoEvent /\ pc \in {"pending"} \cup PendingLabels
            /\ ev' = ev /\ UNCHANGED <<todo, blockedSub, blockedSess>>
            /\ pc' = "pending" <=> pc = "pending"
            /\ \A x \in Events : x # ev => evState'[x] = evState[x]
            /\ evState'[ev] = "pending" => evState[ev] = "pending"
         \/ /\ dl = NoEvent /\ pc \in PendingLabels /\ pc' = "pending" /\ ev' = NoEvent
            /\ ev \in Events /\ todo' = todo /\ blockedSess \subseteq blockedSess'
            /\ \A x \in Events : x # ev => evState'[x] = evState[x]
            /\ blockedSub \subseteq blockedSub'
            /\ \/ evState'[ev] # "pending" \/ SubjectOf[ev] \in blockedSub'
               \/ ev \in Reviews /\ mapping[SubjectOf[ev]] = NoTask /\ mapping' = mapping
<1>1. DbType /\ Control /\ ev \in Events \cup {NoEvent}
  BY DEF IInv, TypeOK, RunType, DispatchInv
<1> DEFINE Works == /\ dl = NoEvent /\ pc \in {"pending"} \cup PendingLabels
                    /\ ev' = ev /\ UNCHANGED <<todo, blockedSub, blockedSess>>
                    /\ pc' = "pending" <=> pc = "pending"
                    /\ \A x \in Events : x # ev => evState'[x] = evState[x]
                    /\ evState'[ev] = "pending" => evState[ev] = "pending"
           Ends == /\ dl = NoEvent /\ pc \in PendingLabels /\ pc' = "pending" /\ ev' = NoEvent
                   /\ ev \in Events /\ todo' = todo /\ blockedSess \subseteq blockedSess'
                   /\ \A x \in Events : x # ev => evState'[x] = evState[x]
                   /\ blockedSub \subseteq blockedSub'
                   /\ \/ evState'[ev] # "pending" \/ SubjectOf[ev] \in blockedSub'
                      \/ ev \in Reviews /\ mapping[SubjectOf[ev]] = NoTask /\ mapping' = mapping
<1>2. "pending" \notin PendingLabels BY DEF PendingLabels
<1>3. CASE UNCHANGED <<runVars, eventVars, title, startMsg>> BY <1>3
<1>4. CASE PendingRaises
  <2>1. /\ ev \in Events /\ evState' = [evState EXCEPT ![ev] = "pending"]
        /\ SubjectOf[ev] \in blockedSub'
        /\ blockedSub \subseteq blockedSub' /\ blockedSess \subseteq blockedSess'
    BY <1>1, <1>4 DEF PendingRaises, UpdateEvent
  <2>2. Ends
    BY <1>1, <1>4, <2>1 DEF PendingRaises, EventDone, Goto, DbType
  <2> QED BY <2>2
<1>5. ASSUME NEW e \in Events, TakeEvent(e) PROVE pc = "pending" BY <1>5 DEF TakeEvent
<1>6. ASSUME NEW e \in Events, dl = NoEvent,
             \/ EventCancel(e) \/ EventContinue(e) \/ EventStart(e)
             \/ ContinueCheck(e) \/ ContinueResume(e) \/ ContinueQueue(e)
             \/ CancelRecords(e) \/ CancelAbort(e)
      PROVE  Works
  <2>1. /\ pc \in PendingLabels /\ ev' = ev /\ UNCHANGED <<todo, blockedSub, blockedSess, evState>>
        /\ pc' # "pending"
    BY <1>6 DEF EventCancel, EventContinue, EventStart, ContinueCheck, ContinueResume,
                ContinueQueue, CancelRecords, CancelAbort, At, Goto, PendingLabels
  <2> QED BY <1>2, <1>6, <2>1
<1>7. ASSUME NEW e \in Events, dl = NoEvent,
             EventUnmapped(e) \/ EventClosed(e) \/ EventDelivered(e) \/ ContinueQueued(e)
      PROVE  Ends
  <2>1. /\ pc \in PendingLabels /\ ev = e /\ pc' = "pending" /\ ev' = NoEvent
        /\ UNCHANGED <<todo, blockedSub, blockedSess>>
    BY <1>7 DEF EventUnmapped, EventClosed, EventDelivered, ContinueQueued, At, Goto,
                EventDone, PendingLabels
  <2>2. \/ UNCHANGED evState /\ e \in Reviews /\ mapping[SubjectOf[e]] = NoTask /\ mapping' = mapping
        \/ \E s \in {"ignored", "delivered", "queued"} : evState' = [evState EXCEPT ![e] = s]
    BY <1>7 DEF EventUnmapped, EventClosed, EventDelivered, ContinueQueued, UpdateEvent
  <2> QED BY <1>1, <1>7, <2>1, <2>2 DEF DbType
<1>8. ASSUME NEW e \in Events, dl = NoEvent, StartConfirm(e) PROVE Works
  <2>1. /\ pc \in PendingLabels /\ ev = e /\ ev' = ev /\ UNCHANGED <<todo, blockedSub, blockedSess>>
        /\ pc' # "pending"
    BY <1>8 DEF StartConfirm, At, Goto, PendingLabels
  <2>2. UNCHANGED evState \/ evState' = [evState EXCEPT ![e] = "ignored"]
    BY <1>8 DEF StartConfirm, UpdateEvent
  <2> QED BY <1>1, <1>2, <1>8, <2>1, <2>2 DEF DbType
<1>9. ASSUME NEW e \in Events, dl = NoEvent, DiscardWorkspace(e) PROVE Ends
  <2>1. ev \in Reviews BY <1>9 DEF DiscardWorkspace, At, Undiscarded, DiscardLabels
  <2>2. mapping[SubjectOf[ev]] = NoTask
    BY <1>9, <2>1 DEF DiscardWorkspace, At, Reviewed, DiscardLabels
  <2> QED BY <1>1, <1>9, <2>1, <2>2 DEF DiscardWorkspace, At, EventDone, Goto, PendingLabels
<1>10. ASSUME NEW e \in Events, dl = NoEvent, StartStep(e), ~StartConfirm(e), ~DiscardWorkspace(e)
       PROVE  Works
  <2>1. /\ pc \in PendingLabels /\ ev' = ev /\ UNCHANGED <<todo, blockedSub, blockedSess, evState>>
        /\ pc' # "pending"
    BY <1>10 DEF StartStep, StartPrepare, StartRecover, AdoptTask, AdoptMapping,
                StartCreate, StartSave, StartPrompt, StartMap,
                StartActivate, DiscardSession, DiscardRecords, At, Goto, PendingLabels
  <2> QED BY <1>2, <1>10, <2>1
<1> QED BY <1>1, <1>3, <1>4, <1>5, <1>6, <1>7, <1>8, <1>9, <1>10, PhaseSteps DEF PendingStep

\* A review never becomes a start of its own, and has no session while it is
\* started.
LEMMA ReviewedKept ==
  ASSUME Deletable = {}, Unattended, IInv, Control', Between, InHand, Undiscarded, Reviewed,
         [Next]_vars
  PROVE  Reviewed'
<1>1. /\ DbType /\ Control /\ github \in [Events -> Contents \cup {"unposted"}]
      /\ Reviews \subseteq Events
  BY StoreAssumption DEF IInv, TypeOK, WorldType, DispatchInv
<1>2. ASSUME NEW e \in Reviews PROVE github'[e] \in {"unposted", "continue", "none"}
  <2>1. github[e] \in {"unposted", "continue", "none"} BY DEF Reviewed
  <2>2. ASSUME NEW x \in Events, Post(x) PROVE github'[e] \in {"unposted", "continue", "none"}
    <3>1. CASE x = e
      <4>1. github' = [github EXCEPT ![e] = "continue"] BY <2>2, <3>1 DEF Post
      <4> QED BY <1>1, <4>1
    <3>2. CASE x # e BY <1>1, <2>1, <2>2, <3>2 DEF Post
    <3> QED BY <3>1, <3>2
  <2>3. ASSUME NEW x \in Events, Edit(x) PROVE github'[e] \in {"unposted", "continue", "none"}
    BY <1>1, <2>1, <2>3 DEF Edit
  <2> QED BY <2>1, <2>2, <2>3, TextSteps
<1>3. ASSUME NEW e \in Reviews, evAction[e] \notin StartCommands
      PROVE  evAction'[e] \notin StartCommands
  BY <1>1, <1>3, ActionComes DEF Reviewed, StartCommands
<1>4. ASSUME NEW e \in Reviews, evState'[e] = "pending" PROVE evAction'[e] \notin StartCommands
  <2>1. CASE evState[e] = "pending" BY <1>3, <2>1 DEF Reviewed
  <2>2. CASE PendingRaises /\ ev = e
    <3>1. evAction[e] \notin StartCommands BY <2>2 DEF PendingRaises, Reviewed
    <3> QED BY <1>3, <3>1
  <2>3. CASE Discover(e)
    <3>1. evAction'[e] = github[e]
      BY <1>1, <1>4, <2>3 DEF Discover, UpdateEvent, DbType
    <3> QED BY <3>1 DEF Reviewed, StartCommands
  <2>4. CASE RefreshEvent(e)
    <3>1. github[e] \notin StartCommands BY DEF Reviewed, StartCommands
    <3>2. UNCHANGED evState \/ evState' = [evState EXCEPT ![e] = "ignored"]
      BY <2>4, <3>1 DEF RefreshEvent, UpdateEvent
    <3>3. evState[e] = "pending" BY <1>1, <1>4, <3>2 DEF DbType
    <3> QED BY <2>1, <3>3
  <2> QED BY <1>1, <1>4, <2>1, <2>2, <2>3, <2>4, StateComes
          DEF DispatchCancelled, EventUnmapped, EventClosed, EventDelivered, ContinueQueued,
              StartConfirm, UpdateEvent, DbType
<1>5. ASSUME dl' = NoEvent, pc' \in PendingLabels, ev' \in Reviews
      PROVE  evAction'[ev'] \notin StartCommands
  <2>1. pc' # "pending" BY <1>5 DEF PendingLabels
  <2>2. ~EndPoll BY <2>1 DEF EndPoll
  <2>3. ASSUME NEW e \in Events, TakeEvent(e), dl = NoEvent, pc = "pending"
        PROVE  evAction[ev'] \notin StartCommands
    <3>1. ev' = e /\ e \in todo BY <2>1, <2>3 DEF TakeEvent, First
    <3>2. evState[e] = "pending" BY <2>3, <3>1 DEF InHand
    <3> QED BY <1>5, <3>1, <3>2 DEF Reviewed
  <2>4. ASSUME dl = NoEvent, pc \in PendingLabels, ev' = ev
        PROVE  evAction[ev'] \notin StartCommands
    BY <1>5, <2>4 DEF Reviewed
  <2>5. evAction[ev'] \notin StartCommands BY <1>5, <2>1, <2>2, <2>3, <2>4, TurnsComes
  <2>6. ASSUME NEW e \in Reviews, evAction[e] \notin StartCommands
        PROVE  evAction'[e] \notin StartCommands
    BY <1>3, <2>6
  <2> QED BY <1>5, <2>5, <2>6
<1>6. ASSUME pc' \in StartLabels \cup DiscardLabels, ev' \in Reviews
      PROVE  mapping'[SubjectOf[ev']] = NoTask
  <2>1. SubjectOf[ev'] \in Subjects BY <1>1, <1>6, Domains
  <2>2. CASE ev' = ev /\ pc \in StartLabels \cup DiscardLabels
    <3>1. mapping[SubjectOf[ev]] = NoTask BY <1>6, <2>2 DEF Reviewed
    <3>2. ASSUME NEW e \in Events, DiscardRecords(e) PROVE mapping'[SubjectOf[ev]] = NoTask
      BY <2>1, <2>2, <3>1, <3>2 DEF DiscardRecords, DeleteSessionRecords
    <3>3. ASSUME NEW e \in Events PROVE ~AdoptMapping(e) /\ ~StartMap(e)
      BY <2>2 DEF AdoptMapping, StartMap, At, StartLabels, DiscardLabels
    <3>4. ~DeleteRecords BY UnattendedKept DEF Operator
    <3>5. ~\E p \in Subjects, t \in Tasks : RegisterPr(p, t)
      BY <2>2 DEF RegisterPr, StartLabels, DiscardLabels
    <3> QED BY <2>2, <3>1, <3>2, <3>3, <3>4, <3>5, MappingSteps
  <2>3. CASE ev' = ev /\ EventStart(ev) /\ ev \in Events
    <3>1. dl = NoEvent /\ pc \in PendingLabels /\ mapping' = mapping
      BY <1>1, <2>3 DEF EventStart, At, Control, DispatchLabels, PendingLabels
    <3>2. evAction[ev] \notin StartCommands BY <1>6, <2>3, <3>1 DEF Reviewed
    <3> QED BY <2>3, <3>1, <3>2 DEF EventStart
  <2> QED BY <1>1, <1>6, <2>2, <2>3, StartComes
<1> QED BY <1>2, <1>4, <1>5, <1>6 DEF Reviewed

\* A review that may be passed over stays so while the run works on later events
\* of its subject.
LEMMA PassableStays ==
  ASSUME Deletable = {}, Unattended, Mapped, Starting, IInv, [Next]_vars, pc # "rest",
         NEW x \in Events, Passable(x), ev # NoEvent => x < ev
  PROVE  Passable(x)'
<1>1. SubjectOf[x] \in Subjects /\ DbType /\ mapping[SubjectOf[x]] \in Tasks \cup {NoTask}
  BY Domains DEF IInv, TypeOK, DbType
<1>2. CASE ev # NoEvent => SubjectOf[ev] # SubjectOf[x]
  <2>1. mapping'[SubjectOf[x]] = mapping[SubjectOf[x]] BY <1>1, <1>2, SubjectStays
  <2> QED BY <2>1 DEF Passable, Unregistered
<1>3. CASE ev # NoEvent /\ SubjectOf[ev] = SubjectOf[x]
  <2>1. ev \in Events BY <1>3 DEF IInv, TypeOK, RunType
  <2>2. mapping'[SubjectOf[x]] \in {mapping[SubjectOf[x]], ev, NoTask}
    <3>1. ASSUME NEW e \in Events, AdoptMapping(e) \/ StartMap(e)
          PROVE  mapping'[SubjectOf[x]] = ev
      BY <1>1, <1>3, <3>1 DEF AdoptMapping, StartMap, ActivateMapping, At, DbType
    <3>2. ASSUME NEW e \in Events, DiscardRecords(e)
          PROVE  mapping'[SubjectOf[x]] \in {mapping[SubjectOf[x]], NoTask}
      BY <1>1, <3>2 DEF DiscardRecords, DeleteSessionRecords
    <3>3. ~DeleteRecords BY UnattendedKept DEF Operator
    <3>4. ~\E p \in Subjects, t \in Tasks : RegisterPr(p, t) BY DEF RegisterPr
    <3> QED BY <3>1, <3>2, <3>3, <3>4, MappingSteps
  <2>3. NoTask \notin Events /\ x < ev BY <1>3, StoreAssumption
  <2> QED BY <1>3, <2>1, <2>2, <2>3 DEF Passable, Unregistered
<1> QED BY <1>2, <1>3

\* What is pending and passed is in hand or left with its subject, or waits for
\* a registration.
LEMMA WaitsKept ==
  ASSUME Deletable = {}, Unattended, IInv, Between, InHand, Mapped, Starting, Undiscarded, Reviewed,
         Waits, InOrder, [Next]_vars
  PROVE  Waits'
<1> DEFINE Left(x) == /\ Before(x)
                      /\ Blocked(SubjectOf[x]) \/ Passable(x)
<1> SUFFICES ASSUME dl' = NoEvent, pc' \in {"pending"} \cup PendingLabels,
                    NEW x \in Events, evState'[x] = "pending"
             PROVE  x \in todo' \/ x = ev' \/ Left(x)'
  BY DEF Waits
<1>1. SubjectOf[x] \in Subjects /\ x \in Nat BY Domains, StoreAssumption
<1>2. CASE EndPoll BY <1>2 DEF EndPoll
<1>3. ASSUME NEW e \in Events, TakeEvent(e), dl = NoEvent, pc = "pending"
      PROVE  x \in todo' \/ x = ev' \/ Left(x)'
  <2>1. x \in todo \/ Left(x)
    BY <1>3, Domains DEF TakeEvent, Waits, Between, PendingLabels
  <2>2. /\ UNCHANGED <<blockedSub, blockedSess, mapping>> /\ todo' = todo \ {e}
        /\ e \in todo /\ ev' \in {ev, e}
    BY <1>3 DEF TakeEvent, First
  <2>3. CASE x = e
    <3>1. CASE ev' = e BY <2>3, <3>1
    <3>2. CASE ev' # e
      <4>1. Blocked(SubjectOf[x])' BY <1>3, <2>3, <3>2 DEF TakeEvent, Blocked
      <4>2. ev' = NoEvent /\ \A y \in todo : x <= y
        BY <1>3, <2>3, <3>2 DEF TakeEvent, First, Between, PendingLabels
      <4>3. \A y \in todo' : x < y
        BY <1>1, <2>2, <2>3, <4>2, StoreAssumption DEF IInv, TypeOK, RunType
      <4> QED BY <4>1, <4>2, <4>3 DEF Before
    <3> QED BY <3>1, <3>2
  <2>4. CASE x # e /\ x \in todo BY <2>2, <2>4
  <2>5. CASE Left(x)
    <3>1. Before(x)' BY <1>3, <2>2, <2>5 DEF Before, Between, PendingLabels
    <3>2. (Blocked(SubjectOf[x]) \/ Passable(x))'
      BY <2>2, <2>5 DEF Blocked, Passable, Unregistered
    <3> QED BY <3>1, <3>2
  <2> QED BY <2>1, <2>3, <2>4, <2>5
<1>4. ASSUME dl = NoEvent, pc \in {"pending"} \cup PendingLabels, todo' = todo,
             x # ev, ev' \in {ev, NoEvent}, evState'[x] = evState[x],
             blockedSub \subseteq blockedSub', blockedSess \subseteq blockedSess', x \notin todo
      PROVE  Left(x)'
  <2>1. evState[x] = "pending" /\ Left(x) BY <1>4 DEF Waits
  <2>2. Before(x)' BY <1>4, <2>1 DEF Before
  <2>3. pc # "rest" BY <1>4 DEF PendingLabels
  <2>4. CASE Passable(x)
    <3>1. Passable(x)' BY <2>1, <2>3, <2>4, PassableStays DEF Before
    <3> QED BY <2>2, <3>1
  <2>5. CASE ~Passable(x)
    <3>1. ev # NoEvent => SubjectOf[ev] # SubjectOf[x]
      BY <1>4, <2>1, <2>5 DEF InOrder, Between
    <3>2. mapping'[SubjectOf[x]] = mapping[SubjectOf[x]] BY <1>1, <2>3, <3>1, SubjectStays
    <3>3. Blocked(SubjectOf[x])' BY <1>4, <2>1, <2>5, <3>2 DEF Blocked
    <3> QED BY <2>2, <3>3
  <2> QED BY <2>4, <2>5
<1>5. ASSUME dl = NoEvent, pc \in PendingLabels, x = ev, ev' = NoEvent, todo' = todo,
             \/ SubjectOf[ev] \in blockedSub'
             \/ ev \in Reviews /\ mapping[SubjectOf[ev]] = NoTask /\ mapping' = mapping
      PROVE  Left(x)'
  <2>1. \A y \in todo : x < y
    <3>1. \A y \in todo : x <= y /\ x # y BY <1>5 DEF InOrder, InHand
    <3>2. todo \subseteq Nat BY StoreAssumption DEF IInv, TypeOK, RunType
    <3> QED BY <1>1, <3>1, <3>2
  <2>2. Before(x)' BY <1>5, <2>1 DEF Before
  <2>3. (Blocked(SubjectOf[x]) \/ Passable(x))' BY <1>5 DEF Blocked, Passable, Unregistered
  <2> QED BY <2>2, <2>3
<1>6. ASSUME x = ev, ev' = ev PROVE x = ev' BY <1>6
<1> HIDE DEF Left
<1> QED BY <1>2, <1>3, <1>4, <1>5, <1>6, TurnsComes

\* What is in hand is the first of its subject, but for reviews that wait.
LEMMA InOrderKept ==
  ASSUME Deletable = {}, Unattended, IInv, Between, InHand, Mapped, Starting, Undiscarded, Reviewed,
         Waits, InOrder, [Next]_vars
  PROVE  InOrder'
<1> SUFFICES ASSUME dl' = NoEvent, pc' \in PendingLabels PROVE InOrder' BY DEF InOrder
<1>1. pc' # "pending" BY DEF PendingLabels
<1>2. ~EndPoll BY <1>1 DEF EndPoll
<1>3. ASSUME NEW e \in Events, TakeEvent(e), dl = NoEvent, pc = "pending"
      PROVE  InOrder'
  <2>1. /\ ev' = e /\ todo' = todo \ {e} /\ ~Blocked(SubjectOf[e])
        /\ e \in todo /\ UNCHANGED <<evState, mapping>>
        /\ \A y \in todo : e <= y
    BY <1>1, <1>3 DEF TakeEvent, First, Blocked, Goto
  <2>2. ev = NoEvent BY <1>3 DEF Between, PendingLabels
  <2>3. ASSUME NEW x \in Events, evState[x] = "pending", SubjectOf[x] = SubjectOf[e]
        PROVE  x \in todo \/ (Before(x) /\ Passable(x))
    BY <1>3, <2>1, <2>2, <2>3, Domains DEF Waits
  <2>4. ASSUME NEW x \in Events, Before(x), Passable(x) PROVE Before(x)' /\ Passable(x)'
    BY <2>1, <2>4 DEF Before, Passable, Unregistered
  <2> QED BY <2>1, <2>3, <2>4 DEF InOrder
<1>4. ASSUME dl = NoEvent, pc \in PendingLabels, ev' = ev, todo' = todo,
             \A x \in Events : x # ev => evState'[x] = evState[x]
      PROVE  InOrder'
  <2>1. pc # "rest" BY <1>4 DEF PendingLabels
  <2>2. ASSUME NEW x \in Events, Before(x), Passable(x) PROVE Before(x)' /\ Passable(x)'
    <3>1. Before(x)' BY <1>4, <2>2 DEF Before
    <3>2. Passable(x)' BY <2>1, <2>2, PassableStays DEF Before
    <3> QED BY <3>1, <3>2
  <2>3. \A y \in todo : ev <= y BY <1>4 DEF InOrder
  <2>4. ASSUME NEW x \in Events, evState'[x] = "pending", SubjectOf[x] = SubjectOf[ev]
        PROVE  x \in todo \/ x = ev \/ (Before(x) /\ Passable(x))
    BY <1>4, <2>4 DEF InOrder
  <2> QED BY <1>4, <2>2, <2>3, <2>4 DEF InOrder
<1> QED BY <1>1, <1>2, <1>3, <1>4, TurnsComes

\* Work for one subject is taken up in source order.
LEMMA TakenInOrder ==
  ASSUME Deletable = {}, Unattended, IInv, Control', Between, InHand, Undiscarded, Reviewed, Waits,
         [Next]_vars, NEW e \in Events, NEW x \in Events,
         x < e, SubjectOf[x] = SubjectOf[e], evState[x] = "pending",
         pc = "pending", pc' = "event", ev' = e
  PROVE  x \in Reviews /\ Unregistered(x) /\ SubjectOf[x] \notin blockedSub
<1>1. dl = NoEvent /\ dl' = NoEvent BY DEF IInv, DispatchInv, Control, DispatchLabels
<1>2. TakeEvent(e)
  <2>1. pc' \in PendingLabels /\ "pending" \notin PendingLabels BY DEF PendingLabels
  <2>2. ASSUME NEW y \in Events, TakeEvent(y) PROVE y = e BY <2>2 DEF TakeEvent, Goto
  <2> QED BY <1>1, <2>1, <2>2, TurnsComes DEF EndPoll
<1>3. x \notin todo
  BY <1>2, StoreAssumption DEF TakeEvent, First
<1>4. x # ev BY <1>1, Domains DEF Between, PendingLabels
<1>5. ~Blocked(SubjectOf[x]) BY <1>2 DEF TakeEvent, Blocked
<1> QED BY <1>1, <1>3, <1>4, <1>5 DEF Waits, Blocked, Passable

\* In every reachable state. The first case: only reviews are started.
LEMMA StartlessInvariance ==
  ASSUME NoStarts, Deletable = {}, NoRestarts PROVE Spec => []Startless
<1>1. Init => Startless
  <2> SUFFICES ASSUME Init PROVE Startless OBVIOUS
  <2>1. \A e \in Events : /\ github[e] \in StartCommands => evState[e] = "delivered"
                          /\ evState[e] \in {"unseen", "delivered"}
    BY DEF Init, StartCommands
  <2>2. pc \notin StartLabels \cup DiscardLabels BY DEF Init, StartLabels, DiscardLabels
  <2> QED BY <2>1, <2>2 DEF Startless
<1>2. IInv /\ IInv' /\ StartInv /\ Startless /\ [Next]_vars => Startless'
  BY StartlessKept DEF IInv, TypeOK, DispatchInv, StartInv
<1> QED BY <1>1, <1>2, StartInvariance, Invariance, PTL DEF Spec

\* The second case: what is pending GitHub still says, so nothing prepared for a
\* comment is discarded.
LEMMA SettlingInvariance ==
  ASSUME Unmoved, Deletable = {}, NoRestarts PROVE Spec => []Settling
<1>1. Init => Settling
  BY DEF Init, Settling, DiscardLabels
<1>2. IInv /\ IInv' /\ StartInv /\ Settling /\ [Next]_vars => Settling'
  BY SettlingKept DEF IInv, TypeOK, DispatchInv, StartInv
<1> QED BY <1>1, <1>2, StartInvariance, Invariance, PTL DEF Spec

\* process_pending_events takes an event up only when no earlier event of its
\* subject is still pending, but for a review that has not failed and waits for
\* its pull request to be registered, wherever runs are killed and calls fail and
\* whatever was blocked before, while nobody deletes sessions and nothing is
\* discarded that was prepared for a comment.
THEOREM SubjectsInOrder ==
  ASSUME Deletable = {}, NoRestarts, NoStarts \/ Unmoved PROVE Spec => SubjectOrder
<1>1. Spec => []Undiscarded
  <2>1. CASE NoStarts
    <3>1. Startless => Undiscarded BY DEF Startless, Undiscarded
    <3> QED BY <2>1, <3>1, StartlessInvariance, PTL
  <2>2. CASE Unmoved
    <3>1. Settling => Undiscarded BY DEF Settling, Undiscarded
    <3> QED BY <2>2, <3>1, SettlingInvariance, PTL
  <2> QED BY <2>1, <2>2
<1>2. Init => Reviewed /\ Waits /\ InOrder
  <2> SUFFICES ASSUME Init PROVE Reviewed /\ Waits /\ InOrder OBVIOUS
  <2>1. /\ pc \notin {"pending"} \cup PendingLabels
        /\ pc \notin StartLabels \cup DiscardLabels
    BY DEF Init, PendingLabels, StartLabels, DiscardLabels
  <2>2. \A e \in Reviews : e \in Events /\ github[e] = "unposted" /\ evState[e] = "unseen"
    BY StoreAssumption, BridgeAssumption DEF Init
  <2> QED BY <2>1, <2>2 DEF Reviewed, Waits, InOrder
<1>3. IInv /\ IInv' /\ StartInv /\ Undiscarded /\ Reviewed /\ Waits /\ InOrder /\ [Next]_vars
        => (Reviewed /\ Waits /\ InOrder)'
  BY ReviewedKept, WaitsKept, InOrderKept DEF StartInv, IInv, DispatchInv
<1>4. IInv /\ IInv' /\ StartInv /\ Undiscarded /\ Reviewed /\ Waits /\ [Next]_vars =>
        [\A e, x \in Events :
           /\ x < e /\ SubjectOf[x] = SubjectOf[e] /\ evState[x] = "pending"
           /\ pc = "pending" /\ pc' = "event" /\ ev' = e
           => x \in Reviews /\ Unregistered(x) /\ SubjectOf[x] \notin blockedSub]_vars
  BY TakenInOrder DEF StartInv, IInv, DispatchInv
<1> QED BY <1>1, <1>2, <1>3, <1>4, StartInvariance, Invariance, PTL DEF Spec, SubjectOrder
=============================================================================
