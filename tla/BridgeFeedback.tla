--------------------------- MODULE BridgeFeedback ----------------------------
(***************************************************************************)
(* process_pending_events, continue_task, cancel and dispatch_pending: how *)
(* a recorded GitHub event becomes a prompt in the session its subject is  *)
(* mapped to.  Every database transaction and every call to GitHub,        *)
(* OpenCode or the workspace manager is a step of its own; between any two *)
(* of them the run may be killed (Bridge!Crash) or the later one may raise *)
(* (PendingRaises, DispatchRaises).                                        *)
(***************************************************************************)
EXTENDS BridgeStore

CONSTANT CanOverflow   \* may feedback outgrow one 32768 character prompt?

ASSUME FeedbackAssumption == CanOverflow \in BOOLEAN

Goto(l) == pc' = l

\* The run is at label l, working on event e, inside process_pending_events.
At(l, e)  == pc = l /\ ev = e /\ e # NoEvent
EventDone == Goto("pending") /\ ev' = NoEvent /\ held' = NoTask /\ found' = FALSE
-----------------------------------------------------------------------------
(* process_pending_events *)

\* Mutant of TakeEvent: an event that failed does not hold back later ones.
TakeEventUnblocked(e) ==
  /\ pc = "pending" /\ e \in First(todo)
  /\ todo' = todo \ {e}
  /\ Goto("event") /\ ev' = e /\ held' = mapping[SubjectOf[e]]
  /\ UNCHANGED <<dbVars, worldVars, cliVars, found, dl, rowState, queue, ctx,
                 tasksLeft, tk, blockedSub, blockedSess>>

\* An event of a subject or session that failed earlier in this run is left
\* for the next run; the others are handled in order.
TakeEvent(e) ==
  /\ pc = "pending" /\ e \in First(todo)
  /\ todo' = todo \ {e}
  /\ IF SubjectOf[e] \in blockedSub \/ mapping[SubjectOf[e]] \in blockedSess
       THEN UNCHANGED <<pc, ev, held>>
       ELSE Goto("event") /\ ev' = e /\ held' = mapping[SubjectOf[e]]
  /\ UNCHANGED <<dbVars, worldVars, cliVars, found, dl, rowState, queue, ctx,
                 tasksLeft, tk, blockedSub, blockedSess>>

\* The mapping is read again for the branch and, in continue_task and cancel,
\* for the work; only a delete-session can have changed it meanwhile.
EventCancel(e) ==
  /\ At("event", e) /\ evAction[e] = "cancel"
  /\ Goto(IF mapping[SubjectOf[e]] = NoTask THEN "delivered" ELSE "cancel")
  /\ UNCHANGED <<dbVars, worldVars, cliVars, workVars>>

EventContinue(e) ==
  /\ At("event", e) /\ evAction[e] = "continue"
  /\ mapping[SubjectOf[e]] # NoTask
  /\ Goto("continue")
  /\ UNCHANGED <<dbVars, worldVars, cliVars, workVars>>

EventStart(e) ==
  /\ At("event", e)
  /\ \/ evAction[e] \in StartCommands
     \/ /\ evAction[e] = "continue" /\ mapping[SubjectOf[e]] = NoTask
        /\ e \in Reviews /\ e \in aged
  /\ Goto("start")
  /\ UNCHANGED <<dbVars, worldVars, cliVars, workVars>>

\* Mutant of EventUnmapped: the wait for a registration never ends.
EventUnmappedForever(e) ==
  /\ At("event", e) /\ evAction[e] = "continue"
  /\ mapping[SubjectOf[e]] = NoTask
  /\ IF e \in Reviews THEN UNCHANGED evState ELSE UpdateEvent(e, "ignored")
  /\ EventDone
  /\ UNCHANGED <<evAction, taskState, mapping, deliveryVars, worldVars,
                 cliVars, loopVars>>

\* Feedback with no session: a review waits for its PR to be registered,
\* and does not block the subject; a comment is ignored.
EventUnmapped(e) ==
  /\ At("event", e) /\ evAction[e] = "continue"
  /\ mapping[SubjectOf[e]] = NoTask
  /\ IF e \in Reviews THEN e \notin aged /\ UNCHANGED evState
                      ELSE UpdateEvent(e, "ignored")
  /\ EventDone
  /\ UNCHANGED <<evAction, taskState, mapping, deliveryVars, worldVars,
                 cliVars, loopVars>>

\* A start whose subject is known to be closed.
EventClosed(e) ==
  /\ At("event", e) /\ evAction[e] \in StartCommands /\ github[e] = "none"
  /\ UpdateEvent(e, "ignored")
  /\ EventDone
  /\ UNCHANGED <<evAction, taskState, mapping, deliveryVars, worldVars,
                 cliVars, loopVars>>

\* A cancel or a start that went through.
EventDelivered(e) ==
  /\ At("delivered", e) /\ dl = NoEvent
  /\ UpdateEvent(e, "delivered")
  /\ EventDone
  /\ UNCHANGED <<evAction, taskState, mapping, deliveryVars, worldVars,
                 cliVars, loopVars>>

PendingLabels == {"event", "continue", "resume", "queue", "queued",
                  "cancel", "abort", "delivered",
                  "start", "recover", "adopt", "adoptmap", "confirm",
                  "create", "save", "prompt", "map", "activate",
                  "discard", "discardrecords", "discardspace"}

\* Where a call to GitHub, OpenCode or the workspace manager may raise, or
\* may have raised after it took effect.  The labels between two database
\* transactions are left out: a database that fails there is like a kill.
PendingCalls == {"continue", "resume", "abort", "start", "recover", "confirm",
                 "create", "save", "prompt", "map", "discardspace"}

\* except Exception: the event stays pending, and blocks its subject and the
\* session that was mapped when it was taken.
PendingRaises ==
  /\ pc \in PendingLabels /\ ev # NoEvent /\ dl = NoEvent
  /\ UpdateEvent(ev, "pending")
  /\ blockedSub' = blockedSub \cup {SubjectOf[ev]}
  /\ blockedSess' = blockedSess \cup ({held} \ {NoTask})
  /\ EventDone
  /\ UNCHANGED <<evAction, taskState, mapping, deliveryVars, worldVars,
                 cliVars, dl, rowState, todo, queue, ctx, tasksLeft, tk>>
-----------------------------------------------------------------------------
(* continue_task *)

Full(t) == /\ t \in Events /\ taskState[t] \notin ActiveStates
           /\ ActiveCount >= MaxTasks

\* The checks before anything is changed; a collected task is restored.
ContinueCheck(e) ==
  LET t == mapping[SubjectOf[e]]
  IN /\ At("continue", e)
     /\ t # NoTask /\ taskState[t] # "none" /\ ~Full(t)
     /\ workspace' = IF taskState[t] = "collected" /\ workspace[t] = "absent"
                       THEN [workspace EXCEPT ![t] = "clean"] ELSE workspace
     /\ Goto("resume") /\ held' = t
     /\ UNCHANGED <<dbVars, githubVars, opencodeVars, cliVars, ev, found, loopVars>>

\* After validate_model.
ContinueResume(e) ==
  LET t == held
  IN /\ At("resume", e) /\ t # NoTask
     /\ SetTaskState(t, "active")
     /\ Goto("queue")
     /\ UNCHANGED <<eventVars, mapping, deliveryVars, worldVars, cliVars, workVars>>

ContinueQueue(e) ==
  LET t == held
  IN /\ At("queue", e) /\ t # NoTask
     /\ \E full \in {FALSE, CanOverflow} : QueueDelivery(e, t, full)
     /\ Goto("queued")
     /\ UNCHANGED <<eventVars, taskState, mapping, worldVars, cliVars, workVars>>

ContinueQueued(e) ==
  /\ At("queued", e)
  /\ UpdateEvent(e, "queued")
  /\ EventDone
  /\ UNCHANGED <<evAction, taskState, mapping, deliveryVars, worldVars,
                 cliVars, loopVars>>
-----------------------------------------------------------------------------
(* cancel, called by process_pending_events (dl = NoEvent) and by           *)
(* dispatch_pending (dl is the delivery whose event became a cancel)        *)

CancelRecords(e) ==
  LET t == mapping[SubjectOf[e]]
  IN /\ At("cancel", e) /\ t # NoTask /\ taskState[t] # "none"
     /\ CancelSession(t)
     /\ Goto("abort") /\ held' = t
     /\ UNCHANGED <<eventVars, mapping, delTask, carried, older, worldVars,
                    cliVars, ev, found, loopVars>>

\* Abort the session and see it idle within 15 seconds.
CancelAbort(e) ==
  LET t == held
  IN /\ At("abort", e) /\ t # NoTask /\ sess[t] # "none"
     /\ sess' = [sess EXCEPT ![t] = "idle"]
     /\ Goto("delivered")
     /\ UNCHANGED <<dbVars, githubVars, title, startMsg, contMsg, stray, workspace, cliVars,
                    workVars>>

\* The BridgeErrors of continue_task, cancel and start_task that depend on
\* the bridge's own state.
Refused ==
  \/ /\ pc \in {"continue", "cancel"}
     /\ LET t == mapping[SubjectOf[ev]]
        IN t # NoTask => taskState[t] = "none" \/ (pc = "continue" /\ Full(t))
  \/ pc = "abort" /\ sess[held] = "none"
  \/ pc = "start" /\ taskState[ev] = "none" /\ ActiveCount >= MaxTasks
-----------------------------------------------------------------------------
(* dispatch_pending *)

DeliveryDone ==
  Goto("dispatch") /\ ev' = NoEvent /\ held' = NoTask /\ dl' = NoEvent /\ rowState' = "none"
  /\ todo' = {} /\ ctx' = {}

\* Mutant of EndPending: only deliveries that were never sealed are dispatched.
EndPendingUnsealed ==
  /\ pc = "pending" /\ todo = {}
  /\ queue' = {d \in Events : delState[d] = "pending"}
  /\ Goto("dispatch")
  /\ held' = NoTask /\ blockedSub' = {} /\ blockedSess' = {}
  /\ UNCHANGED <<dbVars, worldVars, cliVars, ev, found, dl, rowState, todo, ctx,
                 tasksLeft, tk>>

EndPending ==
  /\ pc = "pending" /\ todo = {}
  /\ queue' = {d \in Events : delState[d] \in Live}
  /\ Goto("dispatch")
  /\ held' = NoTask /\ blockedSub' = {} /\ blockedSess' = {}
  /\ UNCHANGED <<dbVars, worldVars, cliVars, ev, found, dl, rowState, todo, ctx,
                 tasksLeft, tk>>

\* Mutant of TakeDelivery: a sealed delivery is taken for a sent one.
TakeDeliveryTrustsSeal(d) ==
  LET t == delTask[d]
  IN /\ pc = "dispatch" /\ d \in Oldest(queue)
     /\ queue' = queue \ {d}
     /\ IF t = NoTask \/ taskState[t] \in {"none", "paused"} \/ sess[t] # "idle"
          THEN UNCHANGED <<pc, dl, rowState, todo>>
          ELSE /\ dl' = d /\ rowState' = delState[d]
               /\ IF delState[d] = "dispatching"
                    THEN Goto("finalize") /\ UNCHANGED todo
                    ELSE Goto("refresh") /\ todo' = carried[d]
     /\ UNCHANGED <<dbVars, worldVars, cliVars, ev, held, found, ctx, tasksLeft,
                    tk, blockedSub, blockedSess>>

\* Mutant of TakeDelivery: OpenCode is not asked whether it has the message.
TakeDeliveryAgain(d) ==
  LET t == delTask[d]
  IN /\ pc = "dispatch" /\ d \in Oldest(queue)
     /\ queue' = queue \ {d}
     /\ IF t = NoTask \/ taskState[t] \in {"none", "paused"} \/ sess[t] # "idle"
          THEN UNCHANGED <<pc, dl, rowState, todo>>
          ELSE /\ dl' = d /\ rowState' = delState[d]
               /\ Goto("refresh") /\ todo' = carried[d]
     /\ UNCHANGED <<dbVars, worldVars, cliVars, ev, held, found, ctx, tasksLeft,
                    tk, blockedSub, blockedSess>>

\* A delivery whose task is gone or paused, or whose session is busy, waits;
\* so does one whose session is gone, as message_exists raises then.  One whose
\* message exists is only finalized: its prompt was accepted.
TakeDelivery(d) ==
  LET t == delTask[d]
  IN /\ pc = "dispatch" /\ d \in Oldest(queue)
     /\ queue' = queue \ {d}
     /\ IF t = NoTask \/ taskState[t] \in {"none", "paused"} \/ sess[t] # "idle"
          THEN UNCHANGED <<pc, dl, rowState, todo>>
          ELSE /\ dl' = d /\ rowState' = delState[d]
               /\ IF Posted(d)
                    THEN Goto("finalize") /\ UNCHANGED todo
                    ELSE Goto("refresh") /\ todo' = carried[d]
     /\ UNCHANGED <<dbVars, worldVars, cliVars, ev, held, found, ctx, tasksLeft,
                    tk, blockedSub, blockedSess>>

\* head-task fails when the automated task has no workspace.
HeadUnreadable(e) ==
  /\ SubjectOf[e] \in PullRequests /\ delTask[dl] \in Events
  /\ workspace[delTask[dl]] = "absent"

\* refresh_event and the branch taken on the action it returns.  The local
\* head of an automated task is read for a pull request.
RefreshEvent(e) ==
  /\ pc = "refresh" /\ ev = NoEvent /\ e \in First(todo)
  /\ \/ /\ github[e] \in {"none", "ambiguous"}
        /\ UpdateEvent(e, "ignored") /\ UNCHANGED evAction
        /\ Goto("drop") /\ ev' = e /\ UNCHANGED <<todo, ctx>>
     \/ /\ github[e] = "cancel"
        /\ evAction' = [evAction EXCEPT ![e] = "cancel"] /\ UNCHANGED evState
        /\ Goto("cancel") /\ ev' = e /\ UNCHANGED <<todo, ctx>>
     \/ /\ github[e] \in StartCommands
        /\ evAction' = [evAction EXCEPT ![e] = github[e]]
        /\ UpdateEvent(e, "pending")
        /\ Goto("drop") /\ ev' = e /\ UNCHANGED <<todo, ctx>>
     \/ /\ github[e] = "continue"
        /\ ~HeadUnreadable(e)
        /\ evAction' = [evAction EXCEPT ![e] = "continue"] /\ UNCHANGED evState
        /\ todo' = todo \ {e} /\ ctx' = ctx \cup {e} /\ UNCHANGED <<pc, ev>>
  /\ UNCHANGED <<taskState, mapping, deliveryVars, worldVars, cliVars, held, found,
                 dl, rowState, queue, tasksLeft, tk, blockedSub, blockedSess>>

DispatchCancelled(e) ==
  /\ At("delivered", e) /\ dl # NoEvent
  /\ UpdateEvent(e, "delivered")
  /\ Goto("drop")
  /\ UNCHANGED <<evAction, taskState, mapping, deliveryVars, worldVars,
                 cliVars, workVars>>

DropEvent(e) ==
  /\ At("drop", e)
  /\ RemoveDeliveryEvent(dl, e)
  /\ todo' = todo \ {e}
  /\ Goto("refresh") /\ ev' = NoEvent /\ held' = NoTask
  /\ UNCHANGED <<eventVars, taskState, mapping, delState, delTask, older,
                 worldVars, cliVars, found, dl, rowState, queue, ctx,
                 tasksLeft, tk, blockedSub, blockedSess>>

NothingLeft ==
  /\ pc = "refresh" /\ todo = {} /\ ctx = {}
  /\ MarkDelivery(dl, "cancelled")
  /\ DeliveryDone
  /\ UNCHANGED <<eventVars, taskState, mapping, delTask, carried, older,
                 worldVars, cliVars, found, queue, tasksLeft, tk, blockedSub,
                 blockedSess>>

\* The first context always fits; any later one may have to move out.
SelectContexts ==
  /\ pc = "refresh" /\ todo = {} /\ ctx # {}
  /\ \E out \in SUBSET (ctx \ First(ctx)) :
       /\ out # {} => CanOverflow
       /\ todo' = out /\ ctx' = ctx \ out
  /\ Goto("move")
  /\ UNCHANGED <<dbVars, worldVars, cliVars, ev, held, found, dl, rowState, queue,
                 tasksLeft, tk, blockedSub, blockedSess>>

MoveContext(e) ==
  /\ pc = "move" /\ e \in First(todo)
  /\ MoveDeliveryEvent(dl, e)
  /\ todo' = todo \ {e}
  /\ UNCHANGED <<eventVars, taskState, mapping, worldVars, cliVars, pc, ev,
                 held, found, dl, rowState, queue, ctx, tasksLeft, tk, blockedSub,
                 blockedSess>>

\* Mutant of SealDelivery: the state is kept in the run, not in the database.
SealDeliveryUnsaved ==
  /\ pc = "move" /\ todo = {}
  /\ rowState' = "dispatching"
  /\ Goto("post")
  /\ UNCHANGED <<dbVars, worldVars, cliVars, ev, held, found, dl, todo, queue, ctx,
                 tasksLeft, tk, blockedSub, blockedSess>>

SealDelivery ==
  /\ pc = "move" /\ todo = {}
  /\ MarkDelivery(dl, "dispatching")
  /\ rowState' = "dispatching"
  /\ Goto("post")
  /\ UNCHANGED <<eventVars, taskState, mapping, delTask, carried, older,
                 worldVars, cliVars, ev, held, found, dl, todo, queue, ctx,
                 tasksLeft, tk, blockedSub, blockedSess>>

\* prompt_async is accepted.  A lost response is DispatchRaises at "finalize".
PostPrompt ==
  LET t == delTask[dl]
  IN /\ pc = "post" /\ t # NoTask /\ sess[t] # "none"
     /\ contMsg' = [contMsg EXCEPT ![t][dl] = ctx]
     /\ sess' = [sess EXCEPT ![t] = "busy"]
     /\ Goto("finalize")
     /\ UNCHANGED <<dbVars, githubVars, title, startMsg, stray, workspace, cliVars,
                    workVars>>

Finalize ==
  /\ pc = "finalize"
  /\ FinalizeDelivery(dl)
  /\ DeliveryDone
  /\ UNCHANGED <<evAction, taskState, mapping, delTask, carried, older,
                 worldVars, cliVars, found, queue, tasksLeft, tk, blockedSub,
                 blockedSess>>

\* What makes dispatch_pending raise by itself: an unreadable local head, or a
\* session that was deleted under it.
DispatchRefused ==
  \/ /\ pc = "refresh" /\ ev = NoEvent
     /\ \E e \in First(todo) : github[e] = "continue" /\ HeadUnreadable(e)
  \/ pc = "post" /\ (delTask[dl] # NoTask => sess[delTask[dl]] = "none")

DispatchLabels == {"refresh", "cancel", "abort", "delivered", "drop", "move",
                   "post", "finalize"}
DispatchCalls  == {"refresh", "abort", "post", "finalize"}

\* except Exception: the delivery gets back the state it was taken with, or
\* "dispatching" once it is sealed.
DispatchRaises ==
  /\ pc \in DispatchLabels /\ dl # NoEvent
  /\ MarkDelivery(dl, rowState)
  /\ DeliveryDone
  /\ UNCHANGED <<eventVars, taskState, mapping, delTask, carried, older,
                 worldVars, cliVars, found, queue, tasksLeft, tk, blockedSub,
                 blockedSess>>
=============================================================================
