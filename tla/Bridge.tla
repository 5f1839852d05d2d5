------------------------------- MODULE Bridge --------------------------------
(***************************************************************************)
(* The bridge as a whole: the run that the systemd timer or path unit      *)
(* starts (at most one at a time), the controller on GitHub, the agents in *)
(* the OpenCode sessions, and an operator's delete-session.                *)
(***************************************************************************)
EXTENDS BridgeUpkeep

CONSTANTS
  Settled,          \* comments delivered before: each has a task and a session
  InitialMapping,   \* the session each subject is mapped to at the start
  InitialCommands,  \* what comments may say when they are posted
  EditCommands,     \* what comments may be edited to
  UserPrompts,      \* does a person also prompt sessions in the web interface?
  MaxEdits,         \* bound on edits of comments
  MaxFaults         \* bound on killed runs and failing calls

ASSUME BridgeAssumption ==
  /\ Settled \subseteq Events \ Reviews
  /\ InitialMapping \in [Subjects -> Settled \cup {NoTask}]
  /\ InitialCommands \subseteq Commands \cup {"none"}
  /\ EditCommands \subseteq Contents
  /\ UserPrompts \in BOOLEAN
  /\ MaxEdits \in Nat /\ MaxFaults \in Nat

VARIABLES edits, faults

vars == <<storeVars, edits, faults>>
budgetVars == <<edits, faults>>

Idle ==
  /\ pc' = "rest" /\ ev' = NoEvent /\ held' = NoTask /\ found' = FALSE /\ dl' = NoEvent
  /\ rowState' = "none" /\ todo' = {} /\ queue' = {} /\ ctx' = {}
  /\ tasksLeft' = {} /\ tk' = NoTask /\ blockedSub' = {} /\ blockedSess' = {}

Init ==
  /\ evState = [e \in Events |-> IF e \in Settled THEN "delivered" ELSE "unseen"]
  /\ evAction = [e \in Events |-> "implement"]
  /\ taskState = [t \in Tasks |-> IF t \in Settled THEN "completed" ELSE "none"]
  /\ mapping = InitialMapping
  /\ delState = [d \in Events |-> "none"] /\ delTask = [d \in Events |-> NoTask]
  /\ carried = [d \in Events |-> {}] /\ older = [d \in Events |-> {}]
  /\ github = [e \in Events |-> IF e \in Settled THEN "implement" ELSE "unposted"]
  /\ aged = {}
  /\ sess = [t \in Tasks |-> IF t \in Settled \cup Manual THEN "idle" ELSE "none"]
  /\ title = [e \in Events |-> IF e \in Settled THEN "implement" ELSE "none"]
  /\ stray = {}
  /\ startMsg = Settled /\ contMsg = [t \in Tasks |-> [d \in Events |-> {}]]
  /\ workspace = [t \in Tasks |-> IF t \in Settled \cup Manual THEN "clean" ELSE "absent"]
  /\ pc = "rest" /\ ev = NoEvent /\ held = NoTask /\ found = FALSE /\ dl = NoEvent
  /\ rowState = "none" /\ todo = {} /\ queue = {} /\ ctx = {}
  /\ tasksLeft = {} /\ tk = NoTask /\ blockedSub = {} /\ blockedSess = {}
  /\ cliPc = "idle" /\ cliTask = NoTask
  /\ edits = 0 /\ faults = 0
-----------------------------------------------------------------------------
(* The controller on GitHub *)

Post(e) ==
  /\ github[e] = "unposted"
  /\ \E c \in IF e \in Reviews THEN {"continue"} ELSE InitialCommands :
       github' = [github EXCEPT ![e] = c]
  /\ UNCHANGED <<dbVars, aged, opencodeVars, workspace, runVars, cliVars,
                 budgetVars>>

\* A review can only go away; a comment can say something else.  Closing the
\* subject, which withdraws everything but a cancel, is such an edit too.
Edit(e) ==
  /\ github[e] # "unposted" /\ e \notin Settled
  /\ edits < MaxEdits /\ edits' = edits + 1
  /\ \E c \in EditCommands \ {github[e]} :
       /\ e \in Reviews => c = "none"
       /\ github' = [github EXCEPT ![e] = c]
  /\ UNCHANGED <<dbVars, aged, opencodeVars, workspace, runVars, cliVars, faults>>

Age(e) ==
  /\ e \in Reviews \ aged /\ github[e] # "unposted"
  /\ aged' = aged \cup {e}
  /\ UNCHANGED <<dbVars, github, opencodeVars, workspace, runVars, cliVars,
                 budgetVars>>
-----------------------------------------------------------------------------
(* The agents, and a person in the web interface *)

AgentWorks(t) ==
  /\ sess[t] = "busy"
  /\ \/ sess' = [sess EXCEPT ![t] = "idle"] /\ UNCHANGED workspace
     \/ /\ t \in Events /\ UserPrompts /\ workspace[t] # "absent"
        /\ workspace' = [workspace EXCEPT ![t] = IF @ = "clean" THEN "dirty" ELSE "clean"]
        /\ UNCHANGED sess
  /\ UNCHANGED <<dbVars, githubVars, title, startMsg, contMsg, stray, runVars, cliVars,
                 budgetVars>>

PersonPrompts(t) ==
  /\ UserPrompts /\ sess[t] = "idle"
  /\ sess' = [sess EXCEPT ![t] = "busy"]
  /\ UNCHANGED <<dbVars, githubVars, title, startMsg, contMsg, stray, workspace, runVars,
                 cliVars, budgetVars>>
-----------------------------------------------------------------------------
(* poll_notifications: what has been posted may be discovered now or later *)

StartRun ==
  /\ pc = "rest" /\ pc' = "poll"
  /\ UNCHANGED <<dbVars, worldVars, workVars, cliVars, budgetVars>>

\* consider_mention and record_action: a new comment becomes an event, one
\* that was ignored may become actionable, the others keep their state; a
\* comment that is ambiguous now is ignored whatever it was.
Discover(e) ==
  /\ pc = "poll" /\ github[e] # "unposted"
  /\ \/ /\ github[e] \in Commands
        /\ evState[e] \in {"unseen", "ignored"}
        /\ UpdateEvent(e, "pending")
        /\ evAction' = [evAction EXCEPT ![e] = github[e]]
     \/ /\ github[e] = "none" /\ e \notin Reviews /\ evState[e] = "unseen"
        /\ UpdateEvent(e, "ignored") /\ UNCHANGED evAction
     \/ /\ github[e] = "ambiguous"
        /\ evState[e] \in {"unseen", "pending", "queued"}
        /\ UpdateEvent(e, "ignored") /\ UNCHANGED evAction
  /\ UNCHANGED <<taskState, mapping, deliveryVars, worldVars, runVars, cliVars,
                 budgetVars>>

EndPoll ==
  /\ pc = "poll" /\ pc' = "pending"
  /\ todo' = {e \in Events : evState[e] = "pending"}
  /\ UNCHANGED <<dbVars, worldVars, ev, held, found, dl, rowState, queue, ctx,
                 tasksLeft, tk, blockedSub, blockedSess, cliVars, budgetVars>>
-----------------------------------------------------------------------------
PendingStep(e) ==
  \/ TakeEvent(e) \/ EventCancel(e) \/ EventContinue(e) \/ EventStart(e)
  \/ EventUnmapped(e) \/ EventClosed(e) \/ EventDelivered(e)
  \/ ContinueCheck(e) \/ ContinueResume(e) \/ ContinueQueue(e) \/ ContinueQueued(e)
  \/ CancelRecords(e) \/ CancelAbort(e)

StartStep(e) ==
  \/ StartPrepare(e) \/ StartRecover(e) \/ AdoptTask(e) \/ AdoptMapping(e)
  \/ StartConfirm(e) \/ StartCreate(e) \/ StartSave(e) \/ StartPrompt(e)
  \/ StartMap(e) \/ StartActivate(e)
  \/ DiscardSession(e) \/ DiscardRecords(e) \/ DiscardWorkspace(e)

DispatchStep(e) ==
  \/ TakeDelivery(e) \/ RefreshEvent(e) \/ DispatchCancelled(e) \/ DropEvent(e)
  \/ MoveContext(e)

DispatchLoop == NothingLeft \/ SelectContexts \/ SealDelivery \/ PostPrompt \/ Finalize

UpkeepStep(t) == CompleteTask(t) \/ RetainTask(t) \/ BlockTask(t) \/ CollectTask(t)

UpkeepLoop == RemoveWorkspace \/ Collected

\* An exception that follows from the state.
Refusal ==
  \/ Refused /\ (PendingRaises \/ DispatchRaises)
  \/ DispatchRefused /\ DispatchRaises

Run ==
  \/ \E e \in Events : PendingStep(e) \/ StartStep(e) \/ DispatchStep(e)
  \/ EndPending \/ DispatchLoop \/ EndDispatch
  \/ (\E t \in Tasks : UpkeepStep(t)) \/ EndComplete \/ UpkeepLoop \/ EndRun
  \/ Refusal

\* The run is killed; systemd starts the next one.
Crash ==
  /\ pc # "rest" /\ Idle
  /\ UNCHANGED <<dbVars, worldVars, cliVars>>

Fault ==
  /\ faults < MaxFaults /\ faults' = faults + 1
  /\ \/ Crash
     \/ pc \in PendingCalls /\ PendingRaises
     \/ pc \in DispatchCalls /\ DispatchRaises
     \/ pc = "delivered" /\ evAction[ev] = "cancel" /\ (PendingRaises \/ DispatchRaises)
     \/ CleanupRaises \/ DeleteFails
  /\ UNCHANGED edits

Operator ==
  \/ \E t \in Tasks : DeleteCheck(t)
  \/ DeleteWorkspace \/ DeleteSession \/ DeleteRecords

Environment ==
  \/ \E e \in Events : Post(e) \/ Edit(e) \/ Age(e)
  \/ \E t \in Tasks : AgentWorks(t) \/ PersonPrompts(t)

Next ==
  \/ Environment
  \/ StartRun \/ (\E e \in Events : Discover(e)) \/ EndPoll
  \/ Run /\ UNCHANGED budgetVars
  \/ (\E p \in Subjects, t \in Tasks : RegisterPr(p, t)) /\ UNCHANGED budgetVars
  \/ Operator /\ UNCHANGED budgetVars
  \/ Fault

Spec == Init /\ [][Next]_vars

\* The timer starts another run after every run, a run goes on unless a fault
\* stops it, an agent that works comes to an end, an unregistered review gets
\* old, the head of a pull request does not move in every attempt to start on
\* it, and the 30 seconds a task must be quiet pass.  Nothing is assumed of the
\* controller, of discovery, of registrations or of an operator.
Fairness ==
  /\ WF_vars(StartRun) /\ WF_vars(EndPoll) /\ WF_vars(Run /\ UNCHANGED budgetVars)
  /\ \A e \in Reviews : WF_vars(Age(e))
  /\ \A e \in Events \ Settled :
       SF_vars(StartConfirm(e) /\ pc' = "create" /\ UNCHANGED budgetVars)
  /\ \A t \in Tasks :
       /\ WF_vars(AgentWorks(t) /\ sess'[t] = "idle")
       /\ SF_vars(CompleteTask(t) /\ taskState'[t] = "completed" /\ UNCHANGED budgetVars)

FairSpec == Spec /\ Fairness
=============================================================================
