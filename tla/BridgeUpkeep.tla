---------------------------- MODULE BridgeUpkeep -----------------------------
(***************************************************************************)
(* update_completed_tasks, cleanup_tasks, register_pr and the command line *)
(* delete-session, which is a process of its own and may run beside the    *)
(* bridge.  The 30 seconds of update_completed_tasks and the retention     *)
(* period of cleanup_tasks may or may not be over when a task is looked    *)
(* at: a task may be passed over in any run.                               *)
(***************************************************************************)
EXTENDS BridgeStart

CONSTANT Deletable   \* the tasks an operator may delete
ASSUME UpkeepAssumption == Deletable \subseteq Tasks

Collectable == {"completed", "cleanup_blocked", "collecting"}

\* Steps of the two loops leave these alone.
UpkeepFrame == UNCHANGED <<eventVars, mapping, deliveryVars, githubVars,
                           opencodeVars, cliVars, ev, held, found, dl, rowState, todo,
                           queue, ctx, blockedSub, blockedSess>>
-----------------------------------------------------------------------------
(* update_completed_tasks *)

EndDispatch ==
  /\ pc = "dispatch" /\ queue = {}
  /\ tasksLeft' = {t \in Tasks : taskState[t] = "active"}
  /\ Goto("complete")
  /\ UNCHANGED <<taskState, workspace, tk>> /\ UpkeepFrame

CompleteTask(t) ==
  /\ pc = "complete" /\ t \in tasksLeft
  /\ tasksLeft' = tasksLeft \ {t}
  /\ \/ sess[t] # "busy" /\ SetTaskState(t, "completed")
     \/ UNCHANGED taskState
  /\ UNCHANGED <<workspace, pc, tk>> /\ UpkeepFrame
-----------------------------------------------------------------------------
(* cleanup_tasks *)

EndComplete ==
  /\ pc = "complete" /\ tasksLeft = {}
  /\ tasksLeft' = {t \in Events : taskState[t] \in Collectable}
  /\ Goto("cleanup")
  /\ UNCHANGED <<taskState, workspace, tk>> /\ UpkeepFrame

RetainTask(t) ==
  /\ pc = "cleanup" /\ t \in tasksLeft
  /\ tasksLeft' = tasksLeft \ {t}
  /\ UNCHANGED <<taskState, workspace, pc, tk>> /\ UpkeepFrame

\* Mutant of Blocking: feedback that waits for the session does not block.
BlockingIdle(t) == sess[t] = "busy" \/ workspace[t] # "clean"

\* Feedback that is not delivered, a session at work, and a workspace that is
\* not clean (or cannot be inspected, because it is not there) block.
Blocking(t) == LiveDeliveries(t) # {} \/ sess[t] = "busy" \/ workspace[t] # "clean"

BlockTask(t) ==
  /\ pc = "cleanup" /\ t \in tasksLeft
  /\ taskState[t] # "collecting" /\ Blocking(t)
  /\ SetTaskState(t, "cleanup_blocked")
  /\ tasksLeft' = tasksLeft \ {t}
  /\ UNCHANGED <<workspace, pc, tk>> /\ UpkeepFrame

\* A task already in state collecting is one a killed run left: it goes on
\* with the removal and is not looked at again.
CollectTask(t) ==
  /\ pc = "cleanup" /\ t \in tasksLeft
  /\ taskState[t] = "collecting" \/ ~Blocking(t)
  /\ SetTaskState(t, "collecting")
  /\ tasksLeft' = tasksLeft \ {t} /\ tk' = t
  /\ Goto("remove")
  /\ UNCHANGED workspace /\ UpkeepFrame

RemoveWorkspace ==
  /\ pc = "remove"
  /\ workspace' = [workspace EXCEPT ![tk] = "absent"]
  /\ Goto("collected")
  /\ UNCHANGED <<taskState, tasksLeft, tk>> /\ UpkeepFrame

Collected ==
  /\ pc = "collected"
  /\ SetTaskState(tk, "collected")
  /\ tk' = NoTask /\ Goto("cleanup")
  /\ UNCHANGED <<workspace, tasksLeft>> /\ UpkeepFrame

\* except Exception: a task that is being collected stays so for a later run,
\* any other is blocked.
CleanupRaises ==
  \/ /\ pc \in {"remove", "collected"}
     /\ tk' = NoTask /\ Goto("cleanup")
     /\ UNCHANGED <<taskState, workspace, tasksLeft>> /\ UpkeepFrame
  \/ /\ pc = "cleanup"
     /\ \E t \in tasksLeft : /\ taskState[t] # "collecting"
                             /\ SetTaskState(t, "cleanup_blocked")
                             /\ tasksLeft' = tasksLeft \ {t}
     /\ UNCHANGED <<workspace, pc, tk>> /\ UpkeepFrame

EndRun ==
  /\ pc = "cleanup" /\ tasksLeft = {}
  /\ Goto("rest")
  /\ UNCHANGED <<taskState, workspace, tasksLeft, tk>> /\ UpkeepFrame
-----------------------------------------------------------------------------
(* register_pr, at the start or the end of a run: a session asks for the   *)
(* feedback on a pull request it made.  Only a session that was prompted can. *)

RegisterPr(p, t) ==
  /\ pc = "rest" /\ p \in PullRequests /\ sess[t] # "none"
  /\ t \in startMsg \cup Manual
  /\ mapping[p] # t \/ taskState[t] = "none"
  /\ taskState' = [taskState EXCEPT ![t] = IF @ = "none" THEN "active" ELSE @]
  /\ ActivateMapping(p, t)
  /\ UNCHANGED <<eventVars, deliveryVars, worldVars, runVars, cliVars>>
-----------------------------------------------------------------------------
(* delete_session *)

DeleteCheck(t) ==
  /\ cliPc = "idle" /\ t \in Deletable
  /\ taskState[t] \notin ActiveStates \cup {"none"}
  /\ sess[t] # "busy"
  /\ cliPc' = IF t \in Events /\ taskState[t] # "collected" THEN "remove" ELSE "delete"
  /\ cliTask' = t
  /\ UNCHANGED <<dbVars, worldVars, runVars>>

DeleteWorkspace ==
  /\ cliPc = "remove"
  /\ workspace' = [workspace EXCEPT ![cliTask] = "absent"]
  /\ cliPc' = "delete"
  /\ UNCHANGED <<dbVars, githubVars, opencodeVars, runVars, cliTask>>

DeleteSession ==
  /\ cliPc = "delete"
  /\ DropSession(cliTask)
  /\ cliPc' = "records"
  /\ UNCHANGED <<dbVars, githubVars, workspace, runVars, cliTask>>

DeleteRecords ==
  /\ cliPc = "records"
  /\ DeleteSessionRecords(cliTask)
  /\ cliPc' = "idle" /\ cliTask' = NoTask
  /\ UNCHANGED <<eventVars, worldVars, runVars>>

DeleteFails ==
  /\ cliPc # "idle"
  /\ cliPc' = "idle" /\ cliTask' = NoTask
  /\ UNCHANGED <<dbVars, worldVars, runVars>>
=============================================================================
