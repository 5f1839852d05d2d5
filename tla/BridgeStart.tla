----------------------------- MODULE BridgeStart -----------------------------
(***************************************************************************)
(* start_task and discard_unprompted_task: an event gets a workspace, a    *)
(* session and a first prompt of its own.  Each is found again by an       *)
(* identity derived from the event, so a retry continues what a killed run *)
(* left behind.                                                            *)
(***************************************************************************)
EXTENDS BridgeFeedback

\* The action start_task was called with: a review without a session starts
\* an implementation.
StartAction(e) == IF e \in Reviews THEN "implement" ELSE evAction[e]

\* The session an earlier run made for this command is found by its title; a
\* session made for another command is not.
Found(e) == sess[e] # "none" /\ title[e] = StartAction(e)

\* The limit is not applied to an event that already has a task.  A workspace
\* prepared for another command is replaced.
StartPrepare(e) ==
  /\ At("start", e)
  /\ taskState[e] # "none" \/ ActiveCount < MaxTasks
  /\ workspace' = [workspace EXCEPT ![e] =
       IF @ = "absent" \/ title[e] \notin {"none", StartAction(e)} THEN "clean" ELSE @]
  /\ Goto("recover")
  /\ UNCHANGED <<dbVars, githubVars, opencodeVars, cliVars, workVars>>

\* Mutant of StartRecover: a prompted session is not recognised.
StartRecoverNever(e) ==
  /\ At("recover", e)
  /\ found' = Found(e)
  /\ Goto("confirm")
  /\ UNCHANGED <<dbVars, worldVars, cliVars, ev, held, loopVars>>

\* find_session and message_exists: was the prompt of an earlier run accepted?
StartRecover(e) ==
  /\ At("recover", e)
  /\ found' = Found(e)
  /\ Goto(IF Found(e) /\ e \in startMsg THEN "adopt" ELSE "confirm")
  /\ UNCHANGED <<dbVars, worldVars, cliVars, ev, held, loopVars>>

AdoptTask(e) ==
  /\ At("adopt", e)
  /\ SaveTask(e, "active")
  /\ Goto("adoptmap")
  /\ UNCHANGED <<eventVars, mapping, deliveryVars, worldVars, cliVars, workVars>>

AdoptMapping(e) ==
  /\ At("adoptmap", e)
  /\ ActivateMapping(SubjectOf[e], e)
  /\ Goto("delivered")
  /\ UNCHANGED <<eventVars, taskState, deliveryVars, worldVars, cliVars, workVars>>

\* refresh_event at the last point before the session: go on only if GitHub
\* still asks for the prepared action, at the prepared head (headMoved is a
\* pull request whose head_sha changed meanwhile).
StartConfirm(e) ==
  /\ At("confirm", e)
  /\ \E headMoved \in {FALSE, SubjectOf[e] \in PullRequests} :
       IF github[e] \in {"none", "ambiguous"}
         THEN /\ UpdateEvent(e, "ignored") /\ UNCHANGED evAction
              /\ Goto("discard")
         ELSE /\ evAction' = [evAction EXCEPT ![e] = github[e]]
              /\ UNCHANGED evState
              /\ Goto(IF headMoved \/ (e \notin Reviews /\ github[e] # StartAction(e))
                        THEN "discard" ELSE "create")
  /\ UNCHANGED <<taskState, mapping, deliveryVars, worldVars, cliVars, workVars>>

\* A session that was prompted under another title is left behind: from here on
\* the bridge knows only the new one.
StartCreate(e) ==
  /\ At("create", e)
  /\ IF found
       THEN UNCHANGED opencodeVars
       ELSE /\ sess' = [sess EXCEPT ![e] = "idle"]
            /\ title' = [title EXCEPT ![e] = StartAction(e)]
            /\ stray' = stray \cup ({e} \cap startMsg)
            /\ startMsg' = startMsg \ {e}
            /\ contMsg' = [contMsg EXCEPT ![e] = [d \in Events |-> {}]]
  /\ Goto("save")
  /\ UNCHANGED <<dbVars, githubVars, workspace, cliVars, workVars>>

\* Mutant of StartSave: the subject is mapped before the first prompt.
StartSaveMaps(e) ==
  /\ At("save", e)
  /\ SaveTask(e, "queued")
  /\ ActivateMapping(SubjectOf[e], e)
  /\ Goto("prompt")
  /\ UNCHANGED <<eventVars, deliveryVars, worldVars, cliVars, workVars>>

StartSave(e) ==
  /\ At("save", e)
  /\ SaveTask(e, "queued")
  /\ Goto("prompt")
  /\ UNCHANGED <<eventVars, mapping, deliveryVars, worldVars, cliVars, workVars>>

\* A lost response is PendingRaises at "map".
StartPrompt(e) ==
  /\ At("prompt", e)
  /\ sess[e] # "none"
  /\ IF e \in startMsg THEN UNCHANGED <<startMsg, sess>>
       ELSE /\ startMsg' = startMsg \cup {e}
            /\ sess' = [sess EXCEPT ![e] = "busy"]
  /\ Goto("map")
  /\ UNCHANGED <<dbVars, githubVars, title, contMsg, stray, workspace, cliVars,
                 workVars>>

StartMap(e) ==
  /\ At("map", e)
  /\ ActivateMapping(SubjectOf[e], e)
  /\ Goto("activate")
  /\ UNCHANGED <<eventVars, taskState, deliveryVars, worldVars, cliVars, workVars>>

StartActivate(e) ==
  /\ At("activate", e)
  /\ SetTaskState(e, "active")
  /\ Goto("delivered")
  /\ UNCHANGED <<eventVars, mapping, deliveryVars, worldVars, cliVars, workVars>>
-----------------------------------------------------------------------------
(* discard_unprompted_task *)

\* The session found by title and the one the task row names are deleted; a
\* failure to delete it is ignored.  Without either there is nothing but the
\* workspace to remove.
DiscardSession(e) ==
  /\ At("discard", e)
  /\ IF ~found /\ taskState[e] = "none"
       THEN Goto("discardspace") /\ UNCHANGED opencodeVars
       ELSE /\ Goto("discardrecords")
            /\ DropSession(e) \/ UNCHANGED opencodeVars
  /\ UNCHANGED <<dbVars, githubVars, workspace, cliVars, workVars>>

DiscardRecords(e) ==
  /\ At("discardrecords", e)
  /\ DeleteSessionRecords(e)
  /\ Goto("discardspace")
  /\ UNCHANGED <<eventVars, worldVars, cliVars, workVars>>

DiscardWorkspace(e) ==
  /\ At("discardspace", e)
  /\ workspace' = [workspace EXCEPT ![e] = "absent"]
  /\ EventDone
  /\ UNCHANGED <<dbVars, githubVars, opencodeVars, cliVars, loopVars>>
=============================================================================
