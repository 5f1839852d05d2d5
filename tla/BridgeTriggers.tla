--------------------------- MODULE BridgeTriggers ----------------------------
(***************************************************************************)
(* The triggers that are not comments: the bot is assigned to an issue, or *)
(* requested as a reviewer of a pull request, and that may be withdrawn    *)
(* (pkgs/github-bridge/bridge.py: discover_issue_or_pr, the part of        *)
(* refresh_event for them, and what process_pending_events makes of them). *)
(* One subject, whose timeline grows while the bridge reads it; the        *)
(* position of an event in it is its GitHub ID.  A task and its session    *)
(* carry the number of the event that started them.                        *)
(***************************************************************************)
EXTENDS Naturals, Sequences, FiniteSets

CONSTANTS
  Kinds,      \* of "assignment" and "review_requested": what may be asked
  MayReopen,  \* may a closed subject be opened again?
  Ties,       \* may two events carry the same second?
  MaxEvents,  \* bound on the timeline
  MaxFaults   \* bound on calls that fail and runs that are killed

ASSUME TriggersAssumption ==
  /\ Kinds \subseteq {"assignment", "review_requested"}
  /\ MayReopen \in BOOLEAN /\ Ties \in BOOLEAN
  /\ MaxEvents \in Nat /\ MaxFaults \in Nat

VARIABLES
  kind,                \* what the bot is asked for: an issue or a review
  timeline,            \* the events, each with its actor and its second
  asked, open,         \* is the bot assigned or requested, the subject open?
  evState,             \* table events
  task, mapping,       \* tables tasks and mappings
  prompted, busy,      \* sessions with their first prompt, and at work
  pc,
  sawAsked, sawOpen,   \* what the scan has read, sawOpen also in table subjects
  seen, next,          \* the events it has read, and the next to look at
  todo, ev,            \* pending events of the run, and the one it works on
  faults

githubVars == <<kind, timeline, asked, open>>
dbVars     == <<evState, task, mapping>>
agentVars  == <<prompted, busy>>
scanVars   == <<sawAsked, sawOpen, seen, next>>
workVars   == <<todo, ev>>
vars == <<githubVars, dbVars, agentVars, pc, scanVars, workVars, faults>>

Numbers == 1..MaxEvents
Actors  == {"controller", "other"}
Whats   == {"given", "withdrawn", "closed", "reopened"}

Init ==
  /\ kind \in Kinds /\ timeline = <<>> /\ asked = FALSE /\ open = TRUE
  /\ evState = [k \in Numbers |-> "unseen"]
  /\ task = [k \in Numbers |-> "none"] /\ mapping = 0
  /\ prompted = {} /\ busy = {} /\ pc = "rest"
  /\ sawAsked = FALSE /\ sawOpen = TRUE /\ seen = 0 /\ next = 1
  /\ todo = {} /\ ev = 0 /\ faults = 0

\* The latest of the first n events that gives or withdraws; 0 if none does.
Latest(n) ==
  LET changes == {k \in 1..n : timeline[k].what \in {"given", "withdrawn"}}
  IN IF changes = {} THEN 0 ELSE CHOOSE k \in changes : \A j \in changes : j <= k
-----------------------------------------------------------------------------
(* GitHub and the agents *)

Happens(what, by) ==
  /\ Len(timeline) < MaxEvents
  /\ \E tie \in {FALSE, Ties} :
       LET last == IF timeline = <<>> THEN 0 ELSE timeline[Len(timeline)].at
       IN timeline' = Append(timeline,
            [what |-> what, by |-> by, at |-> IF tie THEN last ELSE last + 1])
  /\ UNCHANGED <<kind, dbVars, agentVars, pc, scanVars, workVars, faults>>

Give(by)     == ~asked /\ asked' = TRUE /\ Happens("given", by) /\ UNCHANGED open
Withdraw(by) == asked /\ asked' = FALSE /\ Happens("withdrawn", by) /\ UNCHANGED open
Close(by)    == open /\ open' = FALSE /\ Happens("closed", by) /\ UNCHANGED asked
Reopen(by)   == /\ MayReopen /\ ~open /\ open' = TRUE
                /\ Happens("reopened", by) /\ UNCHANGED asked

\* A session comes to rest; one that reviews has submitted its review, which
\* ends the request without an event.
AgentRests(k) ==
  /\ k \in busy /\ busy' = busy \ {k}
  /\ asked' \in IF kind = "review_requested" THEN {asked, FALSE} ELSE {asked}
  /\ UNCHANGED <<kind, timeline, open, dbVars, prompted, pc, scanVars, workVars, faults>>
-----------------------------------------------------------------------------
(* discover_issue_or_pr *)

\* The subject, with its assignees, is what the scan starts from.
ReadSubject ==
  /\ pc = "rest" /\ pc' = "events"
  /\ sawAsked' = asked /\ sawOpen' = open
  /\ UNCHANGED <<githubVars, dbVars, agentVars, seen, next, workVars, faults>>

ReadEvents ==
  /\ pc = "events" /\ seen' = Len(timeline) /\ next' = 1
  /\ pc' = IF kind = "assignment" THEN "consider" ELSE "reviewers"
  /\ UNCHANGED <<githubVars, dbVars, agentVars, sawAsked, sawOpen, workVars, faults>>

\* Mutant of ReadReviewers: the reviewers come with the pull request.
ReadReviewersStale ==
  /\ pc = "reviewers" /\ pc' = "consider"
  /\ UNCHANGED <<githubVars, dbVars, agentVars, scanVars, workVars, faults>>

\* Requested reviewers are read after the events.
ReadReviewers ==
  /\ pc = "reviewers" /\ pc' = "consider" /\ sawAsked' = asked
  /\ UNCHANGED <<githubVars, dbVars, agentVars, sawOpen, seen, next, workVars, faults>>

\* Is the event one to act on?  Reopening is never recorded.
Accepted(k) ==
  /\ timeline[k].by = "controller"
  /\ CASE timeline[k].what = "given"     -> sawAsked /\ sawOpen /\ k = Latest(seen)
       [] timeline[k].what = "withdrawn" -> mapping # 0 /\ task[mapping] # "none"
       [] timeline[k].what = "closed"    -> TRUE

\* Mutant of Consider: what was ignored is looked at again.
ConsiderAgain ==
  /\ pc = "consider" /\ next <= seen /\ next' = next + 1
  /\ IF evState[next] = "delivered" \/ timeline[next].what = "reopened"
     THEN UNCHANGED evState
     ELSE IF Accepted(next)
     THEN evState' = [evState EXCEPT ![next] = "pending"]
     ELSE evState' = [evState EXCEPT ![next] = IF @ = "unseen" THEN "ignored" ELSE @]
  /\ UNCHANGED <<githubVars, task, mapping, agentVars, pc, sawAsked, sawOpen, seen,
                 workVars, faults>>

\* The next event; one that is ignored or delivered stays so, one that is
\* pending keeps waiting.
Consider ==
  /\ pc = "consider" /\ next <= seen /\ next' = next + 1
  /\ IF evState[next] # "unseen" \/ timeline[next].what = "reopened"
     THEN UNCHANGED evState
     ELSE evState' = [evState EXCEPT ![next] =
                        IF Accepted(next) THEN "pending" ELSE "ignored"]
  /\ UNCHANGED <<githubVars, task, mapping, agentVars, pc, sawAsked, sawOpen, seen,
                 workVars, faults>>

EndScan ==
  /\ pc = "consider" /\ next > seen /\ pc' = "pending"
  /\ todo' = {k \in Numbers : evState[k] = "pending"}
  /\ UNCHANGED <<githubVars, dbVars, agentVars, scanVars, ev, faults>>
-----------------------------------------------------------------------------
(* process_pending_events *)

\* pending_events: by second, then starts before cancels, then by GitHub ID.
Before(j, k) ==
  LET rank(e) == IF timeline[e].what = "given" THEN 0 ELSE 2
  IN \/ timeline[j].at < timeline[k].at
     \/ /\ timeline[j].at = timeline[k].at
        /\ rank(j) < rank(k) \/ (rank(j) = rank(k) /\ j < k)

EventDone == pc' = "pending" /\ ev' = 0

Take(k) ==
  /\ pc = "pending" /\ k \in todo /\ \A j \in todo \ {k} : Before(k, j)
  /\ todo' = todo \ {k}
  /\ IF timeline[k].what = "given" /\ ~sawOpen
     THEN /\ evState' = [evState EXCEPT ![k] = "ignored"]
          /\ UNCHANGED <<pc, ev>>
     ELSE /\ ev' = k /\ UNCHANGED evState
          /\ pc' = IF timeline[k].what = "given" THEN "start"
                   ELSE IF mapping # 0 THEN "cancel" ELSE "done"
  /\ UNCHANGED <<githubVars, task, mapping, agentVars, scanVars, faults>>

EndPending ==
  /\ pc = "pending" /\ todo = {} /\ pc' = "rest"
  /\ UNCHANGED <<githubVars, dbVars, agentVars, scanVars, workVars, faults>>

\* A session that was prompted by an earlier run is taken over; otherwise the
\* event must be the latest still, the bot asked, and the subject open.
Start ==
  /\ pc = "start"
  /\ IF ev \in prompted
     THEN /\ task' = [task EXCEPT ![ev] = "active"] /\ pc' = "map"
          /\ UNCHANGED <<evState, sawOpen, ev>>
     ELSE /\ sawOpen' = open
          /\ IF asked /\ open /\ ev = Latest(Len(timeline))
             THEN /\ task' = [task EXCEPT ![ev] = "queued"] /\ pc' = "prompt"
                  /\ UNCHANGED <<evState, ev>>
             ELSE /\ task' = [task EXCEPT ![ev] = "none"]
                  /\ evState' = [evState EXCEPT ![ev] = "ignored"] /\ EventDone
  /\ UNCHANGED <<githubVars, mapping, agentVars, sawAsked, seen, next, todo, faults>>

Prompt ==
  /\ pc = "prompt" /\ pc' = "map"
  /\ prompted' = prompted \cup {ev} /\ busy' = busy \cup {ev}
  /\ UNCHANGED <<githubVars, dbVars, scanVars, workVars, faults>>

Map ==
  /\ pc = "map" /\ pc' = "activate" /\ mapping' = ev
  /\ UNCHANGED <<githubVars, evState, task, agentVars, scanVars, workVars, faults>>

Activate ==
  /\ pc = "activate" /\ pc' = "done" /\ task' = [task EXCEPT ![ev] = "active"]
  /\ UNCHANGED <<githubVars, evState, mapping, agentVars, scanVars, workVars, faults>>

\* cancel: first the records, ...
CancelRecords ==
  /\ pc = "cancel" /\ pc' = "abort" /\ task' = [task EXCEPT ![mapping] = "paused"]
  /\ UNCHANGED <<githubVars, evState, mapping, agentVars, scanVars, workVars, faults>>

\* ... then the session.
Abort ==
  /\ pc = "abort" /\ pc' = "done" /\ busy' = busy \ {mapping}
  /\ UNCHANGED <<githubVars, dbVars, prompted, scanVars, workVars, faults>>

Delivered ==
  /\ pc = "done" /\ evState' = [evState EXCEPT ![ev] = "delivered"] /\ EventDone
  /\ UNCHANGED <<githubVars, task, mapping, agentVars, scanVars, todo, faults>>

\* A call fails, or its answer is lost: the event stays pending, and holds back
\* the later ones of its subject.  Killing the run has the same outcome.
Fault ==
  /\ pc # "rest" /\ faults < MaxFaults /\ faults' = faults + 1
  /\ pc' = "rest" /\ todo' = {} /\ ev' = 0
  /\ UNCHANGED <<githubVars, dbVars, agentVars, scanVars>>
-----------------------------------------------------------------------------
Scan == ReadSubject \/ ReadEvents \/ ReadReviewers \/ Consider \/ EndScan

Processing ==
  \/ (\E k \in Numbers : Take(k)) \/ EndPending
  \/ Start \/ Prompt \/ Map \/ Activate \/ CancelRecords \/ Abort \/ Delivered

GitHub ==
  \/ \E by \in Actors : Give(by) \/ Withdraw(by) \/ Close(by) \/ Reopen(by)
  \/ \E k \in Numbers : AgentRests(k)

Next == GitHub \/ Scan \/ Processing \/ Fault

Spec == Init /\ [][Next]_vars

\* Runs follow each other and go on.  Nothing is assumed of GitHub or of agents.
FairSpec == Spec /\ WF_vars(Scan) /\ WF_vars(Processing)
-----------------------------------------------------------------------------
(* What the triggers promise *)

\* The state has its types; a task has a started event, the mapping a task.
TriggersTypeOK ==
  /\ Len(timeline) <= MaxEvents /\ seen <= Len(timeline) /\ next <= seen + 1
  /\ \A k \in Numbers : evState[k] # "unseen" => k <= Len(timeline)
  /\ \A k \in Numbers : task[k] # "none" => timeline[k].what = "given"
  /\ busy \subseteq prompted /\ mapping \in prompted \cup {0}

\* The bot is asked by event k of the controller, still, and the subject was
\* never closed.
Wanted(k) ==
  /\ k <= Len(timeline) /\ k = Latest(Len(timeline)) /\ asked
  /\ timeline[k].what = "given" /\ timeline[k].by = "controller"
  /\ \A j \in 1..Len(timeline) : timeline[j].what # "closed"

\* "Controller performed the assignment and the bot remains assigned", and the
\* same of review requests (README.md:963-964): what is wanted is not passed
\* over, however the timeline grows while it is read.  Of assignments this leaves
\* out the one that falls between the reads of the issue and of its timeline.
CurrentIsTaken ==
  [][\A k \in Numbers :
       Wanted(k) /\ evState[k] # "ignored" /\ evState'[k] = "ignored"
       => kind = "assignment" /\ pc = "consider" /\ ~sawAsked]_vars

\* A withdrawal pauses what was started before it, never what was asked for
\* later, although events are considered and processed in different runs.
CancelsOlder ==
  [][\A k \in Numbers : task'[k] = "paused" /\ task[k] # "paused" => k < ev]_vars

\* The subject is mapped to the latest task that was started for it.
NewestIsMapped ==
  \A k \in Numbers :
    evState[k] = "delivered" /\ timeline[k].what = "given" => mapping >= k

\* When the controller withdraws or closes, the session that works on it is
\* stopped, or has made room for a later one
\* (test_unassign_reassign_pauses_old_task_before_replacement,
\* tests/github-bridge/test_bridge.py:745).
WithdrawnIsStopped ==
  \A k \in Numbers :
    /\ k <= Len(timeline) /\ timeline[k].by = "controller"
    /\ timeline[k].what \in {"withdrawn", "closed"}
    ~> mapping = 0 \/ mapping > k \/ mapping \notin busy
=============================================================================
