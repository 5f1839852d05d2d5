----------------------------- MODULE BridgePoll ------------------------------
(***************************************************************************)
(* How the bridge finds out what happened on GitHub: poll_notifications,   *)
(* discover_notification, consider_mention and record_action of            *)
(* pkgs/github-bridge/bridge.py, with the cursor, the baseline and the     *)
(* time of the last complete scan that it keeps in the table metadata.     *)
(* Bridge has what follows for an event that was recorded.                 *)
(*                                                                         *)
(* Time is in minutes and relative: age is how long ago an object was      *)
(* posted, gap how old it was at the last complete scan.  Both stop        *)
(* counting just beyond Grace, where they no longer tell anything apart,   *)
(* and are dropped when the object is recorded: nobody asks again.         *)
(***************************************************************************)
EXTENDS Naturals, FiniteSets

CONSTANTS
  Items,        \* comments and submitted reviews
  Reviews,      \* the items that are reviews
  Authorized,   \* the items of the controller
  Subjects,     \* issues, pull requests and discussions
  SubjectOf,    \* the subject of each item
  Grace,        \* EVENT_PROPAGATION_GRACE
  Delay,        \* how late GitHub may notify of an item
  ScanTime,     \* how long a poll may take
  NoSubject,
  DryRun,       \* config.dry_run at first
  MaxEdits,     \* bound on edits of comments
  MaxFailures,  \* bound on subjects that cannot be read
  MaxCrashes    \* bound on runs that are killed

ASSUME PollAssumption ==
  /\ IsFiniteSet(Items) /\ Reviews \subseteq Items /\ Authorized \subseteq Items
  /\ SubjectOf \in [Items -> Subjects] /\ NoSubject \notin Subjects
  /\ Grace \in Nat /\ Delay \in Nat /\ ScanTime \in Nat
  /\ DryRun \in BOOLEAN
  /\ MaxEdits \in Nat /\ MaxFailures \in Nat /\ MaxCrashes \in Nat

VARIABLES
  content,      \* what each item says
  notified,     \* the items GitHub has notified of; none is marked read
  age,          \* of each item
  edited,       \* the comments that were edited
  ancient,      \* the items that were there before the bridge
  fresh,        \* the items posted since the first complete scan
  evState,      \* table events
  cursor,       \* notifications_last_modified: what had been notified of then, if
                \* anything is stored
  initialized,  \* notifications_initialized
  scanned,      \* is there a last_event_scan_at?
  gap,          \* how old each item was then
  due,          \* next_poll_at has passed
  dryRun,       \* config.dry_run
  pc, baseline, cutoff, fetched, todo, subject, page, failed,  \* the poll
  took,         \* how long it has taken
  edits, failures, crashes

githubVars == <<content, notified, age, edited, ancient, fresh>>
metaVars   == <<cursor, initialized, scanned, gap>>
localVars  == <<baseline, cutoff, fetched>>
scanVars   == <<todo, subject, page, failed>>
boundVars  == <<edits, failures, crashes>>
vars == <<githubVars, evState, metaVars, due, dryRun, pc, localVars, scanVars,
          took, boundVars>>

Final     == {"baseline", "delivered", "dry-run"}
Contents  == {"unposted", "command", "none", "ambiguous"}
States    == Final \cup {"unseen", "ignored", "pending"}
Posted    == {i \in Items : content[i] # "unposted"}
Blank     == [i \in Items |-> "unposted"]
Older(n)  == IF n > Grace THEN n ELSE n + 1

\* Before the bridge was installed there may be items, notified of or not.
Init ==
  /\ content \in [Items -> {"unposted", "command", "none"}]
  /\ \A i \in Reviews : content[i] # "none"
  /\ ancient = Posted /\ notified \in SUBSET ancient
  /\ age = [i \in Items |-> IF i \in ancient THEN Grace + 1 ELSE 0]
  /\ edited = {} /\ fresh = {}
  /\ evState = [i \in Items |-> "unseen"]
  /\ cursor = {} /\ initialized = FALSE /\ scanned = FALSE
  /\ gap = [i \in Items |-> 0] /\ due = TRUE /\ dryRun = DryRun
  /\ pc = "rest" /\ baseline = FALSE /\ cutoff = FALSE /\ fetched = {}
  /\ todo = {} /\ subject = NoSubject /\ page = Blank /\ failed = FALSE
  /\ took = 0 /\ edits = 0 /\ failures = 0 /\ crashes = 0
-----------------------------------------------------------------------------
(* GitHub, the controller and the clock *)

Post(i) ==
  /\ content[i] = "unposted"
  /\ \E c \in IF i \in Reviews THEN {"command"} ELSE Contents \ {"unposted"} :
       content' = [content EXCEPT ![i] = c]
  /\ fresh' = IF initialized THEN fresh \cup {i} ELSE fresh
  /\ UNCHANGED <<notified, age, edited, ancient, evState, metaVars, due, dryRun, pc,
                 localVars, scanVars, took, boundVars>>

Edit(i) ==
  /\ i \in Posted \ Reviews /\ edits < MaxEdits /\ edits' = edits + 1
  /\ \E c \in Contents \ {"unposted", content[i]} :
       content' = [content EXCEPT ![i] = c]
  /\ edited' = edited \cup {i}
  /\ UNCHANGED <<notified, age, ancient, fresh, evState, metaVars, due, dryRun, pc,
                 localVars, scanVars, took, failures, crashes>>

Notify(i) ==
  /\ i \in Posted \ (ancient \cup notified)
  /\ notified' = notified \cup {i}
  /\ UNCHANGED <<content, age, edited, ancient, fresh, evState, metaVars, due, dryRun,
                 pc, localVars, scanVars, took, boundVars>>

\* A minute passes: GitHub notifies within Delay, a poll ends within ScanTime.
Tick ==
  /\ \A i \in Posted \ (ancient \cup notified) : evState[i] = "unseen" => age[i] < Delay
  /\ pc = "rest" \/ took < ScanTime
  /\ age' = [i \in Items |->
       IF i \in Posted /\ evState[i] = "unseen" THEN Older(age[i]) ELSE 0]
  /\ took' = IF pc = "rest" THEN took ELSE took + 1
  /\ UNCHANGED <<content, notified, edited, ancient, fresh, evState, metaVars, due,
                 dryRun, pc, localVars, scanVars, boundVars>>

IntervalPasses ==
  /\ pc = "rest" /\ ~due /\ due' = TRUE
  /\ UNCHANGED <<githubVars, evState, metaVars, dryRun, pc, localVars, scanVars, took,
                 boundVars>>

\* The host is rebuilt with dryRun = false.
GoLive ==
  /\ dryRun /\ pc = "rest" /\ dryRun' = FALSE
  /\ UNCHANGED <<githubVars, evState, metaVars, due, pc, localVars, scanVars, took,
                 boundVars>>
-----------------------------------------------------------------------------
(* poll_notifications *)

Rest ==
  /\ pc' = "rest" /\ baseline' = FALSE /\ cutoff' = FALSE /\ fetched' = {}
  /\ todo' = {} /\ subject' = NoSubject /\ page' = Blank /\ failed' = FALSE
  /\ took' = 0

\* The notifications are fetched, unless nothing changed since the cursor: then
\* the poll only notes the time.
Fetch ==
  /\ pc = "rest" /\ due /\ due' = FALSE
  /\ IF notified \in cursor
     THEN /\ pc' = "initialize" /\ UNCHANGED <<localVars, todo>>
     ELSE /\ pc' = "scan"
          /\ baseline' = ~initialized /\ cutoff' = scanned
          /\ fetched' = notified /\ todo' = {SubjectOf[i] : i \in notified}
  /\ UNCHANGED <<githubVars, evState, metaVars, dryRun, subject, page, failed, took,
                 boundVars>>

\* discover_notification: the comments of the next subject, ...
ReadComments(s) ==
  /\ pc = "scan" /\ s \in todo
  /\ todo' = todo \ {s} /\ subject' = s /\ pc' = "comments"
  /\ page' = [i \in Items |->
       IF SubjectOf[i] = s /\ i \notin Reviews THEN content[i] ELSE "unposted"]
  /\ UNCHANGED <<githubVars, evState, metaVars, due, dryRun, localVars, failed, took,
                 boundVars>>

\* ... and its reviews.
ReadReviews ==
  /\ pc = "comments" /\ page = Blank /\ pc' = "reviews"
  /\ page' = [i \in Items |->
       IF SubjectOf[i] = subject /\ i \in Reviews THEN content[i] ELSE "unposted"]
  /\ UNCHANGED <<githubVars, evState, metaVars, due, dryRun, localVars, todo, subject,
                 failed, took, boundVars>>

EndSubject ==
  /\ pc = "reviews" /\ page = Blank
  /\ pc' = "scan" /\ subject' = NoSubject
  /\ UNCHANGED <<githubVars, evState, metaVars, due, dryRun, localVars, todo, page,
                 failed, took, boundVars>>

\* A subject that cannot be read, or only in part, does not keep the others from
\* being read.
SubjectFails ==
  /\ failures < MaxFailures /\ failures' = failures + 1 /\ failed' = TRUE
  /\ \/ pc = "scan" /\ \E s \in todo : todo' = todo \ {s} /\ UNCHANGED <<pc, subject>>
     \/ /\ pc \in {"comments", "reviews"} /\ page = Blank
        /\ pc' = "scan" /\ subject' = NoSubject /\ UNCHANGED todo
  /\ UNCHANGED <<githubVars, evState, metaVars, due, dryRun, localVars, page, took,
                 edits, crashes>>

\* Mutant of Historical: without the grace.
HistoricalAtOnce(i) == cutoff /\ gap[i] > 0

Historical(i) == cutoff /\ gap[i] > Grace

\* record_action, of an item that calls for an action or does not.
RecordAction(i, acts) ==
  LET state ==
        IF baseline \/ (evState[i] = "unseen" /\ Historical(i)) THEN "baseline"
        ELSE IF ~acts THEN "ignored"
        ELSE IF dryRun THEN "dry-run" ELSE "pending"
  IN evState' =
       IF evState[i] = "unseen" \/ (evState[i] = "ignored" /\ acts)
         THEN [evState EXCEPT ![i] = state] ELSE evState

\* consider_mention: an ambiguous comment is ignored whatever it was.
ConsiderMention(i) ==
  IF evState[i] \in Final THEN UNCHANGED evState
  ELSE IF i \in Authorized /\ page[i] = "ambiguous"
    THEN evState' = [evState EXCEPT ![i] = "ignored"]
  ELSE RecordAction(i, i \in Authorized /\ page[i] = "command")

ConsiderReview(i) ==
  IF evState[i] \in Final \cup {"ignored"} THEN UNCHANGED evState
  ELSE RecordAction(i, i \in Authorized)

Consider(i) ==
  /\ page[i] # "unposted"
  /\ page' = [page EXCEPT ![i] = "unposted"]
  /\ IF i \in Reviews THEN ConsiderReview(i) ELSE ConsiderMention(i)
  /\ age' = [age EXCEPT ![i] = 0] /\ gap' = [gap EXCEPT ![i] = 0]
  /\ UNCHANGED <<content, notified, edited, ancient, fresh, cursor, initialized, scanned,
                 due, dryRun, pc, localVars, todo, subject,
                 failed, took, boundVars>>

\* Mutant of EndScan: what failed is left to the next notification.
EndScanAnyway ==
  /\ pc = "scan" /\ todo = {}
  /\ pc' = "cursor" /\ UNCHANGED <<localVars, scanVars, took>>
  /\ UNCHANGED <<githubVars, evState, metaVars, due, dryRun, boundVars>>

\* After a failure all is read again in the next poll.
EndScan ==
  /\ pc = "scan" /\ todo = {}
  /\ IF failed THEN Rest ELSE pc' = "cursor" /\ UNCHANGED <<localVars, scanVars, took>>
  /\ UNCHANGED <<githubVars, evState, metaVars, due, dryRun, boundVars>>

\* Mutant of SaveCursor: what has been notified of meanwhile is included.
SaveCursorLate ==
  /\ pc = "cursor" /\ pc' = "initialize" /\ cursor' = {notified}
  /\ UNCHANGED <<githubVars, evState, initialized, scanned, gap, due, dryRun, localVars,
                 scanVars, took, boundVars>>

SaveCursor ==
  /\ pc = "cursor" /\ pc' = "initialize" /\ cursor' = {fetched}
  /\ UNCHANGED <<githubVars, evState, initialized, scanned, gap, due, dryRun, localVars,
                 scanVars, took, boundVars>>

SaveInitialized ==
  /\ pc = "initialize" /\ pc' = "time" /\ initialized' = TRUE
  /\ UNCHANGED <<githubVars, evState, cursor, scanned, gap, due, dryRun, localVars,
                 scanVars, took, boundVars>>

\* last_event_scan_at is the time when the poll ends.
SaveTime ==
  /\ pc = "time" /\ scanned' = TRUE
  /\ gap' = age
  /\ Rest
  /\ UNCHANGED <<githubVars, evState, cursor, initialized, due, dryRun, boundVars>>

\* The run is killed.
Crash ==
  /\ pc # "rest" /\ crashes < MaxCrashes /\ crashes' = crashes + 1 /\ Rest
  /\ UNCHANGED <<githubVars, evState, metaVars, due, dryRun, edits, failures>>

\* process_pending_events and dispatch_pending, in short: the comment is read
\* once more, and acted on.
Process(i) ==
  /\ pc = "rest" /\ ~dryRun /\ evState[i] = "pending"
  /\ evState' = [evState EXCEPT ![i] =
       IF content[i] = "command" THEN "delivered" ELSE "ignored"]
  /\ UNCHANGED <<githubVars, metaVars, due, dryRun, pc, localVars, scanVars, took,
                 boundVars>>
-----------------------------------------------------------------------------
Poll ==
  \/ Fetch \/ (\E s \in Subjects : ReadComments(s)) \/ ReadReviews \/ EndSubject
  \/ (\E i \in Items : Consider(i))
  \/ EndScan \/ SaveCursor \/ SaveInitialized \/ SaveTime

Next ==
  \/ \E i \in Items : Post(i) \/ Edit(i) \/ Notify(i) \/ Process(i)
  \/ Tick \/ IntervalPasses \/ GoLive
  \/ Poll \/ SubjectFails \/ Crash

Spec == Init /\ [][Next]_vars

\* GitHub notifies, the timer starts polls, a poll and the processing after it
\* go on.  Failures and crashes are bounded: they stop some day.
Fairness ==
  /\ WF_vars(IntervalPasses) /\ WF_vars(Poll)
  /\ \A i \in Items : WF_vars(Notify(i)) /\ SF_vars(Process(i))

FairSpec == Spec /\ Fairness
=============================================================================
