------------------------- MODULE BridgeTriggersProofs ------------------------
(***************************************************************************)
(* Withdrawals stop only what is older, when the seconds of events tell    *)
(* them apart, and what is wanted is not passed over; for any number of    *)
(* events and faults.                                                      *)
(***************************************************************************)
EXTENDS BridgeTriggers, SequenceTheorems, WellFoundedInduction, TLAPS

USE DEF githubVars, dbVars, agentVars, scanVars, workVars, EventDone
-----------------------------------------------------------------------------
(* The inductive invariant *)

Steps == {"rest", "events", "reviewers", "consider", "pending", "start", "prompt", "map", "activate",
          "cancel", "abort", "done"}

Types ==
  /\ timeline \in Seq([what : Whats, by : Actors, at : Nat])
  /\ asked \in BOOLEAN /\ open \in BOOLEAN
  /\ evState \in [Numbers -> {"unseen", "ignored", "pending", "delivered"}]
  /\ task \in [Numbers -> {"none", "queued", "active", "paused"}]
  /\ mapping \in Nat /\ prompted \subseteq Numbers /\ busy \subseteq Numbers
  /\ pc \in Steps /\ sawAsked \in BOOLEAN /\ sawOpen \in BOOLEAN
  /\ seen \in Nat /\ next \in Nat \ {0}
  /\ todo \subseteq Numbers /\ ev \in Nat /\ faults \in Nat
  /\ prompted \subseteq 1..Len(timeline) /\ todo \subseteq 1..Len(timeline)
  /\ \A k \in prompted : timeline[k].what = "given"
  /\ \A k \in Numbers : task[k] # "none" => k <= Len(timeline)

Settled(j) == evState[j] # "unseen" \/ timeline[j].what = "reopened"

\* The run works on an event that is pending, of the kind its step is for.
Working ==
  /\ pc \in {"start", "prompt", "map", "activate", "cancel", "abort", "done"} <=> ev # 0
  /\ ev # 0 => ev \in 1..Len(timeline) /\ ev \in Numbers /\ evState[ev] = "pending" /\ ev \notin todo
  /\ \A k \in todo : evState[k] = "pending"
  /\ pc \in {"start", "prompt", "map", "activate"} => timeline[ev].what = "given"
  /\ pc \in {"cancel", "abort"} => timeline[ev].what # "given" /\ mapping # 0
  /\ pc = "map" => ev \in prompted
  /\ pc = "activate" => mapping = ev
  /\ pc = "done" /\ timeline[ev].what = "given" => mapping = ev

\* Events are looked at in the order of the timeline.
Prefix ==
  /\ \A k \in 1..Len(timeline), j \in 1..Len(timeline) : j < k /\ evState[k] # "unseen" => Settled(j)
  /\ pc \in {"reviewers", "consider"} => \A j \in 1..seen : j < next => Settled(j)

\* The seconds of events tell which is the older.
Clock == \A j, k \in 1..Len(timeline) : j < k => timeline[j].at < timeline[k].at

\* What is pending and not to be done in this run is the event it works on, which
\* is the oldest, and nothing older than the mapped event is pending.
Oldest ==
  /\ pc = "pending" \/ ev # 0
     => \A k \in Numbers : evState[k] = "pending" => k \in todo \cup {ev}
  /\ \A k \in todo : ev < k
  /\ mapping # 0 => \A j \in 1..(mapping - 1) : evState[j] # "pending"
  /\ mapping # 0 => evState[mapping] # "unseen"

IInv == Types /\ TriggersTypeOK /\ Working /\ Prefix
OInv == IInv /\ Clock /\ Oldest /\ NewestIsMapped
-----------------------------------------------------------------------------
(* Steps *)

\* A step is a step of one of these actions.
LEMMA StepCases ==
  ASSUME [Next]_vars
  PROVE  \/ \E by \in Actors : Give(by) \/ Withdraw(by) \/ Close(by) \/ Reopen(by)
         \/ \E k \in Numbers : AgentRests(k) \/ Take(k)
         \/ ReadSubject \/ ReadEvents \/ ReadReviewers \/ Consider \/ EndScan \/ EndPending
         \/ Start \/ Prompt \/ Map \/ Activate \/ CancelRecords \/ Abort \/ Delivered
         \/ Fault \/ UNCHANGED vars
  BY DEF Next, GitHub, Scan, Processing

\* What happens is added to the timeline.
LEMMA Happening ==
  ASSUME Types, NEW what \in Whats, NEW by \in Actors, Happens(what, by)
  PROVE  /\ timeline' \in Seq([what : Whats, by : Actors, at : Nat])
         /\ Len(timeline) \in Nat /\ Len(timeline') = Len(timeline) + 1 /\ Len(timeline') <= MaxEvents
         /\ \A k \in 1..Len(timeline) : timeline'[k] = timeline[k]
         /\ timeline'[Len(timeline')].what = what
         /\ UNCHANGED <<kind, dbVars, agentVars, pc, scanVars, workVars, faults>>
  <1>1. PICK t \in Nat : timeline' = Append(timeline, [what |-> what, by |-> by, at |-> t])
    <2> DEFINE last == IF timeline = <<>> THEN 0 ELSE timeline[Len(timeline)].at
    <2>1. PICK tie \in {FALSE, Ties} :
            timeline' = Append(timeline,
              [what |-> what, by |-> by, at |-> IF tie THEN last ELSE last + 1])
      BY DEF Happens
    <2>2. last \in Nat
      <3>1. CASE timeline = <<>> BY <3>1
      <3>2. CASE timeline # <<>>
        <4>1. Len(timeline) \in 1..Len(timeline) BY <3>2, EmptySeq DEF Types
        <4>2. timeline[Len(timeline)] \in [what : Whats, by : Actors, at : Nat]
          BY <4>1, ElementOfSeq DEF Types
        <4> QED BY <3>2, <4>2
      <3> QED BY <3>1, <3>2
    <2> HIDE DEF last
    <2> QED BY <2>1, <2>2
  <1>2. [what |-> what, by |-> by, at |-> t] \in [what : Whats, by : Actors, at : Nat] BY <1>1
  <1>3. timeline' \in Seq([what : Whats, by : Actors, at : Nat])
    BY <1>1, <1>2, AppendProperties DEF Types
  <1>4. /\ Len(timeline') = Len(timeline) + 1 /\ Len(timeline) \in Nat
        /\ \A k \in 1..Len(timeline) : timeline'[k] = timeline[k]
        /\ timeline'[Len(timeline')] = [what |-> what, by |-> by, at |-> t]
    BY <1>1, <1>2, AppendProperties DEF Types
  <1>5. Len(timeline) < MaxEvents /\ UNCHANGED <<kind, dbVars, agentVars, pc, scanVars, workVars, faults>>
    BY DEF Happens
  <1> QED BY <1>3, <1>4, <1>5, TriggersAssumption

\* The invariant does not depend on what happens later.
LEMMA Grows ==
  ASSUME IInv, NEW what \in Whats, NEW by \in Actors, Happens(what, by),
         asked' \in BOOLEAN, open' \in BOOLEAN
  PROVE  IInv'
  <1>1. /\ Len(timeline) \in Nat /\ Len(timeline') = Len(timeline) + 1 /\ Len(timeline') <= MaxEvents
        /\ timeline' \in Seq([what : Whats, by : Actors, at : Nat])
        /\ \A k \in 1..Len(timeline) : timeline'[k] = timeline[k]
        /\ UNCHANGED <<kind, dbVars, agentVars, pc, scanVars, workVars, faults>>
    BY Happening DEF IInv
  <1>a. \A k \in prompted : k \in 1..Len(timeline) /\ timeline[k].what = "given"
    BY DEF IInv, Types
  <1>b. \A k \in prompted : timeline'[k].what = "given" BY <1>1, <1>a
  <1>c. \A j \in Numbers : task[j] # "none" => j \in 1..Len(timeline) /\ timeline[j].what = "given"
    <2>1. \A j \in Numbers : task[j] # "none" => j <= Len(timeline) /\ timeline[j].what = "given"
      BY DEF IInv, Types, TriggersTypeOK
    <2>2. \A j \in Numbers : j \in Nat /\ 1 <= j BY TriggersAssumption DEF Numbers
    <2>3. Len(timeline) \in Nat BY <1>1
    <2> QED BY <2>1, <2>2, <2>3
  <1>d. \A j \in Numbers : task[j] # "none" => timeline'[j].what = "given" BY <1>1, <1>c
  <1>4. Types'
    <2>1. /\ prompted \subseteq Numbers /\ prompted \subseteq 1..Len(timeline)
          /\ todo \subseteq Numbers /\ todo \subseteq 1..Len(timeline)
          /\ \A k \in Numbers : task[k] # "none" => k <= Len(timeline)
      BY DEF IInv, Types
    <2>2. prompted' \subseteq 1..Len(timeline') /\ todo' \subseteq 1..Len(timeline') BY <1>1, <2>1
    <2>3. \A k \in Numbers : task'[k] # "none" => k <= Len(timeline')
      <3>1. \A k \in Numbers : k \in Nat BY DEF Numbers
      <3> QED BY <1>1, <2>1, <3>1
    <2>4. \A k \in prompted' : timeline'[k].what = "given" BY <1>1, <1>b
    <2> QED BY <1>1, <2>2, <2>3, <2>4 DEF IInv, Types
  <1>5. TriggersTypeOK'
    <2>1. \A j \in Numbers : task'[j] # "none" => timeline'[j].what = "given" BY <1>1, <1>d
    <2>2. /\ seen <= Len(timeline) /\ seen \in Nat
          /\ \A k \in Numbers : evState[k] # "unseen" => k <= Len(timeline)
      BY DEF IInv, Types, TriggersTypeOK
    <2>3. \A j \in Numbers : evState'[j] # "unseen" => j <= Len(timeline')
      <3>1. \A k \in Numbers : k \in Nat BY DEF Numbers
      <3> QED BY <1>1, <2>2, <3>1
    <2>4. seen' <= Len(timeline') BY <1>1, <2>2
    <2> QED BY <1>1, <2>1, <2>3, <2>4 DEF IInv, TriggersTypeOK
  <1>6. Working'
    <2>1. ev # 0 => ev \in 1..Len(timeline) BY DEF IInv, Working
    <2>2. ev # 0 => timeline'[ev] = timeline[ev] /\ ev \in 1..Len(timeline') BY <1>1, <2>1
    <2>3. UNCHANGED <<pc, ev, todo, evState, mapping, prompted>> BY <1>1
    <2> QED BY <2>2, <2>3 DEF IInv, Working
  <1>7. Prefix'
    <2>0. UNCHANGED <<pc, evState, seen, next>> BY <1>1
    <2>1. ASSUME NEW k \in 1..Len(timeline'), NEW j \in 1..Len(timeline'), j < k, evState[k] # "unseen"
          PROVE  Settled(j)'
      <3>1. k \in Nat /\ k \in Numbers /\ k <= Len(timeline)
        BY <1>1, <2>1, TriggersAssumption DEF IInv, TriggersTypeOK, Numbers
      <3>2. k \in 1..Len(timeline) /\ j \in 1..Len(timeline) BY <1>1, <2>1, <3>1
      <3>3. Settled(j) BY <2>1, <3>2 DEF IInv, Prefix
      <3>4. timeline'[j] = timeline[j] BY <1>1, <3>2
      <3> QED BY <2>0, <3>3, <3>4 DEF Settled
    <2>2. ASSUME pc \in {"reviewers", "consider"}, NEW j \in 1..seen, j < next
          PROVE  Settled(j)'
      <3>1. seen \in Nat /\ seen <= Len(timeline) BY DEF IInv, Types, TriggersTypeOK
      <3>2. Settled(j) BY <2>2 DEF IInv, Prefix
      <3>3. j \in 1..Len(timeline) BY <1>1, <3>1
      <3>4. timeline'[j] = timeline[j] BY <1>1, <3>3
      <3> QED BY <2>0, <3>2, <3>4 DEF Settled
    <2> QED BY <2>0, <2>1, <2>2 DEF Prefix
  <1> QED BY <1>4, <1>5, <1>6, <1>7 DEF IInv

\* An event is taken that is pending, and none that may be is before it.
LEMMA Takes ==
  ASSUME IInv, NEW k \in Numbers, Take(k)
  PROVE  IInv'
  <1> USE TriggersAssumption DEF IInv, Types, TriggersTypeOK, Working, Prefix, Settled, Numbers, Actors, Whats
  <1>1. /\ pc = "pending" /\ k \in todo /\ todo' = todo \ {k} /\ ev = 0
        /\ UNCHANGED <<githubVars, task, mapping, agentVars, scanVars, faults>>
    BY DEF Take
  <1>2. CASE timeline[k].what = "given" /\ ~sawOpen
    <2>1. evState' = [evState EXCEPT ![k] = "ignored"] /\ UNCHANGED <<pc, ev>> BY <1>2 DEF Take
    <2>2. Types' BY <1>1, <2>1 DEF Steps
    <2>3. TriggersTypeOK' BY <1>1, <2>1
    <2>4. Working' BY <1>1, <2>1
    <2>5. Prefix' BY <1>1, <2>1
    <2> QED BY <2>2, <2>3, <2>4, <2>5
  <1>3. CASE ~ (timeline[k].what = "given" /\ ~sawOpen)
    <2>1. /\ ev' = k /\ UNCHANGED evState
          /\ pc' = IF timeline[k].what = "given" THEN "start"
                   ELSE IF mapping # 0 THEN "cancel" ELSE "done"
      BY <1>3 DEF Take
    <2>2. \/ timeline[k].what = "given" /\ pc' = "start"
          \/ timeline[k].what # "given" /\ mapping # 0 /\ pc' = "cancel"
          \/ timeline[k].what # "given" /\ pc' = "done"
      BY <2>1
    <2>3. Types' BY <1>1, <2>1, <2>2 DEF Steps
    <2>4. TriggersTypeOK' BY <1>1, <2>1
    <2>5. Working' BY <1>1, <2>1, <2>2
    <2>6. Prefix' BY <1>1, <2>1, <2>2
    <2> QED BY <2>3, <2>4, <2>5, <2>6
  <1> QED BY <1>2, <1>3

\* Once the next event is looked at, all before the one that follows are settled.
LEMMA ConsiderGoesOn ==
  ASSUME IInv, Consider
  PROVE  Prefix'
  <1>1. /\ pc = "consider" /\ next \in 1..seen /\ next' = next + 1 /\ UNCHANGED <<timeline, seen, pc>>
        /\ next \in 1..Len(timeline) /\ seen \in Nat /\ seen <= Len(timeline)
        /\ Len(timeline) \in Nat /\ Len(timeline) <= MaxEvents
        /\ evState \in [Numbers -> {"unseen", "ignored", "pending", "delivered"}]
    BY DEF Consider, IInv, Types, TriggersTypeOK
  <1>2. /\ \A j \in Numbers : j # next => evState'[j] = evState[j]
        /\ evState[next] # "unseen" \/ timeline[next].what = "reopened" => UNCHANGED evState
        /\ evState'[next] # "unseen" \/ timeline[next].what = "reopened"
    BY <1>1, TriggersAssumption DEF Consider, Numbers
  <1>3. ASSUME NEW j \in 1..Len(timeline), j <= next PROVE Settled(j)'
    <2>1. CASE j = next
      <3>1. timeline' = timeline BY <1>1
      <3>2. evState'[j] # "unseen" \/ timeline[j].what = "reopened" BY <1>2, <2>1
      <3> QED BY <3>1, <3>2 DEF Settled
    <2>2. CASE j # next
      <3>1. j < next /\ j \in 1..seen BY <1>1, <1>3, <2>2
      <3>2. Settled(j) BY <1>1, <3>1 DEF IInv, Prefix
      <3> QED BY <1>1, <1>2, <2>2, <3>2, TriggersAssumption DEF Settled, Numbers
    <2> QED BY <2>1, <2>2
  <1>4. ASSUME NEW k \in 1..Len(timeline), NEW j \in 1..Len(timeline), j < k, evState'[k] # "unseen"
        PROVE  Settled(j)'
    <2>1. CASE k = next BY <1>1, <1>3, <1>4, <2>1
    <2>2. CASE k # next
      <3>1. evState[k] # "unseen" BY <1>1, <1>2, <1>4, <2>2, TriggersAssumption DEF Numbers
      <3>2. Settled(j) BY <1>4, <3>1 DEF IInv, Prefix
      <3>3. CASE j = next BY <1>3, <3>3, <1>1
      <3>4. CASE j # next
        BY <1>1, <1>2, <3>2, <3>4, TriggersAssumption DEF Settled, Numbers
      <3> QED BY <3>3, <3>4
    <2> QED BY <2>1, <2>2
  <1>5. ASSUME NEW j \in 1..seen, j < next' PROVE Settled(j)'
    BY <1>1, <1>3, <1>5
  <1> QED BY <1>1, <1>4, <1>5 DEF Prefix

\* Nothing older than the mapped event is still to be looked at.
LEMMA ConsiderIsLater ==
  ASSUME IInv, Oldest, next \in 1..seen, mapping # 0, ~Settled(next)
  PROVE  ~ (next < mapping)
  <1>1. mapping \in 1..Len(timeline) BY DEF IInv, Types, TriggersTypeOK
  <1>2. next \in 1..Len(timeline) BY DEF IInv, Types, TriggersTypeOK
  <1>3. evState[mapping] # "unseen" BY DEF Oldest
  <1> QED BY <1>1, <1>2, <1>3 DEF IInv, Prefix

\* Every step keeps the invariant.
\* Nor on an agent that rests.
LEMMA Rests ==
  ASSUME IInv, NEW k \in Numbers, AgentRests(k)
  PROVE  IInv'
  <1>1. /\ busy' \subseteq busy
        /\ UNCHANGED <<kind, timeline, open, dbVars, prompted, pc, scanVars, workVars, faults>>
    BY DEF AgentRests
  <1>2. asked' \in BOOLEAN
    <2>1. asked \in BOOLEAN BY DEF IInv, Types
    <2>2. asked' \in {asked, FALSE} BY DEF AgentRests
    <2> QED BY <2>1, <2>2
  <1>3. Types' BY <1>1, <1>2 DEF IInv, Types
  <1>4. TriggersTypeOK' BY <1>1 DEF IInv, TriggersTypeOK
  <1>5. Working' BY <1>1 DEF IInv, Working
  <1>6. Prefix' BY <1>1 DEF IInv, Prefix, Settled
  <1> QED BY <1>3, <1>4, <1>5, <1>6 DEF IInv

LEMMA IInvStep ==
  ASSUME IInv, [Next]_vars
  PROVE  IInv'
  <1>0. Consider => Prefix' BY ConsiderGoesOn
  <1> USE TriggersAssumption DEF IInv, Types, TriggersTypeOK, Working, Prefix, Settled, Numbers, Actors, Whats, Steps
  <1>1. ASSUME NEW by \in Actors, Give(by) PROVE IInv'
    BY <1>1, Grows DEF Give
  <1>2. ASSUME NEW by \in Actors, Withdraw(by) PROVE IInv'
    BY <1>2, Grows DEF Withdraw
  <1>3. ASSUME NEW by \in Actors, Close(by) PROVE IInv'
    BY <1>3, Grows DEF Close
  <1>4. ASSUME NEW by \in Actors, Reopen(by) PROVE IInv'
    BY <1>4, Grows DEF Reopen
  <1>5. ASSUME NEW k \in Numbers, AgentRests(k) PROVE IInv'
    BY <1>5, Rests
  <1>6. CASE ReadSubject
    BY <1>6 DEF ReadSubject
  <1>7. CASE ReadEvents
    BY <1>7 DEF ReadEvents
  <1>8. CASE ReadReviewers
    <2>1. Types' BY <1>8 DEF ReadReviewers
    <2>2. TriggersTypeOK' BY <1>8 DEF ReadReviewers
    <2>3. Working' BY <1>8 DEF ReadReviewers
    <2>4. Prefix' BY <1>8 DEF ReadReviewers
    <2> QED BY <2>1, <2>2, <2>3, <2>4
  <1>9. CASE Consider
    <2>1. /\ pc = "consider" /\ next \in 1..seen /\ next' = next + 1
          /\ UNCHANGED <<githubVars, task, mapping, agentVars, pc, sawAsked, sawOpen, seen, workVars, faults>>
      BY <1>9 DEF Consider
    <2>2. \/ Settled(next) /\ UNCHANGED evState
          \/ /\ evState[next] = "unseen" /\ next \in Numbers
             /\ \E s \in {"pending", "ignored"} : evState' = [evState EXCEPT ![next] = s]
      BY <1>9, <2>1 DEF Consider
    <2>3. Types' BY <2>1, <2>2
    <2>4. TriggersTypeOK' BY <2>1, <2>2
    <2>5. Working' BY <2>1, <2>2
    <2>6. Prefix' BY <1>0, <1>9
    <2> QED BY <2>3, <2>4, <2>5, <2>6
  <1>10. CASE EndScan
    <2>1. Types' BY <1>10 DEF EndScan
    <2>2. TriggersTypeOK' BY <1>10 DEF EndScan
    <2>3. Working' BY <1>10 DEF EndScan
    <2>4. Prefix' BY <1>10 DEF EndScan
    <2> QED BY <2>1, <2>2, <2>3, <2>4
  <1>11. ASSUME NEW k \in Numbers, Take(k) PROVE IInv'
    BY <1>11, Takes
  <1>12. CASE EndPending
    BY <1>12 DEF EndPending
  <1>13. CASE Start
    <2>1. pc = "start" /\ ev # 0 /\ UNCHANGED <<githubVars, mapping, agentVars, sawAsked, seen, next, todo, faults>>
      BY <1>13 DEF Start
    <2>2. \/ /\ ev \in prompted /\ task' = [task EXCEPT ![ev] = "active"] /\ pc' = "map"
             /\ UNCHANGED <<evState, sawOpen, ev>>
          \/ /\ task' = [task EXCEPT ![ev] = "queued"] /\ pc' = "prompt" /\ sawOpen' = open
             /\ UNCHANGED <<evState, ev>>
          \/ /\ task' = [task EXCEPT ![ev] = "none"] /\ sawOpen' = open
             /\ evState' = [evState EXCEPT ![ev] = "ignored"] /\ pc' = "pending" /\ ev' = 0
      BY <1>13 DEF Start
    <2>3. Types'
      <3>1. task' \in [Numbers -> {"none", "queued", "active", "paused"}]
        <4>1. \/ task' = [task EXCEPT ![ev] = "active"] \/ task' = [task EXCEPT ![ev] = "queued"]
              \/ task' = [task EXCEPT ![ev] = "none"]
          BY <2>2
        <4>2. task \in [Numbers -> {"none", "queued", "active", "paused"}] OBVIOUS
        <4> QED BY ONLY <4>1, <4>2
      <3>3. evState' \in [Numbers -> {"unseen", "ignored", "pending", "delivered"}]
        <4>1. evState' \in {evState, [evState EXCEPT ![ev] = "ignored"]} BY <2>2
        <4>2. evState \in [Numbers -> {"unseen", "ignored", "pending", "delivered"}] OBVIOUS
        <4> QED BY ONLY <4>1, <4>2
      <3>4. pc' \in Steps /\ ev' \in Nat BY <2>2
      <3>5. sawOpen' \in {sawOpen, open} BY <2>2
      <3>2. \A k \in Numbers : task'[k] # "none" => k <= Len(timeline) BY <2>1, <2>2
      <3> QED BY <2>1, <3>1, <3>2, <3>3, <3>4, <3>5
    <2>4. TriggersTypeOK' BY <2>1, <2>2
    <2>5. Working' BY <2>1, <2>2
    <2>6. Prefix' BY <2>1, <2>2
    <2> QED BY <2>3, <2>4, <2>5, <2>6
  <1>14. CASE Prompt
    BY <1>14 DEF Prompt
  <1>15. CASE Map
    BY <1>15 DEF Map
  <1>16. CASE Activate
    BY <1>16 DEF Activate
  <1>17. CASE CancelRecords
    BY <1>17 DEF CancelRecords
  <1>18. CASE Abort
    BY <1>18 DEF Abort
  <1>19. CASE Delivered
    BY <1>19 DEF Delivered
  <1>20. CASE Fault
    BY <1>20 DEF Fault
  <1>21. CASE UNCHANGED vars
    BY <1>21 DEF vars
  <1> QED
    BY <1>1, <1>2, <1>3, <1>4, <1>5, <1>6, <1>7, <1>8, <1>9, <1>10, <1>11, <1>12,
       <1>13, <1>14, <1>15, <1>16, <1>17, <1>18, <1>19, <1>20, <1>21, StepCases
-----------------------------------------------------------------------------
(* Every step keeps the order, when seconds tell events apart *)

\* What happens later has a later second.
LEMMA ClockGrows ==
  ASSUME ~Ties, Types, Clock, NEW what \in Whats, NEW by \in Actors, Happens(what, by)
  PROVE  Clock'
  <1> DEFINE last == IF timeline = <<>> THEN 0 ELSE timeline[Len(timeline)].at
             e == [what |-> what, by |-> by, at |-> last + 1]
  <1>1. timeline' = Append(timeline, e)
    <2>1. PICK tie \in {FALSE, Ties} :
            timeline' = Append(timeline,
              [what |-> what, by |-> by, at |-> IF tie THEN last ELSE last + 1])
      BY DEF Happens
    <2>2. tie = FALSE BY TriggersAssumption
    <2> QED BY <2>1, <2>2
  <1>2. Len(timeline) \in Nat /\ Len(timeline') = Len(timeline) + 1
        /\ (\A k \in 1..Len(timeline) : timeline'[k] = timeline[k])
    BY Happening
  <1>3. timeline'[Len(timeline) + 1] = e BY <1>1, AppendProperties DEF Types
  <1>4. ASSUME NEW j \in 1..Len(timeline) PROVE timeline[j].at <= last
    <2>1. timeline # <<>> /\ Len(timeline) \in 1..Len(timeline) BY <1>2
    <2>2. timeline[j] \in [what : Whats, by : Actors, at : Nat] BY ElementOfSeq DEF Types
    <2>3. j = Len(timeline) \/ j < Len(timeline) BY <1>2
    <2>4. timeline[Len(timeline)] \in [what : Whats, by : Actors, at : Nat]
      BY <2>1, ElementOfSeq DEF Types
    <2> QED BY <2>1, <2>2, <2>3, <2>4 DEF Clock
  <1>5. last \in Nat
    <2>1. CASE timeline = <<>> BY <2>1
    <2>2. CASE timeline # <<>>
      <3>1. Len(timeline) \in 1..Len(timeline) BY <2>2, EmptySeq DEF Types
      <3>2. timeline[Len(timeline)] \in [what : Whats, by : Actors, at : Nat]
        BY <3>1, ElementOfSeq DEF Types
      <3> QED BY <2>2, <3>2
    <2> QED BY <2>1, <2>2
  <1>6. e.at = last + 1 OBVIOUS
  <1> HIDE DEF last, e
  <1>7. ASSUME NEW j \in 1..Len(timeline'), NEW k \in 1..Len(timeline'), j < k
        PROVE  timeline'[j].at < timeline'[k].at
    <2>1. j \in 1..Len(timeline) BY <1>2, <1>7
    <2>2. CASE k \in 1..Len(timeline) BY <1>2, <1>7, <2>1, <2>2 DEF Clock
    <2>3. CASE k = Len(timeline) + 1
      <3>1. timeline[j] \in [what : Whats, by : Actors, at : Nat] BY <2>1, ElementOfSeq DEF Types
      <3> QED BY <1>2, <1>3, <1>4, <1>5, <1>6, <2>1, <2>3, <3>1
    <2> QED BY <1>2, <2>2, <2>3
  <1> QED BY <1>7 DEF Clock

\* What happens later is not delivered yet.
LEMMA NewestGrows ==
  ASSUME IInv, NewestIsMapped, NEW what \in Whats, NEW by \in Actors, Happens(what, by)
  PROVE  NewestIsMapped'
  <1>1. /\ \A k \in 1..Len(timeline) : timeline'[k] = timeline[k]
        /\ UNCHANGED <<kind, dbVars, agentVars, pc, scanVars, workVars, faults>> /\ Len(timeline) \in Nat
    BY Happening DEF IInv
  <1>2. \A k \in Numbers : evState[k] = "delivered" => k \in 1..Len(timeline)
    BY <1>1 DEF IInv, TriggersTypeOK, Types, Numbers
  <1>3. evState' = evState /\ mapping' = mapping BY <1>1
  <1> QED BY <1>1, <1>2, <1>3 DEF NewestIsMapped

\* The first by pending_events is the oldest.
LEMMA FirstIsOldest ==
  ASSUME Types, Clock, NEW j \in 1..Len(timeline), NEW k \in 1..Len(timeline), Before(j, k)
  PROVE  j <= k
  <1>1. /\ timeline[j] \in [what : Whats, by : Actors, at : Nat]
        /\ timeline[k] \in [what : Whats, by : Actors, at : Nat]
    BY ElementOfSeq DEF Types
  <1>2. ~ (k < j) BY <1>1 DEF Before, Clock
  <1> QED BY <1>2

\* Every step keeps the clock.
LEMMA ClockStep ==
  ASSUME ~Ties, Types, Clock, [Next]_vars
  PROVE  Clock'
  <1> USE DEF Clock
  <1>1. ASSUME NEW by \in Actors, Give(by) PROVE Clock'
    BY <1>1, ClockGrows DEF Give, Whats
  <1>2. ASSUME NEW by \in Actors, Withdraw(by) PROVE Clock'
    BY <1>2, ClockGrows DEF Withdraw, Whats
  <1>3. ASSUME NEW by \in Actors, Close(by) PROVE Clock'
    BY <1>3, ClockGrows DEF Close, Whats
  <1>4. ASSUME NEW by \in Actors, Reopen(by) PROVE Clock'
    BY <1>4, ClockGrows DEF Reopen, Whats
  <1>5. ASSUME NEW k \in Numbers, AgentRests(k) PROVE Clock'
    BY <1>5 DEF AgentRests
  <1>6. CASE ReadSubject
    BY <1>6 DEF ReadSubject
  <1>7. CASE ReadEvents
    BY <1>7 DEF ReadEvents
  <1>8. CASE ReadReviewers
    BY <1>8 DEF ReadReviewers
  <1>9. CASE Consider
    BY <1>9 DEF Consider
  <1>10. CASE EndScan
    BY <1>10 DEF EndScan
  <1>11. ASSUME NEW k \in Numbers, Take(k) PROVE Clock'
    BY <1>11 DEF Take
  <1>12. CASE EndPending
    BY <1>12 DEF EndPending
  <1>13. CASE Start
    BY <1>13 DEF Start
  <1>14. CASE Prompt
    BY <1>14 DEF Prompt
  <1>15. CASE Map
    BY <1>15 DEF Map
  <1>16. CASE Activate
    BY <1>16 DEF Activate
  <1>17. CASE CancelRecords
    BY <1>17 DEF CancelRecords
  <1>18. CASE Abort
    BY <1>18 DEF Abort
  <1>19. CASE Delivered
    BY <1>19 DEF Delivered
  <1>20. CASE Fault
    BY <1>20 DEF Fault
  <1>21. CASE UNCHANGED vars
    BY <1>21 DEF vars
  <1> QED
    BY <1>1, <1>2, <1>3, <1>4, <1>5, <1>6, <1>7, <1>8, <1>9, <1>10, <1>11, <1>12,
       <1>13, <1>14, <1>15, <1>16, <1>17, <1>18, <1>19, <1>20, <1>21, StepCases

\* Every step keeps the order of what is open.
LEMMA OldestStep ==
  ASSUME IInv, Clock, Oldest, [Next]_vars
  PROVE  Oldest'
  <1>0. ASSUME NEW what \in Whats, NEW by \in Actors, Happens(what, by) PROVE Oldest'
    BY <1>0 DEF Happens, Oldest
  <1> USE TriggersAssumption DEF IInv, Types, TriggersTypeOK, Working, Numbers, Actors, Whats, Oldest
  <1>1. ASSUME NEW by \in Actors, Give(by) PROVE Oldest'
    BY <1>0, <1>1 DEF Give
  <1>2. ASSUME NEW by \in Actors, Withdraw(by) PROVE Oldest'
    BY <1>0, <1>2 DEF Withdraw
  <1>3. ASSUME NEW by \in Actors, Close(by) PROVE Oldest'
    BY <1>0, <1>3 DEF Close
  <1>4. ASSUME NEW by \in Actors, Reopen(by) PROVE Oldest'
    BY <1>0, <1>4 DEF Reopen
  <1>5. ASSUME NEW k \in Numbers, AgentRests(k) PROVE Oldest'
    BY <1>5 DEF AgentRests
  <1>6. CASE ReadSubject
    BY <1>6 DEF ReadSubject
  <1>7. CASE ReadEvents
    BY <1>7 DEF ReadEvents
  <1>8. CASE ReadReviewers
    BY <1>8 DEF ReadReviewers
  <1>9. CASE Consider
    <2>1. /\ pc = "consider" /\ next \in 1..seen
          /\ UNCHANGED <<githubVars, task, mapping, agentVars, pc, workVars>>
      BY <1>9 DEF Consider
    <2>2. \/ UNCHANGED evState
          \/ /\ ~ Settled(next) /\ next \in Numbers
             /\ \E s \in {"pending", "ignored"} : evState' = [evState EXCEPT ![next] = s]
      BY <1>9, <2>1 DEF Consider, Settled
    <2>3. mapping # 0 /\ ~ Settled(next) => ~ (next < mapping)
      BY <2>1, ConsiderIsLater
    <2> QED BY <2>1, <2>2, <2>3 DEF Settled
  <1>10. CASE EndScan
    BY <1>10 DEF EndScan
  <1>11. ASSUME NEW k \in Numbers, Take(k) PROVE Oldest'
    <2>1. /\ pc = "pending" /\ k \in todo /\ todo' = todo \ {k} /\ ev = 0
          /\ UNCHANGED <<githubVars, task, mapping, agentVars, scanVars, faults>>
          /\ \A j \in todo \ {k} : Before(k, j)
      BY <1>11 DEF Take
    <2>2. \A j \in todo \ {k} : k < j
      BY <2>1, FirstIsOldest
    <2>3. \/ evState' = [evState EXCEPT ![k] = "ignored"] /\ UNCHANGED <<pc, ev>>
          \/ ev' = k /\ UNCHANGED evState
      BY <1>11 DEF Take
    <2> QED BY <2>1, <2>2, <2>3
  <1>12. CASE EndPending
    BY <1>12 DEF EndPending
  <1>13. CASE Start
    BY <1>13 DEF Start
  <1>14. CASE Prompt
    BY <1>14 DEF Prompt
  <1>15. CASE Map
    BY <1>15 DEF Map
  <1>16. CASE Activate
    BY <1>16 DEF Activate
  <1>17. CASE CancelRecords
    BY <1>17 DEF CancelRecords
  <1>18. CASE Abort
    BY <1>18 DEF Abort
  <1>19. CASE Delivered
    BY <1>19 DEF Delivered
  <1>20. CASE Fault
    BY <1>20 DEF Fault
  <1>21. CASE UNCHANGED vars
    BY <1>21 DEF vars
  <1> QED
    BY <1>1, <1>2, <1>3, <1>4, <1>5, <1>6, <1>7, <1>8, <1>9, <1>10, <1>11, <1>12,
       <1>13, <1>14, <1>15, <1>16, <1>17, <1>18, <1>19, <1>20, <1>21, StepCases

\* The mapping only goes on to later events.
LEMMA NewestStep ==
  ASSUME IInv, Clock, Oldest, NewestIsMapped, [Next]_vars
  PROVE  NewestIsMapped'
  <1> USE TriggersAssumption DEF IInv, Types, TriggersTypeOK, Working, Numbers, Actors, Whats, Oldest, NewestIsMapped
  <1>1. ASSUME NEW by \in Actors, Give(by) PROVE NewestIsMapped'
    BY <1>1, NewestGrows DEF Give, Whats
  <1>2. ASSUME NEW by \in Actors, Withdraw(by) PROVE NewestIsMapped'
    BY <1>2, NewestGrows DEF Withdraw, Whats
  <1>3. ASSUME NEW by \in Actors, Close(by) PROVE NewestIsMapped'
    BY <1>3, NewestGrows DEF Close, Whats
  <1>4. ASSUME NEW by \in Actors, Reopen(by) PROVE NewestIsMapped'
    BY <1>4, NewestGrows DEF Reopen, Whats
  <1>5. ASSUME NEW k \in Numbers, AgentRests(k) PROVE NewestIsMapped'
    BY <1>5 DEF AgentRests
  <1>6. CASE ReadSubject
    BY <1>6 DEF ReadSubject
  <1>7. CASE ReadEvents
    BY <1>7 DEF ReadEvents
  <1>8. CASE ReadReviewers
    BY <1>8 DEF ReadReviewers
  <1>9. CASE Consider
    BY <1>9 DEF Consider
  <1>10. CASE EndScan
    BY <1>10 DEF EndScan
  <1>11. ASSUME NEW k \in Numbers, Take(k) PROVE NewestIsMapped'
    BY <1>11 DEF Take
  <1>12. CASE EndPending
    BY <1>12 DEF EndPending
  <1>13. CASE Start
    BY <1>13 DEF Start
  <1>14. CASE Prompt
    BY <1>14 DEF Prompt
  <1>15. CASE Map
    BY <1>15 DEF Map
  <1>16. CASE Activate
    BY <1>16 DEF Activate
  <1>17. CASE CancelRecords
    BY <1>17 DEF CancelRecords
  <1>18. CASE Abort
    BY <1>18 DEF Abort
  <1>19. CASE Delivered
    BY <1>19 DEF Delivered
  <1>20. CASE Fault
    BY <1>20 DEF Fault
  <1>21. CASE UNCHANGED vars
    BY <1>21 DEF vars
  <1> QED
    BY <1>1, <1>2, <1>3, <1>4, <1>5, <1>6, <1>7, <1>8, <1>9, <1>10, <1>11, <1>12,
       <1>13, <1>14, <1>15, <1>16, <1>17, <1>18, <1>19, <1>20, <1>21, StepCases
-----------------------------------------------------------------------------
(* What is asked for is not passed over *)

\* What gives or withdraws.
Changes(k) == timeline[k].what \in {"given", "withdrawn"}

\* Latest finds the last of the first n events that gives or withdraws.
LEMMA LatestIs ==
  ASSUME NEW n \in Nat
  PROVE  \/ Latest(n) = 0 /\ \A j \in 1..n : ~Changes(j)
         \/ Latest(n) \in 1..n /\ Changes(Latest(n)) /\ \A j \in 1..n : Changes(j) => j <= Latest(n)
  <1> DEFINE found == {k \in 1..n : timeline[k].what \in {"given", "withdrawn"}}
  <1>1. CASE found = {} BY <1>1 DEF Latest, Changes
  <1>2. CASE found # {}
    <2> DEFINE R == OpToRel(<, Nat)
               left == {n - k : k \in found}
    <2>1. left \subseteq Nat /\ left # {} BY <1>2
    <2>2. PICK x \in left : \A y \in left : <<y, x>> \notin R
      <3> HIDE DEF R, left
      <3>1. IsWellFoundedOn(R, Nat) BY NatLessThanWellFounded DEF R
      <3> QED BY <2>1, <3>1, WFMin
    <2>3. PICK k \in found : x = n - k OBVIOUS
    <2>4. ASSUME NEW j \in found PROVE j <= k
      <3>1. n - j \in left /\ n - j \in Nat /\ x \in Nat BY <2>1
      <3>2. ~ (n - j < x) BY <2>2, <3>1 DEF OpToRel
      <3> QED BY <2>3, <3>1, <3>2
    <2>5. /\ Latest(n) \in found
          /\ \A j \in found : j <= Latest(n)
      BY <1>2, <2>4 DEF Latest
    <2> QED BY <2>5 DEF Changes
  <1> QED BY <1>1, <1>2

\* The bot is asked by event k still.
Current(k) ==
  /\ asked /\ k \in 1..Len(timeline) /\ timeline[k].what = "given"
  /\ \A j \in 1..Len(timeline) : j > k => ~Changes(j)

Unclosed == \A j \in 1..Len(timeline) : timeline[j].what # "closed"

\* What the scan has read does not contradict what is current, but for an
\* assignment that is later than the read of the issue.
Open  == Unclosed => open /\ sawOpen
Heard == pc = "consider" => \A k \in 1..seen : Current(k) => sawAsked \/ kind = "assignment"

\* The current event is the latest of those that were read, if it was read.
LEMMA CurrentIsLatest ==
  ASSUME NEW n \in Nat, Len(timeline) \in Nat, n <= Len(timeline), NEW k \in 1..n, Current(k)
  PROVE  k = Latest(n)
  <1>1. Changes(k) /\ \A j \in 1..n : Changes(j) => j <= k BY DEF Current, Changes
  <1> QED BY <1>1, LatestIs

\* What happens is new to the scan; what it does not revoke was current before.
LEMMA CurrentGrows ==
  ASSUME IInv, Open, Heard, NEW what \in Whats, NEW by \in Actors, Happens(what, by),
         what \in {"given", "withdrawn"} \/ asked' = asked,
         what = "withdrawn" => ~asked',
         what = "reopened" => ~open,
         what \in {"closed", "reopened"} \/ open' = open
  PROVE  Open' /\ Heard'
  <1>1. /\ Len(timeline) \in Nat /\ Len(timeline') = Len(timeline) + 1 /\ Len(timeline') <= MaxEvents
        /\ \A k \in 1..Len(timeline) : timeline'[k] = timeline[k]
        /\ timeline'[Len(timeline')].what = what
        /\ UNCHANGED <<kind, dbVars, agentVars, pc, scanVars, workVars, faults>>
    BY Happening DEF IInv
  <1>2. Unclosed' => Unclosed /\ what # "closed" BY <1>1 DEF Unclosed
  <1>3. ASSUME NEW k \in 1..Len(timeline), Current(k)' PROVE Current(k)
    <2>1. /\ asked' /\ timeline'[k].what = "given"
          /\ \A j \in 1..Len(timeline') : j > k => timeline'[j].what \notin {"given", "withdrawn"}
      BY <1>3 DEF Current, Changes
    <2>2. what \notin {"given", "withdrawn"} BY <1>1, <2>1
    <2>3. asked BY <2>1, <2>2 DEF IInv, Types
    <2>4. \A j \in 1..Len(timeline) : j > k => ~Changes(j) BY <1>1, <2>1 DEF Changes
    <2>5. timeline[k].what = "given" BY <1>1, <2>1
    <2> QED BY <2>3, <2>4, <2>5 DEF Current
  <1>4. Open' BY <1>1, <1>2 DEF Open
  <1>5. Heard'
    <2>1. seen \in Nat /\ seen <= Len(timeline) BY DEF IInv, Types, TriggersTypeOK
    <2> QED BY <1>1, <1>3, <2>1 DEF Heard
  <1> QED BY <1>4, <1>5

\* Every step keeps it: reviewers are read after the timeline.
LEMMA HeardStep ==
  ASSUME IInv, Open, Heard, [Next]_vars
  PROVE  Open' /\ Heard'
  <1>1. /\ Types /\ TriggersTypeOK /\ Len(timeline) \in Nat
    BY DEF IInv, Types
  <1>2. ASSUME NEW by \in Actors, Give(by) \/ Withdraw(by) \/ Close(by) \/ Reopen(by)
        PROVE  Open' /\ Heard'
    BY <1>2, CurrentGrows DEF Give, Withdraw, Close, Reopen, Whats
  <1>3. ASSUME NEW k \in Numbers, AgentRests(k) PROVE Open' /\ Heard'
    <2>1. /\ asked' => asked
          /\ UNCHANGED <<kind, timeline, open, pc, scanVars>>
      BY <1>1, <1>3 DEF AgentRests, Types
    <2>2. \A j : Current(j)' => Current(j) BY <2>1 DEF Current, Changes
    <2> QED BY <2>1, <2>2 DEF Open, Heard, Unclosed
  <1>4. ASSUME UNCHANGED githubVars
        PROVE  /\ Unclosed' <=> Unclosed
               /\ \A j : Current(j)' <=> Current(j)
    BY <1>4 DEF Unclosed, Current, Changes
  <1>5. CASE ReadSubject
    BY <1>4, <1>5 DEF ReadSubject, Open, Heard
  <1>6. CASE ReadEvents
    BY <1>4, <1>6 DEF ReadEvents, Open, Heard
  <1>7. CASE ReadReviewers
    BY <1>4, <1>7 DEF ReadReviewers, Open, Heard, Current
  <1>8. ASSUME NEW k \in Numbers, Take(k) PROVE Open' /\ Heard'
    <2>1. pc' # "consider" /\ UNCHANGED <<githubVars, sawOpen>> BY <1>8 DEF Take
    <2> QED BY <1>4, <2>1 DEF Open, Heard
  <1>9. CASE Start
    <2>1. pc' # "consider" /\ UNCHANGED githubVars /\ sawOpen' \in {sawOpen, open}
      BY <1>9 DEF Start
    <2> QED BY <1>4, <2>1 DEF Open, Heard
  <1>10. CASE \/ Consider \/ EndScan \/ EndPending \/ Prompt \/ Map \/ Activate \/ CancelRecords
              \/ Abort \/ Delivered \/ Fault \/ UNCHANGED vars
    <2>1. UNCHANGED <<githubVars, sawAsked, sawOpen, seen>> /\ (pc' = "consider" => pc = "consider")
      BY <1>10 DEF Consider, EndScan, EndPending, Prompt, Map, Activate, CancelRecords, Abort,
                   Delivered, Fault, vars
    <2> QED BY <1>4, <2>1 DEF Open, Heard
  <1> QED BY <1>2, <1>3, <1>5, <1>6, <1>7, <1>8, <1>9, <1>10, StepCases

\* What is wanted is current.
LEMMA WantedIsCurrent ==
  ASSUME Types, NEW k \in Numbers, Wanted(k)
  PROVE  Current(k) /\ Unclosed /\ timeline[k].by = "controller" /\ k \in 1..Len(timeline)
  <1>1. Len(timeline) \in Nat BY DEF Types
  <1>2. /\ k = Latest(Len(timeline)) /\ k <= Len(timeline) /\ asked /\ timeline[k].what = "given"
        /\ timeline[k].by = "controller" /\ Unclosed
    BY DEF Wanted, Unclosed
  <1>3. \A j \in 1..Len(timeline) : Changes(j) => j <= k BY <1>1, <1>2, LatestIs DEF Changes, Numbers
  <1> QED BY <1>1, <1>2, <1>3 DEF Current, Numbers

\* No step ignores what is wanted, but for that assignment.
LEMMA WantedStep ==
  ASSUME IInv, Open, Heard, [Next]_vars, NEW k \in Numbers, Wanted(k),
         evState[k] # "ignored", evState'[k] = "ignored"
  PROVE  kind = "assignment" /\ pc = "consider" /\ ~sawAsked
  <1>1. Types /\ TriggersTypeOK /\ Len(timeline) \in Nat BY DEF IInv, Types
  <1>2. Current(k) /\ Unclosed /\ timeline[k].by = "controller" /\ k \in 1..Len(timeline)
    BY <1>1, WantedIsCurrent
  <1>3. open /\ sawOpen BY <1>2 DEF Open
  <1>4. CASE Consider
    <2>1. /\ next \in 1..seen /\ pc = "consider"
          /\ \/ UNCHANGED evState
             \/ evState' = [evState EXCEPT ![next] = IF Accepted(next) THEN "pending" ELSE "ignored"]
      BY <1>1, <1>4 DEF Consider, Types
    <2>2. k = next /\ ~Accepted(k) BY <1>1, <2>1 DEF Types
    <2>3. k = Latest(seen) BY <1>1, <1>2, <2>1, <2>2, CurrentIsLatest DEF Types, TriggersTypeOK
    <2>4. ~sawAsked BY <1>2, <1>3, <2>2, <2>3 DEF Accepted, Current
    <2>5. sawAsked \/ kind = "assignment" BY <1>2, <2>1, <2>2 DEF Heard
    <2> QED BY <2>1, <2>4, <2>5
  <1>5. ASSUME NEW j \in Numbers, Take(j) PROVE FALSE
    BY <1>3, <1>5 DEF Take
  <1>6. CASE Start
    <2>1. /\ ~ (asked /\ open /\ ev = Latest(Len(timeline)))
          /\ evState' = [evState EXCEPT ![ev] = "ignored"]
      BY <1>6 DEF Start
    <2>2. k = ev BY <1>1, <2>1 DEF Types
    <2>3. k = Latest(Len(timeline)) BY <1>1, <1>2, CurrentIsLatest
    <2> QED BY <1>2, <1>3, <2>1, <2>2, <2>3 DEF Current
  <1>7. CASE Delivered
    BY <1>1, <1>7 DEF Delivered, Types
  <1>8. CASE ~ (Consider \/ Start \/ Delivered \/ \E j \in Numbers : Take(j))
    BY <1>8, StepCases
       DEF Give, Withdraw, Close, Reopen, Happens, AgentRests, ReadSubject, ReadEvents, ReadReviewers,
           EndScan, EndPending, Prompt, Map, Activate, CancelRecords, Abort, Fault, vars
  <1> QED BY <1>4, <1>5, <1>6, <1>7, <1>8
-----------------------------------------------------------------------------
(* The triggers' promises *)

LEMMA InitOK == Init => IInv /\ Clock /\ Oldest /\ NewestIsMapped
  <1> SUFFICES ASSUME Init PROVE IInv /\ Clock /\ Oldest /\ NewestIsMapped OBVIOUS
  <1> USE TriggersAssumption DEF Init
  <1>1. timeline \in Seq([what : Whats, by : Actors, at : Nat]) /\ Len(timeline) = 0
    BY EmptySeq
  <1>2. Types
    <2>1. \A k \in Numbers : ~ (task[k] # "none") OBVIOUS
    <2>2. prompted \subseteq 1..Len(timeline) /\ todo \subseteq 1..Len(timeline) /\ busy \subseteq Numbers
      OBVIOUS
    <2>3. evState \in [Numbers -> {"unseen", "ignored", "pending", "delivered"}] OBVIOUS
    <2>4. task \in [Numbers -> {"none", "queued", "active", "paused"}] OBVIOUS
    <2>5. {asked, open, sawAsked, sawOpen} \subseteq BOOLEAN OBVIOUS
    <2>6. /\ {mapping, seen, ev, faults} \subseteq Nat /\ next \in Nat \ {0}
          /\ prompted = {} /\ pc \in Steps
      BY DEF Steps
    <2> QED BY <1>1, <2>1, <2>2, <2>3, <2>4, <2>5, <2>6, Zenon DEF Types
  <1>3. TriggersTypeOK BY <1>1 DEF TriggersTypeOK
  <1>4. Working /\ Prefix BY <1>1 DEF Working, Prefix
  <1>5. Clock /\ Oldest /\ NewestIsMapped BY <1>1 DEF Clock, Oldest, NewestIsMapped
  <1> QED BY <1>2, <1>3, <1>4, <1>5 DEF IInv

LEMMA Invariance == Spec => []IInv
  <1>1. Init => IInv BY InitOK
  <1>2. IInv /\ [Next]_vars => IInv' BY IInvStep
  <1> QED BY <1>1, <1>2, PTL DEF Spec

LEMMA Ordered ==
  ASSUME ~Ties
  PROVE  Spec => []OInv
  <1>1. Init => OInv BY InitOK DEF OInv
  <1>2. OInv /\ [Next]_vars => OInv'
    BY IInvStep, ClockStep, OldestStep, NewestStep DEF OInv, IInv
  <1> QED BY <1>1, <1>2, PTL DEF Spec

\* The state has its types: only what was asked for has a task or a session.
THEOREM TriggersTypes == Spec => []TriggersTypeOK
  <1>1. IInv => TriggersTypeOK BY DEF IInv
  <1> QED BY <1>1, Invariance, PTL

\* The subject is never mapped to an older task than the last that was delivered
\* (process_pending_events goes by second, and stops at a failure).
THEOREM MappingGoesOn ==
  ASSUME ~Ties
  PROVE  Spec => []NewestIsMapped
  <1>1. OInv => NewestIsMapped BY DEF OInv
  <1> QED BY <1>1, Ordered, PTL

\* A withdrawal does not stop what was asked for after it.  The assumption is
\* needed: of one second, starts are sorted before cancels (bridge.py,
\* pending_events), whichever came first.
THEOREM WithdrawalIsOlder ==
  ASSUME ~Ties
  PROVE  Spec => CancelsOlder
  <1>1. OInv /\ [Next]_vars =>
          [\A k \in Numbers : task'[k] = "paused" /\ task[k] # "paused" => k < ev]_vars
    <2> SUFFICES ASSUME OInv, [Next]_vars, NEW k \in Numbers, task'[k] = "paused", task[k] # "paused"
                 PROVE  k < ev
      OBVIOUS
    <2> USE DEF OInv, IInv
    <2>1. CASE CancelRecords
      <3>1. k = mapping /\ ev # 0 /\ mapping # 0 /\ timeline[ev].what # "given"
        BY <2>1 DEF CancelRecords, Types, Working
      <3>2. ev \in Numbers /\ evState[ev] = "pending" BY <3>1 DEF Working
      <3>3. mapping # ev BY <3>1 DEF TriggersTypeOK, Types
      <3>4. ~ (ev < mapping) BY <3>1, <3>2 DEF Oldest, Types, Numbers
      <3> QED BY <3>1, <3>3, <3>4 DEF Types, Numbers
    <2>2. CASE ~ CancelRecords
      BY <2>2, StepCases
         DEF Give, Withdraw, Close, Reopen, Happens, AgentRests, Take, ReadSubject, ReadEvents,
             ReadReviewers, Consider, EndScan, EndPending, Start, Prompt, Map, Activate, Abort,
             Delivered, Fault, vars, Types
    <2> QED BY <2>1, <2>2
  <1> QED BY <1>1, Ordered, PTL DEF Spec, CancelsOlder

\* What the controller asks for, and still does, of a subject that was never
\* closed is not passed over, also when seconds are shared: reviewers are read
\* after the timeline (bridge.py, discover_issue_or_pr).  Of assignments it may
\* be one that falls between the reads, as assignees come with the issue.
THEOREM CurrentAreTaken == Spec => CurrentIsTaken
  <1>1. Init => Open /\ Heard BY DEF Init, Open, Heard
  <1>2. IInv /\ Open /\ Heard /\ [Next]_vars => (Open /\ Heard)'
    BY HeardStep
  <1>3. IInv /\ Open /\ Heard /\ [Next]_vars =>
          [\A k \in Numbers :
             Wanted(k) /\ evState[k] # "ignored" /\ evState'[k] = "ignored"
             => kind = "assignment" /\ pc = "consider" /\ ~sawAsked]_vars
    BY WantedStep
  <1> QED BY <1>1, <1>2, <1>3, Invariance, PTL DEF Spec, CurrentIsTaken
=============================================================================
