-------------------------- MODULE BridgePollProofs --------------------------
(***************************************************************************)
(* Polling keeps its promises for any items, subjects, edits, failures and *)
(* kills; for what is fresh, on a condition on the clock.                  *)
(***************************************************************************)
EXTENDS BridgePollProperties, TLAPS

USE DEF githubVars, metaVars, localVars, scanVars, boundVars
-----------------------------------------------------------------------------
(* The inductive invariant *)

Reading == {"scan", "comments", "reviews"}

Types ==
  /\ content \in [Items -> Contents] /\ evState \in [Items -> States]
  /\ page \in [Items -> Contents]
  /\ age \in [Items -> Nat] /\ gap \in [Items -> Nat] /\ took \in Nat
  /\ notified \subseteq Items /\ fresh \subseteq Items /\ ancient \subseteq Items
  /\ fetched \subseteq Items /\ cursor \subseteq SUBSET Items
  /\ pc \in Reading \cup {"rest", "cursor", "initialize", "time"}
  /\ \A i \in Items : page[i] # "unposted" => pc \in {"comments", "reviews"}
  /\ initialized \in BOOLEAN /\ baseline \in BOOLEAN /\ cutoff \in BOOLEAN
  /\ failed \in BOOLEAN /\ scanned \in BOOLEAN /\ dryRun \in BOOLEAN

\* What is not there yet is not recorded; that and what is recorded has no age.
Ageless ==
  /\ ancient \subseteq Posted
  /\ \A i \in Items : page[i] # "unposted" \/ evState[i] # "unseen" => i \in Posted
  /\ \A i \in Items : i \notin Posted \/ evState[i] # "unseen" => age[i] = 0

\* What of the notifications is not recorded yet is in a subject to be read, or
\* on a page of the one that is being read, or on its next page.
ToRead(i) ==
  \/ SubjectOf[i] \in todo
  \/ subject = SubjectOf[i] /\ pc = "comments" /\ (i \in Reviews \/ page[i] # "unposted")
  \/ subject = SubjectOf[i] /\ pc = "reviews" /\ i \in Reviews /\ page[i] # "unposted"

Scanned ==
  \A i \in fetched : evState[i] = "unseen" =>
    /\ pc # "cursor"
    /\ pc \in Reading /\ ~failed => ToRead(i)

\* Only what was there before the baseline is made history by it.
Baselined ==
  /\ fresh # {} => initialized
  /\ pc \in Reading /\ baseline => ~initialized

IInv == Types /\ PollTypeOK /\ Ageless /\ Scanned /\ NothingSkipped /\ Baselined

\* The clock: what GitHub has notified of since the fetch is no older than the
\* notification could be late, and the poll has taken.
Late(i) == age[i] > Delay + took

Timely ==
  /\ took <= ScanTime
  /\ \A i \in Posted \ ancient : evState[i] = "unseen" =>
       /\ i \notin notified => age[i] <= Delay
       /\ i \in notified \ fetched /\ pc \in Reading \cup {"cursor"} => ~Late(i)
       /\ i \in notified /\ pc \in {"initialize", "time"} => ~Late(i)
  /\ \A i \in fresh : evState[i] = "unseen" => gap[i] <= Grace
-----------------------------------------------------------------------------
(* Steps *)

\* A step is a step of one of these actions.
LEMMA StepCases ==
  ASSUME [Next]_vars
  PROVE  \/ \E i \in Items : Post(i) \/ Edit(i) \/ Notify(i) \/ Process(i) \/ Consider(i)
         \/ \E s \in Subjects : ReadComments(s)
         \/ Tick \/ IntervalPasses \/ GoLive \/ Fetch \/ ReadReviews \/ EndSubject
         \/ EndScan \/ SaveCursor \/ SaveInitialized \/ SaveTime \/ SubjectFails \/ Crash
         \/ UNCHANGED vars
  BY DEF Next, Poll

\* An item that is read is recorded in one of the states, and no other item
\* changes; what is final stays.
LEMMA Considered ==
  ASSUME Types, NEW i \in Items, Consider(i)
  PROVE  \E e \in States \ {"unseen"} :
           /\ evState' = [evState EXCEPT ![i] = e]
           /\ evState[i] \in Final => e = evState[i]
           /\ e = "baseline" => evState[i] = e \/ baseline \/ (evState[i] = "unseen" /\ Historical(i))
  <1> DEFINE Good(e) ==
         /\ evState' = [evState EXCEPT ![i] = e]
         /\ evState[i] \in Final => e = evState[i]
         /\ e = "baseline" => evState[i] = e \/ baseline \/ (evState[i] = "unseen" /\ Historical(i))
  <1>1. evState[i] \in States /\ evState = [evState EXCEPT ![i] = evState[i]]
    BY DEF Types
  <1>2. ASSUME UNCHANGED evState, evState[i] # "unseen" PROVE \E e \in States \ {"unseen"} : Good(e)
    <2>1. Good(evState[i]) BY <1>1, <1>2
    <2> QED BY <2>1, <1>1, <1>2
  <1>3. ASSUME evState' = [evState EXCEPT ![i] = "ignored"], evState[i] \notin Final
        PROVE  \E e \in States \ {"unseen"} : Good(e)
    <2>1. Good("ignored") BY <1>3
    <2> QED BY <2>1 DEF States
  <1>4. ASSUME evState[i] \notin Final, NEW state \in States \ {"unseen"},
               state = "baseline" => baseline \/ (evState[i] = "unseen" /\ Historical(i)),
               \/ evState' = [evState EXCEPT ![i] = state]
               \/ UNCHANGED evState /\ evState[i] # "unseen"
        PROVE  \E e \in States \ {"unseen"} : Good(e)
    <2>1. CASE evState' = [evState EXCEPT ![i] = state]
      <3>1. Good(state) BY <1>4, <2>1
      <3> QED BY <1>4, <3>1
    <2>2. CASE UNCHANGED evState /\ evState[i] # "unseen"
      BY <1>2, <2>2
    <2> QED BY <1>4, <2>1, <2>2
  <1>5. evState[i] \in Final => evState[i] # "unseen" BY DEF Final
  <1>6. CASE i \in Reviews
    <2>1. ConsiderReview(i) BY <1>6 DEF Consider
    <2>2. CASE evState[i] \in Final \cup {"ignored"}
      BY <1>2, <1>5, <2>1, <2>2 DEF ConsiderReview
    <2>3. CASE evState[i] \notin Final \cup {"ignored"}
      <3> DEFINE state ==
            IF baseline \/ (evState[i] = "unseen" /\ Historical(i)) THEN "baseline"
            ELSE IF ~(i \in Authorized) THEN "ignored"
            ELSE IF dryRun THEN "dry-run" ELSE "pending"
      <3>1. state \in States \ {"unseen"} BY DEF States, Final
      <3>2. state = "baseline" => baseline \/ (evState[i] = "unseen" /\ Historical(i)) OBVIOUS
      <3>3. evState' = IF evState[i] = "unseen" \/ (evState[i] = "ignored" /\ i \in Authorized)
                         THEN [evState EXCEPT ![i] = state] ELSE evState
        BY <2>1, <2>3 DEF ConsiderReview, RecordAction
      <3> HIDE DEF state
      <3> QED BY <1>4, <2>1, <2>3, <3>1, <3>2, <3>3
    <2> QED BY <2>2, <2>3
  <1>7. CASE i \notin Reviews
    <2>1. ConsiderMention(i) BY <1>7 DEF Consider
    <2>2. CASE evState[i] \in Final
      BY <1>2, <1>5, <2>1, <2>2 DEF ConsiderMention
    <2>3. CASE evState[i] \notin Final /\ i \in Authorized /\ page[i] = "ambiguous"
      BY <1>3, <2>1, <2>3 DEF ConsiderMention
    <2>4. CASE evState[i] \notin Final /\ ~(i \in Authorized /\ page[i] = "ambiguous")
      <3> DEFINE state ==
            IF baseline \/ (evState[i] = "unseen" /\ Historical(i)) THEN "baseline"
            ELSE IF ~(i \in Authorized /\ page[i] = "command") THEN "ignored"
            ELSE IF dryRun THEN "dry-run" ELSE "pending"
      <3>1. state \in States \ {"unseen"} BY DEF States, Final
      <3>2. state = "baseline" => baseline \/ (evState[i] = "unseen" /\ Historical(i)) OBVIOUS
      <3>3. evState' = IF evState[i] = "unseen" \/ (evState[i] = "ignored" /\ i \in Authorized /\ page[i] = "command")
                         THEN [evState EXCEPT ![i] = state] ELSE evState
        BY <2>1, <2>4 DEF ConsiderMention, RecordAction
      <3> HIDE DEF state
      <3> QED BY <1>4, <2>1, <2>4, <3>1, <3>2, <3>3
    <2> QED BY <2>2, <2>3, <2>4
  <1> QED BY <1>6, <1>7

\* An age stops just beyond Grace.
LEMMA OlderIsNat ==
  ASSUME NEW n \in Nat
  PROVE  Older(n) \in Nat /\ n <= Older(n) /\ Older(n) <= n + 1 /\ (n <= Grace + 1 => Older(n) <= Grace + 1)
  BY PollAssumption DEF Older

\* Every step keeps the types.
LEMMA TypesStep ==
  ASSUME Types, PollTypeOK, [Next]_vars
  PROVE  Types'
  <1> USE DEF Types, Reading, Contents, Rest, Blank
  <1>1. ASSUME NEW i \in Items, Post(i) PROVE Types'
    BY <1>1 DEF Post
  <1>2. ASSUME NEW i \in Items, Edit(i) PROVE Types'
    BY <1>2 DEF Edit
  <1>3. ASSUME NEW i \in Items, Notify(i) PROVE Types'
    BY <1>3 DEF Notify
  <1>4. ASSUME NEW i \in Items, Process(i) PROVE Types'
    BY <1>4 DEF Process, States, Final
  <1>5. ASSUME NEW i \in Items, Consider(i) PROVE Types'
    <2>1. PICK e \in States : evState' = [evState EXCEPT ![i] = e] BY <1>5, Considered
    <2> QED BY <1>5, <2>1 DEF Consider
  <1>6. ASSUME NEW s \in Subjects, ReadComments(s) PROVE Types'
    BY <1>6 DEF ReadComments
  <1>7. CASE Tick
    BY <1>7, OlderIsNat, PollAssumption DEF Tick
  <1>8. CASE IntervalPasses
    BY <1>8 DEF IntervalPasses
  <1>9. CASE GoLive
    BY <1>9 DEF GoLive
  <1>10. CASE Fetch
    BY <1>10 DEF Fetch
  <1>11. CASE ReadReviews
    BY <1>11 DEF ReadReviews
  <1>12. CASE EndSubject
    BY <1>12 DEF EndSubject
  <1>13. CASE EndScan
    <2>1. CASE failed
      <3>1. Rest BY <1>13, <2>1 DEF EndScan
      <3>2. UNCHANGED <<githubVars, evState, metaVars, due, dryRun>> BY <1>13 DEF EndScan
      <3> QED BY <3>1, <3>2
    <2>2. CASE ~failed BY <1>13, <2>2 DEF EndScan
    <2> QED BY <2>1, <2>2
  <1>14. CASE SaveCursor
    BY <1>14 DEF SaveCursor
  <1>15. CASE SaveInitialized
    BY <1>15 DEF SaveInitialized
  <1>16. CASE SaveTime
    BY <1>16 DEF SaveTime
  <1>17. CASE SubjectFails
    BY <1>17 DEF SubjectFails
  <1>18. CASE Crash
    BY <1>18 DEF Crash
  <1>19. CASE UNCHANGED vars
    BY <1>19 DEF vars
  <1> QED
    BY <1>1, <1>2, <1>3, <1>4, <1>5, <1>6, <1>7, <1>8, <1>9, <1>10, <1>11, <1>12,
       <1>13, <1>14, <1>15, <1>16, <1>17, <1>18, <1>19, StepCases

\* Every step keeps PollTypeOK.
LEMMA PollTypeStep ==
  ASSUME Types, PollTypeOK, Ageless, [Next]_vars
  PROVE  PollTypeOK'
  <1> USE DEF Types, PollTypeOK, Ageless, Reading, Contents, Posted, Rest, Blank
  <1>1. ASSUME NEW i \in Items, Post(i) PROVE PollTypeOK'
    BY <1>1 DEF Post
  <1>2. ASSUME NEW i \in Items, Edit(i) PROVE PollTypeOK'
    BY <1>2 DEF Edit
  <1>3. ASSUME NEW i \in Items, Notify(i) PROVE PollTypeOK'
    BY <1>3 DEF Notify
  <1>4. ASSUME NEW i \in Items, Process(i) PROVE PollTypeOK'
    BY <1>4 DEF Process, States, Final
  <1>5. ASSUME NEW i \in Items, Consider(i) PROVE PollTypeOK'
    <2>1. PICK e \in States \ {"unseen"} : evState' = [evState EXCEPT ![i] = e]
      BY <1>5, Considered
    <2>2. evState' \in [Items -> States] BY <2>1
    <2>3. UNCHANGED <<content, notified, ancient, fresh, fetched, cursor, pc, todo, subject, took>>
      BY <1>5 DEF Consider
    <2>4. \A j \in Items : gap'[j] <= age'[j] /\ age'[j] <= Grace + 1
      BY <1>5, PollAssumption DEF Consider
    <2>5. \A j \in Items : page'[j] # "unposted" => page[j] # "unposted"
      BY <1>5 DEF Consider
    <2> QED BY <2>2, <2>3, <2>4, <2>5
  <1>6. ASSUME NEW s \in Subjects, ReadComments(s) PROVE PollTypeOK'
    BY <1>6, PollAssumption DEF ReadComments
  <1>7. CASE Tick
    BY <1>7, OlderIsNat, PollAssumption DEF Tick
  <1>8. CASE IntervalPasses
    BY <1>8 DEF IntervalPasses
  <1>9. CASE GoLive
    BY <1>9 DEF GoLive
  <1>10. CASE Fetch
    BY <1>10 DEF Fetch
  <1>11. CASE ReadReviews
    BY <1>11 DEF ReadReviews
  <1>12. CASE EndSubject
    BY <1>12 DEF EndSubject
  <1>13. CASE EndScan
    <2>1. CASE failed
      <3>1. Rest BY <1>13, <2>1 DEF EndScan
      <3>2. UNCHANGED <<githubVars, evState, metaVars, due, dryRun>> BY <1>13 DEF EndScan
      <3> QED BY <3>1, <3>2
    <2>2. CASE ~failed BY <1>13, <2>2 DEF EndScan
    <2> QED BY <2>1, <2>2
  <1>14. CASE SaveCursor
    BY <1>14 DEF SaveCursor
  <1>15. CASE SaveInitialized
    BY <1>15 DEF SaveInitialized
  <1>16. CASE SaveTime
    BY <1>16 DEF SaveTime
  <1>17. CASE SubjectFails
    BY <1>17 DEF SubjectFails
  <1>18. CASE Crash
    BY <1>18 DEF Crash
  <1>19. CASE UNCHANGED vars
    BY <1>19 DEF vars
  <1> QED
    BY <1>1, <1>2, <1>3, <1>4, <1>5, <1>6, <1>7, <1>8, <1>9, <1>10, <1>11, <1>12,
       <1>13, <1>14, <1>15, <1>16, <1>17, <1>18, <1>19, StepCases

\* Every step keeps Ageless.
LEMMA AgelessStep ==
  ASSUME Types, PollTypeOK, Ageless, [Next]_vars
  PROVE  Ageless'
  <1> USE DEF Types, PollTypeOK, Ageless, Contents, Posted, Rest, Blank
  <1>1. ASSUME NEW i \in Items, Post(i) PROVE Ageless'
    BY <1>1 DEF Post
  <1>2. ASSUME NEW i \in Items, Edit(i) PROVE Ageless'
    BY <1>2 DEF Edit
  <1>3. ASSUME NEW i \in Items, Notify(i) PROVE Ageless'
    BY <1>3 DEF Notify
  <1>4. ASSUME NEW i \in Items, Process(i) PROVE Ageless'
    BY <1>4 DEF Process, States, Final
  <1>5. ASSUME NEW i \in Items, Consider(i) PROVE Ageless'
    <2>1. PICK e \in States \ {"unseen"} : evState' = [evState EXCEPT ![i] = e]
      BY <1>5, Considered
    <2> QED BY <1>5, <2>1 DEF Consider
  <1>6. ASSUME NEW s \in Subjects, ReadComments(s) PROVE Ageless'
    BY <1>6 DEF ReadComments
  <1>7. CASE Tick
    BY <1>7 DEF Tick
  <1>8. CASE IntervalPasses
    BY <1>8 DEF IntervalPasses
  <1>9. CASE GoLive
    BY <1>9 DEF GoLive
  <1>10. CASE Fetch
    BY <1>10 DEF Fetch
  <1>11. CASE ReadReviews
    BY <1>11 DEF ReadReviews
  <1>12. CASE EndSubject
    BY <1>12 DEF EndSubject
  <1>13. CASE EndScan
    <2>1. CASE failed
      <3>1. Rest BY <1>13, <2>1 DEF EndScan
      <3>2. UNCHANGED <<githubVars, evState, metaVars, due, dryRun>> BY <1>13 DEF EndScan
      <3> QED BY <3>1, <3>2
    <2>2. CASE ~failed BY <1>13, <2>2 DEF EndScan
    <2> QED BY <2>1, <2>2
  <1>14. CASE SaveCursor
    BY <1>14 DEF SaveCursor
  <1>15. CASE SaveInitialized
    BY <1>15 DEF SaveInitialized
  <1>16. CASE SaveTime
    BY <1>16 DEF SaveTime
  <1>17. CASE SubjectFails
    BY <1>17 DEF SubjectFails
  <1>18. CASE Crash
    BY <1>18 DEF Crash
  <1>19. CASE UNCHANGED vars
    BY <1>19 DEF vars
  <1> QED
    BY <1>1, <1>2, <1>3, <1>4, <1>5, <1>6, <1>7, <1>8, <1>9, <1>10, <1>11, <1>12,
       <1>13, <1>14, <1>15, <1>16, <1>17, <1>18, <1>19, StepCases

\* Every step keeps Baselined.
LEMMA BaselinedStep ==
  ASSUME Types, Baselined, [Next]_vars
  PROVE  Baselined'
  <1> USE DEF Types, Baselined, Reading, Rest
  <1>1. ASSUME NEW i \in Items, Post(i) PROVE Baselined'
    BY <1>1 DEF Post
  <1>2. ASSUME NEW i \in Items, Edit(i) PROVE Baselined'
    BY <1>2 DEF Edit
  <1>3. ASSUME NEW i \in Items, Notify(i) PROVE Baselined'
    BY <1>3 DEF Notify
  <1>4. ASSUME NEW i \in Items, Process(i) PROVE Baselined'
    BY <1>4 DEF Process
  <1>5. ASSUME NEW i \in Items, Consider(i) PROVE Baselined'
    <2>1. PICK e \in States \ {"unseen"} : evState' = [evState EXCEPT ![i] = e]
      BY <1>5, Considered
    <2> QED BY <1>5, <2>1 DEF Consider
  <1>6. ASSUME NEW s \in Subjects, ReadComments(s) PROVE Baselined'
    BY <1>6 DEF ReadComments
  <1>7. CASE Tick
    BY <1>7 DEF Tick
  <1>8. CASE IntervalPasses
    BY <1>8 DEF IntervalPasses
  <1>9. CASE GoLive
    BY <1>9 DEF GoLive
  <1>10. CASE Fetch
    BY <1>10 DEF Fetch
  <1>11. CASE ReadReviews
    BY <1>11 DEF ReadReviews
  <1>12. CASE EndSubject
    BY <1>12 DEF EndSubject
  <1>13. CASE EndScan
    <2>1. CASE failed
      <3>1. Rest BY <1>13, <2>1 DEF EndScan
      <3>2. UNCHANGED <<githubVars, evState, metaVars, due, dryRun>> BY <1>13 DEF EndScan
      <3> QED BY <3>1, <3>2
    <2>2. CASE ~failed BY <1>13, <2>2 DEF EndScan
    <2> QED BY <2>1, <2>2
  <1>14. CASE SaveCursor
    BY <1>14 DEF SaveCursor
  <1>15. CASE SaveInitialized
    BY <1>15 DEF SaveInitialized
  <1>16. CASE SaveTime
    BY <1>16 DEF SaveTime
  <1>17. CASE SubjectFails
    BY <1>17 DEF SubjectFails
  <1>18. CASE Crash
    BY <1>18 DEF Crash
  <1>19. CASE UNCHANGED vars
    BY <1>19 DEF vars
  <1> QED
    BY <1>1, <1>2, <1>3, <1>4, <1>5, <1>6, <1>7, <1>8, <1>9, <1>10, <1>11, <1>12,
       <1>13, <1>14, <1>15, <1>16, <1>17, <1>18, <1>19, StepCases

\* Every step keeps Scanned.
LEMMA ScannedStep ==
  ASSUME Types, PollTypeOK, Scanned, [Next]_vars
  PROVE  Scanned'
  <1> USE DEF Types, PollTypeOK, Scanned, ToRead, Reading, Contents, Posted, Rest, Blank
  <1>1. ASSUME NEW i \in Items, Post(i) PROVE Scanned'
    BY <1>1 DEF Post
  <1>2. ASSUME NEW i \in Items, Edit(i) PROVE Scanned'
    BY <1>2 DEF Edit
  <1>3. ASSUME NEW i \in Items, Notify(i) PROVE Scanned'
    BY <1>3 DEF Notify
  <1>4. ASSUME NEW i \in Items, Process(i) PROVE Scanned'
    BY <1>4 DEF Process, States, Final
  <1>5. ASSUME NEW i \in Items, Consider(i) PROVE Scanned'
    <2>1. PICK e \in States \ {"unseen"} : evState' = [evState EXCEPT ![i] = e]
      BY <1>5, Considered
    <2> QED BY <1>5, <2>1 DEF Consider
  <1>6. ASSUME NEW s \in Subjects, ReadComments(s) PROVE Scanned'
    BY <1>6, PollAssumption DEF ReadComments
  <1>7. CASE Tick
    BY <1>7 DEF Tick
  <1>8. CASE IntervalPasses
    BY <1>8 DEF IntervalPasses
  <1>9. CASE GoLive
    BY <1>9 DEF GoLive
  <1>10. CASE Fetch
    BY <1>10, PollAssumption DEF Fetch
  <1>11. CASE ReadReviews
    BY <1>11 DEF ReadReviews
  <1>12. CASE EndSubject
    BY <1>12 DEF EndSubject
  <1>13. CASE EndScan
    <2>1. CASE failed
      <3>1. Rest BY <1>13, <2>1 DEF EndScan
      <3>2. UNCHANGED <<githubVars, evState, metaVars, due, dryRun>> BY <1>13 DEF EndScan
      <3> QED BY <3>1, <3>2
    <2>2. CASE ~failed BY <1>13, <2>2 DEF EndScan
    <2> QED BY <2>1, <2>2
  <1>14. CASE SaveCursor
    BY <1>14 DEF SaveCursor
  <1>15. CASE SaveInitialized
    BY <1>15 DEF SaveInitialized
  <1>16. CASE SaveTime
    BY <1>16 DEF SaveTime
  <1>17. CASE SubjectFails
    BY <1>17 DEF SubjectFails
  <1>18. CASE Crash
    BY <1>18 DEF Crash
  <1>19. CASE UNCHANGED vars
    BY <1>19 DEF vars
  <1> QED
    BY <1>1, <1>2, <1>3, <1>4, <1>5, <1>6, <1>7, <1>8, <1>9, <1>10, <1>11, <1>12,
       <1>13, <1>14, <1>15, <1>16, <1>17, <1>18, <1>19, StepCases

\* Every step keeps NothingSkipped.
LEMMA SkippedStep ==
  ASSUME Types, Scanned, NothingSkipped, [Next]_vars
  PROVE  NothingSkipped'
  <1> USE DEF Types, Scanned, NothingSkipped, Rest
  <1>1. ASSUME NEW i \in Items, Post(i) PROVE NothingSkipped'
    BY <1>1 DEF Post
  <1>2. ASSUME NEW i \in Items, Edit(i) PROVE NothingSkipped'
    BY <1>2 DEF Edit
  <1>3. ASSUME NEW i \in Items, Notify(i) PROVE NothingSkipped'
    BY <1>3 DEF Notify
  <1>4. ASSUME NEW i \in Items, Process(i) PROVE NothingSkipped'
    BY <1>4 DEF Process, States, Final
  <1>5. ASSUME NEW i \in Items, Consider(i) PROVE NothingSkipped'
    <2>1. PICK e \in States \ {"unseen"} : evState' = [evState EXCEPT ![i] = e]
      BY <1>5, Considered
    <2> QED BY <1>5, <2>1 DEF Consider
  <1>6. ASSUME NEW s \in Subjects, ReadComments(s) PROVE NothingSkipped'
    BY <1>6 DEF ReadComments
  <1>7. CASE Tick
    BY <1>7 DEF Tick
  <1>8. CASE IntervalPasses
    BY <1>8 DEF IntervalPasses
  <1>9. CASE GoLive
    BY <1>9 DEF GoLive
  <1>10. CASE Fetch
    BY <1>10 DEF Fetch
  <1>11. CASE ReadReviews
    BY <1>11 DEF ReadReviews
  <1>12. CASE EndSubject
    BY <1>12 DEF EndSubject
  <1>13. CASE EndScan
    <2>1. CASE failed
      <3>1. Rest BY <1>13, <2>1 DEF EndScan
      <3>2. UNCHANGED <<githubVars, evState, metaVars, due, dryRun>> BY <1>13 DEF EndScan
      <3> QED BY <3>1, <3>2
    <2>2. CASE ~failed BY <1>13, <2>2 DEF EndScan
    <2> QED BY <2>1, <2>2
  <1>14. CASE SaveCursor
    BY <1>14 DEF SaveCursor
  <1>15. CASE SaveInitialized
    BY <1>15 DEF SaveInitialized
  <1>16. CASE SaveTime
    BY <1>16 DEF SaveTime
  <1>17. CASE SubjectFails
    BY <1>17 DEF SubjectFails
  <1>18. CASE Crash
    BY <1>18 DEF Crash
  <1>19. CASE UNCHANGED vars
    BY <1>19 DEF vars
  <1> QED
    BY <1>1, <1>2, <1>3, <1>4, <1>5, <1>6, <1>7, <1>8, <1>9, <1>10, <1>11, <1>12,
       <1>13, <1>14, <1>15, <1>16, <1>17, <1>18, <1>19, StepCases

\* Nothing that is fresh becomes history.
LEMMA FreshStep ==
  ASSUME Types, PollTypeOK, Ageless, Baselined, Timely, FreshIsTaken, [Next]_vars
  PROVE  FreshIsTaken'
  <1> USE DEF Types, PollTypeOK, Ageless, Baselined, Timely, FreshIsTaken, Reading, Posted, Rest
  <1>1. ASSUME NEW i \in Items, Post(i) PROVE FreshIsTaken'
    BY <1>1 DEF Post
  <1>2. ASSUME NEW i \in Items, Edit(i) PROVE FreshIsTaken'
    BY <1>2 DEF Edit
  <1>3. ASSUME NEW i \in Items, Notify(i) PROVE FreshIsTaken'
    BY <1>3 DEF Notify
  <1>4. ASSUME NEW i \in Items, Process(i) PROVE FreshIsTaken'
    BY <1>4 DEF Process, States, Final
  <1>5. ASSUME NEW i \in Items, Consider(i) PROVE FreshIsTaken'
    <2>1. PICK e \in States \ {"unseen"} :
            /\ evState' = [evState EXCEPT ![i] = e]
            /\ e = "baseline" => evState[i] = e \/ baseline \/ (evState[i] = "unseen" /\ Historical(i))
      BY <1>5, Considered
    <2>2. i \in fresh => initialized BY DEF Baselined
    <2>3. pc \in Reading BY <1>5 DEF Consider
    <2>4. i \in fresh /\ evState[i] = "unseen" => ~Historical(i)
      BY PollAssumption DEF Historical
    <2>5. i \in fresh => e # "baseline" BY <2>1, <2>2, <2>3, <2>4
    <2> QED BY <1>5, <2>1, <2>5 DEF Consider
  <1>6. ASSUME NEW s \in Subjects, ReadComments(s) PROVE FreshIsTaken'
    BY <1>6 DEF ReadComments
  <1>7. CASE Tick
    BY <1>7 DEF Tick
  <1>8. CASE IntervalPasses
    BY <1>8 DEF IntervalPasses
  <1>9. CASE GoLive
    BY <1>9 DEF GoLive
  <1>10. CASE Fetch
    BY <1>10 DEF Fetch
  <1>11. CASE ReadReviews
    BY <1>11 DEF ReadReviews
  <1>12. CASE EndSubject
    BY <1>12 DEF EndSubject
  <1>13. CASE EndScan
    <2>1. CASE failed
      <3>1. Rest BY <1>13, <2>1 DEF EndScan
      <3>2. UNCHANGED <<githubVars, evState, metaVars, due, dryRun>> BY <1>13 DEF EndScan
      <3> QED BY <3>1, <3>2
    <2>2. CASE ~failed BY <1>13, <2>2 DEF EndScan
    <2> QED BY <2>1, <2>2
  <1>14. CASE SaveCursor
    BY <1>14 DEF SaveCursor
  <1>15. CASE SaveInitialized
    BY <1>15 DEF SaveInitialized
  <1>16. CASE SaveTime
    BY <1>16 DEF SaveTime
  <1>17. CASE SubjectFails
    BY <1>17 DEF SubjectFails
  <1>18. CASE Crash
    BY <1>18 DEF Crash
  <1>19. CASE UNCHANGED vars
    BY <1>19 DEF vars
  <1> QED
    BY <1>1, <1>2, <1>3, <1>4, <1>5, <1>6, <1>7, <1>8, <1>9, <1>10, <1>11, <1>12,
       <1>13, <1>14, <1>15, <1>16, <1>17, <1>18, <1>19, StepCases

\* Every step keeps the times, if they leave room for what is late.
LEMMA TimelyStep ==
  ASSUME Types, PollTypeOK, Ageless, Scanned, NothingSkipped, Timely,
         Delay + ScanTime <= Grace, [Next]_vars
  PROVE  Timely'
  <1> USE DEF Types, PollTypeOK, Ageless, Scanned, NothingSkipped, Timely, Late, Reading, Contents, Posted, Rest
  <1>1. ASSUME NEW i \in Items, Post(i) PROVE Timely'
    BY <1>1, PollAssumption DEF Post
  <1>2. ASSUME NEW i \in Items, Edit(i) PROVE Timely'
    BY <1>2 DEF Edit
  <1>3. ASSUME NEW i \in Items, Notify(i) PROVE Timely'
    BY <1>3, PollAssumption DEF Notify
  <1>4. ASSUME NEW i \in Items, Process(i) PROVE Timely'
    BY <1>4 DEF Process, States, Final
  <1>5. ASSUME NEW i \in Items, Consider(i) PROVE Timely'
    <2>1. PICK e \in States \ {"unseen"} : evState' = [evState EXCEPT ![i] = e]
      BY <1>5, Considered
    <2> QED BY <1>5, <2>1 DEF Consider
  <1>6. ASSUME NEW s \in Subjects, ReadComments(s) PROVE Timely'
    BY <1>6 DEF ReadComments
  <1>7. CASE Tick
    BY <1>7, OlderIsNat, PollAssumption DEF Tick
  <1>8. CASE IntervalPasses
    BY <1>8 DEF IntervalPasses
  <1>9. CASE GoLive
    BY <1>9 DEF GoLive
  <1>10. CASE Fetch
    BY <1>10, PollAssumption DEF Fetch
  <1>11. CASE ReadReviews
    BY <1>11 DEF ReadReviews
  <1>12. CASE EndSubject
    BY <1>12 DEF EndSubject
  <1>13. CASE EndScan
    <2>1. CASE failed
      <3>1. Rest BY <1>13, <2>1 DEF EndScan
      <3>2. UNCHANGED <<githubVars, evState, metaVars, due, dryRun>> BY <1>13 DEF EndScan
      <3> QED BY <3>1, <3>2, PollAssumption
    <2>2. CASE ~failed BY <1>13, <2>2 DEF EndScan
    <2> QED BY <2>1, <2>2
  <1>14. CASE SaveCursor
    BY <1>14, PollAssumption DEF SaveCursor
  <1>15. CASE SaveInitialized
    BY <1>15 DEF SaveInitialized
  <1>16. CASE SaveTime
    BY <1>16, PollAssumption DEF SaveTime
  <1>17. CASE SubjectFails
    BY <1>17 DEF SubjectFails
  <1>18. CASE Crash
    BY <1>18, PollAssumption DEF Crash
  <1>19. CASE UNCHANGED vars
    BY <1>19 DEF vars
  <1> QED
    BY <1>1, <1>2, <1>3, <1>4, <1>5, <1>6, <1>7, <1>8, <1>9, <1>10, <1>11, <1>12,
       <1>13, <1>14, <1>15, <1>16, <1>17, <1>18, <1>19, StepCases

\* What is final stays, whatever it is edited to.
LEMMA FinalStep ==
  ASSUME Types, [Next]_vars
  PROVE  \A i \in Items : evState[i] \in Final => evState'[i] = evState[i]
  <1> USE DEF Types
  <1>1. ASSUME NEW i \in Items, Consider(i)
        PROVE  \A j \in Items : evState[j] \in Final => evState'[j] = evState[j]
    BY <1>1, Considered
  <1>2. ASSUME NEW i \in Items, Process(i)
        PROVE  \A j \in Items : evState[j] \in Final => evState'[j] = evState[j]
    BY <1>2 DEF Process, Final
  <1>3. CASE UNCHANGED evState
    BY <1>3
  <1> QED
    BY <1>1, <1>2, <1>3, StepCases
       DEF Post, Edit, Notify, ReadComments, Tick, IntervalPasses, GoLive, Fetch, ReadReviews,
           EndSubject, EndScan, SaveCursor, SaveInitialized, SaveTime, SubjectFails, Crash, vars
-----------------------------------------------------------------------------
(* The theorems *)

\* The invariant holds at first, and of every step.
LEMMA InitOK == Init => IInv /\ FreshIsTaken /\ Timely
  <1> SUFFICES ASSUME Init PROVE IInv /\ FreshIsTaken /\ Timely OBVIOUS
  <1> USE PollAssumption DEF Init, Posted, Blank
  <1>1. Types
    <2>1. content \in [Items -> Contents] /\ evState \in [Items -> States] /\ page \in [Items -> Contents]
      BY DEF Contents, States
    <2>2. age \in [Items -> Nat] /\ gap \in [Items -> Nat] OBVIOUS
    <2> QED BY <2>1, <2>2 DEF Types
  <1>2. PollTypeOK BY DEF PollTypeOK, Contents, States
  <1>3. Ageless BY DEF Ageless
  <1>4. Scanned /\ NothingSkipped /\ Baselined BY DEF Scanned, NothingSkipped, Baselined, Reading
  <1>5. FreshIsTaken /\ Timely BY DEF FreshIsTaken, Timely, Reading
  <1> QED BY <1>1, <1>2, <1>3, <1>4, <1>5 DEF IInv

LEMMA IInvStep == IInv /\ [Next]_vars => IInv'
  BY TypesStep, PollTypeStep, AgelessStep, ScannedStep, SkippedStep, BaselinedStep DEF IInv

LEMMA Invariance == Spec => []IInv
  BY InitOK, IInvStep, PTL DEF Spec

\* The state has its types.
THEOREM PollTypes == Spec => []PollTypeOK
  <1>1. IInv => PollTypeOK BY DEF IInv
  <1> QED BY <1>1, Invariance, PTL

\* Nothing GitHub has notified of is passed over (poll_notifications keeps the
\* cursor until every subject was read, and stores what was fetched).
THEOREM CursorIsSafe == Spec => []NothingSkipped
  <1>1. IInv => NothingSkipped BY DEF IInv
  <1> QED BY <1>1, Invariance, PTL

\* What is settled is not recorded again (record_action, ON CONFLICT).
THEOREM SettledStays == Spec => FinalStays
  <1>1. IInv /\ [Next]_vars =>
          [\A i \in Items : evState[i] \in Final => evState'[i] = evState[i]]_vars
    BY FinalStep DEF IInv
  <1> QED BY <1>1, Invariance, PTL DEF Spec, FinalStays

\* EVENT_PROPAGATION_GRACE is long enough when it covers what GitHub may be late
\* with a notification, and a poll may take, together.
THEOREM GraceSuffices ==
  ASSUME Delay + ScanTime <= Grace
  PROVE  Spec => []FreshIsTaken
  <1>1. IInv /\ Timely /\ FreshIsTaken /\ [Next]_vars => Timely' /\ FreshIsTaken'
    BY TimelyStep, FreshStep DEF IInv
  <1> QED BY <1>1, InitOK, Invariance, PTL DEF Spec
=============================================================================
