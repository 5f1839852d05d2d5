-------------------------- MODULE BridgeInboxProofs --------------------------
(***************************************************************************)
(* Managed requests keep their promises for any callers, calls, time-outs, *)
(* restarts of OpenCode and killed runs of the bridge.                     *)
(***************************************************************************)
EXTENDS BridgeInbox, TLAPS

USE DEF callVars, fileVars, runVars
-----------------------------------------------------------------------------
(* The inductive invariant *)

States == {"unmade", "waiting", "ok", "failed", "late", "aborted", "killed"} \cup Leaving

Types ==
  /\ by \in [Calls -> Callers] /\ state \in [Calls -> States]
  /\ left \in [Calls -> 0..Timeout]
  /\ response \in [Calls -> {"none", "ok", "error"}]
  /\ pc \in {"rest", "sweep", "open", "handle", "answer", "unlink"}
  /\ reply \in {"none", "ok", "error"}
  /\ pc \in {"rest", "sweep"} => cur = 0
  /\ pc \in {"handle", "answer", "unlink"} => cur # 0
  /\ \A c \in Calls : response[c] # "none" => c \in Made

\* Calls are made in order.
InTurn == \A d \in Made : \A c \in Calls : c < d => c \in Made

\* Success is said, and promised, only of what was carried out.
Truthful ==
  /\ \A c \in Calls : response[c] = "ok" => c \in effects
  /\ reply = "ok" => cur \in effects

\* What is over has no request, unless OpenCode was killed.
OverIsGone == \A c \in Over : state[c] = "killed" \/ c \notin inbox

\* A caller makes one call at a time.
OneAtATime == \A c, d \in Made : c < d /\ by[c] = by[d] => c \in Over

InHand(c) == c = cur /\ pc \in {"handle", "answer", "unlink"}

\* A run goes through its requests from the oldest, and has in its listing or
\* in hand what comes before any of them and is there still.
Sorted ==
  /\ pc = "open" \/ InHand(cur) => \A d \in todo : cur < d
  /\ pc \in {"open", "handle", "answer", "unlink"} =>
       \A d \in Made : \A c \in inbox :
         c < d /\ by[c] = by[d] /\ (d \in todo \/ InHand(d)) => c \in todo \/ InHand(c)

\* Before an operation that was carried out, its caller has nothing left to
\* carry out, neither in the inbox nor in hand.
NothingBefore ==
  \A d \in effects : \A c \in Made :
    c < d /\ by[c] = by[d] => c \notin inbox /\ ~(pc = "handle" /\ c = cur)

IInv ==
  /\ Types /\ InboxTypeOK /\ InTurn /\ Truthful /\ OkIsDone
  /\ OverIsGone /\ OneAtATime /\ Sorted /\ NothingBefore
-----------------------------------------------------------------------------
(* Steps *)

\* A step is a step of one of these actions.
LEMMA StepCases ==
  ASSUME [Next]_vars
  PROVE  \/ \E c \in Calls :
              \/ Make(c) \/ Abort(c) \/ Read(c) \/ GiveUp(c) \/ Leave(c) \/ Age(c)
              \/ Sweep(c) \/ Open(c)
         \/ Kill \/ Tick \/ BeginRun \/ List \/ Handle \/ Answer \/ Unlink
         \/ EndRun \/ Crash \/ UNCHANGED vars
  BY DEF Next, Plugin, Run

\* Every step keeps the types.
LEMMA TypesStep ==
  ASSUME Types, InboxTypeOK, [Next]_vars
  PROVE  Types'
  <1> USE DEF Types, States, Leaving, Calls, InboxTypeOK, Made
  <1>1. ASSUME NEW c \in Calls, Make(c) PROVE Types'
    BY <1>1 DEF Make
  <1>2. ASSUME NEW c \in Calls, Abort(c) PROVE Types'
    BY <1>2 DEF Abort, Gives
  <1>3. ASSUME NEW c \in Calls, Read(c) PROVE Types'
    BY <1>3 DEF Read, Gives
  <1>4. ASSUME NEW c \in Calls, GiveUp(c) PROVE Types'
    BY <1>4 DEF GiveUp, Gives
  <1>5. ASSUME NEW c \in Calls, Leave(c) PROVE Types'
    BY <1>5 DEF Leave, Gives, Outcome
  <1>6. ASSUME NEW c \in Calls, Age(c) PROVE Types'
    BY <1>6 DEF Age
  <1>7. ASSUME NEW c \in Calls, Sweep(c) PROVE Types'
    BY <1>7 DEF Sweep
  <1>8. ASSUME NEW c \in Calls, Open(c) PROVE Types'
    BY <1>8 DEF Open, First
  <1>9. CASE Kill
    BY <1>9 DEF Kill
  <1>10. CASE Tick
    BY <1>10, InboxAssumption DEF Tick
  <1>11. CASE BeginRun
    BY <1>11 DEF BeginRun
  <1>12. CASE List
    BY <1>12 DEF List
  <1>13. CASE Handle
    BY <1>13 DEF Handle
  <1>14. CASE Answer
    BY <1>14 DEF Answer
  <1>15. CASE Unlink
    BY <1>15 DEF Unlink
  <1>16. CASE EndRun
    BY <1>16 DEF EndRun
  <1>17. CASE Crash
    BY <1>17 DEF Crash
  <1>18. CASE UNCHANGED vars
    BY <1>18 DEF vars
  <1> QED
    BY <1>1, <1>2, <1>3, <1>4, <1>5, <1>6, <1>7, <1>8, <1>9, <1>10, <1>11,
       <1>12, <1>13, <1>14, <1>15, <1>16, <1>17, <1>18, StepCases

\* Every step keeps InboxTypeOK.
LEMMA InboxTypeStep ==
  ASSUME Types, InboxTypeOK, [Next]_vars
  PROVE  InboxTypeOK'
  <1> USE DEF Types, States, Leaving, Calls, InboxTypeOK, Made, Over
  <1>1. ASSUME NEW c \in Calls, Make(c) PROVE InboxTypeOK'
    BY <1>1 DEF Make
  <1>2. ASSUME NEW c \in Calls, Abort(c) PROVE InboxTypeOK'
    BY <1>2 DEF Abort, Gives
  <1>3. ASSUME NEW c \in Calls, Read(c) PROVE InboxTypeOK'
    BY <1>3 DEF Read, Gives
  <1>4. ASSUME NEW c \in Calls, GiveUp(c) PROVE InboxTypeOK'
    BY <1>4 DEF GiveUp, Gives
  <1>5. ASSUME NEW c \in Calls, Leave(c) PROVE InboxTypeOK'
    BY <1>5 DEF Leave, Gives, Outcome
  <1>6. ASSUME NEW c \in Calls, Age(c) PROVE InboxTypeOK'
    BY <1>6 DEF Age
  <1>7. ASSUME NEW c \in Calls, Sweep(c) PROVE InboxTypeOK'
    BY <1>7 DEF Sweep
  <1>8. ASSUME NEW c \in Calls, Open(c) PROVE InboxTypeOK'
    BY <1>8 DEF Open, First
  <1>9. CASE Kill
    BY <1>9 DEF Kill
  <1>10. CASE Tick
    BY <1>10, InboxAssumption DEF Tick
  <1>11. CASE BeginRun
    BY <1>11 DEF BeginRun
  <1>12. CASE List
    BY <1>12 DEF List
  <1>13. CASE Handle
    BY <1>13 DEF Handle
  <1>14. CASE Answer
    BY <1>14 DEF Answer
  <1>15. CASE Unlink
    BY <1>15 DEF Unlink
  <1>16. CASE EndRun
    BY <1>16 DEF EndRun
  <1>17. CASE Crash
    BY <1>17 DEF Crash
  <1>18. CASE UNCHANGED vars
    BY <1>18 DEF vars
  <1> QED
    BY <1>1, <1>2, <1>3, <1>4, <1>5, <1>6, <1>7, <1>8, <1>9, <1>10, <1>11,
       <1>12, <1>13, <1>14, <1>15, <1>16, <1>17, <1>18, StepCases

\* Every step keeps InTurn.
LEMMA InTurnStep ==
  ASSUME Types, InTurn, [Next]_vars
  PROVE  InTurn'
  <1> USE DEF Types, States, Leaving, Calls, InTurn, Made
  <1>1. ASSUME NEW c \in Calls, Make(c) PROVE InTurn'
    BY <1>1 DEF Make
  <1>2. ASSUME NEW c \in Calls, Abort(c) PROVE InTurn'
    BY <1>2 DEF Abort, Gives
  <1>3. ASSUME NEW c \in Calls, Read(c) PROVE InTurn'
    BY <1>3 DEF Read, Gives
  <1>4. ASSUME NEW c \in Calls, GiveUp(c) PROVE InTurn'
    BY <1>4 DEF GiveUp, Gives
  <1>5. ASSUME NEW c \in Calls, Leave(c) PROVE InTurn'
    BY <1>5 DEF Leave, Gives, Outcome
  <1>6. ASSUME NEW c \in Calls, Age(c) PROVE InTurn'
    BY <1>6 DEF Age
  <1>7. ASSUME NEW c \in Calls, Sweep(c) PROVE InTurn'
    BY <1>7 DEF Sweep
  <1>8. ASSUME NEW c \in Calls, Open(c) PROVE InTurn'
    BY <1>8 DEF Open, First
  <1>9. CASE Kill
    BY <1>9 DEF Kill
  <1>10. CASE Tick
    BY <1>10, InboxAssumption DEF Tick
  <1>11. CASE BeginRun
    BY <1>11 DEF BeginRun
  <1>12. CASE List
    BY <1>12 DEF List
  <1>13. CASE Handle
    BY <1>13 DEF Handle
  <1>14. CASE Answer
    BY <1>14 DEF Answer
  <1>15. CASE Unlink
    BY <1>15 DEF Unlink
  <1>16. CASE EndRun
    BY <1>16 DEF EndRun
  <1>17. CASE Crash
    BY <1>17 DEF Crash
  <1>18. CASE UNCHANGED vars
    BY <1>18 DEF vars
  <1> QED
    BY <1>1, <1>2, <1>3, <1>4, <1>5, <1>6, <1>7, <1>8, <1>9, <1>10, <1>11,
       <1>12, <1>13, <1>14, <1>15, <1>16, <1>17, <1>18, StepCases

\* Every step keeps Truthful and OkIsDone.
LEMMA TruthStep ==
  ASSUME Types, InboxTypeOK, Truthful, OkIsDone, [Next]_vars
  PROVE  Truthful' /\ OkIsDone'
  <1> USE DEF Types, States, Leaving, Calls, InboxTypeOK, Made, Truthful, OkIsDone
  <1>1. ASSUME NEW c \in Calls, Make(c) PROVE Truthful' /\ OkIsDone'
    BY <1>1 DEF Make
  <1>2. ASSUME NEW c \in Calls, Abort(c) PROVE Truthful' /\ OkIsDone'
    BY <1>2 DEF Abort, Gives
  <1>3. ASSUME NEW c \in Calls, Read(c) PROVE Truthful' /\ OkIsDone'
    BY <1>3 DEF Read, Gives
  <1>4. ASSUME NEW c \in Calls, GiveUp(c) PROVE Truthful' /\ OkIsDone'
    BY <1>4 DEF GiveUp, Gives
  <1>5. ASSUME NEW c \in Calls, Leave(c) PROVE Truthful' /\ OkIsDone'
    BY <1>5 DEF Leave, Gives, Outcome
  <1>6. ASSUME NEW c \in Calls, Age(c) PROVE Truthful' /\ OkIsDone'
    BY <1>6 DEF Age
  <1>7. ASSUME NEW c \in Calls, Sweep(c) PROVE Truthful' /\ OkIsDone'
    BY <1>7 DEF Sweep
  <1>8. ASSUME NEW c \in Calls, Open(c) PROVE Truthful' /\ OkIsDone'
    BY <1>8 DEF Open, First
  <1>9. CASE Kill
    BY <1>9 DEF Kill
  <1>10. CASE Tick
    BY <1>10, InboxAssumption DEF Tick
  <1>11. CASE BeginRun
    BY <1>11 DEF BeginRun
  <1>12. CASE List
    BY <1>12 DEF List
  <1>13. CASE Handle
    BY <1>13 DEF Handle
  <1>14. CASE Answer
    BY <1>14 DEF Answer
  <1>15. CASE Unlink
    BY <1>15 DEF Unlink
  <1>16. CASE EndRun
    BY <1>16 DEF EndRun
  <1>17. CASE Crash
    BY <1>17 DEF Crash
  <1>18. CASE UNCHANGED vars
    BY <1>18 DEF vars
  <1> QED
    BY <1>1, <1>2, <1>3, <1>4, <1>5, <1>6, <1>7, <1>8, <1>9, <1>10, <1>11,
       <1>12, <1>13, <1>14, <1>15, <1>16, <1>17, <1>18, StepCases

\* Every step keeps OverIsGone.
LEMMA GoneStep ==
  ASSUME Types, InboxTypeOK, OverIsGone, [Next]_vars
  PROVE  OverIsGone'
  <1> USE DEF Types, States, Leaving, Calls, InboxTypeOK, Made, Over, OverIsGone
  <1>1. ASSUME NEW c \in Calls, Make(c) PROVE OverIsGone'
    BY <1>1 DEF Make
  <1>2. ASSUME NEW c \in Calls, Abort(c) PROVE OverIsGone'
    BY <1>2 DEF Abort, Gives
  <1>3. ASSUME NEW c \in Calls, Read(c) PROVE OverIsGone'
    BY <1>3 DEF Read, Gives
  <1>4. ASSUME NEW c \in Calls, GiveUp(c) PROVE OverIsGone'
    BY <1>4 DEF GiveUp, Gives
  <1>5. ASSUME NEW c \in Calls, Leave(c) PROVE OverIsGone'
    BY <1>5 DEF Leave, Gives, Outcome
  <1>6. ASSUME NEW c \in Calls, Age(c) PROVE OverIsGone'
    BY <1>6 DEF Age
  <1>7. ASSUME NEW c \in Calls, Sweep(c) PROVE OverIsGone'
    BY <1>7 DEF Sweep
  <1>8. ASSUME NEW c \in Calls, Open(c) PROVE OverIsGone'
    BY <1>8 DEF Open, First
  <1>9. CASE Kill
    BY <1>9 DEF Kill
  <1>10. CASE Tick
    BY <1>10, InboxAssumption DEF Tick
  <1>11. CASE BeginRun
    BY <1>11 DEF BeginRun
  <1>12. CASE List
    BY <1>12 DEF List
  <1>13. CASE Handle
    BY <1>13 DEF Handle
  <1>14. CASE Answer
    BY <1>14 DEF Answer
  <1>15. CASE Unlink
    BY <1>15 DEF Unlink
  <1>16. CASE EndRun
    BY <1>16 DEF EndRun
  <1>17. CASE Crash
    BY <1>17 DEF Crash
  <1>18. CASE UNCHANGED vars
    BY <1>18 DEF vars
  <1> QED
    BY <1>1, <1>2, <1>3, <1>4, <1>5, <1>6, <1>7, <1>8, <1>9, <1>10, <1>11,
       <1>12, <1>13, <1>14, <1>15, <1>16, <1>17, <1>18, StepCases

\* Every step keeps OneAtATime.
LEMMA OneStep ==
  ASSUME Types, InTurn, OneAtATime, [Next]_vars
  PROVE  OneAtATime'
  <1> USE DEF Types, States, Leaving, Calls, InTurn, Made, Over, OneAtATime
  <1>1. ASSUME NEW c \in Calls, Make(c) PROVE OneAtATime'
    BY <1>1 DEF Make
  <1>2. ASSUME NEW c \in Calls, Abort(c) PROVE OneAtATime'
    BY <1>2 DEF Abort, Gives
  <1>3. ASSUME NEW c \in Calls, Read(c) PROVE OneAtATime'
    BY <1>3 DEF Read, Gives
  <1>4. ASSUME NEW c \in Calls, GiveUp(c) PROVE OneAtATime'
    BY <1>4 DEF GiveUp, Gives
  <1>5. ASSUME NEW c \in Calls, Leave(c) PROVE OneAtATime'
    BY <1>5 DEF Leave, Gives, Outcome
  <1>6. ASSUME NEW c \in Calls, Age(c) PROVE OneAtATime'
    BY <1>6 DEF Age
  <1>7. ASSUME NEW c \in Calls, Sweep(c) PROVE OneAtATime'
    BY <1>7 DEF Sweep
  <1>8. ASSUME NEW c \in Calls, Open(c) PROVE OneAtATime'
    BY <1>8 DEF Open, First
  <1>9. CASE Kill
    BY <1>9 DEF Kill
  <1>10. CASE Tick
    BY <1>10, InboxAssumption DEF Tick
  <1>11. CASE BeginRun
    BY <1>11 DEF BeginRun
  <1>12. CASE List
    BY <1>12 DEF List
  <1>13. CASE Handle
    BY <1>13 DEF Handle
  <1>14. CASE Answer
    BY <1>14 DEF Answer
  <1>15. CASE Unlink
    BY <1>15 DEF Unlink
  <1>16. CASE EndRun
    BY <1>16 DEF EndRun
  <1>17. CASE Crash
    BY <1>17 DEF Crash
  <1>18. CASE UNCHANGED vars
    BY <1>18 DEF vars
  <1> QED
    BY <1>1, <1>2, <1>3, <1>4, <1>5, <1>6, <1>7, <1>8, <1>9, <1>10, <1>11,
       <1>12, <1>13, <1>14, <1>15, <1>16, <1>17, <1>18, StepCases

\* Every step keeps Sorted.
LEMMA SortedStep ==
  ASSUME Types, InboxTypeOK, InTurn, Sorted, [Next]_vars
  PROVE  Sorted'
  <1> USE DEF Types, States, Leaving, Calls, InboxTypeOK, Made, InTurn, InHand, Sorted
  <1>1. ASSUME NEW c \in Calls, Make(c) PROVE Sorted'
    BY <1>1 DEF Make
  <1>2. ASSUME NEW c \in Calls, Abort(c) PROVE Sorted'
    BY <1>2 DEF Abort, Gives
  <1>3. ASSUME NEW c \in Calls, Read(c) PROVE Sorted'
    BY <1>3 DEF Read, Gives
  <1>4. ASSUME NEW c \in Calls, GiveUp(c) PROVE Sorted'
    BY <1>4 DEF GiveUp, Gives
  <1>5. ASSUME NEW c \in Calls, Leave(c) PROVE Sorted'
    BY <1>5 DEF Leave, Gives, Outcome
  <1>6. ASSUME NEW c \in Calls, Age(c) PROVE Sorted'
    BY <1>6 DEF Age
  <1>7. ASSUME NEW c \in Calls, Sweep(c) PROVE Sorted'
    BY <1>7 DEF Sweep
  <1>8. ASSUME NEW c \in Calls, Open(c) PROVE Sorted'
    BY <1>8 DEF Open, First
  <1>9. CASE Kill
    BY <1>9 DEF Kill
  <1>10. CASE Tick
    BY <1>10, InboxAssumption DEF Tick
  <1>11. CASE BeginRun
    BY <1>11 DEF BeginRun
  <1>12. CASE List
    BY <1>12 DEF List
  <1>13. CASE Handle
    BY <1>13 DEF Handle
  <1>14. CASE Answer
    BY <1>14 DEF Answer
  <1>15. CASE Unlink
    BY <1>15 DEF Unlink
  <1>16. CASE EndRun
    BY <1>16 DEF EndRun
  <1>17. CASE Crash
    BY <1>17 DEF Crash
  <1>18. CASE UNCHANGED vars
    BY <1>18 DEF vars
  <1> QED
    BY <1>1, <1>2, <1>3, <1>4, <1>5, <1>6, <1>7, <1>8, <1>9, <1>10, <1>11,
       <1>12, <1>13, <1>14, <1>15, <1>16, <1>17, <1>18, StepCases

\* Every step keeps NothingBefore.
LEMMA BeforeStep ==
  ASSUME Types, InboxTypeOK, InTurn, Sorted, NothingBefore, [Next]_vars
  PROVE  NothingBefore'
  <1> USE DEF Types, States, Leaving, Calls, InboxTypeOK, Made, InTurn, InHand, Sorted, NothingBefore
  <1>1. ASSUME NEW c \in Calls, Make(c) PROVE NothingBefore'
    BY <1>1 DEF Make
  <1>2. ASSUME NEW c \in Calls, Abort(c) PROVE NothingBefore'
    BY <1>2 DEF Abort, Gives
  <1>3. ASSUME NEW c \in Calls, Read(c) PROVE NothingBefore'
    BY <1>3 DEF Read, Gives
  <1>4. ASSUME NEW c \in Calls, GiveUp(c) PROVE NothingBefore'
    BY <1>4 DEF GiveUp, Gives
  <1>5. ASSUME NEW c \in Calls, Leave(c) PROVE NothingBefore'
    BY <1>5 DEF Leave, Gives, Outcome
  <1>6. ASSUME NEW c \in Calls, Age(c) PROVE NothingBefore'
    BY <1>6 DEF Age
  <1>7. ASSUME NEW c \in Calls, Sweep(c) PROVE NothingBefore'
    BY <1>7 DEF Sweep
  <1>8. ASSUME NEW c \in Calls, Open(c) PROVE NothingBefore'
    BY <1>8 DEF Open, First
  <1>9. CASE Kill
    BY <1>9 DEF Kill
  <1>10. CASE Tick
    BY <1>10, InboxAssumption DEF Tick
  <1>11. CASE BeginRun
    BY <1>11 DEF BeginRun
  <1>12. CASE List
    BY <1>12 DEF List
  <1>13. CASE Handle
    <2>1. cur \in Made /\ pc = "handle" /\ pc' = "answer" /\ InHand(cur)
      BY <1>13 DEF Types, InboxTypeOK, Handle, InHand
    <2>2. UNCHANGED <<by, state, inbox, cur>> /\ effects' \subseteq effects \cup {cur}
      BY <1>13 DEF Handle
    <2>3. ASSUME NEW c \in Made, c < cur, by[c] = by[cur]
          PROVE  c \notin inbox
      BY <2>1, <2>3 DEF Sorted, InHand, Made, Calls
    <2> QED
      BY <2>1, <2>2, <2>3 DEF NothingBefore, Made
  <1>14. CASE Answer
    BY <1>14 DEF Answer
  <1>15. CASE Unlink
    BY <1>15 DEF Unlink
  <1>16. CASE EndRun
    BY <1>16 DEF EndRun
  <1>17. CASE Crash
    BY <1>17 DEF Crash
  <1>18. CASE UNCHANGED vars
    BY <1>18 DEF vars
  <1> QED
    BY <1>1, <1>2, <1>3, <1>4, <1>5, <1>6, <1>7, <1>8, <1>9, <1>10, <1>11,
       <1>12, <1>13, <1>14, <1>15, <1>16, <1>17, <1>18, StepCases
-----------------------------------------------------------------------------
(* The theorems *)

LEMMA Initially ==
  ASSUME Init
  PROVE  IInv
  <1>1. Types /\ InboxTypeOK
    BY InboxAssumption DEF Init, Types, InboxTypeOK, States, Made, Over
  <1>2. InTurn /\ Truthful /\ OkIsDone /\ OverIsGone /\ OneAtATime
    BY DEF Init, InTurn, Truthful, OkIsDone, OverIsGone, OneAtATime, Made, Over
  <1>3. Sorted /\ NothingBefore
    BY DEF Init, Sorted, NothingBefore, InHand
  <1> QED
    BY <1>1, <1>2, <1>3 DEF IInv

LEMMA Invariance == Spec => []IInv
  <1>1. IInv /\ [Next]_vars => IInv'
    BY TypesStep, InboxTypeStep, InTurnStep, TruthStep, GoneStep, OneStep,
       SortedStep, BeforeStep DEF IInv
  <1> QED
    BY Initially, <1>1, PTL DEF Spec

\* Files, responses and effects are those of calls that were made, and only
\* what is over has an old response.
THEOREM InboxTypes == Spec => []InboxTypeOK
  BY Invariance, PTL DEF IInv

\* Whatever is handled again, killed or answered late, an agent is told of
\* success only when the operation was carried out.
THEOREM SuccessIsDone == Spec => []OkIsDone
  BY Invariance, PTL DEF IInv

\* No run takes up the request of a call that has returned.
THEOREM ReturnedIsNotBegun == Spec => OverIsNotBegun
  <1>1. ASSUME IInv, [Next]_vars, pc = "open", pc' = "handle"
        PROVE  cur' \notin Over \/ state[cur'] = "killed"
    <2>1. PICK c \in Calls : Open(c)
      BY <1>1, StepCases DEF Make, Abort, Read, GiveUp, Leave, Age, Sweep,
         Kill, Tick,
         BeginRun, List, Handle, Answer, Unlink, EndRun, Crash, vars
    <2>2. cur' = c /\ c \in inbox
      BY <1>1, <2>1 DEF Open
    <2> QED
      BY <1>1, <2>2 DEF IInv, OverIsGone
  <1>2. IInv /\ [Next]_vars =>
          [pc = "open" /\ pc' = "handle" => cur' \notin Over \/ state[cur'] = "killed"]_vars
    BY <1>1
  <1> QED
    BY Invariance, <1>2, PTL DEF OverIsNotBegun, Spec

\* A caller's operations are carried out in the order of its calls.
THEOREM InOrder == Spec => CallsInOrder
  <1>1. ASSUME IInv, [Next]_vars, pc = "handle", pc' = "answer",
               NEW d \in effects, by[d] = by[cur]
        PROVE  d <= cur
    <2>1. cur \in Made /\ d \in Made
      BY <1>1 DEF IInv, Types, InboxTypeOK
    <2>2. ~(cur < d)
      BY <1>1, <2>1 DEF IInv, NothingBefore
    <2> QED
      BY <2>1, <2>2 DEF Made, Calls
  <1>2. IInv /\ [Next]_vars =>
          [pc = "handle" /\ pc' = "answer" =>
             \A d \in effects : by[d] = by[cur] => d <= cur]_vars
    BY <1>1
  <1> QED
    BY Invariance, <1>2, PTL DEF CallsInOrder, Spec
=============================================================================
