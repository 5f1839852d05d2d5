------------------------- MODULE PreviewBrowserProofs ------------------------
(***************************************************************************)
(* Browser tools keep what they promise for any callers, agents, and       *)
(* limits: first, the frontend that an agent talks to (PreviewFrontend);   *)
(* then, a runtime's requests and its browser (PreviewMcp).                *)
(***************************************************************************)
EXTENDS PreviewMcpProperties, PreviewFrontend, SequenceTheorems, FiniteSetTheorems, TLAPS

USE DEF taskVars, lockVars
-----------------------------------------------------------------------------
(* The inductive invariant *)

Types ==
  /\ run \in {"on", "ending", "over"}
  /\ reader \in Ids \cup {"read", "failed"}
  /\ pending \subseteq Ids /\ cancelled \subseteq Ids
  /\ task \in [Ids -> {"none", "http", "send", "ended"}]
  /\ waiting \in Seq(Ids \cup {Reader}) /\ holder \in Ids \cup {Reader, Nobody}
  /\ asked \in [Ids -> Nat] /\ answered \in [Ids -> Nat]

\* Who waits for the output has an answer to send, waits once, and has not got it.
Queue ==
  /\ \A k \in 1..Len(waiting) :
       /\ waiting[k] # holder
       /\ waiting[k] = Reader => reader \in Ids
       /\ waiting[k] # Reader => task[waiting[k]] = "send"
  /\ \A j, k \in 1..Len(waiting) : waiting[j] = waiting[k] => j = k
  /\ holder = Reader => reader \in Ids

\* Whoever is to answer answers what has been asked, and has not been answered.
Owed ==
  /\ \A i \in Ids : answered[i] <= asked[i]
  /\ \A i \in Ids : task[i] = "http" => answered[i] < asked[i]
  /\ \A k \in 1..Len(waiting) :
       LET i == IF waiting[k] = Reader THEN reader ELSE waiting[k] IN answered[i] < asked[i]

\* The reader has an answer of its own only of an id without a task, and none at
\* the end.
Apart ==
  /\ reader \in Ids => task[reader] = "none"
  /\ run # "on" => reader = "failed"
  /\ run = "over" => pending = {}

IInv == Types /\ FrontendTypeOK /\ Queue /\ Owed /\ Apart
-----------------------------------------------------------------------------
(* Steps *)

\* A step is a step of one of these actions.
LEMMA StepCases ==
  ASSUME [FrontendNext]_frontendVars
  PROVE  \/ \E i \in Ids : \/ Duplicate(i) \/ ReadCall(i) \/ ReadOther(i) \/ ReadCancel(i)
                           \/ Answered(i) \/ CancelTask(i) \/ Finished(i)
         \/ \E w \in Ids \cup {Reader} : OutputTimeout(w)
         \/ ReadEnd \/ Output \/ Drained \/ End \/ Over \/ UNCHANGED frontendVars
  BY DEF FrontendNext

\* What is taken out of a sequence is one place of it.
LEMMA Removed ==
  ASSUME NEW S, NEW s \in Seq(S), NEW n \in 1..Len(s)
  PROVE  /\ RemoveAt(s, n) \in Seq(S) /\ Len(RemoveAt(s, n)) = Len(s) - 1
         /\ \A k \in 1..(Len(s) - 1) : RemoveAt(s, n)[k] = IF k < n THEN s[k] ELSE s[k + 1]
  <1> DEFINE a == SubSeq(s, 1, n - 1)
             b == SubSeq(s, n + 1, Len(s))
  <1>1. a \in Seq(S) /\ Len(a) = n - 1 /\ \A k \in 1..(n - 1) : a[k] = s[k]
    BY SubSeqProperties
  <1>2. b \in Seq(S) /\ Len(b) = Len(s) - n /\ \A k \in 1..(Len(s) - n) : b[k] = s[n + k]
    BY SubSeqProperties
  <1>3. RemoveAt(s, n) = a \o b BY DEF RemoveAt
  <1> HIDE DEF a, b
  <1>4. a \o b \in Seq(S) /\ Len(a \o b) = Len(a) + Len(b)
    BY <1>1, <1>2, ConcatProperties
  <1>5. \A k \in 1..(Len(a) + Len(b)) : (a \o b)[k] = IF k <= Len(a) THEN a[k] ELSE b[k - Len(a)]
    BY <1>1, <1>2, ConcatProperties
  <1>6. Len(s) \in Nat OBVIOUS
  <1>7. ASSUME NEW k \in 1..(Len(s) - 1)
        PROVE  (a \o b)[k] = IF k < n THEN s[k] ELSE s[k + 1]
    <2>1. CASE k < n BY <1>1, <1>2, <1>5, <1>6, <2>1
    <2>2. CASE k >= n
      <3>1. (a \o b)[k] = b[k - (n - 1)] BY <1>1, <1>2, <1>5, <1>6, <2>2
      <3>2. k - (n - 1) \in 1..(Len(s) - n) /\ n + (k - (n - 1)) = k + 1 BY <1>6, <2>2
      <3> QED BY <1>2, <1>6, <2>2, <3>1, <3>2
    <2>3. k < n \/ k >= n BY <1>6
    <2> QED BY <2>1, <2>2, <2>3, Zenon
  <1> QED BY <1>1, <1>2, <1>3, <1>4, <1>6, <1>7

\* Who leaves is not among those who wait, nor has it the output; the others
\* are where they were.
LEMMA Leaving ==
  ASSUME Types, Queue, NEW w, Leave(w), w # Nobody
  PROVE  /\ waiting' \in Seq(Ids \cup {Reader}) /\ holder' \in {holder, Nobody} \ {w}
         /\ holder # w => holder' = holder
         /\ \A k \in 1..Len(waiting') :
              /\ waiting'[k] # w
              /\ \E j \in 1..Len(waiting) : waiting'[k] = waiting[j]
         /\ \A j, k \in 1..Len(waiting') : waiting'[j] = waiting'[k] => j = k
  <1>1. /\ holder' \in {holder, Nobody} \ {w}
        /\ holder # w => holder' = holder
    BY DEF Leave
  <1>2. CASE ~ \E k \in 1..Len(waiting) : waiting[k] = w
    <2>1. waiting' = waiting BY <1>2 DEF Leave
    <2> QED BY <1>1, <1>2, <2>1 DEF Types, Queue
  <1>3. CASE \E k \in 1..Len(waiting) : waiting[k] = w
    <2> DEFINE n == CHOOSE k \in 1..Len(waiting) : waiting[k] = w
    <2>1. n \in 1..Len(waiting) /\ waiting[n] = w BY <1>3
    <2>2. waiting' = RemoveAt(waiting, n) BY <1>3 DEF Leave
    <2> HIDE DEF n
    <2>3. /\ waiting' \in Seq(Ids \cup {Reader}) /\ Len(waiting') = Len(waiting) - 1
          /\ \A k \in 1..(Len(waiting) - 1) :
               waiting'[k] = IF k < n THEN waiting[k] ELSE waiting[k + 1]
      BY <2>1, <2>2, Removed DEF Types
    <2>4. Len(waiting) \in Nat BY DEF Types
    <2>5. ASSUME NEW k \in 1..Len(waiting')
          PROVE  \E j \in 1..Len(waiting) : j # n /\ waiting'[k] = waiting[j] /\ j = IF k < n THEN k ELSE k + 1
      BY <2>1, <2>3, <2>4
    <2>6. \A k \in 1..Len(waiting') : waiting'[k] # w BY <2>1, <2>5 DEF Queue
    <2>7. \A j, k \in 1..Len(waiting') : waiting'[j] = waiting'[k] => j = k
      BY <2>1, <2>3, <2>4, <2>5 DEF Queue
    <2> QED BY <1>1, <2>3, <2>5, <2>6, <2>7
  <1> QED BY <1>2, <1>3

\* Who begins to wait is the last.
LEMMA Joining ==
  ASSUME Types, NEW w \in Ids \cup {Reader}, waiting' = Append(waiting, w)
  PROVE  /\ waiting' \in Seq(Ids \cup {Reader}) /\ Len(waiting') = Len(waiting) + 1
         /\ Len(waiting) \in Nat
         /\ \A k \in 1..Len(waiting) : waiting'[k] = waiting[k]
         /\ waiting'[Len(waiting) + 1] = w
  BY AppendProperties DEF Types

\* Who gets the output was the first.
LEMMA Proceeding ==
  ASSUME Types, waiting # <<>>, waiting' = Tail(waiting)
  PROVE  /\ waiting' \in Seq(Ids \cup {Reader}) /\ Len(waiting') = Len(waiting) - 1
         /\ Len(waiting) \in Nat \ {0}
         /\ Head(waiting) = waiting[1] /\ Head(waiting) \in Ids \cup {Reader}
         /\ \A k \in 1..(Len(waiting) - 1) : waiting'[k] = waiting[k + 1]
  BY HeadTailProperties DEF Types

\* Who waits for the output or has it sends an answer.
LEMMA Holding ==
  ASSUME Types, FrontendTypeOK, Queue, NEW w \in Ids, w \in ToSet(waiting) \cup {holder}
  PROVE  task[w] = "send"
  <1>1. CASE w = holder BY <1>1 DEF FrontendTypeOK
  <1>2. CASE w \in ToSet(waiting)
    <2>1. PICK k \in 1..Len(waiting) : waiting[k] = w BY <1>2 DEF ToSet, Types
    <2> QED BY <2>1, FrontendAssumption DEF Queue
  <1> QED BY <1>1, <1>2

\* Who leaves leaves the queue in order ...
LEMMA LeavingQueue ==
  ASSUME Types, FrontendTypeOK, Queue, NEW w \in Ids \cup {Reader}, Leave(w),
         \A i \in Ids \ {w} : task'[i] = task[i],
         w # Reader => reader' = reader
  PROVE  Queue'
  <1>1. w # Nobody BY FrontendAssumption
  <1>2. ASSUME NEW k \in 1..Len(waiting')
        PROVE  /\ waiting'[k] # holder'
               /\ waiting'[k] = Reader => reader' \in Ids
               /\ waiting'[k] # Reader => task'[waiting'[k]] = "send"
    <2>1. PICK j \in 1..Len(waiting) : waiting'[k] = waiting[j] BY <1>1, Leaving
    <2>2. waiting'[k] # w BY <1>1, Leaving
    <2>3. waiting[j] \in Ids \cup {Reader} BY DEF Types
    <2>4. holder' \in {holder, Nobody} BY <1>1, Leaving
    <2> QED BY <2>1, <2>2, <2>3, <2>4, FrontendAssumption DEF Queue
  <1>3. holder' = Reader => reader' \in Ids BY <1>1, Leaving, FrontendAssumption DEF Queue
  <1>4. \A j, k \in 1..Len(waiting') : waiting'[j] = waiting'[k] => j = k BY <1>1, Leaving
  <1> QED BY <1>2, <1>3, <1>4 DEF Queue

\* ... and owes nobody more.
LEMMA LeavingOwed ==
  ASSUME Types, Queue, Owed, NEW w \in Ids \cup {Reader}, Leave(w),
         UNCHANGED <<asked, answered>>,
         \A i \in Ids : task'[i] = "http" => task[i] = "http",
         w # Reader => reader' = reader
  PROVE  Owed'
  <1>1. w # Nobody BY FrontendAssumption
  <1>2. ASSUME NEW k \in 1..Len(waiting')
        PROVE  LET i == IF waiting'[k] = Reader THEN reader' ELSE waiting'[k] IN answered'[i] < asked'[i]
    <2>1. PICK j \in 1..Len(waiting) : waiting'[k] = waiting[j] BY <1>1, Leaving
    <2>2. waiting'[k] # w BY <1>1, Leaving
    <2> QED BY <2>1, <2>2 DEF Owed
  <1> QED BY <1>2 DEF Owed

\* The reader begins to send an answer of its own.
LEMMA ReaderAnswers ==
  ASSUME IInv, NEW i \in Ids, Consumes(i), i \notin pending, AnswerDirectly(i)
  PROVE  IInv'
  <1> USE FrontendAssumption DEF IInv, Types, FrontendTypeOK, Queue, Owed, Apart
  <1>1. /\ run = "on" /\ reader = "read" /\ reader' = i /\ waiting' = Append(waiting, Reader)
        /\ asked' = [asked EXCEPT ![i] = @ + 1]
        /\ UNCHANGED <<run, pending, task, cancelled, holder, answered>>
    BY DEF Consumes, AnswerDirectly
  <1>2. Types' BY <1>1, Joining
  <1>3. FrontendTypeOK' BY <1>1
  <1>4. Queue' BY <1>1, Joining
  <1>5. Owed' BY <1>1, Joining
  <1>6. Apart' BY <1>1
  <1> QED BY <1>2, <1>3, <1>4, <1>5, <1>6

\* The reader has sent its answer, or has ended.
LEMMA ReaderLeaves ==
  ASSUME IInv, Leave(Reader), reader' \in {"read", "failed"}, run' \in {run, "ending"},
         run' # "on" => reader' = "failed", cancelled' \subseteq pending,
         UNCHANGED <<pending, task, asked, answered>>
  PROVE  IInv'
  <1> USE FrontendAssumption DEF IInv, Types, FrontendTypeOK, Queue, Owed, Apart
  <1>1. Reader # Nobody /\ Reader \notin Ids OBVIOUS
  <1>2. Types' BY <1>1, Leaving
  <1>3. FrontendTypeOK' BY <1>1, Leaving
  <1>4. Queue' BY <1>1, LeavingQueue
  <1>5. Owed' BY <1>1, LeavingOwed
  <1>6. Apart' BY <1>1
  <1> QED BY <1>2, <1>3, <1>4, <1>5, <1>6

\* A task has sent its answer, or has been cancelled.
LEMMA TaskLeaves ==
  ASSUME IInv, NEW w \in Ids, task[w] \in {"http", "send"}, Leave(w),
         task' = [task EXCEPT ![w] = "ended"],
         UNCHANGED <<run, reader, pending, cancelled, asked, answered>>
  PROVE  IInv'
  <1> USE FrontendAssumption DEF IInv, Types, FrontendTypeOK, Queue, Owed, Apart
  <1>1. w # Nobody /\ w # Reader OBVIOUS
  <1>2. Types' BY <1>1, Leaving
  <1>3. FrontendTypeOK' BY <1>1, Leaving
  <1>4. Queue' BY <1>1, LeavingQueue
  <1>5. Owed' BY <1>1, LeavingOwed
  <1>6. Apart' BY <1>1
  <1> QED BY <1>2, <1>3, <1>4, <1>5, <1>6

-----------------------------------------------------------------------------
(* Every step keeps the invariant *)

LEMMA IInvStep ==
  ASSUME IInv, [FrontendNext]_frontendVars
  PROVE  IInv'
  <1> USE FrontendAssumption DEF IInv, Types, FrontendTypeOK, Queue, Owed, Apart
  <1>1. ASSUME NEW i \in Ids, Duplicate(i) PROVE IInv'
    BY <1>1 DEF Duplicate, Consumes
  <1>2. ASSUME NEW i \in Ids, ReadCall(i) PROVE IInv'
    <2>1. Consumes(i) /\ i \notin pending BY <1>2 DEF ReadCall
    <2>2. CASE Cardinality(pending) >= MaxConcurrent
      BY <1>2, <2>1, <2>2, ReaderAnswers DEF ReadCall
    <2>3. CASE ~ Cardinality(pending) >= MaxConcurrent
      <3>1. /\ run = "on" /\ reader = "read"
            /\ pending' = pending \cup {i} /\ task' = [task EXCEPT ![i] = "http"]
            /\ asked' = [asked EXCEPT ![i] = @ + 1]
            /\ UNCHANGED <<run, reader, cancelled, waiting, holder, answered>>
        BY <1>2, <2>1, <2>3 DEF ReadCall, Consumes
      <3>2. /\ Cardinality(pending) \in Nat /\ Cardinality(pending') = Cardinality(pending) + 1
        BY <2>1, <3>1, FS_Subset, FS_AddElement, FS_CardinalityType
      <3>3. Cardinality(pending') <= MaxConcurrent BY <2>3, <3>2
      <3>4. Types' BY <2>1, <3>1
      <3>5. FrontendTypeOK' BY <2>1, <3>1, <3>3
      <3>6. Queue' BY <2>1, <3>1
      <3>7. Owed' BY <2>1, <3>1
      <3>8. Apart' BY <2>1, <3>1
      <3> QED BY <3>4, <3>5, <3>6, <3>7, <3>8
    <2> QED BY <2>2, <2>3
  <1>3. ASSUME NEW i \in Ids, ReadOther(i) PROVE IInv'
    BY <1>3, ReaderAnswers DEF ReadOther
  <1>4. ASSUME NEW i \in Ids, ReadCancel(i) PROVE IInv'
    BY <1>4 DEF ReadCancel
  <1>5. ASSUME NEW i \in Ids, Answered(i) PROVE IInv'
    <2>1. /\ task[i] = "http" /\ i \notin cancelled
          /\ task' = [task EXCEPT ![i] = "send"] /\ waiting' = Append(waiting, i)
          /\ UNCHANGED <<run, reader, pending, cancelled, holder, asked, answered>>
      BY <1>5 DEF Answered
    <2>2. Types' BY <2>1, Joining
    <2>3. FrontendTypeOK' BY <2>1
    <2>4. Queue' BY <2>1, Joining
    <2>5. Owed' BY <2>1, Joining
    <2>6. Apart' BY <2>1
    <2> QED BY <2>2, <2>3, <2>4, <2>5, <2>6
  <1>6. ASSUME NEW i \in Ids, CancelTask(i) PROVE IInv'
    BY <1>6, TaskLeaves DEF CancelTask, TaskEnds
  <1>7. ASSUME NEW i \in Ids, Finished(i) PROVE IInv'
    <2>1. /\ IsFiniteSet(pending) /\ i \in pending /\ pending' = pending \ {i}
          /\ task' = [task EXCEPT ![i] = "none"] /\ cancelled' = cancelled \ {i} /\ task[i] = "ended"
          /\ UNCHANGED <<run, reader, waiting, holder, asked, answered>>
      BY <1>7, FS_Subset DEF Finished
    <2>2. Cardinality(pending') = Cardinality(pending) - 1 BY <2>1, FS_RemoveElement
    <2>3. Cardinality(pending) \in Nat BY <2>1, FS_CardinalityType
    <2>4. Types' BY <2>1
    <2>5. FrontendTypeOK' BY <2>1, <2>2, <2>3
    <2>6. Queue' BY <2>1
    <2>7. Owed' BY <2>1
    <2>8. Apart' BY <2>1
    <2> QED BY <2>4, <2>5, <2>6, <2>7, <2>8
  <1>8. ASSUME NEW w \in Ids \cup {Reader}, OutputTimeout(w) PROVE IInv'
    <2>1. CASE w = Reader BY <1>8, <2>1, ReaderLeaves DEF OutputTimeout
    <2>2. CASE w # Reader
      <3>1. task[w] = "send" /\ w \in Ids BY <1>8, <2>2, Holding DEF OutputTimeout
      <3> QED BY <1>8, <2>2, <3>1, TaskLeaves DEF OutputTimeout, TaskEnds
    <2> QED BY <2>1, <2>2
  <1>9. CASE ReadEnd
    BY <1>9 DEF ReadEnd
  <1>10. CASE Output
    <2>1. /\ holder = Nobody /\ waiting # <<>> /\ waiting' = Tail(waiting) /\ holder' = Head(waiting)
          /\ answered' = [answered EXCEPT
               ![IF Head(waiting) = Reader THEN reader ELSE Head(waiting)] = @ + 1]
          /\ UNCHANGED <<run, reader, pending, task, cancelled, asked>>
      BY <1>10 DEF Output
    <2>2. Types' BY <2>1, Proceeding
    <2>3. FrontendTypeOK' BY <2>1, Proceeding
    <2>4. Queue' BY <2>1, Proceeding
    <2>5. Owed' BY <2>1, Proceeding
    <2>6. Apart' BY <2>1, Proceeding
    <2> QED BY <2>2, <2>3, <2>4, <2>5, <2>6
  <1>11. CASE Drained
    <2>1. CASE holder = Reader
      <3>1. run = "on" BY <2>1
      <3> QED BY <1>11, <2>1, <3>1, ReaderLeaves DEF Drained
    <2>2. CASE holder # Reader
      <3>1. task[holder] = "send" /\ holder \in Ids BY <1>11, <2>2 DEF Drained
      <3> QED BY <1>11, <2>2, <3>1, TaskLeaves DEF Drained, TaskEnds
    <2> QED BY <2>1, <2>2
  <1>12. CASE End
    BY <1>12, ReaderLeaves DEF End
  <1>13. CASE Over
    BY <1>13 DEF Over
  <1>14. CASE UNCHANGED frontendVars
    BY <1>14 DEF frontendVars
  <1> QED
    BY <1>1, <1>2, <1>3, <1>4, <1>5, <1>6, <1>7, <1>8, <1>9, <1>10, <1>11, <1>12,
       <1>13, <1>14, StepCases
-----------------------------------------------------------------------------
(* The frontend's promises *)

LEMMA InitOK == FrontendInit => IInv
  <1> SUFFICES ASSUME FrontendInit PROVE IInv OBVIOUS
  <1> USE FrontendAssumption DEF FrontendInit
  <1>1. Types BY DEF Types
  <1>2. FrontendTypeOK
    <2>1. Cardinality(pending) = 0 BY FS_EmptySet
    <2> QED BY <2>1 DEF FrontendTypeOK
  <1>3. Queue /\ Owed /\ Apart BY DEF Queue, Owed, Apart
  <1> QED BY <1>1, <1>2, <1>3 DEF IInv

LEMMA Invariance == FrontendSpec => []IInv
  BY InitOK, IInvStep, PTL DEF FrontendSpec

\* The state has its types, and at most MAX_CONCURRENT calls have a task.
THEOREM FrontendTypes == FrontendSpec => []FrontendTypeOK
  <1>1. IInv => FrontendTypeOK BY DEF IInv
  <1> QED BY <1>1, Invariance, PTL

\* No id is answered more often than it was asked, nor by two (accept refuses an
\* id that is pending, finished frees it only when its task has ended).
THEOREM AnsweredOnce == FrontendSpec => []OneAnswer
  <1>1. IInv => OneAnswer BY DEF IInv, Types, FrontendTypeOK, Owed, Apart, OneAnswer
  <1> QED BY <1>1, Invariance, PTL

\* When run() has returned nothing is left that asks or writes.
THEOREM OverMeansOver == FrontendSpec => []OverIsOver
  <1>1. IInv => OverIsOver
    <2> SUFFICES ASSUME IInv, run = "over" PROVE \A i \in Ids : task[i] = "none" /\ holder = Nobody
      BY DEF OverIsOver
    <2>1. \A i \in Ids : task[i] = "none" BY DEF IInv, Apart, FrontendTypeOK
    <2>2. holder \notin Ids BY <2>1 DEF IInv, FrontendTypeOK
    <2>3. holder # Reader BY FrontendAssumption DEF IInv, Apart, Queue
    <2> QED BY <2>1, <2>2, <2>3 DEF IInv, Types
  <1> QED BY <1>1, Invariance, PTL

\* What goes out is the answer of a call that is outstanding and not cancelled,
\* or the reader's own (send waits for the lock, and a cancelled task leaves it).
THEOREM NothingLate == FrontendSpec => NoLateAnswer
  <1>1. IInv /\ [FrontendNext]_frontendVars =>
          [\A i \in Ids : answered'[i] # answered[i] => reader = i \/ i \in pending \ cancelled]_frontendVars
    <2> SUFFICES ASSUME IInv, [FrontendNext]_frontendVars, NEW i \in Ids, answered'[i] # answered[i]
                 PROVE  reader = i \/ i \in pending \ cancelled
      OBVIOUS
    <2> USE DEF IInv
    <2>1. CASE Output
      <3>1. /\ waiting # <<>> /\ Head(waiting) \notin cancelled
            /\ answered' = [answered EXCEPT ![IF Head(waiting) = Reader THEN reader ELSE Head(waiting)] = @ + 1]
        BY <2>1 DEF Output
      <3>2. Len(waiting) \in Nat \ {0} /\ Head(waiting) = waiting[1]
        BY <3>1, HeadTailProperties DEF Types
      <3>3. i = IF Head(waiting) = Reader THEN reader ELSE Head(waiting) BY <3>1 DEF Types
      <3>4. Head(waiting) # Reader => task[Head(waiting)] = "send" BY <3>2 DEF Queue
      <3> QED BY <3>1, <3>3, <3>4 DEF FrontendTypeOK
    <2>2. CASE UNCHANGED answered BY <2>2
    <2> QED
      BY <2>1, <2>2, StepCases
         DEF Duplicate, ReadCall, ReadOther, AnswerDirectly, ReadCancel, Answered, CancelTask, Finished,
             TaskEnds, OutputTimeout, ReadEnd, Drained, End, Over, frontendVars
  <1> QED BY <1>1, Invariance, PTL DEF FrontendSpec, NoLateAnswer
-----------------------------------------------------------------------------
HIDE DEF taskVars, lockVars

USE DEF callVars, runtimeVars, pipeVars, supVars, childVars, outVars
-----------------------------------------------------------------------------
(* Browser tools in one runtime: the inductive invariant *)

Waits == {"mcp", "mcp_cancel"} \X Calls

Endings == {"error", "mcp_end"}

Details ==
  {"busy", "cancelled", "failed", "exited", "timed out", "startup failed", "stopped", "overflow"}

Answers ==
  ({"mcp_data"} \X Calls \X {""}) \cup ({"mcp_end"} \X Calls \X {"", "retired"})
    \cup ({"error"} \X Calls \X Details)

Frames == Answers \cup ({"ports"} \X {""} \X BOOLEAN)

Overflows == {"overflow"} \X Calls \X {""}

McpTypes ==
  /\ http \in [Calls -> {"new", "send", "await", "ended"}]
  /\ channels \subseteq Calls /\ queue \in [Calls -> Seq(Answers)]
  /\ active \in Calls \cup {None} /\ hand \in {<<>>} \cup Answers \cup Overflows
  /\ stopped \in {"no", "idle", "other", "done"}
  /\ lock \in Seq(Waits) /\ toSup \in Seq(Waits)
  /\ out \in Seq(Frames) /\ fromSup \in Seq(Frames) /\ barrier \in Nat
  /\ id \in Calls \cup {None} /\ last \in Calls \cup {None}
  /\ phase \in {"none", "wait", "call", "result", "ready"}
  /\ died \in Causes \cup {"no"}

\* A request that is written and has not been given an end.
Asks(s) == {k \in 1..Len(s) : s[k][1] = "mcp"}
Ends(s) == {k \in 1..Len(s) : s[k][1] \in Endings}

\* The runtime's active request is at one place on its way there and back.
OneAtATime ==
  /\ \A k \in Asks(toSup) :
       /\ toSup[k][2] = active /\ id = None /\ Ends(out) = {} /\ Ends(fromSup) = {}
       /\ \A j \in Asks(toSup) : j = k
  /\ id # None => id = active /\ id = last /\ Ends(out) = {} /\ Ends(fromSup) = {}
  /\ \A k \in Ends(out) :
       /\ out[k][2] = active /\ Ends(fromSup) = {}
       /\ \A j \in Ends(out) : j = k
  /\ \A k \in Ends(fromSup) :
       /\ fromSup[k][2] = active
       /\ \A j \in Ends(fromSup) : j = k

\* What waits to be written has a channel, and is the only request there is.
Admitted ==
  \A k \in Asks(lock) :
    /\ active = None /\ http[lock[k][2]] = "send" /\ lock[k][2] \in channels
    /\ \A j \in Asks(lock) : j = k

\* The request was written; so nothing is read of one that waits.
Begun(c) == http[c] \in {"await", "ended"}

Heard ==
  /\ active # None => Begun(active)
  /\ last # None => Begun(last)
  /\ \A k \in 1..Len(out) : out[k][1] # "ports" => Begun(out[k][2])
  /\ \A k \in 1..Len(fromSup) : fromSup[k][1] # "ports" => Begun(fromSup[k][2])
  /\ hand # <<>> => Begun(hand[2])

\* A request with a cancel has no channel, ...
Left(c) == c \notin channels /\ Begun(c)

Cancelled(f) == f[1] = "error" /\ f[3] = "cancelled"

\* ... and so has one that was cancelled.
CancelledLeft ==
  /\ \A k \in 1..Len(lock) : lock[k][1] = "mcp_cancel" => Left(lock[k][2])
  /\ \A k \in 1..Len(toSup) : toSup[k][1] = "mcp_cancel" => Left(toSup[k][2])
  /\ \A k \in 1..Len(out) : Cancelled(out[k]) => Left(out[k][2])
  /\ \A k \in 1..Len(fromSup) : Cancelled(fromSup[k]) => Left(fromSup[k][2])
  /\ hand # <<>> /\ Cancelled(hand) => Left(hand[2])
  /\ \A c \in Calls : \A k \in 1..Len(queue[c]) : queue[c][k][3] = "cancelled" => Left(c)

Captured(f) == f[1] = "mcp_end" /\ f[3] = "retired"

\* Retirement awaits every answer that goes before it.
Awaited ==
  /\ \A k \in 1..Len(out) : Captured(out[k]) => k <= barrier
  /\ died \in {"teardown", "unconfirmed", "home"} => barrier = 0

\* The child works for a request, or is ready for one.
Serving == phase \in {"wait", "call", "result"} <=> id # None

McpInv == McpTypes /\ Serving /\ OneAtATime /\ Admitted /\ Heard /\ CancelledLeft /\ Awaited
-----------------------------------------------------------------------------
(* Pipes and steps *)

\* A step is a step of one of these actions.
LEMMA McpStep ==
  ASSUME [Next]_vars
  PROVE  \/ \E c \in Calls : \/ Admit(c) \/ GiveUp(c) \/ TakeData(c) \/ TakeEnd(c) \/ TakeError(c)
                             \/ CallStarts(c) \/ CallForwards(c) \/ CallWaits(c) \/ Cancel(c)
         \/ Write \/ WriteFails \/ ReadPorts \/ ReadFrame \/ PutFrame
         \/ Retire \/ Stop \/ Teardown
         \/ ChildAnswers \/ ChildFails \/ TimeOut \/ NoticeExit \/ StartWaiting \/ EmitData
         \/ EmitEnd \/ Reap \/ ChildEnds
         \/ \E why \in Causes : ReapFails(why)
         \/ Flush \/ ReportPorts
         \/ UNCHANGED vars
  BY DEF Next, Handler, Requests, Refresh

\* What joins a pipe is its last.
LEMMA PipeJoins ==
  ASSUME NEW S, NEW s \in Seq(S), NEW e \in S
  PROVE  /\ Append(s, e) \in Seq(S) /\ Len(s) \in Nat /\ Len(Append(s, e)) = Len(s) + 1
         /\ \A k \in 1..Len(s) : Append(s, e)[k] = s[k]
         /\ Append(s, e)[Len(s) + 1] = e
         /\ Asks(Append(s, e)) = Asks(s) \cup (IF e[1] = "mcp" THEN {Len(s) + 1} ELSE {})
         /\ Ends(Append(s, e)) = Ends(s) \cup (IF e[1] \in Endings THEN {Len(s) + 1} ELSE {})
  <1>1. /\ Append(s, e) \in Seq(S) /\ Len(s) \in Nat /\ Len(Append(s, e)) = Len(s) + 1
        /\ \A k \in 1..Len(s) : Append(s, e)[k] = s[k]
        /\ Append(s, e)[Len(s) + 1] = e
    BY AppendProperties
  <1>2. 1..Len(Append(s, e)) = (1..Len(s)) \cup {Len(s) + 1} /\ Len(s) + 1 \notin 1..Len(s) BY <1>1
  <1> QED BY <1>1, <1>2 DEF Asks, Ends

\* What is neither a request nor an end is not counted.
LEMMA PipeJoinsQuietly ==
  ASSUME NEW S, NEW s \in Seq(S), NEW e \in S
  PROVE  /\ e[1] # "mcp" => Asks(Append(s, e)) = Asks(s)
         /\ e[1] \notin Endings => Ends(Append(s, e)) = Ends(s)
  <1>1. /\ Len(s) \in Nat /\ Len(Append(s, e)) = Len(s) + 1
        /\ \A k \in 1..Len(s) : Append(s, e)[k] = s[k]
        /\ Append(s, e)[Len(s) + 1] = e
    BY AppendProperties
  <1>2. 1..Len(Append(s, e)) = (1..Len(s)) \cup {Len(s) + 1} BY <1>1
  <1> QED BY <1>1, <1>2 DEF Asks, Ends

\* What leaves a pipe was its first.
LEMMA PipeLeaves ==
  ASSUME NEW S, NEW s \in Seq(S), s # <<>>
  PROVE  /\ Tail(s) \in Seq(S) /\ Len(s) \in Nat \ {0} /\ Len(Tail(s)) = Len(s) - 1
         /\ Head(s) = s[1] /\ Head(s) \in S
         /\ \A k \in 1..(Len(s) - 1) : Tail(s)[k] = s[k + 1]
         /\ \A k \in Asks(Tail(s)) : k \in Nat /\ k \in 1..(Len(s) - 1) /\ k + 1 \in Asks(s) /\ k + 1 # 1
         /\ \A k \in Ends(Tail(s)) : k \in Nat /\ k \in 1..(Len(s) - 1) /\ k + 1 \in Ends(s) /\ k + 1 # 1
         /\ Head(s)[1] = "mcp" => 1 \in Asks(s)
         /\ Head(s)[1] \in Endings => 1 \in Ends(s)
  <1>1. /\ Tail(s) \in Seq(S) /\ Len(s) \in Nat \ {0} /\ Len(Tail(s)) = Len(s) - 1
        /\ Head(s) = s[1] /\ Head(s) \in S
        /\ \A k \in 1..(Len(s) - 1) : Tail(s)[k] = s[k + 1]
    BY HeadTailProperties
  <1>2. /\ \A k \in 1..(Len(s) - 1) : k \in Nat /\ k + 1 \in 1..Len(s) /\ k + 1 # 1
        /\ 1 \in 1..Len(s)
    BY <1>1
  <1>3. \A k \in Asks(Tail(s)) : k \in Nat /\ k \in 1..(Len(s) - 1) /\ k + 1 \in Asks(s) /\ k + 1 # 1
    BY <1>1, <1>2 DEF Asks
  <1>4. \A k \in Ends(Tail(s)) : k \in Nat /\ k \in 1..(Len(s) - 1) /\ k + 1 \in Ends(s) /\ k + 1 # 1
    BY <1>1, <1>2 DEF Ends
  <1>5. /\ Head(s)[1] = "mcp" => 1 \in Asks(s)
        /\ Head(s)[1] \in Endings => 1 \in Ends(s)
    BY <1>1, <1>2 DEF Asks, Ends
  <1> QED BY <1>1, <1>3, <1>4, <1>5, Zenon

\* An empty pipe has nothing in it.
LEMMA PipeEmpty == Asks(<<>>) = {} /\ Ends(<<>>) = {} /\ Len(<<>>) = 0
  BY DEF Asks, Ends

\* Two frames are emitted one after the other, none leaves the output as it was.
LEMMA PipeEmits ==
  ASSUME NEW S, NEW s \in Seq(S), NEW e \in S, NEW f \in S
  PROVE  s \o <<>> = s /\ s \o <<e>> = Append(s, e) /\ s \o <<e, f>> = Append(Append(s, e), f)
  OBVIOUS

\* What is in a pipe then was there, or was emitted.
LEMMA PipeHolds ==
  ASSUME NEW S, NEW s \in Seq(S), NEW e \in S
  PROVE  \A k \in 1..Len(Append(s, e)) :
           Append(s, e)[k] = e \/ (k \in 1..Len(s) /\ Append(s, e)[k] = s[k])
  <1>1. /\ Len(s) \in Nat /\ Len(Append(s, e)) = Len(s) + 1 /\ Append(s, e)[Len(s) + 1] = e
        /\ \A j \in 1..Len(s) : Append(s, e)[j] = s[j]
    BY AppendProperties
  <1>2. \A k \in 1..Len(Append(s, e)) : k \in 1..Len(s) \/ k = Len(s) + 1 BY <1>1
  <1> QED BY <1>1, <1>2

\* So of two frames that are emitted together.
LEMMA PipeHoldsTwo ==
  ASSUME NEW S, NEW s \in Seq(S), NEW d \in S, NEW e \in S
  PROVE  \A k \in 1..Len(Append(Append(s, d), e)) :
           \/ Append(Append(s, d), e)[k] = d \/ Append(Append(s, d), e)[k] = e
           \/ k \in 1..Len(s) /\ Append(Append(s, d), e)[k] = s[k]
  <1> DEFINE o == Append(s, d)
  <1>1. o \in Seq(S) BY AppendProperties
  <1>2. \A k \in 1..Len(o) : o[k] = d \/ (k \in 1..Len(s) /\ o[k] = s[k]) BY PipeHolds
  <1> HIDE DEF o
  <1>3. \A k \in 1..Len(Append(o, e)) :
           Append(o, e)[k] = e \/ (k \in 1..Len(o) /\ Append(o, e)[k] = o[k])
    BY <1>1, PipeHolds
  <1>4. \A k \in 1..Len(Append(o, e)) :
           \/ Append(o, e)[k] = d \/ Append(o, e)[k] = e
           \/ k \in 1..Len(s) /\ Append(o, e)[k] = s[k]
    BY <1>2, <1>3
  <1> QED BY <1>4 DEF o
-----------------------------------------------------------------------------
(* What a step may do to what the supervisor has *)

CallersKeep == UNCHANGED <<http, channels, queue, active, hand, lock, stopped, died>>

\* A request is taken up, ...
Takes(c) ==
  /\ toSup # <<>> /\ Head(toSup) = <<"mcp", c>> /\ toSup' = Tail(toSup)
  /\ id = None /\ UNCHANGED <<fromSup, barrier>> /\ CallersKeep

Serves(c) == Takes(c) /\ id' = c /\ last' = c /\ out' = out

Refuses(c) ==
  Takes(c) /\ id' = None /\ last' = None /\ out' = Append(out, <<"error", c, "startup failed">>)

\* ... is given up, ...
Resets(why) ==
  /\ id' = None /\ last' = None /\ UNCHANGED <<fromSup, barrier>> /\ CallersKeep
  /\ IF id = None THEN out' = out ELSE out' = Append(out, <<"error", id, why>>)

Withdraws(c) ==
  /\ toSup # <<>> /\ Head(toSup) = <<"mcp_cancel", c>> /\ toSup' = Tail(toSup) /\ CallersKeep
  /\ (c = last /\ Resets("cancelled")) \/ UNCHANGED <<id, last, out, fromSup, barrier>>

Fails(why) == Resets(why) /\ why \in Details \ {"cancelled"} /\ toSup' = toSup

\* ... or is answered.
Emits(f) ==
  /\ f \in Frames /\ (f[1] = "ports" \/ (id # None /\ f = <<"mcp_data", id, "">>))
  /\ out' = Append(out, f) /\ UNCHANGED <<toSup, id, last, fromSup, barrier>> /\ CallersKeep

Completes(how) ==
  /\ how \in {"", "retired"} /\ id # None
  /\ out' = Append(Append(out, <<"mcp_data", id, "">>), <<"mcp_end", id, how>>)
  /\ id' = None /\ last' \in {last, None}
  /\ IF how = "retired" THEN barrier' = Len(out') ELSE barrier' = barrier
  /\ UNCHANGED <<toSup, fromSup>> /\ CallersKeep

\* The other steps leave that alone.
Idles == UNCHANGED <<active, toSup, id, last, out, fromSup, barrier>>

Supervises ==
  \/ \E c \in Calls : Serves(c) \/ Refuses(c) \/ Withdraws(c)
  \/ \E why \in Details : Fails(why)
  \/ \E f \in Frames : Emits(f)
  \/ \E how \in {"", "retired"} : Completes(how)

\* A start of what waits, or at once, has no request before it.
LEMMA LaunchKinds ==
  ASSUME NEW c \in Calls, Launch(c)
  PROVE  \/ id' = c /\ last' = c /\ out' = out /\ barrier' = barrier
         \/ /\ id' = None /\ last' = None /\ barrier' = barrier
            /\ out' = Append(out, <<"error", c, "startup failed">>)
  BY DEF Launch

\* A reset ends the request, if there is one, with an error.
LEMMA ResetKinds ==
  ASSUME McpTypes, NEW why \in Details, Reset(why), fromSup' = fromSup, CallersKeep
  PROVE  Resets(why)
  <1>1. out \in Seq(Frames) /\ (id # None => id \in Calls) BY DEF McpTypes
  <1>2. CASE id = None
    <2>1. out' = out \o <<>> BY <1>2 DEF Reset, Emit
    <2>2. out' = out BY <1>1, <2>1
    <2> QED BY <1>2, <2>2 DEF Reset, Resets, Emit
  <1>3. CASE id # None
    <2>1. <<"error", id, why>> \in Frames BY <1>1, <1>3 DEF Frames, Answers, Endings
    <2>2. out' = out \o <<<<"error", id, why>>>> BY <1>3 DEF Reset, Emit
    <2>3. out' = Append(out, <<"error", id, why>>) BY <1>1, <2>1, <2>2, PipeEmits
    <2> QED BY <1>3, <2>3 DEF Reset, Resets, Emit
  <1> QED BY <1>2, <1>3

\* A step is of the supervisor, the pipes, the reader or the teardown, or leaves
\* what the supervisor has alone.
LEMMA SupervisorKinds ==
  ASSUME McpTypes, OneAtATime, Serving, [Next]_vars
  PROVE  Supervises \/ Idles \/ Write \/ Flush \/ ReadPorts \/ ReadFrame \/ Teardown
  <1>t. /\ out \in Seq(Frames) /\ toSup \in Seq(Waits) /\ (id # None => id \in Calls)
        /\ last \in Calls \cup {None}
    BY DEF McpTypes
  <1>1. ASSUME NEW c \in Calls, toSup # <<>>, Head(toSup) = <<"mcp", c>> PROVE id = None
    <2>1. 1 \in Asks(toSup) BY <1>t, <1>1, PipeLeaves
    <2> QED BY <2>1 DEF OneAtATime
  <1>2. ASSUME NEW c \in Calls, CallStarts(c) PROVE Supervises
    <2>1. /\ toSup # <<>> /\ Head(toSup) = <<"mcp", c>> /\ toSup' = Tail(toSup) /\ id = None
          /\ fromSup' = fromSup /\ CallersKeep /\ Launch(c)
      BY <1>2 DEF CallStarts, Receives, CallersKeep
    <2>2. barrier' = barrier BY <2>1, LaunchKinds
    <2>3. Takes(c) BY <2>1, <2>2 DEF Takes
    <2>4. Serves(c) \/ Refuses(c) BY <2>1, <2>3, LaunchKinds DEF Serves, Refuses
    <2> QED BY <2>4 DEF Supervises
  <1>3. ASSUME NEW c \in Calls, CallForwards(c) \/ CallWaits(c) PROVE Supervises
    <2>1. /\ toSup # <<>> /\ Head(toSup) = <<"mcp", c>> /\ toSup' = Tail(toSup)
          /\ fromSup' = fromSup /\ CallersKeep
      BY <1>3 DEF CallForwards, CallWaits, Receives, CallersKeep
    <2>2. id = None BY <1>1, <2>1
    <2>3. id' = c /\ last' = c /\ out' = out /\ barrier' = barrier
      BY <1>3, <2>2 DEF CallForwards, CallWaits
    <2>4. Serves(c) BY <2>1, <2>2, <2>3 DEF Serves, Takes
    <2> QED BY <2>4 DEF Supervises
  <1>4. ASSUME NEW c \in Calls, Cancel(c) PROVE Supervises
    <2>1. /\ toSup # <<>> /\ Head(toSup) = <<"mcp_cancel", c>> /\ toSup' = Tail(toSup)
          /\ fromSup' = fromSup /\ CallersKeep
      BY <1>4 DEF Cancel, Receives, CallersKeep
    <2>2. CASE c = last
      <3>1. Resets("cancelled") BY <1>4, <2>1, <2>2, ResetKinds DEF Cancel, Details
      <3> QED BY <2>1, <2>2, <3>1 DEF Supervises, Withdraws
    <2>3. CASE c # last
      BY <1>4, <2>1, <2>3 DEF Cancel, Supervises, Withdraws
    <2> QED BY <2>2, <2>3
  <1>5. CASE ChildFails \/ NoticeExit \/ TimeOut
    <2>1. toSup' = toSup /\ fromSup' = fromSup /\ CallersKeep
      BY <1>5 DEF ChildFails, NoticeExit, TimeOut, Refreshes, CallersKeep
    <2>2. PICK why \in {"failed", "exited", "timed out"} : Reset(why)
      BY <1>5 DEF ChildFails, NoticeExit, TimeOut
    <2>3. why \in Details \ {"cancelled"} BY DEF Details
    <2>4. Fails(why) BY <2>1, <2>2, <2>3, ResetKinds DEF Fails
    <2> QED BY <2>3, <2>4 DEF Supervises
  <1>6. CASE StartWaiting
    <2>1. toSup' = toSup /\ fromSup' = fromSup /\ CallersKeep /\ id # None /\ Launch(id)
      BY <1>6 DEF StartWaiting, Refreshes, CallersKeep, Serving
    <2>2. id = last BY <2>1 DEF OneAtATime
    <2>3. CASE id' = id /\ last' = id /\ out' = out /\ barrier' = barrier
      BY <2>1, <2>2, <2>3 DEF Idles, CallersKeep
    <2>4. CASE /\ id' = None /\ last' = None /\ barrier' = barrier
               /\ out' = Append(out, <<"error", id, "startup failed">>)
      <3>1. "startup failed" \in Details \ {"cancelled"} BY DEF Details
      <3>2. Fails("startup failed") BY <2>1, <2>4, <3>1 DEF Fails, Resets
      <3> QED BY <3>1, <3>2 DEF Supervises
    <2>5. id \in Calls BY <1>t, <2>1
    <2> QED BY <2>1, <2>3, <2>4, <2>5, LaunchKinds
  <1>7. CASE EmitData
    <2> DEFINE f == <<"mcp_data", id, "">>
    <2>1. id # None BY <1>7 DEF EmitData, Serving
    <2>2. f \in Frames BY <1>t, <2>1 DEF Frames, Answers, Details
    <2>3. out' = out \o <<f>> /\ barrier' = barrier BY <1>7 DEF EmitData, Emit
    <2>4. out' = Append(out, f) BY <1>t, <2>2, <2>3, PipeEmits
    <2>5. Emits(f)
      BY <1>7, <2>1, <2>2, <2>3, <2>4 DEF Emits, EmitData, Refreshes, CallersKeep
    <2> QED BY <2>2, <2>5 DEF Supervises
  <1>8. CASE ReportPorts
    <2> DEFINE f == <<"ports", "", Populated>>
    <2>1. f \in Frames BY DEF Frames, Populated
    <2>3. out' = out \o <<f>> /\ barrier' = barrier BY <1>8 DEF ReportPorts, Emit
    <2>4. out' = Append(out, f) BY <1>t, <2>1, <2>3, PipeEmits
    <2>5. Emits(f)
      BY <1>8, <2>1, <2>3, <2>4 DEF Emits, ReportPorts, Refreshes, CallersKeep
    <2> QED BY <2>1, <2>5 DEF Supervises
  <1>9. CASE EmitEnd
    <2> DEFINE how == IF retiring THEN "retired" ELSE ""
    <2>1. id # None BY <1>9 DEF EmitEnd, Serving
    <2>2. /\ <<"mcp_data", id, "">> \in Frames /\ <<"mcp_end", id, how>> \in Frames
      BY <1>t, <2>1 DEF Frames, Answers, Details, Endings
    <2>3. out' = out \o <<<<"mcp_data", id, "">>, <<"mcp_end", id, how>>>>
      BY <1>9 DEF EmitEnd, LastFrames
    <2>h. how \in {"", "retired"} OBVIOUS
    <2>4. out' = Append(Append(out, <<"mcp_data", id, "">>), <<"mcp_end", id, how>>)
      <3> DEFINE d == <<"mcp_data", id, "">>
                 e == <<"mcp_end", id, how>>
      <3>1. d \in Frames /\ e \in Frames /\ out' = out \o <<d, e>> BY <2>2, <2>3
      <3> HIDE DEF d, e
      <3>2. out' = Append(Append(out, d), e) BY <1>t, <3>1, PipeEmits
      <3> QED BY <3>2 DEF d, e
    <2>5. id' = None /\ last' \in {last, None} /\ toSup' = toSup /\ fromSup' = fromSup /\ CallersKeep
      BY <1>9 DEF EmitEnd, Refreshes, CallersKeep
    <2>6. IF how = "retired" THEN barrier' = Len(out') ELSE barrier' = barrier
      BY <1>9 DEF EmitEnd
    <2>8. Completes(how) BY <2>1, <2>4, <2>5, <2>6, <2>h DEF Completes
    <2> QED BY <2>h, <2>8 DEF Supervises
  <1>10. ASSUME NEW c \in Calls,
                Admit(c) \/ GiveUp(c) \/ TakeData(c) \/ TakeEnd(c) \/ TakeError(c)
         PROVE  Idles
    BY <1>10 DEF Admit, GiveUp, TakeData, TakeEnd, TakeError, Finish, Idles
  <1>11. CASE WriteFails \/ PutFrame \/ Retire \/ Stop
    BY <1>11 DEF WriteFails, Finish, PutFrame, Retire, Stop, Idles
  <1>12. CASE ChildAnswers \/ Reap \/ ChildEnds
    BY <1>12 DEF ChildAnswers, Reap, ChildEnds, Refreshes, Idles
  <1>13. ASSUME NEW why \in Causes, ReapFails(why) PROVE Idles BY <1>13 DEF ReapFails, Idles
  <1>14. CASE UNCHANGED vars BY <1>14 DEF vars, Idles
  <1> QED
    BY <1>2, <1>3, <1>4, <1>5, <1>6, <1>7, <1>8, <1>9, <1>10, <1>11, <1>12, <1>13, <1>14,
       McpStep, Zenon
-----------------------------------------------------------------------------
(* One request at a time *)

\* The active request is nowhere on its way: another may be written.
LEMMA NoneOnItsWay ==
  ASSUME McpTypes, OneAtATime, active = None
  PROVE  Asks(toSup) = {} /\ id = None /\ Ends(out) = {} /\ Ends(fromSup) = {}
  <1>1. \A f \in Waits : f[2] # None BY McpAssumption DEF Waits
  <1>2. \A k \in Asks(toSup) : toSup[k] \in Waits BY DEF Asks, McpTypes
  <1>3. Asks(toSup) = {} BY <1>1, <1>2 DEF OneAtATime
  <1>4. \A f \in Frames : f[1] \in Endings => f[2] # None
    BY McpAssumption DEF Frames, Answers, Endings
  <1>5. \A k \in Ends(out) : out[k] \in Frames /\ out[k][1] \in Endings BY DEF Ends, McpTypes
  <1>6. \A k \in Ends(fromSup) : fromSup[k] \in Frames /\ fromSup[k][1] \in Endings
    BY DEF Ends, McpTypes
  <1>7. Ends(out) = {} BY <1>4, <1>5 DEF OneAtATime
  <1>8. Ends(fromSup) = {} BY <1>4, <1>6 DEF OneAtATime
  <1> QED BY <1>3, <1>7, <1>8 DEF OneAtATime

\* The step of Write: the request becomes the active one.
LEMMA WriteOne ==
  ASSUME McpTypes, OneAtATime, Admitted, Write
  PROVE  OneAtATime'
  <1> DEFINE f == Head(lock)
  <1>1. /\ lock # <<>> /\ toSup' = Append(toSup, f)
        /\ id' = id /\ last' = last /\ out' = out /\ fromSup' = fromSup
        /\ IF f[1] = "mcp" THEN active' = f[2] ELSE active' = active
    BY DEF Write
  <1>2. toSup \in Seq(Waits) /\ lock \in Seq(Waits) BY DEF McpTypes
  <1>3. f \in Waits /\ (f[1] = "mcp" => 1 \in Asks(lock)) BY <1>1, <1>2, PipeLeaves
  <1> HIDE DEF f
  <1>4. /\ Len(toSup) \in Nat /\ toSup'[Len(toSup) + 1] = f
        /\ \A k \in 1..Len(toSup) : toSup'[k] = toSup[k]
        /\ Asks(toSup') = Asks(toSup) \cup (IF f[1] = "mcp" THEN {Len(toSup) + 1} ELSE {})
    BY <1>1, <1>2, <1>3, PipeJoins
  <1>5. Asks(toSup) \subseteq 1..Len(toSup) BY DEF Asks
  <1>6. CASE f[1] = "mcp"
    <2>1. active = None BY <1>3, <1>6 DEF Admitted
    <2>2. Asks(toSup) = {} /\ id = None /\ Ends(out) = {} /\ Ends(fromSup) = {}
      BY <2>1, NoneOnItsWay
    <2>3. \A k \in Asks(toSup') : k = Len(toSup) + 1 /\ toSup'[k][2] = active'
      BY <1>1, <1>4, <1>6, <2>2
    <2> QED BY <1>1, <2>2, <2>3 DEF OneAtATime
  <1>7. CASE f[1] # "mcp"
    <2>1. Asks(toSup') = Asks(toSup) /\ active' = active BY <1>1, <1>4, <1>7
    <2>2. \A k \in Asks(toSup') : toSup'[k] = toSup[k] BY <1>4, <1>5, <2>1
    <2> QED BY <1>1, <2>1, <2>2 DEF OneAtATime
  <1> QED BY <1>6, <1>7

\* The supervisor takes the request, ...
LEMMA TakesOne ==
  ASSUME McpTypes, OneAtATime, NEW c \in Calls, Takes(c)
  PROVE  /\ Asks(toSup') = {} /\ Ends(out) = {} /\ Ends(fromSup) = {} /\ c = active
         /\ id = None
  <1>1. toSup \in Seq(Waits) /\ toSup # <<>> /\ toSup' = Tail(toSup) /\ Head(toSup) = <<"mcp", c>>
    BY DEF McpTypes, Takes
  <1>2. /\ 1 \in Asks(toSup) /\ toSup[1] = <<"mcp", c>>
        /\ \A k \in Asks(toSup') : k + 1 \in Asks(toSup) /\ k + 1 # 1
    BY <1>1, PipeLeaves
  <1> QED BY <1>2 DEF OneAtATime

\* ... or it is cancelled.
LEMMA WithdrawsOne ==
  ASSUME McpTypes, NEW c \in Calls, Withdraws(c)
  PROVE  /\ \A k \in Asks(toSup') : k + 1 \in Asks(toSup) /\ k \in Nat /\ toSup'[k] = toSup[k + 1]
         /\ Asks(toSup) = {} => Asks(toSup') = {}
  <1>1. toSup \in Seq(Waits) /\ toSup # <<>> /\ toSup' = Tail(toSup)
    BY DEF McpTypes, Withdraws
  <1>2. /\ \A k \in Asks(toSup') : k + 1 \in Asks(toSup) /\ k \in Nat /\ k \in 1..(Len(toSup) - 1)
        /\ \A k \in 1..(Len(toSup) - 1) : toSup'[k] = toSup[k + 1]
    BY <1>1, PipeLeaves
  <1> QED BY <1>2

\* The end of what was active joins the output.
LEMMA EndsOne ==
  ASSUME McpTypes, OneAtATime, id # None, NEW e \in Frames, e[1] \in Endings, e[2] = id,
         NEW o \in Seq(Frames), Ends(o) = {}, out' = Append(o, e),
         id' = None, active' = active, fromSup' = fromSup, Asks(toSup') = {}
  PROVE  OneAtATime'
  <1>1. id = active /\ Ends(fromSup) = {} BY DEF OneAtATime
  <1>2. Len(o) \in Nat /\ Append(o, e)[Len(o) + 1] = e /\ Ends(out') = {Len(o) + 1}
    BY PipeJoins
  <1> QED BY <1>1, <1>2 DEF OneAtATime

\* What is reset was the one request.
LEMMA ResetsOne ==
  ASSUME McpTypes, OneAtATime, NEW why \in Details, Resets(why),
         Asks(toSup) = {} => Asks(toSup') = {},
         \/ toSup' = toSup
         \/ \A k \in Asks(toSup') : k + 1 \in Asks(toSup) /\ k \in Nat /\ toSup'[k] = toSup[k + 1]
  PROVE  OneAtATime'
  <1>0. active' = active /\ id' = None /\ fromSup' = fromSup BY DEF Resets, CallersKeep
  <1>1. CASE id = None
    <2>1. out' = out BY <1>1 DEF Resets
    <2>2. CASE toSup' = toSup BY <1>0, <1>1, <2>1, <2>2 DEF OneAtATime
    <2>3. CASE \A k \in Asks(toSup') :
                 k + 1 \in Asks(toSup) /\ k \in Nat /\ toSup'[k] = toSup[k + 1]
      <3>1. ASSUME NEW k \in Asks(toSup')
            PROVE  /\ toSup'[k][2] = active /\ id = None /\ Ends(out) = {} /\ Ends(fromSup) = {}
                   /\ \A j \in Asks(toSup') : j = k
        BY <2>3 DEF OneAtATime
      <3> QED BY <1>0, <1>1, <2>1, <3>1 DEF OneAtATime
    <2> QED BY <2>2, <2>3
  <1>2. CASE id # None
    <2> DEFINE e == <<"error", id, why>>
    <2>1. e \in Frames /\ e[1] \in Endings /\ e[2] = id
      BY <1>2 DEF McpTypes, Frames, Answers, Endings
    <2>2. Ends(out) = {} /\ Asks(toSup) = {} BY <1>2 DEF OneAtATime
    <2>3. out' = Append(out, e) /\ out \in Seq(Frames) BY <1>2 DEF Resets, McpTypes
    <2> HIDE DEF e
    <2>4. Asks(toSup') = {} BY <2>2
    <2> QED BY <1>0, <1>2, <2>1, <2>2, <2>3, <2>4, EndsOne
  <1> QED BY <1>1, <1>2
\* The step of what the supervisor does.
LEMMA SupervisesOne ==
  ASSUME McpTypes, OneAtATime, Supervises
  PROVE  OneAtATime'
  <1>t. out \in Seq(Frames) /\ toSup \in Seq(Waits) BY DEF McpTypes
  <1>1. ASSUME NEW c \in Calls, Serves(c) PROVE OneAtATime'
    <2>1. /\ Asks(toSup') = {} /\ Ends(out) = {} /\ Ends(fromSup) = {} /\ c = active
      BY <1>1, TakesOne DEF Serves
    <2>2. active' = active /\ id' = c /\ last' = c /\ out' = out /\ fromSup' = fromSup
      BY <1>1 DEF Serves, Takes, CallersKeep
    <2> QED BY <2>1, <2>2 DEF OneAtATime
  <1>2. ASSUME NEW c \in Calls, Refuses(c) PROVE OneAtATime'
    <2> DEFINE e == <<"error", c, "startup failed">>
    <2>1. Asks(toSup') = {} /\ Ends(out) = {} /\ Ends(fromSup) = {} /\ c = active
      BY <1>2, TakesOne DEF Refuses
    <2>2. active' = active /\ id' = None /\ out' = Append(out, e) /\ fromSup' = fromSup
      BY <1>2 DEF Refuses, Takes, CallersKeep
    <2>3. e \in Frames /\ e[1] \in Endings /\ e[2] = c BY DEF Frames, Answers, Endings, Details
    <2> HIDE DEF e
    <2>4. Len(out) \in Nat /\ Append(out, e)[Len(out) + 1] = e /\ Ends(out') = {Len(out) + 1}
      BY <1>t, <2>1, <2>2, <2>3, PipeJoins
    <2> QED BY <2>1, <2>2, <2>3, <2>4 DEF OneAtATime
  <1>3. ASSUME NEW c \in Calls, Withdraws(c) PROVE OneAtATime'
    <2>1. /\ \A k \in Asks(toSup') : k + 1 \in Asks(toSup) /\ k \in Nat /\ toSup'[k] = toSup[k + 1]
          /\ Asks(toSup) = {} => Asks(toSup') = {}
      BY <1>3, WithdrawsOne
    <2>2. CASE Resets("cancelled") BY <2>1, <2>2, ResetsOne DEF Details
    <2>3. CASE UNCHANGED <<id, last, out, fromSup, barrier>>
      <3>1. active' = active BY <1>3 DEF Withdraws, CallersKeep
      <3>2. ASSUME NEW k \in Asks(toSup')
            PROVE  /\ toSup'[k][2] = active /\ id = None /\ Ends(out) = {} /\ Ends(fromSup) = {}
                   /\ \A j \in Asks(toSup') : j = k
        BY <2>1 DEF OneAtATime
      <3> QED BY <2>3, <3>1, <3>2 DEF OneAtATime
    <2> QED BY <1>3, <2>2, <2>3 DEF Withdraws
  <1>4. ASSUME NEW why \in Details, Fails(why) PROVE OneAtATime'
    BY <1>4, ResetsOne DEF Fails
  <1>5. ASSUME NEW f \in Frames, Emits(f) PROVE OneAtATime'
    <2>1. f[1] \notin Endings
      <3>1. f[1] = "ports" \/ f = <<"mcp_data", id, "">> BY <1>5 DEF Emits
      <3>2. <<"mcp_data", id, "">>[1] = "mcp_data" OBVIOUS
      <3> QED BY <3>1, <3>2, Zenon DEF Endings
    <2>2. /\ active' = active /\ out' = Append(out, f)
          /\ UNCHANGED <<toSup, id, last, fromSup>>
      BY <1>5 DEF Emits, CallersKeep
    <2>3. Ends(out') = Ends(out) /\ \A k \in 1..Len(out) : out'[k] = out[k]
      BY <1>t, <2>1, <2>2, PipeJoins, PipeJoinsQuietly
    <2>4. \A k \in Ends(out') : out'[k] = out[k] BY <2>3 DEF Ends
    <2> QED BY <2>2, <2>3, <2>4 DEF OneAtATime
  <1>6. ASSUME NEW how \in {"", "retired"}, Completes(how) PROVE OneAtATime'
    <2> DEFINE d == <<"mcp_data", id, "">>
               e == <<"mcp_end", id, how>>
               o == Append(out, d)
    <2>1. /\ id # None /\ out' = Append(o, e) /\ id' = None /\ active' = active
          /\ fromSup' = fromSup /\ toSup' = toSup
      BY <1>6 DEF Completes, CallersKeep
    <2>2. Ends(out) = {} /\ Asks(toSup) = {} BY <2>1 DEF OneAtATime
    <2>3. d \in Frames /\ d[1] \notin Endings /\ e \in Frames /\ e[1] \in Endings /\ e[2] = id
      BY <2>1 DEF McpTypes, Frames, Answers, Endings, Details
    <2> HIDE DEF d, e
    <2>4. o \in Seq(Frames) /\ Ends(o) = {}
      BY <1>t, <2>2, <2>3, AppendProperties, PipeJoinsQuietly
    <2> HIDE DEF o
    <2> QED BY <2>1, <2>2, <2>3, <2>4, EndsOne
  <1> QED BY <1>1, <1>2, <1>3, <1>4, <1>5, <1>6 DEF Supervises

\* The end of a request goes from the output to the reader, ...
LEMMA FlushesOne ==
  ASSUME McpTypes, OneAtATime, Flush
  PROVE  OneAtATime'
  <1> DEFINE f == Head(out)
  <1>1. /\ out # <<>> /\ out' = Tail(out) /\ fromSup' = Append(fromSup, f)
        /\ UNCHANGED <<toSup, id, last, active>>
    BY DEF Flush
  <1>2. out \in Seq(Frames) /\ fromSup \in Seq(Frames) BY DEF McpTypes
  <1>3. /\ f \in Frames /\ f = out[1] /\ (f[1] \in Endings => 1 \in Ends(out))
        /\ \A k \in 1..(Len(out) - 1) : out'[k] = out[k + 1]
        /\ \A k \in Ends(out') : k \in 1..(Len(out) - 1) /\ k + 1 \in Ends(out) /\ k + 1 # 1 /\ k \in Nat
    BY <1>1, <1>2, PipeLeaves
  <1> HIDE DEF f
  <1>4. /\ Len(fromSup) \in Nat /\ fromSup'[Len(fromSup) + 1] = f
        /\ \A k \in 1..Len(fromSup) : fromSup'[k] = fromSup[k]
        /\ Ends(fromSup') = Ends(fromSup) \cup (IF f[1] \in Endings THEN {Len(fromSup) + 1} ELSE {})
    BY <1>1, <1>2, <1>3, PipeJoins
  <1>5. Ends(fromSup) \subseteq 1..Len(fromSup) BY DEF Ends
  <1>6. CASE f[1] \in Endings
    <2>1. /\ f[2] = active /\ Ends(fromSup) = {} /\ \A j \in Ends(out) : j = 1
      BY <1>3, <1>6 DEF OneAtATime
    <2>2. Ends(out') = {} BY <1>3, <2>1
    <2>3. Asks(toSup) = {} /\ id = None BY <1>3, <1>6 DEF OneAtATime
    <2>4. Ends(fromSup') = {Len(fromSup) + 1} BY <1>4, <1>6, <2>1
    <2> QED BY <1>1, <1>4, <2>1, <2>2, <2>3, <2>4 DEF OneAtATime
  <1>7. CASE f[1] \notin Endings
    <2>1. Ends(fromSup') = Ends(fromSup) /\ \A k \in Ends(fromSup') : fromSup'[k] = fromSup[k]
      BY <1>4, <1>5, <1>7
    <2>2. Ends(out) = {} => Ends(out') = {} BY <1>3
    <2>3. ASSUME NEW k \in Ends(out')
          PROVE  /\ out'[k][2] = active /\ Ends(fromSup) = {} /\ \A j \in Ends(out') : j = k
      BY <1>3 DEF OneAtATime
    <2>4. \A k \in Asks(toSup) : /\ toSup[k][2] = active /\ id = None /\ Ends(out') = {} /\ Ends(fromSup') = {}
                                 /\ \A j \in Asks(toSup) : j = k
      BY <2>1, <2>2 DEF OneAtATime
    <2>5. id # None => id = active /\ id = last /\ Ends(out') = {} /\ Ends(fromSup') = {}
      BY <2>1, <2>2 DEF OneAtATime
    <2>6. \A k \in Ends(fromSup') : /\ fromSup'[k][2] = active
                                    /\ \A j \in Ends(fromSup') : j = k
      BY <2>1 DEF OneAtATime
    <2> QED BY <1>1, <2>1, <2>3, <2>4, <2>5, <2>6 DEF OneAtATime
  <1> QED BY <1>6, <1>7

\* ... who frees the runtime for the next.
LEMMA ReadsOne ==
  ASSUME McpTypes, OneAtATime, ReadPorts \/ ReadFrame
  PROVE  OneAtATime'
  <1> DEFINE f == Head(fromSup)
  <1>1. /\ fromSup # <<>> /\ fromSup' = Tail(fromSup) /\ UNCHANGED <<toSup, id, last, out>>
        /\ active' = IF f[1] \notin {"ports", "mcp_data"} /\ f[2] = active THEN None ELSE active
    BY DEF ReadPorts, ReadFrame, Reads
  <1>2. fromSup \in Seq(Frames) BY DEF McpTypes
  <1>3. /\ f \in Frames /\ f = fromSup[1] /\ (f[1] \in Endings => 1 \in Ends(fromSup))
        /\ \A k \in 1..(Len(fromSup) - 1) : fromSup'[k] = fromSup[k + 1]
        /\ \A k \in Ends(fromSup') : /\ k \in 1..(Len(fromSup) - 1) /\ k + 1 \in Ends(fromSup)
                                     /\ k + 1 # 1 /\ k \in Nat
    BY <1>1, <1>2, PipeLeaves
  <1>4. f[1] \in Endings <=> f[1] \notin {"ports", "mcp_data"}
    BY <1>3 DEF Frames, Answers, Endings
  <1> HIDE DEF f
  <1>5. CASE f[1] \in Endings
    <2>1. \A j \in Ends(fromSup) : j = 1 BY <1>3, <1>5 DEF OneAtATime
    <2>2. Ends(fromSup') = {} BY <1>3, <2>1
    <2>3. 1 \in Ends(fromSup) BY <1>3, <1>5
    <2>4. Asks(toSup) = {} /\ id = None BY <2>3 DEF OneAtATime
    <2>5. Ends(out) = {} BY <2>3 DEF OneAtATime
    <2> QED BY <1>1, <2>2, <2>4, <2>5 DEF OneAtATime
  <1>6. CASE f[1] \notin Endings
    <2>1. active' = active BY <1>1, <1>4, <1>6
    <2>2. Ends(fromSup) = {} => Ends(fromSup') = {} BY <1>3
    <2>3. ASSUME NEW k \in Ends(fromSup')
          PROVE  fromSup'[k][2] = active /\ \A j \in Ends(fromSup') : j = k
      BY <1>3 DEF OneAtATime
    <2> QED BY <1>1, <2>1, <2>2, <2>3 DEF OneAtATime
  <1> QED BY <1>5, <1>6

\* There is one request at a time after every step.
LEMMA OneKept ==
  ASSUME McpTypes, OneAtATime, Admitted, Serving, [Next]_vars
  PROVE  OneAtATime'
  <1>1. CASE Supervises BY <1>1, SupervisesOne
  <1>2. CASE Idles BY <1>2 DEF Idles, OneAtATime
  <1>3. CASE Write BY <1>3, WriteOne
  <1>4. CASE Flush BY <1>4, FlushesOne
  <1>5. CASE ReadPorts \/ ReadFrame BY <1>5, ReadsOne
  <1>6. CASE Teardown
    <2>1. toSup' = <<>> /\ out' = <<>> /\ fromSup' = <<>> /\ id' = None BY <1>6 DEF Teardown
    <2> QED BY <2>1, PipeEmpty DEF OneAtATime
  <1> QED BY <1>1, <1>2, <1>3, <1>4, <1>5, <1>6, SupervisorKinds
-----------------------------------------------------------------------------
(* What a step may do to what the manager has *)

\* The handler ends, perhaps with a cancel.
Finishes(c, frames) ==
  /\ http[c] \in {"send", "await"} /\ frames \in {<<>>, <<<<"mcp_cancel", c>>>>}
  /\ http' = [http EXCEPT ![c] = "ended"] /\ channels' = channels \ {c}
  /\ queue' = [queue EXCEPT ![c] = <<>>] /\ lock' = Withdrawn(c) \o frames
  /\ UNCHANGED <<active, hand>>

\* The cancel fails.
Yields ==
  /\ lock # <<>> /\ Head(lock)[1] = "mcp_cancel" /\ lock' = Tail(lock)
  /\ UNCHANGED <<http, channels, queue, active, hand>>

\* A step is of a handler, the lock, the reader or the teardown, or leaves what
\* the manager has alone.
LEMMA ManagerKinds ==
  ASSUME McpTypes, Admitted, [Next]_vars
  PROVE  \/ \E c \in Calls : Admit(c) \/ TakeData(c)
         \/ \E c \in Calls : \E frames \in {<<>>, <<<<"mcp_cancel", c>>>>} : Finishes(c, frames)
         \/ Write \/ Yields \/ ReadFrame \/ PutFrame \/ Teardown
         \/ UNCHANGED <<http, channels, queue, active, hand, lock>>
  <1> DEFINE Goal == \/ \E c \in Calls : Admit(c) \/ TakeData(c)
                     \/ \E c \in Calls : \E frames \in {<<>>, <<<<"mcp_cancel", c>>>>} :
                          Finishes(c, frames)
                     \/ Write \/ Yields \/ ReadFrame \/ PutFrame \/ Teardown
                     \/ UNCHANGED <<http, channels, queue, active, hand, lock>>
  <1>1. ASSUME NEW c \in Calls, GiveUp(c) \/ TakeError(c) PROVE Goal
    <2>1. \E how \in {"left", "failed"} : Finish(c, how, <<<<"mcp_cancel", c>>>>)
      BY <1>1 DEF GiveUp, TakeError
    <2>2. http[c] \in {"send", "await"} BY <1>1 DEF GiveUp, TakeError
    <2>3. Finishes(c, <<<<"mcp_cancel", c>>>>) BY <2>1, <2>2 DEF Finish, Finishes
    <2> QED BY <2>3
  <1>2. ASSUME NEW c \in Calls, TakeEnd(c) PROVE Goal
    <2>1. Finishes(c, <<>>) BY <1>2 DEF TakeEnd, Finish, Finishes
    <2> QED BY <2>1
  <1>3. CASE WriteFails
    <2>1. lock \in Seq(Waits) /\ lock # <<>> BY <1>3 DEF McpTypes, WriteFails
    <2>2. Head(lock) \in Waits /\ Head(lock) = lock[1] /\ (Head(lock)[1] = "mcp" => 1 \in Asks(lock))
      BY <2>1, PipeLeaves
    <2>3. CASE Head(lock)[1] = "mcp"
      <3> DEFINE c == Head(lock)[2]
      <3>1. c \in Calls BY <2>2 DEF Waits
      <3>2. http[c] = "send" BY <2>2, <2>3 DEF Admitted
      <3>3. Finish(c, "failed", <<>>) BY <1>3, <2>3 DEF WriteFails
      <3> HIDE DEF c
      <3>4. Finishes(c, <<>>) BY <3>2, <3>3 DEF Finish, Finishes
      <3> QED BY <3>1, <3>4
    <2>4. CASE Head(lock)[1] # "mcp"
      <3>1. Head(lock)[1] = "mcp_cancel" BY <2>2, <2>4 DEF Waits
      <3> QED BY <1>3, <2>4, <3>1 DEF WriteFails, Yields
    <2> QED BY <2>3, <2>4
  <1>4. ASSUME NEW c \in Calls, \/ CallStarts(c) \/ CallForwards(c) \/ CallWaits(c) \/ Cancel(c)
        PROVE  Goal
    BY <1>4 DEF CallStarts, CallForwards, CallWaits, Cancel, Receives
  <1>5. CASE ReadPorts \/ Retire \/ Stop \/ Flush
    BY <1>5 DEF ReadPorts, Retire, Stop, Flush
  <1>6. CASE \/ ChildAnswers \/ ChildFails \/ TimeOut \/ NoticeExit \/ StartWaiting \/ EmitData
             \/ EmitEnd \/ Reap \/ ReportPorts
    BY <1>6 DEF ChildAnswers, ChildFails, TimeOut, NoticeExit, StartWaiting, EmitData, EmitEnd,
                Reap, ReportPorts, Refreshes
  <1>7. CASE ChildEnds BY <1>7 DEF ChildEnds
  <1>8. ASSUME NEW why \in Causes, ReapFails(why) PROVE Goal BY <1>8 DEF ReapFails
  <1>9. CASE UNCHANGED vars BY <1>9 DEF vars
  <1> QED
    BY <1>1, <1>2, <1>3, <1>4, <1>5, <1>6, <1>7, <1>8, <1>9, McpStep, Zenon

\* Nothing of the handler waits any longer, and what waits was waiting.
LEMMA WithdrawnLock ==
  ASSUME McpTypes, Admitted, NEW c \in Calls
  PROVE  /\ Withdrawn(c) \in Seq(Waits)
         /\ \/ Withdrawn(c) = lock /\ \A k \in Asks(lock) : lock[k][2] # c
            \/ Asks(Withdrawn(c)) = {}
         /\ \A k \in 1..Len(Withdrawn(c)) : \E j \in 1..Len(lock) : Withdrawn(c)[k] = lock[j]
  <1> DEFINE mine == {k \in 1..Len(lock) : lock[k] = <<"mcp", c>>}
             w == Withdrawn(c)
             n == CHOOSE k \in mine : TRUE
  <1>t. lock \in Seq(Waits) /\ Len(lock) \in Nat /\ \A k \in 1..Len(lock) : lock[k] \in Waits
    BY DEF McpTypes
  <1>1. CASE mine = {}
    <2>1. w = lock BY <1>1 DEF Withdrawn
    <2>2. ASSUME NEW k \in Asks(lock), lock[k][2] = c PROVE FALSE
      <3>1. k \in 1..Len(lock) /\ lock[k] \in Waits /\ lock[k][1] = "mcp" BY <1>t DEF Asks
      <3>2. lock[k] = <<"mcp", c>> BY <2>2, <3>1 DEF Waits
      <3> QED BY <1>1, <3>1, <3>2
    <2> QED BY <1>t, <2>1, <2>2
  <1>2. CASE mine # {}
    <2>1. n \in 1..Len(lock) /\ lock[n] = <<"mcp", c>> BY <1>2
    <2>2. w = RemoveAt(lock, n) BY <1>2 DEF Withdrawn
    <2>3. n \in Asks(lock) /\ \A j \in Asks(lock) : j = n BY <2>1 DEF Asks, Admitted
    <2> HIDE DEF n, w
    <2>4. /\ w \in Seq(Waits) /\ Len(w) = Len(lock) - 1
          /\ \A k \in 1..(Len(lock) - 1) : w[k] = IF k < n THEN lock[k] ELSE lock[k + 1]
      BY <1>t, <2>1, <2>2, Removed
    <2>5. ASSUME NEW k \in 1..Len(w)
          PROVE  \E j \in 1..Len(lock) : j # n /\ w[k] = lock[j]
      BY <1>t, <2>1, <2>4
    <2>6. Asks(w) = {} BY <2>3, <2>5 DEF Asks
    <2> QED BY <2>4, <2>5, <2>6 DEF w
  <1> QED BY <1>1, <1>2

\* The handler's end leaves of the requests that wait only those of others.
LEMMA FinishesLock ==
  ASSUME McpTypes, Admitted, NEW c \in Calls, NEW frames, Finishes(c, frames)
  PROVE  /\ lock' \in Seq(Waits)
         /\ \/ Asks(lock') = {}
            \/ /\ Asks(lock') = Asks(lock)
               /\ \A k \in Asks(lock) : lock'[k] = lock[k] /\ lock[k][2] # c
         /\ \A k \in 1..Len(lock') :
              lock'[k] = <<"mcp_cancel", c>> \/ \E j \in 1..Len(lock) : lock'[k] = lock[j]
  <1> DEFINE w == Withdrawn(c)
             e == <<"mcp_cancel", c>>
  <1>1. /\ w \in Seq(Waits)
        /\ \/ w = lock /\ \A k \in Asks(lock) : lock[k][2] # c
           \/ Asks(w) = {}
        /\ \A k \in 1..Len(w) : \E j \in 1..Len(lock) : w[k] = lock[j]
    BY WithdrawnLock
  <1>2. lock' = w \o frames /\ frames \in {<<>>, <<e>>} BY DEF Finishes
  <1>3. e \in Waits /\ e[1] = "mcp_cancel" BY DEF Waits
  <1> HIDE DEF w, e
  <1>4. CASE frames = <<>>
    <2>1. lock' = w BY <1>1, <1>2, <1>4
    <2> QED BY <1>1, <2>1
  <1>5. CASE frames = <<e>>
    <2>1. lock' = Append(w, e) BY <1>1, <1>2, <1>3, <1>5, PipeEmits
    <2>2. /\ lock' \in Seq(Waits) /\ Len(w) \in Nat /\ Len(lock') = Len(w) + 1
          /\ \A k \in 1..Len(w) : lock'[k] = w[k]
          /\ lock'[Len(w) + 1] = e
      BY <1>1, <1>3, <2>1, AppendProperties
    <2>3. Asks(lock') = Asks(w) BY <1>1, <1>3, <2>1, PipeJoinsQuietly
    <2>4. \A k \in 1..Len(lock') : k \in 1..Len(w) \/ k = Len(w) + 1 BY <2>2
    <2>5. \A k \in Asks(w) : lock'[k] = w[k] BY <2>2 DEF Asks
    <2> QED BY <1>1, <2>2, <2>3, <2>4, <2>5 DEF e
  <1> QED BY <1>2, <1>4, <1>5
-----------------------------------------------------------------------------
(* Types *)

\* The frame of an answer has its parts.
LEMMA AnswerParts ==
  /\ \A f \in Answers : f[1] \in {"mcp_data"} \cup Endings /\ f[2] \in Calls
  /\ \A f \in Answers : f[3] = "cancelled" => f[1] = "error"
  /\ \A f \in Frames : f[1] # "ports" => f \in Answers
  /\ \A f \in Overflows : f[1] = "overflow" /\ f[2] \in Calls
  <1>1. \A f \in Answers : f[1] \in {"mcp_data"} \cup Endings /\ f[2] \in Calls
    BY DEF Answers, Endings
  <1>2. \A f \in Answers : f[3] = "cancelled" => f[1] = "error" BY DEF Answers
  <1>3. \A f \in Frames : f[1] # "ports" => f \in Answers BY DEF Frames
  <1>4. \A f \in Overflows : f[1] = "overflow" /\ f[2] \in Calls BY DEF Overflows
  <1> QED BY <1>1, <1>2, <1>3, <1>4

ManagerTypes ==
  /\ http \in [Calls -> {"new", "send", "await", "ended"}]
  /\ channels \subseteq Calls /\ queue \in [Calls -> Seq(Answers)]
  /\ active \in Calls \cup {None} /\ hand \in {<<>>} \cup Answers \cup Overflows
  /\ lock \in Seq(Waits)

\* What the manager has keeps its types, ...
LEMMA ManagerTypesKept ==
  ASSUME McpTypes, Admitted, [Next]_vars
  PROVE  ManagerTypes'
  <1>t. ManagerTypes BY DEF McpTypes, ManagerTypes
  <1>1. ASSUME NEW c \in Calls, Admit(c) PROVE ManagerTypes'
    <2>1. <<"mcp", c>> \in Waits BY DEF Waits
    <2>2. lock' \in {lock, Append(lock, <<"mcp", c>>)} BY <1>1 DEF Admit
    <2>6. Append(lock, <<"mcp", c>>) \in Seq(Waits)
      BY <1>t, <2>1, AppendProperties DEF ManagerTypes
    <2>3. lock' \in Seq(Waits) BY <1>t, <2>2, <2>6 DEF ManagerTypes
    <2>4. http' \in {[http EXCEPT ![c] = "ended"], [http EXCEPT ![c] = "send"]}
      BY <1>1 DEF Admit
    <2>5. channels' \subseteq Calls /\ UNCHANGED <<queue, active, hand>> BY <1>1, <1>t DEF Admit, ManagerTypes
    <2> QED BY <1>t, <2>3, <2>4, <2>5 DEF ManagerTypes
  <1>2. ASSUME NEW c \in Calls, TakeData(c) PROVE ManagerTypes'
    <2>1. /\ queue[c] \in Seq(Answers) /\ queue[c] # <<>> /\ queue' = [queue EXCEPT ![c] = Tail(@)]
          /\ UNCHANGED <<http, channels, active, hand, lock>>
      BY <1>2, <1>t DEF TakeData, ManagerTypes
    <2>2. Tail(queue[c]) \in Seq(Answers) BY <2>1, HeadTailProperties
    <2> QED BY <1>t, <2>1, <2>2 DEF ManagerTypes
  <1>3. ASSUME NEW c \in Calls, NEW frames, Finishes(c, frames) PROVE ManagerTypes'
    <2>1. lock' \in Seq(Waits) BY <1>3, FinishesLock
    <2>2. /\ http' = [http EXCEPT ![c] = "ended"] /\ channels' = channels \ {c}
          /\ queue' = [queue EXCEPT ![c] = <<>>] /\ UNCHANGED <<active, hand>>
      BY <1>3 DEF Finishes
    <2> QED BY <1>t, <2>1, <2>2 DEF ManagerTypes
  <1>4. CASE Write
    <2>1. /\ lock # <<>> /\ lock' = Tail(lock) /\ UNCHANGED <<channels, queue>>
          /\ hand' \in {hand, <<>>}
          /\ IF Head(lock)[1] = "mcp"
             THEN active' = Head(lock)[2] /\ http' = [http EXCEPT ![Head(lock)[2]] = "await"]
             ELSE active' = active /\ http' = http
      BY <1>4 DEF Write
    <2>2. Tail(lock) \in Seq(Waits) /\ Head(lock) \in Waits
      BY <1>t, <2>1, HeadTailProperties DEF ManagerTypes
    <2>3. Head(lock)[2] \in Calls BY <2>2 DEF Waits
    <2> QED BY <1>t, <2>1, <2>2, <2>3 DEF ManagerTypes
  <1>5. CASE Yields
    <2>1. Tail(lock) \in Seq(Waits) BY <1>5, <1>t, HeadTailProperties DEF ManagerTypes, Yields
    <2> QED BY <1>5, <1>t, <2>1 DEF Yields, ManagerTypes
  <1>6. CASE ReadFrame
    <2>1. /\ fromSup \in Seq(Frames) /\ fromSup # <<>> /\ Head(fromSup)[1] # "ports"
          /\ hand' \in {Head(fromSup), <<>>} /\ active' \in {None, active}
          /\ UNCHANGED <<http, channels, queue, lock>>
      BY <1>6 DEF ReadFrame, Reads, McpTypes
    <2>2. Head(fromSup) \in Answers BY <2>1, HeadTailProperties, AnswerParts
    <2> QED BY <1>t, <2>1, <2>2 DEF ManagerTypes
  <1>7. CASE PutFrame
    <2> DEFINE c == hand[2]
    <2>1. hand \in Answers
      <3>1. hand # <<>> /\ hand[1] # "overflow" BY <1>7 DEF PutFrame
      <3> QED BY <1>t, <3>1, AnswerParts DEF ManagerTypes
    <2>2. c \in Calls BY <2>1, AnswerParts
    <2>3. UNCHANGED <<http, active>> BY <1>7 DEF PutFrame
    <2>4. \/ hand' = <<>> /\ UNCHANGED <<queue, channels, lock>>
          \/ hand' = <<>> /\ queue' = [queue EXCEPT ![c] = Append(@, hand)] /\ UNCHANGED <<channels, lock>>
          \/ /\ channels' = channels \ {c} /\ hand' = <<"overflow", c, "">>
             /\ queue' = [queue EXCEPT ![c] = <<<<"error", c, "overflow">>>>]
             /\ lock' = Append(lock, <<"mcp_cancel", c>>)
      BY <1>7 DEF PutFrame
    <2> HIDE DEF c
    <2>5. Append(queue[c], hand) \in Seq(Answers)
      BY <1>t, <2>1, <2>2, AppendProperties DEF ManagerTypes
    <2>6. <<"error", c, "overflow">> \in Answers BY <2>2 DEF Answers, Endings, Details
    <2>7. <<<<"error", c, "overflow">>>> \in Seq(Answers) BY <2>6
    <2>8. Append(lock, <<"mcp_cancel", c>>) \in Seq(Waits)
      <3>1. <<"mcp_cancel", c>> \in Waits BY <2>2 DEF Waits
      <3> QED BY <1>t, <3>1, AppendProperties DEF ManagerTypes
    <2>9. <<"overflow", c, "">> \in Overflows BY <2>2 DEF Overflows
    <2> QED BY <1>t, <2>2, <2>3, <2>4, <2>5, <2>7, <2>8, <2>9 DEF ManagerTypes
  <1>8. CASE Teardown
    <2>1. /\ queue' = [c \in Calls |-> IF c \in channels THEN <<<<"error", c, "stopped">>>> ELSE queue[c]]
          /\ hand' = <<>> /\ UNCHANGED <<http, channels, active, lock>>
      BY <1>8 DEF Teardown
    <2>2. \A c \in Calls : <<<<"error", c, "stopped">>>> \in Seq(Answers)
      <3>1. \A c \in Calls : <<"error", c, "stopped">> \in Answers BY DEF Answers, Endings, Details
      <3>2. \A f \in Answers : <<f>> \in Seq(Answers) OBVIOUS
      <3> QED BY <3>1, <3>2
    <2> QED BY <1>t, <2>1, <2>2 DEF ManagerTypes
  <1>9. CASE UNCHANGED <<http, channels, queue, active, hand, lock>> BY <1>9, <1>t DEF ManagerTypes
  <1> QED
    BY <1>1, <1>2, <1>3, <1>4, <1>5, <1>6, <1>7, <1>8, <1>9, ManagerKinds, Zenon

SupervisorTypes ==
  /\ toSup \in Seq(Waits)
  /\ out \in Seq(Frames) /\ fromSup \in Seq(Frames) /\ barrier \in Nat
  /\ id \in Calls \cup {None} /\ last \in Calls \cup {None}

\* ... and what the supervisor has, when it resets, ...
LEMMA ResetTypes ==
  ASSUME McpTypes, NEW why \in Details, Resets(why)
  PROVE  /\ out' \in Seq(Frames) /\ fromSup' \in Seq(Frames) /\ barrier' \in Nat
         /\ id' = None /\ last' = None
  <1>1. CASE id = None BY <1>1 DEF McpTypes, Resets
  <1>2. CASE id # None
    <2>1. <<"error", id, why>> \in Frames BY <1>2 DEF McpTypes, Frames, Answers, Endings
    <2>2. out' = Append(out, <<"error", id, why>>) BY <1>2 DEF Resets
    <2> QED BY <2>1, <2>2, AppendProperties DEF McpTypes, Resets
  <1> QED BY <1>1, <1>2

\* ... in the steps of its own, ...
LEMMA SupervisesTypes ==
  ASSUME McpTypes, Supervises
  PROVE  SupervisorTypes'
  <1>t. SupervisorTypes BY DEF McpTypes, SupervisorTypes
  <1>1. ASSUME NEW c \in Calls, Takes(c) PROVE toSup' \in Seq(Waits)
    BY <1>1, <1>t, HeadTailProperties DEF Takes, SupervisorTypes
  <1>2. ASSUME NEW c \in Calls, Serves(c) PROVE SupervisorTypes'
    BY <1>1, <1>2, <1>t DEF Serves, Takes, SupervisorTypes
  <1>3. ASSUME NEW c \in Calls, Refuses(c) PROVE SupervisorTypes'
    <2>1. <<"error", c, "startup failed">> \in Frames BY DEF Frames, Answers, Endings, Details
    <2>2. out' \in Seq(Frames)
      BY <1>3, <1>t, <2>1, AppendProperties DEF Refuses, SupervisorTypes
    <2> QED BY <1>1, <1>3, <1>t, <2>2 DEF Refuses, Takes, SupervisorTypes
  <1>4. ASSUME NEW c \in Calls, Withdraws(c) PROVE SupervisorTypes'
    <2>1. toSup' \in Seq(Waits) BY <1>4, <1>t, HeadTailProperties DEF Withdraws, SupervisorTypes
    <2>2. CASE Resets("cancelled")
      <3>1. "cancelled" \in Details BY DEF Details
      <3> QED BY <2>1, <2>2, <3>1, ResetTypes DEF SupervisorTypes
    <2>3. CASE UNCHANGED <<id, last, out, fromSup, barrier>> BY <1>t, <2>1, <2>3 DEF SupervisorTypes
    <2> QED BY <1>4, <2>2, <2>3 DEF Withdraws
  <1>5. ASSUME NEW why \in Details, Fails(why) PROVE SupervisorTypes'
    BY <1>5, <1>t, ResetTypes DEF Fails, SupervisorTypes
  <1>6. ASSUME NEW f \in Frames, Emits(f) PROVE SupervisorTypes'
    <2>1. out' \in Seq(Frames) BY <1>6, <1>t, AppendProperties DEF Emits, SupervisorTypes
    <2> QED BY <1>6, <1>t, <2>1 DEF Emits, SupervisorTypes
  <1>7. ASSUME NEW how \in {"", "retired"}, Completes(how) PROVE SupervisorTypes'
    <2> DEFINE d == <<"mcp_data", id, "">>
               e == <<"mcp_end", id, how>>
    <2>1. /\ id # None /\ out' = Append(Append(out, d), e) /\ id' = None /\ last' \in {last, None}
          /\ barrier' \in {barrier, Len(out')} /\ UNCHANGED <<toSup, fromSup>>
      BY <1>7 DEF Completes
    <2>2. d \in Frames /\ e \in Frames
      BY <1>t, <2>1 DEF SupervisorTypes, Frames, Answers, Endings, Details
    <2> HIDE DEF d, e
    <2>3. out' \in Seq(Frames) BY <1>t, <2>1, <2>2, AppendProperties DEF SupervisorTypes
    <2>4. Len(out') \in Nat BY <2>3, LenProperties
    <2> QED BY <1>t, <2>1, <2>3, <2>4 DEF SupervisorTypes
  <1> QED BY <1>2, <1>3, <1>4, <1>5, <1>6, <1>7 DEF Supervises

\* ... and in any.
LEMMA SupervisorTypesKept ==
  ASSUME McpTypes, OneAtATime, Serving, [Next]_vars
  PROVE  SupervisorTypes'
  <1>t. SupervisorTypes /\ lock \in Seq(Waits) BY DEF McpTypes, SupervisorTypes
  <1>1. CASE Supervises BY <1>1, SupervisesTypes
  <1>2. CASE Idles BY <1>2, <1>t DEF Idles, SupervisorTypes
  <1>3. CASE Write
    <2>1. toSup' = Append(toSup, Head(lock)) /\ lock # <<>> /\ UNCHANGED <<id, last, out, fromSup, barrier>>
      BY <1>3 DEF Write
    <2>2. Head(lock) \in Waits BY <1>t, <2>1, HeadTailProperties
    <2>3. toSup' \in Seq(Waits) BY <1>t, <2>1, <2>2, AppendProperties DEF SupervisorTypes
    <2> QED BY <1>t, <2>1, <2>3 DEF SupervisorTypes
  <1>4. CASE Flush
    <2>1. /\ out # <<>> /\ out' = Tail(out) /\ fromSup' = Append(fromSup, Head(out))
          /\ UNCHANGED <<id, last, toSup>> /\ barrier' = IF barrier > 0 THEN barrier - 1 ELSE 0
      BY <1>4 DEF Flush
    <2>2. Head(out) \in Frames /\ out' \in Seq(Frames)
      BY <1>t, <2>1, HeadTailProperties DEF SupervisorTypes
    <2>3. fromSup' \in Seq(Frames) BY <1>t, <2>1, <2>2, AppendProperties DEF SupervisorTypes
    <2>4. barrier' \in Nat BY <1>t, <2>1 DEF SupervisorTypes
    <2> QED BY <1>t, <2>1, <2>2, <2>3, <2>4 DEF SupervisorTypes
  <1>5. CASE ReadPorts \/ ReadFrame
    <2>1. fromSup # <<>> /\ fromSup' = Tail(fromSup) /\ UNCHANGED <<toSup, id, last, out, barrier>>
      BY <1>5 DEF ReadPorts, ReadFrame, Reads
    <2>2. fromSup' \in Seq(Frames) BY <1>t, <2>1, HeadTailProperties DEF SupervisorTypes
    <2> QED BY <1>t, <2>1, <2>2 DEF SupervisorTypes
  <1>6. CASE Teardown
    <2>1. /\ toSup' = <<>> /\ out' = <<>> /\ fromSup' = <<>> /\ id' = None /\ last' = None
          /\ barrier' = 0
      BY <1>6 DEF Teardown
    <2> QED BY <2>1 DEF SupervisorTypes
  <1> QED BY <1>1, <1>2, <1>3, <1>4, <1>5, <1>6, SupervisorKinds
Statuses ==
  /\ stopped \in {"no", "idle", "other", "done"}
  /\ phase \in {"none", "wait", "call", "result", "ready"}
  /\ died \in Causes \cup {"no"}

\* The statuses keep theirs, and the child works exactly for a request.
LEMMA StatusesKept ==
  ASSUME McpTypes, OneAtATime, Serving, [Next]_vars
  PROVE  Statuses' /\ Serving'
  <1>t. Statuses BY DEF McpTypes, Statuses
  <1>n. \A c \in Calls : c # None BY McpAssumption
  <1>1. ASSUME NEW c \in Calls, \/ Admit(c) \/ GiveUp(c) \/ TakeData(c) \/ TakeEnd(c) \/ TakeError(c)
        PROVE  Statuses' /\ Serving'
    <2>1. UNCHANGED <<stopped, phase, died, id>>
      BY <1>1 DEF Admit, GiveUp, TakeData, TakeEnd, TakeError, Finish
    <2> QED BY <1>t, <2>1 DEF Statuses, Serving
  <1>2. ASSUME NEW c \in Calls, Launch(c) PROVE /\ phase' \in {"none", "call", "result"}
                                                /\ phase' = "none" <=> id' = None
    BY <1>2, <1>n DEF Launch
  <1>3. ASSUME NEW c \in Calls, CallStarts(c) PROVE Statuses' /\ Serving'
    <2>1. UNCHANGED <<stopped, died>> /\ Launch(c) BY <1>3 DEF CallStarts, Receives
    <2> QED BY <1>2, <1>t, <2>1 DEF Statuses, Serving
  <1>4. ASSUME NEW c \in Calls, CallForwards(c) PROVE Statuses' /\ Serving'
    <2>1. UNCHANGED <<stopped, died>> BY <1>4 DEF CallForwards, Receives
    <2>2. CASE id # None
      <3>1. UNCHANGED <<id, phase>> BY <1>4, <2>2 DEF CallForwards
      <3> QED BY <1>t, <2>1, <3>1 DEF Statuses, Serving
    <2>3. CASE id = None
      <3>1. id' = c /\ phase' \in {"result", "call"} BY <1>4, <2>3 DEF CallForwards
      <3> QED BY <1>n, <1>t, <2>1, <3>1 DEF Statuses, Serving
    <2> QED BY <2>2, <2>3
  <1>5. ASSUME NEW c \in Calls, CallWaits(c) PROVE Statuses' /\ Serving'
    <2>1. UNCHANGED <<stopped, died>> /\ id' = c /\ phase' = "wait"
      BY <1>5 DEF CallWaits, Receives
    <2> QED BY <1>n, <1>t, <2>1 DEF Statuses, Serving
  <1>6. ASSUME NEW why, Reset(why), UNCHANGED <<stopped, died>> PROVE Statuses' /\ Serving'
    <2>1. id' = None /\ phase' = "none" BY <1>6 DEF Reset
    <2> QED BY <1>6, <1>t, <2>1 DEF Statuses, Serving
  <1>7. ASSUME NEW c \in Calls, Cancel(c) PROVE Statuses' /\ Serving'
    <2>1. UNCHANGED <<stopped, died>> /\ (Reset("cancelled") \/ UNCHANGED <<id, phase>>)
      BY <1>7 DEF Cancel, Receives
    <2> QED BY <1>6, <1>t, <2>1 DEF Statuses, Serving
  <1>8. CASE ChildFails \/ TimeOut \/ NoticeExit
    <2>1. UNCHANGED <<stopped, died>> BY <1>8 DEF ChildFails, TimeOut, NoticeExit, Refreshes
    <2>2. Reset("failed") \/ Reset("timed out") \/ Reset("exited")
      BY <1>8 DEF ChildFails, TimeOut, NoticeExit
    <2> QED BY <1>6, <2>1, <2>2
  <1>9. CASE StartWaiting
    <2>1. UNCHANGED <<stopped, died>> /\ Launch(id) /\ id # None
      BY <1>9 DEF StartWaiting, Refreshes, Serving
    <2>2. id \in Calls BY <2>1 DEF McpTypes
    <2> QED BY <1>2, <1>t, <2>1, <2>2 DEF Statuses, Serving
  <1>10. CASE ChildAnswers
    <2>1. UNCHANGED <<stopped, died, id>> /\ phase = "call" /\ phase' = "result"
      BY <1>10 DEF ChildAnswers, Refreshes
    <2> QED BY <1>t, <2>1 DEF Statuses, Serving
  <1>11. CASE EmitData \/ Reap \/ ReportPorts
    <2>1. UNCHANGED <<stopped, died, id, phase>>
      BY <1>11 DEF EmitData, Reap, ReportPorts, Refreshes
    <2> QED BY <1>t, <2>1 DEF Statuses, Serving
  <1>12. CASE EmitEnd
    <2>1. UNCHANGED <<stopped, died>> /\ id' = None /\ phase' \in {"none", "ready"}
      BY <1>12 DEF EmitEnd, Refreshes
    <2> QED BY <1>t, <2>1 DEF Statuses, Serving
  <1>13. CASE Write \/ ReadPorts \/ ReadFrame \/ PutFrame \/ Flush \/ ChildEnds \/ UNCHANGED vars
    <2>1. UNCHANGED <<stopped, died, id, phase>>
      BY <1>13 DEF Write, ReadPorts, ReadFrame, PutFrame, Flush, ChildEnds, vars
    <2> QED BY <1>t, <2>1 DEF Statuses, Serving
  <1>14. CASE WriteFails
    <2>1. UNCHANGED <<stopped, died, id, phase>> BY <1>14 DEF WriteFails, Finish
    <2> QED BY <1>t, <2>1 DEF Statuses, Serving
  <1>15. CASE Retire \/ Stop
    <2>1. UNCHANGED <<died, id, phase>> /\ stopped' \in {"idle", "other"} BY <1>15 DEF Retire, Stop
    <2> QED BY <1>t, <2>1 DEF Statuses, Serving
  <1>16. CASE Teardown
    <2>1. UNCHANGED died /\ id' = None /\ phase' = "none" /\ stopped' = "done" BY <1>16 DEF Teardown
    <2> QED BY <1>t, <2>1 DEF Statuses, Serving
  <1>17. ASSUME NEW why \in Causes, ReapFails(why) PROVE Statuses' /\ Serving'
    <2>1. UNCHANGED <<stopped, id, phase>> /\ died' = why BY <1>17 DEF ReapFails
    <2> QED BY <1>17, <1>t, <2>1 DEF Statuses, Serving
  <1> QED
    BY <1>1, <1>3, <1>4, <1>5, <1>7, <1>8, <1>9, <1>10, <1>11, <1>12, <1>13, <1>14, <1>15,
       <1>16, <1>17, McpStep, Zenon

\* So all types are kept.
LEMMA McpTypesKept ==
  ASSUME McpTypes, OneAtATime, Admitted, Serving, [Next]_vars
  PROVE  McpTypes'
  <1>1. ManagerTypes' BY ManagerTypesKept
  <1>2. SupervisorTypes' BY SupervisorTypesKept
  <1>3. Statuses' BY StatusesKept
  <1> QED BY <1>1, <1>2, <1>3 DEF McpTypes, ManagerTypes, SupervisorTypes, Statuses
-----------------------------------------------------------------------------
(* Who is heard *)

\* A request that was written, or has ended, was; and no channel is made for it.
LEMMA BegunStays ==
  ASSUME McpTypes, Admitted, [Next]_vars, NEW c \in Calls, Begun(c)
  PROVE  Begun(c)' /\ (c \notin channels => c \notin channels')
  <1>t. http \in [Calls -> {"new", "send", "await", "ended"}] /\ http[c] \in {"await", "ended"}
    BY DEF McpTypes, Begun
  <1>1. ASSUME NEW d \in Calls, Admit(d) PROVE Begun(c)' /\ (c \notin channels => c \notin channels')
    <2>1. d # c BY <1>1, <1>t DEF Admit
    <2>2. http'[c] = http[c] /\ channels' \in {channels, {d}} BY <1>1, <1>t, <2>1 DEF Admit
    <2> QED BY <1>t, <2>1, <2>2 DEF Begun
  <1>2. ASSUME NEW d \in Calls, NEW frames, Finishes(d, frames)
        PROVE  Begun(c)' /\ (c \notin channels => c \notin channels')
    BY <1>2, <1>t DEF Finishes, Begun
  <1>3. CASE Write
    <2>1. channels' = channels /\ (http' = http \/ http' = [http EXCEPT ![Head(lock)[2]] = "await"])
      BY <1>3 DEF Write
    <2> QED BY <1>t, <2>1 DEF Begun
  <1>4. CASE PutFrame
    <2>1. http' = http /\ channels' \subseteq channels BY <1>4 DEF PutFrame
    <2> QED BY <1>t, <2>1 DEF Begun
  <1>5. ASSUME NEW d \in Calls, TakeData(d) PROVE Begun(c)' /\ (c \notin channels => c \notin channels')
    BY <1>5, <1>t DEF TakeData, Begun
  <1>6. CASE Yields BY <1>6, <1>t DEF Yields, Begun
  <1>7. CASE ReadFrame BY <1>7, <1>t DEF ReadFrame, Begun
  <1>8. CASE Teardown BY <1>8, <1>t DEF Teardown, Begun
  <1>9. CASE UNCHANGED <<http, channels, queue, active, hand, lock>> BY <1>9, <1>t DEF Begun
  <1> QED BY <1>1, <1>2, <1>3, <1>4, <1>5, <1>6, <1>7, <1>8, <1>9, ManagerKinds, Zenon

\* Who has left stays away.
LEMMA LeftStays ==
  ASSUME McpTypes, Admitted, [Next]_vars, NEW c \in Calls, Left(c)
  PROVE  Left(c)'
  BY BegunStays DEF Left

\* What waits to be written stays the only request.
LEMMA AdmittedKept ==
  ASSUME McpTypes, OneAtATime, Admitted, Heard, [Next]_vars
  PROVE  Admitted'
  <1>t. /\ lock \in Seq(Waits) /\ http \in [Calls -> {"new", "send", "await", "ended"}]
        /\ Asks(lock) \subseteq 1..Len(lock)
    BY DEF McpTypes, Asks
  <1>w. \A k \in Asks(lock) : lock[k][2] \in Calls BY DEF Asks, McpTypes, Waits
  <1>1. ASSUME NEW c \in Calls, Admit(c) PROVE Admitted'
    <2>1. CASE active # None \/ channels # {}
      <3>1. UNCHANGED <<lock, channels, active>> /\ http' = [http EXCEPT ![c] = "ended"] /\ http[c] = "new"
        BY <1>1, <2>1 DEF Admit
      <3>2. ASSUME NEW k \in Asks(lock) PROVE http'[lock[k][2]] = "send"
        BY <1>t, <1>w, <3>1 DEF Admitted
      <3> QED BY <3>1, <3>2 DEF Admitted
    <2>2. CASE ~(active # None \/ channels # {})
      <3> DEFINE e == <<"mcp", c>>
      <3>1. /\ active' = None /\ http' = [http EXCEPT ![c] = "send"] /\ channels' = {c}
            /\ lock' = Append(lock, e)
        BY <1>1, <2>2 DEF Admit
      <3>2. Asks(lock) = {} BY <2>2 DEF Admitted
      <3>3. e \in Waits /\ e[1] = "mcp" /\ e[2] = c BY DEF Waits
      <3> HIDE DEF e
      <3>4. Len(lock) \in Nat /\ lock'[Len(lock) + 1] = e /\ Asks(lock') = {Len(lock) + 1}
        BY <1>t, <3>1, <3>2, <3>3, PipeJoins
      <3>5. http'[c] = "send" BY <1>t, <3>1
      <3> QED BY <3>1, <3>3, <3>4, <3>5 DEF Admitted
    <2> QED BY <2>1, <2>2
  <1>2. ASSUME NEW c \in Calls, NEW frames, Finishes(c, frames) PROVE Admitted'
    <2>1. \/ Asks(lock') = {}
          \/ Asks(lock') = Asks(lock) /\ \A k \in Asks(lock) : lock'[k] = lock[k] /\ lock[k][2] # c
      BY <1>2, FinishesLock
    <2>2. active' = active /\ http' = [http EXCEPT ![c] = "ended"] /\ channels' = channels \ {c}
      BY <1>2 DEF Finishes
    <2>3. ASSUME NEW k \in Asks(lock), lock[k][2] # c
          PROVE  http'[lock[k][2]] = "send" /\ lock[k][2] \in channels'
      BY <1>t, <1>w, <2>2, <2>3 DEF Admitted
    <2> QED BY <2>1, <2>2, <2>3 DEF Admitted
  <1>3. CASE Write
    <2>1. /\ lock # <<>> /\ lock' = Tail(lock) /\ channels' = channels
          /\ Head(lock)[1] # "mcp" => active' = active /\ http' = http
      BY <1>3 DEF Write
    <2>2. /\ Head(lock)[1] = "mcp" => 1 \in Asks(lock)
          /\ \A k \in 1..(Len(lock) - 1) : lock'[k] = lock[k + 1]
          /\ \A k \in Asks(lock') : k \in 1..(Len(lock) - 1) /\ k + 1 \in Asks(lock) /\ k + 1 # 1 /\ k \in Nat
      BY <1>t, <2>1, PipeLeaves
    <2>3. CASE Head(lock)[1] = "mcp"
      <3>1. Asks(lock') = {} BY <2>2, <2>3 DEF Admitted
      <3> QED BY <3>1 DEF Admitted
    <2>4. CASE Head(lock)[1] # "mcp"
      <3>1. ASSUME NEW k \in Asks(lock')
            PROVE  /\ active = None /\ http[lock'[k][2]] = "send" /\ lock'[k][2] \in channels
                   /\ \A j \in Asks(lock') : j = k
        BY <2>2 DEF Admitted
      <3> QED BY <2>1, <2>4, <3>1 DEF Admitted
    <2> QED BY <2>3, <2>4
  <1>4. CASE Yields
    <2>1. lock # <<>> /\ lock' = Tail(lock) /\ UNCHANGED <<channels, active, http>>
      BY <1>4 DEF Yields
    <2>2. /\ \A k \in 1..(Len(lock) - 1) : lock'[k] = lock[k + 1]
          /\ \A k \in Asks(lock') : k \in 1..(Len(lock) - 1) /\ k + 1 \in Asks(lock) /\ k \in Nat
      BY <1>t, <2>1, PipeLeaves
    <2>3. ASSUME NEW k \in Asks(lock')
          PROVE  /\ active = None /\ http[lock'[k][2]] = "send" /\ lock'[k][2] \in channels
                 /\ \A j \in Asks(lock') : j = k
      BY <2>2 DEF Admitted
    <2> QED BY <2>1, <2>3 DEF Admitted
  <1>5. CASE ReadFrame
    <2>1. active' \in {None, active} /\ UNCHANGED <<channels, http, lock>> BY <1>5 DEF ReadFrame
    <2> QED BY <2>1 DEF Admitted
  <1>6. CASE PutFrame
    <2>1. /\ UNCHANGED <<active, http>> /\ hand # <<>>
          /\ \/ UNCHANGED <<channels, lock>>
             \/ channels' = channels \ {hand[2]} /\ lock' = Append(lock, <<"mcp_cancel", hand[2]>>)
      BY <1>6 DEF PutFrame
    <2>2. CASE UNCHANGED <<channels, lock>> BY <2>1, <2>2 DEF Admitted
    <2>3. CASE channels' = channels \ {hand[2]} /\ lock' = Append(lock, <<"mcp_cancel", hand[2]>>)
      <3> DEFINE c == hand[2]
                 e == <<"mcp_cancel", c>>
      <3>1. c \in Calls BY <2>1, AnswerParts DEF McpTypes
      <3>2. e \in Waits /\ e[1] # "mcp" BY <3>1 DEF Waits
      <3>3. Begun(c) BY <2>1 DEF Heard
      <3>4. \A k \in Asks(lock) : lock[k][2] # c BY <3>3 DEF Begun, Admitted
      <3>5. channels' = channels \ {c} /\ lock' = Append(lock, e) BY <2>3
      <3> HIDE DEF c, e
      <3>6. Asks(lock') = Asks(lock) /\ \A k \in Asks(lock) : lock'[k] = lock[k]
        BY <1>t, <3>2, <3>5, PipeJoins, PipeJoinsQuietly
      <3> QED BY <2>1, <3>4, <3>5, <3>6 DEF Admitted
    <2> QED BY <2>1, <2>2, <2>3
  <1>7. ASSUME NEW c \in Calls, TakeData(c) PROVE Admitted' BY <1>7 DEF TakeData, Admitted
  <1>8. CASE Teardown BY <1>8 DEF Teardown, Admitted
  <1>9. CASE UNCHANGED <<http, channels, queue, active, hand, lock>> BY <1>9 DEF Admitted
  <1> QED BY <1>1, <1>2, <1>3, <1>4, <1>5, <1>6, <1>7, <1>8, <1>9, ManagerKinds, Zenon
-----------------------------------------------------------------------------
(* Where frames come from *)

\* What is emitted is about the active request, and that it was cancelled is
\* only said of one that was left.
Said(f) ==
  f[1] = "ports" \/ (f[2] \in Calls /\ f[2] = active /\ (Cancelled(f) => Left(f[2])))

\* An answer is two frames more.
LEMMA OutTwo ==
  ASSUME out \in Seq(Frames), NEW d \in Frames, NEW e \in Frames, out' = Append(Append(out, d), e)
  PROVE  \A k \in 1..Len(out') :
           out'[k] = d \/ out'[k] = e \/ (k \in 1..Len(out) /\ out'[k] = out[k])
  BY PipeHoldsTwo

\* So is everything in the output, or was before.
LEMMA OutComes ==
  ASSUME McpTypes, OneAtATime, Serving, CancelledLeft, [Next]_vars, NEW k \in 1..Len(out')
  PROVE  Said(out'[k]) \/ \E j \in 1..Len(out) : out'[k] = out[j]
  <1> DEFINE Goal == Said(out'[k]) \/ \E j \in 1..Len(out) : out'[k] = out[j]
  <1>t. out \in Seq(Frames) /\ toSup \in Seq(Waits) BY DEF McpTypes
  <1>0. CASE out' = out BY <1>0
  <1>1. ASSUME NEW o \in Seq(Frames), NEW e \in Frames, out' = Append(o, e)
        PROVE  out'[k] = e \/ (k \in 1..Len(o) /\ out'[k] = o[k])
    <2>1. /\ Len(o) \in Nat /\ Len(out') = Len(o) + 1 /\ out'[Len(o) + 1] = e
          /\ \A j \in 1..Len(o) : out'[j] = o[j]
      BY <1>1, AppendProperties
    <2>2. k \in 1..Len(o) \/ k = Len(o) + 1 BY <2>1
    <2> QED BY <2>1, <2>2
  <1>2. ASSUME NEW c \in Calls, Refuses(c) PROVE Goal
    <2> DEFINE e == <<"error", c, "startup failed">>
    <2>1. c = active /\ out' = Append(out, e) BY <1>2, TakesOne DEF Refuses
    <2>2. e \in Frames /\ e[2] = c /\ ~Cancelled(e) BY DEF Frames, Answers, Details, Cancelled
    <2>3. Said(e) BY <2>1, <2>2 DEF Said
    <2> HIDE DEF e
    <2> QED BY <1>1, <1>t, <2>1, <2>2, <2>3
  <1>3. ASSUME NEW why \in Details, Resets(why),
               why = "cancelled" /\ id # None => Left(id)
        PROVE  Goal
    <2>1. CASE id = None BY <1>0, <1>3, <2>1 DEF Resets
    <2>2. CASE id # None
      <3> DEFINE e == <<"error", id, why>>
      <3>1. id \in Calls /\ id = active BY <2>2 DEF McpTypes, OneAtATime
      <3>2. e \in Frames /\ e[2] = id /\ e[3] = why BY <3>1 DEF Frames, Answers
      <3>3. out' = Append(out, e) BY <1>3, <2>2 DEF Resets
      <3>4. Said(e) BY <1>3, <2>2, <3>1, <3>2 DEF Said, Cancelled
      <3> HIDE DEF e
      <3> QED BY <1>1, <1>t, <3>2, <3>3, <3>4
    <2> QED BY <2>1, <2>2
  <1>4. ASSUME NEW c \in Calls, Withdraws(c) PROVE Goal
    <2>1. CASE UNCHANGED <<id, last, out, fromSup, barrier>> BY <1>0, <2>1
    <2>2. CASE c = last /\ Resets("cancelled")
      <3>1. toSup # <<>> /\ Head(toSup) = <<"mcp_cancel", c>> BY <1>4 DEF Withdraws
      <3>2. 1 \in 1..Len(toSup) /\ toSup[1] = <<"mcp_cancel", c>> BY <1>t, <3>1, HeadTailProperties
      <3>3. Left(c) BY <3>2 DEF CancelledLeft
      <3>4. id # None => id = c BY <2>2 DEF OneAtATime
      <3>5. "cancelled" \in Details BY DEF Details
      <3> QED BY <1>3, <2>2, <3>3, <3>4, <3>5
    <2> QED BY <1>4, <2>1, <2>2 DEF Withdraws
  <1>5. ASSUME NEW why \in Details, Fails(why) PROVE Goal BY <1>3, <1>5 DEF Fails
  <1>6. ASSUME NEW f \in Frames, Emits(f) PROVE Goal
    <2>1. out' = Append(out, f) BY <1>6 DEF Emits
    <2>2. CASE f[1] = "ports" BY <1>1, <1>t, <2>1, <2>2 DEF Said
    <2>3. CASE id # None /\ f = <<"mcp_data", id, "">>
      <3>1. id \in Calls /\ id = active BY <2>3 DEF McpTypes, OneAtATime
      <3>2. f[2] = id /\ ~Cancelled(f) BY <2>3 DEF Cancelled
      <3> QED BY <1>1, <1>t, <2>1, <3>1, <3>2 DEF Said
    <2> QED BY <1>6, <2>2, <2>3 DEF Emits
  <1>7. ASSUME NEW how \in {"", "retired"}, Completes(how) PROVE Goal
    <2> DEFINE d == <<"mcp_data", id, "">>
               e == <<"mcp_end", id, how>>
    <2>1. id # None /\ out' = Append(Append(out, d), e) BY <1>7 DEF Completes
    <2>2. id \in Calls /\ id = active BY <2>1 DEF McpTypes, OneAtATime
    <2>3. /\ d \in Frames /\ d[2] = id /\ ~Cancelled(d)
          /\ e \in Frames /\ e[2] = id /\ ~Cancelled(e)
      BY <2>2 DEF Frames, Answers, Cancelled
    <2>4. Said(d) /\ Said(e) BY <2>2, <2>3 DEF Said
    <2>5. d \in Frames /\ e \in Frames BY <2>3
    <2> HIDE DEF d, e
    <2>6. out'[k] = d \/ out'[k] = e \/ \E j \in 1..Len(out) : out'[k] = out[j]
      BY <1>t, <2>1, <2>5, OutTwo
    <2> QED BY <2>4, <2>6, Zenon
  <1>8. CASE Supervises
    BY <1>0, <1>2, <1>4, <1>5, <1>6, <1>7, <1>8 DEF Supervises, Serves
  <1>9. CASE Flush
    <2>1. out # <<>> /\ out' = Tail(out) BY <1>9 DEF Flush
    <2>2. /\ Len(out) \in Nat /\ Len(out') = Len(out) - 1
          /\ \A j \in 1..(Len(out) - 1) : out'[j] = out[j + 1]
      BY <1>t, <2>1, HeadTailProperties
    <2>3. k + 1 \in 1..Len(out) /\ out'[k] = out[k + 1] BY <2>2
    <2> QED BY <2>3
  <1>10. CASE Idles \/ Write \/ ReadPorts \/ ReadFrame
    BY <1>0, <1>10 DEF Idles, Write, ReadPorts, ReadFrame
  <1>11. CASE Teardown
    <2>1. out' = <<>> BY <1>11 DEF Teardown
    <2> QED BY <2>1, PipeEmpty
  <1> QED BY <1>8, <1>9, <1>10, <1>11, SupervisorKinds

\* What comes to the reader was emitted.
LEMMA FromSupComes ==
  ASSUME McpTypes, OneAtATime, Serving, [Next]_vars, NEW k \in 1..Len(fromSup')
  PROVE  \/ \E j \in 1..Len(fromSup) : fromSup'[k] = fromSup[j]
         \/ \E j \in 1..Len(out) : fromSup'[k] = out[j]
  <1>t. out \in Seq(Frames) /\ fromSup \in Seq(Frames) BY DEF McpTypes
  <1>1. CASE fromSup' = fromSup BY <1>1
  <1>2. CASE Flush
    <2>1. out # <<>> /\ fromSup' = Append(fromSup, Head(out)) BY <1>2 DEF Flush
    <2>2. 1 \in 1..Len(out) /\ Head(out) = out[1] /\ Head(out) \in Frames
      BY <1>t, <2>1, HeadTailProperties
    <2>3. /\ Len(fromSup) \in Nat /\ Len(fromSup') = Len(fromSup) + 1
          /\ fromSup'[Len(fromSup) + 1] = Head(out)
          /\ \A j \in 1..Len(fromSup) : fromSup'[j] = fromSup[j]
      BY <1>t, <2>1, <2>2, AppendProperties
    <2>4. k \in 1..Len(fromSup) \/ k = Len(fromSup) + 1 BY <2>3
    <2> QED BY <2>2, <2>3, <2>4
  <1>3. CASE ReadPorts \/ ReadFrame
    <2>1. fromSup # <<>> /\ fromSup' = Tail(fromSup) BY <1>3 DEF ReadPorts, ReadFrame, Reads
    <2>2. /\ Len(fromSup) \in Nat /\ Len(fromSup') = Len(fromSup) - 1
          /\ \A j \in 1..(Len(fromSup) - 1) : fromSup'[j] = fromSup[j + 1]
      BY <1>t, <2>1, HeadTailProperties
    <2>3. k + 1 \in 1..Len(fromSup) /\ fromSup'[k] = fromSup[k + 1] BY <2>2
    <2> QED BY <2>3
  <1>4. CASE Teardown
    <2>1. fromSup' = <<>> BY <1>4 DEF Teardown
    <2> QED BY <2>1, PipeEmpty
  <1>5. CASE Supervises \/ Idles \/ Write
    <2>1. fromSup' = fromSup
      BY <1>5 DEF Supervises, Serves, Refuses, Takes, Withdraws, Fails, Resets, Emits, Completes,
                  Idles, Write
    <2> QED BY <1>1, <2>1
  <1> QED BY <1>2, <1>3, <1>4, <1>5, SupervisorKinds

\* What goes to the supervisor waited.
LEMMA ToSupComes ==
  ASSUME McpTypes, OneAtATime, Serving, [Next]_vars, NEW k \in 1..Len(toSup')
  PROVE  \/ \E j \in 1..Len(toSup) : toSup'[k] = toSup[j]
         \/ \E j \in 1..Len(lock) : toSup'[k] = lock[j]
  <1>t. toSup \in Seq(Waits) /\ lock \in Seq(Waits) BY DEF McpTypes
  <1>1. CASE toSup' = toSup BY <1>1
  <1>2. CASE Write
    <2>1. lock # <<>> /\ toSup' = Append(toSup, Head(lock)) BY <1>2 DEF Write
    <2>2. 1 \in 1..Len(lock) /\ Head(lock) = lock[1] /\ Head(lock) \in Waits
      BY <1>t, <2>1, HeadTailProperties
    <2>3. /\ Len(toSup) \in Nat /\ Len(toSup') = Len(toSup) + 1
          /\ toSup'[Len(toSup) + 1] = Head(lock)
          /\ \A j \in 1..Len(toSup) : toSup'[j] = toSup[j]
      BY <1>t, <2>1, <2>2, AppendProperties
    <2>4. k \in 1..Len(toSup) \/ k = Len(toSup) + 1 BY <2>3
    <2> QED BY <2>2, <2>3, <2>4
  <1>3. CASE toSup # <<>> /\ toSup' = Tail(toSup)
    <2>2. /\ Len(toSup) \in Nat /\ Len(toSup') = Len(toSup) - 1
          /\ \A j \in 1..(Len(toSup) - 1) : toSup'[j] = toSup[j + 1]
      BY <1>t, <1>3, HeadTailProperties
    <2>3. k + 1 \in 1..Len(toSup) /\ toSup'[k] = toSup[k + 1] BY <2>2
    <2> QED BY <2>3
  <1>4. CASE Teardown
    <2>1. toSup' = <<>> BY <1>4 DEF Teardown
    <2> QED BY <2>1, PipeEmpty
  <1>5. CASE Supervises \/ Idles \/ Flush \/ ReadPorts \/ ReadFrame
    <2>1. toSup' = toSup \/ (toSup # <<>> /\ toSup' = Tail(toSup))
      BY <1>5 DEF Supervises, Serves, Refuses, Takes, Withdraws, Fails, Emits, Completes,
                  Idles, Flush, ReadPorts, ReadFrame
    <2> QED BY <1>1, <1>3, <2>1
  <1> QED BY <1>2, <1>4, <1>5, SupervisorKinds

\* A cancel waits only for a request that has left.
LEMMA LockComes ==
  ASSUME McpTypes, Admitted, Heard, [Next]_vars, NEW k \in 1..Len(lock')
  PROVE  \/ \E j \in 1..Len(lock) : lock'[k] = lock[j]
         \/ lock'[k][1] = "mcp"
         \/ \E c \in Calls : lock'[k][2] = c /\ Left(c)'
  <1> DEFINE Goal == \/ \E j \in 1..Len(lock) : lock'[k] = lock[j]
                     \/ lock'[k][1] = "mcp"
                     \/ \E c \in Calls : lock'[k][2] = c /\ Left(c)'
  <1>t. /\ lock \in Seq(Waits) /\ http \in [Calls -> {"new", "send", "await", "ended"}]
        /\ channels \subseteq Calls
    BY DEF McpTypes
  <1>1. CASE lock' = lock BY <1>1
  <1>2. CASE lock # <<>> /\ lock' = Tail(lock)
    <2>2. /\ Len(lock) \in Nat /\ Len(lock') = Len(lock) - 1
          /\ \A j \in 1..(Len(lock) - 1) : lock'[j] = lock[j + 1]
      BY <1>t, <1>2, HeadTailProperties
    <2>3. k + 1 \in 1..Len(lock) /\ lock'[k] = lock[k + 1] BY <2>2
    <2> QED BY <2>3
  <1>3. ASSUME NEW e \in Waits, lock' = Append(lock, e)
        PROVE  lock'[k] = e \/ \E j \in 1..Len(lock) : lock'[k] = lock[j]
    <2>1. /\ Len(lock) \in Nat /\ Len(lock') = Len(lock) + 1 /\ lock'[Len(lock) + 1] = e
          /\ \A j \in 1..Len(lock) : lock'[j] = lock[j]
      BY <1>t, <1>3, AppendProperties
    <2>2. k \in 1..Len(lock) \/ k = Len(lock) + 1 BY <2>1
    <2> QED BY <2>1, <2>2
  <1>4. ASSUME NEW c \in Calls, Admit(c) PROVE Goal
    <2> DEFINE e == <<"mcp", c>>
    <2>1. lock' = lock \/ lock' = Append(lock, e) BY <1>4 DEF Admit
    <2>2. e \in Waits /\ e[1] = "mcp" BY DEF Waits
    <2> HIDE DEF e
    <2> QED BY <1>1, <1>3, <2>1, <2>2
  <1>5. ASSUME NEW c \in Calls, NEW frames, Finishes(c, frames) PROVE Goal
    <2>1. lock'[k] = <<"mcp_cancel", c>> \/ \E j \in 1..Len(lock) : lock'[k] = lock[j]
      BY <1>5, FinishesLock
    <2>2. http'[c] = "ended" /\ c \notin channels' BY <1>5, <1>t DEF Finishes
    <2>3. Left(c)' BY <2>2 DEF Left, Begun
    <2>4. CASE lock'[k] = <<"mcp_cancel", c>>
      <3>1. lock'[k][2] = c BY <2>4
      <3> QED BY <2>3, <3>1
    <2> QED BY <2>1, <2>4
  <1>6. CASE PutFrame
    <2>0. hand # <<>> BY <1>6 DEF PutFrame
    <2>c. PICK c \in Calls : c = hand[2] BY <2>0, AnswerParts DEF McpTypes
    <2> DEFINE e == <<"mcp_cancel", c>>
    <2>1. /\ http' = http
          /\ lock' = lock \/ (lock' = Append(lock, e) /\ channels' = channels \ {c})
      BY <1>6, <2>c DEF PutFrame
    <2>2. Begun(c) BY <2>0, <2>c DEF Heard
    <2>3. e \in Waits /\ e[2] = c BY DEF Waits
    <2> HIDE DEF e
    <2>4. CASE lock' = Append(lock, e) /\ channels' = channels \ {c}
      <3>1. lock'[k] = e \/ \E j \in 1..Len(lock) : lock'[k] = lock[j] BY <1>3, <2>3, <2>4
      <3>2. CASE lock'[k] = e
        <4>1. lock'[k][2] = c BY <2>3, <3>2
        <4>2. Left(c)' BY <2>1, <2>2, <2>4 DEF Left, Begun
        <4> QED BY <2>2, <4>1, <4>2
      <3> QED BY <3>1, <3>2
    <2> QED BY <1>1, <2>1, <2>4
  <1>7. CASE Write \/ Yields BY <1>2, <1>7 DEF Write, Yields
  <1>8. ASSUME NEW c \in Calls, TakeData(c) PROVE Goal BY <1>1, <1>8 DEF TakeData
  <1>9. CASE ReadFrame \/ Teardown \/ UNCHANGED <<http, channels, queue, active, hand, lock>>
    BY <1>1, <1>9 DEF ReadFrame, Teardown
  <1> QED BY <1>4, <1>5, <1>6, <1>7, <1>8, <1>9, ManagerKinds, Zenon

\* What the reader has in its hand was read, or stands for it.
LEMMA HandComes ==
  ASSUME McpTypes, Admitted, [Next]_vars, hand' # <<>>
  PROVE  \/ hand' = hand
         \/ \E j \in 1..Len(fromSup) : fromSup[j][1] # "ports" /\ hand' = fromSup[j]
         \/ hand # <<>> /\ hand' = <<"overflow", hand[2], "">>
  <1>1. CASE ReadFrame
    <2>1. /\ fromSup \in Seq(Frames) /\ fromSup # <<>> /\ Head(fromSup)[1] # "ports"
          /\ hand' = Head(fromSup)
      BY <1>1 DEF ReadFrame, Reads, McpTypes
    <2>2. 1 \in 1..Len(fromSup) /\ Head(fromSup) = fromSup[1] BY <2>1, HeadTailProperties
    <2> QED BY <2>1, <2>2
  <1>2. CASE PutFrame BY <1>2 DEF PutFrame
  <1>3. CASE Write BY <1>3 DEF Write
  <1>4. CASE Teardown BY <1>4 DEF Teardown
  <1>5. ASSUME NEW c \in Calls, Admit(c) \/ TakeData(c) PROVE hand' = hand
    BY <1>5 DEF Admit, TakeData
  <1>6. ASSUME NEW c \in Calls, NEW frames, Finishes(c, frames) PROVE hand' = hand
    BY <1>6 DEF Finishes
  <1>7. CASE Yields BY <1>7 DEF Yields
  <1>8. CASE UNCHANGED <<http, channels, queue, active, hand, lock>> BY <1>8
  <1> QED BY <1>1, <1>2, <1>3, <1>4, <1>5, <1>6, <1>7, <1>8, ManagerKinds, Zenon
-----------------------------------------------------------------------------
(* What is kept *)

\* The last request of the browser was the active one.
LEMMA LastComes ==
  ASSUME McpTypes, OneAtATime, Serving, [Next]_vars
  PROVE  last' \in {last, None, active}
  <1>1. ASSUME NEW c \in Calls, Serves(c) PROVE last' = active BY <1>1, TakesOne DEF Serves
  <1>2. ASSUME NEW c \in Calls, Refuses(c) PROVE last' = None BY <1>2 DEF Refuses
  <1>3. ASSUME NEW c \in Calls, Withdraws(c) PROVE last' \in {last, None}
    BY <1>3 DEF Withdraws, Resets
  <1>4. ASSUME NEW why \in Details, Fails(why) PROVE last' = None BY <1>4 DEF Fails, Resets
  <1>5. ASSUME NEW f \in Frames, Emits(f) PROVE last' = last BY <1>5 DEF Emits
  <1>6. ASSUME NEW how \in {"", "retired"}, Completes(how) PROVE last' \in {last, None}
    BY <1>6 DEF Completes
  <1>7. CASE Idles \/ Write \/ Flush \/ ReadPorts \/ ReadFrame
    BY <1>7 DEF Idles, Write, Flush, ReadPorts, ReadFrame
  <1>8. CASE Teardown BY <1>8 DEF Teardown
  <1>9. CASE Supervises BY <1>1, <1>2, <1>3, <1>4, <1>5, <1>6, <1>9 DEF Supervises
  <1> QED BY <1>7, <1>8, <1>9, SupervisorKinds

\* A request becomes the active one when it is written.
LEMMA ActiveComes ==
  ASSUME McpTypes, Admitted, Heard, [Next]_vars
  PROVE  \/ active' = None
         \/ \E c \in Calls : active' = c /\ Begun(c)'
  <1>t. /\ http \in [Calls -> {"new", "send", "await", "ended"}] /\ lock \in Seq(Waits)
        /\ active \in Calls \cup {None}
    BY DEF McpTypes
  <1>1. CASE active' = active
    <2>1. CASE active = None BY <1>1, <2>1
    <2>2. CASE active # None
      <3>1. active \in Calls /\ Begun(active) BY <1>t, <2>2 DEF Heard
      <3>2. PICK c \in Calls : c = active BY <3>1
      <3>3. Begun(c)' BY <3>1, <3>2, BegunStays
      <3> QED BY <1>1, <3>2, <3>3
    <2> QED BY <2>1, <2>2
  <1>2. CASE Write
    <2>1. /\ lock # <<>>
          /\ \/ active' = active
             \/ active' = Head(lock)[2] /\ http' = [http EXCEPT ![Head(lock)[2]] = "await"]
      BY <1>2 DEF Write
    <2>2. Head(lock) \in Waits BY <1>t, <2>1, HeadTailProperties
    <2>3. PICK c \in Calls : c = Head(lock)[2] BY <2>2 DEF Waits
    <2>4. CASE active' = c /\ http' = [http EXCEPT ![c] = "await"]
      <3>1. http'[c] = "await" BY <1>t, <2>4
      <3> QED BY <2>4, <3>1 DEF Begun
    <2> QED BY <1>1, <2>1, <2>3, <2>4
  <1>3. CASE ReadFrame
    <2>1. active' \in {None, active} BY <1>3 DEF ReadFrame
    <2> QED BY <1>1, <2>1
  <1>4. ASSUME NEW c \in Calls, Admit(c) \/ TakeData(c) PROVE active' = active
    BY <1>4 DEF Admit, TakeData
  <1>5. ASSUME NEW c \in Calls, NEW frames, Finishes(c, frames) PROVE active' = active
    BY <1>5 DEF Finishes
  <1>6. CASE Yields \/ PutFrame \/ Teardown \/ UNCHANGED <<http, channels, queue, active, hand, lock>>
    BY <1>1, <1>6 DEF Yields, PutFrame, Teardown
  <1> QED BY <1>1, <1>2, <1>3, <1>4, <1>5, <1>6, ManagerKinds

\* What is in a pipe is of a request that was written.
LEMMA HeardKept ==
  ASSUME McpTypes, OneAtATime, Admitted, Serving, Heard, CancelledLeft, [Next]_vars
  PROVE  Heard'
  <1>t. /\ active \in Calls \cup {None} /\ last \in Calls \cup {None}
        /\ \A k \in 1..Len(out) : out[k] \in Frames
        /\ \A k \in 1..Len(fromSup) : fromSup[k] \in Frames
        /\ hand \in {<<>>} \cup Answers \cup Overflows
    BY DEF McpTypes
  <1>b. \A c \in Calls : Begun(c) => Begun(c)' BY BegunStays
  <1>c. \A f \in Frames : f[1] # "ports" => f[2] \in Calls BY AnswerParts
  <1>1. active' # None => Begun(active)' BY ActiveComes
  <1>2. last' # None => Begun(last)'
    <2>1. last' \in {last, None, active} BY LastComes
    <2>2. last # None => last \in Calls /\ Begun(last) BY <1>t DEF Heard
    <2>3. active # None => active \in Calls /\ Begun(active) BY <1>t DEF Heard
    <2>4. CASE last' # None
      <3>1. PICK c \in Calls : c = last' /\ Begun(c) BY <2>1, <2>2, <2>3, <2>4
      <3>2. Begun(c)' BY <1>b, <3>1
      <3> QED BY <3>1, <3>2
    <2> QED BY <2>4
  <1>3. ASSUME NEW k \in 1..Len(out'), out'[k][1] # "ports"
        PROVE  \E c \in Calls : out'[k][2] = c /\ Begun(c)'
    <2>1. Said(out'[k]) \/ \E j \in 1..Len(out) : out'[k] = out[j] BY OutComes
    <2>2. CASE Said(out'[k])
      <3>1. PICK c \in Calls : c = active /\ out'[k][2] = c BY <1>3, <2>2 DEF Said
      <3>2. active # None BY <3>1, McpAssumption
      <3>3. Begun(c) BY <3>1, <3>2 DEF Heard
      <3> QED BY <1>b, <3>1, <3>3
    <2>3. ASSUME NEW j \in 1..Len(out), out'[k] = out[j]
          PROVE  \E c \in Calls : out'[k][2] = c /\ Begun(c)'
      <3>1. PICK c \in Calls : c = out[j][2] BY <1>3, <1>c, <1>t, <2>3
      <3>2. Begun(c) BY <1>3, <2>3, <3>1 DEF Heard
      <3> QED BY <1>b, <2>3, <3>1, <3>2
    <2> QED BY <2>1, <2>2, <2>3
  <1>4. ASSUME NEW k \in 1..Len(fromSup'), fromSup'[k][1] # "ports"
        PROVE  \E c \in Calls : fromSup'[k][2] = c /\ Begun(c)'
    <2>1. PICK f : /\ fromSup'[k] = f
                   /\ (\E j \in 1..Len(fromSup) : f = fromSup[j]) \/ (\E j \in 1..Len(out) : f = out[j])
      BY FromSupComes
    <2>2. f \in Frames /\ f[1] # "ports" BY <1>4, <1>t, <2>1
    <2>3. PICK c \in Calls : c = f[2] BY <1>c, <2>2
    <2>4. Begun(c) BY <2>1, <2>2, <2>3 DEF Heard
    <2> QED BY <1>b, <2>1, <2>3, <2>4
  <1>5. ASSUME hand' # <<>> PROVE \E c \in Calls : hand'[2] = c /\ Begun(c)'
    <2>1. \/ hand' = hand
          \/ \E j \in 1..Len(fromSup) : fromSup[j][1] # "ports" /\ hand' = fromSup[j]
          \/ hand # <<>> /\ hand' = <<"overflow", hand[2], "">>
      BY <1>5, HandComes
    <2>2. ASSUME hand # <<>>, hand'[2] = hand[2] PROVE \E c \in Calls : hand'[2] = c /\ Begun(c)'
      <3>1. PICK c \in Calls : c = hand[2] BY <1>t, <2>2, AnswerParts
      <3>2. Begun(c) BY <2>2, <3>1 DEF Heard
      <3> QED BY <1>b, <2>2, <3>1, <3>2
    <2>3. ASSUME NEW j \in 1..Len(fromSup), fromSup[j][1] # "ports", hand' = fromSup[j]
          PROVE  \E c \in Calls : hand'[2] = c /\ Begun(c)'
      <3>1. PICK c \in Calls : c = fromSup[j][2] BY <1>c, <1>t, <2>3
      <3>2. Begun(c) BY <2>3, <3>1 DEF Heard
      <3> QED BY <1>b, <2>3, <3>1, <3>2
    <2>4. CASE hand' = hand BY <1>5, <2>2, <2>4
    <2>5. CASE hand # <<>> /\ hand' = <<"overflow", hand[2], "">>
      <3>1. hand'[2] = hand[2] BY <2>5
      <3> QED BY <2>2, <2>5, <3>1
    <2> QED BY <2>1, <2>3, <2>4, <2>5
  <1>6. ASSUME NEW c \in Calls, Begun(c)' PROVE http'[c] \in {"await", "ended"} BY <1>6 DEF Begun
  <1>7. /\ \A k \in 1..Len(out') : out'[k][1] # "ports" => http'[out'[k][2]] \in {"await", "ended"}
        /\ \A k \in 1..Len(fromSup') :
             fromSup'[k][1] # "ports" => http'[fromSup'[k][2]] \in {"await", "ended"}
        /\ hand' # <<>> => http'[hand'[2]] \in {"await", "ended"}
    BY <1>3, <1>4, <1>5, <1>6
  <1> QED BY <1>1, <1>2, <1>7 DEF Heard, Begun

\* What a channel's queue gets is what the reader had.
LEMMA QueueComes ==
  ASSUME McpTypes, Admitted, [Next]_vars, NEW c \in Calls, NEW k \in 1..Len(queue'[c]),
         queue'[c][k][3] = "cancelled"
  PROVE  \/ \E j \in 1..Len(queue[c]) : queue'[c][k] = queue[c][j]
         \/ queue'[c][k] = hand /\ hand[2] = c /\ hand \in Answers /\ hand # <<>>
  <1> DEFINE Goal == \/ \E j \in 1..Len(queue[c]) : queue'[c][k] = queue[c][j]
                     \/ queue'[c][k] = hand /\ hand[2] = c /\ hand \in Answers /\ hand # <<>>
  <1>t. queue \in [Calls -> Seq(Answers)] BY DEF McpTypes
  <1>0. CASE queue'[c] = queue[c] BY <1>0
  <1>1. ASSUME NEW d \in Calls, TakeData(d) PROVE Goal
    <2>1. queue[d] # <<>> /\ queue' = [queue EXCEPT ![d] = Tail(@)] BY <1>1 DEF TakeData
    <2>2. CASE d # c BY <1>0, <1>t, <2>1, <2>2
    <2>3. CASE d = c
      <3>1. queue'[c] = Tail(queue[c]) /\ queue[c] \in Seq(Answers) /\ queue[c] # <<>>
        BY <1>t, <2>1, <2>3
      <3>2. /\ Len(queue[c]) \in Nat /\ Len(queue'[c]) = Len(queue[c]) - 1
            /\ \A j \in 1..(Len(queue[c]) - 1) : queue'[c][j] = queue[c][j + 1]
        BY <3>1, HeadTailProperties
      <3>3. k + 1 \in 1..Len(queue[c]) /\ queue'[c][k] = queue[c][k + 1] BY <3>2
      <3> QED BY <3>3
    <2> QED BY <2>2, <2>3
  <1>2. ASSUME NEW d \in Calls, NEW frames, Finishes(d, frames) PROVE Goal
    <2>1. queue' = [queue EXCEPT ![d] = <<>>] BY <1>2 DEF Finishes
    <2>2. queue'[c] = queue[c] \/ queue'[c] = <<>> BY <1>t, <2>1
    <2> QED BY <1>0, <2>2, PipeEmpty
  <1>3. CASE PutFrame
    <2>0. hand # <<>> /\ hand[1] # "overflow" BY <1>3 DEF PutFrame
    <2>1. hand \in Answers BY <2>0, AnswerParts DEF McpTypes
    <2>2. PICK d \in Calls : d = hand[2] BY <2>1, AnswerParts
    <2>3. \/ queue' = queue
          \/ queue' = [queue EXCEPT ![d] = Append(@, hand)]
          \/ queue' = [queue EXCEPT ![d] = <<<<"error", d, "overflow">>>>]
      BY <1>3, <2>2 DEF PutFrame
    <2>4. CASE d # c BY <1>0, <1>t, <2>3, <2>4
    <2>5. CASE d = c /\ queue' = [queue EXCEPT ![d] = Append(@, hand)]
      <3>1. queue'[c] = Append(queue[c], hand) /\ queue[c] \in Seq(Answers) BY <1>t, <2>5
      <3>2. queue'[c][k] = hand \/ (k \in 1..Len(queue[c]) /\ queue'[c][k] = queue[c][k])
        BY <2>1, <3>1, PipeHolds
      <3> QED BY <2>0, <2>1, <2>2, <2>5, <3>2
    <2>6. CASE d = c /\ queue' = [queue EXCEPT ![d] = <<<<"error", d, "overflow">>>>]
      <3>1. queue'[c] = <<<<"error", c, "overflow">>>> BY <1>t, <2>6
      <3>2. k = 1 /\ queue'[c][k][3] = "overflow" BY <3>1
      <3> QED BY <3>2
    <2> QED BY <1>0, <2>3, <2>4, <2>5, <2>6
  <1>4. CASE Teardown
    <2>1. queue' = [d \in Calls |-> IF d \in channels THEN <<<<"error", d, "stopped">>>> ELSE queue[d]]
      BY <1>4 DEF Teardown
    <2>2. CASE c \in channels
      <3>1. queue'[c] = <<<<"error", c, "stopped">>>> BY <2>1, <2>2
      <3>2. k = 1 /\ queue'[c][k][3] = "stopped" BY <3>1
      <3> QED BY <3>2
    <2>3. CASE c \notin channels BY <1>0, <2>1, <2>3
    <2> QED BY <2>2, <2>3
  <1>5. ASSUME NEW d \in Calls, Admit(d) PROVE queue' = queue BY <1>5 DEF Admit
  <1>6. CASE Write \/ Yields \/ ReadFrame \/ UNCHANGED <<http, channels, queue, active, hand, lock>>
    <2>1. queue' = queue BY <1>6 DEF Write, Yields, ReadFrame
    <2> QED BY <1>0, <2>1
  <1> QED BY <1>0, <1>1, <1>2, <1>3, <1>4, <1>5, <1>6, ManagerKinds

\* That a request was cancelled is only said of one that was left.
LEMMA CancelledLeftKept ==
  ASSUME McpTypes, OneAtATime, Admitted, Serving, Heard, CancelledLeft, [Next]_vars
  PROVE  CancelledLeft'
  <1>t. /\ \A k \in 1..Len(out) : out[k] \in Frames
        /\ \A k \in 1..Len(fromSup) : fromSup[k] \in Frames
        /\ \A k \in 1..Len(lock) : lock[k] \in Waits
        /\ \A k \in 1..Len(toSup) : toSup[k] \in Waits
        /\ queue \in [Calls -> Seq(Answers)]
        /\ hand \in {<<>>} \cup Answers \cup Overflows
    BY DEF McpTypes
  <1>b. \A c \in Calls : Left(c) => Left(c)' BY LeftStays
  <1>w. \A f \in Waits : f[2] \in Calls BY DEF Waits
  <1>c. \A f \in Frames : Cancelled(f) => f[2] \in Calls
    <2>1. \A f \in Frames : Cancelled(f) => f[1] # "ports" BY DEF Cancelled
    <2> QED BY <2>1, AnswerParts
  <1>1. ASSUME NEW k \in 1..Len(lock'), lock'[k][1] = "mcp_cancel"
        PROVE  \E c \in Calls : lock'[k][2] = c /\ Left(c)'
    <2>1. \/ \E j \in 1..Len(lock) : lock'[k] = lock[j]
          \/ lock'[k][1] = "mcp"
          \/ \E c \in Calls : lock'[k][2] = c /\ Left(c)'
      BY LockComes
    <2>2. ASSUME NEW j \in 1..Len(lock), lock'[k] = lock[j]
          PROVE  \E c \in Calls : lock'[k][2] = c /\ Left(c)'
      <3>1. PICK c \in Calls : c = lock[j][2] BY <1>t, <1>w
      <3>2. Left(c) BY <1>1, <2>2, <3>1 DEF CancelledLeft
      <3> QED BY <1>b, <2>2, <3>1, <3>2
    <2> QED BY <1>1, <2>1, <2>2
  <1>2. ASSUME NEW k \in 1..Len(toSup'), toSup'[k][1] = "mcp_cancel"
        PROVE  \E c \in Calls : toSup'[k][2] = c /\ Left(c)'
    <2>1. PICK f : /\ toSup'[k] = f
                   /\ (\E j \in 1..Len(toSup) : f = toSup[j]) \/ (\E j \in 1..Len(lock) : f = lock[j])
      BY ToSupComes
    <2>2. PICK c \in Calls : c = f[2] BY <1>t, <1>w, <2>1
    <2>3. Left(c) BY <1>2, <2>1, <2>2 DEF CancelledLeft
    <2> QED BY <1>b, <2>1, <2>2, <2>3
  <1>3. ASSUME NEW k \in 1..Len(out'), Cancelled(out'[k])
        PROVE  \E c \in Calls : out'[k][2] = c /\ Left(c)'
    <2>1. Said(out'[k]) \/ \E j \in 1..Len(out) : out'[k] = out[j] BY OutComes
    <2>2. CASE Said(out'[k])
      <3>1. out'[k][2] \in Calls /\ Left(out'[k][2])
        BY <1>3, <2>2 DEF Said, Cancelled
      <3>2. PICK c \in Calls : c = out'[k][2] BY <3>1
      <3> QED BY <1>b, <3>1, <3>2
    <2>3. ASSUME NEW j \in 1..Len(out), out'[k] = out[j]
          PROVE  \E c \in Calls : out'[k][2] = c /\ Left(c)'
      <3>1. Cancelled(out[j]) BY <1>3, <2>3
      <3>2. PICK c \in Calls : c = out[j][2] BY <1>c, <1>t, <3>1
      <3>3. Left(c) BY <3>1, <3>2 DEF CancelledLeft
      <3> QED BY <1>b, <2>3, <3>2, <3>3
    <2> QED BY <2>1, <2>2, <2>3
  <1>4. ASSUME NEW k \in 1..Len(fromSup'), Cancelled(fromSup'[k])
        PROVE  \E c \in Calls : fromSup'[k][2] = c /\ Left(c)'
    <2>1. PICK f : /\ fromSup'[k] = f
                   /\ (\E j \in 1..Len(fromSup) : f = fromSup[j]) \/ (\E j \in 1..Len(out) : f = out[j])
      BY FromSupComes
    <2>2. f \in Frames /\ Cancelled(f) BY <1>4, <1>t, <2>1
    <2>3. PICK c \in Calls : c = f[2] BY <1>c, <2>2
    <2>4. Left(c) BY <2>1, <2>2, <2>3 DEF CancelledLeft
    <2> QED BY <1>b, <2>1, <2>3, <2>4
  <1>5. ASSUME hand' # <<>>, Cancelled(hand')
        PROVE  \E c \in Calls : hand'[2] = c /\ Left(c)'
    <2>1. \/ hand' = hand
          \/ \E j \in 1..Len(fromSup) : fromSup[j][1] # "ports" /\ hand' = fromSup[j]
          \/ hand # <<>> /\ hand' = <<"overflow", hand[2], "">>
      BY <1>5, HandComes
    <2>2. CASE hand' = hand
      <3>1. hand # <<>> /\ Cancelled(hand) BY <1>5, <2>2
      <3>2. PICK c \in Calls : c = hand[2] BY <1>t, <3>1, AnswerParts
      <3>3. Left(c) BY <3>1, <3>2 DEF CancelledLeft
      <3> QED BY <1>b, <2>2, <3>2, <3>3
    <2>3. ASSUME NEW j \in 1..Len(fromSup), hand' = fromSup[j]
          PROVE  \E c \in Calls : hand'[2] = c /\ Left(c)'
      <3>1. Cancelled(fromSup[j]) BY <1>5, <2>3
      <3>2. PICK c \in Calls : c = fromSup[j][2] BY <1>c, <1>t, <3>1
      <3>3. Left(c) BY <3>1, <3>2 DEF CancelledLeft
      <3> QED BY <1>b, <2>3, <3>2, <3>3
    <2>4. CASE hand' = <<"overflow", hand[2], "">>
      <3>1. hand'[1] = "overflow" BY <2>4
      <3> QED BY <1>5, <3>1 DEF Cancelled
    <2> QED BY <2>1, <2>2, <2>3, <2>4
  <1>6. ASSUME NEW c \in Calls, NEW k \in 1..Len(queue'[c]), queue'[c][k][3] = "cancelled"
        PROVE  Left(c)'
    <2>1. \/ \E j \in 1..Len(queue[c]) : queue'[c][k] = queue[c][j]
          \/ queue'[c][k] = hand /\ hand[2] = c /\ hand \in Answers /\ hand # <<>>
      BY <1>6, QueueComes
    <2>2. ASSUME NEW j \in 1..Len(queue[c]), queue'[c][k] = queue[c][j] PROVE Left(c)
      BY <1>6, <2>2 DEF CancelledLeft
    <2>3. ASSUME queue'[c][k] = hand, hand[2] = c, hand \in Answers, hand # <<>> PROVE Left(c)
      <3>1. hand[3] = "cancelled" BY <1>6, <2>3
      <3>2. Cancelled(hand) BY <2>3, <3>1, AnswerParts DEF Cancelled
      <3>3. Left(hand[2]) BY <2>3, <3>2 DEF CancelledLeft
      <3> QED BY <2>3, <3>3
    <2>4. Left(c) BY <2>1, <2>2, <2>3
    <2> QED BY <1>b, <2>4
  <1>7. ASSUME NEW c \in Calls, Left(c)'
        PROVE  c \notin channels' /\ http'[c] \in {"await", "ended"}
    BY <1>7 DEF Left, Begun
  <1>8. /\ \A k \in 1..Len(lock') : lock'[k][1] = "mcp_cancel" =>
             lock'[k][2] \notin channels' /\ http'[lock'[k][2]] \in {"await", "ended"}
        /\ \A k \in 1..Len(toSup') : toSup'[k][1] = "mcp_cancel" =>
             toSup'[k][2] \notin channels' /\ http'[toSup'[k][2]] \in {"await", "ended"}
    BY <1>1, <1>2, <1>7
  <1>9. /\ \A k \in 1..Len(out') : Cancelled(out'[k]) =>
             out'[k][2] \notin channels' /\ http'[out'[k][2]] \in {"await", "ended"}
        /\ \A k \in 1..Len(fromSup') : Cancelled(fromSup'[k]) =>
             fromSup'[k][2] \notin channels' /\ http'[fromSup'[k][2]] \in {"await", "ended"}
    BY <1>3, <1>4, <1>7
  <1>10. hand' # <<>> /\ Cancelled(hand') =>
           hand'[2] \notin channels' /\ http'[hand'[2]] \in {"await", "ended"}
    BY <1>5, <1>7
  <1> QED BY <1>6, <1>8, <1>9, <1>10 DEF CancelledLeft, Left, Begun, Cancelled

\* A supervisor that has given up writes nothing more.
LEMMA GivingUp ==
  ASSUME [Next]_vars
  PROVE  \/ died' = died /\ (died = "no" \/ barrier' = barrier)
         \/ Teardown \/ \E why \in Causes : ReapFails(why)
  <1> DEFINE Goal == \/ died' = died /\ (died = "no" \/ barrier' = barrier)
                     \/ Teardown \/ \E why \in Causes : ReapFails(why)
  <1>1. ASSUME NEW c \in Calls, \/ Admit(c) \/ GiveUp(c) \/ TakeData(c) \/ TakeEnd(c) \/ TakeError(c)
        PROVE  UNCHANGED <<died, barrier>>
    BY <1>1 DEF Admit, GiveUp, TakeData, TakeEnd, TakeError, Finish
  <1>2. ASSUME NEW c \in Calls, \/ CallStarts(c) \/ CallForwards(c) \/ CallWaits(c) \/ Cancel(c)
        PROVE  died' = died /\ died = "no"
    BY <1>2 DEF CallStarts, CallForwards, CallWaits, Cancel, Receives, Alive
  <1>3. ASSUME Write \/ WriteFails \/ ReadPorts \/ ReadFrame \/ PutFrame \/ Retire \/ Stop
        PROVE  UNCHANGED <<died, barrier>>
    BY <1>3 DEF Write, WriteFails, Finish, ReadPorts, ReadFrame, PutFrame, Retire, Stop
  <1>4. ASSUME \/ ChildAnswers \/ ChildFails \/ TimeOut \/ NoticeExit \/ StartWaiting \/ EmitData
               \/ EmitEnd \/ Reap \/ ReportPorts
        PROVE  died' = died /\ died = "no"
    BY <1>4 DEF ChildAnswers, ChildFails, TimeOut, NoticeExit, StartWaiting, EmitData, EmitEnd,
                Reap, ReportPorts, Refreshes, Alive
  <1>5. ASSUME Flush PROVE died' = died /\ died = "no" BY <1>5 DEF Flush, Alive
  <1>6. ASSUME ChildEnds \/ UNCHANGED vars PROVE UNCHANGED <<died, barrier>>
    BY <1>6 DEF ChildEnds, vars
  <1> QED BY <1>1, <1>2, <1>3, <1>4, <1>5, <1>6, McpStep, Zenon

\* A place of a pipe is at most its length.
LEMMA InBounds == \A n \in Nat : \A k \in 1..n : k <= n
  OBVIOUS

\* Retirement awaits every answer that goes before it.
LEMMA AwaitedKept ==
  ASSUME McpTypes, OneAtATime, Serving, Awaited, [Next]_vars
  PROVE  Awaited'
  <1> DEFINE Kept == \A k \in 1..Len(out') : Captured(out'[k]) => k <= barrier'
  <1>t. out \in Seq(Frames) /\ Len(out) \in Nat /\ barrier \in Nat BY DEF McpTypes
  <1>0. ASSUME UNCHANGED <<out, barrier>> PROVE Kept BY <1>0 DEF Awaited
  <1>1. ASSUME NEW e \in Frames, ~Captured(e), out' = Append(out, e), barrier' = barrier PROVE Kept
    <2>1. \A k \in 1..Len(out') : out'[k] = e \/ (k \in 1..Len(out) /\ out'[k] = out[k])
      BY <1>1, <1>t, PipeHolds
    <2> QED BY <1>1, <2>1 DEF Awaited
  <1>2. ASSUME NEW why \in Details, Resets(why) PROVE Kept
    <2>1. CASE id = None BY <1>0, <1>2, <2>1 DEF Resets
    <2>2. CASE id # None
      <3>1. <<"error", id, why>> \in Frames /\ ~Captured(<<"error", id, why>>)
        BY <2>2 DEF McpTypes, Frames, Answers, Captured
      <3> QED BY <1>1, <1>2, <2>2, <3>1 DEF Resets
    <2> QED BY <2>1, <2>2
  <1>3. ASSUME NEW c \in Calls, Serves(c) PROVE Kept BY <1>0, <1>3 DEF Serves, Takes
  <1>4. ASSUME NEW c \in Calls, Refuses(c) PROVE Kept
    <2>1. <<"error", c, "startup failed">> \in Frames /\ ~Captured(<<"error", c, "startup failed">>)
      BY DEF Frames, Answers, Details, Captured
    <2> QED BY <1>1, <1>4, <2>1 DEF Refuses, Takes
  <1>5. ASSUME NEW c \in Calls, Withdraws(c) PROVE Kept
    <2>1. Resets("cancelled") \/ UNCHANGED <<out, barrier>> BY <1>5 DEF Withdraws
    <2>2. "cancelled" \in Details BY DEF Details
    <2> QED BY <1>0, <1>2, <2>1, <2>2
  <1>6. ASSUME NEW why \in Details, Fails(why) PROVE Kept BY <1>2, <1>6 DEF Fails
  <1>7. ASSUME NEW f \in Frames, Emits(f) PROVE Kept
    <2>1. f[1] = "ports" \/ (id # None /\ f = <<"mcp_data", id, "">>) BY <1>7 DEF Emits
    <2>2. ~Captured(f)
      <3>1. <<"mcp_data", id, "">>[1] = "mcp_data" OBVIOUS
      <3> QED BY <2>1, <3>1, Zenon DEF Captured
    <2> QED BY <1>1, <1>7, <2>2 DEF Emits
  <1>8. ASSUME NEW how \in {"", "retired"}, Completes(how) PROVE Kept
    <2>1. CASE how = "retired"
      <3>1. barrier' = Len(out') BY <1>8, <2>1 DEF Completes
      <3>2. out' \in Seq(Frames)
        <4>1. Supervises BY <1>8 DEF Supervises
        <4> QED BY <4>1, SupervisesTypes DEF SupervisorTypes
      <3>3. Len(out') \in Nat BY <3>2, LenProperties
      <3>5. \A k \in 1..Len(out') : k <= Len(out') BY <3>3, InBounds
      <3> QED BY <3>1, <3>5
    <2>2. CASE how = ""
      <3> DEFINE d == <<"mcp_data", id, "">>
                 e == <<"mcp_end", id, "">>
      <3>1. id # None /\ out' = Append(Append(out, d), e) /\ barrier' = barrier
        BY <1>8, <2>2 DEF Completes
      <3>2. d \in Frames /\ ~Captured(d) /\ e \in Frames /\ ~Captured(e)
        BY <3>1 DEF McpTypes, Frames, Answers, Captured
      <3> HIDE DEF d, e
      <3>3. \A k \in 1..Len(out') :
              out'[k] = d \/ out'[k] = e \/ (k \in 1..Len(out) /\ out'[k] = out[k])
        BY <1>t, <3>1, <3>2, OutTwo
      <3> QED BY <3>1, <3>2, <3>3 DEF Awaited
    <2> QED BY <1>8, <2>1, <2>2 DEF Completes
  <1>9. ASSUME Supervises PROVE Kept
    BY <1>3, <1>4, <1>5, <1>6, <1>7, <1>8, <1>9 DEF Supervises
  <1>10. ASSUME Flush PROVE Kept
    <2>1. out # <<>> /\ out' = Tail(out) /\ barrier' = IF barrier > 0 THEN barrier - 1 ELSE 0
      BY <1>10 DEF Flush
    <2>2. /\ Len(out') = Len(out) - 1
          /\ \A k \in 1..(Len(out) - 1) : out'[k] = out[k + 1]
      BY <1>t, <2>1, HeadTailProperties
    <2>3. ASSUME NEW k \in 1..Len(out'), Captured(out'[k]) PROVE k <= barrier'
      <3>1. k \in Nat /\ k + 1 \in 1..Len(out) /\ out'[k] = out[k + 1] BY <1>t, <2>2
      <3>2. k + 1 <= barrier BY <2>3, <3>1 DEF Awaited
      <3> QED BY <1>t, <2>1, <3>1, <3>2
    <2> QED BY <2>3
  <1>11. ASSUME Idles \/ Write \/ ReadPorts \/ ReadFrame PROVE Kept
    <2>1. UNCHANGED <<out, barrier>> BY <1>11 DEF Idles, Write, ReadPorts, ReadFrame
    <2> QED BY <1>0, <2>1
  <1>12. ASSUME Teardown PROVE Kept
    <2>1. out' = <<>> BY <1>12 DEF Teardown
    <2> QED BY <2>1, PipeEmpty
  <1>13. Kept BY <1>9, <1>10, <1>11, <1>12, SupervisorKinds
  <1>14. died' \in {"teardown", "unconfirmed", "home"} => barrier' = 0
    <2>1. CASE died' = died /\ (died = "no" \/ barrier' = barrier) BY <2>1 DEF Awaited
    <2>2. CASE Teardown BY <2>2 DEF Teardown
    <2>3. ASSUME NEW why \in Causes, ReapFails(why)
          PROVE  died' \in {"teardown", "unconfirmed", "home"} => barrier' = 0
      BY <2>3 DEF ReapFails
    <2> QED BY <2>1, <2>2, <2>3, GivingUp
  <1> QED BY <1>13, <1>14 DEF Awaited
-----------------------------------------------------------------------------
(* Theorems *)

\* A runtime starts without a browser.
LEMMA McpStarts ==
  ASSUME Init
  PROVE  McpInv
  <1> USE DEF Init
  <1>1. McpTypes BY DEF McpTypes, Causes
  <1>2. OneAtATime /\ Admitted BY PipeEmpty DEF OneAtATime, Admitted
  <1>3. Heard BY PipeEmpty DEF Heard
  <1>4. CancelledLeft BY PipeEmpty DEF CancelledLeft
  <1>5. Awaited /\ Serving BY PipeEmpty DEF Awaited, Serving
  <1> QED BY <1>1, <1>2, <1>3, <1>4, <1>5 DEF McpInv

\* The invariant is inductive.
LEMMA McpSteps ==
  ASSUME McpInv, [Next]_vars
  PROVE  McpInv'
  <1> USE DEF McpInv
  <1>1. McpTypes' BY McpTypesKept
  <1>2. OneAtATime' BY OneKept
  <1>3. Admitted' BY AdmittedKept
  <1>4. Heard' BY HeardKept
  <1>5. CancelledLeft' BY CancelledLeftKept
  <1>6. Awaited' BY AwaitedKept
  <1>7. Serving' BY StatusesKept
  <1> QED BY <1>1, <1>2, <1>3, <1>4, <1>5, <1>6, <1>7

\* The invariant holds of every behaviour of a runtime's browser.
THEOREM McpInvariance == Spec => []McpInv
  <1>1. Init => McpInv BY McpAssumption, McpStarts
  <1>2. McpInv /\ [Next]_vars => McpInv' BY McpAssumption, McpSteps
  <1> QED BY <1>1, <1>2, PTL DEF Spec

\* Agreement: a request that the manager admits (409 otherwise) finds the
\* supervisor free, for any callers and however late either learns of an end.
THEOREM AdmittedAreServed == Spec => []AdmittedIsServed
  <1>1. McpInv => AdmittedIsServed
    <2> SUFFICES ASSUME McpInv PROVE AdmittedIsServed OBVIOUS
    <2>1. InFlight = Asks(toSup) BY DEF InFlight, Asks
    <2>2. CASE Asks(toSup) = {}
      <3>1. Cardinality(InFlight) = 0 BY <2>1, <2>2, FS_EmptySet
      <3> QED BY <2>1, <2>2, <3>1 DEF AdmittedIsServed
    <2>3. ASSUME NEW k \in Asks(toSup) PROVE AdmittedIsServed
      <3>1. /\ toSup[k][2] = active /\ id = None /\ \A j \in Asks(toSup) : j = k
        BY DEF McpInv, OneAtATime
      <3>2. InFlight = {k} BY <2>1, <3>1
      <3>3. Cardinality(InFlight) = 1 BY <3>2, FS_Singleton
      <3>4. toSup[k] \in Waits BY DEF McpInv, McpTypes, Asks
      <3>5. active \in Calls BY <3>1, <3>4 DEF Waits
      <3> QED BY <3>1, <3>3, <3>5 DEF AdmittedIsServed
    <2> QED BY <2>2, <2>3
  <1> QED BY <1>1, McpInvariance, PTL

\* "A teardown/cleanup failure must not truncate an already captured close or
\* tool-error response" (mcp_transport.py:399-400).
THEOREM CapturedAreWritten == Spec => []CapturedIsWritten
  <1>1. McpInv => CapturedIsWritten
    <2> SUFFICES ASSUME McpInv, died \in {"teardown", "unconfirmed", "home"}, NEW f \in ToSet(out)
                 PROVE  ~(f[1] = "mcp_end" /\ f[3] = "retired")
      BY DEF CapturedIsWritten
    <2>1. out \in Seq(Frames) BY DEF McpInv, McpTypes
    <2>2. PICK k \in 1..Len(out) : f = out[k] BY <2>1 DEF ToSet
    <2>3. Captured(f) => k <= barrier BY <2>2 DEF McpInv, Awaited
    <2>4. barrier = 0 BY DEF McpInv, Awaited
    <2>5. ~Captured(f) BY <2>2, <2>3, <2>4
    <2> QED BY <2>5 DEF Captured
  <1> QED BY <1>1, McpInvariance, PTL

\* A caller that still waits never learns that its request was cancelled,
\* however late the cancel of an earlier one comes.
THEOREM CancelsAreOwn == Spec => []CancelsOnlyOwn
  <1>1. McpInv => CancelsOnlyOwn
    <2> SUFFICES ASSUME McpInv PROVE CancelsOnlyOwn OBVIOUS
    <2>1. hand # <<>> /\ Cancelled(hand) => hand[2] \notin channels
      BY DEF McpInv, CancelledLeft, Left
    <2>2. ASSUME NEW c \in channels, NEW f \in ToSet(queue[c]) PROVE f[3] # "cancelled"
      <3>1. c \in Calls BY DEF McpInv, McpTypes
      <3>2. queue[c] \in Seq(Answers) BY <3>1 DEF McpInv, McpTypes
      <3>3. PICK k \in 1..Len(queue[c]) : f = queue[c][k] BY <3>2 DEF ToSet
      <3> QED BY <3>1, <3>3 DEF McpInv, CancelledLeft, Left
    <2> QED BY <2>1, <2>2 DEF CancelsOnlyOwn, Cancelled
  <1> QED BY <1>1, McpInvariance, PTL
=============================================================================
