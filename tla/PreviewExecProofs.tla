------------------------- MODULE PreviewExecProofs --------------------------
(***************************************************************************)
(* Proofs about shell calls: no output is lost before an exit status, a    *)
(* runtime that is stopped as idle is idle, and the window of credits is   *)
(* never exceeded.                                                         *)
(***************************************************************************)
EXTENDS PreviewExecProperties, SequenceTheorems, FiniteSetTheorems, FunctionTheorems, TLAPS

USE DEF handlerVars, runtimeVars, idleVars, supVars, workVars
-----------------------------------------------------------------------------
(* Counting *)

\* How often a frame is in a pipe.
Count(s, f) == Cardinality({i \in 1..Len(s) : s[i] = f})

\* The places where it is are finitely many.
LEMMA PlacesFinite ==
  ASSUME NEW n \in Nat, NEW places \in SUBSET (1..n)
  PROVE  IsFiniteSet(places) /\ Cardinality(places) \in Nat
  <1>1. IsFiniteSet(1..n) BY FS_Interval
  <1>2. IsFiniteSet(places) BY <1>1, FS_Subset
  <1> QED BY <1>2, FS_CardinalityType

\* A frame is counted when it is in.
LEMMA CountType ==
  ASSUME NEW S, NEW s \in Seq(S), NEW f
  PROVE  /\ Count(s, f) \in Nat
         /\ Count(s, f) = 0 <=> \A i \in 1..Len(s) : s[i] # f
  <1> DEFINE at == {i \in 1..Len(s) : s[i] = f}
  <1>1. Len(s) \in Nat OBVIOUS
  <1>2. IsFiniteSet(at) BY <1>1, PlacesFinite
  <1>3. Cardinality(at) \in Nat BY <1>1, PlacesFinite
  <1>4. Cardinality(at) = 0 <=> at = {} BY <1>2, FS_EmptySet
  <1> QED BY <1>3, <1>4 DEF Count

\* What is appended is counted once.
LEMMA CountAppend ==
  ASSUME NEW S, NEW s \in Seq(S), NEW e \in S, NEW f
  PROVE  Count(Append(s, e), f) = Count(s, f) + (IF e = f THEN 1 ELSE 0)
  <1> DEFINE at == {i \in 1..Len(s) : s[i] = f}
             new == {i \in 1..Len(Append(s, e)) : Append(s, e)[i] = f}
  <1>1. /\ Len(s) \in Nat /\ Len(Append(s, e)) = Len(s) + 1
        /\ \A i \in 1..Len(s) : Append(s, e)[i] = s[i]
        /\ Append(s, e)[Len(s) + 1] = e
    BY AppendProperties
  <1>2. IsFiniteSet(at) /\ Cardinality(at) \in Nat BY <1>1, PlacesFinite
  <1>3. new = IF e = f THEN at \cup {Len(s) + 1} ELSE at BY <1>1
  <1>4. Len(s) + 1 \notin at BY <1>1
  <1>5. Cardinality(at \cup {Len(s) + 1}) = Cardinality(at) + 1 BY <1>2, <1>4, FS_AddElement
  <1> HIDE DEF at, new
  <1>6. Cardinality(new) = Cardinality(at) + (IF e = f THEN 1 ELSE 0) BY <1>2, <1>3, <1>5
  <1> QED BY <1>6 DEF Count, at, new

\* What is taken from the front is not counted any more.
LEMMA CountTail ==
  ASSUME NEW S, NEW s \in Seq(S), s # <<>>, NEW f
  PROVE  Count(s, f) = Count(Tail(s), f) + (IF Head(s) = f THEN 1 ELSE 0)
  <1> DEFINE at == {i \in 1..Len(s) : s[i] = f}
             rest == {i \in 1..Len(Tail(s)) : Tail(s)[i] = f}
             move == [i \in rest |-> i + 1]
  <1>1. /\ Len(s) \in Nat \ {0} /\ Len(Tail(s)) = Len(s) - 1 /\ Head(s) = s[1]
        /\ \A i \in 1..(Len(s) - 1) : Tail(s)[i] = s[i + 1]
    BY HeadTailProperties
  <1>2. IsFiniteSet(at) /\ IsFiniteSet(rest) /\ Cardinality(at) \in Nat
    <2>1. Len(s) - 1 \in Nat /\ rest \in SUBSET (1..(Len(s) - 1)) BY <1>1
    <2>2. at \in SUBSET (1..Len(s)) OBVIOUS
    <2> QED BY <1>1, <2>1, <2>2, PlacesFinite
  <1>3. move \in Bijection(rest, at \ {1})
    <2>1. move \in [rest -> at \ {1}] BY <1>1
    <2>2. \A i, j \in rest : move[i] = move[j] => i = j BY <1>1
    <2>3. \A k \in at \ {1} : \E i \in rest : move[i] = k
      <3> SUFFICES ASSUME NEW k \in at \ {1} PROVE \E i \in rest : move[i] = k OBVIOUS
      <3>1. k - 1 \in rest /\ move[k - 1] = k BY <1>1
      <3> QED BY <3>1
    <2> QED BY <2>1, <2>2, <2>3, Fun_IsBij
  <1>4. ExistsBijection(rest, at \ {1}) BY <1>3 DEF ExistsBijection
  <1>5. 1 \in at <=> Head(s) = f BY <1>1
  <1> HIDE DEF at, rest, move
  <1>6. Cardinality(at \ {1}) = Cardinality(rest) BY <1>2, <1>4, FS_Bijection
  <1>7. Cardinality(at \ {1}) = IF 1 \in at THEN Cardinality(at) - 1 ELSE Cardinality(at)
    BY <1>2, FS_RemoveElement
  <1>8. Cardinality(at) = Cardinality(rest) + (IF Head(s) = f THEN 1 ELSE 0)
    BY <1>2, <1>5, <1>6, <1>7
  <1> QED BY <1>8 DEF Count, at, rest
-----------------------------------------------------------------------------
(* The inductive invariant *)

Answers(c) == {"data", "exit", "error"} \X {c}
Frames == {"data", "exit", "error"} \X Calls
Reports == Frames \cup ({"ports"} \X BOOLEAN)
Requests == {"exec", "credit", "cancel"} \X Calls
Failed(c) == <<<<"error", c>>>>
NothingRuns == <<"ports", FALSE>>

Types ==
  /\ http \in [Calls -> {"new", "prepare", "await", "written", "cancel", "ended"}]
  /\ result \in [Calls -> {"none", "refused", "left", "error", "exit"}]
  /\ got \in [Calls -> Nat] /\ made \in [Calls -> Nat]
  /\ buf \in [Calls -> Nat] /\ credits \in [Calls -> Nat]
  /\ channels \subseteq Calls /\ active \subseteq Calls /\ commands \subseteq Calls
  /\ discard \subseteq commands /\ running \subseteq commands /\ children \subseteq Calls
  /\ exited \subseteq commands \ running /\ remaining \in [Calls -> Nat]
  /\ \A c \in exited : remaining[c] <= buf[c]
  /\ stopped \in {"no", "idle", "other", "failed", "done"}
  /\ fresh \in BOOLEAN /\ counted \in BOOLEAN /\ idle \in BOOLEAN

Piped ==
  /\ queue \in [Calls -> Seq(Frames)]
  /\ \A c \in Calls : \A i \in 1..Len(queue[c]) : queue[c][i][2] = c
  /\ hand \in Frames \cup {<<>>}
  /\ fromSup \in Seq(Reports) /\ toSup \in Seq(Requests)

\* The teardown has come to the channels.
ChannelsFailed == stopped \in {"failed", "done"}

\* Who has no channel, and everybody after a teardown, is given an error at most.
Calling ==
  /\ \A c \in channels : http[c] \in {"prepare", "await", "written"}
  /\ \A c \in Calls : c \notin channels \/ ChannelsFailed => queue[c] \in {<<>>, Failed(c)}
  /\ hand # <<>> => hand[2] \in channels \/ http[hand[2]] \in {"cancel", "ended"}
  /\ \A c \in Calls : result[c] = "exit" => http[c] = "ended"
  /\ ChannelsFailed => hand = <<>>
  /\ stopped = "done" => toSup = <<>> /\ fromSup = <<>> /\ commands = {} /\ children = {}

Sent(c) == \E i \in 1..Len(toSup) : toSup[i] = <<"exec", c>>

\* Nothing of a call is in the supervisor, nor comes from it.
Unknown(c) ==
  /\ c \notin commands \cup children /\ made[c] = 0 /\ buf[c] = 0 /\ got[c] = 0
  /\ queue[c] \in {<<>>, Failed(c)} /\ (hand = <<>> \/ hand[2] # c)
  /\ \A i \in 1..Len(fromSup) : fromSup[i] \notin Answers(c)

\* A call is unknown until its exec has arrived, which is the first of its
\* frames; only a cancel follows it before.
Unsent ==
  \A c \in Calls : http[c] \in {"new", "prepare"} =>
    /\ Unknown(c) /\ c \notin active /\ \A i \in 1..Len(toSup) : toSup[i][2] # c

OnItsWay ==
  \A c \in Calls : Sent(c) => Unknown(c) /\ c \in active /\ http[c] # "written"

ExecFirst ==
  \A i, j \in 1..Len(toSup) : toSup[i][1] = "exec" /\ toSup[j][2] = toSup[i][2] =>
    i = j \/ (i < j /\ toSup[j][1] = "cancel")

\* What the supervisor runs has a slot, until the end of it is read.  The first
\* end that is told of a command is its exit.
Slots ==
  /\ commands \subseteq active
  /\ \A q \in 1..Len(fromSup) :
       /\ fromSup[q][1] \in {"exit", "error"} => fromSup[q][2] \notin commands
       /\ fromSup[q][1] = "exit" =>
            /\ fromSup[q][2] \in active
            /\ \A p \in 1..(q - 1) :
                 fromSup[p][1] \in {"exit", "error"} => fromSup[p][2] # fromSup[q][2]

\* After a heartbeat that found nothing, the exit of a command is yet to come
\* if it has left processes behind.
Heartbeat ==
  /\ \A p \in 1..Len(fromSup) : fromSup[p] = NothingRuns =>
       \A c \in children : c \in commands \/ \E q \in (p + 1)..Len(fromSup) : fromSup[q] = <<"exit", c>>
  /\ fresh /\ ~counted => children \subseteq active

\* Credits on their way, and data: in the pipe, in hand, in the queue, and
\* written to the caller with the credit yet to send.
CreditsSent(c) == Count(toSup, <<"credit", c>>)
DataRead(c)    == Count(fromSup, <<"data", c>>)
DataInHand(c)  == IF hand = <<"data", c>> THEN 1 ELSE 0
DataQueued(c)  == Count(queue[c], <<"data", c>>)
DataWritten(c) == IF http[c] = "written" THEN 1 ELSE 0

\* The window: every chunk between the supervisor and the caller has used a
\* credit that is not yet back.
Window ==
  \A c \in Calls :
    credits[c] + CreditsSent(c) + DataRead(c) + DataInHand(c) + DataQueued(c) + DataWritten(c)
      <= QueueSize - 1

\* What the command of a call with a channel has written is somewhere.
Complete ==
  \A c \in channels :
    /\ c \notin discard /\ \A i \in 1..Len(toSup) : toSup[i] # <<"cancel", c>>
    /\ ~ChannelsFailed => made[c] = got[c] + DataQueued(c) + DataInHand(c) + DataRead(c) + Queued(c)

\* No data comes after an exit.
Silent(c) == c \notin commands /\ buf[c] = 0 /\ ~Sent(c)

\* No data of a call is to be read.
NoData(c) == \A q \in 1..Len(fromSup) : fromSup[q] # <<"data", c>>

ExitLast ==
  \A c \in Calls :
    /\ \A p \in 1..Len(fromSup) : fromSup[p] = <<"exit", c>> =>
         Silent(c) /\ \A q \in (p + 1)..Len(fromSup) : fromSup[q] # <<"data", c>>
    /\ hand = <<"exit", c>> => Silent(c) /\ NoData(c)
    /\ \A p \in 1..Len(queue[c]) : queue[c][p] = <<"exit", c>> =>
         /\ Silent(c) /\ NoData(c) /\ hand # <<"data", c>>
         /\ \A q \in (p + 1)..Len(queue[c]) : queue[c][q] # <<"data", c>>

Given == \A c \in Calls : result[c] = "exit" => got[c] = made[c] /\ Silent(c)

IInv ==
  /\ Types /\ Piped /\ Calling /\ Unsent /\ OnItsWay /\ ExecFirst /\ Slots /\ Heartbeat
  /\ Window /\ Complete /\ ExitLast /\ Given /\ IdleIsEmpty
-----------------------------------------------------------------------------
(* Steps *)

\* A step is a step of one of these actions.
LEMMA StepCases ==
  ASSUME [Next]_vars
  PROVE  \/ \E c \in Calls :
              \/ Admit(c) \/ SendExec(c) \/ TakeData(c) \/ SendCredit(c) \/ TakeExit(c)
              \/ TakeError(c) \/ SendCancel(c) \/ Leave(c)
              \/ Kill(c) \/ PollExit(c) \/ ReadPipe(c) \/ ReportExit(c)
              \/ Write(c) \/ End(c) \/ ChildrenEnd(c)
         \/ ReadPorts \/ ReadFrame \/ PutFrame \/ Retire \/ Stop \/ FailChannels \/ KillAll
         \/ SupExec \/ SupCredit \/ SupCancel \/ ReportPorts \/ UNCHANGED vars
  BY DEF Next, Handler, Supervisor

\* A frame is written to the supervisor, and read by it.
LEMMA Sending ==
  ASSUME Piped, NEW f \in Requests, toSup' = Append(toSup, f)
  PROVE  /\ toSup' \in Seq(Requests) /\ Len(toSup) \in Nat /\ Len(toSup') = Len(toSup) + 1
         /\ \A i \in 1..Len(toSup) : toSup'[i] = toSup[i]
         /\ toSup'[Len(toSup) + 1] = f
         /\ \A g : Count(toSup', g) = Count(toSup, g) + (IF f = g THEN 1 ELSE 0)
  BY AppendProperties, CountAppend DEF Piped

LEMMA Receiving ==
  ASSUME Piped, toSup # <<>>, toSup' = Tail(toSup)
  PROVE  /\ toSup' \in Seq(Requests) /\ Len(toSup) \in Nat \ {0} /\ Len(toSup') = Len(toSup) - 1
         /\ Head(toSup) = toSup[1] /\ toSup[1] \in Requests
         /\ \A i \in 1..Len(toSup') : toSup'[i] = toSup[i + 1]
         /\ \A g : Count(toSup, g) = Count(toSup', g) + (IF Head(toSup) = g THEN 1 ELSE 0)
  BY HeadTailProperties, CountTail DEF Piped

\* A frame is written by the supervisor, and read by the manager.
LEMMA Emitting ==
  ASSUME Piped, NEW f \in Reports, fromSup' = Append(fromSup, f)
  PROVE  /\ fromSup' \in Seq(Reports) /\ Len(fromSup) \in Nat /\ Len(fromSup') = Len(fromSup) + 1
         /\ \A i \in 1..Len(fromSup) : fromSup'[i] = fromSup[i]
         /\ fromSup'[Len(fromSup) + 1] = f
         /\ \A g : Count(fromSup', g) = Count(fromSup, g) + (IF f = g THEN 1 ELSE 0)
  BY AppendProperties, CountAppend DEF Piped

LEMMA Reading ==
  ASSUME Piped, fromSup # <<>>, fromSup' = Tail(fromSup)
  PROVE  /\ fromSup' \in Seq(Reports) /\ Len(fromSup) \in Nat \ {0} /\ Len(fromSup') = Len(fromSup) - 1
         /\ Head(fromSup) = fromSup[1] /\ fromSup[1] \in Reports
         /\ \A i \in 1..Len(fromSup') : fromSup'[i] = fromSup[i + 1]
         /\ \A g : Count(fromSup, g) = Count(fromSup', g) + (IF Head(fromSup) = g THEN 1 ELSE 0)
  BY HeadTailProperties, CountTail DEF Piped

\* A frame is put into the queue of a call, and taken from it.
LEMMA Putting ==
  ASSUME Piped, NEW c \in Calls, NEW f \in Frames, f[2] = c,
         queue' = [queue EXCEPT ![c] = Append(@, f)]
  PROVE  /\ queue' \in [Calls -> Seq(Frames)] /\ Len(queue[c]) \in Nat
         /\ Len(queue'[c]) = Len(queue[c]) + 1
         /\ \A i \in 1..Len(queue[c]) : queue'[c][i] = queue[c][i]
         /\ queue'[c][Len(queue[c]) + 1] = f
         /\ \A d \in Calls \ {c} : queue'[d] = queue[d]
         /\ \A g : Count(queue'[c], g) = Count(queue[c], g) + (IF f = g THEN 1 ELSE 0)
  BY AppendProperties, CountAppend DEF Piped

LEMMA Taking ==
  ASSUME Piped, NEW c \in Calls, queue[c] # <<>>, queue' = [queue EXCEPT ![c] = Tail(@)]
  PROVE  /\ queue' \in [Calls -> Seq(Frames)] /\ Len(queue[c]) \in Nat \ {0}
         /\ Len(queue'[c]) = Len(queue[c]) - 1
         /\ Head(queue[c]) = queue[c][1] /\ queue[c][1] \in Frames
         /\ \A i \in 1..Len(queue'[c]) : queue'[c][i] = queue[c][i + 1]
         /\ \A d \in Calls \ {c} : queue'[d] = queue[d]
         /\ \A g : Count(queue[c], g) = Count(queue'[c], g) + (IF Head(queue[c]) = g THEN 1 ELSE 0)
  BY HeadTailProperties, CountTail DEF Piped

\* A frame of the queue is for its call.
LEMMA QueueHead ==
  ASSUME Piped, NEW c \in Calls, queue[c] # <<>>
  PROVE  Len(queue[c]) \in Nat \ {0} /\ Head(queue[c]) = queue[c][1] /\ queue[c][1] \in Answers(c)
  BY HeadTailProperties DEF Piped, Frames, Answers

\* Counts are numbers; nothing is in what is empty.
LEMMA Counts ==
  ASSUME Piped
  PROVE  /\ \A f : Count(toSup, f) \in Nat /\ Count(fromSup, f) \in Nat
         /\ \A f : Count(toSup, f) = 0 <=> \A i \in 1..Len(toSup) : toSup[i] # f
         /\ \A f : Count(fromSup, f) = 0 <=> \A i \in 1..Len(fromSup) : fromSup[i] # f
         /\ \A c \in Calls : \A f : Count(queue[c], f) \in Nat
         /\ \A c \in Calls : \A f : Count(queue[c], f) = 0 <=> \A i \in 1..Len(queue[c]) : queue[c][i] # f
  BY CountType DEF Piped
LEMMA CountNone ==
  ASSUME NEW c \in Calls
  PROVE  /\ \A f : Count(<<>>, f) = 0
         /\ Failed(c) \in Seq(Frames) /\ Len(Failed(c)) = 1
         /\ \A i \in 1..Len(Failed(c)) : Failed(c)[i] = <<"error", c>> /\ Failed(c)[i][2] = c
         /\ Count(Failed(c), <<"data", c>>) = 0
  <1>1. Failed(c) \in Seq(Frames) /\ Len(Failed(c)) = 1 /\ Failed(c)[1] = <<"error", c>>
    BY DEF Failed, Frames
  <1>2. <<>> \in Seq(Frames) /\ Len(<<>>) = 0 OBVIOUS
  <1>3. ASSUME NEW f PROVE Count(<<>>, f) = 0
    <2>1. \A i \in 1..Len(<<>>) : <<>>[i] # f BY <1>2
    <2> QED BY <1>2, <2>1, CountType
  <1>4. Count(Failed(c), <<"data", c>>) = 0 BY <1>1, CountType
  <1> QED BY <1>1, <1>3, <1>4

\* A frame is an event and a call.
LEMMA Pairs ==
  ASSUME Piped
  PROVE  /\ \A i \in 1..Len(toSup) :
              /\ toSup[i] = <<toSup[i][1], toSup[i][2]>> /\ toSup[i][2] \in Calls
              /\ toSup[i][1] \in {"exec", "credit", "cancel"}
         /\ \A i \in 1..Len(fromSup) : fromSup[i][1] # "ports" =>
              /\ fromSup[i] = <<fromSup[i][1], fromSup[i][2]>> /\ fromSup[i][2] \in Calls
              /\ fromSup[i][1] \in {"data", "exit", "error"}
         /\ hand # <<>> => hand = <<hand[1], hand[2]>> /\ hand[2] \in Calls
         /\ \A c \in Calls : \A i \in 1..Len(queue[c]) :
              queue[c][i] = <<queue[c][i][1], c>> /\ queue[c][i][1] \in {"data", "exit", "error"}
  <1>1. \A i \in 1..Len(toSup) : toSup[i] \in Requests BY DEF Piped
  <1>2. \A i \in 1..Len(fromSup) : fromSup[i][1] # "ports" => fromSup[i] \in Frames
    BY DEF Piped, Reports
  <1>3. \A c \in Calls : \A i \in 1..Len(queue[c]) : queue[c][i] \in Frames /\ queue[c][i][2] = c
    BY DEF Piped
  <1> QED BY <1>1, <1>2, <1>3 DEF Piped, Requests, Frames
-----------------------------------------------------------------------------
(* Every step keeps the invariant: types *)

LEMMA TypesStep ==
  ASSUME Types, Piped, [Next]_vars
  PROVE  Types'
  <1> USE DEF Types
  <1>1. ASSUME NEW c \in Calls, Admit(c) PROVE Types' BY <1>1 DEF Admit, Activity
  <1>2. ASSUME NEW c \in Calls, SendExec(c) PROVE Types' BY <1>2 DEF SendExec, Activity
  <1>3. ASSUME NEW c \in Calls, TakeData(c) PROVE Types' BY <1>3 DEF TakeData
  <1>4. ASSUME NEW c \in Calls, SendCredit(c) \/ SendCancel(c) PROVE Types'
    BY <1>4 DEF SendCredit, SendCancel
  <1>5. ASSUME NEW c \in Calls, TakeExit(c) PROVE Types' BY <1>5 DEF TakeExit, Activity
  <1>6. ASSUME NEW c \in Calls, TakeError(c) \/ Leave(c) PROVE Types'
    BY <1>6 DEF TakeError, Leave, Quit, Activity
  <1>7. ASSUME NEW c \in Calls, Kill(c) \/ PollExit(c) PROVE Types' BY <1>7 DEF Kill, PollExit
  <1>8. ASSUME NEW c \in Calls, ReadPipe(c) PROVE Types' BY <1>8 DEF ReadPipe, Queued
  <1>9. ASSUME NEW c \in Calls, ReportExit(c) PROVE Types' BY <1>9 DEF ReportExit
  <1>10. ASSUME NEW c \in Calls, Write(c) PROVE Types' BY <1>10 DEF Write
  <1>11. ASSUME NEW c \in Calls, End(c) \/ ChildrenEnd(c) PROVE Types' BY <1>11 DEF End, ChildrenEnd
  <1>12. CASE ReadPorts
    <2>1. Head(fromSup) \in Reports /\ Head(fromSup)[1] = "ports" BY <1>12, Reading DEF ReadPorts,
                                                                                        Reads
    <2>2. Head(fromSup)[2] \in BOOLEAN BY <2>1 DEF Reports, Frames
    <2> QED BY <1>12, <2>2 DEF ReadPorts
  <1>13. CASE ReadFrame BY <1>13 DEF ReadFrame, Activity
  <1>14. CASE PutFrame BY <1>14 DEF PutFrame
  <1>15. CASE Retire \/ Stop \/ ReportPorts BY <1>15 DEF Retire, Stop, ReportPorts
  <1>16. CASE FailChannels BY <1>16 DEF FailChannels
  <1>21. CASE KillAll BY <1>21 DEF KillAll
  <1>17. CASE SupExec
    <2>1. Head(toSup)[2] \in Calls BY <1>17, Receiving DEF SupExec, Receives, Requests
    <2> QED BY <1>17, <2>1, ExecAssumption DEF SupExec
  <1>18. CASE SupCredit BY <1>18 DEF SupCredit
  <1>19. CASE SupCancel
    <2>1. Head(toSup)[2] \in Calls BY <1>19, Receiving DEF SupCancel, Receives, Requests
    <2> QED BY <1>19, <2>1 DEF SupCancel
  <1>20. CASE UNCHANGED vars BY <1>20 DEF vars
  <1> QED
    BY StepCases, <1>1, <1>2, <1>3, <1>4, <1>5, <1>6, <1>7, <1>8, <1>9, <1>10, <1>11, <1>12,
       <1>13, <1>14, <1>15, <1>16, <1>17, <1>18, <1>19, <1>20, <1>21
-----------------------------------------------------------------------------
(* Pipes *)

\* What a step may do to the supervisor's input.
LEMMA ToSupSteps ==
  ASSUME [Next]_vars
  PROVE  \/ UNCHANGED toSup
         \/ \E c \in Calls : SendExec(c) /\ toSup' = Append(toSup, <<"exec", c>>)
         \/ \E c \in Calls : SendCredit(c) /\ toSup' = Append(toSup, <<"credit", c>>)
         \/ \E c \in Calls : SendCancel(c) /\ toSup' = Append(toSup, <<"cancel", c>>)
         \/ /\ PutFrame /\ hand # <<>> /\ http[hand[2]] \notin {"cancel", "ended"}
            /\ toSup' = Append(toSup, <<"cancel", hand[2]>>)
         \/ (SupExec \/ SupCredit \/ SupCancel) /\ toSup # <<>> /\ toSup' = Tail(toSup)
         \/ KillAll /\ toSup' = <<>>
  <1>1. ASSUME NEW c \in Calls, SendExec(c) PROVE toSup' = Append(toSup, <<"exec", c>>)
    BY <1>1 DEF SendExec, Send
  <1>2. ASSUME NEW c \in Calls, SendCredit(c)
        PROVE  UNCHANGED toSup \/ toSup' = Append(toSup, <<"credit", c>>)
    BY <1>2 DEF SendCredit, Send
  <1>3. ASSUME NEW c \in Calls, SendCancel(c)
        PROVE  UNCHANGED toSup \/ toSup' = Append(toSup, <<"cancel", c>>)
    BY <1>3 DEF SendCancel, Send
  <1>4. ASSUME PutFrame
        PROVE  \/ UNCHANGED toSup
               \/ /\ hand # <<>> /\ http[hand[2]] \notin {"cancel", "ended"}
                  /\ toSup' = Append(toSup, <<"cancel", hand[2]>>)
    BY <1>4 DEF PutFrame, Send
  <1>5. ASSUME SupExec \/ SupCredit \/ SupCancel PROVE toSup # <<>> /\ toSup' = Tail(toSup)
    BY <1>5 DEF SupExec, SupCredit, SupCancel, Receives
  <1>6. ASSUME KillAll PROVE toSup' = <<>> BY <1>6 DEF KillAll
  <1>7. ASSUME NEW c \in Calls,
               \/ Admit(c) \/ TakeData(c) \/ TakeExit(c) \/ TakeError(c) \/ Leave(c) \/ Kill(c) \/ PollExit(c)
               \/ ReadPipe(c) \/ ReportExit(c) \/ Write(c) \/ End(c) \/ ChildrenEnd(c)
        PROVE  UNCHANGED toSup
    BY <1>7 DEF Admit, TakeData, TakeExit, TakeError, Leave, Kill, PollExit, ReadPipe, ReportExit, Write,
                End, ChildrenEnd
  <1>8. ASSUME ReadPorts \/ ReadFrame \/ Retire \/ Stop \/ FailChannels \/ ReportPorts \/ UNCHANGED vars
        PROVE  UNCHANGED toSup
    BY <1>8 DEF ReadPorts, ReadFrame, Retire, Stop, FailChannels, ReportPorts, vars
  <1> QED BY StepCases, <1>1, <1>2, <1>3, <1>4, <1>5, <1>6, <1>7, <1>8, Zenon

\* What a step may do to the supervisor's output.
LEMMA FromSupSteps ==
  ASSUME [Next]_vars, Types, Piped
  PROVE  \/ UNCHANGED fromSup
         \/ \E c \in Calls : /\ SupExec \/ SupCredit \/ SupCancel
                             /\ Head(toSup)[2] = c /\ fromSup' = Append(fromSup, <<"error", c>>)
         \/ \E c \in Calls : ReadPipe(c) /\ c \notin discard /\ fromSup' = Append(fromSup, <<"data", c>>)
         \/ \E c \in Calls : ReportExit(c) /\ fromSup' = Append(fromSup, <<"exit", c>>)
         \/ ReportPorts /\ fromSup' = Append(fromSup, <<"ports", running \cup children # {}>>)
         \/ (ReadPorts \/ ReadFrame) /\ fromSup # <<>> /\ fromSup' = Tail(fromSup)
         \/ KillAll /\ fromSup' = <<>>
  <1>1. ASSUME SupExec \/ SupCredit \/ SupCancel
        PROVE  UNCHANGED fromSup \/ \E c \in Calls : Head(toSup)[2] = c /\ fromSup' = Append(fromSup, <<"error", c>>)
    <2>1. Head(toSup)[2] \in Calls BY <1>1, Receiving DEF SupExec, SupCredit, SupCancel, Receives,
                                                          Requests
    <2> QED BY <1>1, <2>1 DEF SupExec, SupCredit, SupCancel, Emit
  <1>2. ASSUME NEW c \in Calls, ReadPipe(c)
        PROVE  UNCHANGED fromSup \/ (c \notin discard /\ fromSup' = Append(fromSup, <<"data", c>>))
    BY <1>2 DEF ReadPipe, Emit
  <1>3. ASSUME NEW c \in Calls, ReportExit(c) PROVE fromSup' = Append(fromSup, <<"exit", c>>)
    BY <1>3 DEF ReportExit, Emit
  <1>4. ASSUME ReportPorts PROVE fromSup' = Append(fromSup, <<"ports", running \cup children # {}>>)
    BY <1>4 DEF ReportPorts, Emit
  <1>5. ASSUME ReadPorts \/ ReadFrame PROVE fromSup # <<>> /\ fromSup' = Tail(fromSup)
    BY <1>5 DEF ReadPorts, ReadFrame, Reads
  <1>6. ASSUME KillAll PROVE fromSup' = <<>> BY <1>6 DEF KillAll
  <1>7. ASSUME NEW c \in Calls,
               \/ Admit(c) \/ SendExec(c) \/ TakeData(c) \/ SendCredit(c) \/ TakeExit(c) \/ TakeError(c)
               \/ SendCancel(c) \/ Leave(c) \/ Kill(c) \/ PollExit(c) \/ Write(c) \/ End(c) \/ ChildrenEnd(c)
        PROVE  UNCHANGED fromSup
    BY <1>7 DEF Admit, SendExec, TakeData, SendCredit, TakeExit, TakeError, SendCancel, Leave, Kill, PollExit,
                Write, End, ChildrenEnd
  <1>8. ASSUME PutFrame \/ Retire \/ Stop \/ FailChannels \/ UNCHANGED vars PROVE UNCHANGED fromSup
    BY <1>8 DEF PutFrame, Retire, Stop, FailChannels, vars
  <1> QED BY StepCases, <1>1, <1>2, <1>3, <1>4, <1>5, <1>6, <1>7, <1>8, Zenon

\* What a step may do to the queues and to the frame in hand.
LEMMA QueueSteps ==
  ASSUME [Next]_vars, Types, Piped
  PROVE  \/ UNCHANGED <<queue, hand>>
         \/ ReadFrame /\ UNCHANGED queue
         \/ PutFrame /\ hand # <<>> /\ hand' = <<>> /\ UNCHANGED queue
         \/ /\ PutFrame /\ hand # <<>> /\ hand' = <<>> /\ http[hand[2]] \notin {"cancel", "ended"}
            /\ \/ queue' = [queue EXCEPT ![hand[2]] = Append(@, hand)]
               \/ queue' = [queue EXCEPT ![hand[2]] = Failed(hand[2])]
         \/ \E c \in Calls : /\ TakeData(c) /\ queue[c] # <<>> /\ UNCHANGED hand
                             /\ queue' = [queue EXCEPT ![c] = Tail(@)]
         \/ \E c \in Calls : /\ TakeExit(c) \/ TakeError(c) \/ Leave(c)
                             /\ queue' = [queue EXCEPT ![c] = <<>>] /\ UNCHANGED hand
         \/ /\ FailChannels /\ hand' = <<>>
            /\ queue' = [c \in Calls |-> IF c \in channels THEN Failed(c) ELSE queue[c]]
  <1>1. ASSUME ReadFrame PROVE UNCHANGED queue BY <1>1 DEF ReadFrame
  <1>2. ASSUME PutFrame
        PROVE  /\ hand # <<>> /\ hand' = <<>>
               /\ \/ UNCHANGED queue
                  \/ /\ http[hand[2]] \notin {"cancel", "ended"}
                     /\ \/ queue' = [queue EXCEPT ![hand[2]] = Append(@, hand)]
                        \/ queue' = [queue EXCEPT ![hand[2]] = Failed(hand[2])]
    BY <1>2 DEF PutFrame, Failed
  <1>3. ASSUME NEW c \in Calls, TakeData(c)
        PROVE  queue[c] # <<>> /\ queue' = [queue EXCEPT ![c] = Tail(@)] /\ UNCHANGED hand
    BY <1>3 DEF TakeData
  <1>4. ASSUME NEW c \in Calls, TakeExit(c) \/ TakeError(c) \/ Leave(c)
        PROVE  queue' = [queue EXCEPT ![c] = <<>>] /\ UNCHANGED hand
    BY <1>4 DEF TakeExit, TakeError, Leave, Quit
  <1>5. ASSUME FailChannels
        PROVE  hand' = <<>> /\ queue' = [c \in Calls |-> IF c \in channels THEN Failed(c) ELSE queue[c]]
    BY <1>5 DEF FailChannels, Failed
  <1>6. ASSUME NEW c \in Calls,
               \/ Admit(c) \/ SendExec(c) \/ SendCredit(c) \/ SendCancel(c) \/ Kill(c) \/ PollExit(c)
               \/ ReadPipe(c) \/ ReportExit(c) \/ Write(c) \/ End(c) \/ ChildrenEnd(c)
        PROVE  UNCHANGED <<queue, hand>>
    BY <1>6 DEF Admit, SendExec, SendCredit, SendCancel, Kill, PollExit, ReadPipe, ReportExit, Write, End,
                ChildrenEnd
  <1>7. ASSUME \/ ReadPorts \/ Retire \/ Stop \/ KillAll \/ SupExec \/ SupCredit \/ SupCancel \/ ReportPorts
               \/ UNCHANGED vars
        PROVE  UNCHANGED <<queue, hand>>
    BY <1>7 DEF ReadPorts, Retire, Stop, KillAll, SupExec, SupCredit, SupCancel, ReportPorts, vars
  <1> QED BY StepCases, <1>1, <1>2, <1>3, <1>4, <1>5, <1>6, <1>7, Zenon

LEMMA PipedStep ==
  ASSUME Types, Piped, [Next]_vars
  PROVE  Piped'
  <1>1. toSup' \in Seq(Requests)
    <2>1. ASSUME NEW op \in {"exec", "credit", "cancel"}, NEW c \in Calls, toSup' = Append(toSup, <<op, c>>)
          PROVE  toSup' \in Seq(Requests)
      <3>1. <<op, c>> \in Requests BY DEF Requests
      <3> QED BY <2>1, <3>1, Sending
    <2>2. hand # <<>> => hand[2] \in Calls BY DEF Piped, Frames
    <2>3. toSup # <<>> /\ toSup' = Tail(toSup) => toSup' \in Seq(Requests) BY Receiving
    <2>4. toSup' = toSup => toSup' \in Seq(Requests) BY DEF Piped
    <2>5. <<>> \in Seq(Requests) BY EmptySeq
    <2> QED BY ToSupSteps, <2>1, <2>2, <2>3, <2>4, <2>5
  <1>2. fromSup' \in Seq(Reports)
    <2>1. ASSUME NEW f \in Reports, fromSup' = Append(fromSup, f) PROVE fromSup' \in Seq(Reports)
      BY <2>1, Emitting
    <2>2. <<"ports", running \cup children # {}>> \in Reports BY DEF Reports
    <2>3. \A c \in Calls : <<"data", c>> \in Reports /\ <<"exit", c>> \in Reports /\ <<"error", c>> \in Reports
      BY DEF Reports, Frames
    <2>4. fromSup # <<>> /\ fromSup' = Tail(fromSup) => fromSup' \in Seq(Reports) BY Reading
    <2>5. fromSup' = fromSup => fromSup' \in Seq(Reports) BY DEF Piped
    <2>6. <<>> \in Seq(Reports) BY EmptySeq
    <2> QED BY FromSupSteps, <2>1, <2>2, <2>3, <2>4, <2>5, <2>6
  <1>3. hand' \in Frames \cup {<<>>}
    <2>1. CASE ReadFrame
      <3>1. Head(fromSup) \in Reports /\ Head(fromSup)[1] # "ports" BY <2>1, Reading DEF ReadFrame,
                                                                                         Reads
      <3>2. Head(fromSup) \in Frames /\ <<Head(fromSup)[1], Head(fromSup)[2]>> \in Frames
        BY <3>1 DEF Reports, Frames
      <3> QED BY <2>1, <3>2 DEF ReadFrame
    <2> QED BY QueueSteps, <2>1 DEF Piped
  <1> DEFINE Kept == /\ queue' \in [Calls -> Seq(Frames)]
                     /\ \A c \in Calls : \A i \in 1..Len(queue'[c]) : queue'[c][i][2] = c
  <1>4. Kept
    <2>1. CASE UNCHANGED queue BY <2>1 DEF Piped
    <2>2. ASSUME hand # <<>>, queue' = [queue EXCEPT ![hand[2]] = Append(@, hand)] PROVE Kept
      <3>1. hand \in Frames /\ hand[2] \in Calls BY <2>2 DEF Piped, Frames
      <3> QED BY <2>2, <3>1, Putting DEF Piped
    <2>3. ASSUME NEW c \in Calls, queue[c] # <<>>, queue' = [queue EXCEPT ![c] = Tail(@)] PROVE Kept
      BY <2>3, Taking DEF Piped
    <2>4. ASSUME NEW c \in Calls, queue' = [queue EXCEPT ![c] = <<>>] PROVE Kept
      BY <2>4 DEF Piped
    <2>5. ASSUME hand # <<>>, queue' = [queue EXCEPT ![hand[2]] = Failed(hand[2])] PROVE Kept
      <3>1. hand[2] \in Calls BY <2>5 DEF Piped, Frames
      <3> QED BY <2>5, <3>1, CountNone DEF Piped
    <2>6. ASSUME queue' = [c \in Calls |-> IF c \in channels THEN Failed(c) ELSE queue[c]] PROVE Kept
      BY <2>6, CountNone DEF Piped
    <2> HIDE DEF Kept
    <2> QED BY QueueSteps, <2>1, <2>2, <2>3, <2>4, <2>5, <2>6
  <1> QED BY <1>1, <1>2, <1>3, <1>4 DEF Piped
-----------------------------------------------------------------------------
(* What has not arrived *)

LEMMA ExecFirstStep ==
  ASSUME Types, Piped, Unsent, OnItsWay, ExecFirst, [Next]_vars
  PROVE  ExecFirst'
  <1>1. CASE UNCHANGED toSup BY <1>1 DEF ExecFirst
  <1>2. ASSUME NEW c \in Calls, SendExec(c), toSup' = Append(toSup, <<"exec", c>>) PROVE ExecFirst'
    <2>1. \A i \in 1..Len(toSup) : toSup[i][2] # c BY <1>2 DEF SendExec, Unsent
    <2>2. <<"exec", c>> \in Requests BY DEF Requests
    <2> QED BY <1>2, <2>1, <2>2, Sending DEF ExecFirst
  <1>3. ASSUME NEW c \in Calls, SendCredit(c), toSup' = Append(toSup, <<"credit", c>>) PROVE ExecFirst'
    <2>1. \A i \in 1..Len(toSup) : toSup[i] # <<"exec", c>> BY <1>3 DEF SendCredit, OnItsWay, Sent
    <2>2. <<"credit", c>> \in Requests BY DEF Requests
    <2>3. \A i \in 1..Len(toSup) : toSup[i][1] = "exec" => toSup[i][2] # c
      BY <2>1, Pairs
    <2> QED BY <1>3, <2>3, <2>2, Sending DEF ExecFirst
  <1>4. ASSUME NEW c \in Calls, toSup' = Append(toSup, <<"cancel", c>>) PROVE ExecFirst'
    <2>2. <<"cancel", c>> \in Requests BY DEF Requests
    <2> QED BY <1>4, <2>2, Sending DEF ExecFirst
  <1>5. ASSUME toSup # <<>>, toSup' = Tail(toSup) PROVE ExecFirst'
    BY <1>5, Receiving DEF ExecFirst
  <1>6. ASSUME toSup' = <<>> PROVE ExecFirst' BY <1>6 DEF ExecFirst
  <1>7. hand # <<>> => hand[2] \in Calls BY DEF Piped, Frames
  <1> QED BY ToSupSteps, <1>1, <1>2, <1>3, <1>4, <1>5, <1>6, <1>7

\* Of an unknown call there are errors at most.
LEMMA UnknownQueue ==
  ASSUME NEW c \in Calls, queue[c] \in {<<>>, Failed(c)}
  PROVE  \A i \in 1..Len(queue[c]) : queue[c][i] = <<"error", c>>
  <1>1. CASE queue[c] = <<>>
    <2>1. Len(queue[c]) = 0 BY <1>1
    <2> QED BY <2>1
  <1>2. CASE queue[c] = Failed(c) BY <1>2, CountNone
  <1> QED BY <1>1, <1>2

\* What the steps of others leave to a call that the supervisor has not heard of.
LEMMA UnknownStep ==
  ASSUME Types, Piped, Calling, [Next]_vars, NEW c \in Calls, Unknown(c),
         ~(SupExec /\ Head(toSup)[2] = c), ~((SupCredit \/ SupCancel) /\ Head(toSup)[2] = c)
  PROVE  Unknown(c)'
  <1>1. c \notin running BY DEF Types, Unknown
  <1>2. c \notin (commands \cup children)'
    <2>1. ASSUME NEW d \in Calls, \/ Admit(d) \/ SendExec(d) \/ TakeData(d) \/ SendCredit(d) \/ TakeExit(d)
              \/ TakeError(d) \/ SendCancel(d) \/ Leave(d) \/ ReadPipe(d) \/ Write(d)
          PROVE UNCHANGED <<commands, children>>
      BY <2>1 DEF Admit, SendExec, TakeData, SendCredit, TakeExit, TakeError, SendCancel, Leave,
                  ReadPipe, Write
    <2>6. ASSUME NEW d \in Calls, Kill(d)
          PROVE commands' = commands /\ (children' \subseteq children \/ (d # c /\ children' \subseteq children \cup {d}))
      BY <2>6, <1>1 DEF Kill, Unknown
    <2>2. ASSUME NEW d \in Calls, PollExit(d) \/ ReportExit(d) \/ ChildrenEnd(d)
          PROVE commands' \subseteq commands /\ children' \subseteq children
      BY <2>2 DEF PollExit, ReportExit, ChildrenEnd
    <2>3. ASSUME NEW d \in Calls, End(d)
          PROVE d # c /\ commands' = commands /\ children' \subseteq children \cup {d}
      BY <2>3, <1>1 DEF End
    <2>4. ASSUME ReadPorts \/ ReadFrame \/ PutFrame \/ Retire \/ Stop \/ FailChannels \/ KillAll \/ SupCredit \/ SupCancel \/ ReportPorts \/ UNCHANGED vars
          PROVE commands' \subseteq commands /\ children' \subseteq children
      BY <2>4 DEF ReadPorts, ReadFrame, PutFrame, Retire, Stop, FailChannels, KillAll, SupCredit, SupCancel,
                  ReportPorts, vars
    <2>5. ASSUME SupExec PROVE c \notin commands' /\ children' = children
      BY <2>5 DEF SupExec, Unknown
    <2> QED BY StepCases, <2>1, <2>2, <2>3, <2>4, <2>5, <2>6 DEF Unknown
  <1>3. made'[c] = 0 /\ buf'[c] = 0
    <2>1. ASSUME NEW d \in Calls, \/ Admit(d) \/ SendExec(d) \/ TakeData(d) \/ SendCredit(d) \/ TakeExit(d)
              \/ TakeError(d) \/ SendCancel(d) \/ Leave(d) \/ Kill(d) \/ PollExit(d) \/ ChildrenEnd(d) \/ End(d)
          PROVE UNCHANGED <<made, buf>>
      BY <2>1 DEF Admit, SendExec, TakeData, SendCredit, TakeExit, TakeError, SendCancel, Leave,
                  Kill, PollExit, ChildrenEnd, End
    <2>2. ASSUME NEW d \in Calls, ReadPipe(d) \/ ReportExit(d) PROVE made'[c] = made[c] /\ buf'[c] = buf[c]
      BY <2>2 DEF ReadPipe, ReportExit, Types, Unknown
    <2>3. ASSUME NEW d \in Calls, Write(d) PROVE made'[c] = made[c] /\ buf'[c] = buf[c]
      BY <2>3 DEF Write, Types, Unknown
    <2>4. ASSUME ReadPorts \/ ReadFrame \/ PutFrame \/ Retire \/ Stop \/ FailChannels \/ SupExec \/ SupCredit \/ SupCancel \/ ReportPorts \/ UNCHANGED vars
          PROVE UNCHANGED <<made, buf>>
      BY <2>4 DEF ReadPorts, ReadFrame, PutFrame, Retire, Stop, FailChannels, SupExec, SupCredit, SupCancel,
                  ReportPorts, vars
    <2>5. ASSUME KillAll PROVE made' = made /\ buf'[c] = 0 BY <2>5 DEF KillAll
    <2> QED BY StepCases, <2>1, <2>2, <2>3, <2>4, <2>5 DEF Unknown
  <1>4. \A i \in 1..Len(queue[c]) : queue[c][i][1] = "error"
    BY UnknownQueue DEF Unknown
  <1>5. ~TakeData(c) BY <1>4, QueueHead DEF TakeData
  <1>6. got'[c] = 0
    <2>1. ASSUME NEW d \in Calls, TakeData(d) PROVE got'[c] = got[c]
      BY <2>1, <1>5 DEF TakeData, Types
    <2>2. ASSUME NEW d \in Calls, \/ Admit(d) \/ SendExec(d) \/ SendCredit(d) \/ TakeExit(d)
              \/ TakeError(d) \/ SendCancel(d) \/ Leave(d) \/ Kill(d) \/ PollExit(d) \/ ReportExit(d) \/ ChildrenEnd(d) \/ End(d)
              \/ ReadPipe(d) \/ Write(d)
          PROVE UNCHANGED got
      BY <2>2 DEF Admit, SendExec, SendCredit, TakeExit, TakeError, Quit, SendCancel, Leave, Kill, PollExit,
                  ReportExit, ChildrenEnd, End,
                  ReadPipe, Write
    <2>4. ASSUME ReadPorts \/ ReadFrame \/ PutFrame \/ Retire \/ Stop \/ FailChannels \/ KillAll \/ SupExec \/ SupCredit \/ SupCancel \/ ReportPorts \/ UNCHANGED vars
          PROVE UNCHANGED got
      BY <2>4 DEF ReadPorts, ReadFrame, PutFrame, Retire, Stop, FailChannels, KillAll, SupExec, SupCredit,
                  SupCancel, ReportPorts, vars
    <2> QED BY StepCases, <2>1, <2>2, <2>4 DEF Unknown
  <1>7. queue'[c] \in {<<>>, Failed(c)}
    <2>1. CASE UNCHANGED queue BY <2>1 DEF Unknown
    <2>2. ASSUME hand # <<>>, \/ queue' = [queue EXCEPT ![hand[2]] = Append(@, hand)]
                              \/ queue' = [queue EXCEPT ![hand[2]] = Failed(hand[2])]
          PROVE  queue'[c] = queue[c]
      BY <2>2 DEF Unknown, Piped
    <2>3. ASSUME NEW d \in Calls, queue' = [queue EXCEPT ![d] = Tail(@)], TakeData(d)
          PROVE  queue'[c] = queue[c]
      BY <2>3, <1>5 DEF Piped
    <2>4. ASSUME NEW d \in Calls, queue' = [queue EXCEPT ![d] = <<>>]
          PROVE  queue'[c] \in {<<>>, queue[c]}
      BY <2>4 DEF Piped
    <2>5. ASSUME queue' = [d \in Calls |-> IF d \in channels THEN Failed(d) ELSE queue[d]]
          PROVE  queue'[c] \in {Failed(c), queue[c]}
      BY <2>5
    <2> QED BY QueueSteps, <2>1, <2>2, <2>3, <2>4, <2>5 DEF Unknown
  <1>8. hand' = <<>> \/ hand'[2] # c
    <2>1. CASE ReadFrame
      <3>1. Head(fromSup) = fromSup[1] /\ 1 \in 1..Len(fromSup) /\ fromSup[1][1] # "ports"
        BY <2>1, Reading DEF ReadFrame, Reads
      <3>2. fromSup[1] = <<fromSup[1][1], fromSup[1][2]>> /\ fromSup[1][1] \in {"data", "exit", "error"}
        BY <3>1, Pairs
      <3>3. fromSup[1] \notin Answers(c) BY <3>1 DEF Unknown
      <3>4. fromSup[1][2] # c BY <3>2, <3>3 DEF Answers
      <3> QED BY <2>1, <3>1, <3>4 DEF ReadFrame
    <2> QED BY QueueSteps, <2>1 DEF Unknown
  <1>9. \A i \in 1..Len(fromSup') : fromSup'[i] \notin Answers(c)
    <2>1. CASE UNCHANGED fromSup BY <2>1 DEF Unknown
    <2>2. ASSUME NEW f \in Reports, fromSup' = Append(fromSup, f), f \notin Answers(c)
          PROVE  \A i \in 1..Len(fromSup') : fromSup'[i] \notin Answers(c)
      BY <2>2, Emitting DEF Unknown
    <2>3. <<"ports", running \cup children # {}>> \in Reports \ Answers(c) BY DEF Reports, Answers
    <2>4. \A d \in Calls : {<<"data", d>>, <<"exit", d>>, <<"error", d>>} \subseteq Reports
      BY DEF Reports, Frames
    <2>5. \A d \in Calls : d # c =>
            <<"data", d>> \notin Answers(c) /\ <<"exit", d>> \notin Answers(c) /\ <<"error", d>> \notin Answers(c)
      BY DEF Answers
    <2>6. ~ReadPipe(c) /\ ~ReportExit(c) BY DEF ReadPipe, ReportExit, Unknown, Types
    <2>7. fromSup # <<>> /\ fromSup' = Tail(fromSup)
            => \A i \in 1..Len(fromSup') : fromSup'[i] \notin Answers(c)
      BY Reading DEF Unknown
    <2>8. fromSup' = <<>> => \A i \in 1..Len(fromSup') : fromSup'[i] \notin Answers(c) OBVIOUS
    <2> QED BY FromSupSteps, <2>1, <2>2, <2>3, <2>4, <2>5, <2>6, <2>7, <2>8
  <1> QED BY <1>2, <1>3, <1>6, <1>7, <1>8, <1>9 DEF Unknown

\* What a step may do to the state of a call's handler.
LEMMA HttpSteps ==
  ASSUME [Next]_vars, Types, NEW c \in Calls
  PROVE  \/ UNCHANGED <<http[c], result[c], got[c]>>
         \/ Admit(c) /\ http[c] = "new" /\ http'[c] = "prepare" /\ UNCHANGED <<result[c], got[c]>>
         \/ Admit(c) /\ http[c] = "new" /\ http'[c] = "ended" /\ result'[c] = "refused" /\ UNCHANGED got[c]
         \/ SendExec(c) /\ http[c] = "prepare" /\ http'[c] = "await" /\ UNCHANGED <<result[c], got[c]>>
         \/ TakeData(c) /\ http[c] = "await" /\ http'[c] = "written" /\ got'[c] = got[c] + 1 /\ UNCHANGED result[c]
         \/ SendCredit(c) /\ http[c] = "written" /\ http'[c] = "await" /\ UNCHANGED <<result[c], got[c]>>
         \/ TakeExit(c) /\ http[c] = "await" /\ http'[c] = "ended" /\ result'[c] = "exit" /\ UNCHANGED got[c]
         \/ /\ TakeError(c) \/ Leave(c)
            /\ http[c] \in {"prepare", "await", "written"} /\ http'[c] = "cancel"
            /\ result'[c] \in {"error", "left"} /\ UNCHANGED got[c]
         \/ SendCancel(c) /\ http[c] = "cancel" /\ http'[c] = "ended" /\ UNCHANGED <<result[c], got[c]>>
  <1> DEFINE Same == UNCHANGED <<http[c], result[c], got[c]>>
  <1>1. ASSUME Admit(c)
        PROVE  /\ http[c] = "new" /\ UNCHANGED got[c]
               /\ \/ http'[c] = "prepare" /\ UNCHANGED result[c]
                  \/ http'[c] = "ended" /\ result'[c] = "refused"
    <2>1. /\ http[c] = "new" /\ got' = got
          /\ \/ http' = [http EXCEPT ![c] = "prepare"] /\ result' = result
             \/ http' = [http EXCEPT ![c] = "ended"] /\ result' = [result EXCEPT ![c] = "refused"]
      BY <1>1 DEF Admit
    <2> QED BY <2>1 DEF Types
  <1>2. SendExec(c) => http[c] = "prepare" /\ http'[c] = "await" /\ UNCHANGED <<result[c], got[c]>>
    BY DEF SendExec, Types
  <1>3. TakeData(c) => http[c] = "await" /\ http'[c] = "written" /\ got'[c] = got[c] + 1 /\ UNCHANGED result[c]
    BY DEF TakeData, Types
  <1>4. SendCredit(c) => http[c] = "written" /\ http'[c] = "await" /\ UNCHANGED <<result[c], got[c]>>
    BY DEF SendCredit, Types
  <1>5. TakeExit(c) => http[c] = "await" /\ http'[c] = "ended" /\ result'[c] = "exit" /\ UNCHANGED got[c]
    BY DEF TakeExit, Types
  <1>6. TakeError(c) \/ Leave(c) => /\ http[c] \in {"prepare", "await", "written"} /\ http'[c] = "cancel"
                                   /\ result'[c] \in {"error", "left"} /\ UNCHANGED got[c]
    BY DEF TakeError, Leave, Quit, Types
  <1>7. SendCancel(c) => http[c] = "cancel" /\ http'[c] = "ended" /\ UNCHANGED <<result[c], got[c]>>
    BY DEF SendCancel, Types
  <1>8. ASSUME NEW d \in Calls, d # c, Admit(d) \/ SendExec(d) \/ TakeData(d) \/ SendCredit(d) \/ SendCancel(d)
        PROVE  Same
    BY <1>8 DEF Admit, SendExec, TakeData, SendCredit, SendCancel, Types
  <1>9. ASSUME NEW d \in Calls, d # c, TakeExit(d) \/ TakeError(d) \/ Leave(d)
        PROVE  Same
    BY <1>9 DEF TakeExit, TakeError, Leave, Quit, Types
  <1>10. ASSUME NEW d \in Calls, Kill(d) \/ PollExit(d) \/ ReadPipe(d) \/ ReportExit(d) \/ Write(d) \/ End(d) \/ ChildrenEnd(d)
         PROVE  Same
    BY <1>10 DEF Kill, PollExit, ReadPipe, ReportExit, Write, End, ChildrenEnd
  <1>11. ASSUME \/ ReadPorts \/ ReadFrame \/ PutFrame \/ Retire \/ Stop \/ FailChannels \/ KillAll
                \/ SupExec \/ SupCredit \/ SupCancel \/ ReportPorts \/ UNCHANGED vars
         PROVE  Same
    BY <1>11 DEF ReadPorts, ReadFrame, PutFrame, Retire, Stop, FailChannels, KillAll, SupExec, SupCredit,
                 SupCancel, ReportPorts, vars
  <1> HIDE DEF Same
  <1>13. ASSUME NEW d \in Calls, \/ Admit(d) \/ SendExec(d) \/ TakeData(d) \/ SendCredit(d) \/ SendCancel(d)
                                 \/ TakeExit(d) \/ TakeError(d) \/ Leave(d)
         PROVE  Same \/ Admit(c) \/ SendExec(c) \/ TakeData(c) \/ SendCredit(c) \/ SendCancel(c)
                  \/ TakeExit(c) \/ TakeError(c) \/ Leave(c)
    <2>1. CASE d = c BY <1>13, <2>1, Zenon
    <2>2. CASE d # c BY <1>13, <2>2, <1>8, <1>9, Zenon
    <2> QED BY <2>1, <2>2
  <1>14. Same \/ Admit(c) \/ SendExec(c) \/ TakeData(c) \/ SendCredit(c) \/ SendCancel(c)
           \/ TakeExit(c) \/ TakeError(c) \/ Leave(c)
    BY StepCases, <1>13, <1>10, <1>11, Zenon
  <1> QED BY <1>14, <1>1, <1>2, <1>3, <1>4, <1>5, <1>6, <1>7, Zenon DEF Same

\* What a step may do to the slots.
LEMMA ActiveSteps ==
  ASSUME [Next]_vars, Piped
  PROVE  \/ UNCHANGED active
         \/ \E c \in Calls : SendExec(c) /\ active' = active \cup {c} /\ fresh' = FALSE
         \/ /\ ReadFrame /\ fromSup # <<>> /\ fromSup[1][1] \in {"exit", "error"} /\ fresh' = FALSE
            /\ fromSup' = Tail(fromSup) /\ active' = active \ {fromSup[1][2]}
  <1>1. ASSUME NEW c \in Calls, SendExec(c) PROVE active' = active \cup {c} /\ fresh' = FALSE
    BY <1>1 DEF SendExec, Activity
  <1>2. ASSUME ReadFrame
        PROVE  \/ UNCHANGED active
               \/ /\ fromSup # <<>> /\ fromSup[1][1] \in {"exit", "error"} /\ fresh' = FALSE
                  /\ fromSup' = Tail(fromSup) /\ active' = active \ {fromSup[1][2]}
    <2>1. Head(fromSup) = fromSup[1] /\ fromSup # <<>> BY <1>2, Reading DEF ReadFrame, Reads
    <2> QED BY <1>2, <2>1 DEF ReadFrame, Activity
  <1>3. ASSUME NEW d \in Calls, \/ Admit(d) \/ TakeData(d) \/ SendCredit(d) \/ TakeExit(d) \/ TakeError(d)
                \/ SendCancel(d) \/ Leave(d) \/ Kill(d) \/ PollExit(d) \/ ReadPipe(d) \/ ReportExit(d) \/ Write(d)
                \/ End(d) \/ ChildrenEnd(d)
        PROVE  UNCHANGED active
    BY <1>3 DEF Admit, TakeData, SendCredit, TakeExit, TakeError, SendCancel, Leave, Kill, PollExit,
                ReadPipe, ReportExit, Write, End, ChildrenEnd
  <1>4. ASSUME \/ ReadPorts \/ PutFrame \/ Retire \/ Stop \/ FailChannels \/ KillAll
               \/ SupExec \/ SupCredit \/ SupCancel \/ ReportPorts \/ UNCHANGED vars
        PROVE  UNCHANGED active
    BY <1>4 DEF ReadPorts, PutFrame, Retire, Stop, FailChannels, KillAll, SupExec, SupCredit, SupCancel,
                ReportPorts, vars
  <1> QED BY StepCases, <1>1, <1>2, <1>3, <1>4, Zenon

LEMMA UnsentStep ==
  ASSUME Types, Piped, Calling, Unsent, [Next]_vars
  PROVE  Unsent'
  <1> SUFFICES ASSUME NEW c \in Calls, http'[c] \in {"new", "prepare"}
               PROVE  Unknown(c)' /\ c \notin active' /\ \A i \in 1..Len(toSup') : toSup'[i][2] # c
    BY DEF Unsent
  <1>1. http[c] \in {"new", "prepare"} BY HttpSteps
  <1>2. Unknown(c) /\ c \notin active /\ \A i \in 1..Len(toSup) : toSup[i][2] # c BY <1>1 DEF Unsent
  <1>3. SupExec \/ SupCredit \/ SupCancel => Head(toSup)[2] # c
    <2>1. SupExec \/ SupCredit \/ SupCancel => toSup # <<>> /\ toSup' = Tail(toSup)
      BY DEF SupExec, SupCredit, SupCancel, Receives
    <2>2. toSup # <<>> /\ toSup' = Tail(toSup) => Head(toSup) = toSup[1] /\ 1 \in 1..Len(toSup) BY Receiving
    <2> QED BY <2>1, <2>2, <1>2
  <1>4. Unknown(c)' BY <1>2, <1>3, UnknownStep
  <1>5. ~SendExec(c) BY DEF SendExec, Types
  <1>6. c \notin active' BY <1>2, <1>5, ActiveSteps
  <1>7. \A i \in 1..Len(toSup') : toSup'[i][2] # c
    <2>1. ASSUME NEW d \in Calls, d # c, NEW op \in {"exec", "credit", "cancel"}, toSup' = Append(toSup, <<op, d>>)
          PROVE  \A i \in 1..Len(toSup') : toSup'[i][2] # c
      <3>1. <<op, d>> \in Requests BY DEF Requests
      <3> QED BY <2>1, <3>1, <1>2, Sending
    <2>2. ~SendCredit(c) /\ ~SendCancel(c) BY <1>1 DEF SendCredit, SendCancel
    <2>3. hand # <<>> => hand[2] # c /\ hand[2] \in Calls BY <1>2, Pairs DEF Unknown
    <2>4. toSup # <<>> /\ toSup' = Tail(toSup) => \A i \in 1..Len(toSup') : toSup'[i][2] # c
      BY <1>2, Receiving
    <2>5. toSup' = <<>> => \A i \in 1..Len(toSup') : toSup'[i][2] # c OBVIOUS
    <2> QED BY ToSupSteps, <1>2, <1>5, <2>1, <2>2, <2>3, <2>4, <2>5
  <1> QED BY <1>4, <1>6, <1>7

LEMMA OnItsWayStep ==
  ASSUME Types, Piped, Calling, Unsent, OnItsWay, ExecFirst, [Next]_vars
  PROVE  OnItsWay'
  <1> SUFFICES ASSUME NEW c \in Calls, Sent(c)'
               PROVE  Unknown(c)' /\ c \in active' /\ http'[c] # "written"
    BY DEF OnItsWay
  <1>1. \/ Sent(c)
        \/ SendExec(c) /\ toSup' = Append(toSup, <<"exec", c>>)
    <2>1. CASE UNCHANGED toSup BY <2>1 DEF Sent
    <2>2. ASSUME NEW d \in Calls, NEW op \in {"exec", "credit", "cancel"}, toSup' = Append(toSup, <<op, d>>)
          PROVE  Sent(c) \/ (op = "exec" /\ d = c)
      <3>1. <<op, d>> \in Requests BY DEF Requests
      <3> QED BY <2>2, <3>1, Sending DEF Sent
    <2>3. toSup # <<>> /\ toSup' = Tail(toSup) => Sent(c) BY Receiving DEF Sent
    <2>4. toSup' # <<>> BY DEF Sent
    <2>5. hand # <<>> => hand[2] \in Calls BY Pairs
    <2> QED BY ToSupSteps, <2>1, <2>2, <2>3, <2>4, <2>5
  <1>2. SupExec \/ SupCredit \/ SupCancel => /\ toSup # <<>> /\ toSup' = Tail(toSup)
                                             /\ Head(toSup) = toSup[1] /\ 1 \in 1..Len(toSup)
    <2>1. SupExec \/ SupCredit \/ SupCancel => toSup # <<>> /\ toSup' = Tail(toSup)
      BY DEF SupExec, SupCredit, SupCancel, Receives
    <2> QED BY <2>1, Receiving
  <1>3. CASE SendExec(c) /\ toSup' = Append(toSup, <<"exec", c>>)
    <2>1. http[c] = "prepare" /\ http'[c] = "await" /\ c \in active' BY <1>3 DEF SendExec, Types
    <2>2. Unknown(c) /\ \A i \in 1..Len(toSup) : toSup[i][2] # c BY <2>1 DEF Unsent
    <2>3. SupExec \/ SupCredit \/ SupCancel => Head(toSup)[2] # c BY <1>2, <2>2
    <2> QED BY <2>1, <2>2, <2>3, UnknownStep
  <1>4. CASE Sent(c)
    <2>1. Unknown(c) /\ c \in active /\ http[c] # "written" BY <1>4 DEF OnItsWay
    <2>2. PICK i \in 1..Len(toSup) : toSup[i] = <<"exec", c>> BY <1>4 DEF Sent
    <2>3. ~(SupExec /\ Head(toSup)[2] = c)
      <3> SUFFICES ASSUME SupExec, Head(toSup)[2] = c PROVE FALSE OBVIOUS
      <3>1. toSup[1][1] = "exec" /\ toSup[1][2] = c BY <1>2 DEF SupExec, Receives
      <3>2. \A j \in 1..Len(toSup) : j # 1 => toSup[j] # <<"exec", c>> BY <3>1, <1>2 DEF ExecFirst
      <3>3. \A j \in 1..Len(toSup') : toSup'[j] = toSup[j + 1] /\ j + 1 \in 1..Len(toSup) /\ j + 1 # 1
        BY <1>2, Receiving
      <3> QED BY <3>2, <3>3 DEF Sent
    <2>4. ~((SupCredit \/ SupCancel) /\ Head(toSup)[2] = c)
      <3> SUFFICES ASSUME SupCredit \/ SupCancel, Head(toSup)[2] = c PROVE FALSE OBVIOUS
      <3>1. toSup[1][1] # "exec" /\ toSup[1][2] = c BY <1>2 DEF SupCredit, SupCancel, Receives
      <3> QED BY <3>1, <1>2, <2>2 DEF ExecFirst
    <2>5. c \in active'
      <3>1. fromSup # <<>> /\ fromSup' = Tail(fromSup) => 1 \in 1..Len(fromSup) BY Reading
      <3>2. fromSup # <<>> /\ fromSup' = Tail(fromSup) /\ fromSup[1][1] \in {"exit", "error"} => fromSup[1][2] # c
        BY <3>1, <2>1, Pairs DEF Unknown, Answers
      <3> QED BY <2>1, <3>2, ActiveSteps
    <2>6. http'[c] # "written"
      <3>1. TakeData(c) => queue[c] # <<>> /\ Head(queue[c])[1] = "data" BY DEF TakeData
      <3>2. queue[c] # <<>> => Head(queue[c])[1] = "error"
        BY <2>1, UnknownQueue, QueueHead DEF Unknown
      <3>3. ~TakeData(c) BY <3>1, <3>2
      <3> QED BY <2>1, <3>3, HttpSteps
    <2> QED BY <2>1, <2>3, <2>4, <2>5, <2>6, UnknownStep
  <1> QED BY <1>1, <1>3, <1>4
-----------------------------------------------------------------------------
(* Channels and the end of the runtime *)

\* What a step may do to the channels.
LEMMA ChannelSteps ==
  ASSUME [Next]_vars, Types
  PROVE  \/ UNCHANGED channels
         \/ \E c \in Calls : Admit(c) /\ http'[c] = "prepare" /\ channels' = channels \cup {c}
         \/ \E c \in Calls : (TakeExit(c) \/ TakeError(c) \/ Leave(c)) /\ channels' = channels \ {c}
         \/ /\ PutFrame /\ hand # <<>> /\ channels' = channels \ {hand[2]}
            /\ queue' = [queue EXCEPT ![hand[2]] = Failed(hand[2])]
  <1>1. ASSUME NEW c \in Calls, Admit(c)
        PROVE  UNCHANGED channels \/ (http'[c] = "prepare" /\ channels' = channels \cup {c})
    BY <1>1 DEF Admit, Types
  <1>2. ASSUME NEW c \in Calls, TakeExit(c) \/ TakeError(c) \/ Leave(c) PROVE channels' = channels \ {c}
    BY <1>2 DEF TakeExit, TakeError, Leave, Quit
  <1>3. ASSUME PutFrame
        PROVE  \/ UNCHANGED channels
               \/ /\ hand # <<>> /\ channels' = channels \ {hand[2]}
                  /\ queue' = [queue EXCEPT ![hand[2]] = Failed(hand[2])]
    BY <1>3 DEF PutFrame, Failed
  <1>4. ASSUME NEW d \in Calls, \/ SendExec(d) \/ TakeData(d) \/ SendCredit(d)
                \/ SendCancel(d) \/ Kill(d) \/ PollExit(d) \/ ReadPipe(d) \/ ReportExit(d) \/ Write(d)
                \/ End(d) \/ ChildrenEnd(d)
        PROVE  UNCHANGED channels
    BY <1>4 DEF SendExec, TakeData, SendCredit, SendCancel, Kill, PollExit, ReadPipe, ReportExit, Write, End,
                ChildrenEnd
  <1>5. ASSUME \/ ReadPorts \/ ReadFrame \/ Retire \/ Stop \/ FailChannels \/ KillAll
               \/ SupExec \/ SupCredit \/ SupCancel \/ ReportPorts \/ UNCHANGED vars
        PROVE  UNCHANGED channels
    BY <1>5 DEF ReadPorts, ReadFrame, Retire, Stop, FailChannels, KillAll, SupExec, SupCredit, SupCancel,
                ReportPorts, vars
  <1> QED BY StepCases, <1>1, <1>2, <1>3, <1>4, <1>5, Zenon

\* What a step may do to the runtime as a whole.
LEMMA StoppedSteps ==
  ASSUME [Next]_vars
  PROVE  \/ UNCHANGED stopped
         \/ Retire /\ stopped = "no" /\ stopped' = "idle"
         \/ Stop /\ stopped = "no" /\ stopped' = "other"
         \/ FailChannels /\ stopped \in {"idle", "other"} /\ stopped' = "failed"
         \/ KillAll /\ stopped = "failed" /\ stopped' = "done"
  <1>1. ASSUME NEW c \in Calls,
               \/ Admit(c) \/ SendExec(c) \/ TakeData(c) \/ SendCredit(c) \/ TakeExit(c)
               \/ TakeError(c) \/ SendCancel(c) \/ Leave(c) \/ Kill(c) \/ PollExit(c) \/ ReadPipe(c) \/ ReportExit(c)
               \/ Write(c) \/ End(c) \/ ChildrenEnd(c)
        PROVE  UNCHANGED stopped
    BY <1>1 DEF Admit, SendExec, TakeData, SendCredit, TakeExit, TakeError, SendCancel, Leave, Kill, PollExit,
                ReadPipe, ReportExit, Write, End, ChildrenEnd
  <1>2. ASSUME \/ ReadPorts \/ ReadFrame \/ PutFrame \/ SupExec \/ SupCredit \/ SupCancel
               \/ ReportPorts \/ UNCHANGED vars
        PROVE  UNCHANGED stopped
    BY <1>2 DEF ReadPorts, ReadFrame, PutFrame, SupExec, SupCredit, SupCancel, ReportPorts, vars
  <1>3. Retire => stopped = "no" /\ stopped' = "idle" BY DEF Retire, IsIdle
  <1>4. Stop => stopped = "no" /\ stopped' = "other" BY DEF Stop
  <1>5. /\ FailChannels => stopped \in {"idle", "other"} /\ stopped' = "failed"
        /\ KillAll => stopped = "failed" /\ stopped' = "done"
    BY DEF FailChannels, KillAll
  <1> QED BY StepCases, <1>1, <1>2, <1>3, <1>4, <1>5, Zenon

\* After the teardown nothing moves but the handlers.
LEMMA DoneSteps ==
  ASSUME [Next]_vars, Types, Piped, Calling, stopped = "done"
  PROVE  UNCHANGED <<stopped, toSup, fromSup, hand, commands, running, children>>
  <1>1. commands = {} /\ running = {} /\ children = {} /\ toSup = <<>> BY DEF Calling, Types
  <1>2. ASSUME NEW c \in Calls,
               \/ Admit(c) \/ SendExec(c) \/ TakeData(c) \/ SendCredit(c) \/ TakeExit(c)
               \/ TakeError(c) \/ SendCancel(c) \/ Leave(c)
        PROVE  UNCHANGED <<stopped, toSup, fromSup, hand, commands, running, children>>
    BY <1>2 DEF Admit, SendExec, TakeData, SendCredit, TakeExit, TakeError, SendCancel, Leave
  <1>3. ASSUME NEW c \in Calls, Kill(c) \/ PollExit(c) \/ ReadPipe(c) \/ ReportExit(c) \/ Write(c) \/ End(c) \/ ChildrenEnd(c)
        PROVE  FALSE
    BY <1>1, <1>3 DEF Kill, PollExit, ReadPipe, ReportExit, Write, End, ChildrenEnd, Alive
  <1>4. ASSUME \/ ReadPorts \/ ReadFrame \/ PutFrame \/ Retire \/ Stop \/ FailChannels \/ KillAll
               \/ SupExec \/ SupCredit \/ SupCancel \/ ReportPorts
        PROVE  FALSE
    BY <1>4 DEF ReadPorts, ReadFrame, PutFrame, Retire, Stop, FailChannels, KillAll, SupExec, SupCredit,
                SupCancel,
                ReportPorts, Reads, IsIdle, Receives, Alive
  <1>5. ASSUME UNCHANGED vars
        PROVE  UNCHANGED <<stopped, toSup, fromSup, hand, commands, running, children>>
    BY <1>5 DEF vars
  <1> QED BY StepCases, <1>2, <1>3, <1>4, <1>5, Zenon

LEMMA CallingStep ==
  ASSUME Types, Piped, Calling, [Next]_vars
  PROVE  Calling'
  <1>1. ASSUME NEW c \in channels' PROVE http'[c] \in {"prepare", "await", "written"}
    <2>1. c \in Calls BY TypesStep DEF Types
    <2>2. c \in channels \/ (Admit(c) /\ http'[c] = "prepare") BY ChannelSteps
    <2>3. TakeExit(c) \/ TakeError(c) \/ Leave(c) => channels' = channels \ {c}
      BY DEF TakeExit, TakeError, Leave, Quit
    <2>4. c \in channels => http[c] \in {"prepare", "await", "written"} BY DEF Calling
    <2> QED BY <2>1, <2>2, <2>3, <2>4, HttpSteps
  <1>2. ASSUME NEW c \in Calls, c \notin channels' \/ ChannelsFailed'
        PROVE  queue'[c] \in {<<>>, Failed(c)}
    <2> DEFINE Short == queue'[c] \in {<<>>, Failed(c)}
    <2>1. c \notin channels \/ ChannelsFailed => queue[c] \in {<<>>, Failed(c)} BY DEF Calling
    <2>2. ASSUME NEW d \in Calls, TakeExit(d) \/ TakeError(d) \/ Leave(d) PROVE Short
      <3>1. /\ queue' = [queue EXCEPT ![d] = <<>>] /\ channels' = channels \ {d} /\ stopped' = stopped
        BY <2>2 DEF TakeExit, TakeError, Leave, Quit
      <3> QED BY <3>1, <2>1, <1>2 DEF Piped, ChannelsFailed
    <2>3. ASSUME NEW d \in Calls, TakeData(d), queue' = [queue EXCEPT ![d] = Tail(@)] PROVE Short
      <3>1. channels' = channels /\ stopped' = stopped BY <2>3 DEF TakeData
      <3>2. queue[c] \in {<<>>, Failed(c)} BY <3>1, <2>1, <1>2 DEF ChannelsFailed
      <3>3. d # c
        <4> SUFFICES ASSUME d = c PROVE FALSE OBVIOUS
        <4>1. queue[c] # <<>> /\ Head(queue[c])[1] = "data" BY <2>3 DEF TakeData
        <4> QED BY <4>1, <3>2, UnknownQueue, QueueHead
      <3> QED BY <2>3, <3>2, <3>3 DEF Piped
    <2>4. ASSUME PutFrame PROVE Short
      <3>1. ~ChannelsFailed' BY <2>4 DEF PutFrame, ChannelsFailed
      <3>2. CASE http[hand[2]] \in {"cancel", "ended"}
        <4>1. UNCHANGED <<queue, channels>> BY <2>4, <3>2 DEF PutFrame
        <4> QED BY <4>1, <3>1, <2>1, <1>2
      <3>3. CASE http[hand[2]] \notin {"cancel", "ended"}
        <4>1. hand # <<>> /\ hand[2] \in Calls BY <2>4, Pairs DEF PutFrame
        <4>2. http[hand[2]] \notin {"cancel", "ended"} /\ hand[2] \in channels
          BY <2>4, <3>3, <4>1 DEF PutFrame, Calling
        <4>3. \/ queue' = [queue EXCEPT ![hand[2]] = Append(@, hand)] /\ channels' = channels
              \/ queue' = [queue EXCEPT ![hand[2]] = Failed(hand[2])] /\ channels' = channels \ {hand[2]}
          BY <2>4, <4>2 DEF PutFrame, Failed
        <4> QED BY <3>1, <4>1, <4>2, <4>3, <2>1, <1>2 DEF Piped
      <3> QED BY <3>2, <3>3
    <2>5. ASSUME FailChannels PROVE Short BY <2>5, <2>1 DEF FailChannels, Failed
    <2>6. ASSUME UNCHANGED queue, ~PutFrame, ~FailChannels PROVE Short
      <3>1. channels \subseteq channels' \/ \E d \in Calls : TakeExit(d) \/ TakeError(d) \/ Leave(d)
        BY <2>6, ChannelSteps
      <3>2. ChannelsFailed' => ChannelsFailed BY <2>6, StoppedSteps DEF ChannelsFailed
      <3> QED BY <3>1, <3>2, <2>1, <2>2, <2>6, <1>2
    <2> HIDE DEF Short
    <2>7. UNCHANGED queue \/ PutFrame \/ FailChannels \/ (\E d \in Calls : TakeData(d) /\ queue' = [queue EXCEPT ![d] = Tail(@)])
            \/ \E d \in Calls : TakeExit(d) \/ TakeError(d) \/ Leave(d)
      BY QueueSteps
    <2>8. Short BY <2>2, <2>3, <2>4, <2>5, <2>6, <2>7, Zenon
    <2> QED BY <2>8 DEF Short
  <1>3. ASSUME hand' # <<>> PROVE hand'[2] \in channels' \/ http'[hand'[2]] \in {"cancel", "ended"}
    <2>1. CASE ReadFrame
      <3>1. hand'[2] \in channels /\ channels' = channels BY <2>1, <1>3 DEF ReadFrame
      <3> QED BY <3>1
    <2>2. CASE UNCHANGED hand /\ ~PutFrame
      <3>1. hand[2] \in Calls /\ hand # <<>> BY <2>2, <1>3, Pairs
      <3>2. hand[2] \in channels \/ http[hand[2]] \in {"cancel", "ended"} BY <3>1 DEF Calling
      <3>3. http[hand[2]] \in {"cancel", "ended"} => http'[hand[2]] \in {"cancel", "ended"}
        BY <3>1, HttpSteps
      <3>4. TakeExit(hand[2]) \/ TakeError(hand[2]) \/ Leave(hand[2]) => http'[hand[2]] \in {"cancel", "ended"}
        BY <3>1 DEF TakeExit, TakeError, Leave, Quit, Types
      <3>5. hand[2] \in channels /\ hand[2] \notin channels' => TakeExit(hand[2]) \/ TakeError(hand[2]) \/ Leave(hand[2])
        BY <2>2, ChannelSteps
      <3> QED BY <2>2, <3>2, <3>3, <3>4, <3>5
    <2>3. PutFrame => hand' = <<>> BY DEF PutFrame
    <2> QED BY QueueSteps, <1>3, <2>1, <2>2, <2>3
  <1>4. ASSUME NEW c \in Calls, result'[c] = "exit" PROVE http'[c] = "ended"
    <2>1. result[c] = "exit" => http[c] = "ended" BY DEF Calling
    <2> QED BY <2>1, <1>4, HttpSteps
  <1>5. ASSUME stopped' = "done"
        PROVE  toSup' = <<>> /\ fromSup' = <<>> /\ commands' = {} /\ children' = {}
    <2>1. CASE stopped = "done" BY <2>1, DoneSteps DEF Calling
    <2>2. CASE KillAll BY <2>2 DEF KillAll
    <2> QED BY <1>5, <2>1, <2>2, StoppedSteps
  <1>6. ASSUME ChannelsFailed' PROVE hand' = <<>>
    <2>1. CASE FailChannels BY <2>1 DEF FailChannels
    <2>2. CASE ChannelsFailed
      <3>1. hand = <<>> BY <2>2 DEF Calling
      <3>2. ~ReadFrame /\ ~PutFrame BY <2>2 DEF ChannelsFailed, ReadFrame, Reads, PutFrame
      <3> QED BY <3>1, <3>2, QueueSteps
    <2> QED BY <1>6, <2>1, <2>2, StoppedSteps DEF ChannelsFailed
  <1> QED BY <1>1, <1>2, <1>3, <1>4, <1>5, <1>6 DEF Calling
-----------------------------------------------------------------------------
(* Slots and heartbeats *)

\* The supervisor takes the frame at the front.
LEMMA SupFrame ==
  ASSUME Piped, SupExec \/ SupCredit \/ SupCancel
  PROVE  /\ toSup # <<>> /\ toSup' = Tail(toSup) /\ 1 \in 1..Len(toSup) /\ Head(toSup) = toSup[1]
         /\ Head(toSup)[2] \in Calls /\ Head(toSup) = <<Head(toSup)[1], Head(toSup)[2]>>
         /\ SupExec => Head(toSup)[1] = "exec"
         /\ SupCredit => Head(toSup)[1] = "credit"
         /\ SupCancel => Head(toSup)[1] = "cancel"
  <1>1. toSup # <<>> /\ toSup' = Tail(toSup) BY DEF SupExec, SupCredit, SupCancel, Receives
  <1>2. 1 \in 1..Len(toSup) /\ Head(toSup) = toSup[1] BY <1>1, Receiving
  <1>3. /\ SupExec => Head(toSup)[1] = "exec"
        /\ SupCredit => Head(toSup)[1] = "credit"
        /\ SupCancel => Head(toSup)[1] = "cancel"
    BY DEF SupExec, SupCredit, SupCancel, Receives
  <1> QED BY <1>1, <1>2, <1>3, Pairs

\* An exec that arrives is of a call the supervisor has not heard of.
LEMMA ExecArrives ==
  ASSUME Piped, OnItsWay, SupExec
  PROVE  Sent(Head(toSup)[2]) /\ Unknown(Head(toSup)[2]) /\ Head(toSup)[2] \in active
  BY SupFrame DEF Sent, OnItsWay

\* A credit that arrives is not one too many.
LEMMA CreditFits ==
  ASSUME Types, Piped, Window, SupCredit
  PROVE  credits[Head(toSup)[2]] < QueueSize - 1
  <1>1. PICK c \in Calls : Head(toSup)[2] = c BY SupFrame
  <1>2. 1 \in 1..Len(toSup) /\ toSup[1] = <<"credit", c>> BY <1>1, SupFrame
  <1>3. CreditsSent(c) \in Nat \ {0} BY <1>2, Counts DEF CreditsSent
  <1>4. /\ credits[c] \in Nat /\ DataRead(c) \in Nat /\ DataQueued(c) \in Nat
        /\ DataInHand(c) \in Nat /\ DataWritten(c) \in Nat
    BY Counts DEF Types, DataRead, DataQueued, DataInHand, DataWritten
  <1>5. credits[c] + CreditsSent(c) + DataRead(c) + DataInHand(c) + DataQueued(c) + DataWritten(c)
          <= QueueSize - 1
    BY DEF Window
  <1>6. QueueSize \in Nat BY ExecAssumption
  <1>7. ASSUME NEW n \in Nat, NEW m \in Nat \ {0}, NEW r \in Nat, NEW h \in Nat, NEW q \in Nat, NEW w \in Nat,
               n + m + r + h + q + w <= QueueSize - 1
        PROVE  n < QueueSize - 1
    BY <1>6, <1>7
  <1>8. credits[c] < QueueSize - 1 BY <1>3, <1>4, <1>5, <1>7
  <1> QED BY <1>1, <1>8

\* What a step may do to what the supervisor runs.
LEMMA CommandSteps ==
  ASSUME [Next]_vars, Types, Piped
  PROVE  \/ UNCHANGED commands
         \/ SupExec /\ commands' = commands \cup {Head(toSup)[2]} /\ UNCHANGED <<fromSup, active>>
         \/ \E c \in Calls : /\ ReportExit(c) /\ c \in commands /\ commands' = commands \ {c}
                             /\ fromSup' = Append(fromSup, <<"exit", c>>) /\ UNCHANGED active
         \/ KillAll /\ commands' = {} /\ fromSup' = <<>>
  <1>1. SupExec => UNCHANGED commands \/ (commands' = commands \cup {Head(toSup)[2]} /\ UNCHANGED <<fromSup, active>>)
    BY DEF SupExec
  <1>2. ASSUME NEW c \in Calls, ReportExit(c)
        PROVE  c \in commands /\ commands' = commands \ {c} /\ fromSup' = Append(fromSup, <<"exit", c>>) /\ UNCHANGED active
    BY <1>2 DEF ReportExit, Emit, Types
  <1>3. KillAll => commands' = {} /\ fromSup' = <<>> BY DEF KillAll
  <1>4. ASSUME NEW c \in Calls,
               \/ Admit(c) \/ SendExec(c) \/ TakeData(c) \/ SendCredit(c) \/ TakeExit(c)
               \/ TakeError(c) \/ SendCancel(c) \/ Leave(c) \/ Kill(c) \/ PollExit(c) \/ ReadPipe(c)
               \/ Write(c) \/ End(c) \/ ChildrenEnd(c)
        PROVE  UNCHANGED commands
    BY <1>4 DEF Admit, SendExec, TakeData, SendCredit, TakeExit, TakeError, SendCancel, Leave, Kill, PollExit,
                ReadPipe, Write, End, ChildrenEnd
  <1>5. ASSUME \/ ReadPorts \/ ReadFrame \/ PutFrame \/ Retire \/ Stop \/ FailChannels \/ SupCredit \/ SupCancel
               \/ ReportPorts \/ UNCHANGED vars
        PROVE  UNCHANGED commands
    BY <1>5 DEF ReadPorts, ReadFrame, PutFrame, Retire, Stop, FailChannels, SupCredit, SupCancel, ReportPorts,
                vars
  <1> QED BY StepCases, <1>1, <1>2, <1>3, <1>4, <1>5, Zenon

\* Processes are left behind only by commands.
LEMMA ChildrenSteps ==
  ASSUME [Next]_vars, Types
  PROVE  \/ children' \subseteq children
         \/ \E c \in commands : children' \subseteq children \cup {c} /\ UNCHANGED <<commands, fromSup, active, fresh, counted>>
  <1>1. ASSUME NEW c \in Calls, End(c)
        PROVE  c \in commands /\ children' \subseteq children \cup {c} /\ UNCHANGED <<commands, fromSup, active, fresh, counted>>
    BY <1>1 DEF End, Types
  <1>4. ASSUME NEW c \in Calls, Kill(c)
        PROVE  \/ children' \subseteq children
               \/ c \in commands /\ children' \subseteq children \cup {c} /\ UNCHANGED <<commands, fromSup, active, fresh, counted>>
    BY <1>4 DEF Kill, Types
  <1>2. ASSUME NEW c \in Calls,
               \/ Admit(c) \/ SendExec(c) \/ TakeData(c) \/ SendCredit(c) \/ TakeExit(c)
               \/ TakeError(c) \/ SendCancel(c) \/ Leave(c) \/ PollExit(c) \/ ReadPipe(c) \/ ReportExit(c)
               \/ Write(c) \/ ChildrenEnd(c)
        PROVE  children' \subseteq children
    BY <1>2 DEF Admit, SendExec, TakeData, SendCredit, TakeExit, TakeError, SendCancel, Leave, PollExit,
                ReadPipe, ReportExit, Write, ChildrenEnd
  <1>3. ASSUME \/ ReadPorts \/ ReadFrame \/ PutFrame \/ Retire \/ Stop \/ FailChannels \/ KillAll \/ SupExec \/ SupCredit
               \/ SupCancel \/ ReportPorts \/ UNCHANGED vars
        PROVE  children' \subseteq children
    BY <1>3 DEF ReadPorts, ReadFrame, PutFrame, Retire, Stop, FailChannels, KillAll, SupExec, SupCredit,
                SupCancel, ReportPorts, vars
  <1> QED BY StepCases, <1>1, <1>2, <1>3, <1>4, Zenon

\* A heartbeat is the only news that counts.
LEMMA FreshSteps ==
  ASSUME [Next]_vars
  PROVE  fresh' = FALSE \/ ReadPorts \/ UNCHANGED <<fresh, counted>>
  <1>1. ASSUME NEW c \in Calls, Admit(c) \/ SendExec(c) \/ TakeExit(c) \/ TakeError(c) \/ Leave(c)
        PROVE  fresh' = FALSE \/ UNCHANGED <<fresh, counted>>
    BY <1>1 DEF Admit, SendExec, TakeExit, TakeError, Leave, Quit, Activity
  <1>2. ASSUME NEW c \in Calls,
               \/ TakeData(c) \/ SendCredit(c) \/ SendCancel(c) \/ Kill(c) \/ PollExit(c) \/ ReadPipe(c) \/ ReportExit(c)
               \/ Write(c) \/ End(c) \/ ChildrenEnd(c)
        PROVE  UNCHANGED <<fresh, counted>>
    BY <1>2 DEF TakeData, SendCredit, SendCancel, Kill, PollExit, ReadPipe, ReportExit, Write, End,
                ChildrenEnd
  <1>3. ASSUME \/ ReadFrame \/ PutFrame \/ Retire \/ Stop \/ FailChannels \/ KillAll \/ SupExec \/ SupCredit
               \/ SupCancel \/ ReportPorts \/ UNCHANGED vars
        PROVE  fresh' = FALSE \/ UNCHANGED <<fresh, counted>>
    BY <1>3 DEF ReadFrame, PutFrame, Retire, Stop, FailChannels, KillAll, SupExec, SupCredit, SupCancel,
                ReportPorts, vars, Activity
  <1> QED BY StepCases, <1>1, <1>2, <1>3, Zenon

\* An error is told only of what does not run.
LEMMA ErrorSteps ==
  ASSUME Types, Piped, OnItsWay, Window, SupExec \/ SupCredit \/ SupCancel,
         fromSup' = Append(fromSup, <<"error", Head(toSup)[2]>>)
  PROVE  Head(toSup)[2] \notin commands /\ UNCHANGED <<commands, active>>
  <1>1. fromSup' # fromSup
    <2>1. Head(toSup)[2] \in Calls BY SupFrame
    <2>2. <<"error", Head(toSup)[2]>> \in Reports BY <2>1 DEF Reports, Frames
    <2> QED BY <2>2, Emitting
  <1>2. CASE SupExec BY <1>1, <1>2, ExecArrives DEF SupExec, Unknown
  <1>3. CASE SupCredit BY <1>1, <1>3, CreditFits DEF SupCredit
  <1>4. CASE SupCancel BY <1>1, <1>4 DEF SupCancel
  <1> QED BY <1>2, <1>3, <1>4

LEMMA SlotsStep ==
  ASSUME Types, Piped, OnItsWay, Slots, Window, [Next]_vars
  PROVE  Slots'
  <1> DEFINE Ends(f) == f[1] \in {"exit", "error"}
  <1>1. commands' \subseteq active'
    <2>1. CASE UNCHANGED commands
      <3>1. fromSup # <<>> /\ fromSup[1][1] \in {"exit", "error"} => fromSup[1][2] \notin commands
        BY Reading DEF Slots, Piped
      <3> QED BY <2>1, <3>1, ActiveSteps DEF Slots
    <2>2. CASE SupExec /\ commands' = commands \cup {Head(toSup)[2]} /\ UNCHANGED <<fromSup, active>>
      BY <2>2, ExecArrives DEF Slots
    <2> QED BY <2>1, <2>2, CommandSteps DEF Slots
  <1>2. \A q \in 1..Len(fromSup') : Ends(fromSup'[q]) => fromSup'[q][2] \notin commands'
    <2> DEFINE Over == \A q \in 1..Len(fromSup') : Ends(fromSup'[q]) => fromSup'[q][2] \notin commands'
    <2>1. ASSUME SupExec, commands' = commands \cup {Head(toSup)[2]}, UNCHANGED fromSup PROVE Over
      <3>1. \A i \in 1..Len(fromSup) : fromSup[i] \notin Answers(Head(toSup)[2])
        BY <2>1, ExecArrives DEF Unknown
      <3>2. \A i \in 1..Len(fromSup) : Ends(fromSup[i]) => fromSup[i][2] # Head(toSup)[2]
        BY <3>1, Pairs DEF Answers
      <3> QED BY <2>1, <3>2 DEF Slots
    <2>2. ASSUME NEW c \in Calls, fromSup' = Append(fromSup, <<"exit", c>>), commands' = commands \ {c} PROVE Over
      <3>1. <<"exit", c>> \in Reports BY DEF Reports, Frames
      <3> QED BY <2>2, <3>1, Emitting DEF Slots
    <2>3. ASSUME NEW c \in Calls, c \notin commands, fromSup' = Append(fromSup, <<"error", c>>), UNCHANGED commands PROVE Over
      <3>1. <<"error", c>> \in Reports BY DEF Reports, Frames
      <3> QED BY <2>3, <3>1, Emitting DEF Slots
    <2>4. ASSUME NEW f \in Reports, ~Ends(f), fromSup' = Append(fromSup, f), UNCHANGED commands PROVE Over
      BY <2>4, Emitting DEF Slots
    <2>5. ASSUME fromSup # <<>>, fromSup' = Tail(fromSup), UNCHANGED commands PROVE Over
      BY <2>5, Reading DEF Slots
    <2>6. ASSUME fromSup' = <<>> PROVE Over BY <2>6
    <2>7. ASSUME UNCHANGED <<fromSup, commands>> PROVE Over BY <2>7 DEF Slots
    <2>8. \A c \in Calls : <<"data", c>> \in Reports /\ ~Ends(<<"data", c>>) BY DEF Reports, Frames
    <2>9. LET f == <<"ports", running \cup children # {}>> IN f \in Reports /\ ~Ends(f) BY
      DEF Reports
    <2>10. ASSUME NEW c \in Calls, SupExec \/ SupCredit \/ SupCancel, Head(toSup)[2] = c, fromSup' = Append(fromSup, <<"error", c>>)
           PROVE  c \notin commands /\ UNCHANGED commands
      BY <2>10, ErrorSteps
    <2>11. ASSUME NEW c \in Calls, ReportExit(c) PROVE commands' = commands \ {c} BY <2>11
      DEF ReportExit
    <2>12. ASSUME NEW c \in Calls, ReadPipe(c) PROVE UNCHANGED commands BY <2>12 DEF ReadPipe
    <2>13. ReportPorts \/ ReadPorts \/ ReadFrame => UNCHANGED commands BY DEF ReportPorts,
                                                                              ReadPorts, ReadFrame
    <2>14. UNCHANGED fromSup => UNCHANGED commands \/ (SupExec /\ commands' = commands \cup {Head(toSup)[2]}) \/ fromSup' = <<>>
      <3>1. ASSUME NEW c \in Calls, fromSup' = Append(fromSup, <<"exit", c>>) PROVE fromSup' # fromSup
        <4>1. <<"exit", c>> \in Reports BY DEF Reports, Frames
        <4> QED BY <3>1, <4>1, Emitting
      <3> QED BY <3>1, CommandSteps
    <2> HIDE DEF Over
    <2>15. Over BY FromSupSteps, <2>1, <2>2, <2>3, <2>4, <2>5, <2>6, <2>7, <2>8, <2>9, <2>10, <2>11, <2>12, <2>13, <2>14
    <2> QED BY <2>15 DEF Over
  <1>3. \A q \in 1..Len(fromSup') : fromSup'[q][1] = "exit" =>
            /\ fromSup'[q][2] \in active'
            /\ \A p \in 1..(q - 1) : Ends(fromSup'[p]) => fromSup'[p][2] # fromSup'[q][2]
    <2> DEFINE First == \A q \in 1..Len(fromSup') : fromSup'[q][1] = "exit" =>
            /\ fromSup'[q][2] \in active'
            /\ \A p \in 1..(q - 1) : Ends(fromSup'[p]) => fromSup'[p][2] # fromSup'[q][2]
    <2>1. ASSUME NEW c \in Calls, fromSup' = Append(fromSup, <<"exit", c>>), c \in commands, UNCHANGED active PROVE First
      <3>1. <<"exit", c>> \in Reports BY DEF Reports, Frames
      <3>2. \A p \in 1..Len(fromSup) : Ends(fromSup[p]) => fromSup[p][2] # c BY <2>1 DEF Slots
      <3>3. c \in active BY <2>1 DEF Slots
      <3> QED BY <2>1, <3>1, <3>2, <3>3, Emitting DEF Slots
    <2>2. ASSUME NEW f \in Reports, f[1] # "exit", fromSup' = Append(fromSup, f), UNCHANGED active PROVE First
      BY <2>2, Emitting DEF Slots
    <2>3. ASSUME fromSup # <<>>, fromSup' = Tail(fromSup),
                 active' = active \/ (Ends(fromSup[1]) /\ active' = active \ {fromSup[1][2]})
          PROVE First
      <3> SUFFICES ASSUME NEW q \in 1..Len(fromSup'), fromSup'[q][1] = "exit"
                   PROVE  /\ fromSup'[q][2] \in active'
                          /\ \A p \in 1..(q - 1) : Ends(fromSup'[p]) => fromSup'[p][2] # fromSup'[q][2]
        OBVIOUS
      <3>1. /\ q + 1 \in 1..Len(fromSup) /\ fromSup'[q] = fromSup[q + 1] /\ 1 \in 1..((q + 1) - 1)
            /\ \A p \in 1..(q - 1) : fromSup'[p] = fromSup[p + 1] /\ p + 1 \in 1..((q + 1) - 1)
        BY <2>3, Reading
      <3>2. /\ fromSup[q + 1][2] \in active
            /\ \A p \in 1..((q + 1) - 1) : Ends(fromSup[p]) => fromSup[p][2] # fromSup[q + 1][2]
        BY <3>1 DEF Slots
      <3> QED BY <2>3, <3>1, <3>2
    <2>4. ASSUME fromSup' = <<>> PROVE First BY <2>4
    <2>5. ASSUME UNCHANGED fromSup, active \subseteq active' PROVE First BY <2>5 DEF Slots
    <2>6. \A c \in Calls : {<<"data", c>>, <<"error", c>>} \subseteq Reports BY DEF Reports, Frames
    <2>7. <<"ports", running \cup children # {}>> \in Reports BY DEF Reports
    <2>8. ASSUME NEW c \in Calls, ReadPipe(c) \/ ReportExit(c) PROVE UNCHANGED active BY <2>8
      DEF ReadPipe, ReportExit
    <2>9. ReportPorts \/ ReadPorts \/ SupExec \/ SupCredit \/ SupCancel => UNCHANGED active
      BY DEF ReportPorts, ReadPorts, SupExec, SupCredit, SupCancel
    <2>10. ASSUME NEW c \in Calls, ReportExit(c) PROVE c \in commands BY <2>10 DEF ReportExit, Types
    <2>11. ReadFrame => active' = active \/ (Ends(fromSup[1]) /\ active' = active \ {fromSup[1][2]})
      <3> SUFFICES ASSUME ReadFrame PROVE active' = active \/ (Ends(fromSup[1]) /\ active' = active \ {fromSup[1][2]})
        OBVIOUS
      <3>1. Head(fromSup) = fromSup[1] BY Reading DEF ReadFrame, Reads
      <3> QED BY <3>1 DEF ReadFrame
    <2>12. UNCHANGED fromSup => active \subseteq active'
      <3>1. ASSUME fromSup # <<>>, fromSup' = Tail(fromSup) PROVE fromSup' # fromSup
        <4>1. Len(fromSup) \in Nat /\ Len(fromSup') = Len(fromSup) - 1 BY <3>1, Reading
        <4> QED BY <4>1
      <3> QED BY <3>1, ActiveSteps
    <2> HIDE DEF First
    <2>13. First BY FromSupSteps, <2>1, <2>2, <2>3, <2>4, <2>5, <2>6, <2>7, <2>8, <2>9, <2>10, <2>11, <2>12
    <2> QED BY <2>13 DEF First
  <1> QED BY <1>1, <1>2, <1>3 DEF Slots

LEMMA HeartbeatStep ==
  ASSUME Types, Piped, Calling, OnItsWay, Slots, Heartbeat, Window, [Next]_vars
  PROVE  Heartbeat'
  <1> DEFINE Exiting(c, p, s) == \E q \in (p + 1)..Len(s) : s[q] = <<"exit", c>>
             Quiet(s, now, kids) == \A p \in 1..Len(s) : s[p] = NothingRuns =>
                                      \A c \in kids : c \in now \/ Exiting(c, p, s)
  <1>1. Quiet(fromSup', commands', children')
    <2>1. Quiet(fromSup, commands, children) BY DEF Heartbeat
    <2>2. Quiet(fromSup, commands, children')
      <3>1. children' \subseteq children \cup commands BY ChildrenSteps
      <3> QED BY <2>1, <3>1
    <2>3. ASSUME NEW f \in Reports, fromSup' = Append(fromSup, f),
                 f # NothingRuns \/ children' = {},
                 \A c \in commands : c \in commands' \/ f = <<"exit", c>>
          PROVE Quiet(fromSup', commands', children')
      <3> SUFFICES ASSUME NEW p \in 1..Len(fromSup'), fromSup'[p] = NothingRuns, NEW c \in children'
                   PROVE  c \in commands' \/ Exiting(c, p, fromSup')
        OBVIOUS
      <3>1. /\ Len(fromSup) \in Nat /\ Len(fromSup') = Len(fromSup) + 1
            /\ \A i \in 1..Len(fromSup) : fromSup'[i] = fromSup[i]
            /\ fromSup'[Len(fromSup) + 1] = f
        BY <2>3, Emitting
      <3>2. p \in 1..Len(fromSup) /\ fromSup[p] = NothingRuns BY <2>3, <3>1
      <3>3. CASE Exiting(c, p, fromSup) BY <3>1, <3>3
      <3>4. CASE c \in commands BY <2>3, <3>1, <3>2, <3>4
      <3> QED BY <2>2, <3>2, <3>3, <3>4
    <2>4. ASSUME fromSup # <<>>, fromSup' = Tail(fromSup), UNCHANGED commands
          PROVE Quiet(fromSup', commands', children')
      <3> SUFFICES ASSUME NEW p \in 1..Len(fromSup'), fromSup'[p] = NothingRuns, NEW c \in children'
                   PROVE  c \in commands' \/ Exiting(c, p, fromSup')
        OBVIOUS
      <3>1. /\ Len(fromSup) \in Nat \ {0} /\ Len(fromSup') = Len(fromSup) - 1
            /\ \A i \in 1..Len(fromSup') : fromSup'[i] = fromSup[i + 1]
        BY <2>4, Reading
      <3>2. p + 1 \in 1..Len(fromSup) /\ fromSup[p + 1] = NothingRuns BY <3>1
      <3>3. CASE c \in commands BY <2>4, <3>3
      <3>4. CASE Exiting(c, p + 1, fromSup)
        <4>1. PICK q \in (p + 2)..Len(fromSup) : fromSup[q] = <<"exit", c>> BY <3>4
        <4>2. q - 1 \in (p + 1)..Len(fromSup') /\ fromSup'[q - 1] = <<"exit", c>> BY <3>1, <4>1
        <4> QED BY <4>2
      <3> QED BY <2>2, <3>2, <3>3, <3>4
    <2>5. ASSUME fromSup' = <<>> PROVE Quiet(fromSup', commands', children') BY <2>5
    <2>6. ASSUME UNCHANGED fromSup, commands \subseteq commands' PROVE Quiet(fromSup', commands', children')
      BY <2>2, <2>6
    <2>7. ASSUME NEW c \in Calls, SupExec \/ SupCredit \/ SupCancel, Head(toSup)[2] = c,
                 fromSup' = Append(fromSup, <<"error", c>>)
          PROVE  UNCHANGED commands
      BY <2>7, ErrorSteps
    <2>8. ASSUME NEW c \in Calls, ReportExit(c) PROVE commands' = commands \ {c} BY <2>8
      DEF ReportExit
    <2>9. ASSUME NEW c \in Calls, ReadPipe(c) PROVE UNCHANGED commands BY <2>9 DEF ReadPipe
    <2>10. ReadPorts \/ ReadFrame \/ ReportPorts => UNCHANGED commands BY DEF ReadPorts, ReadFrame,
                                                                              ReportPorts
    <2>11. \A c \in Calls : /\ {<<"data", c>>, <<"exit", c>>, <<"error", c>>} \subseteq Reports
                            /\ <<"data", c>> # NothingRuns /\ <<"exit", c>> # NothingRuns
                            /\ <<"error", c>> # NothingRuns
      BY DEF Reports, Frames, NothingRuns
    <2>12. ReportPorts => LET f == <<"ports", running \cup children # {}>>
                          IN f \in Reports /\ (f # NothingRuns \/ children' = {})
      BY DEF ReportPorts, Reports, NothingRuns
    <2>13. UNCHANGED fromSup => commands \subseteq commands' \/ fromSup' = <<>>
      <3>1. ASSUME NEW c \in Calls, fromSup' = Append(fromSup, <<"exit", c>>) PROVE fromSup' # fromSup
        <4>1. Len(fromSup) \in Nat /\ Len(fromSup') = Len(fromSup) + 1 BY <2>11, <3>1, Emitting
        <4> QED BY <4>1
      <3> QED BY <3>1, CommandSteps
    <2>14. commands \subseteq Calls BY DEF Types
    <2> HIDE DEF Quiet
    <2>15. ASSUME NEW c \in Calls, ReportExit(c), fromSup' = Append(fromSup, <<"exit", c>>)
           PROVE  Quiet(fromSup', commands', children')
      BY <2>3, <2>8, <2>11, <2>15
    <2>16. ASSUME NEW c \in Calls, fromSup' = Append(fromSup, <<"data", c>>), UNCHANGED commands
           PROVE  Quiet(fromSup', commands', children')
      BY <2>3, <2>11, <2>16
    <2>17. ASSUME NEW c \in Calls, fromSup' = Append(fromSup, <<"error", c>>), UNCHANGED commands
           PROVE  Quiet(fromSup', commands', children')
      BY <2>3, <2>11, <2>17
    <2>18. ASSUME ReportPorts, fromSup' = Append(fromSup, <<"ports", running \cup children # {}>>)
           PROVE  Quiet(fromSup', commands', children')
      BY <2>3, <2>10, <2>12, <2>18
    <2> QED BY FromSupSteps, <2>4, <2>5, <2>6, <2>7, <2>9, <2>10, <2>13, <2>15, <2>16, <2>17, <2>18, Zenon
  <1>2. ASSUME fresh', ~counted' PROVE children' \subseteq active'
    <2>1. CASE ReadPorts
      <3>1. Head(fromSup) = fromSup[1] /\ 1 \in 1..Len(fromSup) /\ fromSup[1] \in Reports /\ fromSup[1][1] = "ports"
        BY <2>1, Reading DEF ReadPorts, Reads
      <3>2. fromSup[1] = <<"ports", fromSup[1][2]>> /\ fromSup[1][2] = counted'
        BY <2>1, <3>1 DEF Reports, Frames, ReadPorts
      <3>3. fromSup[1] = NothingRuns BY <1>2, <3>2, TypesStep DEF Types, NothingRuns
      <3>4. \A c \in children : c \in commands \/ \E q \in (1 + 1)..Len(fromSup) : fromSup[q] = <<"exit", c>>
        BY <3>1, <3>3 DEF Heartbeat
      <3>5. \A c \in children : c \in commands \/ \E q \in 1..Len(fromSup) : fromSup[q] = <<"exit", c>>
        BY <3>4
      <3>6. ASSUME NEW c \in children PROVE c \in active
        <4>1. CASE c \in commands BY <4>1 DEF Slots
        <4>2. ASSUME NEW q \in 1..Len(fromSup), fromSup[q] = <<"exit", c>> PROVE c \in active
          <5>1. fromSup[q][1] = "exit" /\ fromSup[q][2] = c BY <4>2
          <5> QED BY <5>1 DEF Slots
        <4> QED BY <3>5, <4>1, <4>2
      <3>7. children' = children /\ active' = active BY <2>1 DEF ReadPorts
      <3> QED BY <3>6, <3>7
    <2>2. CASE UNCHANGED <<fresh, counted>> /\ ~ReadPorts
      <3>1. children \subseteq active BY <1>2, <2>2 DEF Heartbeat
      <3>2. children' \subseteq children \/ children' \subseteq active'
        BY <3>1, ChildrenSteps DEF Slots
      <3>3. active \subseteq active' BY <1>2, ActiveSteps
      <3> QED BY <3>1, <3>2, <3>3
    <2> QED BY <1>2, <2>1, <2>2, FreshSteps
  <1> QED BY <1>1, <1>2 DEF Heartbeat

LEMMA IdleStep ==
  ASSUME Types, Piped, Calling, OnItsWay, Slots, Heartbeat, Window, IdleIsEmpty, [Next]_vars
  PROVE  IdleIsEmpty'
  <1> SUFFICES ASSUME stopped' = "idle"
               PROVE  /\ commands' = {} /\ running' = {} /\ children' = {} /\ \A c \in Calls : ~Sent(c)'
    BY DEF IdleIsEmpty, InFlight, Sent
  <1>1. running' \subseteq commands' BY TypesStep DEF Types
  <1>2. CASE Retire
    <2>1. active = {} /\ ~counted /\ fresh BY <1>2 DEF Retire, IsIdle
    <2>2. commands = {} /\ children = {} BY <2>1 DEF Slots, Heartbeat
    <2>3. \A c \in Calls : ~Sent(c) BY <2>1 DEF OnItsWay
    <2>4. UNCHANGED <<commands, children, toSup>> BY <1>2 DEF Retire
    <2> QED BY <1>1, <2>2, <2>3, <2>4 DEF Sent
  <1>3. CASE stopped = "idle"
    <2>1. commands = {} /\ running = {} /\ children = {} /\ \A c \in Calls : ~Sent(c)
      BY <1>3 DEF IdleIsEmpty, InFlight, Sent
    <2>2. ~SupExec BY <2>1, SupFrame, ExecArrives
    <2>3. commands' = {} BY <2>1, <2>2, CommandSteps
    <2>4. children' = {} BY <2>1, ChildrenSteps
    <2>5. ASSUME NEW c \in Calls PROVE ~Sent(c)'
      <3>1. ~SendExec(c) BY <1>3 DEF SendExec
      <3>2. CASE UNCHANGED toSup BY <2>1, <3>2 DEF Sent
      <3>3. ASSUME NEW d \in Calls, NEW op \in {"credit", "cancel"}, toSup' = Append(toSup, <<op, d>>)
            PROVE  ~Sent(c)'
        <4>1. <<op, d>> \in Requests BY DEF Requests
        <4> QED BY <2>1, <3>3, <4>1, Sending DEF Sent
      <3>4. toSup # <<>> /\ toSup' = Tail(toSup) => ~Sent(c)' BY <2>1, Receiving DEF Sent
      <3>5. toSup' = <<>> => ~Sent(c)' BY DEF Sent
      <3>6. hand # <<>> => hand[2] \in Calls BY Pairs
      <3>7. \A d \in Calls : ~SendExec(d) BY <1>3 DEF SendExec
      <3> QED BY ToSupSteps, <3>2, <3>3, <3>4, <3>5, <3>6, <3>7
    <2> QED BY <1>1, <2>3, <2>4, <2>5
  <1> QED BY <1>2, <1>3, StoppedSteps
-----------------------------------------------------------------------------
(* The window *)

LEMMA Amounts ==
  ASSUME Types, Piped, NEW c \in Calls
  PROVE  /\ credits[c] \in Nat /\ made[c] \in Nat /\ got[c] \in Nat /\ buf[c] \in Nat /\ Queued(c) \in Nat
         /\ CreditsSent(c) \in Nat /\ DataRead(c) \in Nat /\ DataQueued(c) \in Nat
         /\ DataInHand(c) \in {0, 1} /\ DataWritten(c) \in {0, 1}
  BY Counts DEF Types, Queued, CreditsSent, DataRead, DataQueued, DataInHand, DataWritten

\* The credits of a call that are on their way.
LEMMA CreditsSentSteps ==
  ASSUME [Next]_vars, Types, Piped, NEW c \in Calls
  PROVE  /\ SendCredit(c) => CreditsSent(c)' \in {CreditsSent(c), CreditsSent(c) + 1}
         /\ SupCredit /\ Head(toSup)[2] = c => CreditsSent(c) = CreditsSent(c)' + 1
         /\ KillAll => CreditsSent(c)' = 0
         /\ ~SendCredit(c) /\ ~(SupCredit /\ Head(toSup)[2] = c) /\ ~KillAll => UNCHANGED CreditsSent(c)
  <1> DEFINE f == <<"credit", c>>
  <1>1. UNCHANGED toSup => UNCHANGED CreditsSent(c) BY DEF CreditsSent
  <1>2. ASSUME NEW d \in Calls, NEW op \in {"exec", "credit", "cancel"}, toSup' = Append(toSup, <<op, d>>)
        PROVE  Count(toSup', f) = Count(toSup, f) + (IF op = "credit" /\ d = c THEN 1 ELSE 0)
    <2>1. <<op, d>> \in Requests BY DEF Requests
    <2>2. <<op, d>> = f <=> op = "credit" /\ d = c OBVIOUS
    <2>3. Count(toSup', f) = Count(toSup, f) + (IF <<op, d>> = f THEN 1 ELSE 0) BY <1>2, <2>1, Sending
    <2> QED BY <2>2, <2>3
  <1>3. ASSUME SupExec \/ SupCredit \/ SupCancel
        PROVE  Count(toSup, f) = Count(toSup', f) + (IF SupCredit /\ Head(toSup)[2] = c THEN 1 ELSE 0)
    <2>1. Count(toSup, f) = Count(toSup', f) + (IF Head(toSup) = f THEN 1 ELSE 0)
      BY <1>3, SupFrame, Receiving
    <2>2. Head(toSup) = f <=> Head(toSup)[1] = "credit" /\ Head(toSup)[2] = c BY <1>3, SupFrame
    <2>3. Head(toSup)[1] = "credit" <=> SupCredit BY <1>3, SupFrame
    <2> QED BY <2>1, <2>2, <2>3
  <1>4. toSup' = <<>> => Count(toSup', f) = 0 BY CountNone
  <1>5. Count(toSup, f) \in Nat /\ Count(toSup', f) \in Nat BY Counts, PipedStep, CountType
    DEF Piped
  <1>6. hand # <<>> => hand[2] \in Calls BY Pairs
  <1>7. SendCredit(c) => CreditsSent(c)' \in {CreditsSent(c), CreditsSent(c) + 1}
    <2>1. SendCredit(c) => UNCHANGED toSup \/ toSup' = Append(toSup, f) BY DEF SendCredit, Send
    <2> QED BY <2>1, <1>2, <1>5 DEF CreditsSent
  <1>8. SupCredit /\ Head(toSup)[2] = c => CreditsSent(c) = CreditsSent(c)' + 1
    BY <1>3, <1>5 DEF CreditsSent
  <1>9. KillAll => CreditsSent(c)' = 0
    BY <1>4 DEF CreditsSent, KillAll
  <1>10. ASSUME ~SendCredit(c), ~(SupCredit /\ Head(toSup)[2] = c), ~KillAll PROVE UNCHANGED CreditsSent(c)
    <2> HIDE DEF f
    <2>1. toSup' = toSup \/ Count(toSup', f) = Count(toSup, f)
      BY <1>10, ToSupSteps, <1>2, <1>3, <1>5, <1>6
    <2> QED BY <2>1, <1>1 DEF CreditsSent, f
  <1> QED BY <1>7, <1>8, <1>9, <1>10

\* The data of a call in the pipe and in hand.
LEMMA DataReadSteps ==
  ASSUME [Next]_vars, Types, Piped, NEW c \in Calls
  PROVE  /\ ReadPipe(c) /\ c \notin discard => DataRead(c)' = DataRead(c) + 1
         /\ ReadFrame => /\ fromSup # <<>> /\ hand = <<>>
                         /\ IF fromSup[1] = <<"data", c>>
                            THEN /\ DataRead(c) = DataRead(c)' + 1
                                 /\ hand' = IF c \in channels THEN <<"data", c>> ELSE <<>>
                            ELSE UNCHANGED DataRead(c) /\ hand' # <<"data", c>>
         /\ KillAll => DataRead(c)' = 0
         /\ ~(ReadPipe(c) /\ c \notin discard) /\ ~ReadFrame /\ ~KillAll => UNCHANGED DataRead(c)
  <1> DEFINE f == <<"data", c>>
  <1>1. UNCHANGED fromSup => UNCHANGED DataRead(c) BY DEF DataRead
  <1>2. ASSUME NEW g \in Reports, fromSup' = Append(fromSup, g)
        PROVE  Count(fromSup', f) = Count(fromSup, f) + (IF g = f THEN 1 ELSE 0)
    BY <1>2, Emitting
  <1>3. \A d \in Calls : /\ {<<"data", d>>, <<"exit", d>>, <<"error", d>>} \subseteq Reports
                         /\ <<"exit", d>> # f /\ <<"error", d>> # f /\ (<<"data", d>> = f <=> d = c)
    BY DEF Reports, Frames
  <1>4. LET g == <<"ports", running \cup children # {}>> IN g \in Reports /\ g # f BY DEF Reports
  <1>5. Count(fromSup, f) \in Nat /\ Count(fromSup', f) \in Nat BY Counts, PipedStep, CountType DEF Piped
  <1>6. ASSUME ReadFrame
        PROVE  /\ fromSup # <<>> /\ hand = <<>>
               /\ IF fromSup[1] = f
                  THEN DataRead(c) = DataRead(c)' + 1 /\ hand' = IF c \in channels THEN f ELSE <<>>
                  ELSE UNCHANGED DataRead(c) /\ hand' # f
    <2>1. /\ fromSup # <<>> /\ hand = <<>> /\ fromSup' = Tail(fromSup) /\ Head(fromSup)[1] # "ports"
          /\ hand' = IF Head(fromSup)[2] \in channels THEN <<Head(fromSup)[1], Head(fromSup)[2]>> ELSE <<>>
      BY <1>6 DEF ReadFrame, Reads
    <2>2. /\ Head(fromSup) = fromSup[1] /\ 1 \in 1..Len(fromSup)
          /\ Count(fromSup, f) = Count(fromSup', f) + (IF Head(fromSup) = f THEN 1 ELSE 0)
      BY SMTT(30), <2>1, Reading
    <2>3. Head(fromSup) = <<Head(fromSup)[1], Head(fromSup)[2]>> BY <2>1, <2>2, Pairs
    <2>4. hand' = IF Head(fromSup)[2] \in channels THEN Head(fromSup) ELSE <<>> BY <2>1, <2>3
    <2>5. <<>> # f OBVIOUS
    <2>6. CASE Head(fromSup) = f
      <3>1. Head(fromSup)[2] = c BY <2>6
      <3> QED BY <1>6, <2>1, <2>2, <2>4, <2>6, <3>1 DEF DataRead
    <2>7. CASE Head(fromSup) # f
      <3>1. hand' # f BY <2>4, <2>5, <2>7
      <3>2. Count(fromSup, f) = Count(fromSup', f) BY <2>2, <2>7, <1>5
      <3> QED BY <1>6, <2>1, <2>2, <2>7, <3>1, <3>2 DEF DataRead
    <2> QED BY <2>6, <2>7
  <1>7. ASSUME ReadPorts PROVE UNCHANGED DataRead(c)
    <2>1. fromSup # <<>> /\ fromSup' = Tail(fromSup) /\ Head(fromSup)[1] = "ports"
      BY <1>7 DEF ReadPorts, Reads
    <2>2. Count(fromSup, f) = Count(fromSup', f) + (IF Head(fromSup) = f THEN 1 ELSE 0) BY <2>1, Reading
    <2>3. Head(fromSup) # f BY <2>1
    <2>4. Count(fromSup, f) = Count(fromSup', f) BY <2>2, <2>3, <1>5
    <2> QED BY <2>4 DEF DataRead
  <1>8. ASSUME KillAll PROVE DataRead(c)' = 0
    <2>1. fromSup' = <<>> BY <1>8 DEF KillAll
    <2>2. Count(fromSup', f) = 0 BY <2>1, CountNone
    <2> QED BY <1>8, <2>2 DEF DataRead
  <1>9. ASSUME ReadPipe(c), c \notin discard PROVE DataRead(c)' = DataRead(c) + 1
    <2>1. fromSup' = Append(fromSup, f) /\ f \in Reports BY <1>9, <1>3 DEF ReadPipe, Emit
    <2>2. Count(fromSup', f) = Count(fromSup, f) + 1 BY <2>1, <1>2
    <2> QED BY <1>9, <2>2 DEF DataRead
  <1>10. ASSUME ~ReadFrame, ~ReadPorts, ~KillAll, ~(ReadPipe(c) /\ c \notin discard) PROVE UNCHANGED DataRead(c)
    <2> HIDE DEF f
    <2>1. fromSup' = fromSup \/ \E g \in Reports : g # f /\ fromSup' = Append(fromSup, g)
      BY <1>10, <1>3, <1>4, FromSupSteps
    <2>2. UNCHANGED Count(fromSup, f) BY <2>1, <1>2, <1>5
    <2> QED BY <1>10, <2>2 DEF DataRead, f
  <1> QED BY <1>6, <1>7, <1>8, <1>9, <1>10

\* The data of a call in its queue.
LEMMA DataQueuedSteps ==
  ASSUME [Next]_vars, Types, Piped, NEW c \in Calls
  PROVE  /\ TakeData(c) => DataQueued(c) = DataQueued(c)' + 1
         /\ TakeExit(c) \/ TakeError(c) \/ Leave(c) => DataQueued(c)' = 0
         /\ FailChannels => DataQueued(c)' \in {0, DataQueued(c)}
         /\ PutFrame =>
              \/ /\ hand # <<"data", c>> \/ http[c] \in {"cancel", "ended"}
                 /\ UNCHANGED DataQueued(c)
              \/ hand = <<"data", c>> /\ DataQueued(c)' = DataQueued(c) + 1
              \/ DataQueued(c)' = 0 /\ c \notin channels'
         /\ /\ ~TakeData(c) /\ ~(TakeExit(c) \/ TakeError(c) \/ Leave(c)) /\ ~FailChannels /\ ~PutFrame
            => UNCHANGED DataQueued(c)
         /\ ~ReadFrame /\ ~PutFrame /\ ~FailChannels => UNCHANGED hand
  <1> DEFINE f == <<"data", c>>
  <1>1. ASSUME TakeData(c) PROVE DataQueued(c) = DataQueued(c)' + 1
    <2>1. /\ queue[c] # <<>> /\ Head(queue[c])[1] = "data" /\ queue' = [queue EXCEPT ![c] = Tail(@)] /\ UNCHANGED hand
      BY <1>1 DEF TakeData
    <2>2. /\ Count(queue[c], f) = Count(queue'[c], f) + (IF Head(queue[c]) = f THEN 1 ELSE 0)
          /\ Head(queue[c]) = queue[c][1] /\ 1 \in 1..Len(queue[c])
      <3>1. \A g : Count(queue[c], g) = Count(queue'[c], g) + (IF Head(queue[c]) = g THEN 1 ELSE 0)
        BY <2>1, Taking
      <3>2. Head(queue[c]) = queue[c][1] /\ 1 \in 1..Len(queue[c]) BY <2>1, QueueHead
      <3> QED BY <3>1, <3>2
    <2>3. Head(queue[c]) = f BY <2>1, <2>2, Pairs
    <2> QED BY <1>1, <2>1, <2>2, <2>3 DEF DataQueued
  <1>2. ASSUME TakeExit(c) \/ TakeError(c) \/ Leave(c) PROVE DataQueued(c)' = 0
    <2>1. queue' = [queue EXCEPT ![c] = <<>>] /\ UNCHANGED hand
      BY <1>2 DEF TakeExit, TakeError, Leave, Quit
    <2>2. queue'[c] = <<>> BY <2>1 DEF Piped
    <2> QED BY <1>2, <2>1, <2>2, CountNone DEF DataQueued
  <1>3. ASSUME FailChannels PROVE DataQueued(c)' \in {0, DataQueued(c)}
    <2>1. hand' = <<>> /\ queue'[c] \in {Failed(c), queue[c]} BY <1>3 DEF FailChannels, Failed
    <2> QED BY <1>3, <2>1, CountNone DEF DataQueued
  <1>4. ASSUME PutFrame
        PROVE  \/ (hand # f \/ http[c] \in {"cancel", "ended"}) /\ UNCHANGED DataQueued(c)
               \/ hand = f /\ DataQueued(c)' = DataQueued(c) + 1
               \/ DataQueued(c)' = 0 /\ c \notin channels'
    <2>1. hand # <<>> /\ hand' = <<>> /\ hand = <<hand[1], hand[2]>> /\ hand[2] \in Calls /\ hand \in Frames
      BY <1>4, Pairs DEF PutFrame, Piped
    <2>2. CASE http[hand[2]] \in {"cancel", "ended"}
      <3>1. UNCHANGED queue BY <1>4, <2>2 DEF PutFrame
      <3>3. UNCHANGED DataQueued(c) BY <3>1 DEF DataQueued
      <3>4. CASE hand = f
        <4>1. hand[2] = c BY <3>4
        <4> QED BY <2>2, <3>3, <4>1
      <3>5. CASE hand # f BY <3>3, <3>5
      <3> QED BY <3>4, <3>5
    <2>3. CASE http[hand[2]] \notin {"cancel", "ended"}
      <3>2. \/ queue' = [queue EXCEPT ![hand[2]] = Append(@, hand)]
            \/ queue' = [queue EXCEPT ![hand[2]] = Failed(hand[2])] /\ channels' = channels \ {hand[2]}
        BY <1>4, <2>3 DEF PutFrame, Failed
      <3>3. CASE hand[2] # c
        <4>1. queue'[c] = queue[c] BY <3>2, <3>3 DEF Piped
        <4>2. hand # f BY <3>3
        <4>3. UNCHANGED DataQueued(c) BY <4>1 DEF DataQueued
        <4> QED BY <4>2, <4>3
      <3>4. CASE hand[2] = c /\ queue' = [queue EXCEPT ![hand[2]] = Append(@, hand)]
        <4>1. /\ Count(queue'[c], f) = Count(queue[c], f) + (IF hand = f THEN 1 ELSE 0)
              /\ queue'[c] = Append(queue[c], hand)
          <5>1. queue' = [queue EXCEPT ![c] = Append(@, hand)] BY <3>4
          <5>2. hand \in Frames /\ queue[c] \in Seq(Frames) BY <2>1 DEF Piped
          <5>3. queue'[c] = Append(queue[c], hand) BY <5>1 DEF Piped
          <5>4. Count(Append(queue[c], hand), f) = Count(queue[c], f) + (IF hand = f THEN 1 ELSE 0)
            BY <5>2, CountAppend
          <5> QED BY <5>3, <5>4
        <4>2. Count(queue[c], f) \in Nat BY Counts
        <4>3. CASE hand = f BY <4>1, <4>3 DEF DataQueued
        <4>4. CASE hand # f
          <5>1. UNCHANGED DataQueued(c) BY <4>1, <4>2, <4>4 DEF DataQueued
          <5> QED BY <4>4, <5>1
        <4> QED BY <4>3, <4>4
      <3>5. CASE hand[2] = c /\ queue' = [queue EXCEPT ![hand[2]] = Failed(hand[2])] /\ channels' = channels \ {hand[2]}
        <4>1. queue'[c] = Failed(c) /\ c \notin channels' BY <3>5 DEF Piped
        <4> QED BY <4>1, CountNone DEF DataQueued
      <3> QED BY <3>2, <3>3, <3>4, <3>5
    <2> QED BY <2>2, <2>3
  <1>5. ASSUME ~TakeData(c), ~(TakeExit(c) \/ TakeError(c) \/ Leave(c)), ~FailChannels, ~PutFrame
        PROVE  UNCHANGED DataQueued(c)
    <2>1. ASSUME NEW d \in Calls, d # c, queue' = [queue EXCEPT ![d] = Tail(@)] PROVE queue'[c] = queue[c]
      BY <2>1 DEF Piped
    <2>2. ASSUME NEW d \in Calls, d # c, queue' = [queue EXCEPT ![d] = <<>>] PROVE queue'[c] = queue[c]
      BY <2>2 DEF Piped
    <2>3. queue'[c] = queue[c] BY <1>5, <2>1, <2>2, QueueSteps
    <2> QED BY <2>3 DEF DataQueued
  <1>6. ~ReadFrame /\ ~PutFrame /\ ~FailChannels => UNCHANGED hand BY QueueSteps
  <1> QED BY <1>1, <1>2, <1>3, <1>4, <1>5, <1>6

\* What stays keeps its amount.
LEMMA SameAmounts ==
  ASSUME NEW c \in Calls
  PROVE  /\ UNCHANGED fromSup => UNCHANGED DataRead(c)
         /\ UNCHANGED hand => UNCHANGED DataInHand(c)
         /\ UNCHANGED queue => UNCHANGED DataQueued(c)
         /\ UNCHANGED http => UNCHANGED DataWritten(c)
         /\ UNCHANGED toSup => UNCHANGED CreditsSent(c)
  BY DEF DataRead, DataInHand, DataQueued, DataWritten, CreditsSent

\* The credits a command has.
LEMMA CreditsSteps ==
  ASSUME [Next]_vars, Types, Piped, NEW c \in Calls
  PROVE  \/ UNCHANGED credits[c]
         \/ SupExec /\ Head(toSup)[2] = c /\ credits'[c] = QueueSize - 1 /\ UNCHANGED fromSup
         \/ SupCredit /\ Head(toSup)[2] = c /\ credits'[c] = credits[c] + 1
         \/ ReadPipe(c) /\ c \notin discard /\ credits[c] = credits'[c] + 1
         \/ (KillAll \/ ReportExit(c)) /\ credits'[c] = 0
  <1>1. SupExec => UNCHANGED credits[c] \/ (Head(toSup)[2] = c /\ credits'[c] = QueueSize - 1 /\ UNCHANGED fromSup)
    <2> SUFFICES ASSUME SupExec
        PROVE UNCHANGED credits[c] \/ (Head(toSup)[2] = c /\ credits'[c] = QueueSize - 1 /\ UNCHANGED fromSup)
      OBVIOUS
    <2> DEFINE d == Head(toSup)[2]
    <2>1. \/ UNCHANGED credits
          \/ credits' = [credits EXCEPT ![d] = QueueSize - 1] /\ UNCHANGED fromSup
      BY DEF SupExec
    <2>2. credits \in [Calls -> Nat] BY DEF Types
    <2> HIDE DEF d
    <2>3. UNCHANGED credits[c] \/ (d = c /\ credits'[c] = QueueSize - 1 /\ UNCHANGED fromSup)
      BY <2>1, <2>2
    <2> QED BY <2>3 DEF d
  <1>2. SupCredit => UNCHANGED credits[c] \/ (Head(toSup)[2] = c /\ credits'[c] = credits[c] + 1)
    BY SupFrame DEF SupCredit, Types
  <1>3. ASSUME NEW d \in Calls, ReadPipe(d)
        PROVE UNCHANGED credits[c] \/ (d = c /\ c \notin discard /\ credits[c] = credits'[c] + 1)
    <2>1. \/ UNCHANGED credits
          \/ d \notin discard /\ credits' = [credits EXCEPT ![d] = @ - 1]
      BY <1>3 DEF ReadPipe
    <2>2. credits \in [Calls -> Nat] BY DEF Types
    <2> QED BY <2>1, <2>2
  <1>4. ASSUME NEW d \in Calls, ReportExit(d) PROVE UNCHANGED credits[c] \/ (d = c /\ credits'[c] = 0)
    BY <1>4 DEF ReportExit, Types
  <1>5. KillAll => credits'[c] = 0 BY DEF KillAll
  <1>6. ASSUME NEW d \in Calls,
               \/ Admit(d) \/ SendExec(d) \/ TakeData(d) \/ SendCredit(d) \/ TakeExit(d)
               \/ TakeError(d) \/ SendCancel(d) \/ Leave(d) \/ Kill(d) \/ PollExit(d)
               \/ Write(d) \/ End(d) \/ ChildrenEnd(d)
        PROVE  UNCHANGED credits[c]
    BY <1>6 DEF Admit, SendExec, TakeData, SendCredit, TakeExit, TakeError, SendCancel, Leave, Kill, PollExit,
                Write, End, ChildrenEnd
  <1>7. ASSUME \/ ReadPorts \/ ReadFrame \/ PutFrame \/ Retire \/ Stop \/ FailChannels \/ SupCancel
               \/ ReportPorts \/ UNCHANGED vars
        PROVE  UNCHANGED credits[c]
    BY <1>7 DEF ReadPorts, ReadFrame, PutFrame, Retire, Stop, FailChannels, SupCancel, ReportPorts, vars
  <1> QED BY StepCases, <1>1, <1>2, <1>3, <1>4, <1>5, <1>6, <1>7

\* Nothing of an unknown call is between the supervisor and its caller.
LEMMA UnknownAmounts ==
  ASSUME Types, Piped, NEW c \in Calls, Unknown(c)
  PROVE  DataRead(c) = 0 /\ DataInHand(c) = 0 /\ DataQueued(c) = 0
  <1>1. DataRead(c) = 0
    <2>1. <<"data", c>> \in Answers(c) BY DEF Answers
    <2>2. \A i \in 1..Len(fromSup) : fromSup[i] # <<"data", c>> BY <2>1 DEF Unknown
    <2> QED BY <2>2, Counts DEF DataRead
  <1>2. DataInHand(c) = 0 BY DEF Unknown, DataInHand
  <1>3. DataQueued(c) = 0 BY CountNone DEF Unknown, DataQueued
  <1> QED BY <1>1, <1>2, <1>3

LEMMA WindowStep ==
  ASSUME Types, Piped, Calling, OnItsWay, ExecFirst, Window, [Next]_vars
  PROVE  Window'
  <1> SUFFICES ASSUME NEW c \in Calls
               PROVE  credits'[c] + CreditsSent(c)' + DataRead(c)' + DataInHand(c)' + DataQueued(c)' + DataWritten(c)'
                        <= QueueSize - 1
    BY DEF Window
  <1> DEFINE Total == credits[c] + CreditsSent(c) + DataRead(c) + DataInHand(c) + DataQueued(c) + DataWritten(c)
             Now   == /\ credits[c] \in Nat /\ CreditsSent(c) \in Nat /\ DataRead(c) \in Nat
                      /\ DataInHand(c) \in Nat /\ DataQueued(c) \in Nat /\ DataWritten(c) \in Nat
  <1>1. Now /\ Now'
    <2>1. Types' /\ Piped' BY TypesStep, PipedStep
    <2>2. Now BY Amounts
    <2>3. Now'
      <3>1. credits'[c] \in Nat /\ DataInHand(c)' \in Nat /\ DataWritten(c)' \in Nat
        BY <2>1 DEF Types, DataInHand, DataWritten
      <3>2. CreditsSent(c)' \in Nat /\ DataRead(c)' \in Nat /\ DataQueued(c)' \in Nat
        BY <2>1, CountType DEF Piped, CreditsSent, DataRead, DataQueued
      <3> QED BY <3>1, <3>2
    <2> QED BY <2>2, <2>3
  <1>2. Total <= QueueSize - 1 /\ QueueSize \in Nat \ {0, 1} BY ExecAssumption DEF Window
  <1>3. ASSUME Total' <= Total PROVE Total' <= QueueSize - 1
    <2>1. \A n, m \in Nat : n <= QueueSize - 1 /\ m <= n => m <= QueueSize - 1 BY <1>2
    <2>2. Total \in Nat /\ Total' \in Nat BY <1>1
    <2> HIDE DEF Total
    <2> QED BY <1>2, <1>3, <2>1, <2>2
  <1>4. CASE SendCredit(c)
    <2>1. UNCHANGED <<queue, hand, fromSup, credits>> /\ http[c] = "written" /\ http'[c] = "await"
      BY <1>4 DEF SendCredit, Types
    <2>2. DataWritten(c) = 1 /\ DataWritten(c)' = 0 BY <2>1 DEF DataWritten
    <2>3. CreditsSent(c)' \in {CreditsSent(c), CreditsSent(c) + 1} BY <1>4, CreditsSentSteps
    <2>4. Total' <= Total BY <2>1, <2>2, <2>3, SameAmounts, <1>1
    <2> QED BY <1>3, <2>4
  <1>5. CASE TakeData(c)
    <2>1. UNCHANGED <<toSup, hand, fromSup, credits>> /\ http[c] = "await" /\ http'[c] = "written"
      BY <1>5 DEF TakeData, Types
    <2>2. DataWritten(c) = 0 /\ DataWritten(c)' = 1 BY <2>1 DEF DataWritten
    <2>3. DataQueued(c) = DataQueued(c)' + 1 BY <1>5, DataQueuedSteps
    <2>4. Total' <= Total BY <2>1, <2>2, <2>3, SameAmounts, <1>1
    <2> QED BY <1>3, <2>4
  <1>6. CASE TakeExit(c) \/ TakeError(c) \/ Leave(c)
    <2>1. UNCHANGED <<toSup, hand, fromSup, credits>> /\ http'[c] \in {"ended", "cancel"}
      BY <1>6 DEF TakeExit, TakeError, Leave, Quit, Types
    <2>2. DataWritten(c)' = 0 BY <2>1 DEF DataWritten
    <2>3. DataQueued(c)' = 0 BY <1>6, DataQueuedSteps
    <2>4. Total' <= Total BY <2>1, <2>2, <2>3, SameAmounts, <1>1
    <2> QED BY <1>3, <2>4
  <1>7. CASE ReadPipe(c)
    <2>1. UNCHANGED <<toSup, hand, queue, http>>
          /\ (UNCHANGED <<credits, fromSup>> \/ (c \notin discard /\ credits'[c] = credits[c] - 1))
      BY <1>7 DEF ReadPipe, Types
    <2>2. c \notin discard => DataRead(c)' = DataRead(c) + 1 BY <1>7, DataReadSteps
    <2>3. Total' <= Total BY <2>1, <2>2, SameAmounts, <1>1
    <2> QED BY <1>3, <2>3
  <1>8. CASE ReadFrame
    <2>1. UNCHANGED <<toSup, queue, http, credits>> BY <1>8 DEF ReadFrame
    <2>2. DataRead(c)' + DataInHand(c)' <= DataRead(c) + DataInHand(c)
      BY <1>1, <1>8, DataReadSteps DEF DataInHand
    <2>3. Total' <= Total BY <2>1, <2>2, SameAmounts, <1>1
    <2> QED BY <1>3, <2>3
  <1>9. CASE PutFrame
    <2>1. UNCHANGED <<fromSup, http, credits>> /\ hand' = <<>> BY <1>9 DEF PutFrame
    <2>2. DataInHand(c)' = 0 BY <2>1 DEF DataInHand
    <2>3. DataQueued(c)' <= DataInHand(c) + DataQueued(c)
      BY <1>1, <1>9, DataQueuedSteps DEF DataInHand
    <2>4. UNCHANGED CreditsSent(c)
      <3>1. ~SendCredit(c) /\ ~SupCredit /\ ~KillAll
        BY <1>9, <2>1 DEF PutFrame, SendCredit, SupCredit, KillAll
      <3> QED BY <3>1, CreditsSentSteps
    <2>5. Total' <= Total BY <2>1, <2>2, <2>3, <2>4, SameAmounts, <1>1
    <2> QED BY <1>3, <2>5
  <1>10. CASE SupExec /\ Head(toSup)[2] = c /\ credits'[c] = QueueSize - 1 /\ UNCHANGED fromSup
    <2>1. UNCHANGED <<queue, http, hand>> BY <1>10 DEF SupExec
    <2>2. Unknown(c) /\ Sent(c) /\ DataWritten(c) = 0
      BY <1>10, ExecArrives DEF OnItsWay, DataWritten
    <2>3. DataRead(c)' = 0 /\ DataInHand(c)' = 0 /\ DataQueued(c)' = 0 /\ DataWritten(c)' = 0
      BY <1>10, <2>1, <2>2, UnknownAmounts, SameAmounts
    <2>4. CreditsSent(c)' = 0
      <3>1. toSup' = Tail(toSup) /\ toSup # <<>> /\ 1 \in 1..Len(toSup) /\ toSup[1] = <<"exec", c>>
        BY <1>10, SupFrame
      <3>2. \A i \in 1..Len(toSup) : toSup[i] # <<"credit", c>>
        <4> SUFFICES ASSUME NEW i \in 1..Len(toSup), toSup[i] = <<"credit", c>> PROVE FALSE OBVIOUS
        <4>1. toSup[1][1] = "exec" /\ toSup[i][2] = toSup[1][2] /\ toSup[i][1] = "credit" BY <3>1
        <4> QED BY <3>1, <4>1 DEF ExecFirst
      <3>3. CreditsSent(c) = 0 BY <3>2, Counts DEF CreditsSent
      <3>4. ~SendCredit(c) /\ ~SupCredit /\ ~KillAll
        <4>1. ~SendCredit(c) BY <2>1 DEF SendCredit, Types
        <4>2. ~SupCredit BY <1>10, SupFrame
        <4>3. ~KillAll BY <1>10 DEF SupExec, KillAll
        <4> QED BY <4>1, <4>2, <4>3
      <3> QED BY <3>3, <3>4, CreditsSentSteps
    <2> QED BY <1>10, <2>3, <2>4, <1>2
  <1>11. CASE SupCredit /\ Head(toSup)[2] = c
    <2>1. UNCHANGED <<queue, http, hand>> BY <1>11 DEF SupCredit
    <2>2. UNCHANGED fromSup BY <1>11, CreditFits DEF SupCredit
    <2>3. CreditsSent(c) = CreditsSent(c)' + 1 BY <1>11, CreditsSentSteps
    <2>4. credits'[c] \in {credits[c], credits[c] + 1} BY <1>11 DEF SupCredit, Types
    <2>5. Total' <= Total BY <2>1, <2>2, <2>3, <2>4, SameAmounts, <1>1
    <2> QED BY <1>3, <2>5
  <1>12. CASE KillAll
    <2>1. UNCHANGED <<http, hand, queue>> /\ credits'[c] = 0 BY <1>12 DEF KillAll
    <2>2. CreditsSent(c)' = 0 BY <1>12, CreditsSentSteps
    <2>3. DataRead(c)' = 0 BY <1>12, DataReadSteps
    <2>4. Total' <= Total BY <2>1, <2>2, <2>3, SameAmounts, <1>1
    <2> QED BY <1>3, <2>4
  <1>14. CASE FailChannels
    <2>1. UNCHANGED <<http, credits, toSup, fromSup>> /\ hand' = <<>> BY <1>14 DEF FailChannels
    <2>2. DataQueued(c)' <= DataQueued(c) BY <1>1, <1>14, DataQueuedSteps
    <2>3. DataInHand(c)' = 0 BY <2>1 DEF DataInHand
    <2>4. Total' <= Total BY <2>1, <2>2, <2>3, SameAmounts, <1>1
    <2> QED BY <1>3, <2>4
  <1>13. ASSUME ~SendCredit(c), ~TakeData(c), ~(TakeExit(c) \/ TakeError(c) \/ Leave(c)), ~ReadPipe(c),
                ~ReadFrame, ~PutFrame, ~(SupCredit /\ Head(toSup)[2] = c), ~FailChannels, ~KillAll,
                ~(SupExec /\ Head(toSup)[2] = c /\ credits'[c] = QueueSize - 1 /\ UNCHANGED fromSup)
         PROVE  Total' <= QueueSize - 1
    <2>1. UNCHANGED <<CreditsSent(c), DataRead(c), DataQueued(c), hand>>
      BY <1>13, CreditsSentSteps, DataReadSteps, DataQueuedSteps
    <2>2. UNCHANGED DataInHand(c) BY <2>1, SameAmounts
    <2>3. DataWritten(c)' <= DataWritten(c)
      <3>1. http'[c] = "written" => http[c] = "written" BY <1>13, HttpSteps
      <3> QED BY <3>1 DEF DataWritten
    <2>4. credits'[c] <= credits[c] BY <1>1, <1>13, CreditsSteps
    <2>5. Total' <= Total BY <2>1, <2>2, <2>3, <2>4, <1>1
    <2> QED BY <1>3, <2>5
  <1> QED BY <1>4, <1>5, <1>6, <1>7, <1>8, <1>9, <1>10, <1>11, <1>12, <1>13, <1>14
-----------------------------------------------------------------------------
(* Output *)

\* What a command has written and what is not yet read of it.
LEMMA OutputSteps ==
  ASSUME [Next]_vars, Types, Piped, NEW c \in Calls
  PROVE  \/ /\ UNCHANGED <<made[c], Queued(c)>> /\ ~(ReadPipe(c) /\ c \notin discard)
            /\ c \notin commands => buf'[c] \in {0, buf[c]}
         \/ Write(c) /\ c \in commands /\ c \notin exited /\ made'[c] = made[c] + 1 /\ Queued(c)' = Queued(c) + 1
         \/ ReadPipe(c) /\ c \in commands /\ UNCHANGED made[c] /\ Queued(c) = Queued(c)' + 1
         \/ KillAll /\ UNCHANGED made[c] /\ buf'[c] = 0
  <1>1. Write(c) => /\ c \in commands
                    /\ \/ c \notin exited /\ made'[c] = made[c] + 1 /\ Queued(c)' = Queued(c) + 1
                       \/ UNCHANGED <<made[c], Queued(c)>>
    BY DEF Write, Types, Queued
  <1>2. ReadPipe(c) => c \in commands /\ UNCHANGED made[c] /\ Queued(c) = Queued(c)' + 1
    BY DEF ReadPipe, Types, Queued
  <1>3. KillAll => UNCHANGED made[c] /\ buf'[c] = 0 BY DEF KillAll
  <1>4. ASSUME NEW d \in Calls, d # c, Write(d) \/ ReadPipe(d) \/ ReportExit(d) \/ PollExit(d)
        PROVE UNCHANGED <<made[c], Queued(c), buf[c]>>
    BY <1>4 DEF Write, ReadPipe, ReportExit, PollExit, Types, Queued
  <1>7. PollExit(c) => UNCHANGED <<made[c], Queued(c), buf[c]>> BY DEF PollExit, Types, Queued
  <1>8. ReportExit(c) => UNCHANGED <<made[c], Queued(c)>> /\ c \in commands
    BY DEF ReportExit, Types, Queued
  <1>5. ASSUME NEW d \in Calls,
               \/ Admit(d) \/ SendExec(d) \/ TakeData(d) \/ SendCredit(d) \/ TakeExit(d)
               \/ TakeError(d) \/ SendCancel(d) \/ Leave(d) \/ Kill(d)
               \/ End(d) \/ ChildrenEnd(d)
        PROVE  UNCHANGED <<made[c], Queued(c), buf[c]>>
    BY <1>5 DEF Admit, SendExec, TakeData, SendCredit, TakeExit, TakeError, SendCancel, Leave, Kill,
                End, ChildrenEnd, Queued
  <1>6. ASSUME \/ ReadPorts \/ ReadFrame \/ PutFrame \/ Retire \/ Stop \/ FailChannels \/ SupExec \/ SupCredit \/ SupCancel
               \/ ReportPorts \/ UNCHANGED vars
        PROVE  UNCHANGED <<made[c], Queued(c), buf[c]>>
    BY <1>6 DEF ReadPorts, ReadFrame, PutFrame, Retire, Stop, FailChannels, SupExec, SupCredit, SupCancel,
                ReportPorts, vars, Queued
  <1> QED BY StepCases, <1>1, <1>2, <1>3, <1>4, <1>5, <1>6, <1>7, <1>8

LEMMA CompleteStep ==
  ASSUME Types, Piped, Calling, Unsent, OnItsWay, Complete, [Next]_vars
  PROVE  Complete'
  <1> SUFFICES ASSUME NEW c \in channels'
               PROVE  /\ c \notin discard' /\ \A i \in 1..Len(toSup') : toSup'[i] # <<"cancel", c>>
                      /\ ~ChannelsFailed' =>
                           made'[c] = got'[c] + DataQueued(c)' + DataInHand(c)' + DataRead(c)' + Queued(c)'
    BY DEF Complete
  <1>1. c \in Calls BY TypesStep DEF Types
  <1>2. Types' /\ Piped' /\ Calling' BY TypesStep, PipedStep, CallingStep
  <1>3. CASE Admit(c)
    <2>1. http[c] = "new" /\ UNCHANGED <<discard, toSup, stopped, made, got, queue, hand, fromSup, Queued(c)>>
      BY <1>3 DEF Admit, Queued
    <2>2. Unknown(c) /\ \A i \in 1..Len(toSup) : toSup[i][2] # c BY <1>1, <2>1 DEF Unsent
    <2>3. DataRead(c) = 0 /\ DataInHand(c) = 0 /\ DataQueued(c) = 0 BY <1>1, <2>2, UnknownAmounts
    <2>4. made[c] = 0 /\ got[c] = 0 /\ Queued(c) = 0 /\ c \notin commands BY <2>2 DEF Unknown, Queued, Types
    <2>5. c \notin discard BY <2>4 DEF Types
    <2>6. \A i \in 1..Len(toSup) : toSup[i] # <<"cancel", c>>
      <3>1. <<"cancel", c>>[2] = c OBVIOUS
      <3> QED BY <2>2, <3>1
    <2>7. DataRead(c)' = 0 /\ DataInHand(c)' = 0 /\ DataQueued(c)' = 0 BY <2>1, <2>3, SameAmounts, <1>1
    <2> QED BY <2>1, <2>4, <2>5, <2>6, <2>7
  <1>4. CASE ~Admit(c)
    <2>1. c \in channels BY <1>1, <1>4, ChannelSteps
    <2>2. /\ c \notin discard /\ \A i \in 1..Len(toSup) : toSup[i] # <<"cancel", c>>
          /\ ~ChannelsFailed =>
               made[c] = got[c] + DataQueued(c) + DataInHand(c) + DataRead(c) + Queued(c)
      BY <2>1 DEF Complete
    <2>3. http[c] \in {"prepare", "await", "written"} /\ http'[c] \in {"prepare", "await", "written"}
      BY <2>1, <1>2 DEF Calling
    <2>4. c \notin discard'
      <3>1. discard' \subseteq discard \/ (SupCancel /\ discard' = discard \cup {Head(toSup)[2]})
        <4>1. ASSUME NEW d \in Calls,
                     \/ Admit(d) \/ SendExec(d) \/ TakeData(d) \/ SendCredit(d) \/ TakeExit(d)
                     \/ TakeError(d) \/ SendCancel(d) \/ Leave(d) \/ Kill(d) \/ PollExit(d) \/ ReportExit(d) \/ ReadPipe(d)
                     \/ Write(d) \/ End(d) \/ ChildrenEnd(d)
              PROVE  discard' \subseteq discard
          BY <4>1 DEF Admit, SendExec, TakeData, SendCredit, TakeExit, TakeError, SendCancel,
                      Leave, Kill, PollExit,
                      ReportExit, ReadPipe, Write, End, ChildrenEnd
        <4>2. ASSUME \/ ReadPorts \/ ReadFrame \/ PutFrame \/ Retire \/ Stop \/ FailChannels \/ KillAll \/ SupExec \/ SupCredit
                     \/ ReportPorts \/ UNCHANGED vars
              PROVE  discard' \subseteq discard
          BY <4>2 DEF ReadPorts, ReadFrame, PutFrame, Retire, Stop, FailChannels, KillAll, SupExec, SupCredit,
                      ReportPorts, vars
        <4>3. SupCancel => discard' \subseteq discard \/ discard' = discard \cup {Head(toSup)[2]} BY DEF SupCancel
        <4> QED BY StepCases, <4>1, <4>2, <4>3, Zenon
      <3>2. SupCancel => Head(toSup)[2] # c BY <2>2, SupFrame
      <3> QED BY <2>2, <3>1, <3>2
    <2>5. \A i \in 1..Len(toSup') : toSup'[i] # <<"cancel", c>>
      <3> DEFINE Kept == \A i \in 1..Len(toSup') : toSup'[i] # <<"cancel", c>>
      <3>1. ASSUME NEW d \in Calls, NEW op \in {"exec", "credit", "cancel"}, toSup' = Append(toSup, <<op, d>>),
                   op # "cancel" \/ d # c
            PROVE  Kept
        <4>1. <<op, d>> \in Requests BY DEF Requests
        <4> QED BY SMTT(30), <2>2, <3>1, <4>1, Sending
      <3>2. toSup # <<>> /\ toSup' = Tail(toSup) => Kept BY <2>2, Receiving
      <3>3. toSup' = <<>> => Kept OBVIOUS
      <3>4. ~SendCancel(c) BY <2>3 DEF SendCancel
      <3>5. PutFrame /\ toSup' # toSup => hand[2] # c
        BY <1>1 DEF PutFrame
      <3>6. hand # <<>> => hand[2] \in Calls BY Pairs
      <3>7. UNCHANGED toSup => Kept BY <2>2
      <3> HIDE DEF Kept
      <3>8. Kept BY ToSupSteps, <3>1, <3>2, <3>3, <3>4, <3>5, <3>6, <3>7
      <3> QED BY <3>8 DEF Kept
    <2>6. ASSUME ~ChannelsFailed'
          PROVE  made'[c] = got'[c] + DataQueued(c)' + DataInHand(c)' + DataRead(c)' + Queued(c)'
      <3>1. ~FailChannels /\ ~KillAll /\ ~ChannelsFailed
        BY <2>6, StoppedSteps DEF FailChannels, KillAll, ChannelsFailed
      <3>2. ~(TakeExit(c) \/ TakeError(c) \/ Leave(c))
        BY DEF TakeExit, TakeError, Leave, Quit
      <3>3. /\ made[c] = got[c] + DataQueued(c) + DataInHand(c) + DataRead(c) + Queued(c)
            /\ made[c] \in Nat /\ got[c] \in Nat /\ Queued(c) \in Nat
            /\ DataRead(c) \in Nat /\ DataQueued(c) \in Nat /\ DataInHand(c) \in {0, 1}
        BY <1>1, <2>2, <3>1, Amounts
      <3>4. CASE Write(c)
        <4>1. /\ UNCHANGED <<got, queue, hand, fromSup>>
              /\ \/ made'[c] = made[c] + 1 /\ Queued(c)' = Queued(c) + 1
                 \/ UNCHANGED <<made[c], Queued(c)>>
          BY <1>1, <3>4 DEF Write, Types, Queued
        <4>2. got'[c] = got[c] /\ UNCHANGED <<DataRead(c), DataInHand(c), DataQueued(c)>>
          BY <1>1, <4>1, SameAmounts
        <4> QED BY <3>3, <4>1, <4>2
      <3>5. CASE ReadPipe(c)
        <4>1. UNCHANGED <<got, queue, hand, made>> /\ Queued(c)' = Queued(c) - 1
          BY <1>1, <3>5 DEF ReadPipe, Types, Queued
        <4>2. DataRead(c)' = DataRead(c) + 1 BY <1>1, <2>2, <3>5, DataReadSteps
        <4> QED BY <1>1, <3>3, <4>1, <4>2, SameAmounts
      <3>6. CASE ReadFrame
        <4>1. UNCHANGED <<got, queue, made, Queued(c), channels>> BY <3>6 DEF ReadFrame, Queued
        <4>2. DataRead(c)' + DataInHand(c)' = DataRead(c) + DataInHand(c) /\ DataRead(c)' \in Nat /\ DataInHand(c)' \in {0, 1}
          <5>1. DataRead(c)' \in Nat /\ DataInHand(c)' \in {0, 1} BY <1>1, <1>2, CountType
            DEF DataRead, DataInHand, Piped
          <5>2. hand = <<>> /\ <<>> # <<"data", c>> BY <3>6 DEF ReadFrame, Reads
          <5>3. DataInHand(c) = 0 BY <5>2 DEF DataInHand
          <5>4. CASE fromSup[1] = <<"data", c>>
            <6>1. DataRead(c) = DataRead(c)' + 1 /\ hand' = <<"data", c>>
              BY <1>1, <2>1, <3>6, <5>4, DataReadSteps
            <6>2. DataInHand(c)' = 1 BY <6>1 DEF DataInHand
            <6> QED BY <5>1, <5>3, <6>1, <6>2
          <5>5. CASE fromSup[1] # <<"data", c>>
            <6>1. UNCHANGED DataRead(c) /\ hand' # <<"data", c>> BY <1>1, <3>6, <5>5, DataReadSteps
            <6>2. DataInHand(c)' = 0 BY <6>1 DEF DataInHand
            <6> QED BY <5>1, <5>3, <6>1, <6>2
          <5> QED BY <5>4, <5>5
        <4> QED BY <1>1, <3>3, <4>1, <4>2, SameAmounts
      <3>7. CASE PutFrame
        <4>1. UNCHANGED <<got, made, Queued(c), fromSup>> /\ hand' = <<>> BY <3>7 DEF PutFrame, Queued
        <4>2. DataInHand(c)' = 0 BY <4>1 DEF DataInHand
        <4>3. DataQueued(c)' = DataInHand(c) + DataQueued(c)
          BY <1>1, <2>3, <3>3, <3>7, DataQueuedSteps DEF DataInHand
        <4> QED BY <1>1, <3>3, <4>1, <4>2, <4>3, SameAmounts
      <3>8. CASE TakeData(c)
        <4>1. UNCHANGED <<made, Queued(c), fromSup, hand>> /\ got'[c] = got[c] + 1 BY <1>1, <3>8
          DEF TakeData, Types, Queued
        <4>2. DataQueued(c) = DataQueued(c)' + 1 /\ DataQueued(c)' \in Nat
          BY <1>1, <1>2, <3>8, DataQueuedSteps, CountType DEF DataQueued, Piped
        <4> QED BY <1>1, <3>3, <4>1, <4>2, SameAmounts
      <3>9. CASE ~Write(c) /\ ~ReadPipe(c) /\ ~ReadFrame /\ ~PutFrame /\ ~TakeData(c)
        <4>1. UNCHANGED <<DataRead(c), DataQueued(c), hand>>
          BY <1>1, <3>1, <3>2, <3>9, DataReadSteps, DataQueuedSteps
        <4>2. UNCHANGED <<made[c], Queued(c)>> BY <1>1, <3>1, <3>9, OutputSteps
        <4>3. UNCHANGED got[c] BY <1>1, <3>9, HttpSteps
        <4>4. UNCHANGED DataInHand(c) BY <1>1, <4>1, SameAmounts
        <4> QED BY <3>3, <4>1, <4>2, <4>3, <4>4
      <3> QED BY <3>4, <3>5, <3>6, <3>7, <3>8, <3>9
    <2> QED BY <2>4, <2>5, <2>6
  <1> QED BY <1>3, <1>4
-----------------------------------------------------------------------------
(* Nothing comes after the exit *)

LEMMA SentSteps ==
  ASSUME Piped, [Next]_vars, NEW c \in Calls, Sent(c)'
  PROVE  Sent(c) \/ SendExec(c)
  <1>1. CASE UNCHANGED toSup BY <1>1 DEF Sent
  <1>2. ASSUME NEW d \in Calls, NEW op \in {"exec", "credit", "cancel"}, toSup' = Append(toSup, <<op, d>>)
        PROVE  Sent(c) \/ (op = "exec" /\ d = c)
    <2>1. <<op, d>> \in Requests BY DEF Requests
    <2> QED BY <1>2, <2>1, Sending DEF Sent
  <1>3. toSup # <<>> /\ toSup' = Tail(toSup) => Sent(c) BY Receiving DEF Sent
  <1>4. toSup' # <<>> BY DEF Sent
  <1>5. hand # <<>> => hand[2] \in Calls BY Pairs
  <1> QED BY ToSupSteps, <1>1, <1>2, <1>3, <1>4, <1>5

\* A command that has ended is silent for good, unless its call is only sent.
LEMMA SilentStep ==
  ASSUME Types, Piped, OnItsWay, [Next]_vars, NEW c \in Calls, Silent(c), ~SendExec(c)
  PROVE  Silent(c)' /\ ~ReadPipe(c)
  <1>1. c \notin commands /\ c \notin running /\ buf[c] = 0 /\ ~Sent(c) BY DEF Silent, Types
  <1>2. ~Sent(c)' BY <1>1, SentSteps
  <1>3. c \notin commands' BY <1>1, ExecArrives, CommandSteps
  <1>4. buf'[c] = 0 BY <1>1, OutputSteps
  <1>5. ~ReadPipe(c) BY <1>1 DEF ReadPipe
  <1> QED BY <1>2, <1>3, <1>4, <1>5 DEF Silent

LEMMA NoDataStep ==
  ASSUME Types, Piped, [Next]_vars, NEW c \in Calls, NoData(c), ~ReadPipe(c)
  PROVE  NoData(c)' /\ (hand' # <<"data", c>> \/ UNCHANGED hand)
  <1>1. NoData(c) <=> DataRead(c) = 0 BY Counts DEF NoData, DataRead
  <1>2. NoData(c)' <=> DataRead(c)' = 0 BY PipedStep, CountType DEF NoData, DataRead, Piped
  <1>3. DataRead(c)' \in Nat BY PipedStep, CountType DEF DataRead, Piped
  <1>4. CASE ReadFrame
    <2>1. fromSup # <<>> => 1 \in 1..Len(fromSup)
      BY EmptySeq DEF Piped
    <2>2. fromSup # <<>> BY <1>4 DEF ReadFrame, Reads
    <2>3. fromSup[1] # <<"data", c>> BY <2>1, <2>2 DEF NoData
    <2>4. UNCHANGED DataRead(c) /\ hand' # <<"data", c>> BY <1>4, <2>3, DataReadSteps
    <2> QED BY <1>1, <1>2, <2>4
  <1>5. CASE KillAll
    <2>1. UNCHANGED hand BY <1>5 DEF KillAll
    <2> QED BY <1>2, <1>5, <2>1, DataReadSteps
  <1>6. CASE ~ReadFrame /\ ~KillAll
    <2>1. UNCHANGED DataRead(c) BY <1>6, DataReadSteps
    <2>2. hand' = hand \/ hand' = <<>> BY <1>6, QueueSteps
    <2>3. <<>> # <<"data", c>> OBVIOUS
    <2> QED BY <1>1, <1>2, <2>1, <2>2, <2>3
  <1> QED BY <1>4, <1>5, <1>6

LEMMA ExitLastStep ==
  ASSUME Types, Piped, Calling, Unsent, OnItsWay, ExitLast, [Next]_vars
  PROVE  ExitLast'
  <1>1. ASSUME NEW c \in Calls, SendExec(c)
        PROVE  /\ \A p \in 1..Len(fromSup) : fromSup[p] # <<"exit", c>>
               /\ hand # <<"exit", c>> /\ \A p \in 1..Len(queue[c]) : queue[c][p] # <<"exit", c>>
    <2>1. Unknown(c) BY <1>1 DEF SendExec, Unsent
    <2>2. <<"exit", c>> \in Answers(c) BY DEF Answers
    <2>3. <<"exit", c>>[2] = c /\ <<"exit", c>> # <<"error", c>> /\ <<>> # <<"exit", c>> OBVIOUS
    <2>4. \A p \in 1..Len(queue[c]) : queue[c][p] = <<"error", c>> BY <2>1, UnknownQueue DEF Unknown
    <2>5. hand # <<"exit", c>> BY <2>1, <2>3 DEF Unknown
    <2> QED BY <2>1, <2>2, <2>3, <2>4, <2>5 DEF Unknown
  <1>2. ASSUME NEW c \in Calls, NEW p \in 1..Len(fromSup), fromSup[p] = <<"exit", c>>
        PROVE  Silent(c)' /\ ~ReadPipe(c) /\ \A q \in (p + 1)..Len(fromSup) : fromSup[q] # <<"data", c>>
    <2>2. Silent(c) /\ \A q \in (p + 1)..Len(fromSup) : fromSup[q] # <<"data", c>> BY <1>2
      DEF ExitLast
    <2>3. ~SendExec(c) BY <1>1, <1>2
    <2> QED BY <2>2, <2>3, SilentStep
  <1>3. ASSUME NEW c \in Calls, NEW p \in 1..Len(fromSup'), fromSup'[p] = <<"exit", c>>
        PROVE  Silent(c)' /\ \A q \in (p + 1)..Len(fromSup') : fromSup'[q] # <<"data", c>>
    <2>1. CASE UNCHANGED fromSup BY <1>2, <1>3, <2>1
    <2>2. ASSUME NEW f \in Reports, fromSup' = Append(fromSup, f), f # <<"exit", c>>,
                 f = <<"data", c>> => ReadPipe(c)
          PROVE  Silent(c)' /\ \A q \in (p + 1)..Len(fromSup') : fromSup'[q] # <<"data", c>>
      <3>1. /\ Len(fromSup) \in Nat /\ Len(fromSup') = Len(fromSup) + 1
            /\ \A i \in 1..Len(fromSup) : fromSup'[i] = fromSup[i]
            /\ fromSup'[Len(fromSup) + 1] = f
        BY <2>2, Emitting
      <3>2. p \in 1..Len(fromSup) /\ fromSup[p] = <<"exit", c>>
        <4>1. p # Len(fromSup) + 1 BY <1>3, <2>2, <3>1
        <4>2. p \in 1..Len(fromSup) BY <3>1, <4>1
        <4> QED BY <1>3, <3>1, <4>2
      <3>3. Silent(c)' /\ ~ReadPipe(c) /\ \A q \in (p + 1)..Len(fromSup) : fromSup[q] # <<"data", c>>
        BY <1>2, <3>2
      <3>4. f # <<"data", c>> BY <2>2, <3>3
      <3>5. ASSUME NEW q \in (p + 1)..Len(fromSup') PROVE fromSup'[q] # <<"data", c>>
        <4>1. CASE q = Len(fromSup) + 1 BY <3>1, <3>4, <4>1
        <4>2. CASE q # Len(fromSup) + 1
          <5>1. q \in (p + 1)..Len(fromSup) /\ q \in 1..Len(fromSup) BY <3>1, <3>2, <4>2
          <5> QED BY <3>1, <3>3, <5>1
        <4> QED BY <4>1, <4>2
      <3> QED BY <3>3, <3>5
    <2>3. ASSUME ReportExit(c), fromSup' = Append(fromSup, <<"exit", c>>)
          PROVE  Silent(c)' /\ \A q \in (p + 1)..Len(fromSup') : fromSup'[q] # <<"data", c>>
      <3>1. c \in commands /\ commands' = commands \ {c} /\ buf'[c] = 0 /\ UNCHANGED toSup
        BY <2>3 DEF ReportExit, Types
      <3>2. ~Sent(c) BY <3>1 DEF OnItsWay, Unknown
      <3>3. Silent(c)' BY <3>1, <3>2 DEF Silent, Sent
      <3>4. <<"exit", c>> \in Reports /\ <<"exit", c>> # <<"data", c>> BY DEF Reports, Frames
      <3>5. /\ Len(fromSup) \in Nat /\ Len(fromSup') = Len(fromSup) + 1
            /\ \A i \in 1..Len(fromSup) : fromSup'[i] = fromSup[i]
            /\ fromSup'[Len(fromSup) + 1] = <<"exit", c>>
        BY <2>3, <3>4, Emitting
      <3>6. CASE p = Len(fromSup) + 1 BY <3>3, <3>5, <3>6
      <3>7. CASE p \in 1..Len(fromSup)
        <4>1. fromSup[p] = <<"exit", c>> BY <1>3, <3>5, <3>7
        <4>2. Silent(c)' /\ \A q \in (p + 1)..Len(fromSup) : fromSup[q] # <<"data", c>> BY <1>2, <3>7, <4>1
        <4> QED BY <3>4, <3>5, <4>2
      <3> QED BY <3>5, <3>6, <3>7
    <2>4. ASSUME fromSup # <<>>, fromSup' = Tail(fromSup)
          PROVE  Silent(c)' /\ \A q \in (p + 1)..Len(fromSup') : fromSup'[q] # <<"data", c>>
      <3>1. /\ Len(fromSup) \in Nat \ {0} /\ Len(fromSup') = Len(fromSup) - 1
            /\ \A i \in 1..Len(fromSup') : fromSup'[i] = fromSup[i + 1]
        BY <2>4, Reading
      <3>2. p + 1 \in 1..Len(fromSup) /\ fromSup[p + 1] = <<"exit", c>> BY <1>3, <3>1
      <3>3. Silent(c)' /\ \A q \in (p + 2)..Len(fromSup) : fromSup[q] # <<"data", c>> BY <1>2, <3>2
      <3> QED BY <3>1, <3>3
    <2>5. fromSup' # <<>> BY <1>3
    <2>6. \A d \in Calls : /\ {<<"data", d>>, <<"exit", d>>, <<"error", d>>} \subseteq Reports
                           /\ <<"data", d>> # <<"exit", c>> /\ <<"error", d>> # <<"exit", c>>
                           /\ <<"error", d>> # <<"data", c>> /\ <<"exit", d>> # <<"data", c>>
                           /\ (<<"data", d>> = <<"data", c>> <=> d = c) /\ (<<"exit", d>> = <<"exit", c>> <=> d = c)
      BY DEF Reports, Frames
    <2>7. LET f == <<"ports", running \cup children # {}>>
          IN f \in Reports /\ f # <<"exit", c>> /\ f # <<"data", c>>
      BY DEF Reports
    <2> QED BY FromSupSteps, <2>1, <2>2, <2>3, <2>4, <2>5, <2>6, <2>7
  <1>4. ASSUME NEW c \in Calls, hand = <<"exit", c>>
        PROVE  Silent(c)' /\ ~ReadPipe(c) /\ NoData(c)'
    <2>1. Silent(c) /\ NoData(c) /\ ~SendExec(c) BY <1>1, <1>4 DEF ExitLast
    <2> QED BY <2>1, SilentStep, NoDataStep
  <1>5. ASSUME NEW c \in Calls, hand' = <<"exit", c>> PROVE Silent(c)' /\ NoData(c)'
    <2>1. CASE ReadFrame
      <3>1. /\ fromSup # <<>> /\ fromSup' = Tail(fromSup) /\ Head(fromSup)[1] # "ports"
            /\ hand' = IF Head(fromSup)[2] \in channels THEN <<Head(fromSup)[1], Head(fromSup)[2]>> ELSE <<>>
        BY <2>1 DEF ReadFrame, Reads
      <3>2. /\ Head(fromSup) = fromSup[1] /\ Len(fromSup) \in Nat \ {0} /\ Len(fromSup') = Len(fromSup) - 1
            /\ \A i \in 1..Len(fromSup') : fromSup'[i] = fromSup[i + 1]
        BY <3>1, Reading
      <3>3. fromSup[1] = <<"exit", c>> /\ 1 \in 1..Len(fromSup) BY <1>5, <3>1, <3>2, Pairs
      <3>4. Silent(c)' /\ \A q \in (1 + 1)..Len(fromSup) : fromSup[q] # <<"data", c>> BY <1>2, <3>3
      <3>5. NoData(c)' BY <3>2, <3>4 DEF NoData
      <3> QED BY <3>4, <3>5
    <2>2. CASE UNCHANGED hand BY <1>4, <1>5, <2>2
    <2>3. <<>> # <<"exit", c>> OBVIOUS
    <2> QED BY <1>5, <2>1, <2>2, <2>3, QueueSteps
  <1>6. ASSUME NEW c \in Calls, NEW p \in 1..Len(queue[c]), queue[c][p] = <<"exit", c>>
        PROVE  /\ Silent(c)' /\ NoData(c)' /\ hand' # <<"data", c>> /\ hand # <<"data", c>>
               /\ \A q \in (p + 1)..Len(queue[c]) : queue[c][q] # <<"data", c>>
    <2>1. /\ Silent(c) /\ NoData(c) /\ hand # <<"data", c>>
          /\ \A q \in (p + 1)..Len(queue[c]) : queue[c][q] # <<"data", c>>
      BY <1>6 DEF ExitLast
    <2>2. ~SendExec(c) BY <1>1, <1>6
    <2> QED BY <2>1, <2>2, SilentStep, NoDataStep
  <1>7. ASSUME NEW c \in Calls, NEW p \in 1..Len(queue'[c]), queue'[c][p] = <<"exit", c>>
        PROVE  /\ Silent(c)' /\ NoData(c)' /\ hand' # <<"data", c>>
               /\ \A q \in (p + 1)..Len(queue'[c]) : queue'[c][q] # <<"data", c>>
    <2> DEFINE Last == /\ Silent(c)' /\ NoData(c)' /\ hand' # <<"data", c>>
                       /\ \A q \in (p + 1)..Len(queue'[c]) : queue'[c][q] # <<"data", c>>
    <2>1. ASSUME queue'[c] = queue[c] PROVE Last BY <1>6, <1>7, <2>1
    <2>2. ASSUME PutFrame, hand # <<>>, hand' = <<>>, hand[2] = c, queue' = [queue EXCEPT ![c] = Append(@, hand)] PROVE Last
      <3>1. hand \in Frames /\ <<>> # <<"data", c>> BY <2>2 DEF Piped
      <3>2. /\ Len(queue[c]) \in Nat /\ Len(queue'[c]) = Len(queue[c]) + 1
            /\ \A i \in 1..Len(queue[c]) : queue'[c][i] = queue[c][i]
            /\ queue'[c][Len(queue[c]) + 1] = hand
        BY <2>2, <3>1, Putting
      <3>3. CASE p = Len(queue[c]) + 1
        <4>1. hand = <<"exit", c>> BY <1>7, <3>2, <3>3
        <4> QED BY <1>4, <2>2, <3>1, <3>2, <3>3, <4>1
      <3>4. CASE p \in 1..Len(queue[c])
        <4>1. queue[c][p] = <<"exit", c>> BY <1>7, <3>2, <3>4
        <4>2. /\ Silent(c)' /\ NoData(c)' /\ hand' # <<"data", c>> /\ hand # <<"data", c>>
              /\ \A q \in (p + 1)..Len(queue[c]) : queue[c][q] # <<"data", c>>
          BY <1>6, <3>4, <4>1
        <4>3. hand # <<"data", c>> BY <4>2
        <4>4. ASSUME NEW q \in (p + 1)..Len(queue'[c]) PROVE queue'[c][q] # <<"data", c>>
          <5>1. CASE q = Len(queue[c]) + 1 BY <3>2, <4>3, <5>1
          <5>2. CASE q # Len(queue[c]) + 1
            <6>1. q \in (p + 1)..Len(queue[c]) /\ q \in 1..Len(queue[c]) BY <3>2, <3>4, <5>2
            <6> QED BY <3>2, <4>2, <6>1
          <5> QED BY <5>1, <5>2
        <4> QED BY <4>2, <4>4
      <3> QED BY <3>2, <3>3, <3>4
    <2>3. ASSUME queue[c] # <<>>, queue' = [queue EXCEPT ![c] = Tail(@)] PROVE Last
      <3>1. /\ Len(queue[c]) \in Nat \ {0} /\ Len(queue'[c]) = Len(queue[c]) - 1
            /\ \A i \in 1..Len(queue'[c]) : queue'[c][i] = queue[c][i + 1]
        BY <2>3, Taking
      <3>2. p + 1 \in 1..Len(queue[c]) /\ queue[c][p + 1] = <<"exit", c>> BY <1>7, <3>1
      <3>3. /\ Silent(c)' /\ NoData(c)' /\ hand' # <<"data", c>>
            /\ \A q \in (p + 2)..Len(queue[c]) : queue[c][q] # <<"data", c>>
        BY <1>6, <3>2
      <3> QED BY <3>1, <3>3
    <2>4. queue'[c] # <<>> /\ queue'[c] # Failed(c)
      <3>1. <<"error", c>> # <<"exit", c>> OBVIOUS
      <3>2. queue'[c] = Failed(c) => queue'[c][p] = <<"error", c>> BY <1>7, CountNone
      <3>3. queue'[c] = <<>> => Len(queue'[c]) = 0 OBVIOUS
      <3> QED BY <1>7, <3>1, <3>2, <3>3
    <2>5. ASSUME NEW d \in Calls, d # c, \/ queue' = [queue EXCEPT ![d] = Tail(@)]
                                         \/ queue' = [queue EXCEPT ![d] = <<>>]
                                         \/ queue' = [queue EXCEPT ![d] = Append(@, hand)]
                                         \/ queue' = [queue EXCEPT ![d] = Failed(d)]
          PROVE  queue'[c] = queue[c]
      BY <2>5 DEF Piped
    <2>6. queue' = [queue EXCEPT ![c] = <<>>] => queue'[c] = <<>> BY DEF Piped
    <2>7. queue' = [queue EXCEPT ![c] = Failed(c)] => queue'[c] = Failed(c) BY DEF Piped
    <2>8. queue' = [d \in Calls |-> IF d \in channels THEN Failed(d) ELSE queue[d]]
            => queue'[c] = Failed(c) \/ queue'[c] = queue[c]
      OBVIOUS
    <2>9. hand # <<>> => hand[2] \in Calls BY Pairs
    <2> HIDE DEF Last
    <2>10. Last BY QueueSteps, <2>1, <2>2, <2>3, <2>4, <2>5, <2>6, <2>7, <2>8, <2>9
    <2> QED BY <2>10 DEF Last
  <1> QED BY <1>3, <1>5, <1>7 DEF ExitLast

LEMMA GivenStep ==
  ASSUME Types, Piped, Calling, OnItsWay, Complete, ExitLast, Given, [Next]_vars
  PROVE  Given'
  <1> SUFFICES ASSUME NEW c \in Calls, result'[c] = "exit" PROVE got'[c] = made'[c] /\ Silent(c)'
    BY DEF Given
  <1>1. CASE result[c] = "exit"
    <2>1. got[c] = made[c] /\ Silent(c) /\ http[c] = "ended" BY <1>1 DEF Given, Calling
    <2>2. ~SendExec(c) BY <2>1 DEF SendExec
    <2>3. Silent(c)' BY <2>1, <2>2, SilentStep
    <2>4. UNCHANGED got[c] BY <2>1, HttpSteps
    <2>5. UNCHANGED made[c] BY <2>1, OutputSteps DEF Silent
    <2> QED BY <2>1, <2>3, <2>4, <2>5
  <1>2. CASE TakeExit(c)
    <2>1. /\ queue[c] # <<>> /\ Head(queue[c])[1] = "exit" /\ UNCHANGED <<got, made, commands, buf, toSup>>
      BY <1>2 DEF TakeExit
    <2>2. /\ 1 \in 1..Len(queue[c]) /\ queue[c][1] = <<"exit", c>>
      BY <2>1, QueueHead, Pairs
    <2>3. /\ Silent(c) /\ NoData(c) /\ hand # <<"data", c>>
          /\ \A q \in (1 + 1)..Len(queue[c]) : queue[c][q] # <<"data", c>>
      BY <2>2 DEF ExitLast
    <2>4. \A q \in 1..Len(queue[c]) : queue[c][q] # <<"data", c>>
      <3>1. queue[c][1] # <<"data", c>> BY <2>2
      <3>2. \A q \in 1..Len(queue[c]) : q = 1 \/ q \in (1 + 1)..Len(queue[c]) OBVIOUS
      <3> QED BY <2>3, <3>1, <3>2
    <2>5. DataQueued(c) = 0 BY <2>4, Counts DEF DataQueued
    <2>6. DataRead(c) = 0 BY <2>3, Counts DEF DataRead, NoData
    <2>7. DataInHand(c) = 0 BY <2>3 DEF DataInHand
    <2>8. c \in channels /\ ~ChannelsFailed
      <3>1. queue[c] \notin {<<>>, Failed(c)}
        <4>1. <<"exit", c>> # <<"error", c>> OBVIOUS
        <4> QED BY <2>2, <4>1, UnknownQueue
      <3> QED BY <3>1 DEF Calling
    <2>9. made[c] = got[c] /\ got[c] \in Nat
      <3>1. made[c] = got[c] + DataQueued(c) + DataInHand(c) + DataRead(c) + Queued(c) BY <2>8
        DEF Complete
      <3> QED BY <2>3, <2>5, <2>6, <2>7, <3>1 DEF Silent, Types, Queued
    <2>10. Silent(c)' BY <2>1, <2>3 DEF Silent, Sent
    <2> QED BY <2>1, <2>9, <2>10
  <1> QED BY <1>1, <1>2, HttpSteps
-----------------------------------------------------------------------------
(* The theorems *)

LEMMA InitOK == Init => IInv
  <1> SUFFICES ASSUME Init PROVE IInv OBVIOUS
  <1> USE DEF Init
  <1>1. Types BY DEF Types
  <1>2. toSup = <<>> /\ fromSup = <<>> /\ hand = <<>> /\ \A c \in Calls : queue[c] = <<>> OBVIOUS
  <1>3. Piped BY <1>2, EmptySeq DEF Piped
  <1>4. Calling BY DEF Calling, ChannelsFailed
  <1>5. \A c \in Calls : Unknown(c) BY DEF Unknown
  <1>6. Unsent BY <1>5 DEF Unsent
  <1>7. OnItsWay /\ ExecFirst /\ Slots /\ Heartbeat /\ ExitLast /\ IdleIsEmpty
    BY DEF OnItsWay, Sent, ExecFirst, Slots, Heartbeat, ExitLast, IdleIsEmpty
  <1>8. Window
    <2>1. ASSUME NEW c \in Calls
          PROVE  CreditsSent(c) = 0 /\ DataRead(c) = 0 /\ DataInHand(c) = 0 /\ DataQueued(c) = 0 /\ DataWritten(c) = 0
      BY <1>1, <1>2, <1>3, <1>5, CountNone, UnknownAmounts DEF CreditsSent, DataWritten
    <2> QED BY <2>1, ExecAssumption DEF Window
  <1>9. Complete /\ Given BY DEF Complete, Given
  <1> QED BY <1>1, <1>3, <1>4, <1>6, <1>7, <1>8, <1>9 DEF IInv

LEMMA Invariance == Spec => []IInv
  <1>1. IInv /\ [Next]_vars => IInv'
    BY TypesStep, PipedStep, CallingStep, UnsentStep, OnItsWayStep, ExecFirstStep, SlotsStep,
       HeartbeatStep,
       WindowStep, CompleteStep, ExitLastStep, GivenStep, IdleStep DEF IInv
  <1> QED BY InitOK, <1>1, PTL DEF Spec

\* The state keeps its types: the pipes carry the frames of the protocol, and
\* the queue of a call carries frames of that call.
THEOREM ExecTypes == Spec => [](Types /\ Piped)
  <1>1. IInv => Types /\ Piped BY DEF IInv
  <1> QED BY Invariance, <1>1, PTL

\* A caller that is given an exit status was given all output before it.
THEOREM OutputComplete == Spec => []OutputBeforeExit
  <1>1. IInv => OutputBeforeExit BY DEF IInv, Given, OutputBeforeExit
  <1> QED BY Invariance, <1>1, PTL

\* A runtime that is stopped because it is idle is.
THEOREM IdleRuntimes == Spec => []IdleIsEmpty
  <1>1. IInv => IdleIsEmpty BY DEF IInv
  <1> QED BY Invariance, <1>1, PTL

\* What the supervisor runs has a slot of the manager.
THEOREM CommandsHaveSlots == Spec => [](commands \subseteq active)
  <1>1. IInv => commands \subseteq active BY DEF IInv, Slots
  <1> QED BY Invariance, <1>1, PTL

\* A credit is never one too many: the supervisor's error for it is dead code
\* as long as the manager keeps its side.
THEOREM NoCreditRefused == Spec => [][SupCredit => UNCHANGED fromSup]_vars
  <1>1. IInv /\ [Next]_vars => [SupCredit => UNCHANGED fromSup]_vars
    <2> SUFFICES ASSUME IInv, SupCredit PROVE UNCHANGED fromSup OBVIOUS
    <2>1. credits[Head(toSup)[2]] < QueueSize - 1 BY CreditFits DEF IInv
    <2> QED BY <2>1 DEF SupCredit
  <1> QED BY Invariance, <1>1, PTL DEF Spec
=============================================================================
