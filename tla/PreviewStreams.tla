--------------------------- MODULE PreviewStreams ---------------------------
(***************************************************************************)
(* What flows through the connections of a running runtime: _connection,   *)
(* its upload task and the frame reader of                                 *)
(* pkgs/opencode-preview/manager.py, the two pipes, and the streams of     *)
(* supervisor.py with the sockets they dial.  Stops are in PreviewPorts.   *)
(*                                                                         *)
(* A manager action is what a task does between two awaits.  Data is       *)
(* counted in units of the supervisor's CHUNK; a client's data counts as   *)
(* sent when it is read, a server's when the supervisor has read it.       *)
(* Frames are <<event, id, size>>.                                         *)
(***************************************************************************)
EXTENDS Naturals, Sequences, SequencesExt, FiniteSets

CONSTANTS
  Relays,          \* the connections of the runtime
  MaxConnections,  \* config.max_connections
  MaxStreams,      \* MAX_STREAMS
  QueueSize,       \* QUEUE_SIZE
  ReadSize,        \* how much the upload reads at once
  MaxPending,      \* MAX_PENDING
  Up, Down         \* bounds: what each client and its server send

ASSUME StreamsAssumption ==
  /\ IsFiniteSet(Relays) /\ {MaxConnections, QueueSize, ReadSize} \subseteq Nat \ {0}
  /\ MaxStreams \in Nat /\ MaxConnections <= MaxStreams
  /\ MaxPending \in Nat /\ ReadSize <= MaxPending
  /\ Up \in [Relays -> Nat] /\ Down \in [Relays -> Nat]

VARIABLES
  at, result,       \* where each _connection is, and how it ended
  up, pending,      \* its upload task, and what is not yet acknowledged
  channels, queue,  \* Runtime.channels of kind "tcp", and their queues
  hand,             \* the frame read_frames is about to put or to send, or <<>>
  lock,             \* the frames that wait for Runtime.write_lock
  input, output,    \* the supervisor's standard input and output
  socket,           \* Supervisor.streams: "none", "v4", "v6" or "open"
  buffer, ended,    \* Stream.pending and ended
  shut, readEnd,    \* Stream.write_closed and read_closed
  sent, made,       \* what the client and the server have sent
  given, got,       \* what the server and the client have been given
  gone, told        \* clients that are gone, and that have been told the end

taskVars == <<at, result, up, pending>>
chanVars == <<channels, queue, hand>>
pipeVars == <<lock, input, output>>
supVars == <<socket, buffer, ended, shut, readEnd>>
dataVars == <<sent, made, given, got>>
clientVars == <<gone, told>>
streamsVars == <<taskVars, chanVars, pipeVars, supVars, dataVars, clientVars>>

Zero == [c \in Relays |-> 0]

StreamsInit ==
  /\ at = [c \in Relays |-> "new"] /\ result = [c \in Relays |-> "none"]
  /\ up = [c \in Relays |-> "off"] /\ pending = Zero
  /\ channels = {} /\ queue = [c \in Relays |-> <<>>] /\ hand = <<>>
  /\ lock = <<>> /\ input = <<>> /\ output = <<>>
  /\ socket = [c \in Relays |-> "none"] /\ buffer = Zero
  /\ ended = {} /\ shut = {} /\ readEnd = {}
  /\ sent = Zero /\ made = Zero /\ given = Zero /\ got = Zero /\ gone = {} /\ told = {}
-----------------------------------------------------------------------------
(* The connection *)

\* Runtime.connections: those that have not closed their transport.
Tasks == {c \in Relays : at[c] \notin {"new", "done"}}

Accept(c) ==
  /\ at[c] = "new"
  /\ IF Cardinality(Tasks) >= MaxConnections
     THEN /\ at' = [at EXCEPT ![c] = "done"] /\ result' = [result EXCEPT ![c] = "refused"]
          /\ UNCHANGED <<channels, lock>>
     ELSE /\ at' = [at EXCEPT ![c] = "connect"]
          /\ channels' = channels \cup {c} /\ lock' = Append(lock, <<"connect", c, 0>>)
          /\ UNCHANGED result
  /\ UNCHANGED <<up, pending, queue, hand, input, output, supVars, dataVars, clientVars>>

\* Runtime.send: the first in the lock's queue writes, and its task goes on.
\* A connection that has sent its close closes the transport and is done; the
\* first close of one that was too slow is the reader's.
Write ==
  /\ lock # <<>> /\ lock' = Tail(lock) /\ input' = Append(input, Head(lock))
  /\ LET op == Head(lock)[1]
         c  == Head(lock)[2]
     IN /\ CASE op = "connect" -> at' = [at EXCEPT ![c] = "first"] /\ UNCHANGED hand
          [] op = "close" /\ hand = <<"overflow", c, 0>> -> hand' = <<>> /\ UNCHANGED at
          [] op = "close" /\ hand # <<"overflow", c, 0>> ->
               at' = [at EXCEPT ![c] = "done"] /\ UNCHANGED hand
          [] op \in {"data", "end"} -> UNCHANGED <<at, hand>>
        /\ up' = IF op = "data" THEN [up EXCEPT ![c] = "credit"]
                 ELSE IF op = "end" THEN [up EXCEPT ![c] = "done"] ELSE up
  /\ UNCHANGED <<result, pending, channels, queue, output, supVars, dataVars, clientVars>>

\* What the upload waits to send is not sent when it is cancelled.
Withdrawn(c) ==
  LET mine == {k \in 1..Len(lock) : lock[k][2] = c /\ lock[k][1] # "close"}
  IN IF mine = {} THEN lock ELSE RemoveAt(lock, CHOOSE k \in mine : TRUE)

\* The finally: the upload is cancelled, the close queues for the lock.
FinishRelay(c, how) ==
  /\ at' = [at EXCEPT ![c] = "close"] /\ result' = [result EXCEPT ![c] = how]
  /\ up' = [up EXCEPT ![c] = "done"]
  /\ channels' = channels \ {c} /\ queue' = [queue EXCEPT ![c] = <<>>]
  /\ lock' = Append(Withdrawn(c), <<"close", c, 0>>)
  /\ UNCHANGED <<pending, hand, input, output, supVars, dataVars, clientVars>>

Takes(c, event) == at[c] = "relay" /\ queue[c] # <<>> /\ Head(queue[c])[1] = event

TakeFirst(c) ==
  /\ at[c] = "first" /\ queue[c] # <<>>
  /\ IF Head(queue[c])[1] = "connected"
     THEN /\ at' = [at EXCEPT ![c] = "relay"] /\ up' = [up EXCEPT ![c] = "read"]
          /\ queue' = [queue EXCEPT ![c] = Tail(@)]
          /\ UNCHANGED <<result, pending, channels, hand, pipeVars, supVars, dataVars,
                         clientVars>>
     ELSE FinishRelay(c, "failed")

\* Nothing has come for ten seconds.
ConnectTimeout(c) == at[c] = "first" /\ FinishRelay(c, "failed")

TakeData(c) ==
  /\ Takes(c, "data")
  /\ at' = [at EXCEPT ![c] = "drain"] /\ got' = [got EXCEPT ![c] = @ + 1]
  /\ queue' = [queue EXCEPT ![c] = Tail(@)]
  /\ UNCHANGED <<result, up, pending, channels, hand, pipeVars, supVars, sent, made, given,
                 clientVars>>

\* The client has read enough, or has not for thirty seconds or is gone.
Drained(c) ==
  /\ at[c] = "drain" /\ c \notin gone /\ at' = [at EXCEPT ![c] = "relay"]
  /\ UNCHANGED <<result, up, pending, chanVars, pipeVars, supVars, dataVars, clientVars>>

DrainFails(c) == at[c] = "drain" /\ FinishRelay(c, "cut")

TakeWritten(c) ==
  /\ Takes(c, "written")
  /\ IF Head(queue[c])[3] > pending[c]
     THEN FinishRelay(c, "invalid")
     ELSE /\ pending' = [pending EXCEPT ![c] = @ - Head(queue[c])[3]]
          /\ queue' = [queue EXCEPT ![c] = Tail(@)]
          /\ UNCHANGED <<at, result, up, channels, hand, pipeVars, supVars, dataVars, clientVars>>

TakeEnd(c) ==
  /\ Takes(c, "end")
  /\ told' = told \cup {c} /\ queue' = [queue EXCEPT ![c] = Tail(@)]
  /\ UNCHANGED <<taskVars, channels, hand, pipeVars, supVars, dataVars, gone>>

TakeClosed(c) == Takes(c, "closed") /\ FinishRelay(c, IF c \in gone THEN "cut" ELSE "closed")

TakeError(c) == Takes(c, "error") /\ FinishRelay(c, "cut")
-----------------------------------------------------------------------------
(* The upload *)

Upload(c, op, n) ==
  /\ lock' = Append(lock, <<op, c, n>>)
  /\ up' = [up EXCEPT ![c] = "send"]
  /\ UNCHANGED <<at, result, chanVars, input, output, supVars, made, given, got, clientVars>>

\* Mutant of ReadClient: what is acknowledged is counted from nothing.
ReadClientUncounted(c, n) ==
  /\ up[c] = "read" /\ c \notin gone /\ sent[c] + n <= Up[c]
  /\ sent' = [sent EXCEPT ![c] = @ + n] /\ UNCHANGED pending
  /\ Upload(c, "data", n)

\* What is read is pending before it is sent: its acknowledgment may come at once.
ReadClient(c, n) ==
  /\ up[c] = "read" /\ c \notin gone /\ sent[c] + n <= Up[c]
  /\ sent' = [sent EXCEPT ![c] = @ + n] /\ pending' = [pending EXCEPT ![c] = n]
  /\ Upload(c, "data", n)

\* The client ends its half of the connection.
ReadEnd(c) ==
  /\ up[c] = "read" /\ c \notin gone
  /\ Upload(c, "end", 0) /\ UNCHANGED <<pending, sent>>

\* Everything is written, the next may be read.
Credited(c) ==
  /\ up[c] = "credit" /\ pending[c] = 0 /\ up' = [up EXCEPT ![c] = "read"]
  /\ UNCHANGED <<at, result, pending, chanVars, pipeVars, supVars, dataVars, clientVars>>

\* The client resets the connection: the upload tells the task, if it can.
ClientGone(c) ==
  /\ at[c] \in {"relay", "drain"} /\ c \notin gone /\ gone' = gone \cup {c}
  /\ IF up[c] = "read"
     THEN /\ up' = [up EXCEPT ![c] = "done"]
          /\ queue' = [queue EXCEPT ![c] =
                         IF Len(@) < QueueSize THEN Append(@, <<"closed", c, 0>>) ELSE @]
     ELSE UNCHANGED <<up, queue>>
  /\ UNCHANGED <<at, result, pending, channels, hand, pipeVars, supVars, dataVars, told>>
-----------------------------------------------------------------------------
(* The reader *)

ReadFrame ==
  /\ hand = <<>> /\ output # <<>>
  /\ output' = Tail(output)
  /\ hand' = IF Head(output)[2] \in channels THEN Head(output) ELSE <<>>
  /\ UNCHANGED <<taskVars, channels, queue, lock, input, supVars, dataVars, clientVars>>

\* Mutant of PutFrame: what a slow client has no place for is dropped.
PutFrameDropping ==
  /\ hand # <<>> /\ hand' = <<>>
  /\ queue' = IF at[hand[2]] \in {"close", "done"} \/ Len(queue[hand[2]]) = QueueSize
              THEN queue ELSE [queue EXCEPT ![hand[2]] = Append(@, hand)]
  /\ UNCHANGED <<taskVars, channels, pipeVars, supVars, dataVars, clientVars>>

\* Clients give no credit for what they are sent: one that is too slow is cut.
\* The reader goes on when its close is sent.
PutFrame ==
  /\ hand # <<>> /\ hand[1] # "overflow"
  /\ LET c == hand[2]
     IN IF at[c] \in {"close", "done"}
        THEN hand' = <<>> /\ UNCHANGED <<queue, channels, lock>>
        ELSE IF Len(queue[c]) < QueueSize
        THEN /\ queue' = [queue EXCEPT ![c] = Append(@, hand)] /\ hand' = <<>>
             /\ UNCHANGED <<channels, lock>>
        ELSE /\ channels' = channels \ {c} /\ hand' = <<"overflow", c, 0>>
             /\ queue' = [queue EXCEPT ![c] = <<<<"error", c, 0>>>>]
             /\ lock' = Append(lock, <<"close", c, 0>>)
  /\ UNCHANGED <<taskVars, input, output, supVars, dataVars, clientVars>>
-----------------------------------------------------------------------------
(* The supervisor *)

Receives(op, c) ==
  /\ input # <<>> /\ Head(input)[1] = op /\ Head(input)[2] = c /\ input' = Tail(input)
  /\ UNCHANGED <<taskVars, chanVars, lock, dataVars, clientVars>>

Emit(frames) == output' = output \o frames

\* Mutant of CloseStream: the stream stays.
CloseStreamKept(c, frames) ==
  /\ Emit(Append(frames, <<"closed", c, 0>>))
  /\ buffer' = [buffer EXCEPT ![c] = 0]
  /\ ended' = ended \ {c} /\ shut' = shut \ {c} /\ readEnd' = readEnd \ {c}
  /\ UNCHANGED socket

CloseStream(c, frames) ==
  /\ Emit(Append(frames, <<"closed", c, 0>>))
  /\ socket' = [socket EXCEPT ![c] = "none"] /\ buffer' = [buffer EXCEPT ![c] = 0]
  /\ ended' = ended \ {c} /\ shut' = shut \ {c} /\ readEnd' = readEnd \ {c}

Fault(c) == <<<<"error", c, 0>>>>

Streams == {c \in Relays : socket[c] # "none"}

SupConnect(c) ==
  /\ Receives("connect", c)
  /\ IF Cardinality(Streams) >= MaxStreams
     THEN Emit(Fault(c)) /\ UNCHANGED socket
     ELSE socket' = [socket EXCEPT ![c] = "v4"] /\ UNCHANGED output
  /\ UNCHANGED <<buffer, ended, shut, readEnd>>

SupData(c) ==
  /\ Receives("data", c)
  /\ LET n == Head(input)[3]
     IN IF c \notin Streams THEN Emit(Fault(c)) /\ UNCHANGED supVars
        ELSE IF buffer[c] + n > MaxPending THEN CloseStream(c, Fault(c))
        ELSE /\ buffer' = [buffer EXCEPT ![c] = @ + n]
             /\ UNCHANGED <<output, socket, ended, shut, readEnd>>

SupEnd(c) ==
  /\ Receives("end", c)
  /\ IF c \in Streams
     THEN ended' = ended \cup {c} /\ UNCHANGED output
     ELSE Emit(Fault(c)) /\ UNCHANGED ended
  /\ UNCHANGED <<socket, buffer, shut, readEnd>>

SupClose(c) ==
  /\ Receives("close", c)
  /\ IF c \in Streams THEN CloseStream(c, <<>>) ELSE Emit(Fault(c)) /\ UNCHANGED supVars

Serves == UNCHANGED <<taskVars, chanVars, lock, input, clientVars>>

\* The server is dialled on both loopback addresses, the second when the first
\* fails or does not answer.
Dial(c) ==
  /\ Serves /\ socket[c] \in {"v4", "v6"}
  /\ \/ /\ socket' = [socket EXCEPT ![c] = "open"] /\ Emit(<<<<"connected", c, 0>>>>)
        /\ UNCHANGED <<buffer, ended, shut, readEnd>>
     \/ /\ socket[c] = "v4" /\ socket' = [socket EXCEPT ![c] = "v6"]
        /\ UNCHANGED <<output, buffer, ended, shut, readEnd>>
     \/ socket[c] = "v6" /\ CloseStream(c, Fault(c))
  /\ UNCHANGED dataVars

\* The server sends, or ends its half.
Recv(c) ==
  /\ Serves /\ socket[c] = "open" /\ c \notin readEnd
  /\ \/ /\ made[c] < Down[c] /\ made' = [made EXCEPT ![c] = @ + 1]
        /\ Emit(<<<<"data", c, 1>>>>) /\ UNCHANGED readEnd
     \/ readEnd' = readEnd \cup {c} /\ Emit(<<<<"end", c, 0>>>>) /\ UNCHANGED made
  /\ UNCHANGED <<socket, buffer, ended, shut, sent, given, got>>

\* The server takes what is pending.
Give(c) ==
  /\ Serves /\ socket[c] = "open" /\ buffer[c] > 0
  /\ buffer' = [buffer EXCEPT ![c] = @ - 1] /\ given' = [given EXCEPT ![c] = @ + 1]
  /\ Emit(<<<<"written", c, 1>>>>)
  /\ UNCHANGED <<socket, ended, shut, readEnd, sent, made, got>>

\* The server resets the connection.
Breaks(c) ==
  /\ Serves /\ socket[c] = "open" /\ CloseStream(c, Fault(c)) /\ UNCHANGED dataVars

\* The client has ended its half and the server has all of it.
Ended(c) == c \in ended /\ buffer[c] = 0

\* refresh(): end the half towards the server, and close what both have ended.
Refresh(c) ==
  /\ Serves /\ socket[c] = "open"
  /\ IF c \in shut THEN c \in readEnd ELSE Ended(c)
  /\ IF c \in readEnd
     THEN CloseStream(c, <<>>)
     ELSE shut' = shut \cup {c} /\ UNCHANGED <<output, socket, buffer, ended, readEnd>>
  /\ UNCHANGED dataVars
-----------------------------------------------------------------------------
Relay(c) ==
  \/ TakeFirst(c) \/ TakeData(c) \/ TakeWritten(c) \/ TakeEnd(c) \/ TakeClosed(c) \/ TakeError(c)
  \/ Drained(c) \/ Credited(c)

Supervisor(c) == SupConnect(c) \/ SupData(c) \/ SupEnd(c) \/ SupClose(c) \/ Refresh(c)

StreamsNext ==
  \/ \E c \in Relays :
       \/ Accept(c) \/ Relay(c) \/ ConnectTimeout(c) \/ DrainFails(c)
       \/ ReadEnd(c) \/ ClientGone(c) \/ (\E n \in 1..ReadSize : ReadClient(c, n))
       \/ Supervisor(c) \/ Dial(c) \/ Recv(c) \/ Give(c) \/ Breaks(c)
  \/ Write \/ ReadFrame \/ PutFrame

StreamsSpec == StreamsInit /\ [][StreamsNext]_streamsVars

\* The tasks of the event loop and the supervisor's loop go on, and the time
\* limits of the dial and of the drain pass.  Nothing is assumed of clients and
\* servers.
StreamsFairness ==
  /\ WF_streamsVars(Write) /\ WF_streamsVars(ReadFrame) /\ WF_streamsVars(PutFrame)
  /\ \A c \in Relays :
       /\ WF_streamsVars(Relay(c)) /\ WF_streamsVars(DrainFails(c))
       /\ WF_streamsVars(Supervisor(c)) /\ WF_streamsVars(Dial(c))

StreamsFairSpec == StreamsSpec /\ StreamsFairness
=============================================================================
