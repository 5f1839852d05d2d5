---------------------- MODULE PreviewStreamsProperties ----------------------
(***************************************************************************)
(* What the manager and the supervisor promise about connections.          *)
(***************************************************************************)
EXTENDS PreviewStreams

\* The acknowledgments agree with what was sent, in whatever order the upload
\* and the reader run: none is unexpected (manager.py:843), and the buffer of a
\* stream never overflows (supervisor.py:375).
CreditsAgree ==
  \A c \in Relays :
    /\ result[c] # "invalid"
    /\ buffer[c] <= pending[c] \/ at[c] \in {"close", "done"}

\* A client that is told the end has everything the server has sent before.  A
\* connection that is closed rather than cut has carried everything, both ways.
ToldHasAll ==
  \A c \in Relays :
    /\ c \in told => got[c] = made[c]
    /\ result[c] = "closed" => c \in told /\ given[c] = sent[c]

\* A connection ends when both its halves have ended, and a stream outlives it
\* only until the close arrives: whatever was cut, timed out or refused, nothing
\* stays in the supervisor.
StreamsEnd ==
  \A c \in Relays :
    /\ c \in shut \cap readEnd ~> at[c] = "done"
    /\ result[c] # "none" ~> socket[c] = "none"
=============================================================================
