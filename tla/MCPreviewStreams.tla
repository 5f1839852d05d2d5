-------------------------- MODULE MCPreviewStreams ---------------------------
(* Small instances of PreviewStreams. *)
EXTENDS PreviewStreamsProperties

CONSTANT c1

\* The first connection carries data both ways, the others none.
OneUp == [c \in Relays |-> IF c = c1 THEN 3 ELSE 0]
OneDown == [c \in Relays |-> IF c = c1 THEN 2 ELSE 0]
=============================================================================
