---------------------------- MODULE MCPreviewExec ----------------------------
(* A small instance of PreviewExec: one call writes, the other does not. *)
EXTENDS PreviewExecProperties

CONSTANTS c1, c2

OneWrites == [c \in Calls |-> IF c = c1 THEN 2 ELSE 0]
=============================================================================
