-------------------------- MODULE MCPreviewManager --------------------------
(* A small instance of PreviewManager: there is room for one runtime, and     *)
(* two calls come: of two sessions with a workspace each, of one session, or  *)
(* one call and a stop of its session.                                        *)
EXTENDS PreviewManagerProperties

CONSTANTS e1, e2, e3, s1, s2, w1, w2, k1

Session   == [c \in Calls |-> IF c = e2 THEN s2 ELSE s1]
Workspace == [c \in Calls |-> IF c = e2 THEN w2 ELSE w1]

TwoOfThem == {{e1, e2}, {e1, k1}, {e1, e3}}
=============================================================================
