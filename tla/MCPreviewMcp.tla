---------------------------- MODULE MCPreviewMcp -----------------------------
(* A small instance of PreviewMcp. *)
EXTENDS PreviewMcpProperties

CONSTANTS c1, c2
=============================================================================
