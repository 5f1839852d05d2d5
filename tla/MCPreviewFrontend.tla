-------------------------- MODULE MCPreviewFrontend --------------------------
(* A small instance of PreviewFrontend. *)
EXTENDS PreviewFrontend

CONSTANTS i1, i2, i3
=============================================================================
