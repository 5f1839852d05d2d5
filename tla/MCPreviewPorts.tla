--------------------------- MODULE MCPreviewPorts ----------------------------
(* A small instance of PreviewPorts. *)
EXTENDS PreviewPortsProperties

CONSTANTS c1, c2, p1, p2
=============================================================================
