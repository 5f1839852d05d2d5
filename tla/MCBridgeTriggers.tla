-------------------------- MODULE MCBridgeTriggers ---------------------------
(* Small instances of BridgeTriggers. *)
EXTENDS BridgeTriggers
=============================================================================
