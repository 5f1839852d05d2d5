---------------------------- MODULE MCBridgeInbox ----------------------------
(* Small instances of BridgeInbox. *)
EXTENDS BridgeInbox

CONSTANT alice

MCOne == {alice}
=============================================================================
