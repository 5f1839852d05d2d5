---------------------------- MODULE MCBridgePoll -----------------------------
(* Small instances of BridgePollProperties: two items, of one subject or of
   two. *)
EXTENDS BridgePollProperties, TLC

CONSTANTS i1, i2, s1, s2

OneSubject  == i1 :> s1 @@ i2 :> s1
TwoSubjects == i1 :> s1 @@ i2 :> s2
=============================================================================
