----------------------------- MODULE MCPresence -----------------------------
(* Three states: IN_CALL, the default, and one that only others pick.      *)
EXTENDS Presence

MCState == {"AVAILABLE", "BUSY", "IN_CALL"}
=============================================================================
