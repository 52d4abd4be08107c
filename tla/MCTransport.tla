----------------------------- MODULE MCTransport -----------------------------
(* Two states of the light, and the smallest bounds with a retry of each kind. *)
EXTENDS Transport

MCState == {"BUSY", "IN_CALL"}
=============================================================================
