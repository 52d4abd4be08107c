----------------------------- MODULE MCAppLife -----------------------------
(* Two clicks on the offer, and a batch file that tries three times. *)
EXTENDS AppLife

MCInstallers == {"first", "second"}
=============================================================================
