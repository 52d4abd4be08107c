---------------------------- MODULE SignedUpdate ----------------------------
(***************************************************************************)
(* What the firmware promises of an update, whatever the transport: there  *)
(* is at most one update session at a time, and the image the device boots *)
(* changes only when a session ends with an image that the holder of the   *)
(* signing key signed.  A session may also end with nothing installed, and *)
(* a restart ends it.                                                      *)
(***************************************************************************)

CONSTANTS Signed,   \* the <<image, signature>> pairs the public key accepts
          Factory   \* the image the device left the factory with

VARIABLES image,    \* the image the bootloader starts
          session   \* is an update session open?

updateVars == <<image, session>>

Init == image = Factory /\ session = FALSE

Open == session = FALSE /\ session' = TRUE /\ UNCHANGED image

Install == /\ session = TRUE
           /\ session' = FALSE
           /\ \E pair \in Signed : image' = pair[1]

Abandon == session = TRUE /\ session' = FALSE /\ UNCHANGED image

Next == Open \/ Install \/ Abandon

Spec == Init /\ [][Next]_updateVars
=============================================================================
