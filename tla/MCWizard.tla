------------------------------ MODULE MCWizard ------------------------------
(* An attempt and a second one, which may find the first one's commands in *)
(* the device.                                                             *)
EXTENDS Wizard
=============================================================================
