------------------------------- MODULE MCTray -------------------------------
(* Two update threads, so that one can end while the other flashes. *)
EXTENDS Tray

MCUpdaters == {"first", "second"}
=============================================================================
