---------------------------- MODULE SessionBoard ----------------------------
(***************************************************************************)
(* What the state file of Claude mode is meant to be: a board of sessions  *)
(* on which every command takes effect at one instant, whole, on top of    *)
(* everything that took effect before it.                                  *)
(***************************************************************************)

CONSTANT Session   \* the Claude Code sessions

None == "none"

Status == {"absent", "idle", "working", "expired"}
Board == [sessions : [Session -> Status], focus : Session \cup {None}]
Empty == [sessions |-> [s \in Session |-> "absent"], focus |-> None]

\* The commands that touch the board, each with the session it names.
Op == {"working", "idle", "sessionend", "focus", "unfocus", "off"}

ClearFocus(b, s) == IF b.focus = s THEN None ELSE b.focus

\* The board after a command: _upsert(), the pop of mark_sessionend(), and the
\* assignments of set_focus(), clear_focus() and disable().
Effect(op, s, b) ==
  CASE op \in {"working", "idle"} -> [b EXCEPT !.sessions[s] = op]
    [] op = "sessionend" -> [sessions |-> [b.sessions EXCEPT ![s] = "absent"],
                             focus |-> ClearFocus(b, s)]
    [] op = "focus"   -> [b EXCEPT !.focus = s]
    [] op = "unfocus" -> [b EXCEPT !.focus = None]
    [] op = "off"     -> Empty

\* A session that has not been heard of for the TTL counts no longer.
Aged(b, s) == [b EXCEPT !.sessions[s] = "expired"]

VARIABLE file      \* the board

Init == file = Empty

Command == \E op \in Op, s \in Session : file' = Effect(op, s, file)

Expire == \E s \in Session : /\ file.sessions[s] \in {"idle", "working"}
                             /\ file' = Aged(file, s)

Next == Command \/ Expire

Spec == Init /\ [][Next]_file
=============================================================================
