--------------------------- MODULE MCClaudeLight ---------------------------
(* Two processes at a time and two sessions: enough for one command to     *)
(* overtake another, and for one session's end to hide another's work.     *)
(* Safety is checked up to a permutation of both.                          *)
EXTENDS ClaudeLight, TLC

CONSTANTS p1, p2, s1, s2

MCSymmetry == Permutations({p1, p2}) \cup Permutations({s1, s2})
=============================================================================
