--------------------------- MODULE PresenceProofs ---------------------------
(***************************************************************************)
(* What the presence loop does to the light, for any states, any default   *)
(* state and any number of writes by others, failures and restarts.        *)
(*                                                                         *)
(* Both properties are about what a write does whose decision was taken    *)
(* earlier, on a light read earlier.  So the invariant carries the         *)
(* decision to the write: what is about to be written is IN_CALL or the    *)
(* baseline, and without a call it replaces IN_CALL alone, unless somebody *)
(* has written the light meanwhile.                                        *)
(***************************************************************************)
EXTENDS Presence, TLAPS

\* What a tick that has decided to write is about to do.
DecisionHolds ==
  pc = "set" => /\ desired \in {"IN_CALL", lastManual}
                /\ usage \/ raced \/ light = "IN_CALL"

IInv == TypeOK /\ DecisionHolds /\ CallHidesNothing

USE PresenceAssumption DEF None

-----------------------------------------------------------------------------

LEMMA InitHolds == Init => IInv
<1> SUFFICES ASSUME Init PROVE IInv
  OBVIOUS
<1>1. lastManual \in State /\ lastPushed \in State \cup {None}
  BY DEF Init
<1>2. {mic, paused, claude, usage, raced, mine} \subseteq BOOLEAN
  BY DEF Init
<1>3. TypeOK
  BY <1>1, <1>2 DEF Init, TypeOK
<1> QED
  BY <1>3 DEF Init, IInv, DecisionHolds, CallHidesNothing

\* A read of the light, or its failure, is all a decision needs.
LEMMA DecideKeeps ==
  ASSUME IInv, Get
  PROVE  IInv'
<1> USE DEF IInv, TypeOK
<1> SUFFICES ASSUME NEW current \in {light, None},
                    Decide(current) /\ (spent' = spent \/ Fault)
             PROVE  IInv'
  <2>1. CASE Fault /\ pc' = "sleep" /\ UNCHANGED <<desired, lastManual, lastPushed>>
    <3>1. spent' \in [writes : 0..MaxWrites, faults : 0..MaxFaults]
      BY <2>1 DEF Fault, Spend
    <3>2. {mic', paused', claude', usage', raced', mine'} \subseteq BOOLEAN
      BY DEF Get
    <3> QED
      BY <2>1, <3>1, <3>2 DEF Get, DecisionHolds, CallHidesNothing
  <2> QED
    BY <2>1 DEF Get
<1>1. Decide(current) /\ (spent' = spent \/ Fault)
  OBVIOUS
<1>2. UNCHANGED <<light, mic, paused, claude, usage, cover, mine>> /\ raced' = FALSE
  BY DEF Get
<1>3. spent' \in [writes : 0..MaxWrites, faults : 0..MaxFaults]
  BY <1>1 DEF Fault, Spend
<1>4. /\ lastManual' \in State
      /\ lastManual' # lastManual => lastManual' = light /\ light # "IN_CALL"
  BY <1>1 DEF Decide, Learns
<1>5. /\ pc' \in {"sleep", "set"} /\ desired' \in State \cup {None}
      /\ lastPushed' \in State \cup {None}
  BY <1>1 DEF Decide, Desired
<1>6. pc' = "set" => /\ desired' \in {"IN_CALL", lastManual'}
                     /\ usage \/ light = "IN_CALL"
  <2>1. pc' = "set" => desired' = Desired(current) /\ desired' \notin {None, current}
    BY <1>1 DEF Decide
  <2>2. CASE usage
    BY <2>1, <2>2 DEF Desired
  <2>3. CASE ~usage
    <3>1. pc' = "set" => current = "IN_CALL" /\ desired' = lastManual
      BY <2>1, <2>3 DEF Desired
    <3>2. current = "IN_CALL" => lastManual' = lastManual /\ light = current
      BY <1>1 DEF Decide, Learns
    <3> QED
      BY <3>1, <3>2
  <2> QED
    BY <2>2, <2>3
<1>7. TypeOK'
  <2>1. {mic', paused', claude', usage', raced', mine'} \subseteq BOOLEAN
    BY <1>2
  <2> QED
    BY <1>2, <1>3, <1>4, <1>5, <2>1
<1>8. DecisionHolds' /\ CallHidesNothing'
  BY <1>2, <1>4, <1>6 DEF DecisionHolds, CallHidesNothing
<1> QED
  BY <1>7, <1>8

\* The other steps of a tick.
LEMMA TickKeeps ==
  ASSUME IInv, Poll \/ KeepAliveDies \/ Sample \/ Set \/ SetFails
  PROVE  IInv'
<1> USE DEF IInv, TypeOK
<1>1. CASE Poll
  BY <1>1 DEF Poll, ghostVars, DecisionHolds, CallHidesNothing
<1>2. CASE Sample
  BY <1>2 DEF Sample, ghostVars, DecisionHolds, CallHidesNothing
<1>3. CASE Set
  BY <1>3 DEF Set, Apply, DecisionHolds, CallHidesNothing
<1>4. CASE SetFails
  <2>1. spent' \in [writes : 0..MaxWrites, faults : 0..MaxFaults]
    BY <1>4 DEF SetFails, Fault, Spend
  <2>2. light' \in {light, "IN_CALL", lastManual}
    BY <1>4 DEF SetFails, Apply, DecisionHolds
  <2>3. mine' \in BOOLEAN
    BY <1>4 DEF SetFails, Apply
  <2>4. TypeOK'
    BY <1>4, <2>1, <2>2, <2>3 DEF SetFails
  <2> QED
    BY <1>4, <2>2, <2>4 DEF SetFails, DecisionHolds, CallHidesNothing
<1>5. CASE KeepAliveDies
  <2>1. spent' \in [writes : 0..MaxWrites, faults : 0..MaxFaults]
    BY <1>5 DEF KeepAliveDies, Fault, Spend
  <2> QED
    BY <1>5, <2>1 DEF KeepAliveDies, ghostVars, DecisionHolds, CallHidesNothing
<1> QED
  BY <1>1, <1>2, <1>3, <1>4, <1>5

LEMMA RestartKeeps ==
  ASSUME IInv, Restart
  PROVE  IInv'
<1> USE DEF IInv, TypeOK
<1>1. spent' \in [writes : 0..MaxWrites, faults : 0..MaxFaults]
  BY DEF Restart, Fault, Spend
<1>2. lastManual' \in State /\ lastPushed' \in State \cup {None}
  BY DEF Restart
<1>3. {mic', paused', claude', usage', raced', mine'} \subseteq BOOLEAN
  BY DEF Restart
<1> QED
  BY <1>1, <1>2, <1>3 DEF Restart, DecisionHolds, CallHidesNothing

\* Calls, picks and the tray menu.
LEMMA OthersKeep ==
  ASSUME IInv,
         \/ CallStarts \/ CallEnds \/ TogglePause \/ ToggleClaude
         \/ \E s \in State : Written(s)
  PROVE  IInv'
<1> USE DEF IInv, TypeOK, loopVars, ghostVars
<1>1. CASE CallStarts
  <2>1. cover' # None => light \in {cover', "IN_CALL"} /\ lastManual = cover'
    BY <1>1 DEF CallStarts, CallHidesNothing
  <2>2. cover' \in State \cup {None}
    BY <1>1 DEF CallStarts
  <2> QED
    BY <1>1, <2>1, <2>2 DEF CallStarts, DecisionHolds, CallHidesNothing
<1>2. CASE CallEnds
  BY <1>2 DEF CallEnds, DecisionHolds, CallHidesNothing
<1>3. CASE TogglePause
  BY <1>3 DEF TogglePause, DecisionHolds, CallHidesNothing
<1>4. CASE ToggleClaude
  BY <1>4 DEF ToggleClaude, DecisionHolds, CallHidesNothing
<1>5. CASE \E s \in State : Written(s)
  <2>1. spent' \in [writes : 0..MaxWrites, faults : 0..MaxFaults]
    BY <1>5 DEF Written, Spend
  <2> QED
    BY <1>5, <2>1 DEF Written, DecisionHolds, CallHidesNothing
<1> QED
  BY <1>1, <1>2, <1>3, <1>4, <1>5

LEMMA Inductive == IInv /\ [Next]_vars => IInv'
<1> SUFFICES ASSUME IInv, [Next]_vars PROVE IInv'
  OBVIOUS
<1>1. CASE UNCHANGED vars
  BY <1>1 DEF vars, loopVars, ghostVars, IInv, TypeOK, DecisionHolds, CallHidesNothing
<1>2. CASE Next
  BY <1>2, DecideKeeps, TickKeeps, RestartKeeps, OthersKeep DEF Next, Tick
<1> QED
  BY <1>1, <1>2

-----------------------------------------------------------------------------

\* The invariant holds always.
THEOREM Invariance == Spec => []IInv
BY InitHolds, Inductive, PTL DEF Spec

\* The loop's variables keep their types: no failed read is ever learnt as the
\* state a user chose.
THEOREM TypeCorrect == Spec => []TypeOK
BY Invariance, PTL DEF IInv

\* What a call hides is neither lost nor forgotten.
THEOREM HiddenKept == Spec => []CallHidesNothing
BY Invariance, PTL DEF IInv

\* Outside a call the loop takes nothing but IN_CALL off the light.
THEOREM PicksKept == Spec => PicksSurvive
<1>1. IInv /\ [Next]_vars
        => [pc = "set" /\ ~usage /\ light' # light
              => light = "IN_CALL" \/ raced']_vars
  <2> SUFFICES ASSUME IInv, Next, pc = "set", ~usage, light' # light
               PROVE  light = "IN_CALL" \/ raced'
    BY DEF vars
  <2>1. CASE Set \/ SetFails
    BY <2>1 DEF Set, SetFails, IInv, DecisionHolds
  <2>2. CASE \E s \in State : Written(s)
    BY <2>2 DEF Written
  <2>3. CASE Poll \/ KeepAliveDies \/ Sample \/ Get \/ Restart
    BY <2>3 DEF Poll, KeepAliveDies, Sample, Get, Restart
  <2>4. CASE CallStarts \/ CallEnds \/ TogglePause \/ ToggleClaude
    BY <2>4 DEF CallStarts, CallEnds, TogglePause, ToggleClaude
  <2> QED
    BY <2>1, <2>2, <2>3, <2>4 DEF Next, Tick
<1> QED
  BY <1>1, Invariance, PTL DEF Spec, PicksSurvive
=============================================================================
