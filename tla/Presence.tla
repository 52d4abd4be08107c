------------------------------ MODULE Presence ------------------------------
(***************************************************************************)
(* The presence loop: tray.py polls, and main.py PresenceLoop.tick() reads *)
(* the microphone, reads the light, decides and writes the light.  Between *)
(* any two of these steps a call may begin or end, somebody else may write *)
(* the light (the web UI, the device's schedule, a Claude process), and    *)
(* the user may pause the loop or turn Claude mode on.                     *)
(***************************************************************************)
EXTENDS Naturals

CONSTANTS
  State,      \* the states a user can pick, IN_CALL among them
  Default,    \* default_state of presence.ini
  MaxWrites,  \* bound on the writes of others
  MaxFaults   \* bound on failed requests and restarts of the helper

None == "none"

ASSUME PresenceAssumption ==
  /\ "IN_CALL" \in State /\ None \notin State
  /\ Default \in State
  /\ {MaxWrites, MaxFaults} \subseteq Nat

VARIABLES
  light,       \* the state of the device
  mic,         \* is an application capturing audio?
  paused,      \* TrayApp._paused
  claude,      \* does the Claude-mode flag file exist?
  pc,          \* where the worker thread is, or that it has ended
  usage,       \* usage.in_use of this tick
  desired,     \* what this tick is about to write, or None
  lastManual,  \* last_manual_state
  lastPushed,  \* last_pushed_state, or None
  raced,       \* has another written the light since this tick read it?
  cover,       \* the state a call hid and nobody touched since, or None
  mine,        \* was the light written by the loop last?
  spent        \* how much of each bound is used

loopVars == <<pc, usage, desired, lastManual, lastPushed>>
ghostVars == <<raced, cover, mine>>
vars == <<light, mic, paused, claude, loopVars, ghostVars, spent>>

TypeOK ==
  /\ light \in State /\ {mic, paused, claude, usage, raced, mine} \subseteq BOOLEAN
  /\ pc \in {"sleep", "mic", "get", "set", "ended"}
  /\ desired \in State \cup {None}
  /\ lastManual \in State /\ lastPushed \in State \cup {None}
  /\ cover \in State \cup {None}
  /\ spent \in [writes : 0..MaxWrites, faults : 0..MaxFaults]

Init ==
  /\ light \in State /\ mic = FALSE /\ paused = FALSE /\ claude \in BOOLEAN
  /\ pc = "sleep" /\ usage = FALSE /\ desired = None
  /\ lastManual = IF light = "IN_CALL" THEN Default ELSE light
  /\ lastPushed = IF light = "IN_CALL" THEN None ELSE light
  /\ raced = FALSE /\ cover = None /\ mine = FALSE
  /\ spent = [writes |-> 0, faults |-> 0]

Spend(what, bound) == /\ spent[what] < bound
                      /\ spent' = [spent EXCEPT ![what] = @ + 1]
Fault == Spend("faults", MaxFaults)

\* _should_drive_from_mic()
Driving == ~paused /\ ~claude

-----------------------------------------------------------------------------
(* One tick of the worker thread.                                          *)

Poll ==
  /\ pc = "sleep" /\ Driving
  /\ pc' = "mic"
  /\ UNCHANGED <<light, mic, paused, claude, usage, desired, lastManual,
                 lastPushed, ghostVars, spent>>

\* A paused loop calls keepalive() instead, outside the try: what client._send()
\* lets through, such as a connection that is reset, ends the thread.
KeepAliveDies ==
  /\ pc = "sleep" /\ ~Driving /\ Fault
  /\ pc' = "ended"
  /\ UNCHANGED <<light, mic, paused, claude, usage, desired, lastManual,
                 lastPushed, ghostVars>>

Sample ==
  /\ pc = "mic"
  /\ usage' = mic
  /\ pc' = "get"
  /\ UNCHANGED <<light, mic, paused, claude, desired, lastManual,
                 lastPushed, ghostVars, spent>>

\* mutant: a pick made in mid-call is left on the light
DesiredYields(current) ==
  IF usage THEN IF current = lastManual THEN "IN_CALL" ELSE current
  ELSE IF current = "IN_CALL" /\ lastPushed = "IN_CALL" THEN lastManual ELSE current

\* mutant: the end of a call is told by last_pushed_state alone
DesiredBlind(current) ==
  IF usage THEN "IN_CALL"
  ELSE IF lastPushed = "IN_CALL" THEN lastManual ELSE current

Desired(current) ==
  IF usage THEN "IN_CALL"
  ELSE IF current = "IN_CALL" /\ lastPushed = "IN_CALL" THEN lastManual ELSE current

\* mutant: IN_CALL is learnt as a manual choice
LearnsInCall(current) == ~usage /\ current # None /\ lastPushed # "IN_CALL"

Learns(current) == ~usage /\ current \notin {None, "IN_CALL"}

\* mutant: a tick that has nothing to write leaves last_pushed_state alone
DecideForgets(current) ==
  /\ lastManual' = IF Learns(current) THEN current ELSE lastManual
  /\ IF Desired(current) \in {None, current}
     THEN pc' = "sleep" /\ desired' = None /\ UNCHANGED lastPushed
     ELSE pc' = "set" /\ desired' = Desired(current) /\ UNCHANGED lastPushed

Decide(current) ==
  /\ lastManual' = IF Learns(current) THEN current ELSE lastManual
  /\ IF Desired(current) \in {None, current}
     THEN pc' = "sleep" /\ desired' = None /\ lastPushed' = current
     ELSE pc' = "set" /\ desired' = Desired(current) /\ UNCHANGED lastPushed

\* The answer, none, or an error that nobody in tick() knows, which ends the tick.
Get ==
  /\ pc = "get"
  /\ \/ Decide(light) /\ UNCHANGED spent
     \/ Decide(None) /\ Fault
     \/ Fault /\ pc' = "sleep" /\ UNCHANGED <<desired, lastManual, lastPushed>>
  /\ raced' = FALSE
  /\ UNCHANGED <<light, mic, paused, claude, usage, cover, mine>>

\* The write reaches the device.
Apply == light' = desired /\ mine' = TRUE

Set ==
  /\ pc = "set"
  /\ Apply
  /\ lastPushed' = desired /\ desired' = None /\ pc' = "sleep"
  /\ UNCHANGED <<mic, paused, claude, usage, lastManual, raced, cover, spent>>

\* The request fails, or it is carried out and only its answer is lost.
SetFails ==
  /\ pc = "set" /\ Fault
  /\ Apply \/ UNCHANGED <<light, mine>>
  /\ desired' = None /\ pc' = "sleep"
  /\ UNCHANGED <<mic, paused, claude, usage, lastManual, lastPushed, raced, cover>>

\* The helper is started anew: main() reads the light if it can be reached.
Restart ==
  /\ Fault
  /\ paused' = FALSE
  /\ pc' = "sleep" /\ usage' = FALSE /\ desired' = None
  /\ \E current \in {None, light} :
       IF current \in {None, "IN_CALL"}
       THEN lastManual' = Default /\ lastPushed' = None
       ELSE lastManual' = current /\ lastPushed' = current
  /\ raced' = FALSE /\ cover' = None
  /\ UNCHANGED <<light, mic, claude, mine>>

-----------------------------------------------------------------------------
(* Everybody else.                                                         *)

\* What a call that begins now hides, if the loop has seen it.
CallStarts ==
  /\ ~mic /\ mic' = TRUE
  /\ cover' = IF light = "IN_CALL" THEN cover
              ELSE IF lastManual = light THEN light ELSE None
  /\ UNCHANGED <<light, paused, claude, loopVars, raced, mine, spent>>

CallEnds ==
  /\ mic /\ mic' = FALSE
  /\ UNCHANGED <<light, paused, claude, loopVars, ghostVars, spent>>

\* A state is picked in the web UI, a scheduled event fires on the device, or a
\* Claude process shows a colour.
Written(s) ==
  /\ Spend("writes", MaxWrites)
  /\ light' = s /\ raced' = TRUE /\ cover' = None /\ mine' = FALSE
  /\ UNCHANGED <<mic, paused, claude, loopVars>>

TogglePause ==
  /\ paused' = ~paused
  /\ UNCHANGED <<light, mic, claude, loopVars, ghostVars, spent>>

ToggleClaude ==
  /\ claude' = ~claude
  /\ UNCHANGED <<light, mic, paused, loopVars, ghostVars, spent>>

Tick == Poll \/ Sample \/ Get \/ Set \/ SetFails

Next == \/ Tick
        \/ KeepAliveDies \/ Restart
        \/ CallStarts \/ CallEnds
        \/ \E s \in State : Written(s)
        \/ TogglePause \/ ToggleClaude

\* The worker thread goes on, errors in a tick notwithstanding, until it has ended.
Fairness == WF_vars(Tick)

Spec == Init /\ [][Next]_vars /\ Fairness

-----------------------------------------------------------------------------
(* Properties.                                                             *)

\* Outside a call the loop takes nothing off the light but IN_CALL, unless it
\* was put there between the loop's read and its write.
PicksSurvive == [][ pc = "set" /\ ~usage /\ light' # light
                      => light = "IN_CALL" \/ raced' ]_vars

\* What a call hides is not lost: while nobody else writes the light and the
\* helper lives, it shows IN_CALL or what it showed before, through failed
\* requests, pauses and calls that follow one another, and the baseline for
\* the end of the call is that same state.
CallHidesNothing == cover # None => light \in {cover, "IN_CALL"} /\ lastManual = cover

\* The loop drives the light: nobody has paused it, and its thread is there.
Drives == Driving /\ pc # "ended"

\* Once a call lasts, and the loop drives, the light shows it and goes on
\* showing it, whatever was written or failed before.
CallIsShown == <>[](mic /\ Drives) => <>[](light = "IN_CALL" /\ lastPushed = light)

\* Once no call is left, and the loop drives, an IN_CALL that the loop has put on
\* the light, be it before a restart or with its answer lost, is taken back; the
\* light is left in the manual state, and the tray icon shows the same.  (Of an
\* IN_CALL that somebody else picked nothing is said.)
CallIsCleared ==
  <>[](~mic /\ Drives)
    => <>[](IF light = "IN_CALL" THEN ~mine ELSE light = lastManual /\ lastPushed = light)
=============================================================================
