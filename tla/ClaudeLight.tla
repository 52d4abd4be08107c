---------------------------- MODULE ClaudeLight ----------------------------
(***************************************************************************)
(* Claude mode (claude_light.py): short-lived processes, one per hook of a *)
(* Claude Code session, per click in the tray or the dashboard, that share *)
(* a flag file, a state file, a lock file and the light.                   *)
(*                                                                         *)
(* A process reads the state, changes it and saves it under a lock that is *)
(* only best effort; then, with the lock released, it works out the colour *)
(* and sends it to the device.                                             *)
(***************************************************************************)
EXTENDS Naturals, Sequences

CONSTANTS
  Proc,       \* the processes that can run at one time
  Session,    \* the Claude Code sessions
  Commands,   \* the commands that are ever given
  Faults,     \* what may go wrong: a subset of Fault
  MaxFaults   \* bound on how often it does

Fault == {"crash",    \* a hook is killed at its 5 s timeout
          "stall",    \* a process is stopped for longer than others wait
          "denied",   \* os.open() of the lock fails with another OSError
          "save",     \* _save_state() swallows an exception
          "unlink",   \* disable() swallows one, and the flag file stays
          "write",    \* no device takes the light's new state
          "expire"}   \* a session is silent for the TTL

ASSUME ClaudeAssumption ==
  /\ Faults \subseteq Fault /\ MaxFaults \in Nat
  /\ "none" \notin Session \cup Proc

VARIABLES
  flag,       \* does the flag file exist?
  file,       \* the contents of claude_state.json
  tmp,        \* the contents of claude_state.json.tmp, if it exists
  lock,       \* the process that created the lock file, or None
  lockOld,    \* is the lock file more than 10 s old?
  light,      \* the state of the device
  pc,         \* where each process is, "idle" where none runs
  cmd,        \* its command, and the session that is for
  held,       \* its fd is not None
  mem,        \* its st
  last,       \* the command started last
  calm,       \* has it met no other process and no fault?
  faults      \* how many faults there have been

\* The state file as it is meant to be: one whole command at a time.
Ideal == INSTANCE SessionBoard

None == Ideal!None
Board == Ideal!Board

sharedVars == <<flag, file, tmp, lock, lockOld, light>>
localVars == <<pc, cmd, held, mem>>
ghostVars == <<last, calm>>
vars == <<sharedVars, localVars, ghostVars, faults>>

Op == Ideal!Op \cup {"on"}
ASSUME CommandsAssumption == Commands \subseteq Op

NoCommand == [op |-> "off", sid |-> None]
Locked == {"load", "save", "replace", "unlock"}
Place == Locked \cup {"idle", "lock", "steal", "decide", "write", "green"}

TypeOK ==
  /\ flag \in BOOLEAN /\ lockOld \in BOOLEAN
  /\ file \in Board /\ (tmp = <<>> \/ \E b \in Board : tmp = <<b>>)
  /\ lock \in Proc \cup {None} /\ light \in {"BUSY", "AVAILABLE"}
  /\ pc \in [Proc -> Place]
  /\ cmd \in [Proc -> [op : Op, sid : Session \cup {None}]]
  /\ held \in [Proc -> BOOLEAN] /\ mem \in [Proc -> Board]
  /\ last \in Op /\ calm \in BOOLEAN /\ faults \in 0..MaxFaults

Init ==
  /\ flag \in BOOLEAN /\ file = Ideal!Empty /\ tmp = <<>>
  /\ lock = None /\ lockOld = FALSE /\ light = "AVAILABLE"
  /\ pc = [p \in Proc |-> "idle"] /\ cmd = [p \in Proc |-> NoCommand]
  /\ held = [p \in Proc |-> FALSE] /\ mem = [p \in Proc |-> Ideal!Empty]
  /\ last = "off" /\ calm = TRUE /\ faults = 0

At(p, place) == pc[p] = place
Goto(p, place) == pc' = [pc EXCEPT ![p] = place]
\* The process is gone, and its memory and its descriptors with it.
Exit(p) == /\ pc' = [pc EXCEPT ![p] = "idle"]
           /\ cmd' = [cmd EXCEPT ![p] = NoCommand]
           /\ held' = [held EXCEPT ![p] = FALSE]
           /\ mem' = [mem EXCEPT ![p] = Ideal!Empty]
Quiet == \A p \in Proc : At(p, "idle")
Fails(what) == what \in Faults /\ faults < MaxFaults /\ faults' = faults + 1

-----------------------------------------------------------------------------
(* What the light should show.                                             *)

Working(board, s) == board.sessions[s] = "working"
Live(board) == {s \in Session : board.sessions[s] \in {"idle", "working"}}

\* _desired_state(), with _prune(): a focus on no live session is no focus
Desired(board) ==
  IF board.focus \in Live(board)
  THEN IF Working(board, board.focus) THEN "BUSY" ELSE "AVAILABLE"
  ELSE IF \E s \in Session : Working(board, s) THEN "BUSY" ELSE "AVAILABLE"

-----------------------------------------------------------------------------
(* A command starts.  The three hooks look at the flag first and are gone  *)
(* if the mode is off; focus and unfocus do not look.  A session waits for *)
(* its hook (claude_hooks.py gives it 5 s), so it runs one at a time.      *)

Hook == {"working", "idle", "sessionend"}

Start(p, command, s) ==
  /\ At(p, "idle")
  /\ command \in Hook => /\ flag
                         /\ \A q \in Proc : ~At(q, "idle") /\ cmd[q].op \in Hook
                                             => cmd[q].sid # s
  /\ \/ /\ flag' = CASE command = "on" -> TRUE
                     [] command = "off" -> FALSE
                     [] OTHER -> flag
        /\ calm' = Quiet
        /\ UNCHANGED faults
     \/ /\ command = "off" /\ Fails("unlink")
        /\ calm' = FALSE
        /\ UNCHANGED flag
  /\ cmd' = [cmd EXCEPT ![p] = [op |-> command, sid |-> s]]
  /\ Goto(p, IF command = "on" THEN "green" ELSE "lock")
  /\ last' = command
  /\ UNCHANGED <<file, tmp, lock, lockOld, light, held, mem>>

-----------------------------------------------------------------------------
(* _state_lock()                                                           *)

\* mutant: the lock file is opened without O_EXCL
AcquireShared(p) ==
  /\ At(p, "lock")
  /\ lock' = p /\ lockOld' = FALSE
  /\ held' = [held EXCEPT ![p] = TRUE]
  /\ Goto(p, "load")
  /\ UNCHANGED <<flag, file, tmp, light, cmd, mem, ghostVars, faults>>

Acquire(p) ==
  /\ At(p, "lock") /\ lock = None
  /\ lock' = p /\ lockOld' = FALSE
  /\ held' = [held EXCEPT ![p] = TRUE]
  /\ Goto(p, "load")
  /\ UNCHANGED <<flag, file, tmp, light, cmd, mem, ghostVars, faults>>

\* The lock outlives its second of waiting only if its creator is dead or stopped.
Abandoned == lock # None /\ (~held[lock] \/ "stall" \in Faults)

Unlocked(p) == /\ Goto(p, "load")
               /\ UNCHANGED <<sharedVars, cmd, held, mem, ghostVars>>

\* mutant: the deadline is worked out anew at every turn of the loop
GiveUpNever(p) == At(p, "lock") /\ Abandoned /\ UNCHANGED vars

\* The spin ends without the lock, and the process goes on without it.
GiveUp(p) == At(p, "lock") /\ Abandoned /\ Unlocked(p) /\ UNCHANGED faults

Denied(p) == At(p, "lock") /\ Fails("denied") /\ Unlocked(p)

\* A lock file older than 10 s is removed: the look at its age is one step,
\* the removal of whatever then has that name the next.
SeeOld(p) == /\ At(p, "lock") /\ lock # None /\ lockOld
             /\ Goto(p, "steal")
             /\ UNCHANGED <<sharedVars, cmd, held, mem, ghostVars, faults>>

Remove == lock' = None /\ lockOld' = FALSE

Steal(p) == /\ At(p, "steal")
            /\ Remove
            /\ Goto(p, "lock")
            /\ UNCHANGED <<flag, file, tmp, light, cmd, held, mem, ghostVars, faults>>

\* mutant: set_focus() does not call _apply()
UnlockSilent(p) ==
  /\ At(p, "unlock")
  /\ IF held[p] THEN Remove ELSE UNCHANGED <<lock, lockOld>>
  /\ IF cmd[p].op \in {"off", "focus"}
     THEN Exit(p)
     ELSE /\ held' = [held EXCEPT ![p] = FALSE] /\ Goto(p, "decide")
          /\ UNCHANGED <<cmd, mem>>
  /\ UNCHANGED <<flag, file, tmp, light, ghostVars, faults>>

Unlock(p) ==
  /\ At(p, "unlock")
  /\ IF held[p] THEN Remove ELSE UNCHANGED <<lock, lockOld>>
  /\ IF cmd[p].op = "off"
     THEN Exit(p)
     ELSE /\ held' = [held EXCEPT ![p] = FALSE] /\ Goto(p, "decide")
          /\ UNCHANGED <<cmd, mem>>
  /\ UNCHANGED <<flag, file, tmp, light, ghostVars, faults>>

-----------------------------------------------------------------------------
(* The read-modify-write.                                                  *)

\* mutant: set_focus() saves a fresh state with nothing but the focus in it
LoadFresh(p) ==
  /\ At(p, "load")
  /\ mem' = [mem EXCEPT ![p] = Ideal!Effect(cmd[p].op, cmd[p].sid,
                                 IF cmd[p].op = "focus" THEN Ideal!Empty ELSE file)]
  /\ Goto(p, "save")
  /\ UNCHANGED <<sharedVars, cmd, held, ghostVars, faults>>

Load(p) ==
  /\ At(p, "load")
  /\ mem' = [mem EXCEPT ![p] = Ideal!Effect(cmd[p].op, cmd[p].sid, file)]
  /\ Goto(p, "save")
  /\ UNCHANGED <<sharedVars, cmd, held, ghostVars, faults>>

\* Every process writes the same temporary file ...
Save(p) ==
  /\ At(p, "save")
  /\ tmp' = <<mem[p]>>
  /\ Goto(p, "replace")
  /\ UNCHANGED <<flag, file, lock, lockOld, light, cmd, held, mem, ghostVars, faults>>

\* A write that stops half-way leaves text that is no JSON: _load_state() takes
\* that for the empty state.
HalfWritten(p) == tmp' = tmp \/ (At(p, "save") /\ tmp' = <<Ideal!Empty>>)

SaveFails(p) ==
  /\ At(p, "save") /\ Fails("save")
  /\ HalfWritten(p)
  /\ Goto(p, "unlock")
  /\ calm' = FALSE
  /\ UNCHANGED <<flag, file, lock, lockOld, light, cmd, held, mem, last>>

\* ... and moves it over the state file; if another has moved it, nothing.
Replace(p) ==
  /\ At(p, "replace")
  /\ file' = IF tmp = <<>> THEN file ELSE Head(tmp)
  /\ tmp' = <<>>
  /\ Goto(p, "unlock")
  /\ UNCHANGED <<flag, lock, lockOld, light, cmd, held, mem, ghostVars, faults>>

-----------------------------------------------------------------------------
(* _apply()                                                                *)

Decide(p) ==
  /\ At(p, "decide")
  /\ IF flag THEN Goto(p, "write") /\ UNCHANGED <<cmd, held, mem>> ELSE Exit(p)
  /\ UNCHANGED <<sharedVars, ghostVars, faults>>

\* mutant: a focus on a session that is not live is followed all the same
WriteUnpruned(p) ==
  /\ At(p, "write")
  /\ light' = IF mem[p].focus \in Session
              THEN IF Working(mem[p], mem[p].focus) THEN "BUSY" ELSE "AVAILABLE"
              ELSE Desired(mem[p])
  /\ Exit(p)
  /\ UNCHANGED <<flag, file, tmp, lock, lockOld, ghostVars, faults>>

Write(p) ==
  /\ At(p, "write")
  /\ light' = Desired(mem[p])
  /\ Exit(p)
  /\ UNCHANGED <<flag, file, tmp, lock, lockOld, ghostVars, faults>>

\* enable() shows green whatever the state file says
Green(p) ==
  /\ At(p, "green")
  /\ light' = "AVAILABLE"
  /\ Exit(p)
  /\ UNCHANGED <<flag, file, tmp, lock, lockOld, ghostVars, faults>>

WriteFails(p) ==
  /\ pc[p] \in {"write", "green"} /\ Fails("write")
  /\ Exit(p)
  /\ calm' = FALSE
  /\ UNCHANGED <<sharedVars, last>>

-----------------------------------------------------------------------------
Crash(p) ==
  /\ ~At(p, "idle") /\ Fails("crash")
  /\ HalfWritten(p)
  /\ Exit(p)
  /\ calm' = FALSE
  /\ UNCHANGED <<flag, file, lock, lockOld, light, last>>

\* Ten seconds pass over a lock whose creator is dead or stopped.
LockAges ==
  /\ Abandoned /\ ~lockOld
  /\ faults < MaxFaults /\ faults' = faults + 1
  /\ lockOld' = TRUE
  /\ UNCHANGED <<flag, file, tmp, lock, light, localVars, ghostVars>>

\* The TTL of a session runs out: hours, so never while a process runs.
Expire(s) ==
  /\ Quiet /\ Fails("expire")
  /\ s \in Live(file)
  /\ file' = Ideal!Aged(file, s)
  /\ calm' = FALSE
  /\ UNCHANGED <<flag, tmp, lock, lockOld, light, localVars, last>>

LockStep(p) == Acquire(p) \/ GiveUp(p) \/ Denied(p) \/ SeeOld(p) \/ Steal(p) \/ Unlock(p)
FileStep(p) == Load(p) \/ Save(p) \/ SaveFails(p) \/ Replace(p)
LightStep(p) == Decide(p) \/ Write(p) \/ Green(p) \/ WriteFails(p)
Step(p) == LockStep(p) \/ FileStep(p) \/ LightStep(p)

Next == \/ \E p \in Proc, command \in Commands, s \in Session :
             Start(p, command, s)
        \/ \E p \in Proc : Step(p) \/ Crash(p)
        \/ LockAges
        \/ \E s \in Session : Expire(s)

\* A process that was started runs to its end; nobody has to start one.
Fairness == \A p \in Proc : WF_vars(Step(p))

Spec == Init /\ [][Next]_vars /\ Fairness

-----------------------------------------------------------------------------
(* Properties.                                                             *)

\* The lock excludes: at most one process is in its read-modify-write.
MutualExclusion ==
  \A p, q \in Proc : pc[p] \in Locked /\ pc[q] \in Locked => p = q

\* No update of the state file is lost or half done: it changes by whole
\* commands, each on top of the one before.
StateIsAtomic == Ideal!Spec

\* Whatever went wrong before, one command that meets no other and no fault
\* sets the light right: it shows what the state file says, a focus and the
\* sessions forgotten or closed included.  (The command "on" shows green.)
LightFollowsFile == Quiet /\ flag /\ calm /\ last # "on" => light = Desired(file)

\* A hook never blocks its turn of Claude Code, whatever has become of the
\* lock (docstring of _state_lock: "Never blocks a hook").
HookEnds == \A p \in Proc : pc[p] # "idle" ~> pc[p] = "idle"
=============================================================================
