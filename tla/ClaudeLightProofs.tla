------------------------- MODULE ClaudeLightProofs -------------------------
(***************************************************************************)
(* The lock of Claude mode, for any number of processes and sessions: as   *)
(* long as no process is killed or stopped for long, and the lock file can *)
(* be opened, it excludes, and the state file is the board of SessionBoard.*)
(* And, whatever goes wrong, a command that meets no other and no fault    *)
(* sets the light right.                                                   *)
(***************************************************************************)
EXTENDS ClaudeLight, SequenceTheorems, TLAPS

\* What the lock cannot survive does not happen.
LockKept == Faults \cap {"crash", "stall", "denied"} = {}

\* The processes' variables are functions of the right kind.
ProcType ==
  /\ pc \in [Proc -> Place]
  /\ cmd \in [Proc -> [op : Op, sid : Session \cup {None}]]
  /\ held \in [Proc -> BOOLEAN]
  /\ mem \in [Proc -> Board]
  /\ file \in Board

\* Who is in the read-modify-write has the lock, and the lock is that process's.
LockInv ==
  /\ \A p \in Proc : held[p] <=> pc[p] \in Locked
  /\ \A p \in Proc : pc[p] \in Locked => lock = p
  /\ lock # None => lock \in Proc /\ pc[lock] \in Locked
  /\ lockOld = FALSE
  /\ \A p \in Proc : pc[p] # "steal"

\* A process that is about to save holds the effect of its command on the file.
SaveInv ==
  \A p \in Proc :
    /\ pc[p] \in {"lock"} \cup Locked => cmd[p].op \in Ideal!Op /\ cmd[p].sid \in Session
    /\ pc[p] \in {"save", "replace"} =>
         mem[p] = Ideal!Effect(cmd[p].op, cmd[p].sid, file)
    /\ pc[p] = "replace" => tmp = <<mem[p]>>

IInv == ProcType /\ LockInv /\ SaveInv

-----------------------------------------------------------------------------
\* The effect of a command on a board is a board.
LEMMA EffectIsBoard ==
  ASSUME NEW o \in Ideal!Op, NEW s \in Session, NEW b \in Board
  PROVE  Ideal!Effect(o, s, b) \in Board
  BY DEF Ideal!Effect, Ideal!ClearFocus, Board, Ideal!Board, Ideal!Op, Ideal!Status,
         Ideal!Empty, Ideal!None

LEMMA EmptyIsBoard == Ideal!Empty \in Board
  BY DEF Ideal!Empty, Board, Ideal!Board, Ideal!Status, Ideal!None

LEMMA InitIInv == Init => IInv
<1> SUFFICES ASSUME Init PROVE IInv
  OBVIOUS
<1>1. ProcType
  BY EmptyIsBoard DEF Init, ProcType, Place, NoCommand, Op, Ideal!Op, None, Ideal!None
<1>2. LockInv
  BY DEF Init, LockInv, Locked
<1>3. SaveInv
  BY DEF Init, SaveInv, Locked
<1> QED
  BY <1>1, <1>2, <1>3 DEF IInv

\* A process that ends outside the lock disturbs nothing.
LEMMA ExitStep ==
  ASSUME IInv, NEW p \in Proc, Exit(p), pc[p] \notin Locked,
         UNCHANGED <<file, tmp, lock, lockOld>>
  PROVE  IInv'
<1> USE DEF IInv, Exit
<1>1. ProcType'
  BY EmptyIsBoard DEF ProcType, Place, NoCommand, Op, Ideal!Op, None, Ideal!None
<1>2. LockInv'
  BY DEF ProcType, LockInv, Locked
<1>3. SaveInv'
  BY DEF ProcType, SaveInv, Locked
<1> QED
  BY <1>1, <1>2, <1>3

LEMMA StartStep ==
  ASSUME IInv, NEW p \in Proc, NEW command \in Commands, NEW s \in Session,
         Start(p, command, s)
  PROVE  IInv'
<1> USE DEF IInv, Start, At, Goto
<1>1. command \in Op
  BY CommandsAssumption
<1>2. ProcType'
  BY <1>1 DEF ProcType, Place
<1>3. LockInv'
  BY DEF ProcType, LockInv, Locked
<1>4. SaveInv'
  BY <1>1 DEF ProcType, SaveInv, Locked, Op
<1> QED
  BY <1>2, <1>3, <1>4

LEMMA LockStepStep ==
  ASSUME IInv, LockKept, NEW p \in Proc, LockStep(p)
  PROVE  IInv'
<1> USE DEF IInv
<1>1. CASE Acquire(p)
  <2> USE <1>1 DEF Acquire, At, Goto
  <2>1. \A q \in Proc : pc[q] \notin Locked
    BY ClaudeAssumption DEF LockInv, None, Ideal!None
  <2>2. /\ pc' = [pc EXCEPT ![p] = "load"] /\ lock' = p /\ lockOld' = FALSE
        /\ held' = [held EXCEPT ![p] = TRUE]
    OBVIOUS
  <2>3. pc' \in [Proc -> Place]
    BY <2>2 DEF ProcType, Place, Locked
  <2>4. held' \in [Proc -> BOOLEAN]
    BY <2>2 DEF ProcType
  <2>5. ProcType'
    BY <2>3, <2>4 DEF ProcType
  <2>6. \A q \in Proc : q # p => pc'[q] = pc[q] /\ held'[q] = held[q]
    BY <2>2 DEF ProcType
  <2>7. pc'[p] = "load" /\ held'[p] = TRUE
    BY <2>2 DEF ProcType
  <2>8. LockInv'
    BY <2>1, <2>2, <2>6, <2>7 DEF LockInv, Locked
  <2>9. SaveInv'
    BY DEF ProcType, SaveInv, Locked
  <2> QED
    BY <2>5, <2>8, <2>9
<1>2. CASE Unlock(p)
  <2> USE <1>2 DEF Unlock, Remove
  <2>1. ProcType'
    <3>1. CASE cmd[p].op = "off"
      <4>1. Exit(p) /\ file' = file
        BY <3>1
      <4> QED
        BY <4>1, EmptyIsBoard
        DEF Exit, ProcType, Place, NoCommand, Op, Ideal!Op, None, Ideal!None
    <3>2. CASE cmd[p].op # "off"
      <4>1. /\ held' = [held EXCEPT ![p] = FALSE]
            /\ pc' = [pc EXCEPT ![p] = "decide"]
            /\ UNCHANGED <<cmd, mem, file>>
        BY <3>2 DEF Goto
      <4>2. pc' \in [Proc -> Place]
        BY <4>1 DEF ProcType, Place
      <4>3. held' \in [Proc -> BOOLEAN]
        BY <4>1 DEF ProcType
      <4> QED
        BY <4>1, <4>2, <4>3 DEF ProcType
    <3> QED
      BY <3>1, <3>2
  <2>2. LockInv'
    BY DEF ProcType, LockInv, Locked, At, Goto, Exit
  <2>3. SaveInv'
    BY DEF ProcType, SaveInv, Locked, At, Goto, Exit
  <2> QED
    BY <2>1, <2>2, <2>3
<1>3. ~GiveUp(p)
  BY DEF GiveUp, Abandoned, LockKept, LockInv
<1>4. ~Denied(p)
  BY DEF Denied, Fails, LockKept
<1>5. ~SeeOld(p) /\ ~Steal(p)
  BY DEF SeeOld, Steal, At, LockInv
<1> QED
  BY <1>1, <1>2, <1>3, <1>4, <1>5 DEF LockStep

LEMMA FileStepStep ==
  ASSUME IInv, NEW p \in Proc, FileStep(p)
  PROVE  IInv'
<1> USE DEF IInv
<1>1. pc[p] \in Locked /\ \A q \in Proc : pc[q] \in Locked => q = p
  BY DEF FileStep, Load, Save, SaveFails, Replace, At, Locked, LockInv
<1>2. ASSUME UNCHANGED <<lock, lockOld, cmd, held>>,
             NEW place \in Locked, Goto(p, place)
      PROVE  LockInv'
  BY <1>1, <1>2 DEF Goto, ProcType, LockInv, Locked
<1>3. CASE Load(p)
  <2> USE <1>3 DEF Load, At, Goto, sharedVars
  <2>1. Ideal!Effect(cmd[p].op, cmd[p].sid, file) \in Board
    BY EffectIsBoard DEF SaveInv, ProcType, Locked
  <2>2. ProcType'
    BY <2>1 DEF ProcType, Place, Locked
  <2>3. LockInv'
    BY <1>2 DEF Locked
  <2>4. SaveInv'
    BY DEF ProcType, SaveInv, Locked
  <2> QED
    BY <2>2, <2>3, <2>4
<1>4. CASE Save(p)
  <2> USE <1>4 DEF Save, At, Goto
  <2>1. ProcType'
    BY DEF ProcType, Place, Locked
  <2>2. LockInv'
    BY <1>2 DEF Locked
  <2>3. SaveInv'
    BY <1>1 DEF ProcType, SaveInv, Locked
  <2> QED
    BY <2>1, <2>2, <2>3
<1>5. CASE SaveFails(p)
  <2> USE <1>5 DEF SaveFails, At, Goto, sharedVars
  <2>1. ProcType'
    BY DEF ProcType, Place, Locked
  <2>2. LockInv'
    BY <1>2 DEF Locked
  <2>3. \A q \in Proc : pc'[q] # "replace"
    BY <1>1 DEF ProcType, Locked
  <2>4. SaveInv'
    BY <2>3 DEF ProcType, SaveInv, Locked
  <2> QED
    BY <2>1, <2>2, <2>4
<1>6. CASE Replace(p)
  <2> USE <1>6 DEF Replace, At, Goto
  <2>1. file' = mem[p]
    BY DEF SaveInv
  <2>2. ProcType'
    BY <2>1 DEF ProcType, Place, Locked
  <2>3. LockInv'
    BY <1>2 DEF Locked
  <2>4. SaveInv'
    BY <1>1 DEF ProcType, SaveInv, Locked
  <2> QED
    BY <2>2, <2>3, <2>4
<1> QED
  BY <1>3, <1>4, <1>5, <1>6 DEF FileStep

LEMMA LightStepStep ==
  ASSUME IInv, NEW p \in Proc, LightStep(p)
  PROVE  IInv'
<1>1. CASE Decide(p) /\ flag
  <2> USE <1>1 DEF IInv, Decide, At, Goto, sharedVars
  <2>1. ProcType'
    BY DEF ProcType, Place
  <2>2. LockInv'
    BY DEF ProcType, LockInv, Locked
  <2>3. SaveInv'
    BY DEF ProcType, SaveInv, Locked
  <2> QED
    BY <2>1, <2>2, <2>3
<1>2. CASE (Decide(p) /\ ~flag) \/ Write(p) \/ Green(p) \/ WriteFails(p)
  <2>1. Exit(p) /\ pc[p] \notin Locked /\ UNCHANGED <<file, tmp, lock, lockOld>>
    BY <1>2 DEF Decide, Write, Green, WriteFails, At, Locked, sharedVars
  <2> QED
    BY <2>1, ExitStep
<1> QED
  BY <1>1, <1>2 DEF LightStep

LEMMA ExpireStep ==
  ASSUME IInv, NEW s \in Session, Expire(s)
  PROVE  IInv'
<1> USE DEF IInv, Expire, localVars
<1>1. file' \in Board
  BY DEF ProcType, Ideal!Aged, Board, Ideal!Board, Ideal!Status
<1>2. ProcType' /\ LockInv'
  BY <1>1 DEF ProcType, LockInv
<1>3. SaveInv'
  BY DEF Quiet, At, SaveInv, Locked
<1> QED
  BY <1>2, <1>3

LEMMA NextIInv == LockKept /\ IInv /\ [Next]_vars => IInv'
<1> SUFFICES ASSUME LockKept, IInv, [Next]_vars PROVE IInv'
  OBVIOUS
<1>1. CASE \E p \in Proc, command \in Commands, s \in Session : Start(p, command, s)
  BY <1>1, StartStep
<1>2. ASSUME NEW p \in Proc, Step(p) PROVE IInv'
  BY <1>2, LockStepStep, FileStepStep, LightStepStep DEF Step
<1>3. ASSUME NEW p \in Proc PROVE ~Crash(p)
  BY DEF Crash, Fails, LockKept
<1>4. ~LockAges
  BY DEF LockAges, Abandoned, LockKept, IInv, LockInv
<1>5. CASE \E s \in Session : Expire(s)
  BY <1>5, ExpireStep
<1>6. CASE UNCHANGED vars
  BY <1>6 DEF vars, sharedVars, localVars, IInv, ProcType, LockInv, SaveInv
<1> QED
  BY <1>1, <1>2, <1>3, <1>4, <1>5, <1>6 DEF Next

-----------------------------------------------------------------------------
\* The inductive invariant holds as long as the lock is kept.
THEOREM Invariance == ASSUME LockKept PROVE Spec => []IInv
  BY InitIInv, NextIInv, PTL DEF Spec

\* The lock of _state_lock() excludes.
THEOREM Exclusion == ASSUME LockKept PROVE Spec => []MutualExclusion
<1>1. IInv => MutualExclusion
  BY DEF IInv, LockInv, MutualExclusion
<1> QED
  BY <1>1, Invariance, PTL

-----------------------------------------------------------------------------
\* A step is a whole command on the board, the ageing of a session, or
\* invisible in it.
LEMMA StepRefines == IInv /\ IInv' /\ [Next]_vars => [Ideal!Next]_file
<1> SUFFICES ASSUME IInv, [Next]_vars PROVE Ideal!Next \/ UNCHANGED file
  OBVIOUS
<1>1. ASSUME NEW p \in Proc, Replace(p) PROVE Ideal!Next
  <2>1. /\ file' = Ideal!Effect(cmd[p].op, cmd[p].sid, file)
        /\ cmd[p].op \in Ideal!Op /\ cmd[p].sid \in Session
    BY <1>1 DEF Replace, At, IInv, SaveInv, Locked
  <2> QED
    BY <2>1 DEF Ideal!Next, Ideal!Command
<1>2. ASSUME NEW s \in Session, Expire(s) PROVE Ideal!Next
  BY <1>2 DEF Expire, Live, Ideal!Next, Ideal!Expire
<1>3. ASSUME NEW p \in Proc, Step(p), ~Replace(p) PROVE UNCHANGED file
  BY <1>3 DEF Step, LockStep, FileStep, LightStep, Acquire, GiveUp, Unlocked, Denied,
              SeeOld, Steal, Unlock, Load, Save, SaveFails, Decide, Write, Green,
              WriteFails, sharedVars
<1>4. CASE (\E p \in Proc, command \in Commands, s \in Session : Start(p, command, s))
           \/ (\E p \in Proc : Crash(p)) \/ LockAges \/ UNCHANGED vars
  BY <1>4 DEF Start, Crash, LockAges, vars, sharedVars
<1> QED
  BY <1>1, <1>2, <1>3, <1>4 DEF Next

\* No update is lost: the state file changes by whole commands, one after the
\* other, as the board of SessionBoard does.
THEOREM Atomicity == ASSUME LockKept PROVE Spec => StateIsAtomic
<1>1. Init => Ideal!Init
  BY DEF Init, Ideal!Init
<1> QED
  BY <1>1, StepRefines, Invariance, PTL DEF Spec, StateIsAtomic, Ideal!Spec

-----------------------------------------------------------------------------
(* Whatever goes wrong.  The lock counts for nothing here: what is known   *)
(* of a process is its command, and, while it is alone and meets no fault, *)
(* how far it has brought its command on the way to the light.             *)

Updates == {"lock", "steal"} \cup Locked

\* Only a command on the board reads and writes it.
CommandKnown ==
  \A p \in Proc : pc[p] \in Updates => cmd[p].op \in Ideal!Op /\ cmd[p].sid \in Session

\* A process alone: it holds what it has saved, and "off" has switched off.
AloneKnown(p) ==
  /\ cmd[p].op = last
  /\ last = "off" => ~flag
  /\ pc[p] = "replace" => tmp = <<mem[p]>>
  /\ pc[p] \in {"unlock", "decide", "write"} => file = mem[p]
  /\ pc[p] = "green" => last = "on"

CalmKnown ==
  calm => /\ \A p, q \in Proc : pc[p] # "idle" /\ pc[q] # "idle" => p = q
          /\ \A p \in Proc : pc[p] # "idle" => AloneKnown(p)

CalmInv == TypeOK /\ CommandKnown /\ CalmKnown /\ LightFollowsFile

\* What a step of process p keeps that neither ends it nor disturbs the calm.
Carried(p) ==
  /\ \E place \in Place \ {"idle"} : Goto(p, place)
  /\ UNCHANGED <<flag, light, cmd, last, calm>>
  /\ TypeOK'

LEMMA CarriedKeeps ==
  ASSUME CalmInv, NEW p \in Proc, pc[p] # "idle", Carried(p),
         pc'[p] \in Updates => pc[p] \in Updates,
         calm /\ AloneKnown(p) => AloneKnown(p)'
  PROVE  CalmInv'
<1> USE DEF CalmInv
<1>1. /\ \A q \in Proc : q # p => pc'[q] = pc[q]
      /\ pc'[p] # "idle"
  BY DEF Carried, Goto, TypeOK
<1>2. CommandKnown'
  BY <1>1 DEF Carried, CommandKnown
<1>3. CalmKnown'
  <2> SUFFICES ASSUME calm
               PROVE  /\ \A q \in Proc : q # p => pc[q] = "idle"
                      /\ AloneKnown(p)'
    BY <1>1 DEF CalmKnown, Carried
  <2> QED
    BY DEF CalmKnown
<1>4. LightFollowsFile'
  BY <1>1 DEF LightFollowsFile, Quiet, At
<1> QED
  BY <1>2, <1>3, <1>4 DEF Carried

\* What a process that ends keeps.
LEMMA ExitKeeps ==
  ASSUME CalmInv, NEW p \in Proc, Exit(p),
         UNCHANGED <<flag, last>>, calm' => calm,
         light' \in {"BUSY", "AVAILABLE"}, file' \in Board,
         tmp' = <<>> \/ \E b \in Board : tmp' = <<b>>,
         lock' \in Proc \cup {None}, lockOld' \in BOOLEAN, calm' \in BOOLEAN,
         faults' \in 0..MaxFaults,
         calm' /\ flag /\ last # "on" /\ (calm => AloneKnown(p)) => light' = Desired(file'),
         pc[p] # "idle"
  PROVE  CalmInv'
<1> USE DEF CalmInv
<1>1. TypeOK'
  BY EmptyIsBoard DEF Exit, TypeOK, Place, NoCommand, Op, Ideal!Op, None, Ideal!None
<1>2. /\ \A q \in Proc : q # p => pc'[q] = pc[q] /\ cmd'[q] = cmd[q] /\ mem'[q] = mem[q]
      /\ pc'[p] = "idle"
  BY DEF Exit, TypeOK
<1>3. CommandKnown'
  BY <1>2 DEF CommandKnown, Updates, Locked
<1>4. CalmKnown'
  BY <1>2 DEF CalmKnown
<1>5. LightFollowsFile'
  BY DEF LightFollowsFile, CalmKnown
<1> QED
  BY <1>1, <1>3, <1>4, <1>5

LEMMA FaultsCounted ==
  ASSUME TypeOK, faults < MaxFaults, faults' = faults + 1
  PROVE  faults' \in 0..MaxFaults
BY ClaudeAssumption DEF TypeOK

LEMMA StartCalm ==
  ASSUME CalmInv, NEW p \in Proc, NEW command \in Commands, NEW s \in Session,
         Start(p, command, s)
  PROVE  CalmInv'
<1> USE DEF CalmInv
<1>1. command \in Op
  BY CommandsAssumption
<1>2. /\ pc' \in [Proc -> Place]
      /\ pc'[p] = IF command = "on" THEN "green" ELSE "lock"
      /\ \A q \in Proc : q # p => pc'[q] = pc[q] /\ cmd'[q] = cmd[q]
      /\ cmd'[p] = [op |-> command, sid |-> s]
  BY DEF Start, Goto, TypeOK, Place, Locked
<1>3. cmd' \in [Proc -> [op : Op, sid : Session \cup {None}]]
  BY <1>1 DEF Start, TypeOK
<1>4. /\ flag' \in BOOLEAN /\ calm' \in BOOLEAN /\ (calm' => Quiet)
      /\ faults' \in 0..MaxFaults
  <2>1. CASE calm' = Quiet /\ UNCHANGED faults
    BY <2>1 DEF Start, TypeOK, Quiet
  <2>2. CASE calm' = FALSE /\ Fails("unlink")
    BY <2>2, FaultsCounted DEF Start, Fails, TypeOK
  <2> QED
    BY <2>1, <2>2 DEF Start
<1>5. TypeOK'
  BY <1>1, <1>2, <1>3, <1>4 DEF Start, TypeOK
<1>6. CommandKnown'
  BY <1>1, <1>2 DEF CommandKnown, Updates, Op, Locked
<1>7. CalmKnown'
  <2> SUFFICES ASSUME calm', Quiet
               PROVE  /\ \A q \in Proc : q # p => pc'[q] = "idle"
                      /\ AloneKnown(p)'
    BY <1>2, <1>4 DEF CalmKnown
  <2>0. last' = command /\ (command = "off" => ~flag')
    BY DEF Start
  <2>1. \A q \in Proc : q # p => pc'[q] = "idle"
    BY <1>2 DEF Quiet, At
  <2>2. AloneKnown(p)'
    BY <1>2, <2>0 DEF AloneKnown
  <2> QED
    BY <2>1, <2>2
<1>8. LightFollowsFile'
  BY <1>2 DEF LightFollowsFile, Quiet, At
<1> QED
  BY <1>5, <1>6, <1>7, <1>8

LEMMA LockCalm ==
  ASSUME CalmInv, NEW p \in Proc, LockStep(p)
  PROVE  CalmInv'
<1> USE DEF CalmInv, At
<1>1. CASE Acquire(p)
  <2>1. Carried(p)
    BY <1>1 DEF Acquire, Goto, Carried, TypeOK, Place, Locked, ghostVars
  <2>2. pc[p] = "lock" /\ pc'[p] = "load" /\ UNCHANGED <<flag, cmd, last>>
    BY <1>1 DEF Acquire, Goto, TypeOK, ghostVars
  <2> QED
    BY <2>1, <2>2, CarriedKeeps DEF AloneKnown, Updates, Locked
<1>2. CASE GiveUp(p) \/ Denied(p)
  <2>1. pc[p] = "lock" /\ Unlocked(p) /\ faults' \in 0..MaxFaults
    BY <1>2, FaultsCounted DEF GiveUp, Denied, Fails, TypeOK
  <2>2. Carried(p)
    BY <2>1 DEF Unlocked, Goto, Carried, TypeOK, Place, Locked, ghostVars, sharedVars
  <2>3. pc'[p] = "load" /\ UNCHANGED <<flag, cmd, last>>
    BY <2>1 DEF Unlocked, Goto, TypeOK, ghostVars, sharedVars
  <2> QED
    BY <2>1, <2>2, <2>3, CarriedKeeps DEF AloneKnown, Updates, Locked
<1>3. CASE SeeOld(p)
  <2>1. Carried(p)
    BY <1>3 DEF SeeOld, Goto, Carried, TypeOK, Place, ghostVars, sharedVars
  <2>2. pc[p] = "lock" /\ pc'[p] = "steal" /\ UNCHANGED <<flag, cmd, last>>
    BY <1>3 DEF SeeOld, Goto, TypeOK, ghostVars, sharedVars
  <2> QED
    BY <2>1, <2>2, CarriedKeeps DEF AloneKnown, Updates
<1>4. CASE Steal(p)
  <2>1. Carried(p)
    BY <1>4 DEF Steal, Remove, Goto, Carried, TypeOK, Place, ghostVars
  <2>2. pc[p] = "steal" /\ pc'[p] = "lock" /\ UNCHANGED <<flag, cmd, last>>
    BY <1>4 DEF Steal, Goto, TypeOK, ghostVars
  <2> QED
    BY <2>1, <2>2, CarriedKeeps DEF AloneKnown, Updates
<1>5. CASE Unlock(p) /\ cmd[p].op = "off"
  <2>1. Exit(p) /\ pc[p] = "unlock" /\ UNCHANGED <<flag, file, tmp, light, ghostVars, faults>>
    BY <1>5 DEF Unlock
  <2>2. lock' \in Proc \cup {None} /\ lockOld' \in BOOLEAN
    BY <1>5 DEF Unlock, Remove, TypeOK
  <2>3. calm /\ AloneKnown(p) => ~flag
    BY <1>5 DEF AloneKnown
  <2> QED
    BY <2>1, <2>2, <2>3, ExitKeeps DEF TypeOK, ghostVars
<1>6. CASE Unlock(p) /\ cmd[p].op # "off"
  <2>1. /\ pc[p] = "unlock" /\ Goto(p, "decide") /\ held' = [held EXCEPT ![p] = FALSE]
        /\ UNCHANGED <<cmd, mem, flag, file, tmp, light, last, calm, faults>>
    BY <1>6 DEF Unlock, ghostVars
  <2>2. lock' \in Proc \cup {None} /\ lockOld' \in BOOLEAN
    BY <1>6 DEF Unlock, Remove, TypeOK
  <2>3. held' \in [Proc -> BOOLEAN]
    BY <2>1 DEF TypeOK
  <2>4. pc' \in [Proc -> Place] /\ pc'[p] = "decide"
    BY <2>1 DEF Goto, TypeOK, Place
  <2>5. TypeOK'
    BY <2>1, <2>2, <2>3, <2>4 DEF TypeOK
  <2>6. Carried(p)
    BY <2>1, <2>5 DEF Carried, Place
  <2> QED
    BY <2>1, <2>4, <2>6, CarriedKeeps DEF AloneKnown, Updates, Locked
<1> QED
  BY <1>1, <1>2, <1>3, <1>4, <1>5, <1>6 DEF LockStep

LEMMA FileCalm ==
  ASSUME CalmInv, NEW p \in Proc, FileStep(p)
  PROVE  CalmInv'
<1> USE DEF CalmInv, At
<1>1. CASE Load(p)
  <2>1. Ideal!Effect(cmd[p].op, cmd[p].sid, file) \in Board
    BY <1>1, EffectIsBoard DEF Load, CommandKnown, Updates, Locked, TypeOK
  <2>2. mem' \in [Proc -> Board]
    BY <1>1, <2>1 DEF Load, TypeOK
  <2>3. /\ pc[p] = "load" /\ pc'[p] = "save" /\ pc' \in [Proc -> Place]
        /\ UNCHANGED <<flag, cmd, last>>
    BY <1>1 DEF Load, Goto, TypeOK, Place, Locked, ghostVars, sharedVars
  <2>4. Carried(p)
    BY <1>1, <2>2, <2>3 DEF Load, Carried, TypeOK, Place, Locked, ghostVars, sharedVars
  <2> QED
    BY <2>3, <2>4, CarriedKeeps DEF AloneKnown, Updates, Locked
<1>2. CASE Save(p)
  <2>1. /\ pc[p] = "save" /\ pc'[p] = "replace" /\ pc' \in [Proc -> Place]
        /\ tmp' = <<mem[p]>> /\ mem[p] \in Board /\ UNCHANGED <<flag, cmd, last, mem>>
    BY <1>2 DEF Save, Goto, TypeOK, Place, Locked, ghostVars
  <2>2. Carried(p)
    BY <1>2, <2>1 DEF Save, Carried, TypeOK, Place, Locked, ghostVars
  <2> QED
    BY <2>1, <2>2, CarriedKeeps DEF AloneKnown, Updates, Locked
<1>3. CASE SaveFails(p)
  <2>1. /\ pc[p] = "save" /\ pc'[p] = "unlock" /\ pc' \in [Proc -> Place]
        /\ calm' = FALSE /\ UNCHANGED <<flag, file, lock, lockOld, light, cmd, held, mem, last>>
        /\ \A q \in Proc : q # p => pc'[q] = pc[q]
    BY <1>3 DEF SaveFails, Goto, TypeOK, Place, Locked
  <2>2. faults' \in 0..MaxFaults
    BY <1>3, FaultsCounted DEF SaveFails, Fails
  <2>3. tmp' = <<>> \/ \E b \in Board : tmp' = <<b>>
    BY <1>3, EmptyIsBoard DEF SaveFails, HalfWritten, TypeOK
  <2>4. TypeOK'
    BY <2>1, <2>2, <2>3 DEF TypeOK
  <2> QED
    BY <2>1, <2>4 DEF CommandKnown, CalmKnown, LightFollowsFile, Updates, Locked
<1>4. CASE Replace(p)
  <2>1. /\ pc[p] = "replace" /\ pc'[p] = "unlock" /\ pc' \in [Proc -> Place]
        /\ UNCHANGED <<flag, cmd, last, mem>>
    BY <1>4 DEF Replace, Goto, TypeOK, Place, Locked, ghostVars
  <2>2. file' \in Board /\ tmp' = <<>>
    BY <1>4 DEF Replace, TypeOK
  <2>3. Carried(p)
    BY <1>4, <2>1, <2>2 DEF Replace, Carried, TypeOK, Place, Locked, ghostVars
  <2>4. tmp = <<mem[p]>> => file' = mem[p]
    BY <1>4 DEF Replace
  <2> QED
    BY <2>1, <2>3, <2>4, CarriedKeeps DEF AloneKnown, Updates, Locked
<1> QED
  BY <1>1, <1>2, <1>3, <1>4 DEF FileStep

LEMMA LightCalm ==
  ASSUME CalmInv, NEW p \in Proc, LightStep(p) \/ Crash(p)
  PROVE  CalmInv'
<1> USE DEF CalmInv, At
<1>1. CASE Decide(p) /\ flag
  <2>1. /\ pc[p] = "decide" /\ pc'[p] = "write"
        /\ UNCHANGED <<flag, cmd, last, file, tmp, mem>>
    BY <1>1 DEF Decide, Goto, TypeOK, ghostVars, sharedVars
  <2>2. Carried(p)
    BY <1>1 DEF Decide, Goto, Carried, TypeOK, Place, ghostVars, sharedVars
  <2> QED
    BY <2>1, <2>2, CarriedKeeps DEF AloneKnown, Updates, Locked
<1>2. CASE Decide(p) /\ ~flag
  BY <1>2, ExitKeeps DEF Decide, TypeOK, ghostVars, sharedVars
<1>3. CASE Write(p)
  <2>1. light' \in {"BUSY", "AVAILABLE"} /\ (file = mem[p] => light' = Desired(file'))
    BY <1>3 DEF Write, Desired
  <2>2. AloneKnown(p) => file = mem[p]
    BY <1>3 DEF Write, AloneKnown
  <2> QED
    BY <1>3, <2>1, <2>2, ExitKeeps DEF Write, TypeOK, ghostVars, CalmKnown
<1>4. CASE Green(p)
  <2>1. AloneKnown(p) => last = "on"
    BY <1>4 DEF Green, AloneKnown
  <2> QED
    BY <1>4, <2>1, ExitKeeps DEF Green, TypeOK, ghostVars, CalmKnown
<1>5. CASE WriteFails(p) \/ Crash(p)
  <2>1. /\ pc[p] # "idle" /\ Exit(p) /\ calm' = FALSE /\ faults' \in 0..MaxFaults
        /\ UNCHANGED <<flag, file, lock, lockOld, light, last>>
    BY <1>5, FaultsCounted DEF WriteFails, Crash, Fails, sharedVars
  <2>2. tmp' = <<>> \/ \E b \in Board : tmp' = <<b>>
    BY <1>5, EmptyIsBoard DEF WriteFails, Crash, HalfWritten, TypeOK, sharedVars
  <2> QED
    BY <2>1, <2>2, ExitKeeps DEF TypeOK
<1> QED
  BY <1>1, <1>2, <1>3, <1>4, <1>5 DEF LightStep

LEMMA TimeCalm ==
  ASSUME CalmInv, LockAges \/ \E s \in Session : Expire(s)
  PROVE  CalmInv'
<1> USE DEF CalmInv
<1>1. CASE LockAges
  <2>1. faults' \in 0..MaxFaults
    BY <1>1, FaultsCounted DEF LockAges
  <2> QED
    BY <1>1, <2>1 DEF LockAges, localVars, ghostVars, TypeOK, CommandKnown, CalmKnown,
                      AloneKnown, LightFollowsFile, Quiet, At
<1>2. CASE \E s \in Session : Expire(s)
  <2>1. PICK s \in Session : Expire(s)
    BY <1>2
  <2>2. file' = Ideal!Aged(file, s) /\ file \in Board
    BY <2>1 DEF Expire, TypeOK
  <2>3. file' \in Board
    BY <2>2 DEF Ideal!Aged, Board, Ideal!Board, Ideal!Status
  <2>4. faults' \in 0..MaxFaults /\ calm' = FALSE
    BY <2>1, FaultsCounted DEF Expire, Fails
  <2> QED
    BY <2>1, <2>3, <2>4 DEF Expire, localVars, TypeOK, CommandKnown, CalmKnown, LightFollowsFile
<1> QED
  BY <1>1, <1>2

LEMMA InitCalm == Init => CalmInv
<1> SUFFICES ASSUME Init PROVE CalmInv
  OBVIOUS
<1>1. TypeOK
  <2>1. /\ pc \in [Proc -> Place] /\ held \in [Proc -> BOOLEAN]
        /\ cmd \in [Proc -> [op : Op, sid : Session \cup {None}]]
    BY DEF Init, Place, NoCommand, Op, Ideal!Op
  <2>2. mem \in [Proc -> Board] /\ file \in Board
    BY EmptyIsBoard DEF Init
  <2>3. last \in Op /\ faults \in 0..MaxFaults
    BY ClaudeAssumption DEF Init, Op, Ideal!Op
  <2> QED
    BY <2>1, <2>2, <2>3 DEF Init, TypeOK
<1>2. CommandKnown /\ CalmKnown
  BY DEF Init, CommandKnown, CalmKnown, Updates, Locked
<1>3. Desired(Ideal!Empty) = "AVAILABLE"
  BY DEF Desired, Working, Live, Ideal!Empty
<1> QED
  BY <1>1, <1>2, <1>3 DEF Init, CalmInv, LightFollowsFile

\* The invariant of a command that is alone holds always, with any faults.
THEOREM CalmInvariance == Spec => []CalmInv
<1>1. CalmInv /\ [Next]_vars => CalmInv'
  <2> SUFFICES ASSUME CalmInv, [Next]_vars PROVE CalmInv'
    OBVIOUS
  <2>1. CASE UNCHANGED vars
    BY <2>1 DEF vars, sharedVars, localVars, ghostVars, CalmInv, TypeOK, CommandKnown,
                CalmKnown, AloneKnown, LightFollowsFile, Quiet, At
  <2>2. CASE Next
    BY <2>2, StartCalm, LockCalm, FileCalm, LightCalm, TimeCalm DEF Next, Step
  <2> QED
    BY <2>1, <2>2
<1> QED
  BY InitCalm, <1>1, PTL DEF Spec

\* The variables keep their types: no command, fault or theft of the lock leaves
\* anything but a whole board in the state file.
THEOREM TypeCorrect == Spec => []TypeOK
  BY CalmInvariance, PTL DEF CalmInv

\* Whatever went wrong before, a command that is alone sets the light right.
THEOREM LightSet == Spec => []LightFollowsFile
  BY CalmInvariance, PTL DEF CalmInv
=============================================================================
