---------------------------- MODULE WizardProofs ----------------------------
(***************************************************************************)
(* The verdicts of the setup wizard, for any number of attempts, of pings  *)
(* on the wire and of faults.                                              *)
(*                                                                         *)
(* A verdict is drawn from lines that left the device long before, so the  *)
(* invariant says what each line that is on its way, and each result that  *)
(* waits in the queue, still vouches for: a device that has this attempt's *)
(* PIN and no command left that could change it (Saved), one that has not  *)
(* and has none that could set it (Fresh), one that is wiped (Wiped).      *)
(***************************************************************************)
EXTENDS Wizard, SequenceTheorems, TLAPS

Cmds == {"ping", "junk", "reset", "set"}

\* What is on its way to the device, and to the process.
DevHas(c) == \E i \in 1..Len(toDev) : toDev[i].cmd = c
HostHas(r) == \E i \in 1..Len(toHost) : toHost[i] = r

\* No command is of an attempt to come.
Bound == \A i \in 1..Len(toDev) : toDev[i].of <= n

\* There is at most one set_config, and it is this attempt's.
Single ==
  \A i, j \in 1..Len(toDev) :
    toDev[i].cmd = "set" => toDev[i].of = n /\ (toDev[j].cmd = "set" => i = j)

\* No error follows config_saved.
Ordered ==
  \A i, j \in 1..Len(toHost) : i < j /\ toHost[i] = "saved" => toHost[j] # "error"

Fresh == pin # n /\ ~DevHas("set")
Saved == /\ pin = n /\ (net = n \/ n \in refused)
         /\ dev \notin {"wipe", "wiped"} /\ (dev = "saved" \/ toDev = <<>>)
         /\ ~DevHas("set")
Wiped == dev = "wipe" \/ (pin = 0 /\ net = 0 /\ (dev = "wiped" \/ ~DevHas("set")))

\* The window, the process and its port keep step.
PortKnown ==
  /\ form # "busy" => proc = "none"
  /\ form \in {"lookup", "stuck"} => kind = "config"
  /\ proc \in {"none", "open", "exit", "dead"} => ~link
  /\ ~link => toHost = <<>>
  /\ form = "busy" => shown = "none"
  /\ proc \in {"open", "shake", "wait", "hung"} => queue = "empty"
  /\ proc = "open" => ~saw
  /\ kind = "reset" => ~saw /\ proc # "shake"
  /\ DevHas("junk") => Spoilt

NumbersKnown == (proc # "none" => n > 0) /\ pin <= n /\ Bound

ConfigKnown ==
  kind = "config" /\ ~behind =>
    /\ ~DevHas("reset") /\ Single /\ Ordered
    /\ DevHas("set") => pin # n
    /\ proc \in {"open", "shake"} => Fresh /\ (HostHas("error") => Spoilt)
    /\ HostHas("saved") \/ saw \/ "ok" \in {queue, shown} => Saved
    /\ form \in {"lookup", "stuck"} => Saved
    /\ saw => ~HostHas("error")
    /\ "silent" \in {queue, shown} => Fresh
    /\ HostHas("error") \/ "rejected" \in {queue, shown} => Fresh \/ Spoilt
    /\ saw => {queue, shown} \cap {"noport", "silent", "rejected", "unconfirmed", "cut"} = {}

ResetKnown ==
  kind = "reset" => (HostHas("wiped") \/ "ok" \in {queue, shown} => Wiped)

IInv == TypeOK /\ PortKnown /\ NumbersKnown /\ ConfigKnown /\ ResetKnown

USE WizardAssumption

-----------------------------------------------------------------------------
(* The wire.                                                               *)

\* Lines that stay where they are.
LEMMA StillDev ==
  ASSUME UNCHANGED <<toDev, n>>
  PROVE  (\A c \in Cmds : DevHas(c)' = DevHas(c)) /\ Single' = Single /\ Bound' = Bound
BY DEF DevHas, Single, Bound

LEMMA StillHost ==
  ASSUME UNCHANGED toHost
  PROVE  (\A r \in Replies : HostHas(r)' = HostHas(r)) /\ Ordered' = Ordered
BY DEF HostHas, Ordered

\* Lines that are dropped.
LEMMA NoDev ==
  ASSUME toDev' = <<>>
  PROVE  (\A c \in Cmds : ~DevHas(c)') /\ Single' /\ Bound'
BY DEF DevHas, Single, Bound

LEMMA NoHost ==
  ASSUME toHost' = <<>>
  PROVE  (\A r \in Replies : ~HostHas(r)') /\ Ordered'
BY DEF HostHas, Ordered

\* The device takes a command.
LEMMA Taken ==
  ASSUME TypeOK, toDev # <<>>, toDev' = Tail(toDev), n' = n
  PROVE  /\ toDev' \in Seq(Commands) /\ Head(toDev) \in Commands
         /\ DevHas(Head(toDev).cmd)
         /\ \A c \in Cmds : DevHas(c)' => DevHas(c)
         /\ Bound => Bound' /\ Head(toDev).of <= n
         /\ Single => Single'
         /\ Single /\ Head(toDev).cmd = "set" => Head(toDev).of = n /\ ~DevHas("set")'
<1>1. toDev \in Seq(Commands)
  BY DEF TypeOK
<1>2. /\ toDev' \in Seq(Commands) /\ Head(toDev) \in Commands
      /\ Len(toDev) \in Nat \ {0} /\ Head(toDev) = toDev[1]
      /\ Len(toDev') = Len(toDev) - 1
      /\ \A i \in 1..Len(toDev') : toDev'[i] = toDev[i + 1]
  BY <1>1, HeadTailProperties, EmptySeq
<1>3. \A i \in 1..Len(toDev') : i + 1 \in 1..Len(toDev) /\ i + 1 # 1
  BY <1>2
<1>4. 1 \in 1..Len(toDev)
  BY <1>2
<1> QED
  BY <1>2, <1>3, <1>4 DEF DevHas, Bound, Single

\* The process sends one.
LEMMA Queued ==
  ASSUME TypeOK, NEW c \in Cmds, n > 0, toDev' = Sent(c), n' = n
  PROVE  /\ toDev' \in Seq(Commands)
         /\ \A d \in Cmds : DevHas(d)' => DevHas(d) \/ d = c
         /\ Bound => Bound'
         /\ Single /\ (c # "set" \/ ~DevHas("set")) => Single'
<1>1. toDev \in Seq(Commands) /\ n \in Attempts
  BY DEF TypeOK, Attempts
<1>2. [cmd |-> c, of |-> n] \in Commands
  BY <1>1 DEF Commands, Cmds
<1>3. /\ toDev' \in Seq(Commands) /\ Len(toDev) \in Nat /\ Len(toDev') = Len(toDev) + 1
      /\ toDev'[Len(toDev')] = [cmd |-> c, of |-> n]
      /\ \A i \in 1..Len(toDev) : toDev'[i] = toDev[i]
  BY <1>1, <1>2, AppendProperties DEF Sent
<1>4. \A i \in 1..Len(toDev') : i = Len(toDev') \/ i \in 1..Len(toDev)
  BY <1>3
<1>5. /\ toDev'[Len(toDev')].cmd = c /\ toDev'[Len(toDev')].of = n
      /\ n <= n
  BY <1>1, <1>3 DEF Attempts
<1>6. \A d \in Cmds : DevHas(d)' => DevHas(d) \/ d = c
  BY <1>3, <1>4, <1>5 DEF DevHas
<1>7. Bound => Bound'
  BY <1>3, <1>4, <1>5 DEF Bound
<1>8. ASSUME Single, c # "set" \/ ~DevHas("set") PROVE Single'
  BY <1>3, <1>4, <1>5, <1>8 DEF Single, DevHas
<1> QED
  BY <1>3, <1>6, <1>7, <1>8

\* The device sends a line.
LEMMA Emitted ==
  ASSUME TypeOK, NEW r \in Replies, Emit(r)
  PROVE  /\ toHost' \in Seq(Replies) /\ (~link => toHost' = toHost)
         /\ \A x \in Replies : HostHas(x)' => HostHas(x) \/ x = r
         /\ Ordered /\ (r # "error" \/ ~HostHas("saved")) => Ordered'
<1>1. CASE ~link
  BY <1>1, StillHost DEF Emit, TypeOK
<1>2. CASE link
  <2>1. toHost \in Seq(Replies) /\ toHost' = Append(toHost, r)
    BY <1>2 DEF TypeOK, Emit
  <2>2. /\ toHost' \in Seq(Replies) /\ Len(toHost) \in Nat /\ Len(toHost') = Len(toHost) + 1
        /\ toHost'[Len(toHost')] = r
        /\ \A i \in 1..Len(toHost) : toHost'[i] = toHost[i]
    BY <2>1, AppendProperties
  <2>3. \A i \in 1..Len(toHost') : i = Len(toHost') \/ i \in 1..Len(toHost)
    BY <2>2
  <2>4. \A i, j \in 1..Len(toHost') : i < j => i \in 1..Len(toHost)
    BY <2>2
  <2> QED
    BY <1>2, <2>2, <2>3, <2>4 DEF HostHas, Ordered
<1> QED
  BY <1>1, <1>2 DEF TypeOK

\* The process reads one.
LEMMA Heard ==
  ASSUME TypeOK, toHost # <<>>, toHost' = Tail(toHost)
  PROVE  /\ toHost' \in Seq(Replies) /\ Head(toHost) \in Replies
         /\ HostHas(Head(toHost))
         /\ \A r \in Replies : HostHas(r)' => HostHas(r)
         /\ Ordered => Ordered'
         /\ Ordered /\ Head(toHost) = "saved" => ~HostHas("error")'
<1>1. toHost \in Seq(Replies)
  BY DEF TypeOK
<1>2. /\ toHost' \in Seq(Replies) /\ Head(toHost) \in Replies
      /\ Len(toHost) \in Nat \ {0} /\ Head(toHost) = toHost[1]
      /\ Len(toHost') = Len(toHost) - 1
      /\ \A i \in 1..Len(toHost') : toHost'[i] = toHost[i + 1]
  BY <1>1, HeadTailProperties, EmptySeq
<1>3. \A i \in 1..Len(toHost') : i + 1 \in 1..Len(toHost) /\ 1 < i + 1
  BY <1>2
<1>4. 1 \in 1..Len(toHost)
  BY <1>2
<1>5. \A i, j \in 1..Len(toHost') : i < j => i + 1 < j + 1
  BY <1>2
<1> QED
  BY <1>2, <1>3, <1>4, <1>5 DEF HostHas, Ordered

-----------------------------------------------------------------------------
(* The device.                                                             *)

\* It starts, and tells so.
LEMMA StartsKeep ==
  ASSUME IInv, Beacon \/ Up \/ Serve
  PROVE  IInv'
<1>1. /\ UNCHANGED <<window, process, link, toDev, pin, net, has, room, refused, faults>>
      /\ dev \in {"boot", "setup", "run"} /\ dev' \in {"setup", "run"}
      /\ (dev' = dev \/ dev # "run") /\ served' \in BOOLEAN
      /\ UNCHANGED toHost \/ \E r \in {"ready", "started"} : Emit(r)
  BY DEF Beacon, Up, Serve, device, wire, IInv, TypeOK
<1>2. /\ toHost' \in Seq(Replies) /\ (~link => toHost' = toHost)
      /\ \A x \in {"saved", "error", "wiped"} : HostHas(x)' => HostHas(x)
      /\ Ordered => Ordered'
  <2>1. CASE UNCHANGED toHost
    BY <2>1, StillHost DEF IInv, TypeOK, Replies
  <2>2. CASE \E r \in {"ready", "started"} : Emit(r)
    BY <2>2, Emitted DEF IInv, Replies
  <2> QED
    BY <1>1, <2>1, <2>2
<1>3. TypeOK'
  BY <1>1, <1>2 DEF IInv, TypeOK, window, process
<1>4. PortKnown' /\ NumbersKnown'
  BY <1>1, <1>2, StillDev DEF IInv, PortKnown, NumbersKnown, window, process, Spoilt, Cmds
<1>5. Fresh' = Fresh /\ (Saved => Saved') /\ (Wiped => Wiped')
  BY <1>1, StillDev DEF Fresh, Saved, Wiped, window, Cmds
<1>6. ConfigKnown' /\ ResetKnown'
  BY <1>1, <1>2, <1>5, StillDev DEF IInv, ConfigKnown, ResetKnown, window, process, Spoilt, Cmds
<1> QED
  BY <1>3, <1>4, <1>6 DEF IInv

\* It takes a command that changes nothing.
LEMMA IdleTakeKeeps ==
  ASSUME IInv, dev = "run", toDev # <<>>, toDev' = Tail(toDev),
         UNCHANGED <<window, process, link, device, faults>>,
         NEW r \in {"pong", "error"}, Emit(r),
         r = "error" => \/ Head(toDev).cmd = "junk"
                        \/ Head(toDev).cmd = "set"
  PROVE  IInv'
<1>1. /\ toDev' \in Seq(Commands) /\ DevHas(Head(toDev).cmd)
      /\ \A c \in Cmds : DevHas(c)' => DevHas(c)
      /\ Bound => Bound'
      /\ Single => Single'
      /\ Single /\ Head(toDev).cmd = "set" => ~DevHas("set")'
  BY Taken DEF IInv, window
<1>2. /\ toHost' \in Seq(Replies) /\ (~link => toHost' = toHost)
      /\ \A x \in {"saved", "error", "wiped"} : HostHas(x)' => HostHas(x) \/ x = r
      /\ Ordered /\ (r # "error" \/ ~HostHas("saved")) => Ordered'
  BY Emitted DEF IInv, Replies
<1>3. TypeOK'
  BY <1>1, <1>2 DEF IInv, TypeOK, window, process, device
<1>4. PortKnown' /\ NumbersKnown'
  BY <1>1, <1>2 DEF IInv, PortKnown, NumbersKnown, window, process, device, Spoilt, Cmds
<1>5. (Fresh => Fresh') /\ ~Saved /\ (Wiped => Wiped')
  BY <1>1 DEF Fresh, Saved, Wiped, window, device, Cmds
<1>6. ConfigKnown'
  <2> SUFFICES ASSUME kind = "config", ~behind PROVE ConfigKnown'
    BY DEF ConfigKnown, window
  <2>1. /\ ~HostHas("saved") /\ ~saw /\ "ok" \notin {queue, shown}
        /\ form \notin {"lookup", "stuck"}
    BY <1>5 DEF IInv, ConfigKnown
  <2>2. r = "error" => Spoilt \/ (pin # n /\ DevHas("set") /\ Head(toDev).cmd = "set")
    BY <1>1 DEF IInv, PortKnown, ConfigKnown
  <2>3. r = "error" => Spoilt \/ (Fresh' /\ ~Fresh)
    BY <1>1, <2>2 DEF IInv, ConfigKnown, Fresh, window, device
  <2> QED
    BY <1>1, <1>2, <1>5, <2>1, <2>3
       DEF IInv, ConfigKnown, window, process, device, Spoilt, Cmds
<1>7. ResetKnown'
  BY <1>2, <1>5 DEF IInv, ResetKnown, window, process
<1> QED
  BY <1>3, <1>4, <1>6, <1>7 DEF IInv

\* It takes a reset, and acknowledges it before it wipes its store.
LEMMA ResetTakeKeeps ==
  ASSUME IInv, dev = "run", toDev # <<>>, toDev' = Tail(toDev),
         Head(toDev).cmd = "reset", Emit("wiped"), dev' = "wipe",
         UNCHANGED <<window, process, link, pin, net, has, room, refused, served, faults>>
  PROVE  IInv'
<1>1. /\ toDev' \in Seq(Commands) /\ DevHas("reset")
      /\ \A c \in Cmds : DevHas(c)' => DevHas(c)
      /\ Bound => Bound'
  BY Taken DEF IInv, window
<1>2. toHost' \in Seq(Replies) /\ (~link => toHost' = toHost)
  BY Emitted DEF IInv, Replies
<1>3. TypeOK'
  BY <1>1, <1>2 DEF IInv, TypeOK, window, process
<1>4. PortKnown' /\ NumbersKnown'
  BY <1>1, <1>2 DEF IInv, PortKnown, NumbersKnown, window, process, Spoilt, Cmds
<1>5. ConfigKnown'
  BY <1>1 DEF IInv, ConfigKnown, window
<1>6. ResetKnown'
  BY DEF ResetKnown, Wiped
<1> QED
  BY <1>3, <1>4, <1>5, <1>6 DEF IInv

\* It takes a configuration, and saves it.
LEMMA SetTakeKeeps ==
  ASSUME IInv, dev = "run", toDev # <<>>, toDev' = Tail(toDev),
         Head(toDev).cmd = "set", Emit("saved"),
         pin' = Head(toDev).of, dev' = "saved", AddNetwork(Head(toDev).of),
         UNCHANGED <<window, process, link, served, faults>>
  PROVE  IInv'
<1>1. /\ toDev' \in Seq(Commands) /\ Head(toDev) \in Commands /\ DevHas("set")
      /\ \A c \in Cmds : DevHas(c)' => DevHas(c)
      /\ Bound => Bound' /\ Head(toDev).of <= n
      /\ Single => Single' /\ Head(toDev).of = n /\ ~DevHas("set")'
  BY Taken DEF IInv, window
<1>2. /\ toHost' \in Seq(Replies) /\ (~link => toHost' = toHost)
      /\ \A x \in {"error", "wiped"} : HostHas(x)' => HostHas(x)
      /\ Ordered => Ordered'
  BY Emitted DEF IInv, Replies
<1>3. TypeOK'
  <2>1. Head(toDev).of \in 0..MaxAttempts
    BY <1>1 DEF Commands, Attempts
  <2>2. /\ has' \in BOOLEAN /\ room' \in BOOLEAN
        /\ net' \in 0..MaxAttempts /\ refused' \subseteq Attempts
    BY <1>1, <2>1 DEF AddNetwork, Commands, IInv, TypeOK
  <2> QED
    BY <1>1, <1>2, <2>1, <2>2 DEF IInv, TypeOK, window, process
<1>4. PortKnown' /\ NumbersKnown'
  BY <1>1, <1>2 DEF IInv, PortKnown, NumbersKnown, window, process, Spoilt, Cmds
<1>5. ~Fresh /\ ~Wiped
  BY <1>1 DEF Fresh, Wiped
<1>6. ConfigKnown'
  <2> SUFFICES ASSUME kind = "config", ~behind PROVE ConfigKnown'
    BY DEF ConfigKnown, window
  <2>1. Saved'
    BY <1>1 DEF IInv, ConfigKnown, Saved, AddNetwork, window
  <2> QED
    BY <1>1, <1>2, <1>5, <2>1 DEF IInv, ConfigKnown, window, process, Spoilt, Cmds, Saved
<1>7. ResetKnown'
  BY <1>2, <1>5 DEF IInv, ResetKnown, window, process
<1> QED
  BY <1>3, <1>4, <1>6, <1>7 DEF IInv

LEMMA TakeKeeps ==
  ASSUME IInv, Take
  PROVE  IInv'
<1>1. /\ dev = "run" /\ toDev # <<>> /\ toDev' = Tail(toDev)
      /\ UNCHANGED <<window, process, link, faults>>
  BY DEF Take
<1>2. CASE Head(toDev).cmd = "ping" /\ Emit("pong") /\ UNCHANGED device
  BY <1>1, <1>2, IdleTakeKeeps
<1>3. CASE Head(toDev).cmd = "junk" /\ Emit("error") /\ UNCHANGED device
  BY <1>1, <1>3, IdleTakeKeeps
<1>4. CASE /\ Head(toDev).cmd = "reset" /\ Emit("wiped")
           /\ dev' = "wipe" /\ UNCHANGED <<pin, net, has, room, refused, served>>
  BY <1>1, <1>4, ResetTakeKeeps
<1>5. CASE Head(toDev).cmd = "set" /\ SetConfig(Head(toDev).of)
  BY <1>1, <1>5, IdleTakeKeeps, SetTakeKeeps DEF SetConfig
<1> QED
  BY <1>2, <1>3, <1>4, <1>5 DEF Take

\* It wipes its store, or restarts.
LEMMA RestartKeeps ==
  ASSUME IInv, Wipe \/ Restart
  PROVE  IInv'
<1>1. CASE Wipe
  <2>1. TypeOK'
    <3>1. 0 \in 0..MaxAttempts
      OBVIOUS
    <3>2. /\ {pin', net'} \subseteq 0..MaxAttempts
          /\ {late', saw', link', has', room', served', behind'} \subseteq BOOLEAN
      BY <1>1, <3>1 DEF Wipe, IInv, TypeOK, window, process, wire
    <3> QED
      BY <1>1, <3>2 DEF Wipe, IInv, TypeOK, window, process, wire
  <2>2. PortKnown' /\ NumbersKnown'
    BY <1>1, StillDev
       DEF Wipe, IInv, TypeOK, PortKnown, NumbersKnown, window, process, wire, Spoilt, Cmds
  <2>3. (Fresh => Fresh') /\ ~Saved /\ Wiped'
    BY <1>1, StillDev
       DEF Wipe, IInv, TypeOK, NumbersKnown, Fresh, Saved, Wiped, window, wire, Cmds
  <2>4. pin # n => pin' # n
    BY <1>1 DEF Wipe, IInv, TypeOK, NumbersKnown
  <2>5. ConfigKnown' /\ ResetKnown'
    BY <1>1, <2>3, <2>4, StillDev, StillHost
       DEF Wipe, IInv, ConfigKnown, ResetKnown, window, process, wire, Spoilt, Cmds, Replies
  <2> QED
    BY <2>1, <2>2, <2>5 DEF IInv
<1>2. CASE Restart
  <2>1. /\ dev \in {"saved", "wiped"} /\ dev' = "boot" /\ served' = FALSE /\ toDev' = <<>>
        /\ UNCHANGED <<window, process, pin, net, has, room, refused, faults>>
        /\ UNCHANGED <<link, toHost>> \/ (link' = FALSE /\ toHost' = <<>>)
    BY <1>2 DEF Restart
  <2>2. /\ \A r \in Replies : HostHas(r)' => HostHas(r)
        /\ Ordered => Ordered'
    BY <2>1, StillHost, NoHost
  <2>3. TypeOK'
    <3>1. toDev' \in Seq(Commands) /\ toHost' \in Seq(Replies)
      BY <2>1, EmptySeq DEF IInv, TypeOK
    <3>2. {late', saw', link', has', room', served', behind'} \subseteq BOOLEAN
      BY <2>1 DEF IInv, TypeOK, window, process
    <3> QED
      BY <2>1, <3>1, <3>2 DEF IInv, TypeOK, window, process
  <2>4. PortKnown' /\ NumbersKnown'
    BY <2>1, NoDev DEF IInv, PortKnown, NumbersKnown, window, process, Spoilt, Cmds
  <2>5. (Fresh => Fresh') /\ (Saved => Saved') /\ (Wiped => Wiped')
    BY <2>1, NoDev DEF Fresh, Saved, Wiped, window, Cmds
  <2>6. ConfigKnown' /\ ResetKnown'
    BY <2>1, <2>2, <2>5, NoDev
       DEF IInv, ConfigKnown, ResetKnown, window, process, Spoilt, Cmds, Replies
  <2> QED
    BY <2>3, <2>4, <2>6 DEF IInv
<1> QED
  BY <1>1, <1>2

-----------------------------------------------------------------------------
(* The process.                                                            *)

\* It closes the port and puts a result on the queue that it has reason for.
LEMMA EndsKeep ==
  ASSUME IInv, NEW v \in Verdicts, Ends(v), saw' = saw,
         proc \in {"open", "shake", "wait"},
         faults' \in 0..MaxFaults, faults <= faults',
         \/ toDev' = toDev
         \/ proc = "shake" /\ toDev' = Sent("junk") /\ faults' > 0,
         v = "ok" => IF kind = "config" THEN saw ELSE HostHas("wiped"),
         v \in {"noport", "silent", "cut"} => proc \in {"open", "shake"},
         v = "rejected" => HostHas("error"),
         v = "unconfirmed" => ~saw
  PROVE  IInv'
<1>1. /\ proc' = "exit" /\ queue' = v /\ link' = FALSE /\ toHost' = <<>>
      /\ UNCHANGED <<window, device>> /\ form = "busy" /\ shown = "none" /\ n > 0
  BY DEF Ends, IInv, PortKnown, NumbersKnown
<1>2. /\ toDev' \in Seq(Commands)
      /\ \A c \in {"set", "reset"} : DevHas(c)' => DevHas(c)
      /\ DevHas("junk")' => DevHas("junk") \/ faults' > 0
      /\ Bound => Bound'
      /\ Single => Single'
  <2>1. CASE toDev' = toDev
    BY <1>1, <2>1, StillDev DEF IInv, TypeOK, Cmds, window
  <2>2. CASE toDev' = Sent("junk") /\ faults' > 0
    BY <1>1, <2>2, Queued DEF IInv, Cmds, window
  <2> QED
    BY <2>1, <2>2
<1>3. TypeOK'
  <2>1. toHost' \in Seq(Replies)
    BY <1>1, EmptySeq
  <2>2. /\ {late', saw', link', has', room', served', behind'} \subseteq BOOLEAN
        /\ {pin', net'} \subseteq 0..MaxAttempts
    BY <1>1 DEF IInv, TypeOK, window, device
  <2> QED
    BY <1>1, <1>2, <2>1, <2>2 DEF IInv, TypeOK, window, device
<1>4. Spoilt => Spoilt'
  BY DEF Spoilt, IInv, TypeOK
<1>5. PortKnown' /\ NumbersKnown'
  BY <1>1, <1>2, <1>4, NoHost
     DEF IInv, PortKnown, NumbersKnown, window, device, Spoilt
<1>6. Fresh => Fresh'
  BY <1>1, <1>2 DEF Fresh, window, device
<1>7. ConfigKnown'
  <2> SUFFICES ASSUME kind = "config", ~behind PROVE ConfigKnown'
    BY <1>1 DEF ConfigKnown, window
  <2>1. /\ ~DevHas("reset")' /\ Single' /\ Ordered' /\ (DevHas("set")' => pin' # n')
        /\ ~HostHas("saved")' /\ ~HostHas("error")'
    BY <1>1, <1>2, NoHost DEF IInv, ConfigKnown, window, device, Replies
  <2>2. saw => Saved /\ Saved'
    <3>1. saw => Saved /\ proc # "shake"
      BY DEF IInv, ConfigKnown, Fresh, Saved
    <3> QED
      BY <1>1, <1>2, <3>1 DEF Saved, window, device
  <2>3. v = "rejected" => Fresh \/ Spoilt
    BY DEF IInv, ConfigKnown
  <2>4. v \in {"noport", "silent", "cut"} => Fresh
    BY DEF IInv, ConfigKnown
  <2>5. saw => v \notin {"noport", "silent", "rejected", "unconfirmed", "cut"}
    BY <2>2, <2>4 DEF IInv, ConfigKnown, Fresh, Saved
  <2> QED
    BY <1>1, <1>4, <1>6, <2>1, <2>2, <2>3, <2>4, <2>5 DEF ConfigKnown, window
<1>8. ResetKnown'
  <2> SUFFICES ASSUME kind = "reset", v = "ok" PROVE Wiped'
    BY <1>1, NoHost DEF ResetKnown, window, Replies
  <2>1. Wiped /\ toDev' = toDev
    BY DEF IInv, ResetKnown, PortKnown
  <2> QED
    BY <1>1, <1>2, <2>1 DEF Wiped, window, device
<1> QED
  BY <1>3, <1>5, <1>7, <1>8 DEF IInv

\* It hangs, exits, is killed, or closed by the window with no verdict.
LEMMA StopsKeep ==
  ASSUME IInv, UNCHANGED <<window, saw, queue, toDev, device>>,
         proc # "none", proc' \in {"hung", "dead"},
         proc' = "hung" => queue = "empty" /\ UNCHANGED <<link, toHost>>,
         proc' = "dead" => link' = FALSE /\ toHost' = <<>>,
         faults' \in 0..MaxFaults, faults <= faults'
  PROVE  IInv'
<1>1. TypeOK'
  <2>1. {late', saw', link', has', room', served', behind'} \subseteq BOOLEAN
    BY DEF IInv, TypeOK, window, device
  <2>2. toHost' \in Seq(Replies)
    BY EmptySeq DEF IInv, TypeOK
  <2> QED
    BY <2>1, <2>2 DEF IInv, TypeOK, window, device
<1>2. Spoilt => Spoilt'
  BY DEF Spoilt, IInv, TypeOK
<1>3. (\A r \in Replies : HostHas(r)' => HostHas(r)) /\ (Ordered => Ordered')
  BY StillHost, NoHost
<1>4. PortKnown' /\ NumbersKnown'
  BY <1>2, StillDev DEF IInv, PortKnown, NumbersKnown, window, device, Cmds
<1>5. Fresh' = Fresh /\ Saved' = Saved /\ Wiped' = Wiped
  BY StillDev DEF Fresh, Saved, Wiped, window, device, Cmds
<1>6. ConfigKnown' /\ ResetKnown'
  BY <1>2, <1>3, <1>5, StillDev
     DEF IInv, ConfigKnown, ResetKnown, window, device, Cmds, Replies
<1> QED
  BY <1>1, <1>4, <1>6 DEF IInv

\* It opens the port; a reset is sent at once.
LEMMA OpenKeeps ==
  ASSUME IInv, OpenPort
  PROVE  IInv'
<1>1. /\ proc = "open" /\ link' = TRUE /\ toHost' = <<>>
      /\ UNCHANGED <<window, saw, queue, device, faults>>
      /\ form = "busy" /\ n > 0 /\ queue = "empty" /\ shown = "none"
      /\ \/ kind = "config" /\ proc' = "shake" /\ toDev' = toDev
         \/ kind = "reset" /\ proc' = "wait" /\ toDev' = Sent("reset")
  BY DEF OpenPort, IInv, PortKnown, NumbersKnown
<1>2. /\ toDev' \in Seq(Commands)
      /\ \A c \in {"set", "junk"} : DevHas(c)' => DevHas(c)
      /\ Bound => Bound'
  <2>1. CASE toDev' = toDev
    BY <1>1, <2>1, StillDev DEF IInv, TypeOK, Cmds, window
  <2>2. CASE toDev' = Sent("reset")
    BY <1>1, <2>2, Queued DEF IInv, Cmds, window
  <2> QED
    BY <1>1, <2>1, <2>2
<1>3. TypeOK'
  <2>1. toHost' \in Seq(Replies)
    BY <1>1, EmptySeq
  <2>2. {late', saw', link', has', room', served', behind'} \subseteq BOOLEAN
    BY <1>1 DEF IInv, TypeOK, window, device
  <2> QED
    BY <1>1, <1>2, <2>1, <2>2 DEF IInv, TypeOK, window, device
<1>4. PortKnown' /\ NumbersKnown'
  BY <1>1, <1>2 DEF IInv, PortKnown, NumbersKnown, window, device, Spoilt
<1>5. ConfigKnown'
  <2> SUFFICES ASSUME kind = "config", ~behind PROVE ConfigKnown'
    BY <1>1 DEF ConfigKnown, window
  <2> QED
    BY <1>1, NoHost, StillDev
       DEF IInv, ConfigKnown, Fresh, Saved, window, device, Spoilt, Cmds, Replies
<1>6. ResetKnown'
  BY <1>1, NoHost DEF ResetKnown, window, Replies
<1> QED
  BY <1>3, <1>4, <1>5, <1>6 DEF IInv

\* A ping, or what is left of one.
LEMMA PingKeeps ==
  ASSUME IInv, Ping
  PROVE  IInv'
<1>1. /\ proc = "shake" /\ link /\ n > 0 /\ kind = "config"
      /\ UNCHANGED <<window, process, link, toHost, device>>
      /\ faults' \in 0..MaxFaults /\ (Spoilt => Spoilt')
      /\ \/ toDev' = Sent("ping")
         \/ toDev' = Sent("junk") /\ Spoilt'
  BY DEF Ping, Fault, IInv, TypeOK, PortKnown, NumbersKnown, Spoilt
<1>2. /\ toDev' \in Seq(Commands)
      /\ \A c \in {"set", "reset"} : DevHas(c)' => DevHas(c)
      /\ DevHas("junk")' => DevHas("junk") \/ Spoilt'
      /\ Bound => Bound'
      /\ Single => Single'
  <2>1. CASE toDev' = Sent("ping")
    BY <1>1, <2>1, Queued DEF IInv, Cmds, window
  <2>2. CASE toDev' = Sent("junk") /\ Spoilt'
    BY <1>1, <2>2, Queued DEF IInv, Cmds, window
  <2> QED
    BY <1>1, <2>1, <2>2
<1>3. TypeOK'
  BY <1>1, <1>2 DEF IInv, TypeOK, window, process, device
<1>4. PortKnown' /\ NumbersKnown'
  BY <1>1, <1>2 DEF IInv, PortKnown, NumbersKnown, window, process, device
<1>5. (Fresh => Fresh') /\ (~behind => ~Saved)
  BY <1>1, <1>2 DEF IInv, ConfigKnown, Fresh, Saved, window, device
<1>6. ConfigKnown' /\ ResetKnown'
  BY <1>1, <1>2, <1>5, StillHost
     DEF IInv, ConfigKnown, ResetKnown, window, process, device, Replies
<1> QED
  BY <1>3, <1>4, <1>6 DEF IInv

\* A sign of life, upon which the configuration is sent, or another line.
LEMMA ShakeKeeps ==
  ASSUME IInv, Shake
  PROVE  IInv'
<1>1. /\ proc = "shake" /\ toHost # <<>> /\ toHost' = Tail(toHost)
      /\ n > 0 /\ kind = "config" /\ link /\ form = "busy"
      /\ queue = "empty" /\ shown = "none"
      /\ UNCHANGED <<window, saw, queue, link, device, faults>>
      /\ \/ proc' = "wait" /\ toDev' = Sent("set")
         \/ proc' = proc /\ toDev' = toDev
  BY DEF Shake, IInv, TypeOK, PortKnown, NumbersKnown
<1>2. /\ toHost' \in Seq(Replies)
      /\ \A r \in Replies : HostHas(r)' => HostHas(r)
      /\ Ordered => Ordered'
  BY <1>1, Heard DEF IInv
<1>3. /\ toDev' \in Seq(Commands)
      /\ \A c \in {"junk", "reset"} : DevHas(c)' => DevHas(c)
      /\ Bound => Bound'
      /\ Single /\ ~DevHas("set") => Single'
      /\ proc' = "shake" => (DevHas("set")' => DevHas("set"))
  <2>1. CASE proc' = "wait" /\ toDev' = Sent("set")
    BY <1>1, <2>1, Queued DEF IInv, Cmds, window
  <2>2. CASE proc' = proc /\ toDev' = toDev
    BY <1>1, <2>2, StillDev DEF IInv, TypeOK, Cmds, window
  <2> QED
    BY <1>1, <2>1, <2>2
<1>4. TypeOK'
  BY <1>1, <1>2, <1>3 DEF IInv, TypeOK, window, device
<1>5. PortKnown' /\ NumbersKnown'
  BY <1>1, <1>3 DEF IInv, PortKnown, NumbersKnown, window, device, Spoilt
<1>6. ConfigKnown'
  <2> SUFFICES ASSUME kind = "config", ~behind PROVE ConfigKnown'
    BY <1>1 DEF ConfigKnown, window
  <2>1. Fresh /\ ~Saved /\ (HostHas("error") => Spoilt)
    BY <1>1 DEF IInv, ConfigKnown, Fresh, Saved
  <2> QED
    BY <1>1, <1>2, <1>3, <2>1
       DEF IInv, ConfigKnown, Fresh, window, device, Spoilt, Replies
<1>7. ResetKnown'
  BY <1>1 DEF ResetKnown, window
<1> QED
  BY <1>4, <1>5, <1>6, <1>7 DEF IInv

\* A line that is read while an answer is awaited.
LEMMA ReadKeeps ==
  ASSUME IInv, proc = "wait", toHost # <<>>, toHost' = Tail(toHost),
         UNCHANGED <<window, device, proc, queue, link, toDev, faults>>,
         saw' = (saw \/ (kind = "config" /\ Head(toHost) = "saved"))
  PROVE  IInv'
<1>1. /\ toHost' \in Seq(Replies) /\ HostHas(Head(toHost))
      /\ \A r \in Replies : HostHas(r)' => HostHas(r)
      /\ Ordered => Ordered'
      /\ Ordered /\ Head(toHost) = "saved" => ~HostHas("error")'
  BY Heard DEF IInv
<1>2. form = "busy" /\ queue = "empty" /\ shown = "none" /\ link
  BY DEF IInv, PortKnown
<1>3. TypeOK'
  <2>1. saw' \in BOOLEAN
    BY DEF IInv, TypeOK
  <2> QED
    BY <1>1, <2>1 DEF IInv, TypeOK, window, device
<1>4. PortKnown' /\ NumbersKnown'
  BY <1>2, StillDev DEF IInv, PortKnown, NumbersKnown, window, device, Spoilt, Cmds
<1>5. Fresh' = Fresh /\ Saved' = Saved /\ Wiped' = Wiped
  BY StillDev DEF Fresh, Saved, Wiped, window, device, Cmds
<1>6. ConfigKnown' /\ ResetKnown'
  BY <1>1, <1>2, <1>5, StillDev
     DEF IInv, ConfigKnown, ResetKnown, window, device, Spoilt, Cmds, Replies
<1> QED
  BY <1>3, <1>4, <1>6 DEF IInv

LEMMA ProcessKeeps ==
  ASSUME IInv, Process
  PROVE  IInv'
<1>0. /\ faults \in Nat /\ faults \in 0..MaxFaults
      /\ (faults' = faults => faults' \in 0..MaxFaults /\ faults <= faults')
      /\ (Fault => faults' \in 0..MaxFaults /\ faults <= faults' /\ faults' > 0)
      /\ kind \in {"config", "reset"} /\ saw \in BOOLEAN
  BY DEF Fault, IInv, TypeOK
<1>1. CASE OpenPort
  BY <1>1, OpenKeeps
<1>2. CASE OpenFails
  <2>1. /\ proc = "open" /\ Ends("noport") /\ saw' = saw /\ toDev' = toDev
        /\ faults' \in 0..MaxFaults /\ faults <= faults' /\ "noport" \in Verdicts
    BY <1>0, <1>2 DEF OpenFails, Verdicts, Failures
  <2> QED
    BY <2>1, EndsKeep
<1>3. CASE Hangs
  <2>1. /\ UNCHANGED <<window, saw, queue, toDev, link, toHost, device>>
        /\ proc # "none" /\ proc' = "hung" /\ queue = "empty"
        /\ faults' \in 0..MaxFaults /\ faults <= faults'
    BY <1>0, <1>3 DEF Hangs, wire, IInv, PortKnown
  <2> QED
    BY <2>1, StopsKeep
<1>4. CASE Ping
  BY <1>4, PingKeeps
<1>5. CASE Shake
  BY <1>5, ShakeKeeps
<1>6. CASE SendFails
  <2>1. /\ proc = "shake" /\ Ends("cut") /\ saw' = saw
        /\ toDev' = toDev \/ toDev' = Sent("junk")
        /\ faults' \in 0..MaxFaults /\ faults <= faults' /\ faults' > 0
        /\ "cut" \in Verdicts
    BY <1>0, <1>6 DEF SendFails, Verdicts, Failures
  <2> QED
    BY <2>1, EndsKeep
<1>7. CASE Confirm
  <2>1. /\ proc = "wait" /\ kind = "config" /\ toHost # <<>>
        /\ toDev' = toDev /\ faults' = faults
    BY <1>7 DEF Confirm
  <2>2. HostHas(Head(toHost))
    <3>1. Len(toHost) \in Nat \ {0} /\ Head(toHost) = toHost[1]
      BY <2>1, HeadTailProperties, EmptySeq DEF IInv, TypeOK
    <3> QED
      BY <3>1 DEF HostHas
  <2>3. CASE Head(toHost) = "error" /\ Ends("rejected") /\ UNCHANGED saw
    <3>1. "rejected" \in Verdicts
      BY DEF Verdicts, Failures
    <3> QED
      BY <1>0, <2>1, <2>2, <2>3, <3>1, EndsKeep
  <2>4. CASE Ends(StartedVerdict) /\ UNCHANGED saw
    <3>1. /\ StartedVerdict \in Verdicts
          /\ StartedVerdict = "ok" => saw
          /\ StartedVerdict = "unconfirmed" => ~saw
          /\ StartedVerdict \notin {"noport", "silent", "cut", "rejected"}
      BY <1>0 DEF Verdicts, Failures, StartedVerdict
    <3> QED
      BY <1>0, <2>1, <2>4, <3>1, EndsKeep
  <2>5. CASE /\ toHost' = Tail(toHost) /\ saw' = (saw \/ Head(toHost) = "saved")
             /\ UNCHANGED <<window, device, proc, queue, link>>
    BY <2>1, <2>5, ReadKeeps
  <2> QED
    BY <1>7, <2>3, <2>4, <2>5 DEF Confirm
<1>8. CASE ResetConfirm
  <2>1. /\ proc = "wait" /\ kind = "reset" /\ toHost # <<>>
        /\ saw' = saw /\ toDev' = toDev /\ faults' = faults
    BY <1>8 DEF ResetConfirm
  <2>2. HostHas(Head(toHost))
    <3>1. Len(toHost) \in Nat \ {0} /\ Head(toHost) = toHost[1]
      BY <2>1, HeadTailProperties, EmptySeq DEF IInv, TypeOK
    <3> QED
      BY <3>1 DEF HostHas
  <2>3. CASE Head(toHost) = "wiped" /\ Ends("ok")
    <3>1. "ok" \in Verdicts
      BY DEF Verdicts
    <3> QED
      BY <1>0, <2>1, <2>2, <2>3, <3>1, EndsKeep
  <2>4. CASE toHost' = Tail(toHost) /\ UNCHANGED <<window, device, proc, queue, link>>
    <3>1. saw' = (saw \/ (kind = "config" /\ Head(toHost) = "saved"))
      BY <1>0, <2>1
    <3> QED
      BY <2>1, <2>4, <3>1, ReadKeeps
  <2> QED
    BY <1>8, <2>3, <2>4 DEF ResetConfirm
<1>9. CASE TimesOut
  <2>1. /\ proc \in {"shake", "wait"} /\ Ends(TimeoutVerdict)
        /\ saw' = saw /\ toDev' = toDev /\ faults' = faults
    BY <1>9 DEF TimesOut
  <2>2. /\ TimeoutVerdict \in Verdicts
        /\ TimeoutVerdict = "ok" => saw
        /\ TimeoutVerdict = "unconfirmed" => ~saw
        /\ TimeoutVerdict = "silent" => proc = "shake"
        /\ TimeoutVerdict \notin {"noport", "cut", "rejected"}
    BY <1>0 DEF Verdicts, Failures, TimeoutVerdict
  <2>3. saw => kind = "config"
    BY <1>0 DEF IInv, PortKnown
  <2> QED
    BY <1>0, <2>1, <2>2, <2>3, EndsKeep
<1>10. CASE Breaks
  <2>1. /\ proc \in {"shake", "wait"} /\ Ends("broken")
        /\ saw' = saw /\ toDev' = toDev /\ faults' = faults /\ "broken" \in Verdicts
    BY <1>10 DEF Breaks, Verdicts, Failures
  <2> QED
    BY <1>0, <2>1, EndsKeep
<1>11. CASE Exit
  <2>1. /\ proc = "exit" /\ proc' = "dead"
        /\ UNCHANGED <<window, saw, queue, toDev, device, faults>>
        /\ link' = FALSE /\ toHost' = <<>>
    BY <1>11 DEF Exit, wire, IInv, PortKnown, TypeOK
  <2> QED
    BY <1>0, <2>1, StopsKeep
<1>12. CASE Crash
  <2>1. /\ proc # "none" /\ proc' = "dead" /\ link' = FALSE /\ toHost' = <<>>
        /\ UNCHANGED <<window, saw, queue, toDev, device>>
        /\ faults' \in 0..MaxFaults /\ faults <= faults'
    BY <1>0, <1>12 DEF Crash
  <2> QED
    BY <2>1, StopsKeep
<1> QED
  BY <1>1, <1>2, <1>3, <1>4, <1>5, <1>6, <1>7, <1>8, <1>9, <1>10, <1>11, <1>12
     DEF Process

-----------------------------------------------------------------------------
(* The window.                                                             *)

\* An attempt begins.
LEMMA BeginKeeps ==
  ASSUME IInv, NEW what \in {"config", "reset"}, Begin(what)
  PROVE  IInv'
<1>1. /\ form = "idle" /\ n < MaxAttempts /\ n' = n + 1 /\ n \in Nat
      /\ form' = "busy" /\ kind' = what /\ late' = FALSE /\ poll' = "queue"
      /\ shown' = "none" /\ sound' \in {sound, sound \cup {n + 1}}
      /\ behind' = (\E i \in DOMAIN toDev : toDev[i].cmd \in {"set", "reset"})
      /\ proc' = "open" /\ saw' = FALSE /\ queue' = "empty"
      /\ UNCHANGED <<wire, device, faults>>
  BY DEF Begin, IInv, TypeOK
<1>2. ~link /\ toHost = <<>> /\ pin <= n /\ pin \in Nat
  BY <1>1 DEF IInv, PortKnown, NumbersKnown, TypeOK
<1>3. \A c \in Cmds : DevHas(c)' = DevHas(c)
  BY <1>1 DEF DevHas, wire
<1>4. ~behind' => ~DevHas("set") /\ ~DevHas("reset")
  BY <1>1 DEF IInv, TypeOK, DevHas
<1>5. TypeOK'
  <2>1. n + 1 \in 0..MaxAttempts /\ n + 1 \in Attempts
    BY <1>1 DEF Attempts
  <2>2. {late', saw', link', has', room', served', behind'} \subseteq BOOLEAN
    BY <1>1 DEF IInv, TypeOK, wire, device
  <2> QED
    BY <1>1, <2>1, <2>2 DEF IInv, TypeOK, wire, device
<1>6. PortKnown'
  BY <1>1, <1>2, <1>3 DEF IInv, PortKnown, wire, device, Spoilt, Cmds
<1>7. NumbersKnown'
  <2>1. \A i \in 1..Len(toDev) : toDev[i] \in Commands /\ toDev[i].of <= n
    <3>1. toDev \in Seq(Commands)
      BY DEF IInv, TypeOK
    <3> QED
      BY <3>1 DEF IInv, NumbersKnown, Bound
  <2>2. \A i \in 1..Len(toDev) : toDev[i].of \in Nat
    BY <2>1 DEF Commands, Attempts
  <2> QED
    BY <1>1, <1>2, <2>1, <2>2 DEF NumbersKnown, Bound, wire, device
<1>8. ConfigKnown'
  <2> SUFFICES ASSUME ~behind' PROVE ConfigKnown'
    BY DEF ConfigKnown
  <2>1. ~DevHas("set")' /\ ~DevHas("reset")' /\ Fresh'
    BY <1>1, <1>2, <1>3, <1>4 DEF Fresh, wire, device, Cmds
  <2>2. Single'
    BY <2>1 DEF Single, DevHas
  <2>3. (\A r \in Replies : ~HostHas(r)') /\ Ordered'
    BY <1>1, <1>2, NoHost DEF wire
  <2> QED
    BY <1>1, <2>1, <2>2, <2>3 DEF ConfigKnown, Replies
<1>9. ResetKnown'
  BY <1>1, <1>2, NoHost DEF ResetKnown, wire, Replies
<1> QED
  BY <1>5, <1>6, <1>7, <1>8, <1>9 DEF IInv

\* The process is done with: the window shows a verdict it has reason for, looks
\* the address up, or closes.
LEMMA CleanupKeeps ==
  ASSUME IInv, proc' = "none", link' = FALSE, toHost' = <<>>,
         form' \in {"idle", "lookup", "closed"}, poll' \in {"queue", "alive"},
         UNCHANGED <<n, kind, late, sound, behind, saw, queue, toDev, device, faults>>,
         \/ shown' = shown
         \/ shown' = queue /\ queue # "empty"
         \/ shown' \in {"ended", "late"},
         form' = "lookup" => kind = "config" /\ queue = "ok"
  PROVE  IInv'
<1>1. TypeOK'
  <2>1. toHost' \in Seq(Replies)
    BY EmptySeq
  <2>2. {late', saw', link', has', room', served', behind'} \subseteq BOOLEAN
    BY DEF IInv, TypeOK, device
  <2>3. shown' \in Verdicts \cup {"none"}
    BY DEF IInv, TypeOK, Verdicts, Failures
  <2> QED
    BY <2>1, <2>2, <2>3 DEF IInv, TypeOK, device
<1>2. PortKnown' /\ NumbersKnown'
  BY StillDev DEF IInv, PortKnown, NumbersKnown, device, Spoilt, Cmds
<1>3. Fresh' = Fresh /\ Saved' = Saved /\ Wiped' = Wiped
  BY StillDev DEF Fresh, Saved, Wiped, device, Cmds
<1>4. ConfigKnown' /\ ResetKnown'
  BY <1>3, StillDev, NoHost
     DEF IInv, ConfigKnown, ResetKnown, device, Spoilt, Cmds, Replies
<1> QED
  BY <1>1, <1>2, <1>4 DEF IInv

\* A timer goes off, or the address has been looked up, or will never be.
LEMMA TimerKeeps ==
  ASSUME IInv, UNCHANGED <<n, kind, sound, behind, process, wire, device>>,
         faults' \in {faults, faults + 1} \cap (0..MaxFaults),
         late' \in BOOLEAN, poll' \in {"queue", "alive"},
         \/ UNCHANGED <<form, shown>>
         \/ form = "lookup" /\ form' = "idle" /\ shown' = "ok"
         \/ form = "lookup" /\ form' = "stuck" /\ shown' = shown
  PROVE  IInv'
<1>1. TypeOK'
  <2>1. {late', saw', link', has', room', served', behind'} \subseteq BOOLEAN
    BY DEF IInv, TypeOK, device, process, wire
  <2>2. shown' \in Verdicts \cup {"none"}
    BY DEF IInv, TypeOK, Verdicts
  <2> QED
    BY <2>1, <2>2 DEF IInv, TypeOK, device, process, wire
<1>0. Spoilt => Spoilt'
  BY DEF Spoilt, IInv, TypeOK
<1>2. PortKnown' /\ NumbersKnown'
  BY <1>0, StillDev DEF IInv, PortKnown, NumbersKnown, device, process, wire, Cmds
<1>3. Fresh' = Fresh /\ Saved' = Saved /\ Wiped' = Wiped
  BY StillDev DEF Fresh, Saved, Wiped, device, wire, Cmds
<1>4. ConfigKnown' /\ ResetKnown'
  BY <1>0, <1>3, StillDev, StillHost
     DEF IInv, PortKnown, ConfigKnown, ResetKnown, device, process, wire, Cmds, Replies
<1> QED
  BY <1>1, <1>2, <1>4 DEF IInv

LEMMA WindowKeeps ==
  ASSUME IInv, Configure \/ FactoryReset \/ Late \/ PollQueue \/ PollAlive
               \/ LookedUp \/ LookupDies \/ Close
  PROVE  IInv'
<1>1. CASE Configure \/ FactoryReset
  BY <1>1, BeginKeeps DEF Configure, FactoryReset
<1>2. CASE Late
  BY <1>2, TimerKeeps DEF Late, IInv, TypeOK
<1>3. CASE PollQueue
  <2>1. CASE queue # "empty" /\ Finishes(queue)
    BY <1>3, <2>1, CleanupKeeps DEF PollQueue, Finishes
  <2>2. CASE poll' = "alive" /\ UNCHANGED <<form, shown, proc, link, toHost>>
    BY <1>3, <2>2, TimerKeeps DEF PollQueue, IInv, TypeOK, process, wire
  <2> QED
    BY <1>3, <2>1, <2>2 DEF PollQueue
<1>4. CASE PollAlive
  <2>1. CASE Finishes("late") \/ Finishes("ended")
    BY <1>4, <2>1, CleanupKeeps DEF PollAlive, Finishes
  <2>2. CASE poll' = "queue" /\ UNCHANGED <<form, shown, proc, link, toHost>>
    BY <1>4, <2>2, TimerKeeps DEF PollAlive, IInv, TypeOK, process, wire
  <2> QED
    BY <1>4, <2>1, <2>2 DEF PollAlive
<1>5. CASE LookedUp
  BY <1>5, TimerKeeps DEF LookedUp, IInv, TypeOK
<1>6. CASE LookupDies
  <2>1. faults' \in {faults, faults + 1} \cap (0..MaxFaults)
    BY <1>6 DEF LookupDies, Fault, IInv, TypeOK
  <2> QED
    BY <1>6, <2>1, TimerKeeps DEF LookupDies, IInv, TypeOK
<1>7. CASE Close
  BY <1>7, CleanupKeeps DEF Close, IInv, TypeOK
<1> QED
  BY <1>1, <1>2, <1>3, <1>4, <1>5, <1>6, <1>7

-----------------------------------------------------------------------------

LEMMA InitHolds == Init => IInv
<1> SUFFICES ASSUME Init PROVE IInv
  OBVIOUS
<1>1. /\ toDev = <<>> /\ toHost = <<>> /\ 0 \in 0..MaxAttempts /\ 0 \in 0..MaxFaults
      /\ toDev \in Seq(Commands) /\ toHost \in Seq(Replies)
  <2>1. toDev = <<>> /\ toHost = <<>> /\ 0 \in 0..MaxAttempts /\ 0 \in 0..MaxFaults
    BY DEF Init
  <2> QED
    BY <2>1, EmptySeq
<1>2. TypeOK
  <2>1. {late, saw, link, has, room, served, behind} \subseteq BOOLEAN
    BY DEF Init
  <2> QED
    BY <1>1, <2>1 DEF Init, TypeOK
<1>3. (\A c \in Cmds : ~DevHas(c)) /\ Single /\ Bound
  BY <1>1 DEF DevHas, Single, Bound
<1>4. (\A r \in Replies : ~HostHas(r)) /\ Ordered
  BY <1>1 DEF HostHas, Ordered
<1>5. PortKnown /\ NumbersKnown
  BY <1>1, <1>3 DEF Init, PortKnown, NumbersKnown, Cmds
<1>6. ConfigKnown /\ ResetKnown
  BY <1>3, <1>4 DEF Init, ConfigKnown, ResetKnown, Cmds, Replies
<1> QED
  BY <1>2, <1>5, <1>6 DEF IInv

LEMMA Inductive == IInv /\ [Next]_vars => IInv'
<1> SUFFICES ASSUME IInv, [Next]_vars PROVE IInv'
  OBVIOUS
<1>1. CASE Device
  BY <1>1, StartsKeep, TakeKeeps, RestartKeeps DEF Device
<1>2. CASE Process
  BY <1>2, ProcessKeeps
<1>3. CASE Configure \/ FactoryReset \/ Late \/ PollQueue \/ PollAlive
           \/ LookedUp \/ LookupDies \/ Close
  BY <1>3, WindowKeeps
<1>4. CASE UNCHANGED vars
  BY <1>4, TimerKeeps DEF vars, window, IInv, TypeOK
<1> QED
  BY <1>1, <1>2, <1>3, <1>4 DEF Next

\* What each line on the wire and each result vouches for.
THEOREM Invariance == Spec => []IInv
BY InitHolds, Inductive, PTL DEF Spec

\* Every variable stays in its type.
THEOREM TypeCorrect == Spec => []TypeOK
<1>1. IInv => TypeOK
  BY DEF IInv
<1> QED
  BY <1>1, Invariance, PTL

\* "BusyLight is configured" is shown of a device that has saved this attempt's
\* PIN, and its network unless the full list refused that; "silent" only of one that was sent
\* nothing; a rejection only of one that has saved nothing, or where a line was
\* cut (_configure_worker and _poll_configure_result of app.py).
THEOREM Verdict == Spec => []VerdictIsTrue
<1>1. IInv => VerdictIsTrue
  BY DEF IInv, ConfigKnown, Fresh, Saved, VerdictIsTrue
<1> QED
  BY <1>1, Invariance, PTL

\* "Factory reset acknowledged" is shown of a device that is wiped, or wiping.
THEOREM ResetTrue == Spec => []ResetIsTrue
<1>1. IInv => ResetIsTrue
  BY DEF IInv, ResetKnown, Wiped, ResetIsTrue
<1> QED
  BY <1>1, Invariance, PTL

\* A process that has read config_saved lets its attempt end well, save for a
\* broken link, a hanging driver and the race of the poll.
THEOREM SavedSucceeds == Spec => []SavedIsSuccess
<1>1. IInv => SavedIsSuccess
  BY DEF IInv, TypeOK, ConfigKnown, SavedIsSuccess, Failures
<1> QED
  BY <1>1, Invariance, PTL
=============================================================================
