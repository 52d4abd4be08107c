------------------------------- MODULE Wizard -------------------------------
(***************************************************************************)
(* The setup wizard (app.py, serial_protocol.py) with the device it sets   *)
(* up.  The window starts a process for each attempt and polls it; the     *)
(* process handshakes with the device, sends the network and the PIN and   *)
(* waits for their confirmation, and the device saves them, confirms and   *)
(* restarts, which may take the USB link with it.                          *)
(*                                                                         *)
(* Attempts are numbered, and an attempt's number stands for what the form *)
(* held.  Time is not modelled: a timeout may end any wait.                *)
(***************************************************************************)
EXTENDS Naturals, Sequences

CONSTANTS
  MaxAttempts,  \* bound on the attempts of the user
  MaxWire,      \* bound on the pings in flight
  MaxFaults     \* bound on what goes wrong

ASSUME WizardAssumption == {MaxAttempts, MaxWire, MaxFaults} \subseteq Nat

VARIABLES
  form,    \* the window: idle, busy, looking the device's address up, stuck with
           \* that for ever, closed
  n,       \* the number of the last attempt
  kind,    \* was it a configuration or a factory reset?
  late,    \* _configure_deadline has passed
  poll,    \* the poll is about to read the queue, or to look at the process
  shown,   \* the verdict the window shows
  proc,    \* where the process of the attempt is
  saw,     \* has it read config_saved?
  queue,   \* _result_queue
  link,    \* does the port it opened still work?
  toDev,   \* lines on their way to the device, and in its buffer
  toHost,  \* lines on their way to the process
  dev,     \* where the device is
  pin,     \* the attempt whose PIN it has saved; 0 for none of them
  net,     \* the attempt whose network it has saved
  has,     \* has it any network?
  room,    \* has its list room for another?
  refused, \* the attempts whose network the full list has refused
  served,  \* has it told that its server runs?
  sound,   \* the attempts whose form the device accepts as well
  behind,  \* did an attempt begin with an earlier one's commands unread?
  faults   \* how many faults have struck

window == <<form, n, kind, late, poll, shown, sound, behind>>
process == <<proc, saw, queue>>
wire == <<link, toDev, toHost>>
device == <<dev, pin, net, has, room, refused, served>>
vars == <<window, process, wire, device, faults>>

Failures == {"noport", "silent", "rejected", "unconfirmed", "broken", "cut",
             "ended", "late"}
Verdicts == {"ok"} \cup Failures
Attempts == 1..MaxAttempts
Commands == [cmd : {"ping", "junk", "reset", "set"}, of : Attempts]
Replies == {"ready", "pong", "error", "saved", "started", "wiped"}

TypeOK ==
  /\ form \in {"idle", "busy", "lookup", "stuck", "closed"}
  /\ n \in 0..MaxAttempts /\ kind \in {"config", "reset"}
  /\ poll \in {"queue", "alive"} /\ shown \in Verdicts \cup {"none"}
  /\ proc \in {"none", "open", "shake", "wait", "hung", "exit", "dead"}
  /\ queue \in Verdicts \cup {"empty"}
  /\ toDev \in Seq(Commands) /\ toHost \in Seq(Replies)
  /\ dev \in {"boot", "setup", "run", "saved", "wipe", "wiped"}
  /\ {pin, net} \subseteq 0..MaxAttempts
  /\ {late, saw, link, has, room, served, behind} \subseteq BOOLEAN
  /\ sound \subseteq Attempts /\ refused \subseteq Attempts
  /\ faults \in 0..MaxFaults

Init ==
  /\ form = "idle" /\ n = 0 /\ kind = "config" /\ late = FALSE
  /\ poll = "queue" /\ shown = "none" /\ sound = {} /\ behind = FALSE
  /\ proc = "none" /\ saw = FALSE /\ queue = "empty"
  /\ link = FALSE /\ toDev = <<>> /\ toHost = <<>>
  /\ dev \in {"boot", "run"} /\ pin = 0 /\ net = 0
  /\ has \in BOOLEAN /\ room \in {TRUE, ~has} /\ refused = {}
  /\ served = FALSE
  /\ faults = 0

Fault == faults < MaxFaults /\ faults' = faults + 1

-----------------------------------------------------------------------------
(* The device.                                                             *)

\* Without a host that has opened the port, and raised DTR, a line is dropped.
Emit(reply) == toHost' = IF link THEN Append(toHost, reply) ELSE toHost

\* setup(): the beacon, and later the loop.
Beacon ==
  /\ dev = "boot"
  /\ dev' = "setup"
  /\ Emit("ready")
  /\ UNCHANGED <<window, process, link, toDev, pin, net, has, room, refused, served,
                 faults>>

Up ==
  /\ dev = "setup"
  /\ dev' = "run"
  /\ UNCHANGED <<window, process, wire, pin, net, has, room, refused, served, faults>>

\* The first connection to a saved network starts the server.
Serve ==
  /\ dev = "run" /\ has /\ ~served
  /\ served' = TRUE
  /\ Emit("started")
  /\ UNCHANGED <<window, process, link, toDev, dev, pin, net, has, room, refused, faults>>

\* addNetwork(): a network the list knows is changed in place; another is
\* appended, which may fill the last slot, or refused when there is none.
AddNetwork(attempt) ==
  \/ /\ room /\ room' \in BOOLEAN
     /\ net' = attempt /\ has' = TRUE /\ UNCHANGED refused
  \/ /\ ~room /\ net' = attempt
     /\ UNCHANGED <<has, room, refused>>
  \/ /\ ~room /\ refused' = refused \cup {attempt}
     /\ UNCHANGED <<net, has, room>>

\* handleSerialSetConfig(): the network and the PIN are saved; whether the list
\* took the network is not looked at.
SetConfig(attempt) ==
  IF attempt \notin sound
  THEN Emit("error") /\ UNCHANGED device
  ELSE /\ AddNetwork(attempt)
       /\ pin' = attempt /\ dev' = "saved"
       /\ Emit("saved")
       /\ UNCHANGED served

\* handleSerialProvisioning(): a command is read.
Take ==
  /\ dev = "run" /\ toDev # <<>>
  /\ toDev' = Tail(toDev)
  /\ LET command == Head(toDev) IN
     \/ command.cmd = "ping" /\ Emit("pong") /\ UNCHANGED device
     \/ command.cmd = "junk" /\ Emit("error") /\ UNCHANGED device
     \/ /\ command.cmd = "reset" /\ Emit("wiped")
        /\ dev' = "wipe" /\ UNCHANGED <<pin, net, has, room, refused, served>>
     \/ command.cmd = "set" /\ SetConfig(command.of)
  /\ UNCHANGED <<window, process, link, faults>>

Wipe ==
  /\ dev = "wipe"
  /\ dev' = "wiped" /\ pin' = 0 /\ net' = 0 /\ has' = FALSE /\ room' = TRUE
  /\ UNCHANGED <<window, process, wire, refused, served, faults>>

\* ESP.restart(): what it had not read is lost.  Where USB enumerates anew the
\* port of the process is dead.
Restart ==
  /\ dev \in {"saved", "wiped"}
  /\ dev' = "boot" /\ served' = FALSE /\ toDev' = <<>>
  /\ \/ UNCHANGED <<link, toHost>>
     \/ link' = FALSE /\ toHost' = <<>>
  /\ UNCHANGED <<window, process, pin, net, has, room, refused, faults>>

-----------------------------------------------------------------------------
(* The process of an attempt: configure_device(), and the factory reset.   *)

\* A command as it reaches the device, and what is left of one that was cut.
Sent(cmd) == Append(toDev, [cmd |-> cmd, of |-> n])

\* The port is closed, and the result is put on the queue.
Ends(verdict) ==
  /\ proc' = "exit" /\ queue' = verdict
  /\ link' = FALSE /\ toHost' = <<>>
  /\ UNCHANGED <<window, device>>

\* DTR is raised and the input dropped.  A reset is sent without a handshake.
OpenPort ==
  /\ proc = "open"
  /\ link' = TRUE /\ toHost' = <<>>
  /\ \/ kind = "config" /\ proc' = "shake" /\ UNCHANGED toDev
     \/ kind = "reset" /\ proc' = "wait" /\ toDev' = Sent("reset")
  /\ UNCHANGED <<window, saw, queue, device, faults>>

OpenFails ==
  /\ proc = "open" /\ Fault
  /\ Ends("noport")
  /\ UNCHANGED <<saw, toDev>>

\* A call of the driver does not return.
Hangs ==
  /\ proc \in {"open", "shake", "wait"} /\ Fault
  /\ proc' = "hung"
  /\ UNCHANGED <<window, saw, queue, wire, device>>

\* A ping a second; one whose write timed out may be cut off.
Ping ==
  /\ proc = "shake" /\ link /\ Len(toDev) + Len(toHost) < MaxWire
  /\ \/ toDev' = Sent("ping") /\ UNCHANGED faults
     \/ toDev' = Sent("junk") /\ Fault
  /\ UNCHANGED <<window, process, link, toHost, device>>

\* _wait_for_pong() returns at the first sign of life, and set_config is sent.
Shake ==
  /\ proc = "shake" /\ toHost # <<>>
  /\ toHost' = Tail(toHost)
  /\ IF Head(toHost) \in {"pong", "ready"}
     THEN proc' = "wait" /\ toDev' = Sent("set")
     ELSE UNCHANGED <<proc, toDev>>
  /\ UNCHANGED <<window, saw, queue, link, device, faults>>

\* The write of set_config times out, with nothing written or a part of it.
SendFails ==
  /\ proc = "shake" /\ toHost # <<>> /\ Head(toHost) \in {"pong", "ready"}
  /\ Fault
  /\ Ends("cut")
  /\ toDev' \in {toDev, Sent("junk")}
  /\ UNCHANGED saw

\* mutant: server_started is taken for a confirmation
StartedSuffices == "ok"

\* server_started ends the wait, whether or not config_saved was read before.
StartedVerdict == IF saw THEN "ok" ELSE "unconfirmed"

\* A line is read while the confirmation is awaited.
Confirm ==
  /\ proc = "wait" /\ kind = "config" /\ toHost # <<>>
  /\ LET reply == Head(toHost) IN
     \/ /\ reply = "error" /\ Ends("rejected") /\ UNCHANGED saw
     \/ /\ reply = "started" /\ Ends(StartedVerdict) /\ UNCHANGED saw
     \/ /\ reply \notin {"error", "started"}
        /\ toHost' = Tail(toHost) /\ saw' = (saw \/ reply = "saved")
        /\ UNCHANGED <<window, device, proc, queue, link>>
  /\ UNCHANGED <<toDev, faults>>

\* mutant: any line acknowledges the reset
ResetConfirmAny ==
  /\ proc = "wait" /\ kind = "reset" /\ toHost # <<>>
  /\ Ends("ok")
  /\ UNCHANGED <<saw, toDev, faults>>

\* Only factory_reset_ok acknowledges a reset; the device sends it first and
\* wipes its store then.
ResetConfirm ==
  /\ proc = "wait" /\ kind = "reset" /\ toHost # <<>>
  /\ IF Head(toHost) = "wiped" THEN Ends("ok")
     ELSE toHost' = Tail(toHost) /\ UNCHANGED <<window, device, proc, queue, link>>
  /\ UNCHANGED <<saw, toDev, faults>>

\* mutant: the 45 s are looked at alone
TimeoutBlind == IF proc = "shake" THEN "silent" ELSE "unconfirmed"

\* 12 s for the handshake, 45 s in all, 8 s after config_saved; 5 s for a reset.
TimeoutVerdict == IF proc = "shake" THEN "silent"
                  ELSE IF saw THEN "ok" ELSE "unconfirmed"

TimesOut ==
  /\ proc \in {"shake", "wait"}
  /\ Ends(TimeoutVerdict)
  /\ UNCHANGED <<saw, toDev, faults>>

\* A read or a write on the dead port raises SerialException.
Breaks ==
  /\ proc \in {"shake", "wait"} /\ ~link
  /\ Ends("broken")
  /\ UNCHANGED <<saw, toDev, faults>>

Exit ==
  /\ proc = "exit" /\ proc' = "dead"
  /\ UNCHANGED <<window, saw, queue, wire, device, faults>>

\* The process is killed from outside.
Crash ==
  /\ proc \in {"open", "shake", "wait"} /\ Fault
  /\ proc' = "dead" /\ link' = FALSE /\ toHost' = <<>>
  /\ UNCHANGED <<window, saw, queue, toDev, device>>

-----------------------------------------------------------------------------
(* The window.                                                             *)

\* A process is started, and polled from then on.
Begin(what) ==
  /\ form = "idle" /\ n < MaxAttempts
  /\ form' = "busy" /\ n' = n + 1 /\ kind' = what
  /\ late' = FALSE /\ poll' = "queue" /\ shown' = "none"
  /\ sound' \in {sound, sound \cup {n + 1}}
  /\ behind' = (\E i \in DOMAIN toDev : toDev[i].cmd \in {"set", "reset"})
  /\ proc' = "open" /\ saw' = FALSE /\ queue' = "empty"
  /\ UNCHANGED <<wire, device, faults>>

\* on_configure(), with a form that is valid.
Configure == Begin("config")

\* on_factory_reset(), confirmed.
FactoryReset == Begin("reset")

\* 90 s have passed.  (A reset has no deadline.)
Late ==
  /\ form = "busy" /\ kind = "config" /\ ~late
  /\ late' = TRUE
  /\ UNCHANGED <<form, n, kind, poll, shown, sound, behind, process, wire, device,
                 faults>>

\* _cleanup_configure_runtime() and the verdict.  A configured device whose
\* address it did not tell is looked up first.
Finishes(verdict) ==
  /\ proc' = "none" /\ link' = FALSE /\ toHost' = <<>>
  /\ poll' = "queue"
  /\ \/ form' = "idle" /\ shown' = verdict
     \/ verdict = "ok" /\ kind = "config" /\ form' = "lookup" /\ UNCHANGED shown

\* The poll empties the queue first.
PollQueue ==
  /\ form = "busy" /\ poll = "queue"
  /\ IF queue # "empty"
     THEN Finishes(queue)
     ELSE poll' = "alive" /\ UNCHANGED <<form, shown, proc, link, toHost>>
  /\ UNCHANGED <<n, kind, late, sound, behind, saw, queue, toDev, device, faults>>

\* mutant: the deadline is not looked at
PollAliveOnly ==
  /\ form = "busy" /\ poll = "alive"
  /\ IF proc \in {"none", "dead"} THEN Finishes("ended")
     ELSE poll' = "queue" /\ UNCHANGED <<form, shown, proc, link, toHost>>
  /\ UNCHANGED <<n, kind, late, sound, behind, saw, queue, toDev, device, faults>>

\* Then it looks at the deadline and at the process, which may have put its
\* result on the queue and ended in between.
PollAlive ==
  /\ form = "busy" /\ poll = "alive"
  /\ IF late THEN Finishes("late")
     ELSE IF proc = "dead" THEN Finishes("ended")
     ELSE poll' = "queue" /\ UNCHANGED <<form, shown, proc, link, toHost>>
  /\ UNCHANGED <<n, kind, late, sound, behind, saw, queue, toDev, device, faults>>

\* resolve_device_ip() returns, with an address or without.
LookedUp ==
  /\ form = "lookup"
  /\ form' = "idle" /\ shown' = "ok"
  /\ UNCHANGED <<n, kind, late, poll, sound, behind, process, wire, device, faults>>

\* It raises, as Zeroconf() does where no socket can be had: the thread ends, and
\* nobody calls _finish_success().
LookupDies ==
  /\ form = "lookup" /\ Fault
  /\ form' = "stuck"
  /\ UNCHANGED <<n, kind, late, poll, shown, sound, behind, process, wire, device>>

\* The process is terminated, or ends with its parent.
Close ==
  /\ form # "closed"
  /\ form' = "closed"
  /\ proc' = "none" /\ link' = FALSE /\ toHost' = <<>>
  /\ UNCHANGED <<n, kind, late, poll, shown, sound, behind, saw, queue, toDev, device,
                 faults>>

-----------------------------------------------------------------------------

Device == Beacon \/ Up \/ Serve \/ Take \/ Wipe \/ Restart

Process == \/ OpenPort \/ OpenFails \/ Hangs \/ Ping \/ Shake \/ SendFails
           \/ Confirm \/ ResetConfirm \/ TimesOut \/ Breaks \/ Exit \/ Crash

Next == \/ Device \/ Process
        \/ Configure \/ FactoryReset
        \/ Late \/ PollQueue \/ PollAlive \/ LookedUp \/ LookupDies \/ Close

\* The timers of the window and the timeouts of the process go off.
Fairness == /\ WF_vars(PollQueue \/ PollAlive) /\ WF_vars(Late) /\ WF_vars(LookedUp)
            /\ WF_vars(OpenPort) /\ WF_vars(TimesOut) /\ WF_vars(Exit)

Spec == Init /\ [][Next]_vars /\ Fairness

-----------------------------------------------------------------------------
(* Properties.                                                             *)

Spoilt == faults > 0

\* "BusyLight is configured" is shown, or about to be, only when the device has
\* saved this very PIN, and the network too unless its full list refused that (and
\* its answer kept silent about it); "silent" only when nothing was sent; and a
\* rejection only of what the device has not saved, unless a line was cut off.  (An
\* attempt that began with an earlier one's commands unread can be told what became
\* of those.)
VerdictIsTrue ==
  kind = "config" /\ ~behind =>
    /\ (form \in {"lookup", "stuck"} \/ shown = "ok")
         => (pin = n /\ (net = n \/ n \in refused))
    /\ shown = "silent" => pin # n
    /\ shown = "rejected" => (pin # n \/ Spoilt)

\* "Factory reset acknowledged" is shown only when the device has been wiped, or
\* is about to be, whatever it was sent before.
ResetIsTrue ==
  kind = "reset" /\ shown = "ok" => dev = "wipe" \/ (pin = 0 /\ net = 0)

\* Once the process has read config_saved the attempt succeeds, unless the link
\* is lost with the device's restart, the driver hangs or the poll misses it.
SavedIsSuccess ==
  saw /\ kind = "config" /\ ~behind => shown \notin Failures \ {"broken", "ended", "late"}

\* The window takes input again after every attempt: the verdict is there, and no
\* button is greyed out any more.  Two attempts are excepted by name: a reset that
\* hangs in the driver, and one whose look-up died with an error.
WizardReturns ==
  form = "busy" ~> \/ form \in {"idle", "closed"}
                   \/ form = "stuck"
                   \/ kind = "reset" /\ proc = "hung"
=============================================================================
