------------------------------ MODULE Transport ------------------------------
(***************************************************************************)
(* transport.py BusyLightTransport: every call of the presence loop goes   *)
(* over the cable when a port has answered a ping, and over HTTP when it   *)
(* has not or no longer does.  serial_client.py opens the port for each    *)
(* command, empties its input and takes the next JSON line for the answer; *)
(* client.py keeps a session, which the device may forget.                 *)
(*                                                                         *)
(* The device serves the lines of the cable in order, when its loop comes  *)
(* to them: a command the helper has given up on is still carried out, and *)
(* its answer still sent.  It keeps the state it was last asked for beside *)
(* the one its light shows, and of its own accord it puts a pattern on the *)
(* light and a line on the cable.                                          *)
(***************************************************************************)
EXTENDS Naturals, Sequences

CONSTANTS
  State,      \* the states of the light
  MaxWrites,  \* bound on the writes of others
  MaxFaults   \* bound on timeouts, refusals, pulled cables and restarts

None == "none"
Light == "light"   \* the port of the device
Dock == "dock"     \* a bridge chip of a docking station: same VID, no answer

\* A pattern nobody asked for: WIFI_ERROR, or AVAILABLE after a start.
Own == "own"

ASSUME TransportAssumption ==
  /\ "IN_CALL" \in State /\ State \cap {None, Own, Light, Dock} = {}
  /\ {MaxWrites, MaxFaults} \subseteq Nat

VARIABLES
  light,       \* what the light shows
  lastState,   \* the state the device was last asked for
  warned,      \* gErrorLedApplied: has it put WIFI_ERROR on the light?
  plugged,     \* is the cable in?
  wifi,        \* does the device answer HTTP?
  held,        \* does the device hold the session of the helper's cookie?
  cmds,        \* commands the device has not served
  replies,     \* answers the helper has not read
  configured,  \* are there a host and a PIN to fall back to?
  chan,        \* the port of _serial, or None
  due,         \* has the rescan interval passed since _last_serial_scan?
  authed,      \* _http_authed
  mode,        \* _last_mode
  usage,       \* does the presence loop find the microphone in use?
  call,        \* the call under way
  last,        \* how the call before it ended
  seen,        \* what the device was asked for, or showed, during this call
  behind,      \* was an earlier command unanswered when this one was written?
  spent        \* how much of each bound is used

led == <<light, lastState, warned>>
device == <<led, plugged, wifi, held>>
cable == <<cmds, replies>>
helper == <<chan, due, authed, mode>>
vars == <<device, cable, configured, helper, usage, call, last, seen, behind, spent>>

\* at: ping, hello and op are turns on the cable, auth and ask HTTP requests.
Calls == [at : {"start", "idle", "ping", "hello", "op", "auth",
                "ask"},
          op : {"login", "set", "get"}, state : State \cup {None},
          todo : SUBSET {Light, Dock}, port : {None, Light, Dock},
          sent : BOOLEAN, again : BOOLEAN, redo : 0..3]

Commands == [op : {"ping", "set", "get"}, state : State \cup {None}]

\* mqtt_connected: the device says so by itself, and it has "ok" in it.
Connected == [op |-> "mqtt", state |-> None]

TypeOK ==
  /\ light \in State \cup {Own} /\ lastState \in State
  /\ {warned, plugged, wifi, held} \subseteq BOOLEAN
  /\ cmds \in Seq(Commands) /\ replies \in Seq(Commands \cup {Connected})
  /\ {configured, due, authed, usage, behind} \subseteq BOOLEAN
  /\ chan \in {None, Light, Dock} /\ mode \in {None, "serial", "http"}
  /\ call \in Calls
  /\ last \in [op : {"login", "set", "get"}, ok : BOOLEAN,
               state : State \cup {None, Own}]
  /\ seen \subseteq State \cup {Own}
  /\ spent \in [writes : 0..MaxWrites, faults : 0..MaxFaults]

Resting == [at |-> "idle", op |-> "login", state |-> None, todo |-> {},
            port |-> None, sent |-> FALSE, again |-> FALSE, redo |-> 0]

Init ==
  /\ lastState \in State /\ warned = FALSE
  /\ plugged \in BOOLEAN /\ wifi \in BOOLEAN /\ held = FALSE
  /\ light \in IF wifi THEN {lastState} ELSE {lastState, Own}
  /\ cmds = <<>> /\ replies = <<>>
  /\ configured \in BOOLEAN
  /\ usage = FALSE
  /\ chan = None /\ due = TRUE /\ authed = FALSE /\ mode = None
  /\ call = [Resting EXCEPT !.at = "start"]
  /\ last = [op |-> "login", ok |-> FALSE, state |-> None]
  /\ seen = {} /\ behind = FALSE
  /\ spent = [writes |-> 0, faults |-> 0]

Fault == /\ spent.faults < MaxFaults
         /\ spent' = [spent EXCEPT !.faults = @ + 1]

-----------------------------------------------------------------------------
(* The ends of a call, and the ways on from one of its parts.  Each takes  *)
(* the record of the call as far as it has come.                           *)

Return(c, ok, state) ==
  /\ last' = [op |-> c.op, ok |-> ok, state |-> state]
  /\ call' = Resting

Goto(c, at, port) ==
  /\ call' = [c EXCEPT !.at = at, !.port = port, !.sent = FALSE, !.again = FALSE]
  /\ UNCHANGED last

\* The fallback: HTTP, with a login first when there was none yet.
ToHttp(c) ==
  IF ~configured
  THEN mode' = None /\ Return(c, FALSE, None)
  ELSE /\ Goto(c, IF c.op # "login" /\ authed THEN "ask" ELSE "auth", None)
       /\ UNCHANGED mode

\* chan' is known: over the cable if there is one.
Route(c) ==
  IF chan' = None THEN ToHttp(c)
  ELSE Goto(c, IF c.op = "login" THEN "hello" ELSE "op", chan') /\ UNCHANGED mode

\* _refresh_serial(): ping the candidates that are left.
Scan(c) ==
  IF c.todo = {} THEN chan' = None /\ Route(c)
  ELSE /\ \E p \in c.todo : Goto([c EXCEPT !.todo = @ \ {p}], "ping", p)
       /\ UNCHANGED <<chan, mode>>

\* A turn on the cable has failed for good.
CableFails ==
  CASE call.at = "ping" -> Scan(call) /\ UNCHANGED due
    [] call.at = "hello" -> chan' = None /\ ToHttp(call) /\ UNCHANGED due
    [] call.at = "op" -> chan' = None /\ due' = TRUE /\ ToHttp(call)

\* applyState(): the light turns to s, at the command of the call or of others.
Shows(s) ==
  /\ light' = s /\ lastState' = s /\ UNCHANGED warned
  /\ seen' = IF call.at \in {"start", "idle"} THEN seen ELSE seen \cup {s}

\* The light alone turns to s.
Turns(s) ==
  /\ light' = s /\ UNCHANGED lastState
  /\ seen' = IF call.op = "get" THEN seen \cup {s} ELSE seen

-----------------------------------------------------------------------------
(* Calls, and their turns on the cable.                                    *)

Ports == IF plugged THEN {Light, Dock} ELSE {Dock}

\* mutant: only login() looks for the cable
BeginOnce(op, state) ==
  LET scan == op = "login"
      c == [Resting EXCEPT !.op = op, !.state = state,
                           !.todo = IF scan THEN Ports ELSE {}]
  IN /\ seen' = IF op = "set" THEN {} ELSE {light, lastState}
     /\ behind' = FALSE
     /\ due' = (due /\ ~scan)
     /\ IF scan THEN Scan(c) ELSE UNCHANGED chan /\ Route(c)
     /\ UNCHANGED <<device, cable, configured, usage, authed, spent>>

\* login() scans in any case; the others when no port is known and it is time.
Begin(op, state) ==
  LET scan == op = "login" \/ (chan = None /\ due)
      c == [Resting EXCEPT !.op = op, !.state = state,
                           !.todo = IF scan THEN Ports ELSE {}]
  IN /\ seen' = IF op = "set" THEN {} ELSE {light, lastState}
     /\ behind' = FALSE
     /\ due' = (due /\ ~scan)
     /\ IF scan THEN Scan(c) ELSE UNCHANGED chan /\ Route(c)
     /\ UNCHANGED <<device, cable, configured, usage, authed, spent>>

\* main() logs in once, and goes on whether or not that succeeded.
Login == call.at = "start" /\ Begin("login", None)

\* In a call the loop writes IN_CALL whenever it reads anything else.
CallUnseen == usage /\ last.op = "get" /\ last.state # "IN_CALL"

\* tick() and keepalive() begin with a read ...
Get == call.at = "idle" /\ ~CallUnseen /\ Begin("get", None)

\* ... and a tick may write after it.
Set(s) ==
  /\ call.at = "idle" /\ last.op = "get"
  /\ usage => CallUnseen /\ s = "IN_CALL"
  /\ Begin("set", s)

OnCable == call.at \in {"ping", "hello", "op"}
Command == IF call.at = "op" THEN [op |-> call.op, state |-> call.state]
           ELSE [op |-> "ping", state |-> None]

\* mutant: answers to earlier commands are left in the input
WriteUnread ==
  /\ OnCable /\ ~call.sent /\ call.port = Light /\ plugged
  /\ cmds' = Append(cmds, Command) /\ UNCHANGED replies
  /\ behind' = (cmds # <<>>)
  /\ call' = [call EXCEPT !.sent = TRUE]
  /\ UNCHANGED <<device, configured, usage, helper, last, seen, spent>>

\* _one_roundtrip() opens the port, empties its input and writes the line.
Write ==
  /\ OnCable /\ ~call.sent /\ call.port = Light /\ plugged
  /\ replies' = <<>> /\ cmds' = Append(cmds, Command)
  /\ behind' = (cmds # <<>>)
  /\ call' = [call EXCEPT !.sent = TRUE]
  /\ UNCHANGED <<device, configured, usage, helper, last, seen, spent>>

\* SerialUnavailable: the port is gone, or another program holds it.  One
\* more attempt, then the turn has failed.
Unavailable ==
  /\ OnCable /\ call.port = Light
  /\ IF plugged THEN ~call.sent /\ Fault ELSE UNCHANGED spent
  /\ IF call.again
     THEN CableFails
     ELSE /\ call' = [call EXCEPT !.again = TRUE, !.sent = FALSE]
          /\ UNCHANGED <<chan, due, mode, last>>
  /\ UNCHANGED <<device, cable, configured, usage, authed, seen, behind>>

\* Six lines, or as many silent timeouts, and no answer among them.
TimedOut ==
  /\ OnCable
  /\ \/ call.port = Dock /\ UNCHANGED spent
     \/ call.sent /\ plugged /\ cmds \o replies = <<>> /\ UNCHANGED spent
     \/ call.sent /\ plugged /\ cmds # <<>> /\ Fault
  /\ CableFails
  /\ UNCHANGED <<device, cable, configured, usage, authed, seen, behind>>

\* The next line that ASYNC_BEACONS does not list is the answer, whatever it
\* answers, and though it answers nothing.
Read ==
  /\ OnCable /\ call.sent /\ plugged /\ replies # <<>>
  /\ replies' = Tail(replies)
  /\ LET r == Head(replies) IN
     IF call.at # "op" /\ r.op # "ping" THEN CableFails
     ELSE /\ UNCHANGED due
          /\ IF call.at = "ping"
             THEN /\ chan' = call.port
                  /\ Route([call EXCEPT !.todo = {}])
             ELSE /\ mode' = "serial" /\ UNCHANGED chan
                  /\ Return(call, TRUE, IF call.op = "get" THEN r.state ELSE None)
  /\ UNCHANGED <<device, cmds, configured, usage, authed, seen, behind, spent>>

-----------------------------------------------------------------------------
(* HTTP.                                                                   *)

\* BusyLightNetworkError: it is passed on, and the session a login was to
\* replace is dropped first.
Unreached ==
  /\ call.at \in {"auth", "ask"}
  /\ IF wifi THEN Fault ELSE UNCHANGED spent
  /\ IF call.at = "auth" THEN held' = FALSE ELSE UNCHANGED held
  /\ IF call.at = "auth" /\ call.op = "get" THEN mode' = None ELSE UNCHANGED mode
  /\ Return(call, FALSE, None)
  /\ UNCHANGED <<led, plugged, wifi, cable, configured, usage, chan, due, authed,
                 seen, behind>>

\* The device carries out the write, and its answer is lost.
AnswerLost ==
  /\ call.at = "ask" /\ call.op = "set" /\ wifi /\ held /\ Fault
  /\ Shows(call.state)
  /\ Return(call, FALSE, None)
  /\ UNCHANGED <<plugged, wifi, held, cable, configured, usage, helper, behind>>

\* login(): the device knows the PIN, and is not in lockout.
Auth ==
  /\ call.at = "auth" /\ wifi
  /\ held' = TRUE /\ authed' = TRUE
  /\ IF call.op = "login" THEN mode' = "http" /\ Return(call, TRUE, None)
     ELSE Goto(call, "ask", None) /\ UNCHANGED mode
  /\ UNCHANGED <<led, plugged, wifi, cable, configured, usage, chan, due,
                 seen, behind, spent>>

\* BusyLightAuthError.  The transport logs in once more when it was the client
\* that tried to renew the session.
Refused ==
  /\ call.at = "auth" /\ wifi /\ Fault
  /\ held' = FALSE
  /\ IF call.redo = 1
     THEN call' = [call EXCEPT !.redo = 2] /\ UNCHANGED <<mode, last>>
     ELSE /\ IF call.op = "get" THEN mode' = None ELSE UNCHANGED mode
          /\ Return(call, FALSE, None)
  /\ UNCHANGED <<led, plugged, wifi, cable, configured, usage, chan, due, authed,
                 seen, behind>>

AskGet ==
  /\ call.at = "ask" /\ call.op = "get" /\ wifi
  /\ mode' = "http"
  /\ Return(call, held, IF held THEN light ELSE None)
  /\ UNCHANGED <<device, cable, configured, usage, chan, due, authed, seen, behind, spent>>

\* mutant: the request is not made again with the new session
AskSetOnce ==
  /\ call.at = "ask" /\ call.op = "set" /\ wifi
  /\ IF held
     THEN /\ Shows(call.state)
          /\ mode' = "http" /\ Return(call, TRUE, None)
     ELSE /\ Return(call, FALSE, None)
          /\ UNCHANGED <<led, seen, mode>>
  /\ UNCHANGED <<plugged, wifi, held, cable, configured, usage, chan, due, authed,
                 behind, spent>>

\* A 401 or 403: each client.set_state() logs in and asks again, once.
AskSet ==
  /\ call.at = "ask" /\ call.op = "set" /\ wifi
  /\ IF held
     THEN /\ Shows(call.state)
          /\ mode' = "http" /\ Return(call, TRUE, None)
     ELSE /\ IF call.redo \in {0, 2}
             THEN /\ call' = [call EXCEPT !.at = "auth", !.redo = @ + 1]
                  /\ UNCHANGED last
             ELSE Return(call, FALSE, None)
          /\ UNCHANGED <<led, seen, mode>>
  /\ UNCHANGED <<plugged, wifi, held, cable, configured, usage, chan, due, authed,
                 behind, spent>>

-----------------------------------------------------------------------------
(* The microphone, the device, and time.                                   *)

Microphone ==
  /\ usage' = ~usage
  /\ UNCHANGED <<device, cable, configured, helper, call, last, seen, behind, spent>>

\* handleSerialProvisioning(): one line of the cable, and its answer.
Serve ==
  /\ plugged /\ cmds # <<>>
  /\ cmds' = Tail(cmds)
  /\ LET c == Head(cmds) IN
     /\ IF c.op = "set" THEN Shows(c.state) ELSE UNCHANGED <<led, seen>>
     /\ replies' = Append(replies, IF c.op = "get" THEN [c EXCEPT !.state = lastState]
                                   ELSE c)
  /\ UNCHANGED <<plugged, wifi, held, configured, usage, helper, call, last, behind, spent>>

\* The web UI, the schedule or the broker sets the light.
OthersWrite(s) ==
  /\ spent.writes < MaxWrites
  /\ spent' = [spent EXCEPT !.writes = @ + 1]
  /\ s # lastState /\ Shows(s)
  /\ UNCHANGED <<plugged, wifi, held, cable, configured, usage, helper, call, last, behind>>

\* The broker is reached.  Before a command is written the line would be lost
\* on the helper, which empties its input.
MqttConnects ==
  /\ plugged /\ OnCable /\ call.sent /\ Fault
  /\ replies' = Append(replies, Connected)
  /\ UNCHANGED <<device, cmds, configured, usage, helper, call, last, seen, behind>>

\* networkingTick() off the Wi-Fi, with no USB host for a while: once.
Warn ==
  /\ ~wifi /\ cmds = <<>> /\ ~warned
  /\ warned' = TRUE /\ Turns(Own)
  /\ UNCHANGED <<plugged, wifi, held, cable, configured, usage, helper, call, last,
                 behind, spent>>

\* The cable is pulled or put in: what was on its way is lost.
Cable ==
  /\ Fault
  /\ plugged' = ~plugged /\ cmds' = <<>> /\ replies' = <<>>
  /\ UNCHANGED <<led, wifi, held, configured, usage, helper, call, last, seen, behind>>

\* The Wi-Fi goes, or comes: then the light shows again what was asked for.
Wifi ==
  /\ Fault
  /\ wifi' = ~wifi
  /\ IF wifi \/ light # Own THEN UNCHANGED <<light, lastState, seen>> ELSE Turns(lastState)
  /\ warned' = (warned /\ wifi)
  /\ UNCHANGED <<plugged, held, cable, configured, usage, helper, call, last, behind>>

\* The session expires, or is the oldest of a full table.
SessionLost ==
  /\ Fault /\ held
  /\ held' = FALSE
  /\ UNCHANGED <<led, plugged, wifi, cable, configured, usage, helper, call, last,
                 seen, behind>>

\* The device restarts, with the state that was saved.  What the light shows
\* before it is on the Wi-Fi is not that.
Restart ==
  /\ Fault
  /\ held' = FALSE /\ cmds' = <<>> /\ replies' = <<>> /\ warned' = FALSE
  /\ wifi' \in {FALSE, wifi}
  /\ lastState' \in State /\ light' \in IF wifi' THEN {lastState'} ELSE {lastState', Own}
  /\ seen' = IF call.op = "get" THEN seen \cup {light', lastState'} ELSE seen
  /\ UNCHANGED <<plugged, configured, usage, helper, call, last, behind>>

\* SERIAL_RESCAN_DISCONNECTED_S pass.
Elapse ==
  /\ ~due
  /\ due' = TRUE
  /\ UNCHANGED <<device, cable, configured, usage, chan, authed, mode, call, last, seen,
                 behind, spent>>

Turn == Write \/ Unavailable \/ TimedOut \/ Read
Request == Unreached \/ AnswerLost \/ Auth \/ Refused \/ AskGet \/ AskSet
Helper == Login \/ Get \/ (\E s \in State : Set(s)) \/ Turn \/ Request

Next == \/ Helper
        \/ Microphone \/ Serve \/ Elapse
        \/ \E s \in State : OthersWrite(s)
        \/ MqttConnects \/ Warn \/ Cable \/ Wifi \/ SessionLost \/ Restart

\* The worker thread polls for ever, the device goes round its loop, and time
\* passes.  An idle presence loop only reads: no fairness asks it to write.
Fairness == WF_vars(Helper) /\ WF_vars(Serve) /\ WF_vars(Elapse)

Spec == Init /\ [][Next]_vars /\ Fairness

-----------------------------------------------------------------------------
(* Properties.                                                             *)

\* A set_state() that returned without an error has set the light during the
\* call; a get_state() that returned a state returns one the device was asked
\* for, or showed, during the call.  Two exceptions: a command written while an
\* earlier one was still unanswered, whose answer is taken for the other's, and
\* a call that took mqtt_connected for its answer.
AnswersAreTrue ==
  [][ call # call' /\ call'.at = "idle" /\ last'.ok
         /\ (call.at = "op" => ~behind /\ Head(replies) # Connected) =>
        \/ last'.op = "login"
        \/ last'.op = "set" /\ call.state \in seen'
        \/ last'.op = "get" /\ last'.state \in seen' ]_vars

\* A cable that is put in for good is used in the end, and then for good.
CableIsUsed == <>[]plugged => <>[](mode = "serial" /\ chan = Light)

\* While a call lasts and the device can be reached for good, on whichever
\* channel, the device is asked to show it and goes on being so: through sessions
\* lost, a cable that was still trusted, and commands that timed out on it and
\* are carried out, with another state, after the write that replaced them.  And
\* the light shows it, but for a device off the Wi-Fi whose own pattern came over
\* a call already asked for: the cable reports the call, and nobody writes it.
CallReachesLight ==
  <>[](usage /\ (plugged \/ (wifi /\ configured))) =>
    <>[](/\ lastState = "IN_CALL"
         /\ light = "IN_CALL" \/ (light = Own /\ ~wifi))

\* client.py:6, "Re-authenticates transparently on a 401/403": once the Wi-Fi
\* stays, an idle helper gets to read the light again.
ReadsRecover ==
  <>[](~plugged /\ wifi /\ configured) => []<>(last.op = "get" => last.ok)
=============================================================================
