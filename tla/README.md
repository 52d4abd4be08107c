# A TLA+ model of BusyLight

BusyLight is a USB/Wi-Fi status light (ESP32 firmware, `firmware/`), a desktop
helper that drives it from the microphone, from Claude Code hooks and from a
dashboard (`presence_helper/`), and a setup wizard (`windows_setup/`). This
directory holds TLA+ modules that model its stateful parts, TLC configurations
that check them on small instances, and theorems checked by TLAPS.

## 1. Inventory

| component | state it keeps | operations | how it meets the others | what makes it correct |
|---|---|---|---|---|
| Firmware update, device (`ota_serial.cpp`, serial handler in `main.cpp`, upload route in `api_server.cpp`) | session phase, sizes, signature, running hash; the `Update` object of the Arduino core, shared by both routes; the boot slot | `ota_begin`, signature bytes, image bytes, `ota_abort`; upload start / write / end | serial lines and raw bytes; one web server callback per upload event; restarts the device | only whole signed images boot; a session owns `Update` exclusively and gives it back |
| Firmware update, host (`serial_client.py`) | where `update_firmware()` is, what it has sent | one call, three replies awaited | the same serial port as every other command; the device decides what bytes mean | a reported success is true; every update ends; no session is left behind |
| Claude mode (`claude_light.py`, `claude_hooks.py`) | flag file, `claude_state.json`, lock file, temporary file | `on`, `off`, `working`, `idle`, `sessionend`, `focus`, `unfocus` | short processes of several Claude Code sessions, the tray and the dashboard, all sharing the files and the light | no lost update; the light follows the file; a hook never blocks |
| Presence loop (`main.py`, `tray.py`) | `last_manual_state`, `last_pushed_state`, pause | one tick per poll: read microphone, read light, write light | worker thread; races with the user, the schedule, Claude mode, the tray menu | a call is shown and cleared; user picks survive |
| Wi-Fi, portal and light of the device (`networkingTick` in `main.cpp`, `ap_portal.cpp`, `wifi_ap_policy.h`, `host_presence.h`) | link, retry clock, error overlay, portal, list of networks, debounced save | one pass of `loop()` at a time | serial handler, API routes and schedule change the state it shows | the light shows the last state asked for; the portal is not for ever |
| Settings store (`config_store.cpp`) | NVS keys | load, add / remove network, save state | called by every handler | what was saved is loaded; a save is not half done |
| Sessions and lockout (`auth.cpp`) | session table, failure counter | login, validate, log out | every API route | bounded table, lockout that ends |
| Schedule (`schedule.cpp`, `scheduleTick`) | last entry applied | one tick per 20 s | `applyState` | an entry is applied once, and again after an edit |
| LED engine (`led_engine.cpp`) | pattern, last toggle | `setState`, `tick` | driven by the loop | blinks survive the wrap of `millis()` |
| MQTT bridge (`mqtt_bridge.cpp`) | connection, backoff | connect, publish, command | prints on the serial port; calls `applyState` | keeps trying; publishes what is shown |
| Transport and serial commands (`transport.py`, `serial_client.py`, `client.py`) | the trusted port, when it last scanned, whether it has logged in, the mode | `login`, `get_state`, `set_state`, `keepalive`, each over the cable or over HTTP, with retries, a scan and a new login in between | one cable for every command; answers carry no number; the device may forget the session | an answer is true; the cable is used when it is there; a call reaches the light |
| Tray updates (`tray.py`, `updater.py`) | `_paused`, `suspended`, the offers, update threads | check, update, reflash, fallback from one to the other, pause | keeps the loop and the dashboard off the port by flags they look at once | an update has the port to itself; the flags come back; the offer is right |
| Self-update and life of the process (`tray.py`, `updater.py`, `startup.py`, `single_instance.py`) | the running exe, the exe on disk, the download, the batch file, Run key and sentinel | check, download, stop, move, start, toggle start-at-login | two threads that end the process, a batch file, the virus scanner, the user | the application comes back, in whole; the user's choice is kept |
| Dashboard bridge (`webui_bridge.py`) | `suspended` | serial calls | threads of the UI | no call during an update |
| Setup wizard (`windows_setup/`) | the form, a process per attempt, its queue; the device's store | configure, factory reset | serial lines to a device that restarts; a queue and a poll inside the host | what the window says is true; the window comes back |

**Hard behaviours.** Two routes through one `Update` object; bytes whose
meaning depends on the device's phase; processes behind a best-effort lock
with stealing; read-decide-write against the user's hand; flags read once and
used later; unsolicited lines where a reply is expected; blocking 6 s connects
in a polled loop; wrapping 32-bit clocks; power cuts between NVS writes.
`PROJECT.json` lists each hazard at its line.

## 2. Modules

| module | models | source |
|---|---|---|
| `SignedUpdate` | the promise: one session at a time, the image changes only to a signed one | abstract |
| `FirmwareUpdate` | both update routes of the device | `ota_serial.cpp`, `main.cpp`, `api_server.cpp` |
| `OtaLink` (extends `FirmwareUpdate`) | that device and `update_firmware()` joined by the port | `serial_client.py`, `main.cpp`, `mqtt_bridge.cpp` |
| `SessionBoard` | the promise: commands take effect on the board of sessions one at a time | abstract, from the commands of `claude_light.py` |
| `ClaudeLight` | Claude mode, one process per command | `claude_light.py` |
| `Presence` | the presence loop against everybody else | `main.py`, `tray.py` |
| `Connectivity` | the device outside an update: `loop()` with Wi-Fi, portal, overlay, list of networks and saves | `main.cpp`, `config_store.cpp`, `ap_portal.cpp`, `api_server.cpp`, `wifi_ap_policy.h`, `host_presence.h` |
| `Transport` | one call after another over cable and HTTP, against a device with a loop of its own | `transport.py`, `serial_client.py`, `client.py`, `main.py` |
| `Tray` | the threads that share the port, the flags and the offer of firmware | `tray.py`, `webui_bridge.py`, `updater.py` |
| `AppLife` | the tray application as a process: start, self-update, end | `tray.py`, `updater.py`, `startup.py`, `single_instance.py`, `main.py` |
| `Wizard` | an attempt of the setup wizard: window, process, wire and device | `app.py`, `serial_protocol.py` of `windows_setup`, `main.cpp`, `config_store.cpp` |
| `FirmwareUpdateProofs`, `ClaudeLightProofs`, `ConnectivityProofs`, `PresenceProofs`, `TransportProofs`, `TrayProofs`, `AppLifeProofs`, `WizardProofs` | theorems about the module of that name; `FirmwareUpdateProofs` also those about `OtaLink` | |
| `MC*` | the values of the constants | |

### FirmwareUpdate

The variables are the members of `g_state` and of `ApiServer`, plus `updateOpen`
and `written` for the `Update` object, `bootImage` for the boot slot, and two
records of what went into a hash (`hashed`, `httpHashed`), which stand for the
SHA contexts: equality of data stands for equality of digests. One pass of the
loop in a raw mode is one action (`ReadSignature`, `ReadImage`), and the pass
that takes the last byte runs `finalize()` in the same action, as the code does;
each of the outcomes of a pass is a disjunct. A command line is an action
enabled only in phase `Idle`. The upload handler has one action per upload
event, and `HttpBare` is a request without a file, which reaches the reply alone.
An upload carries one file. `Restart` is `ESP.restart()`, `PowerCut` a loss of power: both keep only
the boot slot. Data are sequences of *units*: one unit stands for any number of
bytes, and `SigLen`, `MinBytes` and `MaxBytes` are counted in units.

External, from how the code uses it: `Update.begin` refuses when already begun,
a failed write or `end` leaves it closed, `end` makes what was written bootable.

### OtaLink

The port is two FIFO sequences; data in the first are units with the kind they
were sent as, and the device is free to take them as something else according
to its phase, which is the point of the module. The host's program counter
follows the three replies of `update_firmware()`. `HostSkips` is the skipping of
`ASYNC_BEACONS`, `HostDiscards` the drain between chunks. The device prints its
lines in the same step as it acts. Environment: `HostDies` (a killed helper, an
arbitrary suffix of the unread data is lost), `HostPings` (the port probe of the
helper), `DevBeacon` (the connection line of the MQTT bridge), `DevPowerCut`.

`HostTimesOut` is the deadline of 8 s or 20 s. In a session the loop is dedicated to
the port and a pass takes about a millisecond, so a deadline meets an empty port.
Outside one a pass may block for seconds (`gWifiMulti.run` at `main.cpp:207`, the
connection to the broker at `mqtt_bridge.cpp:85`, a request over HTTP): there the host
may give up an `ota_begin` the device has still to read, and the session that this
line opens has no host. Pings may be unread likewise. What is assumed is that data
are read before anybody writes again, and that a new update, which takes a click and a
download, finds no `ota_begin` of the former one unread. `disturbed` is a history
variable: a host was killed, an unsolicited line came, an answer was late, or an update
began behind unread pings; it is cleared by a restart, and by an update that begins on a
free port with nothing unread.

### ClaudeLight

One step per access to a shared file: create the lock, look at its age, remove
it, load, write the temporary file, rename, unlock, read the flag, write the
light. The guard on `flag` is read when a hook starts, and again in `Decide`
(`_desired_state`). Sessions have a status, with `expired` for one older than
the TTL and still in the file. The device write is one step that may fail.
`GiveUp` (the end of the one-second spin) is enabled only when the lock's
creator is dead or stopped, because a read-modify-write takes milliseconds;
"stopped" is one of the faults. So are a flag file that cannot be removed, and a
temporary file left half written, which would be read as no sessions (`HalfWritten`). A session runs one hook at a time: Claude Code
waits for it.

### Presence

The worker thread's tick is `Poll` (look at the flags), `Sample` (microphone),
`Get` (read and decide: the decision touches only the loop's own variables), and
`Set`. Anybody else may act between them. `KeepAliveDies` is the end of the thread:
while the loop does not drive, it only calls `keepalive()`, outside the `try`, and
`client._send` lets through what is neither a network nor an authentication error.
`cover`, `raced` and `mine` are history variables for the properties.
A failed `get_state` reads None: `BusyLightTransport` turns the errors of this
call into None or into the network error that `tick` turns into None; an error that is
neither ends the tick before it has decided (the third disjunct of `Get`).
`force_state` is not modelled: nothing calls it.

### Connectivity

A turn of `loop()` goes through `serial`, `net`, `serve` and `persist`; the last
two only once the server was started. `serial` reads at most one line, `net` is
the dirty check together with `networkingTick()`, one action per way through it,
`serve` one request and any number of states set by MQTT or the schedule, and
`persist` the debounced save with the restart or reset asked for. `dev` is all of
the RAM, so that a restart is one assignment (`Fresh`); `nvs` is the flash. Other
threads do not exist on the device: the world acts between two stages.

Time is a set of timers that have run out: the time of the next try, the grace
period, the life of the portal, the debounce. A timer may run out at any moment
while something looks at it. The grace period does not run out while a saved
network is associated, since each turn restarts it and turns are short. That the
clock wraps is left to a later module. `Present` is `HostPresence.present`: the
port is open, or the last command is less than 15 s ago (`Lapse` ends that).

A network is its name: passwords, and the PIN that `set_config` and the portal save too,
are left out. `WiFiMulti.run` joins a network that is in its list and in range,
or fails; an association lasts until the network goes out of range, also after its
removal from the list, because `run` is not called on a working link. Saves to
the flash succeed; `CutWhileSaving` is a power cut inside one. Requests over HTTP
are those that got past the session check. An update in flight stops all but the
serial port and is `FirmwareUpdate`'s subject.

### Transport

A call is a record that walks through its parts: the ping of each port of a scan,
the hello of `login()`, the command on the cable, the login over HTTP, the request.
`ToHttp`, `Route` and `Scan` are the ways on, and each end of a part takes one.
On the cable a turn writes (`Write`, which empties the input first), fails to open
(`Unavailable`, tried again once), runs out of time (`TimedOut`) or reads the next
line (`Read`); the device serves its lines when its loop comes to them, also those
nobody waits for any more. Over HTTP each end of `client.set_state()` and of the
retry of the transport is a disjunct; `redo` counts them. An answer is the state it
names; host, version and the rest of it are left out. `Dock` is a bridge chip of the
same maker that never answers. The beacons that `_one_roundtrip` skips are left to
`OtaLink`; `mqtt_connected`, which it does not skip and which says `"ok"`, is
`MqttConnects`, and `Read` takes it for an answer. It is put on the cable while a command
waits, since each `Write` drops what came before.

The device keeps two states: `lastState`, what it was last asked for, which a read over
the cable returns (`main.cpp:537`), and `light`, what it shows, which a read over HTTP
returns. `applyState` sets both (`Shows`); the overlay WIFI_ERROR (`Warn`) and the light
of a device that has just started set only the second (`Turns`, the value `Own`), and a
fresh connection brings the second back (`Wifi`). `Warn` asks for no command on its way,
which stands for `gHost.present`; the whole of that machinery is `Connectivity`'s. A
`Restart` comes back with any saved state. `seen` and `behind` are history variables.

### Tray

The port has one owner, as Windows opens it for one handle. Its clients are the worker
thread, a dashboard request, the menu's version check and reset, and Claude mode, that
is the hooks' processes, its toggle and its route of the dashboard. The first two look at
the flags (`Lookers`): `Look` reads them, `OpenPort` comes later. The others open the port
at any time, in the middle of an update included. An updater is one click: download, raise the
flags, open, stream, and `finally`; `FallsBack` is the reflash after
`signature_invalid`, behind which the `finally` of the update still stands. What the
transfer does is `OtaLink`'s; here it ends well, badly, or badly with the device
updated all the same. `alone`, `early` and `misled` are history variables: they say
when a property may be expected.

### AppLife

`Started(image)` is a process from `main()` to the tray, with
`ensure_default_startup()` before the guard against a second instance; `StartFailed` is
one that an error ends on the way. An install
thread goes from `load` over `wait` and `stop` to `last`; from `stop` on the main
thread may return, and then every daemon thread is gone. `Try` and `Move` are rounds
of the batch file, with the rules of Windows in `Movable`: no file that is open is
moved, nor over an exe that runs. Where the exe or the process may be broken, `why`
records what led to it.

### Wizard

Window, process and device each have a program counter. Two FIFO sequences are the
wire; `Restart` of the device loses what it had not read, and the port of the
process with it where USB enumerates anew. An attempt is its number, and stands for
the PIN and the network typed in; `sound` holds those whose form the device accepts
too. The poll is two steps (`PollQueue`, `PollAlive`) because the process may end
between them. Timeouts may run out at any time. A driver call that does not return
is the state `hung`. `AddNetwork` tells a network the list knows from a new one, and
one that fills the last slot from one that is refused, which `refused` records. The
look-up of the address may die with an error (`LookupDies`): the form is then `stuck`.
`behind` marks an attempt that began while commands of an earlier one were still unread.

## 3. Runs

Violation runs show a place where code and text disagree: each checks one
property that a comment or a document states, and TLC's counterexample is a
behaviour of the code.

| run | shows |
|---|---|
| `FirmwareUpdate` | only the factory image or a signed one boots, and only whole; a session owns `Update`, wants more until it ends, and gives `Update` back; both routes implement `SignedUpdate` |
| `OtaLink` | a success the host reports is true; a genuine release is never rejected by a session of its own; until a host is killed, misled by a line nobody asked for, or too early for the answer, a host that has stopped leaves no session and every session ends |
| `OtaLinkDeath` (violation) | a session whose host died never ends: `loop()` does nothing else until a power cut |
| `ClaudeLight` | the lock excludes, the state file implements `SessionBoard`, one undisturbed command sets the light right |
| `ClaudeLightFaults` | the last also after crashes, stalls and refused locks; every process ends |
| `Connectivity` | a state set over USB keeps the light; the light differs from the reported state only under an overlay on record; the three lists of networks agree; with nothing to save a restart changes nothing; a new state is saved; a device left alone with a saved network in range gets back on it |
| `Presence` | outside a call a pick survives; a call hides nothing; while the loop drives, a lasting call is shown, and in a lasting silence what the loop has put on the light is taken back |
| `Transport` | a call that returns without an error tells the truth, unless it followed an unanswered command or read `mqtt_connected`; a cable that stays is used, and for good; a call reaches the device through every fallback, and its light unless a pattern of the device's own lies over it |
| `TransportIdle` (violation) | a helper on Wi-Fi whose session the device has forgotten reads None for ever, unless a call makes it write: `client.get_state()` swallows the 401 |
| `Tray` | flags do not outlive the updates; of those that look at the flags none meets an update that is alone; the offer of firmware is right in the end |
| `AppLife` | only a whole exe is installed, the process is down only for a named reason, the choice against start-at-login is kept, an install that has stopped the icon brings the application back, or what came between is named |
| `Wizard` | what the window says of the device is true; a process that has read `config_saved` does not fail for a reason of the wizard's own; the window comes back, but for a reset that hangs and a look-up that dies |

**Bounds.** `FirmwareUpdate`: two unit values, a signature of two units, images
of 0 to 3, reads of up to 2, so that a read can fill a phase exactly, fall short
of it, or be clipped, and two images share a prefix. The uploaded body is bounded
by `MaxBytes`. `OtaLink`: a three-unit image in chunks of two (the last chunk is
short), three attempts, two deaths, pings and beacons and one power cut: enough for
the remains of one attempt to meet the next, and those of both a third (358,000 states). `MaxBytes` bounds what any host announces
(`LinkAssumption`). `ClaudeLight`: two processes and two
sessions: each race is between two, and a third session only repeats the second;
`MaxFaults` is 1 with all commands and 2 with three. `Presence`: three states
(IN_CALL, the default, one that only others pick), three writes of others, two
faults; ticks are unbounded (41,000). `Connectivity`: two networks and a store of one (the
second meets the full store), three states with WIFI_ERROR, which `set_state`
accepts and `load` does not; two commands, one move of a network, one power cut:
remove and add, or add and roam, against restarts and timers that are unbounded.
`Transport`: two states, one write of others and two faults, so that a timeout
meets a second one, a pulled cable, a lost session, an unsolicited line or a restart
(1,030,000 states);
`TransportIdle`: no write and one fault. `Tray`: two updaters, which is what it takes
for one to lower the other's flags, and one fault (527,000). `AppLife`: two install
threads, three tries of the batch file, two faults (5,500). `Wizard`: two attempts,
so that the remains of one meet the next, two pings in flight, one fault (370,000).

`CHECK_DEADLOCK FALSE` stands where the system may stop: in `OtaLink` when the
bounds are used up and the device is idle, and in `Wizard` when the window is closed
and the device at rest.

**Fairness.** `OtaLink`: the device's loop runs for ever, so data, lines and a
restart decided on are weakly fair, and so is the host process while it lives;
nobody is obliged to start an update, and no fault is fair. `ClaudeLight`: a
started process runs on (weak fairness of its steps as one action; a crash may
still end it). `Presence`: the worker thread goes on until it has ended; nothing is
asked of one that has.
`Connectivity`: the loop runs, timers run out, and one who tries again and again
to associate with a network in range succeeds some day (strong fairness, the only
one: each try scans anew, and no try depends on the one before).
`Transport`: the worker thread polls for ever, the device's loop comes to each line,
and time passes; writes of an idle loop, faults and the microphone are owed nothing.
`Tray`: the loop's poll, the version check and each update thread go on.
`AppLife`: install threads, the main thread and the batch file go on, and every scan
of the virus scanner ends; nobody is obliged to start the application by hand.
`Wizard`: the timers of the window and the timeouts of the process go off, and a
port opens unless the driver hangs; the device owes nothing.

## 4. Proofs

`FirmwareUpdateProofs` proves for every signature length, minimum and maximum
size, buffer size and set of signed pairs (`UpdateAssumption`: sizes are positive,
signed images are not shorter than the minimum) that
`Spec` keeps `TypeOK`, `SessionOwnsUpdate`, `SessionWantsMore` and
`OnlySignedBoots`, `InstallIsWhole` and `FailedSessionReleasesUpdate`, and implements
`SignedUpdate`. The invariant is
`IInv == TypeOK /\ SessionInv /\ UploadInv /\ OnlySignedBoots`. `OnlySignedBoots`
alone is not inductive: it needs that what is booted is what was hashed.
`SessionInv` says it for the serial session, and that the loop's early return
keeps the upload out; `UploadInv` says it for the upload, where an error may leave
data hashed and `Update` closed. One lemma per group of actions shows
preservation; the refinement maps `session` to `IsActive \/ uploading`, and the
invariant turns each end of a session into `Install` or `Abandon`.

The same module then proves, for any releases, chunk size and number of attempts,
deaths, pings, beacons and power cuts, what the two ends make of it: `HostSuccess`,
`StoppedHostLeavesNothing`, `GenuineAccepted`, and that the device in the link still
implements `SignedUpdate`. None of these is inductive, because each is decided by data
and lines under way. `LinkIInv` adds to `IInv`, stage by stage of the host, how the port
joins the ends: in `ackBegin`, that the line is on its way, or was answered by something
else than a session, or is answered by a session of this host's (`BeginInv`); in
`ackReady`, that the signature is what the device has of it followed by what is on the
wire (`SignatureInv`); from then on the same of the image, and once the session is over,
that `ota_complete` is on its way only if the image is installed and `signature_invalid`
only if the release is not signed (`StreamInv`). `SuccessInv` says that nothing which
could open another session follows a success, and `QuietInv` that, as long as nothing
has disturbed it, a session has its host and the `ota_begin` is answered by the device
alone. The line on its way may be behind unread pings, and a deadline may pass over it
(`BeginSent`, `Idly`). Preservation is one lemma per action. `NobodyWaitsForBoth` is a
consequence worth a name: from the first reply on, as long as the session is open, there
is something to read for the device or for the host. It holds of data and lines alone,
and rests on no deadline.

`SessionIsFinite` and `LinkSessionIsFinite` are the part of termination that needs no
fairness: each step of a session leaves it less to wait for (`StillWanted`), so that
it can last only while nothing comes over the port, which is what `OtaLinkDeath` shows
to happen; by `NobodyWaitsForBoth` a host that is alive and whose session it is does not let it.

The attempt to prove that a genuine release is rejected only after a killed host showed
that this is false: a beacon may mislead a host too, or a host give up too early, and the
next `ota_begin` is then taken for data of the session it left. With two attempts TLC had
not reached the case, because line after line must first complete the signature and the
image of that session; the run has three now.
`GenuineVerifies` now names the one place where it can happen.

`ClaudeLightProofs` proves for any number of processes and sessions, under
`LockKept` (no process is killed or stopped for long, and the lock file can be
opened), `MutualExclusion` and that the state file implements `SessionBoard`.
`LockInv` ties the lock to the one process inside, and `SaveInv` says that what a
process is about to rename is the effect of its command on the file *as it is*,
which is what a lost update would break. Lost saves, lost light writes and
expiry are allowed in these theorems. `LightSet` needs no such assumption: for any
faults `LightFollowsFile` holds, because a command that meets no other knows, at
each step, what the file and the flag hold (`CalmInv`).

`ConnectivityProofs` proves for any set of networks, any capacity and any bounds
that `TypeOK` (with the capacity of the store), `ListsAgree`, `CleanIsSaved`,
`LightIsExplained` and `UsbOwnsLight` hold always. Their conjunction is inductive.
`RestartKeeps` shows that a restart on any store establishes it, which covers
`set_config`, the portal, resets and cuts; `Good` says what `networkingTick` must leave
in RAM, and one lemma per part of that function shows that it does.

`PresenceProofs` proves `CallHidesNothing` and `PicksSurvive` for any states and
bounds. A decision is made in one step and carried out in another, so the invariant
carries it along (`DecisionHolds`): what is about to be written is IN_CALL or the
state to be restored, the latter over IN_CALL unless somebody wrote in between.

`TransportProofs` proves `AnswersAreTrue` for any states and bounds. That an answer
without a number is believed rightly rests on `InFlight`: while a call waits, the
cable holds its command, or its true answer, or nothing, beside any number of
`mqtt_connected` lines, unless an earlier command was there first (`behind`).

`TrayProofs` proves `FlagsComeDown` and `PortIsKept` for any number of updaters, and
`OfferIsNews` (stated there: what the menu offers is news to the device, unless
something changed since it asked). A flag is up only because somebody is still to
lower it; of an update that is alone, nobody else is (`AloneKnown`). `PortIsKept` is what
the flags can promise, to those that look at them; section 5 says who does not.

`AppLifeProofs` proves `InstalledIsWhole`, `DownForAReason` and `OptOutIsKept` for any
number of install threads: the invariant follows the download from the first byte
to the move.

`WizardProofs` proves `VerdictIsTrue`, `ResetIsTrue` and `SavedIsSuccess` for any number
of attempts, pings and faults. A verdict is drawn from lines that left the device
long before, so the invariant says what each line on the wire and each result in
the queue vouches for: a device with this attempt's PIN and no command left that
could change it (`Saved`), one that has not got it and cannot (`Fresh`), one that is
wiped (`Wiped`).

The type invariants of all nine state machines are proved (`TypeCorrect`, and
`LinkCorrect` for `OtaLink`), and only that of `FirmwareUpdate` is run as well. Every
safety and action property of a passing run is the subject of a theorem. Only
model-checked is liveness, which lies outside what the proof system handles:
`SessionEndsWithHost`, `HookEnds`, `CallIsShown`, `CallIsCleared`, `Rejoins`,
`ServedIsSaved`, `CableIsUsed`, `CallReachesLight`, `OfferSettles`, `InstallEnds` and
`WizardReturns`. So is what the two violation runs show.

## 5. Seen while modelling, checked by no run

- `ota_serial.h:30` says of `reset()` that it aborts a half-finished update; it
  does so only for the serial session, so an HTTP upload cut off in the middle
  keeps `Update` open until a restart (`FailedSessionReleasesUpdate` excepts it).
- `focus` and `unfocus` save the state file with the mode off, and a hook that
  saw the flag before `off` saves its session after it.
- A probe or a retry after a killed host is stored as signature data of the
  session it left, which then answers a genuine image with `signature_invalid`; so is
  an `ota_begin` after a host that took `mqtt_connected` for its reply
  (`GenuineVerifies` says that it can happen nowhere else).
- A session that expires leaves the light red until another command works out a
  colour, although the v2 design document says (line 31) it cannot be left stuck.
- `set_config` and the portal ignore the refusal of a full store and report the
  network as saved; `main.cpp:363` says they "just ensure this one is in there too".
- The debounced save runs only after the server was started, so a device that
  never joins a network forgets its state at a power cut.
- A portal opened without a host stays open, with no retry of the saved networks,
  for as long as a host that came afterwards stays (`Rejoins` asks for no host).
- A power cut inside `saveNetworks` may lose networks that were not being changed.
- `mqtt_connected` is not in `ASYNC_BEACONS` (`serial_client.py:58`): read where a reply
  is expected, it ends an update on the host and not on the device (the properties
  of `OtaLink` except unsolicited lines), and it tells a `set_state` that the device has
  still to serve, or serves never, that all is well (`AnswersAreTrue` excepts it).
- An `ota_begin` read after the host's 8 s opens a session without a host
  (`FailureEndsSession` excepts it): the device then waits for data until a restart, or
  takes the next update's lines for them.
- A POST to the upload route without a file, after an upload cut off in the middle, is
  answered for that upload: "ok", and the device restarts (`HttpBare`).
- Off the Wi-Fi, the pattern of the device hides the state it was asked for, and
  `get_state` over the cable returns that state: IN_CALL set before is reported and not
  shown, and the helper has no reason to write it again (`CallReachesLight` excepts it).
- Two hooks may send their colours in the order opposite to their saves
  (`claude_light.py:234` is outside the lock), although the v2 design document says
  (line 87) that the light is red while either works.
- A manual IN_CALL outside a call is undone one tick later, where the comment at
  `main.py:185` leaves it alone; and a pick in mid-call is overwritten and may not be
  restored, where the helper's `README.md:82` promises that it will be.
- The last network removed while in use and added again leaves the error pattern on a
  working link (`main.cpp:266`).
- `transport.py:12` promises the active channel; a read over HTTP that raises
  leaves the former mode in place. `keepalive` passes on what is neither a network
  nor an authentication error, and `_poll_forever` calls it outside its `try`: the
  worker thread ends, with the tray icon still there (`CallIsShown` and `CallIsCleared`
  speak of a thread that has not). The dashboard's `_serial` takes `ports[0]`, although
  `transport.py:154` says not to trust the position.
- Of two updates under way the first to end lowers the flags under the other, against
  the comments at `tray.py:635` and `tray.py:822`; "Resume" during an update lets the loop
  on the port, and the `finally` of an update lifts a pause of the user's.
  The version check, the factory reset and all of Claude mode (hooks, the toggle at
  `tray.py:287`, `webui_bridge.py:285`) look at no flag, though `tray.py:635` and
  `tray.py:822` say that the port is kept for the update.
- `icon.stop()` lets the main thread return before the batch file is started; the
  application is then gone. The batch file is written as ASCII after the icon has
  gone, which fails for other temporary paths. `startup.py:85` says that its defaults
  must never take down the app, and the write of the sentinel in the `finally` can.
  Between the guard and the tray nothing catches what is no `BusyLightAuthError`,
  `BusyLightNetworkError`, `FileNotFoundError` or `ValueError` (`StartFailed`).
- The wizard calls an attempt failed although the device has saved it when
  `server_started` is read and `config_saved` was not, when the port dies with the
  restart, when the poll finds the process gone just before it looks at the queue
  again, and when 90 s pass. The rest of a ping that was cut off comes back as an
  error and is shown as a rejection. A reset is acknowledged before it is done and
  has no deadline in the window. A look-up thread that raises (`Zeroconf()` at
  `serial_protocol.py:86`) never calls `_finish_success`, and the window stays busy.

## 6. Not modelled, and the plan

In this order:

1. `Auth`: session table, eviction, lockout, on a clock modulo 2^w.
2. `Schedule`, `LedEngine`, `Mqtt`: small machines on the same clock (the retries of
   `Connectivity` would join them).
3. The installation of the hooks by `claude_hooks.py`, and `update_config` of the
   settings window.

Theorems planned: the invariants of `Auth`.

Left out for good: icons, windows, registry entries beyond the Run key, web assets,
microphone detection of each platform and release scripts, which are I/O without a
protocol between them (the components list gives the reason for each).
