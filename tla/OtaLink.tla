------------------------------ MODULE OtaLink ------------------------------
(***************************************************************************)
(* A firmware update over the USB cable, both ends: the helper's           *)
(* SerialClient.update_firmware() and the device's serial session, joined  *)
(* by the two directions of the port.  Data reach the device as units, and *)
(* the device alone decides whether a unit is image, signature or text: a  *)
(* command line that arrives in mid-session is taken for data, and data    *)
(* that arrive after the session are taken for a command line.             *)
(*                                                                         *)
(* Timeouts of the host (8 s, 20 s) are long against a pass of the loop in *)
(* a session (1 ms).  Outside one a pass may block for seconds, on the     *)
(* Wi-Fi, the broker or a request: then the host gives up an ota_begin the *)
(* device has still to read.                                               *)
(***************************************************************************)
EXTENDS FirmwareUpdate

CONSTANTS
  Releases,   \* the <<image, signature>> pairs a host may try to install
  Chunk,      \* CHUNK, in units
  Attempts,   \* bound on the updates started
  Deaths,     \* bound on the host processes killed in mid-update
  Pings,      \* bound on the pings of the helper's port probe
  Beacons,    \* bound on the mqtt_connected lines
  PowerCuts   \* bound on the power cuts

ASSUME LinkAssumption ==
  /\ Chunk \in Nat \ {0}
  /\ {Attempts, Deaths, Pings, Beacons, PowerCuts} \subseteq Nat
  /\ Releases \subseteq Seq(Byte) \X Signature
  \* MaxBytes bounds what any host announces
  /\ \A r \in Releases : Len(r[1]) <= MaxBytes

VARIABLES
  rx,       \* what the host has written and the device has not read
  tx,       \* the lines the device has printed and the host has not read
  hostPc,   \* where update_firmware() is
  release,  \* the files it was given
  sent,     \* its local "written"
  hostErr,  \* the error it raised
  spent,    \* how much of each bound is used
  disturbed \* history: was a host killed, misled by somebody's line, or too
            \* early or too late, so that a session may have no host?

hostVars == <<hostPc, release, sent, hostErr>>
linkVars == <<fwVars, rx, tx, hostVars, spent, disturbed>>

Waiting == {"ackBegin", "ackReady", "final"}
Updating == Waiting \cup {"stream", "drain"}
Kind == {"raw", "ota_begin", "ping"}
Item(kind, unit, size) == [kind |-> kind, unit |-> unit, size |-> size]
\* Text is made of units like any other data; 0 stands for them all.
Command(kind, size) == <<Item(kind, 0, size)>>
Raw(units) == [i \in DOMAIN units |-> Item("raw", units[i], 0)]

Image == release[1]
Sig == release[2]

LinkInit ==
  /\ Init
  /\ rx = <<>> /\ tx = <<>>
  /\ hostPc = "idle" /\ release \in Releases /\ sent = 0 /\ hostErr = "none"
  /\ spent = [attempts |-> 0, deaths |-> 0, pings |-> 0, beacons |-> 0, cuts |-> 0]
  /\ disturbed = FALSE

Spend(what, bound) == /\ spent[what] < bound
                      /\ spent' = [spent EXCEPT ![what] = @ + 1]

-----------------------------------------------------------------------------
(* The device.  What it prints with no port open is lost.                  *)

Took(n) == rx' = SubSeq(rx, n + 1, Len(rx))
Units(n) == [i \in 1..n |-> rx[i].unit]
Emit == tx' = IF hostPc \in Updating THEN tx \o out' ELSE <<>>
Answer(lines) == /\ LineTurn /\ out' = lines
                 /\ UNCHANGED <<sessionVars, libVars, bootImage, httpVars, restarting>>

DevData == \E n \in 1..Len(rx) :
  /\ n <= MaxRead
  /\ ReadSignature(Units(n)) \/ ReadImage(Units(n))
  /\ Took(n) /\ Emit
  /\ UNCHANGED <<hostVars, spent, disturbed>>

DevCommand ==
  /\ rx # <<>>
  /\ \/ Head(rx).kind = "ota_begin" /\ OtaBegin(Head(rx).size)
     \/ Head(rx).kind = "ping" /\ Answer(<<"pong">>)
  /\ Took(1) /\ Emit
  /\ UNCHANGED <<hostVars, spent, disturbed>>

\* readStringUntil('\n') over left-over data: it stops at a newline among
\* them, at the end of what is there (1 s timeout), or takes the next command
\* line along; the text is no JSON, or blank.
DevJunk == \E n \in 1..Len(rx) :
  /\ \A i \in 1..n : rx[i].kind # "raw" => i = n /\ n > 1
  /\ Answer(<<"invalid_json">>) \/ Answer(<<>>)
  /\ Took(n) /\ Emit
  /\ UNCHANGED <<hostVars, spent, disturbed>>

\* mqtt_bridge.cpp announces a connection whenever the broker lets it in.
DevBeacon ==
  /\ Spend("beacons", Beacons)
  /\ Answer(<<"mqtt_connected">>) /\ Emit
  /\ disturbed' = (disturbed \/ hostPc \in Updating)
  /\ UNCHANGED <<rx, hostVars>>

\* The port vanishes with the device: the host gets a SerialException.
PortLost ==
  /\ rx' = <<>> /\ tx' = <<>>
  /\ hostPc' = IF hostPc \in Updating THEN "failed" ELSE hostPc
  /\ hostErr' = IF hostPc \in Updating THEN "port_lost" ELSE hostErr
  /\ disturbed' = FALSE
  /\ UNCHANGED <<release, sent>>

DevRestart == Restart /\ PortLost /\ UNCHANGED spent
DevPowerCut == Spend("cuts", PowerCuts) /\ PowerCut /\ PortLost

Device == DevData \/ DevCommand \/ DevJunk \/ DevBeacon \/ DevRestart \/ DevPowerCut

-----------------------------------------------------------------------------
(* The host.                                                               *)

\* A new update is a user's doing, and downloads the release first: by then the
\* device has read what the last one left, though perhaps not every ping since.
\* Opening the port drops the lines printed so far.
HostBegin(r) ==
  /\ hostPc \notin Updating
  /\ IF IsActive THEN rx = <<>> ELSE \A i \in 1..Len(rx) : rx[i].kind = "ping"
  /\ Spend("attempts", Attempts)
  /\ hostPc' = "ackBegin" /\ release' = r /\ sent' = 0 /\ hostErr' = "none"
  /\ rx' = rx \o Command("ota_begin", Len(r[1])) /\ tx' = <<>>
  /\ disturbed' = ((disturbed /\ IsActive) \/ rx # <<>>)
  /\ UNCHANGED fwVars

\* _read_json_reply() skips the lines of ASYNC_BEACONS
Skipped == {"ota_progress", "ota_finalizing"}
HostSkips == /\ hostPc \in Waiting /\ tx # <<>> /\ Head(tx) \in Skipped
             /\ tx' = Tail(tx)
             /\ UNCHANGED <<fwVars, rx, hostVars, spent, disturbed>>

\* The next line that is not skipped is the reply.
Reply(pc, line) == /\ hostPc = pc /\ tx # <<>> /\ Head(tx) = line
                   /\ tx' = Tail(tx)
                   /\ UNCHANGED <<fwVars, release, sent, spent, disturbed>>

HostSignature == /\ Reply("ackBegin", "ota_awaiting_sig")
                 /\ hostPc' = "ackReady" /\ rx' = rx \o Raw(Sig)
                 /\ UNCHANGED hostErr

HostReady == /\ Reply("ackReady", "ota_ready")
             /\ hostPc' = "stream"
             /\ UNCHANGED <<rx, hostErr>>

\* mutant: the last reply is not looked at
HostCompleteAny == /\ hostPc = "final" /\ tx # <<>> /\ Head(tx) \notin Skipped
                   /\ tx' = Tail(tx) /\ hostPc' = "ok"
                   /\ UNCHANGED <<fwVars, release, sent, spent, disturbed, rx, hostErr>>

HostComplete == /\ Reply("final", "ota_complete")
                /\ hostPc' = "ok"
                /\ UNCHANGED <<rx, hostErr>>

Wanted == [pc \in Waiting |-> CASE pc = "ackBegin" -> "ota_awaiting_sig"
                                [] pc = "ackReady" -> "ota_ready"
                                [] pc = "final"    -> "ota_complete"]

HostRejected ==
  /\ hostPc \in Waiting /\ tx # <<>>
  /\ Head(tx) \notin Skipped \cup {Wanted[hostPc]}
  /\ Reply(hostPc, Head(tx))
  /\ hostPc' = "failed" /\ hostErr' = Head(tx)
  /\ UNCHANGED rx

\* mutant: the slice starts one unit early after the first chunk
NextChunkOverlap == IF sent + Chunk <= Len(Image)
                    THEN SubSeq(Image, sent + 1, sent + Chunk)
                    ELSE SubSeq(Image, sent, Len(Image) - 1)

NextChunk == SubSeq(Image, sent + 1,
                    IF sent + Chunk <= Len(Image) THEN sent + Chunk ELSE Len(Image))

HostWrites ==
  /\ hostPc = "stream"
  /\ rx' = rx \o Raw(NextChunk)
  /\ sent' = sent + Len(NextChunk)
  /\ hostPc' = "drain"
  /\ UNCHANGED <<fwVars, tx, release, hostErr, spent, disturbed>>

\* Between chunks every line is read and thrown away.
HostDiscards == /\ hostPc = "drain" /\ tx # <<>>
                /\ tx' = Tail(tx)
                /\ UNCHANGED <<fwVars, rx, hostVars, spent, disturbed>>

\* mutant: the loop ends before the short last chunk
HostDrainedEarly ==
  /\ hostPc = "drain" /\ tx = <<>>
  /\ hostPc' = IF sent + Chunk > Len(Image) THEN "final" ELSE "stream"
  /\ UNCHANGED <<fwVars, rx, tx, release, sent, hostErr, spent, disturbed>>

HostDrained ==
  /\ hostPc = "drain" /\ tx = <<>>
  /\ hostPc' = IF sent = Len(Image) THEN "final" ELSE "stream"
  /\ UNCHANGED <<fwVars, rx, tx, release, sent, hostErr, spent, disturbed>>

\* mutant: the deadline is short against the device's work in a session
HostTimesOutEarly ==
  /\ hostPc \in Waiting /\ tx = <<>> /\ ~restarting
  /\ hostPc' = "failed" /\ hostErr' = "timeout"
  /\ disturbed' = (disturbed \/ (hostPc = "ackBegin" /\ rx # <<>>))
  /\ UNCHANGED <<fwVars, rx, tx, release, sent, spent>>

\* In a session the device has read all there is long before a deadline.  Before
\* one, the ota_begin itself may be unread: it is not taken back.
HostTimesOut ==
  /\ hostPc \in Waiting /\ tx = <<>> /\ (IsActive => rx = <<>>) /\ ~restarting
  /\ hostPc' = "failed" /\ hostErr' = "timeout"
  /\ disturbed' = (disturbed \/ (hostPc = "ackBegin" /\ rx # <<>>))
  /\ UNCHANGED <<fwVars, rx, tx, release, sent, spent>>

\* The helper is killed: what the port has not yet carried is gone.
HostDies ==
  /\ hostPc \in Updating
  /\ Spend("deaths", Deaths)
  /\ hostPc' = "dead" /\ tx' = <<>>
  /\ \E n \in 0..Len(rx) : rx' = SubSeq(rx, 1, n)
  /\ disturbed' = TRUE
  /\ UNCHANGED <<fwVars, release, sent, hostErr>>

\* A helper that runs no update probes the port with a ping.  Whether the device
\* has read an earlier line it does not know; data it has.
HostPings ==
  /\ hostPc \notin Updating /\ (IsActive => rx = <<>>)
  /\ Spend("pings", Pings)
  /\ rx' = rx \o Command("ping", 0)
  /\ UNCHANGED <<fwVars, tx, hostVars, disturbed>>

HostStep == \/ HostSkips \/ HostSignature \/ HostReady \/ HostComplete \/ HostRejected
            \/ HostWrites \/ HostDiscards \/ HostDrained \/ HostTimesOut

LinkNext == \/ Device
            \/ HostStep
            \/ \E r \in Releases : HostBegin(r)
            \/ HostDies \/ HostPings

\* The loop runs for ever and restarts once it has decided to; the host
\* process runs as long as it lives.
LinkFairness ==
  /\ WF_linkVars(DevData) /\ WF_linkVars(DevCommand) /\ WF_linkVars(DevJunk)
  /\ WF_linkVars(DevRestart)
  /\ WF_linkVars(HostStep)

LinkSpec == LinkInit /\ [][LinkNext]_linkVars /\ LinkFairness

-----------------------------------------------------------------------------
(* Properties.                                                             *)

\* update_firmware() returns without an exception only when the device will
\* boot the image it was given.
HostSuccessMeansInstalled == hostPc = "ok" => bootImage = Image

\* main.cpp:757: "Skip all background work until OTA finishes or aborts - the
\* device is dedicated to the upload for those few seconds anyway."
SessionEnds == IsActive ~> ~IsActive

\* tray.py:649: "signature_invalid means the device's embedded public key
\* doesn't match the key we signed the release with".  Of a correctly signed
\* release that is never said once its own session has begun, whatever came
\* before it on the port; and before that only when a host left its session
\* behind, which then takes the ota_begin line for its last data.
GenuineVerifies ==
  [][ /\ hostErr # "signature_invalid" /\ hostErr' = "signature_invalid"
      /\ release \in Signed
      => hostPc = "ackBegin" /\ disturbed ]_linkVars

\* A host that has stopped has left no session behind, unless since the device's
\* last start, or since an update that began on a free port, a host was killed,
\* took a line for its answer that was none, or gave up an ota_begin that the
\* device read later.
FailureEndsSession ==
  hostPc \notin Updating /\ IsActive => disturbed

\* Every other session of the device ends (the early return of loop() at
\* main.cpp:759, update_firmware() of serial_client.py): neither end of it waits
\* for the other for ever, whatever came before it.
SessionEndsWithHost ==
  (IsActive /\ ~disturbed) ~> (~IsActive \/ disturbed)
=============================================================================
