---------------------------- MODULE Connectivity ----------------------------
(***************************************************************************)
(* The device outside a firmware update: loop() of firmware/src/main.cpp   *)
(* reads one serial command, rebuilds the list of networks it tries,       *)
(* drives Wi-Fi and the setup portal, serves the HTTP API and saves.  Five *)
(* writers share the LED: serial commands, the API (and MQTT and the       *)
(* schedule through it), the Wi-Fi error overlay, the portal and setup().  *)
(* Time is left to the timers: a timer may fire at any moment after it was *)
(* started, and fires some day.                                            *)
(***************************************************************************)
EXTENDS Naturals, FiniteSets

CONSTANTS
  SSID,       \* the networks anyone may name
  State,      \* the states a user can pick, WIFI_ERROR among them
  MaxNets,    \* ConfigStore::kMaxWifiNetworks
  MaxOps,     \* bound on the commands and requests that change something
  MaxMoves,   \* bound on the networks appearing and disappearing
  MaxCuts     \* bound on power cuts

Error == "WIFI_ERROR"
Default == "AVAILABLE"
None == "none"

ASSUME ConnectivityAssumption ==
  /\ {Error, Default} \subseteq State /\ None \notin SSID
  /\ IsFiniteSet(SSID)
  /\ {MaxNets, MaxOps, MaxMoves, MaxCuts} \subseteq Nat /\ MaxNets > 0

VARIABLES
  nvs,      \* the flash: [nets, state]
  dev,      \* the RAM of the device, gone at a restart
  pc,       \* where loop() is
  timers,   \* the timers that have run out
  port,     \* HostPresence: [dtr, recent]
  link,     \* the network the device is associated to, or None
  air,      \* the networks in range
  owned,    \* has a host been there ever since it last set the state?
  spent     \* how much of each bound is used

vars == <<nvs, dev, pc, timers, port, link, air, owned, spent>>

Timer == {"retry", "grace", "portal", "debounce"}
Pending == {"nothing", "reboot", "reset"}

Store == {n \in [nets : SUBSET SSID, state : State] :
            Cardinality(n.nets) <= MaxNets}
Device == [nets : SUBSET SSID, aps : SUBSET SSID, listDirty : BOOLEAN,
           kicked : BOOLEAN, wasUp : BOOLEAN, overlay : BOOLEAN,
           portal : BOOLEAN, server : BOOLEAN, led : State, last : State,
           dirty : BOOLEAN, pending : Pending]
Budget == [ops : 0..MaxOps, moves : 0..MaxMoves, cuts : 0..MaxCuts]

\* Types, and the capacity of the store: no command gets past the limit.
TypeOK ==
  /\ nvs \in Store /\ dev \in Device
  /\ pc \in {"serial", "net", "serve", "persist"}
  /\ timers \subseteq Timer
  /\ port \in [dtr : BOOLEAN, recent : BOOLEAN]
  /\ link \in SSID \cup {None} /\ air \subseteq SSID /\ owned \in BOOLEAN
  /\ spent \in Budget

Spend(what, bound) == /\ spent[what] < bound
                      /\ spent' = [spent EXCEPT ![what] = @ + 1]

(***************************************************************************)
(* Helpers of the code.                                                    *)
(***************************************************************************)
Present(p) == p.dtr \/ p.recent

Load(state) == IF state = Error THEN Default ELSE state

\* WiFiMulti.run tries the networks of its own list, not of the saved one.
Joined(aps) == (aps \cap air) \cup {None}

Lit(d, s) == [d EXCEPT !.led = s]
\* Slip: the overlay does not ask for the host.
OverlaidAlways(d, p) == IF d.overlay THEN d
                        ELSE [d EXCEPT !.led = Error, !.overlay = TRUE]

Overlaid(d, p) == IF d.overlay \/ Present(p) THEN d
                  ELSE [d EXCEPT !.led = Error, !.overlay = TRUE]

ApplyState(s) ==
  /\ dev' = [dev EXCEPT !.led = s, !.last = s,
                        !.dirty = @ \/ dev.last # s]
  /\ timers' = IF dev.last = s THEN timers ELSE timers \ {"debounce"}

(***************************************************************************)
(* setup() on what the flash holds.  A configured device tries to join at  *)
(* once; the timer of its next try starts, or counts as due when none was  *)
(* set.                                                                    *)
(***************************************************************************)
Fresh(store) ==
  [nets |-> store.nets, aps |-> store.nets, listDirty |-> FALSE,
   kicked |-> store.nets # {}, wasUp |-> FALSE, overlay |-> FALSE,
   portal |-> FALSE, server |-> FALSE,
   led |-> IF store.nets = {} THEN Error ELSE Default,
   last |-> Load(store.state), dirty |-> FALSE, pending |-> "nothing"]

Restart(store) ==
  /\ nvs' = store /\ dev' = Fresh(store) /\ pc' = "serial"
  /\ timers' = IF store.nets = {} THEN {"retry"} ELSE {}
  /\ port' = [dtr |-> FALSE, recent |-> FALSE]
  /\ link' \in Joined(store.nets)

Blank == [nets |-> {}, state |-> Default]

Init ==
  /\ nvs \in {n \in Store : n.state = Default}
  /\ dev = Fresh(nvs) /\ pc = "serial"
  /\ timers = IF nvs.nets = {} THEN {"retry"} ELSE {}
  /\ port = [dtr |-> FALSE, recent |-> FALSE]
  /\ air \in SUBSET SSID /\ link \in Joined(nvs.nets) /\ owned = FALSE
  /\ spent = [ops |-> 0, moves |-> 0, cuts |-> 0]

(***************************************************************************)
(* The list of networks: ConfigStore keeps it in the flash, gConfig a copy *)
(* in RAM, and WiFiMulti the list it tries, rebuilt when listDirty is set. *)
(***************************************************************************)
AddNetwork(nets, s) == IF s \in nets \/ Cardinality(nets) < MaxNets
                       THEN nets \cup {s} ELSE nets

Edit(nets) ==
  /\ nvs' = [nvs EXCEPT !.nets = nets]
  /\ dev' = [dev EXCEPT !.nets = nets, !.listDirty = TRUE]

AddNet(s) == /\ s \in AddNetwork(nvs.nets, s)
             /\ Edit(AddNetwork(nvs.nets, s))
RemoveNet(s) == /\ s \in nvs.nets
                /\ Edit(nvs.nets \ {s})

(***************************************************************************)
(* One serial line at most is read per turn, and every line counts as a    *)
(* sign of the host.  A refused command changes nothing more than that.    *)
(***************************************************************************)
Turn(from, to) == pc = from /\ pc' = to

Poll == /\ Turn("serial", "net")
        /\ \E dtr \in BOOLEAN : port' = [port EXCEPT !.dtr = dtr]
        /\ UNCHANGED <<nvs, dev, timers, link, air, spent>>

Heard == /\ Turn("serial", "net")
         /\ \E dtr \in BOOLEAN : port' = [dtr |-> dtr, recent |-> TRUE]
         /\ UNCHANGED <<link, air>>

SerialPing == /\ Heard /\ UNCHANGED <<nvs, dev, timers, spent>>

SerialSetState(s) == /\ Heard /\ Spend("ops", MaxOps)
                     /\ ApplyState(s) /\ UNCHANGED nvs

SerialEdit(s) == /\ Heard /\ Spend("ops", MaxOps)
                 /\ AddNet(s) \/ RemoveNet(s)
                 /\ UNCHANGED timers

\* The result of addNetwork is not looked at: a full list stays as it is.
SerialSetConfig(s) ==
  /\ pc = "serial" /\ Spend("ops", MaxOps)
  /\ Restart([nvs EXCEPT !.nets = AddNetwork(@, s)])
  /\ UNCHANGED air

SerialReset == /\ pc = "serial" /\ Spend("ops", MaxOps)
               /\ Restart(Blank) /\ UNCHANGED air

(***************************************************************************)
(* The dirty check and networkingTick(): one action per way through it.    *)
(***************************************************************************)
\* Slip: the flag is cleared and the table left as it is.
RefreshedStale == IF dev.listDirty
                  THEN [dev EXCEPT !.listDirty = FALSE, !.kicked = FALSE]
                  ELSE dev

Refreshed == IF dev.listDirty
             THEN [dev EXCEPT !.listDirty = FALSE, !.aps = dev.nets,
                              !.kicked = FALSE]
             ELSE dev
Due == IF dev.listDirty THEN timers \cup {"retry"} ELSE timers

\* Slip: the server's part of the turn is skipped in the portal.
NetTurnOnly(d) == /\ pc = "net" /\ dev' = d
                  /\ pc' = IF d.server /\ ~d.portal THEN "serve" ELSE "serial"
                  /\ UNCHANGED <<nvs, port, air, spent>>

NetTurn(d) == /\ pc = "net" /\ dev' = d
              /\ pc' = IF d.server THEN "serve" ELSE "serial"
              /\ UNCHANGED <<nvs, port, air, spent>>

\* Slip: the sense of the host guard is turned round.
PortalTimesOutWithHost == "portal" \in timers /\ Present(port)

PortalTimesOut == "portal" \in timers /\ ~Present(port)

PortalIdle == /\ dev.portal /\ ~PortalTimesOut
              /\ NetTurn(Refreshed) /\ timers' = Due /\ UNCHANGED link

PortalSave(s) == /\ pc = "net" /\ dev.portal /\ Spend("ops", MaxOps)
                 /\ Restart([nvs EXCEPT !.nets = AddNetwork(@, s)])
                 /\ UNCHANGED air

PortalTimeout == /\ pc = "net" /\ dev.portal /\ PortalTimesOut
                 /\ Restart(nvs) /\ UNCHANGED <<air, spent>>

Unconfigured == /\ ~dev.portal /\ dev.nets = {}
                /\ NetTurn(Overlaid(Refreshed, port))
                /\ timers' = Due /\ UNCHANGED link

Station == ~dev.portal /\ dev.nets # {}

\* Slip: the overlay is dropped and the light not restored.
WelcomedDark(d) == IF d.wasUp THEN d
                   ELSE [d EXCEPT !.wasUp = TRUE, !.overlay = FALSE]

\* The first turn of a new association ends the overlay; the first ever
\* starts the server, which shows the last state.
Welcomed(d) == IF d.wasUp THEN d
               ELSE [d EXCEPT !.wasUp = TRUE, !.overlay = FALSE,
                              !.led = IF d.overlay THEN d.last ELSE @]
Served(d) == IF d.server THEN d ELSE [d EXCEPT !.server = TRUE, !.led = d.last]

Linked == /\ Station /\ link # None
          /\ NetTurn(Served(Welcomed(Refreshed)))
          /\ timers' = (Due \cup IF dev.wasUp THEN {} ELSE {"retry"}) \ {"grace"}
          /\ UNCHANGED link

\* The turn that finds the link gone starts over; every turn without a link
\* shows the error, once, unless a host is there.
Unlinked(d) == IF d.wasUp THEN [d EXCEPT !.wasUp = FALSE, !.kicked = FALSE]
               ELSE d
Alone == Overlaid(Unlinked(Refreshed), port)
RetryDue == dev.wasUp \/ "retry" \in Due

StartStation == /\ NetTurn([Alone EXCEPT !.kicked = TRUE])
                /\ link' \in Joined(Refreshed.aps)
                /\ timers' = Due \ {"retry"}

Kick == Station /\ link = None /\ ~Alone.kicked /\ StartStation

Wait == /\ Station /\ link = None /\ Alone.kicked /\ ~RetryDue
        /\ NetTurn(Alone) /\ timers' = Due /\ UNCHANGED link

LastResort == "grace" \in timers /\ ~Present(port)

Retry == /\ Station /\ link = None /\ Alone.kicked /\ RetryDue
         /\ ~LastResort /\ StartStation

EnterPortal == /\ Station /\ link = None /\ Alone.kicked /\ RetryDue
               /\ LastResort
               /\ NetTurn(Lit([Alone EXCEPT !.portal = TRUE], Error))
               /\ timers' = Due \ {"portal"} /\ UNCHANGED link

(***************************************************************************)
(* The server's part of the turn.  MQTT and the schedule set the state the *)
(* way the API does; what the API does needs a network.                    *)
(***************************************************************************)
OtherSets(s) == /\ pc = "serve" /\ Spend("ops", MaxOps)
                /\ ApplyState(s)
                /\ UNCHANGED <<nvs, pc, port, link, air>>

Request == /\ Turn("serve", "persist") /\ link # None /\ Spend("ops", MaxOps)
           /\ UNCHANGED <<timers, port, link, air>>

ApiAdd(s) == Request /\ AddNet(s)

\* The network in use is removed only with force.
ApiRemove(s, force) == /\ Request /\ RemoveNet(s)
                       /\ force \/ s # link

ApiAsks(what) == /\ Request /\ UNCHANGED nvs
                 /\ dev' = [dev EXCEPT !.pending = what]

NoRequest == /\ Turn("serve", "persist")
             /\ UNCHANGED <<nvs, dev, timers, port, link, air, spent>>

\* persistStateIfDebounced, then handlePendingDeviceActions.
SaveDue == dev.dirty /\ "debounce" \in timers
\* Slip: the state is not written.
SavedNot == nvs

Saved == IF SaveDue THEN [nvs EXCEPT !.state = dev.last] ELSE nvs

Persist ==
  /\ pc = "persist" /\ UNCHANGED <<air, spent>>
  /\ \/ /\ dev.pending = "nothing"
        /\ nvs' = Saved /\ dev' = [dev EXCEPT !.dirty = @ /\ ~SaveDue]
        /\ pc' = "serial" /\ UNCHANGED <<timers, port, link>>
     \/ dev.pending = "reboot" /\ Restart(Saved)
     \/ dev.pending = "reset" /\ Restart(Blank)

(***************************************************************************)
(* Time, the air and the supply.  The grace period is restarted by every   *)
(* turn with a link, so it runs out only without one; nobody looks at the  *)
(* time of the next try either until then.  A cut in the middle of         *)
(* saveNetworks, which removes every slot before it writes them again,     *)
(* leaves some of the networks that were there.                            *)
(***************************************************************************)
Running(t) == CASE t = "portal" -> dev.portal
                [] t = "debounce" -> dev.dirty
                [] OTHER -> ~dev.portal /\ ~(dev.nets # {} /\ link # None)

Elapse(t) == /\ Running(t) /\ t \notin timers /\ timers' = timers \cup {t}
             /\ UNCHANGED <<nvs, dev, pc, port, link, air, spent>>

Lapse == /\ port.recent /\ port' = [port EXCEPT !.recent = FALSE]
         /\ UNCHANGED <<nvs, dev, pc, timers, link, air, spent>>

Fade(s) == /\ s \in air /\ air' = air \ {s} /\ Spend("moves", MaxMoves)
           /\ link' = IF link = s THEN None ELSE link
           /\ UNCHANGED <<nvs, dev, pc, timers, port>>

Appear(s) == /\ s \notin air /\ air' = air \cup {s} /\ Spend("moves", MaxMoves)
             /\ UNCHANGED <<nvs, dev, pc, timers, port, link>>

PowerCut == /\ Spend("cuts", MaxCuts) /\ Restart(nvs) /\ UNCHANGED air

CutWhileSaving ==
  /\ pc \in {"serial", "serve"} \/ (pc = "net" /\ dev.portal)
  /\ Spend("cuts", MaxCuts) /\ UNCHANGED air
  /\ \E kept \in SUBSET nvs.nets : Restart([nvs EXCEPT !.nets = kept])

(***************************************************************************)
(* The specification.                                                      *)
(***************************************************************************)
SerialStep == \/ Poll \/ SerialPing \/ SerialReset
              \/ \E s \in SSID : SerialEdit(s) \/ SerialSetConfig(s)

NetStep == \/ PortalIdle \/ PortalTimeout \/ Unconfigured \/ Linked
           \/ Kick \/ Wait \/ Retry \/ EnterPortal

ServeStep == \/ NoRequest \/ Persist
             \/ \E s \in State : OtherSets(s)
             \/ \E s \in SSID :
                  ApiAdd(s) \/ ApiRemove(s, TRUE) \/ ApiRemove(s, FALSE)
             \/ ApiAsks("reboot") \/ ApiAsks("reset")

WorldStep == \/ \E t \in Timer : Elapse(t)
             \/ Lapse \/ PowerCut \/ CutWhileSaving
             \/ \E s \in SSID : PortalSave(s) \/ Fade(s) \/ Appear(s)

Next == \/ /\ SerialStep \/ NetStep \/ ServeStep \/ WorldStep
           /\ owned' = (owned /\ Present(port'))
        \/ /\ \E s \in State : SerialSetState(s)
           /\ owned' = TRUE

\* loop() runs, timers fire, and one who tries again and again to join a
\* network in range joins it.
OwnedNext(A) == A /\ owned' = (owned /\ Present(port'))
Joins == OwnedNext(NetStep) /\ link = None /\ link' # None

Fairness ==
  /\ WF_vars(OwnedNext(Poll \/ NetStep \/ NoRequest \/ Persist))
  /\ \A t \in Timer : WF_vars(OwnedNext(Elapse(t)))
  /\ SF_vars(Joins)

Spec == Init /\ [][Next]_vars /\ Fairness

(***************************************************************************)
(* Properties.                                                             *)
(***************************************************************************)
\* A state set over USB stays on the light for as long as the host is there:
\* no overlay, portal or reconnection takes the light away from it.
UsbOwnsLight == owned => dev.led = dev.last

\* Once the server runs, the light differs from the state the device reports
\* only under an overlay that is on record to be taken back, or in the portal.
LightIsExplained ==
  dev.server /\ ~dev.portal /\ ~dev.overlay => dev.led = dev.last

\* The list Wi-Fi tries, the list in RAM and the list in the flash agree, but
\* for a change the loop still has to pick up: no removed network is joined
\* again, and none is saved that is never tried.
ListsAgree == /\ dev.nets = nvs.nets
              /\ ~dev.listDirty => dev.aps = dev.nets

\* Nothing to save means that a restart brings back the state of now.
CleanIsSaved == ~dev.dirty => Load(nvs.state) = Load(dev.last)

\* A device left alone with a saved network in range always gets back on it:
\* whatever roaming, portals and restarts came before.
Rejoins == <>[](~Present(port) /\ dev.nets \cap air # {}) => []<>(link # None)

\* A new state reaches the flash, unless a restart comes first.
ServedIsSaved == (dev.dirty /\ dev.server) ~> ~dev.dirty
=============================================================================
