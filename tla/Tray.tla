-------------------------------- MODULE Tray --------------------------------
(***************************************************************************)
(* The threads of the tray application (tray.py, webui_bridge.py) and what *)
(* they share: the COM port, which Windows opens for one of them at a time, *)
(* the flags _paused and WebUiBridge.suspended that keep the loop and the  *)
(* dashboard off it during an update, the files an update is downloaded    *)
(* to, and the offer of a firmware update in the menu.                     *)
(*                                                                         *)
(* An updater is a thread of _firmware_ota_via_usb() or _factory_reflash(): *)
(* each click of the user starts one.  The transfer itself is OtaLink's.   *)
(***************************************************************************)
EXTENDS Naturals

CONSTANTS
  Updaters,  \* update threads that may run at once
  MaxFaults  \* bound on what goes wrong

None == "none"

\* The other users of the port: the worker thread; a request of the dashboard that
\* goes through _serial(); the version check or the factory reset of the menu; and
\* Claude mode, that is the processes of its hooks, its toggle in the menu and its
\* route of the dashboard, which all end in _best_effort_set().
Clients == {"poll", "dash", "menu", "claude"}

\* Those that look at a flag before they go for the port.
Lookers == {"poll", "dash"}

ASSUME TrayAssumption ==
  /\ Updaters \cap (Clients \cup {None}) = {}
  /\ MaxFaults \in Nat

VARIABLES
  owner,      \* who has the port open
  paused,     \* _paused
  suspended,  \* WebUiBridge.suspended
  at,         \* where each client is
  upd,        \* where each updater is
  fw,         \* the firmware of the device: old, new, or none that boots
  keyOk,      \* does the device hold the key the releases are signed with?
  pending,    \* is there a _pending_firmware_update?
  read,       \* the version the check has read from the device
  wish,       \* has the user paused the loop?
  early,      \* the clients the last update to raise the flags found at work
  misled,     \* was the offer made, or left, on what is no longer true?
  faults      \* how many faults have struck

flags == <<paused, suspended>>
device == <<fw, keyOk>>
menu == <<pending, read, misled>>
vars == <<owner, flags, at, upd, device, menu, wish, early, faults>>

Kinds == {"ota", "reflash"}
Stages == {"idle", "get", "open", "stream", "clear", "forget"}

\* auto: a reflash an update fell back to; alone: no other update has been
\* flashing since this one raised the flags, nor the user resumed the loop.
Updates == [at : Stages, kind : Kinds, ok : BOOLEAN,
            auto : BOOLEAN, alone : BOOLEAN]

TypeOK ==
  /\ owner \in Clients \cup Updaters \cup {None}
  /\ {paused, suspended, keyOk, pending, wish, misled} \subseteq BOOLEAN
  /\ at \in [Clients -> {"idle", "go", "in", "ask"}]
  /\ upd \in [Updaters -> Updates]
  /\ fw \in {"old", "new", None} /\ read \in {"old", "new", None}
  /\ early \subseteq Lookers
  /\ faults \in 0..MaxFaults

NoUpdate == [at |-> "idle", kind |-> "ota", ok |-> FALSE, auto |-> FALSE,
             alone |-> FALSE]

Init ==
  /\ owner = None /\ paused = FALSE /\ suspended = FALSE
  /\ at = [c \in Clients |-> "idle"]
  /\ upd = [u \in Updaters |-> NoUpdate]
  /\ fw \in {"old", "new"} /\ keyOk \in BOOLEAN
  /\ pending = FALSE /\ read = None /\ misled = FALSE
  /\ wish = FALSE /\ early = {} /\ faults = 0

Fault == faults < MaxFaults /\ faults' = faults + 1

Flashing(u) == upd[u].at \in {"open", "stream", "clear"}

\* It is still to lower the flags.
Lowers(u) == Flashing(u) \/ upd[u].auto
Underway == {u \in Updaters : upd[u].at # "idle"}

-----------------------------------------------------------------------------
(* The clients of the port.                                                *)

\* mutant: the dashboard does not look at the flag
MayOpenAlways(c) == c = "poll" => ~paused \/ ~suspended

\* What a client looks at before it opens the port: a paused loop only sends
\* keepalive(), the menu's commands and Claude mode look at nothing.
MayOpen(c) == /\ c = "dash" => ~suspended
              /\ c = "poll" => ~paused \/ ~suspended

\* A poll, or a request.
Look(c) ==
  /\ c \in Lookers /\ at[c] = "idle" /\ MayOpen(c)
  /\ at' = [at EXCEPT ![c] = "go"]
  /\ UNCHANGED <<owner, flags, upd, device, menu, wish, early, faults>>

\* One that looks at nothing, on a check, a click or a hook, just opens it.
OpenPort(c) ==
  /\ at[c] = IF c \in Lookers THEN "go" ELSE "idle"
  /\ owner = None
  /\ owner' = c /\ at' = [at EXCEPT ![c] = "in"]
  /\ UNCHANGED <<flags, upd, device, menu, wish, early, faults>>

\* SerialUnavailable: an error for the dashboard, HTTP for the loop.  (The others
\* give up as well.)
PortBusy(c) ==
  /\ at[c] = "go" /\ owner # None
  /\ at' = [at EXCEPT ![c] = "idle"] /\ early' = early \ {c}
  /\ UNCHANGED <<owner, flags, upd, device, menu, wish, faults>>

ClosePort(c) ==
  /\ at[c] = "in"
  /\ owner' = None
  /\ at' = [at EXCEPT ![c] = "idle"] /\ early' = early \ {c}
  /\ UNCHANGED <<flags, upd, device, menu, wish, faults>>

\* The check has its answer, which holds no version when it is the answer to an
\* earlier command.  A device that does not boot gives none.
Answered ==
  /\ at["menu"] = "in" /\ fw # None
  /\ owner' = None
  /\ at' = [at EXCEPT !["menu"] = "ask"]
  /\ \/ read' = fw /\ UNCHANGED faults
     \/ read' = None /\ Fault
  /\ UNCHANGED <<flags, upd, device, pending, misled, wish, early>>

\* mutant: an offer once made is never taken back
AskSticky ==
  /\ at["menu"] = "ask"
  /\ at' = [at EXCEPT !["menu"] = "idle"]
  /\ read' = None
  /\ \/ /\ pending' = (pending \/ read # "new")
        /\ misled' = (read # fw) /\ UNCHANGED faults
     \/ Fault /\ UNCHANGED <<pending, misled>>
  /\ UNCHANGED <<owner, flags, upd, device, wish, early>>

\* _check_firmware_update() asks GitHub, and offers the update or takes the
\* offer back.
Ask ==
  /\ at["menu"] = "ask"
  /\ at' = [at EXCEPT !["menu"] = "idle"]
  /\ read' = None
  /\ \/ /\ pending' = (read # "new")
        /\ misled' = (read # fw) /\ UNCHANGED faults
     \/ Fault /\ UNCHANGED <<pending, misled>>
  /\ UNCHANGED <<owner, flags, upd, device, wish, early>>

-----------------------------------------------------------------------------
(* The updaters.                                                           *)

\* A click: the release is looked up on GitHub.
Start(u, kind) ==
  /\ upd[u].at = "idle"
  /\ upd' = [upd EXCEPT ![u] = [NoUpdate EXCEPT !.at = "get", !.kind = kind]]
  /\ UNCHANGED <<owner, flags, at, device, menu, wish, early, faults>>

\* The image is there; _paused = True, set_suspended(True).
Raise(u) ==
  /\ upd[u].at = "get"
  /\ paused' = TRUE /\ suspended' = TRUE
  /\ LET alone == \A v \in Updaters \ {u} : ~Lowers(v) IN
     upd' = [v \in Updaters |->
               IF v = u THEN [upd[u] EXCEPT !.at = "open", !.alone = alone]
               ELSE [upd[v] EXCEPT !.alone = FALSE]]
  /\ early' = {c \in Lookers : at[c] # "idle"}
  /\ UNCHANGED <<owner, at, device, menu, wish, faults>>

Lower == paused' = FALSE /\ suspended' = FALSE /\ early' = {}

\* It has no more to flash: finally, or the offer to take back, is left.
EndsWith(u, stage, ok) ==
  upd' = [upd EXCEPT ![u] = [NoUpdate EXCEPT
            !.at = stage, !.ok = ok, !.auto = stage # "idle" /\ upd[u].auto]]

\* The lookup or the download fails; behind a fallback there is a finally.
DownloadFails(u) ==
  /\ upd[u].at = "get" /\ Fault
  /\ EndsWith(u, IF upd[u].auto THEN "clear" ELSE "idle", FALSE)
  /\ UNCHANGED <<owner, flags, at, device, menu, wish, early>>

Opened(u) ==
  /\ upd[u].at = "open" /\ owner = None
  /\ owner' = u
  /\ upd' = [upd EXCEPT ![u].at = "stream"]
  /\ UNCHANGED <<flags, at, device, menu, wish, early, faults>>

\* mutant: a reflash that fails returns with the flags up
FailsKeepingFlags(u) ==
  /\ UNCHANGED <<flags, early>>
  /\ EndsWith(u, IF upd[u].kind = "ota" \/ upd[u].auto THEN "clear" ELSE "idle", FALSE)

\* An update leaves the flags to its finally; a reflash lowers them itself.
Fails(u) ==
  /\ IF upd[u].kind = "ota" THEN UNCHANGED <<flags, early>> ELSE Lower
  /\ EndsWith(u, IF upd[u].kind = "ota" \/ upd[u].auto THEN "clear" ELSE "idle", FALSE)

CannotOpen(u) ==
  /\ upd[u].at = "open" /\ owner # None
  /\ Fails(u)
  /\ UNCHANGED <<owner, at, device, menu, wish, faults>>

\* The transfer breaks off: the device may have what it needs all the same, and
\* a reflash may leave it without firmware.
Breaks(u) ==
  /\ upd[u].at = "stream" /\ Fault
  /\ owner' = None
  /\ \/ UNCHANGED <<fw, misled>>
     \/ /\ upd[u].kind = "ota" /\ keyOk /\ fw # None
        /\ fw' = "new" /\ misled' = TRUE
     \/ upd[u].kind = "reflash" /\ fw' = None /\ misled' = TRUE
  /\ Fails(u)
  /\ UNCHANGED <<at, keyOk, pending, read, wish>>

\* The device has verified the image and starts it.
Updated(u) ==
  /\ upd[u].at = "stream" /\ upd[u].kind = "ota"
  /\ fw # None /\ keyOk
  /\ owner' = None /\ fw' = "new"
  /\ EndsWith(u, "clear", TRUE)
  /\ UNCHANGED <<flags, at, keyOk, menu, wish, early, faults>>

\* A device that does not boot does not answer.
Unanswered(u) ==
  /\ upd[u].at = "stream" /\ upd[u].kind = "ota" /\ fw = None
  /\ owner' = None
  /\ Fails(u)
  /\ UNCHANGED <<at, device, menu, wish, faults>>

\* signature_invalid: the flags are lowered and the reflash begins.
FallsBack(u) ==
  /\ upd[u].at = "stream" /\ upd[u].kind = "ota"
  /\ fw # None /\ ~keyOk
  /\ owner' = None /\ Lower
  /\ upd' = [upd EXCEPT ![u].at = "get", ![u].kind = "reflash", ![u].auto = TRUE]
  /\ UNCHANGED <<at, device, menu, wish, faults>>

\* esptool has written the image, which brings the key of the release.
Reflashed(u) ==
  /\ upd[u].at = "stream" /\ upd[u].kind = "reflash"
  /\ owner' = None /\ Lower
  /\ fw' = "new" /\ keyOk' = TRUE
  /\ EndsWith(u, "forget", TRUE)
  /\ UNCHANGED <<at, menu, wish, faults>>

\* finally
Clear(u) ==
  /\ upd[u].at = "clear"
  /\ Lower
  /\ EndsWith(u, IF upd[u].ok THEN "forget" ELSE "idle", FALSE)
  /\ UNCHANGED <<owner, at, device, menu, wish, faults>>

\* _pending_firmware_update = None, once the release has been installed
Forget(u) ==
  /\ upd[u].at = "forget"
  /\ pending' = FALSE /\ misled' = FALSE
  /\ EndsWith(u, IF upd[u].auto THEN "clear" ELSE "idle", FALSE)
  /\ UNCHANGED <<owner, flags, at, device, read, wish, early, faults>>

-----------------------------------------------------------------------------

\* The item reads "Resume" while _paused is set, by whomever.
TogglePause ==
  /\ paused' = ~paused /\ wish' = ~paused
  /\ upd' = [u \in Updaters |-> [upd[u] EXCEPT !.alone = FALSE]]
  /\ UNCHANGED <<owner, suspended, at, device, menu, early, faults>>

Client(c) == Look(c) \/ OpenPort(c) \/ PortBusy(c) \/ ClosePort(c)

Updating(u) == \/ DownloadFails(u) \/ Raise(u)
               \/ Opened(u) \/ CannotOpen(u) \/ Breaks(u) \/ Updated(u)
               \/ Unanswered(u) \/ FallsBack(u) \/ Reflashed(u)
               \/ Clear(u) \/ Forget(u)

Next == \/ \E c \in Clients : Client(c)
        \/ Answered \/ Ask
        \/ \E u \in Updaters : Updating(u) \/ \E k \in Kinds : Start(u, k)
        \/ TogglePause

\* Every thread goes on.
Fairness == /\ WF_vars(Client("poll")) /\ WF_vars(Ask)
            /\ \A u \in Updaters : WF_vars(Updating(u))

Spec == Init /\ [][Next]_vars /\ Fairness

-----------------------------------------------------------------------------
(* Properties.                                                             *)

\* However updates fail, fall back and overlap, the flags do not outlive them:
\* the dashboard is shut out, and the loop paused without the user's wish, only
\* while some update is flashing.
FlagsComeDown ==
  /\ suspended => \E u \in Updaters : Flashing(u)
  /\ paused => wish \/ \E u \in Updaters : Flashing(u)

\* An update that flashes alone, the user leaving the loop paused, meets none of
\* those on the port that look at the flags, unless they looked before it raised
\* them.  (With two updates under way the first to end lowers the flags of the
\* other.)  More the flags cannot promise: whoever is not of the Lookers - the
\* version check, the factory reset and all of Claude mode - opens the port in the
\* middle of it.
PortIsKept ==
  \A u \in Updaters : upd[u].at \in {"open", "stream"} /\ upd[u].alone =>
    \A c \in Lookers : at[c] \in {"go", "in"} => c \in early

\* Once no update is under way the offer comes right, and stays right, if the
\* hourly check gets an answer from the device again and again.
OfferSettles ==
  <>[](Underway = {} /\ fw # None) /\ []<>(at["menu"] = "ask")
    => <>[](pending = (fw = "old"))
=============================================================================
