----------------------------- MODULE TrayProofs -----------------------------
(***************************************************************************)
(* The flags, the port and the offer of the tray application, for any      *)
(* number of update threads and of faults.                                 *)
(*                                                                         *)
(* An update thread is alone, or it is not: what it may rely on when it is *)
(* (both flags up, and nobody left to lower them) is an invariant.  All    *)
(* its steps but the first move in one way, which Moved describes, and     *)
(* the invariant is shown to survive every such move.                      *)
(***************************************************************************)
EXTENDS Tray, TLAPS

\* An update that is alone has both flags up, and nobody else will lower them.
AloneKnown ==
  \A u \in Updaters : upd[u].at \in {"open", "stream"} /\ upd[u].alone =>
    /\ paused /\ suspended
    /\ \A v \in Updaters \ {u} : ~Lowers(v)

\* It has installed its release, and is still to take the offer back.
Told(u) == upd[u].at = "forget" \/ (upd[u].at = "clear" /\ upd[u].ok)

\* The menu does not offer what the device already runs, unless the device was
\* updated between the check's two questions, or its answer was lost, or the
\* thread that updated it is about to take the offer back.
OfferIsNews ==
  pending /\ fw = "new" => misled \/ \E u \in Updaters : Told(u)

IInv == TypeOK /\ FlagsComeDown /\ AloneKnown /\ PortIsKept /\ OfferIsNews

\* What a step of update thread u may do, but for raising the flags.
Moved(u) ==
  /\ upd' \in [Updaters -> Updates]
  /\ \A v \in Updaters \ {u} : upd'[v] = upd[v]
  /\ upd'[u].at \in {"open", "stream"} /\ upd'[u].alone =>
       /\ upd[u].at \in {"open", "stream"} /\ upd[u].alone
       /\ UNCHANGED <<flags, early>>
  /\ Lowers(u)' => Lowers(u)
  /\ UNCHANGED <<at, wish>>
  /\ \/ Lower /\ Lowers(u)
     \/ UNCHANGED <<flags, early>> /\ (Flashing(u) => Flashing(u)')

\* What such a step may do about the offer.
Offered(u) ==
  \/ ~pending' \/ misled' \/ fw' = None \/ Told(u)'
  \/ UNCHANGED <<pending, misled, fw>> /\ ~Told(u)

USE TrayAssumption DEF None, Lookers

-----------------------------------------------------------------------------

\* What EndsWith leaves of an update.
LEMMA Ending ==
  ASSUME TypeOK, NEW u \in Updaters, NEW stage \in Stages, NEW ok \in BOOLEAN,
         EndsWith(u, stage, ok)
  PROVE  /\ upd' \in [Updaters -> Updates]
         /\ \A v \in Updaters \ {u} : upd'[v] = upd[v]
         /\ upd'[u].at = stage /\ upd'[u].ok = ok /\ ~upd'[u].alone
         /\ upd'[u].auto => upd[u].auto /\ stage # "idle"
BY DEF TypeOK, EndsWith, Updates, NoUpdate, Stages, Kinds

\* A failed update has left the port, and lowered the flags or is about to.
LEMMA Failing ==
  ASSUME TypeOK, NEW u \in Updaters, upd[u].at \in {"open", "stream"}, Fails(u),
         UNCHANGED <<at, wish>>
  PROVE  Moved(u) /\ {paused', suspended'} \subseteq BOOLEAN /\ early' \subseteq Lookers
<1>1. PICK stage \in {"clear", "idle"} :
        /\ EndsWith(u, stage, FALSE)
        /\ stage = "clear" \/ upd[u].kind # "ota"
  BY DEF Fails
<1>2. /\ upd' \in [Updaters -> Updates]
      /\ \A v \in Updaters \ {u} : upd'[v] = upd[v]
      /\ upd'[u].at = stage
  BY <1>1, Ending DEF Stages
<1>3. Lowers(u)
  BY DEF Lowers, Flashing
<1>4. CASE upd[u].kind = "ota"
  BY <1>1, <1>2, <1>3, <1>4 DEF Fails, Moved, Flashing, flags, TypeOK
<1>5. CASE upd[u].kind # "ota"
  BY <1>1, <1>2, <1>3, <1>5 DEF Fails, Lower, Moved, flags
<1> QED
  BY <1>4, <1>5

\* The invariant survives every move of an update thread.
LEMMA MovedKeeps ==
  ASSUME IInv, NEW u \in Updaters, Moved(u), Offered(u), TypeOK'
  PROVE  IInv'
<1>1. FlagsComeDown'
  <2>1. CASE Lower
    BY <2>1 DEF Lower, FlagsComeDown
  <2>2. CASE UNCHANGED <<flags, early>> /\ (Flashing(u) => Flashing(u)')
    <3>1. \A v \in Updaters : Flashing(v) => Flashing(v)'
      BY <2>2 DEF Moved, Flashing
    <3> QED
      BY <2>2, <3>1 DEF IInv, FlagsComeDown, flags, Moved
  <2> QED
    BY <2>1, <2>2 DEF Moved
<1>2. SUFFICES ASSUME NEW w \in Updaters,
                      upd'[w].at \in {"open", "stream"}, upd'[w].alone
               PROVE  /\ paused' /\ suspended'
                      /\ \A v \in Updaters \ {w} : ~Lowers(v)'
                      /\ \A c \in Lookers :
                           at'[c] \in {"go", "in"} => c \in early'
  <2>1. AloneKnown' /\ PortIsKept'
    BY <1>2 DEF AloneKnown, PortIsKept
  <2>2. OfferIsNews'
    <3>1. \A v \in Updaters : v # u /\ Told(v) => Told(v)'
      BY DEF Moved, Told
    <3> QED
      BY <3>1 DEF IInv, OfferIsNews, Offered
  <2> QED
    BY <1>1, <2>1, <2>2 DEF IInv
<1>3. /\ upd[w].at \in {"open", "stream"} /\ upd[w].alone
      /\ w # u => ~Lowers(u)
      /\ UNCHANGED <<flags, early>>
  <2>1. CASE w = u
    BY <1>2, <2>1 DEF Moved
  <2>2. CASE w # u
    <3>1. upd[w].at \in {"open", "stream"} /\ upd[w].alone
      BY <1>2, <2>2 DEF Moved
    <3>2. ~Lowers(u)
      BY <2>2, <3>1 DEF IInv, AloneKnown
    <3> QED
      BY <3>1, <3>2 DEF Moved
  <2> QED
    BY <2>1, <2>2
<1>4. paused /\ suspended /\ \A v \in Updaters \ {w} : ~Lowers(v)
  BY <1>3 DEF IInv, AloneKnown
<1>5. \A v \in Updaters \ {w} : ~Lowers(v)'
  <2>1. \A v \in Updaters \ {u} : Lowers(v)' = Lowers(v)
    BY DEF Moved, Lowers, Flashing
  <2> QED
    BY <1>4, <2>1 DEF Moved
<1>6. \A c \in Lookers : at'[c] \in {"go", "in"} => c \in early'
  BY <1>3 DEF IInv, PortIsKept, Moved
<1> QED
  BY <1>3, <1>4, <1>5, <1>6 DEF flags

-----------------------------------------------------------------------------

\* The click, the download, and the port that is opened or not.
LEMMA OpeningKeeps ==
  ASSUME IInv, NEW u \in Updaters,
         \/ \E k \in Kinds : Start(u, k)
         \/ DownloadFails(u) \/ Opened(u) \/ CannotOpen(u)
  PROVE  IInv'
<1> USE DEF IInv, TypeOK, flags, device, menu
<1>1. CASE \E k \in Kinds : Start(u, k)
  <2>1. Moved(u)
    <3>1. PICK k \in Kinds : Start(u, k)
      BY <1>1
    <3>2. [NoUpdate EXCEPT !.at = "get", !.kind = k] \in Updates
      BY <3>1 DEF NoUpdate, Updates, Stages, Kinds
    <3>3. /\ upd' \in [Updaters -> Updates]
          /\ \A v \in Updaters \ {u} : upd'[v] = upd[v]
      BY <3>1, <3>2 DEF Start
    <3>4. upd'[u].at = "get" /\ ~upd'[u].auto
      BY <3>1 DEF Start, NoUpdate
    <3> QED
      BY <3>1, <3>3, <3>4 DEF Start, Moved, Lowers, Flashing
  <2>2. TypeOK' /\ Offered(u)
    BY <1>1, <2>1 DEF Start, Moved, Offered, Told
  <2> QED
    BY <2>1, <2>2, MovedKeeps
<1>2. CASE DownloadFails(u)
  <2>1. PICK stage \in {"clear", "idle"} : EndsWith(u, stage, FALSE)
    BY <1>2 DEF DownloadFails
  <2>2. upd[u].auto \/ stage = "idle"
    BY <1>2, <2>1, Ending DEF DownloadFails, EndsWith, NoUpdate, Stages
  <2>3. Moved(u)
    BY <1>2, <2>1, <2>2, Ending DEF DownloadFails, Moved, Lowers, Flashing, Stages
  <2>4. faults' \in 0..MaxFaults
    BY <1>2 DEF DownloadFails, Fault
  <2>5. TypeOK' /\ Offered(u)
    BY <1>2, <2>3, <2>4 DEF DownloadFails, Moved, Offered, Told
  <2> QED
    BY <2>3, <2>5, MovedKeeps
<1>3. CASE Opened(u)
  <2>1. Moved(u)
    BY <1>3 DEF Opened, Moved, Updates, Stages, Lowers, Flashing
  <2>2. TypeOK' /\ Offered(u)
    BY <1>3, <2>1 DEF Opened, Moved, Offered, Told
  <2> QED
    BY <2>1, <2>2, MovedKeeps
<1>4. CASE CannotOpen(u)
  <2>1. /\ Moved(u) /\ {paused', suspended'} \subseteq BOOLEAN
        /\ early' \subseteq Lookers
    BY <1>4, Failing DEF CannotOpen
  <2>2. TypeOK' /\ Offered(u)
    BY <1>4, <2>1 DEF CannotOpen, Moved, Offered, Told
  <2> QED
    BY <2>1, <2>2, MovedKeeps
<1> QED
  BY <1>1, <1>2, <1>3, <1>4

\* The transfer, and how it ends.
LEMMA TransferKeeps ==
  ASSUME IInv, NEW u \in Updaters,
         \/ Breaks(u) \/ Updated(u) \/ Unanswered(u) \/ FallsBack(u) \/ Reflashed(u)
  PROVE  IInv'
<1> USE DEF IInv, TypeOK, flags, device, menu
<1>1. CASE Breaks(u)
  <2>1. /\ Moved(u) /\ {paused', suspended'} \subseteq BOOLEAN
        /\ early' \subseteq Lookers
    BY <1>1, Failing DEF Breaks
  <2>2. /\ fw' \in {"old", "new", None} /\ misled' \in BOOLEAN
        /\ UNCHANGED <<fw, misled>> \/ misled'
    BY <1>1 DEF Breaks
  <2>3. faults' \in 0..MaxFaults /\ owner' = None /\ UNCHANGED <<keyOk, pending, read, wish>>
    BY <1>1 DEF Breaks, Fault
  <2>4. TypeOK'
    BY <2>1, <2>2, <2>3 DEF Moved
  <2>5. Offered(u)
    BY <1>1, <2>2, <2>3 DEF Breaks, Offered, Told
  <2> QED
    BY <2>1, <2>4, <2>5, MovedKeeps
<1>2. CASE Updated(u)
  <2>1. EndsWith(u, "clear", TRUE) /\ upd[u].at = "stream"
    BY <1>2 DEF Updated
  <2>2. Moved(u) /\ Told(u)'
    BY <1>2, <2>1, Ending DEF Updated, Moved, Told, Lowers, Flashing, Stages
  <2>3. TypeOK' /\ Offered(u)
    BY <1>2, <2>2 DEF Updated, Moved, Offered
  <2> QED
    BY <2>2, <2>3, MovedKeeps
<1>3. CASE Unanswered(u)
  <2>1. /\ Moved(u) /\ {paused', suspended'} \subseteq BOOLEAN
        /\ early' \subseteq Lookers
    BY <1>3, Failing DEF Unanswered
  <2>2. TypeOK' /\ Offered(u)
    BY <1>3, <2>1 DEF Unanswered, Moved, Offered, Told
  <2> QED
    BY <2>1, <2>2, MovedKeeps
<1>4. CASE FallsBack(u)
  <2>1. /\ upd' \in [Updaters -> Updates]
        /\ \A v \in Updaters \ {u} : upd'[v] = upd[v]
        /\ upd'[u].at = "get" /\ upd[u].at = "stream"
    BY <1>4 DEF FallsBack, Updates, Stages, Kinds
  <2>2. Moved(u)
    BY <1>4, <2>1 DEF FallsBack, Moved, Lowers, Flashing
  <2>3. TypeOK' /\ Offered(u)
    BY <1>4, <2>2 DEF FallsBack, Lower, Moved, Offered, Told
  <2> QED
    BY <2>2, <2>3, MovedKeeps
<1>5. CASE Reflashed(u)
  <2>1. EndsWith(u, "forget", TRUE) /\ upd[u].at = "stream"
    BY <1>5 DEF Reflashed
  <2>2. Moved(u) /\ Told(u)'
    BY <1>5, <2>1, Ending DEF Reflashed, Moved, Told, Lowers, Flashing, Stages
  <2>3. TypeOK' /\ Offered(u)
    BY <1>5, <2>2 DEF Reflashed, Lower, Moved, Offered
  <2> QED
    BY <2>2, <2>3, MovedKeeps
<1> QED
  BY <1>1, <1>2, <1>3, <1>4, <1>5

\* The flags are lowered, and the offer is taken back.
LEMMA ClearingKeeps ==
  ASSUME IInv, NEW u \in Updaters, Clear(u) \/ Forget(u)
  PROVE  IInv'
<1> USE DEF IInv, TypeOK, flags, device, menu
<1>1. CASE Clear(u)
  <2>1. /\ EndsWith(u, IF upd[u].ok THEN "forget" ELSE "idle", FALSE)
        /\ upd[u].at = "clear"
    BY <1>1 DEF Clear
  <2>2. PICK stage \in {"forget", "idle"} :
          EndsWith(u, stage, FALSE) /\ (upd[u].ok => stage = "forget")
    BY <2>1
  <2>3. Moved(u) /\ (Told(u) => Told(u)')
    BY <1>1, <2>1, <2>2, Ending DEF Clear, Moved, Told, Lowers, Flashing, Stages
  <2>4. TypeOK' /\ Offered(u)
    BY <1>1, <2>3 DEF Clear, Lower, Moved, Offered
  <2> QED
    BY <2>3, <2>4, MovedKeeps
<1>2. CASE Forget(u)
  <2>1. PICK stage \in {"clear", "idle"} : EndsWith(u, stage, FALSE)
    BY <1>2 DEF Forget
  <2>2. upd[u].auto \/ stage = "idle"
    BY <1>2, <2>1, Ending DEF Forget, EndsWith, NoUpdate, Stages
  <2>3. Moved(u)
    BY <1>2, <2>1, <2>2, Ending DEF Forget, Moved, Lowers, Flashing, Stages
  <2>4. TypeOK' /\ Offered(u)
    BY <1>2, <2>3 DEF Forget, Moved, Offered
  <2> QED
    BY <2>3, <2>4, MovedKeeps
<1> QED
  BY <1>1, <1>2

LEMMA RaisedTyped ==
  ASSUME NEW r \in Updates, NEW b \in BOOLEAN
  PROVE  /\ [r EXCEPT !.at = "open", !.alone = b] \in Updates
         /\ [r EXCEPT !.alone = FALSE] \in Updates
BY DEF Updates, Stages

\* The first step of flashing: no other update is alone any longer, and this one
\* is if nobody else is left to lower the flags.
LEMMA RaisingKeeps ==
  ASSUME IInv, NEW u \in Updaters, Raise(u)
  PROVE  IInv'
<1> USE DEF IInv, TypeOK
<1>1. /\ upd' \in [Updaters -> Updates]
      /\ upd'[u].at = "open"
      /\ upd'[u].alone = (\A v \in Updaters \ {u} : ~Lowers(v))
      /\ \A v \in Updaters \ {u} :
           /\ ~upd'[v].alone
           /\ upd'[v].at = upd[v].at /\ upd'[v].ok = upd[v].ok /\ upd'[v].auto = upd[v].auto
  <2> DEFINE alone == \A v \in Updaters \ {u} : ~Lowers(v)
             new(v) == IF v = u THEN [upd[u] EXCEPT !.at = "open", !.alone = alone]
                       ELSE [upd[v] EXCEPT !.alone = FALSE]
  <2>1. alone \in BOOLEAN
    OBVIOUS
  <2>2. upd' = [v \in Updaters |-> new(v)]
    BY DEF Raise
  <2> HIDE DEF alone
  <2>3. \A v \in Updaters : new(v) \in Updates
    <3>1. \A v \in Updaters : upd[v] \in Updates
      OBVIOUS
    <3> QED
      BY <2>1, <3>1, RaisedTyped
  <2>4. upd' \in [Updaters -> Updates]
    BY <2>2, <2>3
  <2>5. upd'[u].at = "open" /\ upd'[u].alone = alone
    BY <2>2 DEF Updates
  <2>6. \A v \in Updaters \ {u} :
          /\ ~upd'[v].alone
          /\ upd'[v].at = upd[v].at /\ upd'[v].ok = upd[v].ok /\ upd'[v].auto = upd[v].auto
    BY <2>2 DEF Updates
  <2> QED
    BY <2>4, <2>5, <2>6 DEF alone
<1>2. TypeOK'
  BY <1>1 DEF Raise, device, menu
<1>3. FlagsComeDown'
  BY <1>1 DEF FlagsComeDown, Flashing
<1>4. AloneKnown'
  BY <1>1 DEF Raise, AloneKnown, Lowers, Flashing
<1>5. PortIsKept'
  BY <1>1 DEF Raise, PortIsKept
<1>6. OfferIsNews'
  <2>1. \A v \in Updaters : Told(v) => Told(v)'
    BY <1>1 DEF Raise, Told
  <2> QED
    BY <2>1 DEF Raise, OfferIsNews, device, menu
<1> QED
  BY <1>2, <1>3, <1>4, <1>5, <1>6

\* The clients of the port: an update that is alone has shut out those that look
\* at the flags.
LEMMA ClientsKeep ==
  ASSUME IInv, NEW c \in Clients, Client(c)
  PROVE  IInv'
<1> USE DEF IInv, TypeOK, flags, device, menu, Clients
<1>1. /\ UNCHANGED <<paused, suspended, upd, fw, keyOk, pending, read, misled, wish, faults>>
      /\ owner' \in {owner, c, None} /\ early' \subseteq early
      /\ at' \in [Clients -> {"idle", "go", "in", "ask"}]
      /\ \A d \in Clients \ {c} : at'[d] = at[d]
      /\ \A d \in Lookers \ {c} : d \in early => d \in early'
  BY DEF Client, Look, OpenPort, PortBusy, ClosePort
<1>2. TypeOK' /\ FlagsComeDown' /\ AloneKnown' /\ OfferIsNews'
  BY <1>1 DEF FlagsComeDown, AloneKnown, OfferIsNews, Lowers, Flashing, Told
<1>3. PortIsKept'
  <2> SUFFICES ASSUME NEW u \in Updaters,
                      upd[u].at \in {"open", "stream"}, upd[u].alone,
                      c \in Lookers, at'[c] \in {"go", "in"}
               PROVE  c \in early'
    BY <1>1 DEF PortIsKept
  <2>1. paused /\ suspended
    BY DEF AloneKnown
  <2>2. OpenPort(c)
    BY <2>1 DEF Client, Look, MayOpen, PortBusy, ClosePort
  <2> QED
    BY <2>2 DEF OpenPort, PortIsKept
<1> QED
  BY <1>2, <1>3

\* The version check, and the user's pause.
LEMMA MenuKeeps ==
  ASSUME IInv, Answered \/ Ask \/ TogglePause
  PROVE  IInv'
<1> USE DEF IInv, TypeOK, flags, device, menu, Clients
<1>1. CASE Answered
  <2>1. faults' \in 0..MaxFaults /\ read' \in {"old", "new", None}
    BY <1>1 DEF Answered, Fault
  <2>2. TypeOK'
    BY <1>1, <2>1 DEF Answered
  <2> QED
    BY <1>1, <2>2 DEF Answered, FlagsComeDown, AloneKnown, PortIsKept, OfferIsNews,
                      Lowers, Flashing, Told
<1>2. CASE Ask
  <2>1. faults' \in 0..MaxFaults
    BY <1>2 DEF Ask, Fault
  <2>2. {pending', misled'} \subseteq BOOLEAN
    BY <1>2 DEF Ask
  <2>3. TypeOK'
    BY <1>2, <2>1, <2>2 DEF Ask
  <2>4. FlagsComeDown' /\ AloneKnown' /\ PortIsKept'
    BY <1>2 DEF Ask, FlagsComeDown, AloneKnown, PortIsKept, Lowers, Flashing
  <2>5. OfferIsNews'
    BY <1>2 DEF Ask, OfferIsNews, Told
  <2> QED
    BY <2>3, <2>4, <2>5
<1>3. CASE TogglePause
  <2>1. /\ upd' \in [Updaters -> Updates]
        /\ \A v \in Updaters : /\ ~upd'[v].alone /\ upd'[v].at = upd[v].at
                               /\ upd'[v].ok = upd[v].ok
    <3>1. ASSUME NEW v \in Updaters
          PROVE  [upd[v] EXCEPT !.alone = FALSE] \in Updates
      <4>1. upd[v] \in Updates
        OBVIOUS
      <4> QED
        BY <4>1 DEF Updates, Stages, Kinds
    <3>2. upd' = [v \in Updaters |-> [upd[v] EXCEPT !.alone = FALSE]]
      BY <1>3 DEF TogglePause
    <3>3. upd' \in [Updaters -> Updates]
      BY <3>1, <3>2
    <3>4. ASSUME NEW v \in Updaters
          PROVE  ~upd'[v].alone /\ upd'[v].at = upd[v].at /\ upd'[v].ok = upd[v].ok
      <4>1. upd[v] \in Updates /\ upd'[v] = [upd[v] EXCEPT !.alone = FALSE]
        BY <3>2
      <4> QED
        BY <4>1 DEF Updates
    <3> QED
      BY <3>3, <3>4
  <2>2. TypeOK'
    BY <1>3, <2>1 DEF TogglePause
  <2>3. \A v \in Updaters : (Flashing(v) => Flashing(v)') /\ (Told(v) => Told(v)')
    BY <2>1 DEF Flashing, Told
  <2>4. FlagsComeDown'
    BY <1>3, <2>3 DEF TogglePause, FlagsComeDown
  <2>5. OfferIsNews'
    BY <1>3, <2>3 DEF TogglePause, OfferIsNews
  <2>6. AloneKnown' /\ PortIsKept'
    BY <2>1 DEF AloneKnown, PortIsKept
  <2> QED
    BY <2>2, <2>4, <2>5, <2>6
<1> QED
  BY <1>1, <1>2, <1>3

LEMMA InitHolds == Init => IInv
<1> SUFFICES ASSUME Init PROVE IInv
  OBVIOUS
<1>1. NoUpdate \in Updates /\ NoUpdate.at = "idle"
  BY DEF NoUpdate, Updates, Stages, Kinds
<1>2. {paused, suspended, keyOk, pending, wish, misled} \subseteq BOOLEAN
  BY DEF Init
<1>3. TypeOK
  BY <1>1, <1>2 DEF Init, TypeOK
<1> QED
  BY <1>1, <1>3 DEF Init, IInv, FlagsComeDown, AloneKnown, PortIsKept, OfferIsNews

LEMMA Inductive == IInv /\ [Next]_vars => IInv'
<1> SUFFICES ASSUME IInv, [Next]_vars PROVE IInv'
  OBVIOUS
<1>1. CASE UNCHANGED vars
  BY <1>1 DEF vars, flags, device, menu, IInv, TypeOK, FlagsComeDown, AloneKnown,
              PortIsKept, OfferIsNews, Lowers, Flashing, Told
<1>2. CASE Next
  BY <1>2, OpeningKeeps, TransferKeeps, ClearingKeeps, RaisingKeeps, ClientsKeep,
     MenuKeeps DEF Next, Updating
<1> QED
  BY <1>1, <1>2

-----------------------------------------------------------------------------

\* The invariant holds always.
THEOREM Invariance == Spec => []IInv
BY InitHolds, Inductive, PTL DEF Spec

\* The variables keep their types.
THEOREM TypeCorrect == Spec => []TypeOK
BY Invariance, PTL DEF IInv

\* No end of an update, and no overlap of several, leaves the flags up behind it.
THEOREM FlagsLowered == Spec => []FlagsComeDown
BY Invariance, PTL DEF IInv

\* Whoever looks at the flags stays off the port of an update that is alone.
THEOREM PortKept == Spec => []PortIsKept
BY Invariance, PTL DEF IInv

\* The menu does not offer what the device already runs.
THEOREM OfferNews == Spec => []OfferIsNews
BY Invariance, PTL DEF IInv
=============================================================================
