------------------------- MODULE ConnectivityProofs -------------------------
(***************************************************************************)
(* The safety properties of Connectivity for any networks, any capacity    *)
(* and any number of commands, moves and power cuts.                       *)
(*                                                                         *)
(* They are proved together: the light is explained because the overlay is *)
(* put on record, and a restart keeps them because the flash already holds *)
(* what the RAM is given.                                                  *)
(***************************************************************************)
EXTENDS Connectivity, FiniteSetTheorems, TLAPS

IInv == /\ TypeOK
        /\ ListsAgree
        /\ CleanIsSaved
        /\ LightIsExplained
        /\ UsbOwnsLight

\* What networkingTick must leave in RAM for the invariant to hold after it.
Good(d) ==
  /\ d \in Device
  /\ d.nets = dev.nets /\ d.aps = d.nets /\ ~d.listDirty
  /\ d.last = dev.last /\ d.dirty = dev.dirty
  /\ d.server /\ ~d.portal /\ ~d.overlay => d.led = d.last
  /\ owned /\ Present(port) => d.led = d.last

\* What every step but set_state does with the ghost.
Keeps == owned' = (owned /\ Present(port'))

USE ConnectivityAssumption

-----------------------------------------------------------------------------

\* The store after addNetwork, and every part of a store, is a store.
LEMMA AddNetworkStore ==
  ASSUME NEW n \in Store, NEW s \in SSID
  PROVE  [n EXCEPT !.nets = AddNetwork(@, s)] \in Store
<1>1. IsFiniteSet(n.nets)
  BY FS_Subset DEF Store
<1>2. CASE AddNetwork(n.nets, s) = n.nets
  BY <1>2 DEF Store
<1>3. CASE s \notin n.nets /\ Cardinality(n.nets) < MaxNets
  <2>1. Cardinality(n.nets \cup {s}) = Cardinality(n.nets) + 1
    BY <1>1, <1>3, FS_AddElement
  <2>2. Cardinality(n.nets) \in Nat
    BY <1>1, FS_CardinalityType
  <2> QED
    BY <1>3, <2>1, <2>2 DEF Store, AddNetwork
<1> QED
  BY <1>2, <1>3 DEF AddNetwork

LEMMA SubStore ==
  ASSUME NEW n \in Store, NEW kept \in SUBSET n.nets
  PROVE  [n EXCEPT !.nets = kept] \in Store
<1>1. IsFiniteSet(n.nets)
  BY FS_Subset DEF Store
<1>2. Cardinality(kept) <= Cardinality(n.nets)
  BY <1>1, FS_Subset
<1>3. Cardinality(kept) \in Nat /\ Cardinality(n.nets) \in Nat
  BY <1>1, FS_Subset, FS_CardinalityType
<1> QED
  BY <1>2, <1>3 DEF Store

LEMMA BlankStore == Blank \in Store
BY FS_EmptySet DEF Blank, Store, Default, Error

\* However the budget is touched, it stays one.
LEMMA SpendTyped ==
  ASSUME TypeOK,
         \/ Spend("ops", MaxOps) \/ Spend("moves", MaxMoves)
         \/ Spend("cuts", MaxCuts) \/ UNCHANGED spent
  PROVE  spent' \in Budget
BY DEF TypeOK, Budget, Spend

\* A restart on any store establishes the invariant.
LEMMA RestartKeeps ==
  ASSUME NEW store \in Store, Restart(store), Keeps,
         air' \subseteq SSID, spent' \in Budget
  PROVE  IInv'
<1>1. Fresh(store) \in Device
  BY DEF Fresh, Store, Device, Pending, Load, Default, Error
<1>2. TypeOK'
  <2>1. timers' \subseteq Timer /\ link' \in SSID \cup {None}
    BY DEF Restart, Timer, Joined, Store
  <2>2. /\ port' \in [dtr : BOOLEAN, recent : BOOLEAN]
        /\ ~port'.dtr /\ ~port'.recent
    BY DEF Restart
  <2>3. owned' = FALSE
    BY <2>2 DEF Keeps, Present
  <2> QED
    BY <1>1, <2>1, <2>2, <2>3 DEF Restart, TypeOK
<1>3. ListsAgree'
  BY DEF Restart, Fresh, ListsAgree
<1>4. CleanIsSaved'
  BY DEF Restart, Fresh, CleanIsSaved, Load, Default, Error
<1>5. LightIsExplained' /\ UsbOwnsLight'
  BY DEF Restart, Fresh, LightIsExplained, UsbOwnsLight, Keeps, Present
<1> QED
  BY <1>2, <1>3, <1>4, <1>5 DEF IInv

-----------------------------------------------------------------------------

\* The parts of networkingTick.
LEMMA RefreshedGood ==
  ASSUME IInv PROVE Good(Refreshed)
BY DEF IInv, TypeOK, ListsAgree, LightIsExplained, UsbOwnsLight, Good,
       Refreshed, Device

LEMMA OverlaidGood ==
  ASSUME NEW d, Good(d) PROVE Good(Overlaid(d, port))
BY DEF Good, Overlaid, Device, Error

LEMMA LinkedGood ==
  ASSUME NEW d, Good(d) PROVE Good(Served(Welcomed(d)))
BY DEF Good, Welcomed, Served, Device

LEMMA AloneGood ==
  ASSUME IInv PROVE Good(Alone)
<1>1. Good(Unlinked(Refreshed))
  BY RefreshedGood DEF Good, Unlinked, Device
<1> QED
  BY <1>1, OverlaidGood DEF Alone

\* A turn of networkingTick that leaves good RAM keeps the invariant.
LEMMA NetTurnKeeps ==
  ASSUME IInv, NEW d, Good(d), NetTurn(d), Keeps,
         timers' \subseteq Timer, link' \in SSID \cup {None}
  PROVE  IInv'
<1>1. TypeOK'
  BY DEF IInv, TypeOK, NetTurn, Good, Keeps, Present
<1>2. ListsAgree' /\ CleanIsSaved'
  BY DEF IInv, ListsAgree, CleanIsSaved, NetTurn, Good
<1>3. LightIsExplained' /\ UsbOwnsLight'
  BY DEF LightIsExplained, UsbOwnsLight, NetTurn, Good, Keeps, Present
<1> QED
  BY <1>1, <1>2, <1>3 DEF IInv

LEMMA NetStepKeeps ==
  ASSUME IInv, NetStep, Keeps PROVE IInv'
<1> USE DEF IInv
<1>1. Due \subseteq Timer /\ link \in SSID \cup {None}
  BY DEF TypeOK, Due, Timer
<1>2. CASE PortalIdle
  BY <1>1, <1>2, RefreshedGood, NetTurnKeeps DEF PortalIdle
<1>3. CASE PortalTimeout
  BY <1>3, RestartKeeps DEF PortalTimeout, TypeOK
<1>4. CASE Unconfigured
  BY <1>1, <1>4, RefreshedGood, OverlaidGood, NetTurnKeeps DEF Unconfigured
<1>5. CASE Linked
  <2>1. timers' \subseteq Timer
    BY <1>1, <1>5 DEF Linked, Timer
  <2> QED
    BY <1>1, <1>5, <2>1, RefreshedGood, LinkedGood, NetTurnKeeps DEF Linked
<1>6. ASSUME StartStation PROVE IInv'
  <2>1. Good([Alone EXCEPT !.kicked = TRUE])
    BY AloneGood DEF Good, Device
  <2>2. link' \in SSID \cup {None}
    BY <1>6 DEF StartStation, Joined, Refreshed, TypeOK, Device
  <2> QED
    BY <1>1, <1>6, <2>1, <2>2, NetTurnKeeps DEF StartStation
<1>7. CASE Wait
  BY <1>1, <1>7, AloneGood, NetTurnKeeps DEF Wait
<1>8. CASE EnterPortal
  <2>1. Good(Lit([Alone EXCEPT !.portal = TRUE], Error))
    BY <1>8, AloneGood
    DEF Good, Lit, Device, EnterPortal, LastResort, Error
  <2> QED
    BY <1>1, <1>8, <2>1, NetTurnKeeps DEF EnterPortal
<1> QED
  BY <1>2, <1>3, <1>4, <1>5, <1>6, <1>7, <1>8 DEF NetStep, Kick, Retry

-----------------------------------------------------------------------------

\* The handlers that change the state or the list.
LEMMA ApplyStateKeeps ==
  ASSUME IInv, NEW s \in State, ApplyState(s), nvs' = nvs
  PROVE  /\ dev' \in Device /\ timers' \subseteq Timer
         /\ ListsAgree' /\ CleanIsSaved'
         /\ dev'.led = dev'.last
BY DEF IInv, TypeOK, ListsAgree, CleanIsSaved, ApplyState, Device

LEMMA EditKeeps ==
  ASSUME IInv, NEW s \in SSID, AddNet(s) \/ RemoveNet(s)
  PROVE  /\ nvs' \in Store /\ dev' \in Device
         /\ ListsAgree' /\ CleanIsSaved'
         /\ dev'.led = dev.led /\ dev'.last = dev.last
         /\ dev'.server = dev.server /\ dev'.portal = dev.portal
         /\ dev'.overlay = dev.overlay
<1> USE DEF IInv
<1>1. PICK nets : Edit(nets) /\ [nvs EXCEPT !.nets = nets] \in Store
  <2>1. CASE AddNet(s)
    BY <2>1, AddNetworkStore DEF TypeOK, AddNet, Store
  <2>2. CASE RemoveNet(s)
    BY <2>2, SubStore DEF TypeOK, RemoveNet
  <2> QED
    BY <2>1, <2>2
<1>2. nets \in SUBSET SSID
  BY <1>1 DEF Store, TypeOK
<1> QED
  BY <1>1, <1>2 DEF Edit, TypeOK, Store, Device, ListsAgree, CleanIsSaved

LEMMA SetStateKeeps ==
  ASSUME IInv, NEW s \in State, SerialSetState(s), owned' = TRUE
  PROVE  IInv'
<1>1. TypeOK'
  BY ApplyStateKeeps, SpendTyped
  DEF IInv, TypeOK, SerialSetState, Heard, Turn
<1>2. LightIsExplained' /\ UsbOwnsLight'
  BY ApplyStateKeeps DEF LightIsExplained, UsbOwnsLight, SerialSetState
<1> QED
  BY <1>1, <1>2, ApplyStateKeeps DEF IInv, SerialSetState

LEMMA SerialStepKeeps ==
  ASSUME IInv, SerialStep, Keeps PROVE IInv'
<1> USE DEF IInv
<1>1. CASE Poll \/ SerialPing
  <2>1. UNCHANGED <<nvs, dev, timers, link, air, spent>> /\ pc' = "net"
    BY <1>1 DEF Poll, SerialPing, Heard, Turn
  <2>2. port' \in [dtr : BOOLEAN, recent : BOOLEAN]
    <3>1. CASE Poll
      <4>1. PICK dtr \in BOOLEAN : port' = [port EXCEPT !.dtr = dtr]
        BY <3>1 DEF Poll
      <4> QED
        BY <4>1 DEF TypeOK
    <3>2. CASE SerialPing
      <4>1. PICK dtr \in BOOLEAN : port' = [dtr |-> dtr, recent |-> TRUE]
        BY <3>2 DEF SerialPing, Heard
      <4> QED
        BY <4>1
    <3> QED
      BY <1>1, <3>1, <3>2
  <2>3. owned' \in BOOLEAN
    BY Zenon DEF Keeps
  <2>4. TypeOK'
    BY <2>1, <2>2, <2>3 DEF TypeOK
  <2> QED
    BY <2>1, <2>4 DEF ListsAgree, CleanIsSaved, LightIsExplained,
                      UsbOwnsLight, Keeps
<1>2. CASE SerialReset
  BY <1>2, BlankStore, SpendTyped, RestartKeeps DEF SerialReset, TypeOK
<1>3. ASSUME NEW s \in SSID, SerialEdit(s) PROVE IInv'
  <2>1. TypeOK'
    BY <1>3, EditKeeps, SpendTyped
    DEF SerialEdit, Heard, Turn, TypeOK, Keeps, Present
  <2>2. LightIsExplained' /\ UsbOwnsLight'
    BY <1>3, EditKeeps DEF SerialEdit, LightIsExplained, UsbOwnsLight, Keeps
  <2> QED
    BY <1>3, <2>1, <2>2, EditKeeps DEF SerialEdit
<1>4. ASSUME NEW s \in SSID, SerialSetConfig(s) PROVE IInv'
  BY <1>4, AddNetworkStore, SpendTyped, RestartKeeps
  DEF SerialSetConfig, TypeOK
<1> QED
  BY <1>1, <1>2, <1>3, <1>4 DEF SerialStep

LEMMA PersistKeeps ==
  ASSUME IInv, Persist, Keeps PROVE IInv'
<1> USE DEF IInv
<1>1. Saved \in Store
  BY DEF Saved, Store, TypeOK, Device
<1>2. CASE dev.pending = "nothing"
  <2>1. /\ nvs' = Saved /\ dev' = [dev EXCEPT !.dirty = @ /\ ~SaveDue]
        /\ pc' = "serial" /\ UNCHANGED <<timers, port, link, air, spent>>
    BY <1>2 DEF Persist
  <2>2. TypeOK'
    BY <1>1, <2>1 DEF TypeOK, Device, Keeps, Present
  <2>3. ListsAgree' /\ CleanIsSaved'
    BY <2>1 DEF ListsAgree, CleanIsSaved, Saved, SaveDue, TypeOK, Device, Store
  <2>4. LightIsExplained' /\ UsbOwnsLight'
    BY <2>1 DEF LightIsExplained, UsbOwnsLight, TypeOK, Device, Keeps
  <2> QED
    BY <2>2, <2>3, <2>4
<1>3. CASE dev.pending # "nothing"
  <2>1. PICK store \in Store : Restart(store)
    BY <1>1, <1>3, BlankStore DEF Persist
  <2> QED
    BY <2>1, RestartKeeps DEF Persist, TypeOK
<1> QED
  BY <1>2, <1>3

LEMMA ServeStepKeeps ==
  ASSUME IInv, ServeStep, Keeps PROVE IInv'
<1> USE DEF IInv
<1>1. CASE NoRequest
  BY <1>1 DEF NoRequest, Turn, Keeps, Present, TypeOK, ListsAgree,
              CleanIsSaved, LightIsExplained, UsbOwnsLight
<1>2. ASSUME NEW s \in State, OtherSets(s) PROVE IInv'
  <2>1. TypeOK'
    BY <1>2, ApplyStateKeeps, SpendTyped DEF OtherSets, TypeOK, Keeps, Present
  <2>2. LightIsExplained' /\ UsbOwnsLight'
    BY <1>2, ApplyStateKeeps DEF OtherSets, LightIsExplained, UsbOwnsLight
  <2> QED
    BY <1>2, <2>1, <2>2, ApplyStateKeeps DEF OtherSets
<1>3. ASSUME NEW s \in SSID, Request, AddNet(s) \/ RemoveNet(s) PROVE IInv'
  <2>1. TypeOK'
    BY <1>3, EditKeeps, SpendTyped DEF Request, Turn, TypeOK, Keeps, Present
  <2>2. LightIsExplained' /\ UsbOwnsLight'
    BY <1>3, EditKeeps DEF LightIsExplained, UsbOwnsLight, Keeps
  <2> QED
    BY <1>3, <2>1, <2>2, EditKeeps
<1>4. ASSUME NEW what \in {"reboot", "reset"}, ApiAsks(what) PROVE IInv'
  <2>1. dev' \in Device
    BY <1>4 DEF ApiAsks, TypeOK, Device, Pending
  <2>2. TypeOK'
    BY <1>4, <2>1, SpendTyped DEF ApiAsks, Request, Turn, TypeOK, Keeps, Present
  <2>3. ListsAgree' /\ CleanIsSaved' /\ LightIsExplained' /\ UsbOwnsLight'
    BY <1>4 DEF ApiAsks, ListsAgree, CleanIsSaved, LightIsExplained,
                UsbOwnsLight, TypeOK, Device, Keeps
  <2> QED
    BY <2>2, <2>3
<1> QED
  BY <1>1, <1>2, <1>3, <1>4, PersistKeeps
  DEF ServeStep, ApiAdd, ApiRemove

LEMMA WorldStepKeeps ==
  ASSUME IInv, WorldStep, Keeps PROVE IInv'
<1> USE DEF IInv
<1>1. ASSUME UNCHANGED <<nvs, dev, pc>>, timers' \subseteq Timer,
             port' \in [dtr : BOOLEAN, recent : BOOLEAN],
             link' \in SSID \cup {None}, air' \subseteq SSID, spent' \in Budget
      PROVE  IInv'
  BY <1>1 DEF TypeOK, Keeps, Present, ListsAgree, CleanIsSaved,
              LightIsExplained, UsbOwnsLight
<1>2. ASSUME NEW t \in Timer, Elapse(t) PROVE IInv'
  BY <1>1, <1>2 DEF Elapse, TypeOK
<1>3. CASE Lapse
  BY <1>1, <1>3 DEF Lapse, TypeOK
<1>4. ASSUME NEW s \in SSID, Fade(s) \/ Appear(s) PROVE IInv'
  BY <1>1, <1>4, SpendTyped DEF Fade, Appear, TypeOK
<1>5. CASE PowerCut
  BY <1>5, SpendTyped, RestartKeeps DEF PowerCut, TypeOK
<1>6. CASE CutWhileSaving
  <2>1. PICK kept \in SUBSET nvs.nets : Restart([nvs EXCEPT !.nets = kept])
    BY <1>6 DEF CutWhileSaving
  <2> QED
    BY <1>6, <2>1, SubStore, SpendTyped, RestartKeeps
    DEF CutWhileSaving, TypeOK
<1>7. ASSUME NEW s \in SSID, PortalSave(s) PROVE IInv'
  BY <1>7, AddNetworkStore, SpendTyped, RestartKeeps DEF PortalSave, TypeOK
<1> QED
  BY <1>2, <1>3, <1>4, <1>5, <1>6, <1>7 DEF WorldStep

-----------------------------------------------------------------------------

LEMMA InitHolds == Init => IInv
<1> SUFFICES ASSUME Init PROVE IInv
  OBVIOUS
<1>1. dev \in Device
  BY DEF Init, Fresh, Store, Device, Pending, Load, Default, Error
<1>2. link \in SSID \cup {None} /\ timers \subseteq Timer
  BY DEF Init, Joined, Timer
<1>3. spent \in Budget
  BY DEF Init, Budget
<1>4. TypeOK
  BY <1>1, <1>2, <1>3 DEF Init, TypeOK
<1> QED
  BY <1>4 DEF Init, IInv, Fresh, ListsAgree, CleanIsSaved, LightIsExplained,
              UsbOwnsLight, Load, Default, Error

\* The invariant holds always.
THEOREM Invariance == Spec => []IInv
<1>1. IInv /\ [Next]_vars => IInv'
  <2> SUFFICES ASSUME IInv, [Next]_vars PROVE IInv'
    OBVIOUS
  <2>1. CASE UNCHANGED vars
    BY <2>1 DEF vars, IInv, TypeOK, ListsAgree, CleanIsSaved,
                LightIsExplained, UsbOwnsLight
  <2>2. CASE Next
    BY <2>2, SerialStepKeeps, NetStepKeeps, ServeStepKeeps, WorldStepKeeps,
       SetStateKeeps DEF Next, Keeps
  <2> QED
    BY <2>1, <2>2
<1> QED
  BY InitHolds, <1>1, PTL DEF Spec

\* Types, and no command or cut ever fills the store past its limit.
THEOREM TypeCorrect == Spec => []TypeOK
BY Invariance, PTL DEF IInv

\* While the host that set the state stays, the light shows that state.
THEOREM UsbOwnership == Spec => []UsbOwnsLight
BY Invariance, PTL DEF IInv

\* A light that differs from the reported state is an overlay on record.
THEOREM LightExplained == Spec => []LightIsExplained
BY Invariance, PTL DEF IInv

\* The tried, the kept and the saved list agree.
THEOREM Lists == Spec => []ListsAgree
BY Invariance, PTL DEF IInv

\* With nothing to save, a restart brings back the state of now.
THEOREM Clean == Spec => []CleanIsSaved
BY Invariance, PTL DEF IInv
=============================================================================
