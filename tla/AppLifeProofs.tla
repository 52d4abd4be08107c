--------------------------- MODULE AppLifeProofs ---------------------------
(***************************************************************************)
(* The safety properties of AppLife for any number of install threads, of  *)
(* moves the batch file tries and of faults.                               *)
(*                                                                         *)
(* What may be installed is decided long before the batch file moves it,   *)
(* so the invariant follows the download: from the moment a thread holds   *)
(* it for complete until the batch file has moved it, a part of an exe is  *)
(* on record as a flaw.                                                    *)
(***************************************************************************)
EXTENDS AppLife, TLAPS

Flawed == why \cap {"cut", "overlap"} # {}

\* Two installs at once are on record, and none outlives its process.
ThreadsKnown ==
  /\ \A i, j \in Installers :
       i # j /\ inst[i] # "idle" /\ inst[j] # "idle" => "overlap" \in why
  /\ bat.on \/ app = "down" => \A i \in Installers : inst[i] = "idle"

\* A download that is to be installed is whole, or its flaw is on record.
DownloadKnown ==
  dl = "part" /\ (bat.on \/ \E i \in Installers : inst[i] \in {"wait", "stop", "last"})
    => Flawed

\* The choice against start-at-login is made after the first start.
ChoiceKnown == optOut \/ app # "down" => sentinel

IInv == /\ TypeOK
        /\ ThreadsKnown
        /\ DownloadKnown
        /\ ChoiceKnown
        /\ InstalledIsWhole
        /\ DownForAReason
        /\ OptOutIsKept

USE AppLifeAssumption

-----------------------------------------------------------------------------

\* Starting a process keeps the types, loses no flaw, and respects the choice; a
\* whole image is up, or was already, or its failed start is on record.
LEMMA StartsKeep ==
  ASSUME TypeOK, ChoiceKnown, OptOutIsKept,
         NEW image \in [ver : {"old", "new"}, whole : BOOLEAN], Starts(image)
  PROVE  /\ app' \in {"down", "up", "leaving"} /\ running' \in {"old", "new"}
         /\ {pending', key', sentinel', optOut'} \subseteq BOOLEAN
         /\ why' \subseteq Reasons
         /\ why' \cap {"cut", "overlap"} = why \cap {"cut", "overlap"}
         /\ ChoiceKnown' /\ OptOutIsKept'
         /\ faults' \in 0..MaxFaults
         /\ image.whole /\ app' = "down" => "refused" \in why'
         /\ app' = "down" => app = "down" /\ why \subseteq why'
<1>1. CASE Started(image) /\ UNCHANGED faults
  BY <1>1 DEF TypeOK, ChoiceKnown, OptOutIsKept, Started, Defaults, Acquired, login,
              Reasons
<1>2. CASE StartFailed(image)
  <2>1. /\ key' \in BOOLEAN /\ sentinel' \in BOOLEAN /\ optOut' \in BOOLEAN
        /\ ChoiceKnown' /\ OptOutIsKept'
    <3>1. app' = app /\ key \in BOOLEAN /\ sentinel \in BOOLEAN /\ optOut \in BOOLEAN
      BY <1>2 DEF StartFailed, TypeOK
    <3>2. CASE ~sentinel /\ key' \in {key, TRUE} /\ UNCHANGED <<sentinel, optOut>>
      BY <3>1, <3>2 DEF ChoiceKnown, OptOutIsKept
    <3>3. CASE Acquired /\ Defaults
      BY <3>1, <3>3 DEF Defaults, ChoiceKnown, OptOutIsKept
    <3> QED
      BY <1>2, <3>2, <3>3 DEF StartFailed
  <2>2. faults' \in 0..MaxFaults
    BY <1>2 DEF StartFailed, Fault, TypeOK
  <2> QED
    BY <1>2, <2>1, <2>2 DEF StartFailed, TypeOK, Reasons
<1> QED
  BY <1>1, <1>2 DEF Starts

\* The start of the application, its end, and what it does meanwhile.
LEMMA StartKeeps ==
  ASSUME IInv,
         Launch \/ ToggleStartup \/ Check \/ Quit \/ MainReturns
  PROVE  IInv'
<1>1. CASE Launch
  <2>1. exe \in [ver : {"old", "new"}, whole : BOOLEAN]
    BY DEF IInv, TypeOK
  <2>2. Starts(exe) /\ UNCHANGED <<inst, disk, bat>>
    BY <1>1 DEF Launch
  <2> QED
    BY <2>1, <2>2, StartsKeep
       DEF IInv, TypeOK, disk, ThreadsKnown, DownloadKnown, Flawed,
           InstalledIsWhole, DownForAReason
<1>2. CASE ToggleStartup
  BY <1>2 DEF ToggleStartup, IInv, TypeOK, disk, ThreadsKnown, DownloadKnown,
              Flawed, ChoiceKnown, InstalledIsWhole, DownForAReason, OptOutIsKept
<1>3. CASE Check
  BY <1>3 DEF Check, Newer, IInv, TypeOK, disk, login, ThreadsKnown, DownloadKnown,
              Flawed, ChoiceKnown, InstalledIsWhole, DownForAReason, OptOutIsKept
<1>4. CASE Quit
  BY <1>4 DEF Quit, NoThreads, IInv, TypeOK, Reasons, disk, login, ThreadsKnown,
              DownloadKnown, Flawed, ChoiceKnown, InstalledIsWhole,
              DownForAReason, OptOutIsKept
<1>5. CASE MainReturns
  BY <1>5 DEF MainReturns, NoThreads, IInv, TypeOK, Reasons, disk, login,
              ThreadsKnown, DownloadKnown, Flawed, ChoiceKnown,
              InstalledIsWhole, DownForAReason, OptOutIsKept
<1> QED
  BY <1>1, <1>2, <1>3, <1>4, <1>5

\* The install threads, up to the moment they stop the icon.
LEMMA DownloadKeeps ==
  ASSUME IInv, NEW i \in Installers,
         \/ Click(i) \/ Loaded(i) \/ LoadedShort(i) \/ LoadFails(i) \/ Waited(i)
  PROVE  IInv'
<1> USE DEF IInv, TypeOK, disk, login
<1>1. CASE Click(i)
  <2>1. ThreadsKnown' /\ DownloadKnown'
    BY <1>1 DEF Click, ThreadsKnown, DownloadKnown, Flawed
  <2> QED
    BY <1>1, <2>1 DEF Click, Reasons, ChoiceKnown, InstalledIsWhole,
                      DownForAReason, OptOutIsKept
<1>2. CASE Loaded(i)
  <2>1. ThreadsKnown'
    BY <1>2 DEF Loaded, ThreadsKnown
  <2>2. dl' = "part" => "overlap" \in why
    BY <1>2 DEF Loaded, ThreadsKnown
  <2> QED
    BY <1>2, <2>1, <2>2 DEF Loaded, DownloadKnown, Flawed, ChoiceKnown,
       InstalledIsWhole, DownForAReason, OptOutIsKept
<1>3. CASE LoadedShort(i)
  <2>1. ThreadsKnown' /\ DownloadKnown'
    BY <1>3 DEF LoadedShort, ThreadsKnown, DownloadKnown, Flawed
  <2> QED
    BY <1>3, <2>1 DEF LoadedShort, Fault, Reasons, ChoiceKnown, InstalledIsWhole,
                      DownForAReason, OptOutIsKept
<1>4. CASE LoadFails(i)
  <2>1. ThreadsKnown' /\ DownloadKnown'
    BY <1>4 DEF LoadFails, ThreadsKnown, DownloadKnown, Flawed
  <2> QED
    BY <1>4, <2>1 DEF LoadFails, Fault, ChoiceKnown, InstalledIsWhole,
                      DownForAReason, OptOutIsKept
<1>5. CASE Waited(i)
  <2>1. ThreadsKnown' /\ DownloadKnown'
    BY <1>5 DEF Waited, ThreadsKnown, DownloadKnown, Flawed
  <2> QED
    BY <1>5, <2>1 DEF Waited, ChoiceKnown, InstalledIsWhole, DownForAReason,
                      OptOutIsKept
<1> QED
  BY <1>1, <1>2, <1>3, <1>4, <1>5

\* The end of the process, and the hand-over to the batch file.
LEMMA HandOverKeeps ==
  ASSUME IInv, NEW i \in Installers,
         \/ StopIcon(i) \/ InstallAndRestart(i) \/ InstallFails(i)
  PROVE  IInv'
<1> USE DEF IInv, TypeOK, disk, login
<1>1. CASE StopIcon(i)
  <2>1. app # "down"
    BY <1>1 DEF StopIcon, ThreadsKnown
  <2>2. ThreadsKnown' /\ DownloadKnown'
    BY <1>1 DEF StopIcon, ThreadsKnown, DownloadKnown, Flawed
  <2> QED
    BY <1>1, <2>1, <2>2 DEF StopIcon, ChoiceKnown, InstalledIsWhole,
                            DownForAReason, OptOutIsKept
<1>2. CASE InstallAndRestart(i)
  <2>1. ThreadsKnown' /\ DownloadKnown'
    BY <1>2 DEF InstallAndRestart, NoThreads, ThreadsKnown, DownloadKnown, Flawed
  <2> QED
    BY <1>2, <2>1 DEF InstallAndRestart, NoThreads, ChoiceKnown, InstalledIsWhole,
                      DownForAReason, OptOutIsKept
<1>3. CASE InstallFails(i)
  <2>1. ThreadsKnown' /\ DownloadKnown'
    BY <1>3 DEF InstallFails, ThreadsKnown, DownloadKnown, Flawed
  <2> QED
    BY <1>3, <2>1 DEF InstallFails, Fault, ChoiceKnown, InstalledIsWhole,
                      DownForAReason, OptOutIsKept
<1> QED
  BY <1>1, <1>2, <1>3

\* The batch file and the virus scanner.
LEMMA BatchKeeps ==
  ASSUME IInv, Try \/ Move \/ Scanned \/ Quarantined
  PROVE  IInv'
<1> USE DEF IInv, TypeOK
<1>1. CASE Try
  <2>1. CASE bat.tries + 1 < MaxTries
    BY <1>1, <2>1 DEF Try, disk, login, ThreadsKnown, DownloadKnown, Flawed,
       ChoiceKnown, InstalledIsWhole, DownForAReason, OptOutIsKept
  <2>2. CASE ~(bat.tries + 1 < MaxTries)
    <3>1. /\ Starts(exe) /\ bat' = [on |-> FALSE, tries |-> 0] /\ bat.on
          /\ UNCHANGED <<inst, disk>>
      BY <1>1, <2>2 DEF Try
    <3>2. ThreadsKnown' /\ DownloadKnown'
      BY <3>1, StartsKeep DEF disk, ThreadsKnown, DownloadKnown, Flawed
    <3> QED
      BY <3>1, <3>2, StartsKeep DEF disk, InstalledIsWhole, DownForAReason
  <2> QED
    BY <2>1, <2>2
<1>2. CASE Move
  <2>1. /\ exe' \in [ver : {"old", "new"}, whole : BOOLEAN]
        /\ exe'.whole \/ Flawed
    BY <1>2 DEF Move, DownloadKnown, InstalledIsWhole, Flawed
  <2>2. /\ Starts(exe') /\ dl' = "none" /\ bat' = [on |-> FALSE, tries |-> 0]
        /\ UNCHANGED <<inst, scan>>
    BY <1>2 DEF Move
  <2>3. ThreadsKnown' /\ DownloadKnown'
    BY <1>2, <2>1, <2>2, StartsKeep DEF Move, ThreadsKnown, DownloadKnown
  <2>4. InstalledIsWhole' /\ DownForAReason'
    BY <2>1, <2>2, StartsKeep DEF InstalledIsWhole, DownForAReason, Flawed
  <2> QED
    BY <2>1, <2>2, <2>3, <2>4, StartsKeep
<1>3. CASE Scanned
  BY <1>3 DEF Scanned, login, ThreadsKnown, DownloadKnown, Flawed, ChoiceKnown,
              InstalledIsWhole, DownForAReason, OptOutIsKept
<1>4. CASE Quarantined
  <2>1. TypeOK'
    <3>1. faults' \in 0..MaxFaults
      BY <1>4 DEF Quarantined, Fault
    <3> QED
      BY <1>4, <3>1 DEF Quarantined, login
  <2>2. ThreadsKnown' /\ DownloadKnown'
    BY <1>4 DEF Quarantined, ThreadsKnown, DownloadKnown
  <2>3. ChoiceKnown' /\ InstalledIsWhole' /\ DownForAReason' /\ OptOutIsKept'
    BY <1>4 DEF Quarantined, login, ChoiceKnown, InstalledIsWhole,
                DownForAReason, OptOutIsKept
  <2> QED
    BY <2>1, <2>2, <2>3
<1> QED
  BY <1>1, <1>2, <1>3, <1>4

LEMMA InitHolds == Init => IInv
<1> SUFFICES ASSUME Init PROVE IInv
  OBVIOUS
<1>1. TypeOK
  <2>1. {pending, scan, key, sentinel, optOut} \subseteq BOOLEAN
    BY DEF Init
  <2>2. inst \in [Installers -> {"idle", "load", "wait", "stop", "last"}]
    BY DEF Init
  <2>3. /\ exe \in [ver : {"old", "new"}, whole : BOOLEAN]
        /\ bat \in [on : BOOLEAN, tries : 0..MaxTries]
    BY DEF Init
  <2> QED
    BY <2>1, <2>2, <2>3 DEF Init, TypeOK, Reasons
<1>2. ThreadsKnown /\ DownloadKnown
  BY DEF Init, ThreadsKnown, DownloadKnown
<1>3. ChoiceKnown /\ InstalledIsWhole /\ DownForAReason /\ OptOutIsKept
  BY DEF Init, ChoiceKnown, InstalledIsWhole, DownForAReason, OptOutIsKept
<1> QED
  BY <1>1, <1>2, <1>3 DEF IInv

\* The invariant holds always.
THEOREM Invariance == Spec => []IInv
<1>1. IInv /\ [Next]_vars => IInv'
  <2> SUFFICES ASSUME IInv, [Next]_vars PROVE IInv'
    OBVIOUS
  <2>1. CASE UNCHANGED vars
    BY <2>1 DEF vars, disk, login, IInv, TypeOK, ThreadsKnown, DownloadKnown,
                Flawed, ChoiceKnown, InstalledIsWhole, DownForAReason, OptOutIsKept
  <2>2. CASE Next
    BY <2>2, StartKeeps, DownloadKeeps, HandOverKeeps, BatchKeeps DEF Next, Install
  <2> QED
    BY <2>1, <2>2
<1> QED
  BY InitHolds, <1>1, PTL DEF Spec

\* The variables keep their types, and the batch file stops within its bound.
THEOREM TypeCorrect == Spec => []TypeOK
BY Invariance, PTL DEF IInv

\* Only a flaw on record ever leaves an exe on disk that is not whole.
THEOREM WholeInstalled == Spec => []InstalledIsWhole
BY Invariance, PTL DEF IInv

\* A process that is down is down for one of the reasons on record.
THEOREM ReasonKnown == Spec => []DownForAReason
BY Invariance, PTL DEF IInv

\* No restart and no update undoes the user's choice against start-at-login.
THEOREM OptOutKept == Spec => []OptOutIsKept
BY Invariance, PTL DEF IInv
=============================================================================
