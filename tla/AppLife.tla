------------------------------ MODULE AppLife ------------------------------
(***************************************************************************)
(* The life of the tray application as a process: its start (main.py,      *)
(* startup.py, single_instance.py), its self-update (updater.py, tray.py   *)
(* _install_update) and its end.  An install thread downloads the new exe, *)
(* waits for the virus scanner, stops the icon and hands over to a batch   *)
(* file, which moves the new exe over the old one once Windows lets it and *)
(* starts it.  Stopping the icon lets the main thread return, and with it  *)
(* every thread of the process end.                                        *)
(***************************************************************************)
EXTENDS Naturals

CONSTANTS
  Installers,  \* install threads that may run at once: one for each click
  MaxTries,    \* moves the batch file tries, 120 in the code
  MaxFaults    \* bound on what goes wrong

ASSUME AppLifeAssumption == MaxTries \in Nat \ {0} /\ MaxFaults \in Nat

VARIABLES
  app,       \* the process: down, up, or leaving once the icon has stopped
  running,   \* the version it runs
  pending,   \* _pending_update
  inst,      \* where each install thread is
  exe,       \* the exe on disk
  dl,        \* BusyLightPresence-<version>.exe in the temporary directory
  scan,      \* has the virus scanner the download open?
  bat,       \* the batch file: is it running, and how often has it tried?
  key,       \* is there a Run key?
  sentinel,  \* has the first start been recorded?
  optOut,    \* has the user turned start-at-login off since?
  why,       \* why the process is down, or why an exe may be broken
  faults     \* how many faults have struck

disk == <<exe, dl, scan>>
login == <<key, sentinel, optOut>>
vars == <<app, running, pending, inst, disk, bat, login, why, faults>>

\* quit: by the user; beaten: the process ended before the batch file ran;
\* refused: a start failed; cut: a download ended early and nobody noticed;
\* overlap: two downloads wrote one file.
Reasons == {"quit", "beaten", "refused", "cut", "overlap"}

TypeOK ==
  /\ app \in {"down", "up", "leaving"} /\ running \in {"old", "new"}
  /\ {pending, scan, key, sentinel, optOut} \subseteq BOOLEAN
  /\ inst \in [Installers -> {"idle", "load", "wait", "stop", "last"}]
  /\ exe \in [ver : {"old", "new"}, whole : BOOLEAN]
  /\ dl \in {"none", "part", "whole"}
  /\ bat \in [on : BOOLEAN, tries : 0..MaxTries]
  /\ why \subseteq Reasons
  /\ faults \in 0..MaxFaults

Init ==
  /\ app = "down" /\ running = "old" /\ pending = FALSE
  /\ inst = [i \in Installers |-> "idle"]
  /\ exe = [ver |-> "old", whole |-> TRUE] /\ dl = "none" /\ scan = FALSE
  /\ bat = [on |-> FALSE, tries |-> 0]
  /\ key \in BOOLEAN /\ sentinel = FALSE /\ optOut = FALSE
  /\ why = {"quit"} /\ faults = 0

Fault == faults < MaxFaults /\ faults' = faults + 1

NoThreads == inst' = [i \in Installers |-> "idle"]

-----------------------------------------------------------------------------
(* Start.                                                                  *)

\* mutant: start-at-login is turned on at every start
DefaultsAlways ==
  /\ sentinel' = TRUE /\ key' = TRUE /\ UNCHANGED optOut

\* ensure_default_startup(): on at the first start, and never again.
Defaults ==
  /\ sentinel' = TRUE
  /\ key' = IF sentinel THEN key ELSE TRUE
  /\ UNCHANGED optOut

\* SingleInstance.acquire(): nobody else holds the lock.
Acquired == app = "down"

\* A process is started from this image of the exe.  The defaults come first,
\* then the guard: the second of two instances ends itself.
Started(image) ==
  IF ~image.whole
  THEN UNCHANGED <<app, running, pending, login, why>>
  ELSE /\ Defaults
       /\ IF Acquired
          THEN /\ app' = "up" /\ running' = image.ver /\ pending' = FALSE
               /\ why' = why \ {"quit", "beaten", "refused"}
          ELSE UNCHANGED <<app, running, pending, why>>

\* An error that nobody catches ends the process before its tray is there:
\* the sentinel cannot be written (when only the key cannot be, that is logged),
\* or, behind the guard, main() fails at the configuration, the login or the tray.
StartFailed(image) ==
  /\ image.whole /\ Fault
  /\ \/ ~sentinel /\ key' \in {key, TRUE} /\ UNCHANGED <<sentinel, optOut>>
     \/ Acquired /\ Defaults
  /\ why' = IF app = "down" THEN why \cup {"refused"} ELSE why
  /\ UNCHANGED <<app, running, pending>>

Starts(image) == \/ Started(image) /\ UNCHANGED faults
                 \/ StartFailed(image)

\* The user, or the Run key at login, starts the exe.
Launch ==
  /\ Starts(exe)
  /\ UNCHANGED <<inst, disk, bat>>

\* "Start at login" in the menu, or --uninstall-startup after the first start.
ToggleStartup ==
  /\ app = "up"
  /\ key' = ~key /\ optOut' = key
  /\ UNCHANGED <<app, running, pending, inst, disk, bat, sentinel, why, faults>>

-----------------------------------------------------------------------------
(* The self-update.                                                        *)

\* fetch_latest_release(): None on any error, and the old one until the new one
\* is out.
Fetched == {"none", "old", "new"}

\* is_newer(): the release against the version that runs.
Newer(release) == release = "new" /\ running = "old"

\* _check_for_update(), at the start, every hour and from the menu.
Check ==
  /\ app = "up"
  /\ \E release \in Fetched \ {"none"} : pending' = Newer(release)
  /\ UNCHANGED <<app, running, inst, disk, bat, login, why, faults>>

\* A click on the offer; opening the file for writing empties it.  (Bound: no
\* new install while a batch file runs, so that there is one of them.)
Click(i) ==
  /\ app = "up" /\ pending /\ inst[i] = "idle" /\ ~bat.on
  /\ inst' = [inst EXCEPT ![i] = "load"]
  /\ dl' = "part"
  /\ why' = IF \E j \in Installers \ {i} : inst[j] # "idle"
            THEN why \cup {"overlap"} ELSE why
  /\ UNCHANGED <<app, running, pending, exe, scan, bat, login, faults>>

\* The last chunk is written, and the scanner takes the file.
Loaded(i) ==
  /\ inst[i] = "load"
  /\ inst' = [inst EXCEPT ![i] = "wait"]
  /\ dl' = IF \E j \in Installers \ {i} : inst[j] = "load" THEN "part" ELSE "whole"
  /\ scan' = TRUE
  /\ UNCHANGED <<app, running, pending, exe, bat, login, why, faults>>

\* The connection is closed early: read() returns nothing more, the number of
\* bytes is not compared with the length, and the install goes on.
LoadedShort(i) ==
  /\ inst[i] = "load" /\ Fault
  /\ inst' = [inst EXCEPT ![i] = "wait"]
  /\ scan' = TRUE /\ why' = why \cup {"cut"}
  /\ UNCHANGED <<app, running, pending, exe, dl, bat, login>>

\* mutant: the error of a download is swallowed
LoadFailsUnseen(i) ==
  /\ inst[i] = "load" /\ Fault
  /\ inst' = [inst EXCEPT ![i] = "wait"]
  /\ UNCHANGED <<app, running, pending, disk, bat, login, why>>

\* The error is told in a message box, and the application stays as it is.
LoadFails(i) ==
  /\ inst[i] = "load" /\ Fault
  /\ inst' = [inst EXCEPT ![i] = "idle"]
  /\ UNCHANGED <<app, running, pending, disk, bat, login, why>>

\* wait_for_av_release() returns, because the file is free or after 90 s, and
\* _stop_event is set.
Waited(i) ==
  /\ inst[i] = "wait"
  /\ inst' = [inst EXCEPT ![i] = "stop"]
  /\ UNCHANGED <<app, running, pending, disk, bat, login, why, faults>>

StopIcon(i) ==
  /\ inst[i] = "stop"
  /\ inst' = [inst EXCEPT ![i] = "last"]
  /\ app' = "leaving"
  /\ UNCHANGED <<running, pending, disk, bat, login, why, faults>>

\* mutant: the process exits without having started the batch file
ExitOnly(i) ==
  /\ inst[i] = "last"
  /\ app' = "down" /\ NoThreads
  /\ UNCHANGED <<running, pending, disk, bat, login, why, faults>>

\* install_and_restart(): the batch file is started, and os._exit() ends every
\* thread, a second download among them.
InstallAndRestart(i) ==
  /\ inst[i] = "last"
  /\ bat' = [on |-> TRUE, tries |-> 0]
  /\ app' = "down" /\ NoThreads
  /\ UNCHANGED <<running, pending, disk, login, why, faults>>

\* It raises; the icon has gone all the same.
InstallFails(i) ==
  /\ inst[i] = "last" /\ Fault
  /\ inst' = [inst EXCEPT ![i] = "idle"]
  /\ UNCHANGED <<app, running, pending, disk, bat, login, why>>

\* The main thread returns from run(), and the daemon threads end with it.
MainReturns ==
  /\ app = "leaving"
  /\ app' = "down" /\ NoThreads
  /\ why' = why \cup {"beaten"}
  /\ UNCHANGED <<running, pending, disk, bat, login, faults>>

Quit ==
  /\ app = "up"
  /\ app' = "down" /\ NoThreads
  /\ why' = why \cup {"quit"}
  /\ UNCHANGED <<running, pending, disk, bat, login, faults>>

-----------------------------------------------------------------------------
(* The batch file and the virus scanner.                                   *)

\* Windows moves no file that is open, nor over an exe that runs.
Movable == dl # "none" /\ ~scan /\ app = "down"

\* mutant: a batch file that gives up starts nothing
TryUnlaunched ==
  /\ bat.on /\ dl # "none" /\ ~Movable
  /\ bat' = IF bat.tries + 1 < MaxTries THEN [bat EXCEPT !.tries = @ + 1]
            ELSE [on |-> FALSE, tries |-> 0]
  /\ UNCHANGED <<app, running, pending, inst, disk, login, why, faults>>

\* One round of the loop: the file is still there after the move.
Try ==
  /\ bat.on /\ dl # "none" /\ ~Movable
  /\ IF bat.tries + 1 < MaxTries
     THEN /\ bat' = [bat EXCEPT !.tries = @ + 1]
          /\ UNCHANGED <<app, running, pending, login, why, faults>>
     ELSE /\ bat' = [on |-> FALSE, tries |-> 0]
          /\ Starts(exe)
  /\ UNCHANGED <<inst, disk>>

\* The file is gone: moved, or taken away by the scanner.
Move ==
  /\ bat.on /\ (Movable \/ dl = "none")
  /\ exe' = IF dl = "none" THEN exe ELSE [ver |-> "new", whole |-> dl = "whole"]
  /\ dl' = "none"
  /\ bat' = [on |-> FALSE, tries |-> 0]
  /\ Starts(exe')
  /\ UNCHANGED <<inst, scan>>

Scanned ==
  /\ scan /\ scan' = FALSE
  /\ UNCHANGED <<app, running, pending, inst, exe, dl, bat, login, why, faults>>

Quarantined ==
  /\ scan /\ Fault
  /\ scan' = FALSE /\ dl' = "none"
  /\ UNCHANGED <<app, running, pending, inst, exe, bat, login, why>>

Install(i) == \/ Loaded(i) \/ LoadedShort(i) \/ LoadFails(i) \/ Waited(i)
              \/ StopIcon(i) \/ InstallAndRestart(i) \/ InstallFails(i)

Next == \/ Launch \/ ToggleStartup \/ Check \/ Quit
        \/ \E i \in Installers : Click(i) \/ Install(i)
        \/ MainReturns
        \/ Try \/ Move \/ Scanned \/ Quarantined

\* Threads and the batch file go on, and every scan ends.  Nobody has to start
\* the application by hand.
Fairness == /\ \A i \in Installers : WF_vars(Install(i))
            /\ WF_vars(MainReturns) /\ WF_vars(Try \/ Move) /\ WF_vars(Scanned)

Spec == Init /\ [][Next]_vars /\ Fairness

-----------------------------------------------------------------------------
(* Properties.                                                             *)

\* The exe that is started at login is whole, unless a download that ended early
\* went unnoticed or two of them wrote one file.
InstalledIsWhole == exe.whole \/ why \cap {"cut", "overlap"} # {}

\* The process is down for a reason: the user has quit, a batch file will bring
\* it back, the exe is broken, its start was refused, or the main thread ended
\* before install_and_restart() had started the batch file.
DownForAReason ==
  app = "down" => \/ bat.on \/ ~exe.whole
                  \/ why \cap {"quit", "beaten", "refused"} # {}

\* Once an install has stopped the icon, the application comes up again without
\* anybody starting it: the hand-over to the batch file, its retries and its start
\* of the exe see to it.  What can come between is named: the exe is broken, its
\* start failed, or the main thread ended before the batch file was started.
InstallEnds ==
  app = "leaving"
    ~> (app = "up" \/ ~exe.whole \/ why \cap {"quit", "beaten", "refused"} # {})

\* The user's choice against start-at-login outlives restarts and updates.
OptOutIsKept == optOut => ~key
=============================================================================
