---------------------------- MODULE Installation ----------------------------
(***************************************************************************)
(* An installation: the live session's welcome script opens the setup      *)
(* window, and when that is over Calamares; its execution sequence runs    *)
(* the guard, the partition job, the LUKS job and, after the target        *)
(* account has been created, the finalizer (finalize_install.py), which    *)
(* copies the staged configuration and the staged PIN and updates Hermes.  *)
(***************************************************************************)
EXTENDS InstallGuard, SetupWindow

\* Where the finalizer is: not running, or at one of its parts.
FinalizerPC == {"idle", "config", "pin", "update"}

\* The files of the target's account and system that the finalizer writes.
Targets == {Staged(Hermes[i]) : i \in 1..3} \cup {Pin}

VARIABLES
  fpc,     \* where the finalizer is
  target,  \* each of the target's files: the save whose content it has, 0 if it is not there
  finished \* has a run of the finalizer on this target exited with 0?

finalizerVars == <<fpc, target, finished>>
installVars == <<guardVars, setupVars, finalizerVars>>

Empty == [f \in Targets |-> 0]

InstallInit ==
  /\ GuardInit /\ SetupInit
  /\ fpc = "idle" /\ target = Empty /\ finished = FALSE

-----------------------------------------------------------------------------
(* The live session and Calamares. *)

Setup == SetupNext /\ UNCHANGED <<guardVars, finalizerVars>>

\* Calamares is started when clausis-setup has ended, whatever that has saved.
Calamares ==
  /\ \/ window = "closed" /\ Begin
     \/ GuardDiscard \/ GuardMode \/ GuardBind \/ GuardStage \/ GuardReadback \/ GuardPhrase
     \/ GuardAnnounce \/ GuardHandler \/ GuardKilled \/ GuardEnds \/ Luks \/ TryAgain \/ Exchange
  /\ UNCHANGED <<setupVars, finalizerVars>>

\* A written volume is a new target.
NewTarget ==
  /\ Partition
  /\ IF job' = "luks" THEN target' = Empty /\ finished' = FALSE ELSE UNCHANGED <<target, finished>>
  /\ UNCHANGED <<setupVars, fpc>>

\* The live system restarts: its home directory is in memory, so the new session
\* has a new window and nothing that was staged.
NewSession ==
  /\ Restart
  /\ window' = "open" /\ provider' = Offline /\ consent' = FALSE /\ live' = FALSE
  /\ liveConsent' = FALSE /\ spoken' = "none" /\ worker' = FALSE
  /\ file' = [f \in Files |-> 0] /\ saved' = 0 /\ saves' = saves
  /\ fpc' = "idle" /\ UNCHANGED <<target, finished>>

-----------------------------------------------------------------------------
(* The finalizer. *)

\* The job after the account was created; it may be run again by hand.
Finalize ==
  /\ fpc = "idle" /\ job \in {"users", "done"}
  /\ fpc' = "config"
  /\ UNCHANGED <<guardVars, setupVars, target, finished>>

\* A run of the finalizer ends, and with it the job; the later jobs may fail too.
Ends(ok) ==
  /\ fpc' = "idle" /\ finished' = (ok \/ finished)
  /\ IF job = "users"
       THEN LaterJobs /\ job' = IF ok THEN "done" ELSE "failed"
       ELSE UNCHANGED guardVars
  /\ UNCHANGED setupVars

Continues(to) == fpc' = to /\ UNCHANGED <<guardVars, setupVars, finished>>

\* Mutant: a file that cannot be copied is passed over.
CopyPassingOver ==
  /\ fpc = "config"
  /\ \E copied \in SUBSET {i \in 1..3 : file[Staged(Hermes[i])] > 0} :
       target' = [f \in Targets |->
         IF \E i \in copied : f = Staged(Hermes[i]) THEN file[f] ELSE target[f]]
  /\ Continues("pin")

\* The first n of the Hermes files are copied, one after another; those that were
\* not staged are passed over.
Copied(n) == [f \in Targets |->
  IF file[f] > 0 /\ \E i \in 1..n : f = Staged(Hermes[i]) THEN file[f] ELSE target[f]]

\* copy_configuration: without a staged config.yaml nothing is copied; an error
\* ends the run after a part of the files.
CopyConfiguration ==
  /\ fpc = "config"
  /\ IF file[Staged("config.yaml")] = 0
       THEN target' = target /\ Continues("pin")
       ELSE \E n \in 0..3 : /\ target' = Copied(n)
                            /\ (n = 3 /\ Continues("pin")) \/ Ends(FALSE)

\* install_staged_voice_pin: validated and replaced in one step, or an error.
InstallPin ==
  /\ fpc = "pin"
  /\ \/ /\ target' = IF file[Pin] > 0 THEN [target EXCEPT ![Pin] = file[Pin]] ELSE target
        /\ Continues("update")
     \/ target' = target /\ Ends(FALSE)

\* install_latest_stable, and record_fallback when it fails; that may fail too.
UpdateHermes ==
  /\ fpc = "update" /\ target' = target /\ \E ok \in BOOLEAN : Ends(ok)

InstallNext ==
  \/ Setup \/ Calamares \/ NewTarget \/ NewSession
  \/ Finalize \/ CopyConfiguration \/ InstallPin \/ UpdateHermes

InstallSpec == InstallInit /\ [][InstallNext]_installVars

-----------------------------------------------------------------------------
(* Properties. *)

\* Every variable keeps its type.
InstallTypeOK ==
  /\ GuardTypeOK /\ SetupTypeOK
  /\ fpc \in FinalizerPC /\ target \in [Targets -> 0..saves] /\ finished \in BOOLEAN

\* When the finalizer has succeeded and the last save of the session was reported
\* as saved, the installed account has exactly that save's files and its PIN: no
\* failed or repeated save, no restart of the live system, no second attempt and
\* no failed run of the finalizer leaves it with parts of two of them.
FinalizedIsWhole ==
  finished /\ saved > 0 /\ saved = saves => \A f \in Targets : target[f] = saved
=============================================================================
