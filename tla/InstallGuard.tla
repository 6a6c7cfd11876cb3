---------------------------- MODULE InstallGuard ----------------------------
(***************************************************************************)
(* The installer guard: scripts/calamares_clausis.py --guard-transaction   *)
(* (installer.py, trusted_audio.DirectInstallConfirmation), the partition  *)
(* job that follows it in Calamares' execution sequence and the patched    *)
(* LUKS job that consumes the recovery key.  The installation may be tried *)
(* again after a failure, the guard may be killed by Calamares' timeout,   *)
(* the live system may restart, and disks may be exchanged at any time     *)
(* until the first write.                                                  *)
(***************************************************************************)
EXTENDS Integers

CONSTANTS
  Disks,      \* what lsblk may say of the device at the chosen node
  NoDisk,     \* no device at the node
  MaxAttempts \* bound on the attempts to install

\* A disk, as parse_lsblk_inventory describes it.
Description == [id : STRING, type : {"disk", "part"}, readonly : BOOLEAN,
                removable : BOOLEAN, small : BOOLEAN, mounted : BOOLEAN, stable : BOOLEAN]

ASSUME GuardAssumption ==
  Disks \subseteq Description /\ NoDisk \notin Disks /\ MaxAttempts \in Nat

\* InstallDisk.eligible: there is no reason for a rejection.
Eligible(d) ==
  d.type = "disk" /\ ~d.readonly /\ ~d.removable /\ ~d.small /\ ~d.mounted /\ d.stable

\* The recovery key of attempt n is n: 159 random bits are not drawn twice.
\* The staging file holds a key, a part of one, or does not exist.
NoKey == 0
Torn == -1
Keys == 1..MaxAttempts

\* What the partition page exports.
Choices == [mode : {"erase", "other", "missing"}, encrypted : BOOLEAN, btrfs : BOOLEAN]
NoChoice == [mode |-> "missing", encrypted |-> FALSE, btrfs |-> FALSE]

Jobs == {"choose", "guard", "partition", "luks", "users", "done", "failed"}
GuardPC == {"idle", "discard", "mode", "bind", "stage", "readback", "phrase", "announce",
            "handler", "allowed", "denied", "killed"}

VARIABLES
  job,      \* the job that Calamares runs
  choice,   \* what the partition page exported
  attempt,  \* attempts so far; the number of this one
  gpc,      \* where the guard process is
  staged,   \* what is in /run/clausis-installer/recovery.key
  present,  \* the disk at the chosen node
  bound,    \* the disk that the inventory found there and that is read out
  swapped,  \* history: the disk was exchanged since that inventory
  written,  \* the disk that this attempt's partition job has written
  slots,    \* recovery keys in the LUKS header of the written volume
  approved, \* history: keys that were read back right and whose phrase was confirmed
  left      \* history: this attempt's guard was killed, or a removal failed in it

guardVars ==
  <<job, choice, attempt, gpc, staged, present, bound, swapped, written, slots, approved, left>>
calamares == <<job, choice, attempt, written, slots>>
hardware == <<present, bound, swapped>>

GuardInit ==
  /\ job = "choose" /\ choice = NoChoice /\ attempt = 0 /\ gpc = "idle" /\ staged = NoKey
  /\ present \in Disks /\ bound = NoDisk /\ swapped = FALSE /\ written = NoDisk
  /\ slots = {} /\ approved = {} /\ left = FALSE

-----------------------------------------------------------------------------
(* The guard process. *)

\* The user leaves the partition page and starts the installation.
Begin ==
  /\ job = "choose" /\ attempt < MaxAttempts
  /\ job' = "guard" /\ gpc' = "discard" /\ choice' \in Choices /\ attempt' = attempt + 1
  /\ UNCHANGED <<staged, hardware, written, slots, approved, left>>

\* discard_staged_recovery_key: the file is overwritten and removed, or an
\* OSError leaves it, or what is left of it; without a file it cannot fail.
Discards(next, otherwise) ==
  \/ gpc' = next /\ staged' = NoKey /\ UNCHANGED left
  \/ staged # NoKey /\ gpc' = otherwise /\ staged' \in {staged, Torn} /\ left' = TRUE

\* Mutant: the key of an earlier run is left alone in the modes without a ceremony.
DiscardInEraseMode ==
  /\ gpc = "discard"
  /\ \/ choice.mode = "erase" /\ Discards("mode", "denied")
     \/ choice.mode # "erase" /\ gpc' = "mode" /\ UNCHANGED <<staged, left>>
  /\ UNCHANGED <<calamares, hardware, approved>>

\* First of all, whatever the mode is.
GuardDiscard ==
  /\ gpc = "discard" /\ Discards("mode", "denied")
  /\ UNCHANGED <<calamares, hardware, approved>>

\* The mode must be known; any but erase is left to Calamares, without a key.
GuardMode ==
  /\ gpc = "mode"
  /\ gpc' = CASE choice.mode = "erase" -> "bind"
              [] choice.mode = "other" -> "allowed"
              [] OTHER -> "denied"
  /\ UNCHANGED <<calamares, hardware, staged, approved, left>>

\* discover_install_disks and guard_calamares_erase_transaction; lsblk may fail.
GuardBind ==
  /\ gpc = "bind"
  /\ \/ /\ choice.encrypted /\ choice.btrfs /\ present \in Disks /\ Eligible(present)
        /\ gpc' = "stage" /\ bound' = present /\ swapped' = FALSE
     \/ gpc' = "denied" /\ UNCHANGED <<bound, swapped>>
  /\ UNCHANGED <<calamares, present, staged, approved, left>>

\* stage_recovery_key, outside of the try block: a failure removes the new file,
\* if it can, and ends the run.
GuardStage ==
  /\ gpc = "stage"
  /\ \/ gpc' = "readback" /\ staged' = attempt /\ UNCHANGED left
     \/ gpc' = "denied" /\ staged' = NoKey /\ UNCHANGED left
     \/ gpc' = "denied" /\ staged' \in {Torn, attempt} /\ left' = TRUE
  /\ UNCHANGED <<calamares, hardware, approved>>

\* A part of authorize is passed, or it ends in the handler: a wrong answer, an
\* abort or no answer returns False, a failing speaker or recorder raises.
Passes(from, to) ==
  /\ gpc = from /\ gpc' \in {to, "handler"}
  /\ UNCHANGED <<calamares, hardware, staged, left>>

\* The key is spoken twice and all its groups are read back.
GuardReadback == Passes("readback", "phrase") /\ UNCHANGED approved

\* InstallConfirmationChallenge: the exact phrase, once, within 120 seconds.
GuardPhrase ==
  /\ Passes("phrase", "announce")
  /\ approved' = IF gpc' = "announce" THEN approved \cup {attempt} ELSE approved

\* "The installation begins now" must have been spoken.
GuardAnnounce == Passes("announce", "allowed") /\ UNCHANGED approved

\* Mutant: only exceptions remove the key, a refusal keeps it.
HandlerForgets ==
  /\ gpc = "handler"
  /\ \/ Discards("denied", "denied")
     \/ gpc' = "denied" /\ UNCHANGED <<staged, left>>
  /\ UNCHANGED <<calamares, hardware, approved>>

\* Mutant: the exception is swallowed, and main returns 0.
HandlerSwallows ==
  /\ gpc = "handler" /\ Discards("allowed", "denied")
  /\ UNCHANGED <<calamares, hardware, approved>>

\* except Exception: discard and raise; main reports the refusal.
GuardHandler ==
  /\ gpc = "handler" /\ Discards("denied", "denied")
  /\ UNCHANGED <<calamares, hardware, approved>>

\* Calamares kills the guard after 300 seconds: no handler runs.
GuardKilled ==
  /\ gpc \notin {"idle", "allowed", "denied", "killed"}
  /\ gpc' = "killed" /\ left' = TRUE
  /\ staged' \in CASE gpc = "stage" -> {NoKey, Torn, attempt}
                   [] gpc \in {"discard", "handler"} -> {NoKey, Torn, staged}
                   [] OTHER -> {staged}
  /\ UNCHANGED <<calamares, hardware, approved>>

-----------------------------------------------------------------------------
(* Calamares' execution sequence. *)

\* Only a guard that exits with 0 lets the sequence go on.
GuardEnds ==
  /\ job = "guard" /\ gpc \in {"allowed", "denied", "killed"}
  /\ gpc' = "idle"
  /\ job' = IF gpc = "allowed" THEN "partition" ELSE "failed"
  /\ UNCHANGED <<choice, attempt, staged, hardware, written, slots, approved, left>>

\* The partition job writes the disk that is at the node now, or part of it.
Partition ==
  /\ job = "partition"
  /\ \/ present # NoDisk /\ job' \in {"luks", "failed"} /\ written' = present /\ slots' = {}
     \/ job' = "failed" /\ UNCHANGED <<written, slots>>
  /\ UNCHANGED <<choice, attempt, gpc, staged, hardware, approved, left>>

\* removeStagedRecoveryKey does not look at what it reaches.
RemovesStaged == staged' \in {NoKey, Torn, staged}

\* The patched job: an encrypted root needs a well-formed staged key, which is
\* added and removed; a key may have been added when the job reports a failure.
Luks ==
  /\ job = "luks"
  /\ \/ ~choice.encrypted /\ job' = "users" /\ UNCHANGED <<staged, slots>>
     \/ choice.encrypted /\ staged = NoKey /\ job' = "failed" /\ UNCHANGED <<staged, slots>>
     \/ choice.encrypted /\ staged = Torn /\ job' = "failed" /\ RemovesStaged /\ UNCHANGED slots
     \/ /\ choice.encrypted /\ staged \in Keys /\ RemovesStaged
        /\ \/ job' \in {"users", "failed"} /\ slots' = slots \cup {staged}
           \/ job' = "failed" /\ UNCHANGED slots
  /\ UNCHANGED <<choice, attempt, gpc, hardware, written, approved, left>>

\* The jobs after it, up to the finalizer, succeed or fail.
LaterJobs ==
  /\ job = "users" /\ job' \in {"done", "failed"}
  /\ UNCHANGED <<choice, attempt, gpc, staged, hardware, written, slots, approved, left>>

\* Calamares ends; what it and the guard knew of this attempt is forgotten.
Forgets ==
  /\ job' = "choose" /\ gpc' = "idle" /\ choice' = NoChoice
  /\ bound' = NoDisk /\ swapped' = FALSE /\ written' = NoDisk /\ left' = FALSE
  /\ UNCHANGED <<attempt, present, slots, approved>>

\* After a failure Calamares is started again.
TryAgain == job = "failed" /\ Forgets /\ UNCHANGED staged

\* The live system restarts; the staging directory is in memory.
Restart == job \notin {"choose", "done"} /\ Forgets /\ staged' = NoKey

\* Another disk, or the same one mounted or gone, is at the node.
Exchange ==
  /\ job \in {"guard", "partition"}
  /\ present' \in Disks \cup {NoDisk} /\ present' # present
  /\ swapped' = TRUE
  /\ UNCHANGED <<calamares, gpc, staged, bound, approved, left>>

GuardNext ==
  \/ Begin \/ GuardDiscard \/ GuardMode \/ GuardBind \/ GuardStage \/ GuardReadback
  \/ GuardPhrase \/ GuardAnnounce \/ GuardHandler \/ GuardKilled \/ GuardEnds
  \/ Partition \/ Luks \/ LaterJobs \/ TryAgain \/ Restart \/ Exchange

GuardSpec == GuardInit /\ [][GuardNext]_guardVars

-----------------------------------------------------------------------------
(* Properties. *)

\* Every variable keeps its type.
GuardTypeOK ==
  /\ job \in Jobs /\ choice \in Choices /\ attempt \in Nat /\ gpc \in GuardPC
  /\ staged \in Keys \cup {NoKey, Torn}
  /\ present \in Disks \cup {NoDisk} /\ bound \in Disks \cup {NoDisk}
  /\ swapped \in {TRUE, FALSE} /\ written \in Disks \cup {NoDisk}
  /\ slots \subseteq Keys /\ approved \subseteq Keys /\ left \in {TRUE, FALSE}

\* The key that the LUKS job may find is this attempt's, noted and approved; no
\* other key is ever in a volume; and an encrypted installation that gets past
\* the job has exactly this key.  Killed guards, failed removals and retries in
\* another mode leave nothing behind that the job would take.
LuksKeyIsApproved ==
  /\ job \in {"partition", "luks"} /\ staged # NoKey => staged = attempt /\ staged \in approved
  /\ slots \subseteq approved
  /\ job \in {"users", "done"} /\ choice.encrypted => slots = {attempt}

\* Whole-disk mode writes only after a complete ceremony of this attempt, about
\* an eligible disk, and writes that disk unless it was exchanged meanwhile:
\* the ceremony takes minutes and the inventory is not repeated after it.
EraseIsApproved ==
  written # NoDisk /\ choice.mode = "erase" =>
    attempt \in approved /\ Eligible(bound) /\ (written = bound \/ swapped)

\* A guard that refuses by itself leaves no key in the staging directory.
RefusalLeavesNoKey == gpc = "denied" /\ ~left => staged = NoKey
=============================================================================
