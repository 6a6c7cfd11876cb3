---------------------------- MODULE HermesUpdate ----------------------------
(***************************************************************************)
(* The finalizer's Hermes update (src/clausis/hermes_update.py, the end of *)
(* finalize_install.py): repeated runs on one target root, each of which   *)
(* installs the release that is then the latest or falls back to the image *)
(* copy.  Every command and every write may fail, and a run may be killed  *)
(* between any two of its steps.                                           *)
(***************************************************************************)
EXTENDS Naturals

CONSTANTS
  Releases, \* accepted release tags
  Bundled,  \* the reviewed image copy, as the launcher's target
  None,     \* no value
  MaxRuns   \* bound on runs of the finalizer

\* What is at /opt/hermes-agent-releases/<tag>.
\*  absent   nothing, or an empty directory
\*  broken   something, but not both venv/bin/hermes and .git
\*  partial  both of them, in an environment that is not complete
\*  ready    a complete environment
Content == {"absent", "broken", "partial", "ready"}

\* What a removal or an installation that stopped halfway may leave of c.
Remains(c) == CASE c = "absent" -> {"absent"}
                [] c = "broken" -> {"absent", "broken"}
                [] c = "partial" -> {"absent", "broken", "partial"}
                [] c = "ready" -> Content

\* What the install record says: a status and the release it names.
Record == [status : {"updated", "already-current"}, release : Releases]
            \cup {[status |-> "bundled-fallback", release |-> None]}

ASSUME UpdateAssumption ==
  /\ Bundled \notin Releases /\ "retained" \notin Releases
  /\ None \notin Releases \cup Record \cup {Bundled, "retained"}
  /\ MaxRuns \in Nat

\* Where a run is.
PC == {"idle", "lookup", "check", "relink", "rerecord", "fetch", "replace", "sync",
       "link", "record", "cleanup", "fallback"}

VARIABLES
  dir,      \* what is in each release's directory
  launcher, \* target of /usr/local/bin/hermes
  record,   \* the install record, None if there is none
  pc,       \* where the run is
  release,  \* the latest release, as this run was told
  linked,   \* history: launcher when this run began
  before,   \* history: dir when this run began
  told,     \* the run's last line: "retained", or the release that was installed
  runs      \* runs so far

vars == <<dir, launcher, record, pc, release, linked, before, told, runs>>

Init ==
  /\ dir = [t \in Releases |-> "absent"] /\ launcher = Bundled /\ record = None
  /\ pc = "idle" /\ release = None /\ linked = Bundled
  /\ before = dir /\ told = None /\ runs = 0

Start ==
  /\ pc = "idle" /\ runs < MaxRuns
  /\ pc' = "lookup" /\ release' = None /\ linked' = launcher /\ before' = dir
  /\ told' = None /\ runs' = runs + 1
  /\ UNCHANGED <<dir, launcher, record>>

\* The run goes from one place to another and changes nothing else.
Goes(from, to) ==
  /\ pc = from /\ pc' \in to
  /\ UNCHANGED <<dir, launcher, record, release, linked, before, told, runs>>

\* latest_stable_release: any accepted tag, or an error.
Lookup ==
  \/ /\ pc = "lookup" /\ pc' = "check" /\ release' \in Releases
     /\ UNCHANGED <<dir, launcher, record, linked, before, told, runs>>
  \/ Goes("lookup", {"fallback"})

Installed(t) == dir[t] \in {"partial", "ready"}

\* A release that is there is not installed again; rev-parse may fail.
Check == Goes("check", IF Installed(release) THEN {"relink", "fallback"} ELSE {"fetch"})

\* git init, remote, fetch, checkout, rev-parse and the file checks, in staging.
\* A failure before the try block's first command (mkdir) ends the run.
Fetch == Goes("fetch", {"replace", "fallback", "idle"})

\* os.replace(staging, destination) fails on a directory that is not empty; the
\* failure sets no installed_destination, so nothing is removed.
Replace ==
  \/ /\ pc = "replace" /\ dir[release] = "absent"
     /\ dir' = [dir EXCEPT ![release] = "broken"]
     /\ pc' = "sync"
     /\ UNCHANGED <<launcher, record, release, linked, before, told, runs>>
  \/ Goes("replace", {"fallback"})

\* Mutant: a sync that exits with 0 is believed.
SyncUnchecked ==
  /\ pc = "sync" /\ pc' \in {"link", "cleanup"}
  /\ \E c \in {"broken", "partial", "ready"} : dir' = [dir EXCEPT ![release] = c]
  /\ UNCHANGED <<launcher, record, release, linked, before, told, runs>>

\* uv sync and the check for the executable.
Sync ==
  /\ pc = "sync"
  /\ \/ dir' = [dir EXCEPT ![release] = "ready"] /\ pc' = "link"
     \/ \E c \in {"broken", "partial"} :
          dir' = [dir EXCEPT ![release] = c] /\ pc' = "cleanup"
  /\ UNCHANGED <<launcher, record, release, linked, before, told, runs>>

\* _atomic_launcher, in a new installation or for one that was there.
Switch(from, to) ==
  /\ pc = from /\ pc' = to
  /\ launcher' = release
  /\ UNCHANGED <<dir, record, release, linked, before, told, runs>>

Link   == Switch("link", "record") \/ Goes("link", {"cleanup"})
Relink == Switch("relink", "rerecord") \/ Goes("relink", {"idle"})

\* write_install_record, and the run's last line.
Records(from, status) ==
  /\ pc = from /\ pc' = "idle"
  /\ record' = [status |-> status, release |-> release]
  /\ told' = release
  /\ UNCHANGED <<dir, launcher, release, linked, before, runs>>

\* Mutant: the success is announced although the record could not be written.
WriteRecordAnyway ==
  \/ Records("record", "updated")
  \/ /\ pc = "record" /\ pc' = "idle" /\ told' = release
     /\ UNCHANGED <<dir, launcher, record, release, linked, before, runs>>

WriteRecord == Records("record", "updated") \/ Goes("record", {"cleanup"})

\* Mutant: a failure with an installed release removes it, as a new one is.
RewriteRecordCleaning ==
  Records("rerecord", "already-current") \/ Goes("rerecord", {"cleanup"})

\* Outside the try block: an OSError ends the run, without a fallback record.
RewriteRecord == Records("rerecord", "already-current") \/ Goes("rerecord", {"idle"})

\* rmtree(destination, ignore_errors=True) of what this run has installed.
Cleanup ==
  /\ pc = "cleanup" /\ pc' = "fallback"
  /\ \E c \in Remains(dir[release]) : dir' = [dir EXCEPT ![release] = c]
  /\ UNCHANGED <<launcher, record, release, linked, before, told, runs>>

\* finalize_install.main catches the HermesUpdateError and records the fallback;
\* an OSError while doing so ends the run.
Fallback ==
  \/ /\ pc = "fallback" /\ pc' = "idle"
     /\ record' = [status |-> "bundled-fallback", release |-> None]
     /\ told' = "retained"
     /\ UNCHANGED <<dir, launcher, release, linked, before, runs>>
  \/ Goes("fallback", {"idle"})

\* Power loss or a kill: what was being installed or removed is left as it is.
Crash ==
  /\ pc # "idle" /\ pc' = "idle"
  /\ \/ pc \notin {"sync", "cleanup"} /\ UNCHANGED dir
     \/ pc = "sync" /\ \E c \in {"broken", "partial"} : dir' = [dir EXCEPT ![release] = c]
     \/ pc = "cleanup" /\ \E c \in Remains(dir[release]) : dir' = [dir EXCEPT ![release] = c]
  /\ UNCHANGED <<launcher, record, release, linked, before, told, runs>>

Next ==
  \/ Start \/ Lookup \/ Check \/ Fetch \/ Replace \/ Sync \/ Link \/ Relink
  \/ WriteRecord \/ RewriteRecord \/ Cleanup \/ Fallback \/ Crash

Spec == Init /\ [][Next]_vars

-----------------------------------------------------------------------------
(* Properties. *)

\* Every variable keeps its type.
TypeOK ==
  /\ dir \in [Releases -> Content] /\ before \in [Releases -> Content]
  /\ launcher \in Releases \cup {Bundled} /\ linked \in Releases \cup {Bundled}
  /\ record \in Record \cup {None}
  /\ pc \in PC /\ release \in Releases \cup {None}
  /\ told \in Releases \cup {None, "retained"} /\ runs \in Nat

\* A run that says it installed a release has switched the launcher to it, keeps
\* its directory and recorded it, whatever earlier runs left behind.
AnnouncedIsInstalled == told \in Releases =>
  launcher = told /\ Installed(told) /\ record # None /\ record.release = told

\* A release that was complete when a run began is never damaged by that run:
\* neither by a failed step nor by its cleanup nor by a crash.
ReadyReleasesSurvive == \A t \in Releases : before[t] = "ready" => dir[t] = "ready"

\* The launcher is switched only to a release with an executable, and it is the
\* release that this run was told is the latest.
SwitchesToExecutable ==
  [][launcher' # launcher => launcher' = release /\ Installed(release)]_vars

-----------------------------------------------------------------------------
(* Statements of the repository's own texts. *)

\* "The launcher remains on the pinned image version": a run that says that the
\* bundled version is retained has left the launcher as it was.
FailureKeepsLauncher == told = "retained" => launcher = linked
=============================================================================
