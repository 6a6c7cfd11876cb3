------------------------- MODULE InstallationProofs -------------------------
(***************************************************************************)
(* Proofs about InstallGuard and Installation, for every set of disks, any *)
(* number of attempts and saves, and any sets of providers; and about      *)
(* HermesUpdate, which the finalizer runs, for every set of releases and   *)
(* any number of runs.                                                     *)
(*                                                                         *)
(* The properties of the guard speak of the moments at which a key is      *)
(* enrolled or a disk written; GuardIInv says what each place of the guard *)
(* and each job knows about the staging file and the bound disk.  What the *)
(* finalizer leaves needs that nothing is saved while Calamares runs.      *)
(***************************************************************************)
EXTENDS MCInstallation, TLAPS

-----------------------------------------------------------------------------
(* The guard. *)

\* A run of the guard belongs to its job, and to an attempt that has a number;
\* only keys of attempts that have begun are approved.
AttemptInv ==
  /\ (job = "guard") <=> (gpc # "idle")
  /\ attempt \in 0..MaxAttempts
  /\ job # "choose" => attempt \in Keys
  /\ \A k \in approved : k <= attempt

\* What is staged at each place: nothing until the ceremony, then this attempt's
\* key, which is approved when the jobs that follow may see it.
StagingInv ==
  /\ gpc \in {"mode", "bind", "stage"} => staged = NoKey
  /\ gpc \in {"bind", "stage", "readback", "phrase", "announce", "handler"} =>
       choice.mode = "erase"
  /\ gpc \in {"readback", "phrase", "announce", "handler"} => staged = attempt
  /\ gpc = "announce" => attempt \in approved
  /\ (gpc = "allowed" \/ job \in {"partition", "luks"}) /\ choice.mode = "erase" =>
       staged = attempt /\ attempt \in approved
  /\ (gpc = "allowed" \/ job \in {"partition", "luks"}) /\ choice.mode # "erase" =>
       staged = NoKey

Confirmable == Eligible(bound) /\ (present = bound \/ swapped)

\* The disk that is read out is eligible, and at the node unless it was exchanged.
BoundInv ==
  /\ gpc \in {"stage", "readback", "phrase", "announce"} => Confirmable
  /\ choice.mode = "erase" /\ (gpc = "allowed" \/ job = "partition") => Confirmable
  /\ job \in {"choose", "guard", "partition"} => written = NoDisk
  /\ job = "luks" => slots = {}

GuardIInv ==
  /\ GuardTypeOK /\ AttemptInv /\ StagingInv /\ BoundInv
  /\ LuksKeyIsApproved /\ EraseIsApproved /\ RefusalLeavesNoKey

\* Before the first attempt there is no key and nothing is written.
LEMMA InitGuard == GuardInit => GuardIInv
<1> SUFFICES ASSUME GuardInit
             PROVE  GuardIInv
  OBVIOUS
<1> USE GuardAssumption DEF GuardInit, Keys, NoKey, Torn
<1>1. NoChoice \in Choices
  BY DEF NoChoice, Choices
<1>2. GuardTypeOK
  BY <1>1 DEF GuardTypeOK, Jobs, GuardPC
<1>3. AttemptInv
  BY DEF AttemptInv
<1>4. NoChoice.mode # "erase"
  BY DEF NoChoice
<1>5. StagingInv /\ BoundInv
  BY <1>4 DEF StagingInv, BoundInv
<1> QED
  BY <1>2, <1>3, <1>5 DEF GuardIInv, LuksKeyIsApproved, EraseIsApproved, RefusalLeavesNoKey

\* Every step of the guard and of the jobs around it keeps the invariant.
LEMMA GuardStep == GuardIInv /\ [GuardNext]_guardVars => GuardIInv'
<1> SUFFICES ASSUME GuardIInv, [GuardNext]_guardVars
             PROVE  GuardIInv'
  OBVIOUS
<1> USE GuardAssumption DEF GuardIInv, GuardTypeOK, AttemptInv, StagingInv, BoundInv,
      Confirmable, LuksKeyIsApproved, EraseIsApproved, RefusalLeavesNoKey, Jobs, GuardPC, Keys,
      NoKey, Torn, calamares, hardware
<1>1. CASE Begin
  <2> USE <1>1 DEF Begin
  <2>1. attempt' \in Keys /\ \A k \in approved : k <= attempt'
    OBVIOUS
  <2>2. GuardTypeOK'
    <3>1. job' \in Jobs /\ choice' \in Choices /\ gpc' \in GuardPC
      OBVIOUS
    <3>2. attempt' \in Nat /\ staged' = staged /\ present' = present /\ bound' = bound
      OBVIOUS
    <3>3. swapped' = swapped /\ left' = left
      OBVIOUS
    <3>4. written' = written /\ slots' = slots /\ approved' = approved
      OBVIOUS
    <3> QED
      BY <3>1, <3>2, <3>3, <3>4
  <2>3. AttemptInv'
    BY <2>1
  <2>4. StagingInv' /\ BoundInv'
    OBVIOUS
  <2> QED
    BY <2>2, <2>3, <2>4
<1>2. CASE GuardDiscard
  BY <1>2, ZenonT(60) DEF GuardDiscard, Discards
<1>3. CASE GuardMode
  BY <1>3, ZenonT(60) DEF GuardMode
<1>4. CASE GuardBind
  BY <1>4, ZenonT(60) DEF GuardBind
<1>5. CASE GuardStage
  BY <1>5, ZenonT(60) DEF GuardStage
<1>6. CASE GuardReadback
  BY <1>6, ZenonT(60) DEF GuardReadback, Passes
<1>7. CASE GuardPhrase
  <2> USE <1>7 DEF GuardPhrase, Passes
  <2>1. attempt \in Keys /\ attempt \in approved' <=> attempt \in approved \/ gpc' = "announce"
    OBVIOUS
  <2>2. GuardTypeOK'
    BY <2>1
  <2>3. approved' \subseteq approved \cup {attempt}
    OBVIOUS
  <2>4. AttemptInv'
    BY <2>3
  <2>5. StagingInv' /\ BoundInv'
    BY <2>1
  <2> QED
    BY <2>2, <2>4, <2>5
<1>8. CASE GuardAnnounce
  BY <1>8, ZenonT(60) DEF GuardAnnounce, Passes
<1>9. CASE GuardHandler
  BY <1>9, ZenonT(60) DEF GuardHandler, Discards
<1>10. CASE GuardKilled
  BY <1>10, ZenonT(60) DEF GuardKilled
<1>11. CASE GuardEnds
  BY <1>11, ZenonT(60) DEF GuardEnds
<1>12. CASE Partition
  BY <1>12, ZenonT(60) DEF Partition
<1>13. CASE Luks
  <2> USE <1>13 DEF Luks, RemovesStaged
  <2>1. slots' \subseteq approved /\ slots' \subseteq Keys
    <3>1. CASE slots' = slots
      BY <3>1
    <3>2. CASE staged \in Keys /\ slots' = slots \cup {staged}
      <4>1. staged \in approved /\ staged \in Keys
        BY <3>2
      <4> QED
        BY <3>2, <4>1
    <3> QED
      BY <3>1, <3>2
  <2>2. GuardTypeOK' /\ AttemptInv'
    BY <2>1
  <2>3. StagingInv' /\ BoundInv'
    OBVIOUS
  <2>4. job' = "users" /\ choice.encrypted => slots' = {attempt}
    <3> SUFFICES ASSUME job' = "users", choice.encrypted
                 PROVE  slots' = {attempt}
      OBVIOUS
    <3>1. staged \in Keys /\ slots' = slots \cup {staged}
      OBVIOUS
    <3>2. staged = attempt /\ slots = {}
      BY <3>1
    <3> QED
      BY <3>1, <3>2
  <2> QED
    BY <2>1, <2>2, <2>3, <2>4
<1>14. CASE LaterJobs
  BY <1>14, ZenonT(60) DEF LaterJobs
<1>15. ASSUME Forgets, staged' \in {staged, NoKey}
       PROVE  GuardIInv'
  <2> USE <1>15 DEF Forgets
  <2>1. choice' \in Choices /\ choice'.mode = "missing"
    BY DEF NoChoice, Choices
  <2>2. staged' \in Keys \cup {NoKey, Torn} /\ attempt' \in Nat
    OBVIOUS
  <2>3. present' \in Disks \cup {NoDisk} /\ bound' = NoDisk /\ written' = NoDisk
    OBVIOUS
  <2>4. slots' = slots /\ approved' = approved /\ swapped' = FALSE /\ left' = FALSE
    OBVIOUS
  <2>5. job' = "choose" /\ gpc' = "idle" /\ attempt' = attempt
    OBVIOUS
  <2>6. GuardTypeOK'
    BY <2>1, <2>2, <2>3, <2>4, <2>5
  <2>7. AttemptInv'
    BY <2>4, <2>5
  <2>8. StagingInv' /\ BoundInv'
    BY <2>1, <2>3, <2>5
  <2>9. LuksKeyIsApproved' /\ EraseIsApproved' /\ RefusalLeavesNoKey'
    BY <2>3, <2>4, <2>5
  <2> QED
    BY <2>6, <2>7, <2>8, <2>9
<1>16. CASE TryAgain \/ Restart
  <2>1. Forgets /\ staged' \in {staged, NoKey}
    BY <1>16 DEF TryAgain, Restart
  <2> QED
    BY <2>1, <1>15, Zenon
<1>17. CASE Exchange
  <2> USE <1>17 DEF Exchange
  <2>1. GuardTypeOK'
    OBVIOUS
  <2>2. AttemptInv' /\ StagingInv'
    OBVIOUS
  <2>3. BoundInv' /\ EraseIsApproved'
    OBVIOUS
  <2> QED
    BY <2>1, <2>2, <2>3
<1>18. CASE UNCHANGED guardVars
  <2> USE <1>18 DEF guardVars
  <2>1. GuardTypeOK'
    BY ZenonT(30)
  <2>2. AttemptInv' /\ StagingInv'
    OBVIOUS
  <2>3. BoundInv'
    OBVIOUS
  <2> QED
    BY ZenonT(30), <2>1, <2>2, <2>3
<1> QED
  BY <1>1, <1>2, <1>3, <1>4, <1>5, <1>6, <1>7, <1>8, <1>9, <1>10, <1>11, <1>12, <1>13, <1>14,
     <1>16, <1>17, <1>18 DEF GuardNext

\* The guard's state stays inside its types, through retries and restarts.
THEOREM GuardTypeCorrect == GuardSpec => []GuardTypeOK
<1>1. GuardIInv => GuardTypeOK
  BY DEF GuardIInv
<1> QED
  BY <1>1, InitGuard, GuardStep, PTL DEF GuardSpec

-----------------------------------------------------------------------------
(* The guard in the installation. *)

\* A step of the installation is a step of the guard or leaves its state alone.
LEMMA InstallStepGuards == [InstallNext]_installVars => [GuardNext]_guardVars
<1> SUFFICES ASSUME [InstallNext]_installVars
             PROVE  GuardNext \/ UNCHANGED guardVars
  OBVIOUS
<1>1. CASE Setup
  BY <1>1 DEF Setup
<1>2. CASE Calamares
  BY <1>2 DEF Calamares, GuardNext
<1>3. CASE NewTarget
  BY <1>3 DEF NewTarget, GuardNext
<1>4. CASE NewSession
  BY <1>4 DEF NewSession, GuardNext
<1>5. CASE Finalize
  BY <1>5 DEF Finalize
<1>6. \A ok : Ends(ok) => LaterJobs \/ UNCHANGED guardVars
  BY DEF Ends
<1>7. CASE CopyConfiguration
  BY <1>6, <1>7 DEF CopyConfiguration, Continues, GuardNext
<1>8. CASE InstallPin
  BY <1>6, <1>8 DEF InstallPin, Continues, GuardNext
<1>9. CASE UpdateHermes
  BY <1>6, <1>9 DEF UpdateHermes, GuardNext
<1>10. CASE UNCHANGED installVars
  BY <1>10 DEF installVars
<1> QED
  BY <1>1, <1>2, <1>3, <1>4, <1>5, <1>7, <1>8, <1>9, <1>10 DEF InstallNext

\* The installation implements the guard: what holds of the guard alone, under any
\* behaviour of the jobs around it, holds in it.
THEOREM InstallImplementsGuard == InstallSpec => GuardSpec
<1>1. InstallInit => GuardInit
  BY DEF InstallInit
<1> QED
  BY <1>1, InstallStepGuards, PTL DEF InstallSpec, GuardSpec

\* What the staging file and the bound disk are at each place holds in it, too.
LEMMA InstallKeepsGuard == InstallSpec => []GuardIInv
BY InstallImplementsGuard, InitGuard, GuardStep, PTL DEF GuardSpec

\* LuksKeyIsApproved: only this attempt's noted and confirmed key reaches a volume.
THEOREM LuksKeyIsAlwaysApproved == InstallSpec => []LuksKeyIsApproved
<1>1. GuardIInv => LuksKeyIsApproved
  BY DEF GuardIInv
<1> QED
  BY <1>1, InstallKeepsGuard, PTL

\* EraseIsApproved: a whole disk is written only after the ceremony about it.
THEOREM EraseIsAlwaysApproved == InstallSpec => []EraseIsApproved
<1>1. GuardIInv => EraseIsApproved
  BY DEF GuardIInv
<1> QED
  BY <1>1, InstallKeepsGuard, PTL

\* RefusalLeavesNoKey: a guard that refuses by itself removes the key.
THEOREM RefusalNeverLeavesKey == InstallSpec => []RefusalLeavesNoKey
<1>1. GuardIInv => RefusalLeavesNoKey
  BY DEF GuardIInv
<1> QED
  BY <1>1, InstallKeepsGuard, PTL

-----------------------------------------------------------------------------
(* The setup window. *)

\* The window's types and its consents are kept together.
SetupIInv == SetupTypeOK /\ ConsentIsCurrent

\* The first form asks for nothing and nothing is staged.
LEMMA InitSetup == InstallInit => SetupIInv
<1> SUFFICES ASSUME InstallInit
             PROVE  SetupIInv
  OBVIOUS
<1> USE DEF InstallInit, SetupInit
<1>1. Offline \in Providers
  BY SetupAssumption DEF Providers
<1>2. file \in [Files -> 0..saves] /\ saves \in Nat /\ saved \in 0..saves
  OBVIOUS
<1>3. consent \in BOOLEAN /\ live \in BOOLEAN /\ liveConsent \in BOOLEAN /\ worker \in BOOLEAN
  BY Zenon
<1>4. ~consent /\ ~liveConsent /\ provider = Offline /\ window = "open" /\ spoken = "none"
  BY Zenon
<1> QED
  BY <1>1, <1>2, <1>3, <1>4, Zenon DEF SetupIInv, SetupTypeOK, ConsentIsCurrent

\* Every action of the user, of the worker and of the save keeps them.
LEMMA SetupStep == SetupIInv /\ SetupNext => SetupIInv'
<1> SUFFICES ASSUME SetupIInv, SetupNext
             PROVE  SetupIInv'
  OBVIOUS
<1> USE SetupAssumption DEF SetupIInv, SetupTypeOK, ConsentIsCurrent, Providers, form, disk, Usable
<1>1. CASE Select
  BY <1>1 DEF Select
<1>2. CASE ToggleConsent
  BY <1>2 DEF ToggleConsent
<1>3. CASE ToggleLive
  BY <1>3 DEF ToggleLive
<1>4. CASE ToggleLiveConsent
  BY <1>4 DEF ToggleLiveConsent
<1>5. CASE VoiceClicked
  BY <1>5 DEF VoiceClicked
<1>6. CASE VoiceFails
  BY <1>6 DEF VoiceFails
<1>7. CASE VoiceApplied
  <2> USE <1>7 DEF VoiceApplied
  <2>1. consent' \in BOOLEAN /\ (consent' => provider' \in Cloud)
    BY Zenon
  <2>2. live' \in BOOLEAN /\ liveConsent' = live'
    OBVIOUS
  <2>3. UNCHANGED <<file, saves, saved>> /\ window' = window /\ worker' \in BOOLEAN
    BY Zenon
  <2>4. provider' \in Providers /\ spoken' \in {"none", "short", "good"}
    OBVIOUS
  <2>5. liveConsent' \in BOOLEAN
    BY <2>2
  <2>6. liveConsent' => live'
    BY <2>2
  <2> QED
    BY <2>1, <2>2, <2>3, <2>4, <2>5, <2>6, Zenon
<1>8. CASE Save
  <2> USE <1>8 DEF Save
  <2>1. saves' \in Nat /\ saves' = saves + 1
    OBVIOUS
  <2>2. \A n : Replaced(n, saves') \in [Files -> 0..saves']
    BY <2>1 DEF Replaced
  <2>3. file' \in [Files -> 0..saves']
    BY <2>2
  <2>4. /\ window' \in {"open", "saved", "closed"} /\ spoken' \in {"none", "short", "good"}
        /\ saved' \in 0..saves'
    BY <2>1
  <2> QED
    BY <2>1, <2>3, <2>4
<1>9. CASE Close
  BY <1>9 DEF Close
<1> QED
  BY <1>1, <1>2, <1>3, <1>4, <1>5, <1>6, <1>7, <1>8, <1>9 DEF SetupNext

\* The rest of the installation leaves the window alone or begins a new session.
LEMMA InstallSetupStep == SetupIInv /\ [InstallNext]_installVars => SetupIInv'
<1> SUFFICES ASSUME SetupIInv, [InstallNext]_installVars
             PROVE  SetupIInv'
  OBVIOUS
<1>1. CASE Setup
  BY <1>1, SetupStep DEF Setup
<1>2. CASE NewSession
  <2> USE <1>2, SetupAssumption DEF NewSession, SetupIInv, SetupTypeOK, ConsentIsCurrent, Providers
  <2>1. file' \in [Files -> 0..saves'] /\ saves' \in Nat /\ saved' \in 0..saves'
    OBVIOUS
  <2>2. /\ consent' \in BOOLEAN /\ live' \in BOOLEAN /\ liveConsent' \in BOOLEAN
        /\ worker' \in BOOLEAN
    BY Zenon
  <2>3. Offline \in Cloud \cup NoCloud /\ provider' = Offline
    OBVIOUS
  <2>4. ~consent' /\ ~liveConsent' /\ window' = "open" /\ spoken' = "none"
    BY Zenon
  <2> QED
    BY <2>1, <2>2, <2>3, <2>4, Zenon
<1>3. CASE UNCHANGED setupVars
  BY <1>3 DEF setupVars, form, disk, SetupIInv, SetupTypeOK, ConsentIsCurrent
<1>4. \A ok : Ends(ok) => UNCHANGED setupVars
  BY DEF Ends
<1>5. CASE CopyConfiguration
  BY <1>3, <1>4, <1>5 DEF CopyConfiguration, Continues
<1>6. CASE InstallPin \/ UpdateHermes
  BY <1>3, <1>4, <1>6 DEF InstallPin, UpdateHermes, Continues
<1>7. CASE Calamares \/ NewTarget \/ Finalize \/ UNCHANGED installVars
  <2>1. UNCHANGED setupVars
    BY <1>7 DEF Calamares, NewTarget, Finalize, installVars
  <2> QED
    BY <2>1, <1>3
<1> QED
  BY <1>1, <1>2, <1>5, <1>6, <1>7 DEF InstallNext

\* ConsentIsCurrent: no consent outlives what it was given for.
THEOREM ConsentIsAlwaysCurrent == InstallSpec => []ConsentIsCurrent
<1>1. SetupIInv => ConsentIsCurrent
  BY DEF SetupIInv
<1> QED
  BY <1>1, InitSetup, InstallSetupStep, PTL DEF InstallSpec

-----------------------------------------------------------------------------
(* The finalizer. *)

\* The files that the finalizer reads are among those that a save replaces.
LEMMA TargetsAreFiles == Targets \subseteq Files /\ Staged("config.yaml") \in Files
<1>1. /\ Writes[1] = Staged(Hermes[1]) /\ Writes[2] = Staged(Hermes[2])
      /\ Writes[3] = Staged(Hermes[3]) /\ Writes[8] = Pin
  BY DEF Writes
<1>2. DOMAIN Writes = 1..8
  BY DEF Writes
<1>3. \A i \in 1..3 : i = 1 \/ i = 2 \/ i = 3
  OBVIOUS
<1>4. \A i \in 1..3 : Staged(Hermes[i]) \in Files
  BY <1>1, <1>2, <1>3 DEF Files
<1>5. Hermes[1] = "config.yaml" /\ Pin \in Files
  BY <1>1, <1>2 DEF Hermes, Files
<1> QED
  BY <1>4, <1>5 DEF Targets

\* The session's last save was reported as saved.
Whole == saved > 0 /\ saved = saves

\* Calamares begins when the window is closed, and the finalizer is a part of it.
PhaseInv ==
  /\ job # "choose" => window = "closed"
  /\ fpc # "idle" => job \in {"users", "done"}
  /\ finished => job = "done"

\* While it runs the staged files are those of one save, and the target's are
\* those of the same save as far as the finalizer has come.
CopyInv ==
  /\ Whole => \A f \in Files : file[f] = saved
  /\ Whole /\ fpc \in {"pin", "update"} => \A i \in 1..3 : target[Staged(Hermes[i])] = saved
  /\ Whole /\ fpc = "update" => target[Pin] = saved

WholeIInv ==
  /\ file \in [Files -> 0..saves] /\ saves \in Nat /\ saved \in 0..saves
  /\ target \in [Targets -> Nat] /\ fpc \in FinalizerPC /\ finished \in BOOLEAN
  /\ job \in Jobs /\ PhaseInv /\ CopyInv /\ FinalizedIsWhole

\* Nothing is staged and no target exists.
LEMMA InitWhole == InstallInit => WholeIInv
<1> SUFFICES ASSUME InstallInit
             PROVE  WholeIInv
  OBVIOUS
<1> USE DEF InstallInit, SetupInit, GuardInit
<1>1. file \in [Files -> 0..saves] /\ saves \in Nat /\ saved \in 0..saves /\ ~Whole
  BY DEF Whole
<1>2. target \in [Targets -> Nat]
  BY DEF Empty
<1>3. fpc = "idle" /\ job = "choose" /\ finished = FALSE
  OBVIOUS
<1>4. PhaseInv /\ CopyInv /\ FinalizedIsWhole
  BY <1>1, <1>3 DEF PhaseInv, CopyInv, FinalizedIsWhole, Whole
<1> QED
  BY <1>1, <1>2, <1>3, <1>4 DEF WholeIInv, Jobs, FinalizerPC

\* A save happens in an open window, which is not open while Calamares runs.
LEMMA SetupKeepsWhole == WholeIInv /\ Setup => WholeIInv'
<1> SUFFICES ASSUME WholeIInv, Setup
             PROVE  WholeIInv'
  OBVIOUS
<1> USE DEF Setup, finalizerVars, guardVars
<1>1. job = "choose" /\ fpc = "idle" /\ ~finished
  <2>1. SetupNext => Usable
    BY DEF SetupNext, Select, ToggleConsent, ToggleLive, ToggleLiveConsent, VoiceClicked,
       VoiceFails, VoiceApplied, Save, Close
  <2> QED
    BY <2>1 DEF WholeIInv, PhaseInv, Usable
<1>2. UNCHANGED <<job, fpc, target, finished>>
  OBVIOUS
<1>3. PhaseInv' /\ FinalizedIsWhole'
  BY <1>1, <1>2 DEF PhaseInv, FinalizedIsWhole
<1>4. CASE Save
  <2> USE <1>4 DEF Save
  <2>1. saves' \in Nat /\ saves' = saves + 1 /\ saved \in 0..saves
    BY DEF WholeIInv
  <2>2. \A n : Replaced(n, saves') \in [Files -> 0..saves']
    BY <2>1 DEF Replaced, WholeIInv
  <2>3. file' \in [Files -> 0..saves']
    BY <2>2
  <2>5. PICK n \in 0..Len(Writes) :
          /\ file' = Replaced(n, saves')
          /\ IF n = Len(Writes) THEN saved' = saves' ELSE saved' = saved
    OBVIOUS
  <2>6. n = Len(Writes) => \A f \in Files : file'[f] = saves'
    <3>1. DOMAIN Writes = 1..Len(Writes)
      BY DEF Writes
    <3> QED
      BY <2>5, <3>1 DEF Replaced, Files
  <2> DEFINE Reported == saved' \in 0..saves' /\ (saved' = saves' => n = Len(Writes))
  <2>4. ASSUME n = Len(Writes) PROVE Reported
    <3>1. saved' = saves'
      BY <2>4, <2>5
    <3> QED
      BY <2>1, <2>4, <3>1
  <2>9. ASSUME n # Len(Writes) PROVE Reported
    <3>1. saved' = saved
      BY <2>5, <2>9
    <3>2. saved \in 0..(saves + 1) /\ saved # saves + 1
      <4> HIDE <1>4 DEF Save, Setup
      <4>1. saves \in Nat /\ saved \in 0..saves
        BY DEF WholeIInv
      <4> QED
        BY <4>1
    <3>3. saved' \in 0..saves' /\ saved' # saves'
      BY <2>1, <3>1, <3>2, Zenon
    <3> QED
      BY <3>3
  <2>7. Reported
    BY <2>4, <2>9
  <2>8. CopyInv'
    BY <1>1, <1>2, <2>5, <2>6, <2>7 DEF CopyInv, Whole
  <2> QED
    BY <1>2, <1>3, <2>1, <2>3, <2>7, <2>8 DEF WholeIInv
<1>5. CASE ~Save
  <2>1. UNCHANGED disk
    BY <1>5 DEF SetupNext, Select, ToggleConsent, ToggleLive, ToggleLiveConsent, VoiceClicked,
       VoiceFails, VoiceApplied, Close
  <2>2. CopyInv'
    BY <1>2, <2>1 DEF WholeIInv, CopyInv, Whole, disk
  <2> QED
    BY <1>2, <1>3, <2>1, <2>2 DEF WholeIInv, disk
<1> QED
  BY <1>4, <1>5

\* The guard's and Calamares' other steps change neither the staged files nor the
\* target; one that leaves "users" or "done" is a part of the finalizer or a restart.
LEMMA CalamaresKeepsWhole == WholeIInv /\ Calamares => WholeIInv'
<1> SUFFICES ASSUME WholeIInv, Calamares
             PROVE  WholeIInv'
  OBVIOUS
<1>1. UNCHANGED <<window, file, saves, saved, fpc, target, finished>>
  BY DEF Calamares, setupVars, disk, finalizerVars
<1>2. job' \in Jobs /\ (job' = job \/ (job \notin {"users", "done"} /\ window' = "closed"))
  <2>1. CASE window = "closed" /\ Begin
    BY <1>1, <2>1 DEF Begin, Jobs
  <2>2. CASE GuardEnds \/ Luks \/ TryAgain
    BY <1>1, <2>2 DEF GuardEnds, Luks, TryAgain, Forgets, Jobs, WholeIInv, PhaseInv
  <2>3. CASE GuardDiscard \/ GuardMode \/ GuardBind \/ GuardStage \/ GuardReadback \/ GuardPhrase
    BY <2>3 DEF GuardDiscard, GuardMode, GuardBind, GuardStage, GuardReadback, GuardPhrase, Passes,
       calamares, WholeIInv
  <2>4. CASE GuardAnnounce \/ GuardHandler \/ GuardKilled \/ Exchange
    BY <2>4 DEF GuardAnnounce, GuardHandler, GuardKilled, Exchange, Passes, calamares, WholeIInv
  <2> QED
    BY <2>1, <2>2, <2>3, <2>4 DEF Calamares
<1>3. PhaseInv'
  BY <1>1, <1>2 DEF WholeIInv, PhaseInv
<1>4. CopyInv' /\ FinalizedIsWhole'
  BY <1>1 DEF WholeIInv, CopyInv, FinalizedIsWhole, Whole
<1> QED
  BY <1>1, <1>2, <1>3, <1>4 DEF WholeIInv

\* Each part of the finalizer leaves its files as those of the staged save, or ends
\* the run.
LEMMA FinalizerKeepsWhole ==
  WholeIInv /\ (CopyConfiguration \/ InstallPin \/ UpdateHermes) => WholeIInv'
<1> SUFFICES ASSUME WholeIInv, CopyConfiguration \/ InstallPin \/ UpdateHermes
             PROVE  WholeIInv'
  OBVIOUS
<1> DEFINE Ending(ok) ==
      /\ fpc' = "idle" /\ finished' = (ok \/ finished)
      /\ IF job = "users" THEN job' = (IF ok THEN "done" ELSE "failed") ELSE job' = job
<1>1. ASSUME NEW ok \in BOOLEAN, Ends(ok)
      PROVE  Ending(ok) /\ UNCHANGED setupVars
  BY <1>1 DEF Ends, guardVars
<1>2. UNCHANGED <<window, file, saves, saved>>
  BY <1>1 DEF CopyConfiguration, InstallPin, UpdateHermes, Continues, setupVars, disk
<1>3. fpc \in {"config", "pin", "update"} /\ job \in {"users", "done"} /\ window = "closed"
  BY DEF CopyConfiguration, InstallPin, UpdateHermes, WholeIInv, PhaseInv
<1>4. /\ \A f \in Files : file[f] \in Nat
      /\ Whole => \A f \in Files : file[f] = saved /\ file[f] > 0
  BY DEF WholeIInv, CopyInv, Whole
<1>5. \/ \E ok \in BOOLEAN : Ending(ok) /\ (ok => fpc = "update" /\ target' = target)
      \/ finished' = finished /\ job' = job /\ fpc' \in {"pin", "update"}
  BY <1>1 DEF CopyConfiguration, InstallPin, UpdateHermes, Continues, guardVars
<1>6. job' \in Jobs /\ fpc' \in FinalizerPC /\ finished' \in BOOLEAN /\ PhaseInv'
  <2>1. CASE \E ok \in BOOLEAN : Ending(ok)
    BY <1>2, <1>3, <2>1 DEF WholeIInv, PhaseInv, Jobs, FinalizerPC
  <2>2. CASE finished' = finished /\ job' = job /\ fpc' \in {"pin", "update"}
    BY <1>2, <1>3, <2>2 DEF WholeIInv, PhaseInv, FinalizerPC
  <2> QED
    BY <1>5, <2>1, <2>2
<1>7. \A n : Copied(n) \in [Targets -> Nat]
  BY <1>4, TargetsAreFiles DEF Copied, WholeIInv
<1>8. target' \in [Targets -> Nat]
  BY <1>4, <1>7, TargetsAreFiles
  DEF CopyConfiguration, InstallPin, UpdateHermes, WholeIInv, Targets
<1>9. Whole /\ finished => \A f \in Targets : target[f] = saved
  BY DEF WholeIInv, FinalizedIsWhole, Whole
<1>10. Whole' <=> Whole
  BY <1>2 DEF Whole
<1>11. CASE CopyConfiguration
  <2>1. ASSUME Whole, fpc' = "pin"
        PROVE  \A i \in 1..3 : target'[Staged(Hermes[i])] = saved
    <3>1. target' = Copied(3)
      BY <1>4, <1>11, <2>1, TargetsAreFiles DEF CopyConfiguration, Ends
    <3>2. \A i \in 1..3 : Staged(Hermes[i]) \in Targets
      BY DEF Targets
    <3>3. \A f \in Targets : (\E i \in 1..3 : f = Staged(Hermes[i])) => Copied(3)[f] = file[f]
      BY <1>4, <2>1, TargetsAreFiles DEF Copied
    <3>4. \A i \in 1..3 : file[Staged(Hermes[i])] = saved
      BY <1>4, <2>1, <3>2, TargetsAreFiles
    <3> QED
      BY <3>1, <3>2, <3>3, <3>4, Zenon
  <2>2. fpc' # "update"
    BY <1>11 DEF CopyConfiguration, Continues, Ends
  <2>3. CopyInv'
    BY <1>2, <1>4, <1>10, <2>1, <2>2 DEF CopyInv, Whole
  <2>4. FinalizedIsWhole'
    <3>1. finished' = finished
      BY <1>1, <1>11 DEF CopyConfiguration, Continues, Ends, WholeIInv
    <3>2. \A n, f : Whole /\ finished /\ f \in Targets => Copied(n)[f] = saved
      BY <1>4, <1>9, TargetsAreFiles DEF Copied
    <3>3. Whole /\ finished => \A f \in Targets : target'[f] = saved
      BY <1>9, <1>11, <3>2 DEF CopyConfiguration
    <3> QED
      BY <1>2, <3>1, <3>3 DEF FinalizedIsWhole, Whole
  <2> QED
    BY <1>2, <1>6, <1>8, <2>3, <2>4 DEF WholeIInv
<1>12. CASE InstallPin
  <2>1. target' \in {target, [target EXCEPT ![Pin] = file[Pin]]} /\ finished' = finished
    BY <1>1, <1>12 DEF InstallPin, Continues, Ends, WholeIInv
  <2>2. Pin \in Targets /\ (Whole => file[Pin] = saved /\ file[Pin] > 0)
    BY <1>4, TargetsAreFiles DEF Targets
  <2>3. Whole => \A f \in Targets : target[f] = saved => target'[f] = saved
    BY <2>1, <2>2 DEF WholeIInv
  <2>4. Whole => \A i \in 1..3 : target'[Staged(Hermes[i])] = saved
    BY <1>12, <2>3 DEF InstallPin, WholeIInv, CopyInv, Targets
  <2>5. Whole /\ fpc' = "update" => target'[Pin] = saved
    BY <1>12, <2>2 DEF InstallPin, Continues, Ends, WholeIInv
  <2>6. CopyInv'
    BY <1>2, <1>4, <1>10, <2>4, <2>5 DEF CopyInv, Whole
  <2>7. FinalizedIsWhole'
    BY <1>2, <1>9, <2>1, <2>3 DEF FinalizedIsWhole, Whole
  <2> QED
    BY <1>2, <1>6, <1>8, <2>6, <2>7 DEF WholeIInv
<1>13. CASE UpdateHermes
  <2>1. target' = target /\ fpc' = "idle"
    BY <1>13 DEF UpdateHermes, Ends
  <2>2. Whole => \A f \in Targets : target[f] = saved
    BY <1>13 DEF UpdateHermes, WholeIInv, CopyInv, Targets
  <2>3. CopyInv' /\ FinalizedIsWhole'
    BY <1>2, <1>4, <2>1, <2>2 DEF CopyInv, FinalizedIsWhole, Whole
  <2> QED
    BY <1>2, <1>6, <1>8, <2>3 DEF WholeIInv
<1> QED
  BY <1>11, <1>12, <1>13

\* The steps that make a new target or begin a new session start from nothing.
LEMMA InstallWholeStep == WholeIInv /\ [InstallNext]_installVars => WholeIInv'
<1> SUFFICES ASSUME WholeIInv, [InstallNext]_installVars
             PROVE  WholeIInv'
  OBVIOUS
<1>1. CASE NewTarget
  <2> USE <1>1 DEF NewTarget, Partition, setupVars, disk
  <2>1. job = "partition" /\ job' \in {"luks", "failed"} /\ window' = window
    OBVIOUS
  <2>2. UNCHANGED <<file, saves, saved, fpc>> /\ fpc = "idle" /\ ~finished /\ ~finished'
    BY DEF WholeIInv, PhaseInv
  <2>3. target' \in [Targets -> Nat]
    <3>1. Empty \in [Targets -> Nat]
      BY DEF Empty
    <3>2. target' = Empty \/ target' = target
      BY <2>1
    <3> QED
      BY <3>1, <3>2, Zenon DEF WholeIInv
  <2>4. PhaseInv' /\ CopyInv' /\ FinalizedIsWhole'
    BY <2>1, <2>2 DEF WholeIInv, PhaseInv, CopyInv, FinalizedIsWhole, Whole
  <2>5. finished' \in BOOLEAN
    BY DEF WholeIInv
  <2> QED
    BY <2>1, <2>2, <2>3, <2>4, <2>5 DEF WholeIInv, Jobs
<1>2. CASE NewSession
  <2> USE <1>2 DEF NewSession, Restart, Forgets
  <2>1. job' = "choose" /\ fpc' = "idle" /\ saves' = saves /\ saved' = 0 /\ target' = target
    OBVIOUS
  <2>2. ~finished /\ finished' = finished
    BY DEF WholeIInv, PhaseInv
  <2>3. file' \in [Files -> 0..saves'] /\ saves' \in Nat /\ saved' \in 0..saves'
    BY DEF WholeIInv
  <2>4. PhaseInv' /\ CopyInv' /\ FinalizedIsWhole'
    BY <2>1, <2>2 DEF PhaseInv, CopyInv, FinalizedIsWhole, Whole
  <2> QED
    BY <2>1, <2>2, <2>3, <2>4 DEF WholeIInv, Jobs, FinalizerPC
<1>3. CASE Finalize
  <2>1. UNCHANGED <<window, file, saves, saved, target, finished, job>> /\ fpc' = "config"
    BY <1>3 DEF Finalize, setupVars, disk, guardVars
  <2>2. PhaseInv'
    BY <1>3, <2>1 DEF Finalize, WholeIInv, PhaseInv
  <2>3. CopyInv' /\ FinalizedIsWhole'
    BY <2>1 DEF WholeIInv, CopyInv, FinalizedIsWhole, Whole
  <2> QED
    BY <2>1, <2>2, <2>3 DEF WholeIInv, FinalizerPC
<1>4. CASE UNCHANGED installVars
  <2>1. UNCHANGED <<window, file, saves, saved, target, finished, job, fpc>>
    BY <1>4 DEF installVars, setupVars, disk, guardVars, finalizerVars
  <2>2. PhaseInv' /\ CopyInv' /\ FinalizedIsWhole'
    BY <2>1 DEF WholeIInv, PhaseInv, CopyInv, FinalizedIsWhole, Whole
  <2> QED
    BY <2>1, <2>2 DEF WholeIInv
<1> QED
  BY <1>1, <1>2, <1>3, <1>4, SetupKeepsWhole, CalamaresKeepsWhole, FinalizerKeepsWhole
  DEF InstallNext

\* FinalizedIsWhole: a finished installation has the files and the PIN of one save.
THEOREM FinalizedIsAlwaysWhole == InstallSpec => []FinalizedIsWhole
<1>1. WholeIInv => FinalizedIsWhole
  BY DEF WholeIInv
<1> QED
  BY <1>1, InitWhole, InstallWholeStep, PTL DEF InstallSpec

-----------------------------------------------------------------------------
(* The Hermes updater: the properties speak of what a run leaves behind, and  *)
(* IInv adds what each place of a run knows about the release it works on.     *)

\* Only a run that has ended has said anything, and a release has a name once it
\* has been looked up.
PlaceInv ==
  /\ told # None => pc = "idle"
  /\ pc \notin {"idle", "lookup", "fallback"} => release \in Releases

\* The launcher is switched to, and the record written for, an installed release.
LinkInv ==
  /\ pc \in {"link", "relink", "record", "rerecord"} => Installed(release)
  /\ pc \in {"record", "rerecord"} => launcher = release

\* Whatever this run removes, it has put there itself: the destination was not
\* complete when the run began.
OwnInv == pc \in {"sync", "link", "record", "cleanup"} => before[release] # "ready"

IInv == TypeOK /\ PlaceInv /\ LinkInv /\ OwnInv /\ AnnouncedIsInstalled /\ ReadyReleasesSurvive

-----------------------------------------------------------------------------
\* What remains of a directory is never more than there was.
LEMMA RemainsTyped ==
  ASSUME NEW c \in Content
  PROVE  Remains(c) \subseteq Content
  BY DEF Remains, Content

\* Before the first run there is nothing but the image copy.
LEMMA InitIInv == Init => IInv
  BY UpdateAssumption DEF Init, IInv, TypeOK, PlaceInv, LinkInv, OwnInv,
     AnnouncedIsInstalled, ReadyReleasesSurvive, Content, PC, Record

\* A step to another place that changes nothing else.
LEMMA GoesIInv ==
  ASSUME IInv, pc # "idle", pc' \in PC \ {"record", "rerecord"},
         UNCHANGED <<dir, launcher, record, release, linked, before, told, runs>>,
         pc' \in {"link", "relink"} => Installed(release),
         pc' \in {"sync", "link", "cleanup"} => before[release] # "ready",
         pc' \notin {"idle", "lookup", "fallback"} => release \in Releases
  PROVE  IInv'
<1>1. told = None
  BY DEF IInv, PlaceInv
<1> QED
  BY <1>1, UpdateAssumption DEF IInv, TypeOK, PlaceInv, LinkInv, OwnInv,
     AnnouncedIsInstalled, ReadyReleasesSurvive, Installed

\* A step that changes what is in the directory of the release, which was not
\* complete when the run began, and goes on to a place that fits.
LEMMA DirIInv ==
  ASSUME IInv, pc \notin {"idle", "lookup", "fallback"}, before[release] # "ready",
         NEW c \in Content, dir' = [dir EXCEPT ![release] = c],
         pc' \in {"idle", "sync", "link", "cleanup", "fallback"},
         pc' = "link" => c = "ready",
         UNCHANGED <<launcher, record, release, linked, before, told, runs>>
  PROVE  IInv'
<1>1. release \in Releases /\ told = None
  BY DEF IInv, PlaceInv
<1>2. TypeOK'
  BY <1>1 DEF IInv, TypeOK, PC
<1>3. PlaceInv' /\ OwnInv' /\ AnnouncedIsInstalled'
  BY <1>1, UpdateAssumption DEF PlaceInv, OwnInv, AnnouncedIsInstalled
<1>4. LinkInv'
  BY <1>1 DEF IInv, TypeOK, LinkInv, Installed
<1>5. ReadyReleasesSurvive'
  BY <1>1 DEF IInv, TypeOK, ReadyReleasesSurvive
<1> QED BY <1>2, <1>3, <1>4, <1>5 DEF IInv

\* Writing the record of an installed release, and announcing it.
LEMMA RecordsIInv ==
  ASSUME IInv, NEW from \in {"record", "rerecord"},
         NEW status \in {"updated", "already-current"}, Records(from, status)
  PROVE  IInv'
<1>1. /\ release \in Releases /\ launcher = release /\ Installed(release)
  BY DEF Records, IInv, PlaceInv, LinkInv
<1>2. record' \in Record /\ record'.release = release
  BY <1>1 DEF Records, Record
<1> QED
  BY <1>1, <1>2, UpdateAssumption DEF Records, IInv, TypeOK, PlaceInv, LinkInv, OwnInv,
     AnnouncedIsInstalled, ReadyReleasesSurvive, Installed, PC

\* Switching the launcher to an installed release.
LEMMA SwitchIInv ==
  ASSUME IInv, NEW from \in {"link", "relink"}, NEW to \in {"record", "rerecord"},
         Switch(from, to), from = "link" <=> to = "record"
  PROVE  IInv'
<1>1. release \in Releases /\ told = None /\ Installed(release)
  BY DEF Switch, IInv, PlaceInv, LinkInv
<1> QED
  BY <1>1, UpdateAssumption DEF Switch, IInv, TypeOK, PlaceInv, LinkInv, OwnInv,
     AnnouncedIsInstalled, ReadyReleasesSurvive, Installed, PC

\* Every step of a run keeps the invariant.
LEMMA NextIInv == IInv /\ [Next]_vars => IInv'
<1> SUFFICES ASSUME IInv, [Next]_vars PROVE IInv'
  OBVIOUS
<1>1. CASE Start
  BY <1>1, UpdateAssumption DEF Start, IInv, TypeOK, PlaceInv, LinkInv, OwnInv,
     AnnouncedIsInstalled, ReadyReleasesSurvive, PC
<1>2. CASE Lookup
  <2>1. CASE Goes("lookup", {"fallback"})
    BY <2>1, GoesIInv DEF Goes, PC
  <2>2. CASE ~Goes("lookup", {"fallback"})
    BY <1>2, <2>2, UpdateAssumption DEF Lookup, IInv, TypeOK, PlaceInv, LinkInv, OwnInv,
       AnnouncedIsInstalled, ReadyReleasesSurvive, Installed, PC
  <2> QED BY <2>1, <2>2
<1>3. CASE Check
  <2>1. CASE Installed(release)
    <3>1. Goes("check", {"relink", "fallback"})
      BY <1>3, <2>1 DEF Check
    <3> QED BY <2>1, <3>1, GoesIInv DEF PC, Goes, IInv, PlaceInv
  <2>2. CASE ~Installed(release)
    <3>1. Goes("check", {"fetch"})
      BY <1>3, <2>2 DEF Check
    <3> QED BY <3>1, GoesIInv DEF PC, Goes, IInv, PlaceInv
  <2> QED BY <2>1, <2>2
<1>4. CASE Fetch
  BY <1>4, GoesIInv DEF Fetch, PC, Goes, IInv, PlaceInv
<1>5. CASE Replace
  <2>1. CASE Goes("replace", {"fallback"})
    BY <2>1, GoesIInv DEF Goes, PC
  <2>2. CASE ~Goes("replace", {"fallback"})
    <3>1. before[release] # "ready"
      BY <1>5, <2>2 DEF Replace, IInv, PlaceInv, ReadyReleasesSurvive
    <3> QED BY <1>5, <2>2, <3>1, DirIInv DEF Replace, Content
  <2> QED BY <2>1, <2>2
<1>6. CASE Sync
  <2>1. before[release] # "ready"
    BY <1>6 DEF Sync, IInv, OwnInv
  <2> QED BY <1>6, <2>1, DirIInv DEF Sync, Content
<1>7. CASE Link
  <2>1. CASE Switch("link", "record")
    BY <2>1, SwitchIInv
  <2>2. CASE Goes("link", {"cleanup"})
    BY <2>2, GoesIInv DEF PC, Goes, IInv, PlaceInv, OwnInv
  <2> QED BY <1>7, <2>1, <2>2 DEF Link
<1>8. CASE Relink
  <2>1. CASE Switch("relink", "rerecord")
    BY <2>1, SwitchIInv
  <2>2. CASE Goes("relink", {"idle"})
    BY <2>2, GoesIInv DEF Goes, PC
  <2> QED BY <1>8, <2>1, <2>2 DEF Relink
<1>9. CASE WriteRecord
  <2>1. CASE Records("record", "updated")
    BY <2>1, RecordsIInv
  <2>2. CASE Goes("record", {"cleanup"})
    BY <2>2, GoesIInv DEF PC, Goes, IInv, PlaceInv, OwnInv
  <2> QED BY <1>9, <2>1, <2>2 DEF WriteRecord
<1>10. CASE RewriteRecord
  <2>1. CASE Records("rerecord", "already-current")
    BY <2>1, RecordsIInv
  <2>2. CASE Goes("rerecord", {"idle"})
    BY <2>2, GoesIInv DEF Goes, PC
  <2> QED BY <1>10, <2>1, <2>2 DEF RewriteRecord
<1>11. CASE Cleanup
  <2>1. release \in Releases /\ before[release] # "ready" /\ dir[release] \in Content
    BY <1>11 DEF Cleanup, IInv, TypeOK, PlaceInv, OwnInv
  <2>2. Remains(dir[release]) \subseteq Content
    BY <2>1, RemainsTyped
  <2> QED BY <1>11, <2>1, <2>2, DirIInv DEF Cleanup
<1>12. CASE Fallback
  <2>1. CASE Goes("fallback", {"idle"})
    BY <2>1, GoesIInv DEF Goes, PC
  <2>2. CASE ~Goes("fallback", {"idle"})
    BY <1>12, <2>2, UpdateAssumption DEF Fallback, IInv, TypeOK, PlaceInv, LinkInv, OwnInv,
       AnnouncedIsInstalled, ReadyReleasesSurvive, Record, PC
  <2> QED BY <2>1, <2>2
<1>13. CASE Crash
  <2>1. CASE UNCHANGED dir
    BY <1>13, <2>1, GoesIInv DEF Crash, PC
  <2>2. CASE pc \in {"sync", "cleanup"}
    <3>1. release \in Releases /\ before[release] # "ready" /\ dir[release] \in Content
      BY <2>2 DEF IInv, TypeOK, PlaceInv, OwnInv
    <3>2. Remains(dir[release]) \subseteq Content
      BY <3>1, RemainsTyped
    <3> QED BY <1>13, <2>2, <3>1, <3>2, DirIInv DEF Crash, Content
  <2> QED BY <1>13, <2>1, <2>2 DEF Crash
<1>14. CASE UNCHANGED vars
  BY <1>14 DEF vars, IInv, TypeOK, PlaceInv, LinkInv, OwnInv, AnnouncedIsInstalled,
     ReadyReleasesSurvive, Installed
<1> QED
  BY <1>1, <1>2, <1>3, <1>4, <1>5, <1>6, <1>7, <1>8, <1>9, <1>10, <1>11, <1>12, <1>13,
     <1>14 DEF Next

\* The invariant holds in every state of every sequence of runs.
THEOREM InvariantHolds == Spec => []IInv
  BY InitIInv, NextIInv, PTL DEF Spec

\* Every variable keeps its type.
THEOREM TypeCorrect == Spec => []TypeOK
<1>1. IInv => TypeOK BY DEF IInv
<1> QED BY <1>1, InvariantHolds, PTL

\* A run that announces a release has installed, linked and recorded it.
THEOREM AnnouncementsAreTrue == Spec => []AnnouncedIsInstalled
<1>1. IInv => AnnouncedIsInstalled BY DEF IInv
<1> QED BY <1>1, InvariantHolds, PTL

\* No run, whatever fails and whenever it is killed, damages a release that was
\* complete before it.
THEOREM CompleteReleasesSurvive == Spec => []ReadyReleasesSurvive
<1>1. IInv => ReadyReleasesSurvive BY DEF IInv
<1> QED BY <1>1, InvariantHolds, PTL

\* The launcher is only ever switched to the latest release, with an executable.
THEOREM LauncherIsExecutable == Spec => SwitchesToExecutable
<1>1. IInv /\ [Next]_vars => [launcher' # launcher => launcher' = release /\ Installed(release)]_vars
  BY DEF IInv, LinkInv, Next, vars, Start, Lookup, Check, Fetch, Replace, Sync, Link, Relink,
     WriteRecord, RewriteRecord, Cleanup, Fallback, Crash, Goes, Switch, Records
<1> QED BY <1>1, InvariantHolds, PTL DEF Spec, SwitchesToExecutable

-----------------------------------------------------------------------------
(* The installation with the update of Hermes that its finalizer runs. *)

\* A step of the composition is one of the installation or one of the update.
LEMMA CompositionStep ==
  [MCNext]_<<vars, installVars>> => [InstallNext]_installVars /\ [Next]_vars
<1> SUFFICES ASSUME [MCNext]_<<vars, installVars>>
             PROVE  [InstallNext]_installVars /\ [Next]_vars
  OBVIOUS
<1>1. CASE InstallNext /\ UNCHANGED vars
  BY <1>1
<1>2. CASE Next /\ UNCHANGED installVars
  BY <1>2
<1>3. CASE UNCHANGED vars /\ UNCHANGED installVars
  BY <1>3
<1>4. \/ InstallNext /\ UNCHANGED vars
      \/ Next /\ UNCHANGED installVars
      \/ UNCHANGED vars /\ UNCHANGED installVars
  BY DEF MCNext
<1> QED BY <1>1, <1>2, <1>3, <1>4

\* The composition implements both of its parts.
THEOREM CompositionImplements == MCSpec => InstallSpec /\ Spec
<1>1. MCInit => InstallInit /\ Init
  BY DEF MCInit
<1> QED BY <1>1, CompositionStep, PTL DEF MCSpec, InstallSpec, Spec

\* An installation keeps the promises of the guard, of the setup window and of
\* the finalizer, and those of the update that the finalizer runs.
THEOREM InstallationKeepsPromises ==
  MCSpec => /\ [](/\ LuksKeyIsApproved /\ EraseIsApproved /\ RefusalLeavesNoKey
                 /\ ConsentIsCurrent /\ FinalizedIsWhole
                 /\ AnnouncedIsInstalled /\ ReadyReleasesSurvive)
            /\ SwitchesToExecutable
BY CompositionImplements, LuksKeyIsAlwaysApproved, EraseIsAlwaysApproved, RefusalNeverLeavesKey,
   ConsentIsAlwaysCurrent, FinalizedIsAlwaysWhole, AnnouncementsAreTrue, CompleteReleasesSurvive,
   LauncherIsExecutable, PTL
=============================================================================
