---------------------------- MODULE DesktopProofs ----------------------------
(***************************************************************************)
(* Proofs about the desktop commands other than the edits, for every       *)
(* behaviour of the applications: types, rollback and effect of TextMarks, *)
(* for fields of any length with any number of selections; Controls, for   *)
(* rows of any length and values of any range; Decisions, for any windows  *)
(* and controls; and Magnifier, for any number of channels.  At the end    *)
(* all commands, the edits too, as MCDesktop composes them.                *)
(***************************************************************************)
EXTENDS TextEditProofs, MCDesktop

(* Caret and selection commands: the old selections and the old caret are what  *)
(* the field had when the command began, and a rollback that reports success    *)
(* has compared with them.                                                      *)

\* Before the first call to the application the field is as it was; later the
\* command still knows what that was.
MarkMemoryInv ==
  /\ pc \in {"meta", "scan"} => caret = base.caret /\ sels = base.sels
  /\ pc \notin {"meta", "ended"} => at = base.caret /\ previous = base.sels
  /\ (pc \notin {"meta", "ended"} /\ op[1] \in UnselectedOps) => base.sels = <<>>

\* Only the commands on all selections add the old ones again.
ReselectInv == pc = "reselect" => op[1] \in AllOps

\* A selecting command that is about to compare has nothing selected any more.
NothingLeftInv == (pc = "recheck" /\ op[1] \in SelectOps) => sels = <<>>

MarkIInv ==
  /\ foreign \in Nat
  /\ foreign = 0 => MarkMemoryInv
  /\ ReselectInv /\ NothingLeftInv
  /\ pc # "ended" => outcome = None
  /\ pc = "ended" => outcome # None
  /\ MarkRollbackRestores

-----------------------------------------------------------------------------
\* What kinds of commands there are.
LEMMA Kinds ==
  ASSUME op \in MarkOps
  PROVE  /\ op[1] \in AllOps \cup UnselectedOps \cup {"move_caret"}
         /\ op[1] \in {"select_all", "clear_selection", "move_caret", "select_character"} \cup ScanOps
  BY DEF MarkOps, AllOps, UnselectedOps, SelectOps, ScanOps

\* A command begins.
LEMMA InitMark == MarkInit => MarkIInv
<1> SUFFICES ASSUME MarkInit PROVE MarkIInv
  OBVIOUS
<1>1. /\ pc = "meta" /\ foreign = 0 /\ outcome = None
      /\ base.caret = caret /\ base.sels = sels
  BY DEF MarkInit, Begin
<1>2. None # "restored"
  BY FieldAssumption DEF Outcome
<1> QED BY <1>1, <1>2 DEF MarkIInv, MarkMemoryInv, ReselectInv, NothingLeftInv, MarkRollbackRestores

\* Deciding changes nothing; what it remembers is the field.
LEMMA DecideIInv == MarkIInv /\ op \in MarkOps /\ (MarkMeta \/ MarkScan) => MarkIInv'
<1> SUFFICES ASSUME MarkIInv, op \in MarkOps, MarkMeta \/ MarkScan PROVE MarkIInv'
  OBVIOUS
<1>1. /\ UNCHANGED <<caret, sels, op, base, foreign>> /\ pc \in {"meta", "scan"}
      /\ \/ pc' \in {"scan", "remove", "caret", "add"} /\ outcome' = outcome
         \/ pc' = "ended" /\ outcome' \in {"refused", "unchanged"}
  <2>1. CASE MarkMeta
    <3>1. UNCHANGED <<caret, sels, op, base, foreign>> /\ pc = "meta"
      BY <2>1 DEF MarkMeta, field
    <3>2. CASE op[1] \in {"select_all", "clear_selection", "move_caret", "select_character"}
      BY <2>1, <3>1, <3>2 DEF MarkMeta, Proceed, Stop, End
    <3>3. CASE op[1] \in ScanOps
      BY <2>1, <3>1, <3>3 DEF MarkMeta, Proceed, Stop, End
    <3> QED BY <3>1, <3>2, <3>3, Kinds
  <2>2. CASE MarkScan
    BY <2>2 DEF MarkScan, Proceed, Stop, End, field
  <2> QED BY <2>1, <2>2
<1>2. ASSUME foreign = 0 PROVE MarkMemoryInv'
  <2>1. /\ caret = base.caret /\ sels = base.sels
        /\ pc = "scan" => at = base.caret /\ previous = base.sels
        /\ pc = "scan" /\ op[1] \in UnselectedOps => base.sels = <<>>
    BY <1>1, <1>2 DEF MarkIInv, MarkMemoryInv
  <2>2. at' = base.caret /\ previous' = base.sels
    <3>1. CASE MarkMeta
      BY <2>1, <3>1 DEF MarkMeta
    <3>2. CASE MarkScan
      BY <2>1, <3>2 DEF MarkScan
    <3> QED BY <3>1, <3>2
  <2>3. pc' # "ended" /\ op[1] \in UnselectedOps => base.sels = <<>>
    <3>1. CASE MarkMeta
      BY <2>1, <3>1 DEF MarkMeta, Stop, End
    <3>2. CASE MarkScan
      BY <2>1, <3>2 DEF MarkScan
    <3> QED BY <3>1, <3>2
  <2> QED BY <1>1, <2>1, <2>2, <2>3 DEF MarkMemoryInv
<1>3. MarkRollbackRestores' /\ ReselectInv' /\ NothingLeftInv'
  BY <1>1, FieldAssumption DEF MarkIInv, MarkRollbackRestores, ReselectInv, NothingLeftInv, Outcome
<1> QED BY <1>1, <1>2, <1>3, FieldAssumption DEF MarkIInv, Outcome

\* The calls up to the comparison with what was there before change nothing of
\* what the command remembers.
LEMMA WorkIInv ==
  MarkIInv /\ (RemoveOld \/ Add \/ MoveCaret \/ MarkVerify \/ MarkRestore) => MarkIInv'
<1> SUFFICES ASSUME MarkIInv, RemoveOld \/ Add \/ MoveCaret \/ MarkVerify \/ MarkRestore
             PROVE  MarkIInv'
  OBVIOUS
<1>1. /\ UNCHANGED <<op, at, previous, base, foreign>> /\ pc \notin {"meta", "scan", "ended"}
      /\ \/ pc' \in {"remove", "add", "caret", "verify", "restore"} /\ outcome' = outcome
         \/ pc' \in {"recaret", "unselect"} /\ outcome' = outcome
         \/ pc' = "ended" /\ outcome' = "done"
  <2>1. CASE RemoveOld
    BY <2>1 DEF RemoveOld, CallUnchanged
  <2>2. CASE Add
    BY <2>2 DEF Add, CallUnchanged
  <2>3. CASE MoveCaret
    BY <2>3 DEF MoveCaret, CallUnchanged
  <2>4. CASE MarkVerify
    BY <2>4 DEF MarkVerify, End, CallUnchanged
  <2>5. CASE MarkRestore
    BY <2>5 DEF MarkRestore, CallUnchanged
  <2> QED BY <2>1, <2>2, <2>3, <2>4, <2>5
<1>2. ASSUME foreign = 0 PROVE MarkMemoryInv'
  BY <1>1, <1>2 DEF MarkIInv, MarkMemoryInv
<1>3. MarkRollbackRestores' /\ ReselectInv' /\ NothingLeftInv'
  BY <1>1, FieldAssumption DEF MarkIInv, MarkRollbackRestores, ReselectInv, NothingLeftInv, Outcome
<1> QED BY <1>1, <1>2, <1>3, FieldAssumption DEF MarkIInv, Outcome

\* Taking away and adding selections, and putting the caret back.  The caret of a
\* selecting command is only put back when nothing is selected.
LEMMA UndoIInv == MarkIInv /\ (Unselect \/ Reselect \/ Recaret) => MarkIInv'
<1> SUFFICES ASSUME MarkIInv, Unselect \/ Reselect \/ Recaret PROVE MarkIInv'
  OBVIOUS
<1>1. /\ UNCHANGED <<op, at, previous, base, foreign>>
      /\ pc \in {"unselect", "reselect", "recaret"}
      /\ \/ pc' \in {"unselect", "reselect"} /\ pc' = pc /\ outcome' = outcome
         \/ pc' = "reselect" /\ op[1] \in AllOps /\ pc = "unselect" /\ outcome' = outcome
         \/ pc' = "recaret" /\ outcome' = outcome
         \/ pc' = "recheck" /\ pc \in {"reselect", "recaret"} /\ outcome' = outcome
         \/ pc' = "ended" /\ outcome' = "unrestored"
  <2>1. CASE Unselect
    BY <2>1 DEF Unselect, End, CallUnchanged
  <2>2. CASE Reselect
    BY <2>2 DEF Reselect, End, CallUnchanged
  <2>3. CASE Recaret
    BY <2>3 DEF Recaret, End, CallUnchanged
  <2> QED BY <2>1, <2>2, <2>3
<1>2. ASSUME foreign = 0 PROVE MarkMemoryInv'
  BY <1>1, <1>2 DEF MarkIInv, MarkMemoryInv
<1>3. NothingLeftInv'
  <2> SUFFICES ASSUME pc' = "recheck", op[1] \in SelectOps PROVE sels' = <<>>
    BY <1>1 DEF NothingLeftInv
  <2>1. CASE Recaret
    <3>1. sels = <<>>
      BY <2>1 DEF Recaret, End
    <3> QED BY <2>1, <3>1 DEF Recaret, PutCaret, End
  <2>2. CASE Unselect
    BY <2>2 DEF Unselect, End
  <2>3. CASE Reselect
    BY <2>3 DEF Reselect, MarkIInv, ReselectInv, AllOps, SelectOps
  <2> QED BY <2>1, <2>2, <2>3
<1>4. MarkRollbackRestores' /\ ReselectInv'
  BY <1>1, FieldAssumption DEF MarkIInv, MarkRollbackRestores, ReselectInv, Outcome
<1> QED BY <1>1, <1>2, <1>3, <1>4, FieldAssumption DEF MarkIInv, Outcome

\* A rollback that reports success has compared, and what it compared with is what
\* the field was.
LEMMA RecheckMark == MarkIInv /\ op \in MarkOps /\ MarkRecheck => MarkIInv'
<1> SUFFICES ASSUME MarkIInv, op \in MarkOps, MarkRecheck PROVE MarkIInv'
  OBVIOUS
<1>1. /\ UNCHANGED <<caret, sels, op, base, foreign>> /\ pc = "recheck" /\ pc' = "ended"
      /\ (outcome' = "restored" /\ PutBack) \/ outcome' = "unrestored"
  BY DEF MarkRecheck, End, CallUnchanged, field
<1>2. MarkRollbackRestores'
  <2> SUFFICES ASSUME outcome' = "restored", foreign = 0
               PROVE  /\ op[1] # "move_caret" => sels = base.sels
                      /\ op[1] \notin AllOps => caret = base.caret
    BY <1>1 DEF MarkRollbackRestores
  <2>1. /\ PutBack /\ at = base.caret /\ previous = base.sels
        /\ op[1] \in UnselectedOps => base.sels = <<>>
    BY <1>1 DEF MarkIInv, MarkMemoryInv
  <2>2. CASE op[1] \in AllOps
    BY <2>1, <2>2 DEF PutBack
  <2>3. CASE op[1] \notin AllOps
    <3>1. caret = base.caret
      BY <2>1, <2>3 DEF PutBack
    <3>2. CASE op[1] \in SelectOps
      BY <1>1, <2>1, <2>3, <3>1, <3>2 DEF MarkIInv, NothingLeftInv, UnselectedOps
    <3>3. CASE op[1] \in {"move_caret_word", "move_caret_line"}
      BY <2>1, <2>3, <3>1, <3>3 DEF PutBack, UnselectedOps, ScanOps
    <3> QED BY <2>3, <3>1, <3>2, <3>3, Kinds DEF UnselectedOps, ScanOps, SelectOps
  <2> QED BY <2>2, <2>3
<1>3. ReselectInv' /\ NothingLeftInv'
  BY <1>1 DEF ReselectInv, NothingLeftInv
<1>4. foreign' = 0 => MarkMemoryInv'
  BY <1>1 DEF MarkMemoryInv
<1> QED BY <1>1, <1>2, <1>3, <1>4, FieldAssumption DEF MarkIInv, Outcome

\* Every step keeps the invariant; what the user types leaves nothing to promise
\* but that a selecting command puts the caret back with nothing selected.
LEMMA NextMark == MarkIInv /\ [MarkNext]_vars => MarkIInv'
<1> SUFFICES ASSUME MarkIInv, [MarkNext]_vars PROVE MarkIInv'
  OBVIOUS
<1>1. CASE op \in MarkOps /\ (MarkMeta \/ MarkScan)
  BY <1>1, DecideIInv
<1>2. CASE RemoveOld \/ Add \/ MoveCaret \/ MarkVerify \/ MarkRestore
  BY <1>2, WorkIInv
<1>3. CASE Unselect \/ Reselect \/ Recaret
  BY <1>3, UndoIInv
<1>4. CASE op \in MarkOps /\ MarkRecheck
  BY <1>4, RecheckMark
<1>5. CASE ReadFails
  <2>1. pc' = "ended" /\ outcome' = "refused" /\ UNCHANGED <<op, base, foreign>>
    BY <1>5 DEF ReadFails, End, reading
  <2> QED BY <2>1, FieldAssumption DEF MarkIInv, MarkMemoryInv, ReselectInv, NothingLeftInv,
                                       MarkRollbackRestores, Outcome
<1>6. CASE Foreign
  <2>1. /\ foreign' = foreign + 1 /\ foreign \in Nat /\ sels' = <<>>
        /\ UNCHANGED <<op, pc, outcome>>
    BY <1>6 DEF Foreign, Typed, MarkIInv, reading
  <2>2. foreign' \in Nat /\ foreign' # 0
    BY <2>1
  <2> QED BY <2>1, <2>2 DEF MarkIInv, ReselectInv, NothingLeftInv, MarkRollbackRestores
<1>7. CASE UNCHANGED vars
  BY <1>7 DEF vars, field, reading, MarkIInv, MarkMemoryInv, ReselectInv, NothingLeftInv,
              MarkRollbackRestores
<1> QED BY <1>1, <1>2, <1>3, <1>4, <1>5, <1>6, <1>7 DEF MarkNext, MarkStep

-----------------------------------------------------------------------------
\* The invariant holds whatever the application does with the calls it gets.
THEOREM MarkInvariantHolds == MarkSpec => []MarkIInv
  BY InitMark, NextMark, PTL DEF MarkSpec

\* A rollback that reports success has restored the selections and the caret the
\* command promises to restore.
THEOREM MarkRollbacksAreComplete == MarkSpec => []MarkRollbackRestores
<1>1. MarkIInv => MarkRollbackRestores BY DEF MarkIInv
<1> QED BY <1>1, MarkInvariantHolds, PTL

-----------------------------------------------------------------------------
(* Types of the caret and selection commands. *)

\* Where the caret goes, and how many selections are left.
MarkPlans == [caret : Nat \cup {None}, left : Nat]

\* What was remembered can be selected again, and there is a plan once it is needed.
MarkReadTypes ==
  /\ previous \in Seq(Nat \X Nat) /\ \A i \in DOMAIN previous : previous[i][1] <= previous[i][2]
  /\ plan = None \/ plan \in MarkPlans
  /\ pc \notin {"meta", "scan", "ended"} => plan \in MarkPlans
  /\ pc = "caret" => plan.caret # None
  /\ pc = "reselect" => plan.left <= Len(previous)

\* The types of a caret or selection command.
MarkTypeInv == TypeOK /\ op \in MarkOps /\ MarkReadTypes

\* A command begins, with any selections.
LEMMA InitMarkTypes == MarkInit => MarkTypeInv
<1> SUFFICES ASSUME MarkInit PROVE MarkTypeInv
  OBVIOUS
<1>1. text \in Seq(Char) /\ op \in MarkOps
  BY FieldAssumption DEF MarkInit
<1>2. /\ caret \in 0..Len(text) /\ pc = "meta" /\ count = 0 /\ at = 0 /\ span = <<0, 0>>
      /\ previous = <<>> /\ plan = None /\ outcome = None
      /\ held = {text} /\ foreign = 0
  BY DEF MarkInit, Begin
<1>3. \A r \in Spans(text) : r \in Nat \X Nat /\ r[1] <= r[2] /\ r[2] <= Len(text)
  BY <1>1 DEF Spans
<1>4. FieldOK
  <2>1. CASE sels = <<>>
    BY <1>1, <1>2, <2>1 DEF FieldOK
  <2>2. CASE sels \in {<<r>> : r \in Spans(text)}
    <3>1. PICK r \in Spans(text) : sels = <<r>>
      BY <2>2
    <3> QED BY <1>1, <1>2, <1>3, <3>1 DEF FieldOK
  <2>3. CASE sels \in {<<r[1], r[2]>> : r \in {p \in Spans(text) \X Spans(text) : p[1][2] < p[2][1]}}
    <3>1. PICK r \in Spans(text) \X Spans(text) : sels = <<r[1], r[2]>>
      BY <2>3
    <3>2. r[1] \in Spans(text) /\ r[2] \in Spans(text)
      BY <3>1
    <3>3. sels \in Seq(Nat \X Nat) /\ DOMAIN sels = {1, 2} /\ sels[1] = r[1] /\ sels[2] = r[2]
      BY <1>3, <3>1, <3>2
    <3>4. \A i \in DOMAIN sels : sels[i][1] <= sels[i][2] /\ sels[i][2] <= Len(text)
      BY <1>3, <3>2, <3>3
    <3> QED BY <1>1, <1>2, <3>3, <3>4 DEF FieldOK
  <2> QED BY <2>1, <2>2, <2>3 DEF MarkInit
<1>5. TypeOK
  BY <1>1, <1>2, <1>4, FieldAssumption DEF TypeOK, PC
<1>6. MarkReadTypes
  BY <1>2 DEF MarkReadTypes
<1> QED BY <1>1, <1>5, <1>6 DEF MarkTypeInv

\* Where the word navigation ends.
LEMMA WordStartTypes ==
  ASSUME text \in Seq(Char), at \in Nat, count \in Nat, WordStart # Unreadable
  PROVE  WordStart \in Nat \X Nat /\ WordStart[1] <= WordStart[2]
<1>1. CASE op[2] = "previous"
  <2>1. CASE WordBefore(text, at) = None
    <3>1. WordStart = <<0, 0>>
      BY <1>1, <2>1 DEF WordStart
    <3> QED BY <3>1
  <2>2. CASE WordBefore(text, at) # None
    <3>1. WordBefore(text, at)[1] \in Nat
      BY <2>2, WordBeforeTypes
    <3>2. WordStart = <<WordBefore(text, at)[1], WordBefore(text, at)[1]>>
      BY <1>1, <2>2 DEF WordStart
    <3> QED BY <3>1, <3>2
  <2> QED BY <2>1, <2>2
<1>2. CASE op[2] # "previous"
  <2> DEFINE known == AtMost(count, Len(text))
             stops == {i \in at..known :
                         \/ i = count
                         \/ /\ i < known /\ text[i + 1] \in WordChar
                            /\ \E j \in at + 1..i : text[j] \notin WordChar}
  <2>1. stops # {} /\ WordStart = <<Smallest(stops), Smallest(stops)>>
    BY <1>2 DEF WordStart
  <2>2. stops \in SUBSET Nat
    BY DEF AtMost
  <2>3. Smallest(stops) \in Nat
    BY <2>1, <2>2, SmallestIsOne
  <2> QED BY <2>1, <2>3
<1> QED BY <1>1, <1>2

\* What the scan finds is a stretch of numbers in order.
LEMMA ScannedTypes ==
  ASSUME text \in Seq(Char), at \in Nat, count \in Nat, Scanned # Unreadable, Scanned # None
  PROVE  Scanned \in Nat \X Nat /\ Scanned[1] <= Scanned[2]
<1>1. ~(at > Len(text))
  BY DEF Scanned
<1>2. CASE op[1] = "move_caret_word"
  <2>1. Scanned = WordStart
    BY <1>1, <1>2 DEF Scanned
  <2> QED BY <2>1, WordStartTypes
<1>3. CASE op[1] = "select_word"
  <2>1. Scanned = AdjacentWord
    BY <1>1, <1>3 DEF Scanned
  <2>2. CASE op[2] = "previous"
    <3>1. Scanned = WordBefore(text, at)
      BY <2>1, <2>2 DEF AdjacentWord
    <3> QED BY <3>1, WordBeforeTypes
  <2>3. CASE op[2] # "previous"
    <3>1. Scanned = WordAfter(text, at, count)
      BY <2>1, <2>3 DEF AdjacentWord
    <3> QED BY <3>1, WordAfterTypes
  <2> QED BY <2>2, <2>3
<1>4. CASE op[1] \notin {"move_caret_word", "select_word"}
  <2>1. Scanned = LineAround(text, at, count)
    BY <1>1, <1>4 DEF Scanned
  <2> QED BY <2>1, LineAroundTypes
<1> QED BY <1>2, <1>3, <1>4

\* Proceeding with a stretch and a caret makes a plan.
LEMMA ProceedTypes ==
  ASSUME MarkTypeInv, NEW first \in {"remove", "caret", "add"},
         NEW r \in Nat \X Nat, r[1] <= r[2],
         NEW c \in Nat \cup {None}, NEW k \in Nat, first = "caret" => c # None,
         pc \in {"meta", "scan"}, Proceed(first, r, c, k), UNCHANGED <<field, op, held, foreign>>,
         count' \in Nat, at' \in Nat,
         previous' \in Seq(Nat \X Nat),
         \A i \in DOMAIN previous' : previous'[i][1] <= previous'[i][2]
  PROVE  MarkTypeInv'
<1>1. pc' = first /\ span' = r /\ plan' = [caret |-> c, left |-> k] /\ outcome' = outcome
  BY DEF Proceed
<1>2. plan' \in MarkPlans /\ plan'.caret = c
  BY <1>1 DEF MarkPlans
<1>3. TypeOK'
  BY <1>1, <1>2, FieldAssumption DEF MarkTypeInv, TypeOK, FieldOK, PC, field
<1>4. MarkReadTypes'
  BY <1>1, <1>2 DEF MarkReadTypes
<1> QED BY <1>3, <1>4 DEF MarkTypeInv

\* A command that stops or scans next.
LEMMA PauseTypes ==
  ASSUME MarkTypeInv, pc \in {"meta", "scan"}, UNCHANGED <<field, op, span, plan, held, foreign>>,
         \/ pc' = "ended" /\ outcome' \in Outcome
         \/ pc' = "scan" /\ outcome' = outcome,
         count' \in Nat, at' \in Nat,
         previous' \in Seq(Nat \X Nat),
         \A i \in DOMAIN previous' : previous'[i][1] <= previous'[i][2]
  PROVE  MarkTypeInv'
<1>1. TypeOK'
  BY FieldAssumption DEF MarkTypeInv, TypeOK, FieldOK, PC, field
<1>2. MarkReadTypes'
  BY DEF MarkTypeInv, MarkReadTypes
<1> QED BY <1>1, <1>2 DEF MarkTypeInv

\* The first reads.
LEMMA MarkMetaTypes == MarkTypeInv /\ MarkMeta => MarkTypeInv'
<1> SUFFICES ASSUME MarkTypeInv, MarkMeta PROVE MarkTypeInv'
  OBVIOUS
<1> DEFINE n == Len(text)
           beside == IF op[2] = "previous" THEN <<caret - 1, caret>> ELSE <<caret, caret + 1>>
<1>1. /\ pc = "meta" /\ UNCHANGED <<field, op, line, base, held, foreign>>
      /\ count' = n /\ at' = caret /\ previous' = sels
  BY DEF MarkMeta
<1>2. /\ n \in Nat /\ caret \in Nat /\ caret <= n /\ op \in MarkOps
      /\ span \in Nat \X Nat /\ span[1] <= span[2] /\ Len(sels) \in Nat
      /\ sels \in Seq(Nat \X Nat) /\ \A i \in DOMAIN sels : sels[i][1] <= sels[i][2]
  BY DEF MarkTypeInv, TypeOK, FieldOK
<1>3. /\ count' \in Nat /\ at' \in Nat /\ previous' \in Seq(Nat \X Nat)
      /\ \A i \in DOMAIN previous' : previous'[i][1] <= previous'[i][2]
  BY <1>1, <1>2
<1>4. \/ Stop("refused") \/ Stop("unchanged")
      \/ pc' = "scan" /\ UNCHANGED <<span, plan, outcome>>
      \/ Proceed("remove", <<0, n>>, None, Len(sels))
      \/ Proceed("remove", span, None, Len(sels))
      \/ op[1] = "move_caret" /\ Proceed("caret", span, Target(caret, n), 0)
      \/ /\ op[1] = "select_character" /\ ~AtBoundary(caret, n)
         /\ Proceed("add", beside, Edge(beside), 0)
  BY Kinds DEF MarkMeta, MarkTypeInv
<1>5. CASE Stop("refused") \/ Stop("unchanged")
  BY <1>1, <1>3, <1>5, PauseTypes DEF Stop, End, Outcome
<1>6. CASE pc' = "scan" /\ UNCHANGED <<span, plan, outcome>>
  BY <1>1, <1>3, <1>6, PauseTypes
<1>7. CASE Proceed("remove", <<0, n>>, None, Len(sels))
  <2>1. <<0, n>> \in Nat \X Nat /\ <<0, n>>[1] <= <<0, n>>[2]
    BY <1>2
  <2> QED BY <1>1, <1>2, <1>3, <1>7, <2>1, ProceedTypes
<1>8. CASE Proceed("remove", span, None, Len(sels))
  BY <1>1, <1>2, <1>3, <1>8, ProceedTypes
<1>9. CASE op[1] = "move_caret" /\ Proceed("caret", span, Target(caret, n), 0)
  <2>1. op \in {"move_caret"} \X {"start", "end", "previous", "next"}
    BY <1>2, <1>9 DEF MarkOps
  <2>2. Target(caret, n) \in Nat
    <3>1. op[2] \in {"start", "end", "previous", "next"}
      BY <2>1
    <3> QED BY <1>2, <3>1 DEF Target, AtMost
  <2>3. Target(caret, n) # None /\ 0 \in Nat
    BY <2>2, FieldAssumption
  <2> QED BY <1>1, <1>2, <1>3, <1>9, <2>2, <2>3, ProceedTypes
<1>10. CASE /\ op[1] = "select_character" /\ ~AtBoundary(caret, n)
            /\ Proceed("add", beside, Edge(beside), 0)
  <2>1. beside \in Nat \X Nat /\ beside[1] <= beside[2]
    <3>1. CASE op[2] = "previous"
      <4>1. caret - 1 \in Nat /\ caret - 1 <= caret
        BY <1>2, <1>10, <3>1 DEF AtBoundary
      <4> QED BY <1>2, <3>1, <4>1
    <3>2. CASE op[2] # "previous"
      <4>1. caret + 1 \in Nat /\ caret <= caret + 1
        BY <1>2
      <4> QED BY <1>2, <3>2, <4>1
    <3> QED BY <3>1, <3>2
  <2> HIDE DEF beside
  <2>2. Edge(beside) \in Nat
    BY <2>1 DEF Edge
  <2> QED BY <1>1, <1>3, <1>10, <2>1, <2>2, ProceedTypes
<1> QED BY <1>4, <1>5, <1>6, <1>7, <1>8, <1>9, <1>10

\* The one-character reads.
LEMMA MarkScanTypes == MarkTypeInv /\ MarkScan => MarkTypeInv'
<1> SUFFICES ASSUME MarkTypeInv, MarkScan PROVE MarkTypeInv'
  OBVIOUS
<1> DEFINE s == Scanned
           c == IF op = <<"move_caret_line", "start">> THEN s[1] ELSE s[2]
<1>1. pc = "scan" /\ UNCHANGED <<field, op, count, at, line, previous, base, held, foreign>>
  BY DEF MarkScan
<1>2. /\ text \in Seq(Char) /\ at \in Nat /\ count \in Nat
      /\ span \in Nat \X Nat /\ span[1] <= span[2]
      /\ previous \in Seq(Nat \X Nat) /\ \A i \in DOMAIN previous : previous[i][1] <= previous[i][2]
  BY DEF MarkTypeInv, MarkReadTypes, TypeOK, FieldOK
<1>3. \/ Stop("refused") \/ Stop("unchanged")
      \/ /\ s # Unreadable /\ s # None
         /\ Proceed("caret", span, c, 0) \/ Proceed("add", s, Edge(s), 0)
  BY DEF MarkScan
<1>4. CASE Stop("refused") \/ Stop("unchanged")
  BY <1>1, <1>2, <1>4, PauseTypes DEF Stop, End, Outcome
<1>5. CASE /\ s # Unreadable /\ s # None
           /\ Proceed("caret", span, c, 0) \/ Proceed("add", s, Edge(s), 0)
  <2>1. s \in Nat \X Nat /\ s[1] <= s[2]
    BY <1>2, <1>5, ScannedTypes
  <2> HIDE DEF s
  <2>2. c \in Nat /\ Edge(s) \in Nat
    BY <2>1 DEF Edge
  <2>3. c # None
    BY <2>2, FieldAssumption
  <2>4. CASE Proceed("caret", span, c, 0)
    BY <1>1, <1>2, <2>2, <2>3, <2>4, ProceedTypes
  <2>5. CASE Proceed("add", s, Edge(s), 0)
    BY <1>1, <1>2, <2>1, <2>2, <2>5, ProceedTypes
  <2> QED BY <1>5, <2>4, <2>5
<1> QED BY <1>3, <1>4, <1>5

\* A function on an initial segment is a sequence.
LEMMA FunctionIsSequence ==
  ASSUME NEW S, NEW n \in Nat, NEW f \in [1..n -> S]
  PROVE  f \in Seq(S)
<1>1. f \in UNION {[1..m -> S] : m \in Nat}
  OBVIOUS
<1> QED BY <1>1, SeqDef, Zenon

\* removeSelection.
LEMMA RemoveTypes ==
  ASSUME FieldOK, plan \in MarkPlans, NEW done \in BOOLEAN, RemoveLast(done),
         UNCHANGED <<text, caret>>
  PROVE  FieldOK'
<1>1. CASE done /\ plan.left \in DOMAIN sels
  <2> DEFINE f == [i \in 1..Len(sels) - 1 |-> sels[IF i < plan.left THEN i ELSE i + 1]]
  <2>1. sels' = f /\ sels \in Seq(Nat \X Nat) /\ Len(sels) - 1 \in Nat /\ plan.left \in 1..Len(sels)
    BY <1>1 DEF RemoveLast, FieldOK
  <2>2. \A i \in 1..Len(sels) - 1 : (IF i < plan.left THEN i ELSE i + 1) \in DOMAIN sels
    BY SMTT(30), <2>1
  <2>3. \A i \in 1..Len(sels) - 1 :
          f[i] \in Nat \X Nat /\ f[i][1] <= f[i][2] /\ f[i][2] <= Len(text)
    <3> SUFFICES ASSUME NEW i \in 1..Len(sels) - 1
                 PROVE  f[i] \in Nat \X Nat /\ f[i][1] <= f[i][2] /\ f[i][2] <= Len(text)
      OBVIOUS
    <3> DEFINE j == IF i < plan.left THEN i ELSE i + 1
    <3>1. j \in DOMAIN sels /\ f[i] = sels[j]
      BY <2>2
    <3> HIDE DEF j
    <3>2. sels[j] \in Nat \X Nat /\ sels[j][1] <= sels[j][2] /\ sels[j][2] <= Len(text)
      BY <3>1 DEF FieldOK
    <3> QED BY <3>1, <3>2
  <2>4. f \in Seq(Nat \X Nat) /\ DOMAIN f = 1..Len(sels) - 1
    <3>1. DOMAIN f = 1..Len(sels) - 1 /\ f = [i \in 1..Len(sels) - 1 |-> f[i]]
      OBVIOUS
    <3> HIDE DEF f
    <3>2. f \in [1..Len(sels) - 1 -> Nat \X Nat]
      BY <2>3, <3>1
    <3>3. f \in Seq(Nat \X Nat)
      BY <2>1, <3>2, FunctionIsSequence
    <3> QED BY <3>1, <3>3
  <2> QED BY <2>1, <2>3, <2>4 DEF FieldOK
<1>2. CASE ~(done /\ plan.left \in DOMAIN sels)
  BY <1>2 DEF RemoveLast, FieldOK
<1> QED BY <1>1, <1>2

\* addSelection.
LEMMA AddTypes ==
  ASSUME FieldOK, NEW done \in BOOLEAN, NEW r \in Nat \X Nat, r[1] <= r[2], AddSpan(done, r),
         UNCHANGED text
  PROVE  FieldOK'
<1>1. CASE done /\ r[2] <= Len(text)
  <2>1. sels' = Append(sels, r) /\ caret' \in {caret, r[2]} /\ sels \in Seq(Nat \X Nat)
    BY <1>1 DEF AddSpan, FieldOK
  <2>2. sels' \in Seq(Nat \X Nat) /\ Len(sels') = Len(sels) + 1 /\ Len(sels) \in Nat
    BY <2>1
  <2>3. \A i \in DOMAIN sels' : sels'[i] = IF i \in DOMAIN sels THEN sels[i] ELSE r
    BY <2>1, <2>2
  <2>4. caret' \in 0..Len(text)
    BY <1>1, <2>1 DEF FieldOK
  <2>5. \A i \in DOMAIN sels' : sels'[i][1] <= sels'[i][2] /\ sels'[i][2] <= Len(text)
    <3> SUFFICES ASSUME NEW i \in DOMAIN sels'
                 PROVE  sels'[i][1] <= sels'[i][2] /\ sels'[i][2] <= Len(text)
      OBVIOUS
    <3>1. CASE i \in DOMAIN sels
      <4>1. sels'[i] = sels[i]
        BY <2>3, <3>1
      <4> QED BY <3>1, <4>1 DEF FieldOK
    <3>2. CASE i \notin DOMAIN sels
      <4>1. sels'[i] = r
        BY <2>3, <3>2
      <4> QED BY <1>1, <4>1
    <3> QED BY <3>1, <3>2
  <2> QED BY <2>2, <2>4, <2>5 DEF FieldOK
<1>2. CASE ~(done /\ r[2] <= Len(text))
  BY <1>2 DEF AddSpan, FieldOK
<1> QED BY <1>1, <1>2

\* setCaretOffset.
LEMMA PutCaretTypes ==
  ASSUME FieldOK, NEW done \in BOOLEAN, NEW c \in Nat, PutCaret(done, c), UNCHANGED text
  PROVE  FieldOK'
<1>1. CASE done /\ c <= Len(text)
  <2>1. caret' = c /\ sels' \in {sels, <<>>} /\ Len(text) \in Nat
    BY <1>1 DEF PutCaret, FieldOK
  <2>2. caret' \in 0..Len(text)
    BY <1>1, <2>1
  <2>3. CASE sels' = sels
    BY <2>2, <2>3 DEF FieldOK
  <2>4. CASE sels' = <<>>
    BY <2>2, <2>4 DEF FieldOK
  <2> QED BY <2>1, <2>3, <2>4
<1>2. CASE ~(done /\ c <= Len(text))
  BY <1>2 DEF PutCaret, FieldOK
<1> QED BY <1>1, <1>2

\* Every call keeps the types, whatever the application makes of it.
LEMMA MarkCallTypes ==
  ASSUME MarkTypeInv,
         \/ RemoveOld \/ Add \/ MoveCaret \/ MarkVerify
         \/ MarkRestore \/ Unselect \/ Reselect \/ Recaret \/ MarkRecheck
  PROVE  MarkTypeInv'
<1>1. /\ TypeOK /\ op \in MarkOps /\ MarkReadTypes /\ FieldOK
      /\ at \in Nat /\ Len(sels) \in Nat /\ Len(previous) \in Nat
      /\ span \in Nat \X Nat /\ span[1] <= span[2]
  BY DEF MarkTypeInv, TypeOK, FieldOK, MarkReadTypes
<1>2. /\ CallUnchanged /\ UNCHANGED text
      /\ pc \in {"remove", "add", "caret", "verify", "restore", "unselect", "reselect",
                 "recaret", "recheck"}
  BY DEF RemoveOld, Add, MoveCaret, MarkVerify, MarkRestore, Unselect, Reselect, Recaret,
     MarkRecheck, CallUnchanged
<1>3. /\ plan \in MarkPlans /\ outcome = None
      /\ plan.left # 0 => plan.left - 1 \in Nat
  BY <1>1, <1>2 DEF MarkReadTypes, MarkPlans, TypeOK
<1>4. \A k \in Nat : Left(k) => plan' \in MarkPlans /\ plan'.caret = plan.caret /\ plan'.left = k
  BY <1>3 DEF Left, MarkPlans
<1>5. ASSUME FieldOK', plan' \in MarkPlans, pc' = "caret" => plan'.caret # None,
             pc' = "reselect" => plan'.left <= Len(previous),
             \/ pc' = "ended" /\ outcome' \in Outcome
             \/ pc' \in {"remove", "add", "caret", "verify", "restore", "unselect", "reselect",
                         "recaret", "recheck"} /\ outcome' = outcome
      PROVE  MarkTypeInv'
  <2>1. pc' \in PC /\ outcome' \in Outcome \cup {None} /\ (pc' = "ended" <=> outcome' # None)
    BY <1>3, <1>5, FieldAssumption DEF PC
  <2>2. TypeOK'
    BY <1>1, <1>2, <1>5, <2>1 DEF TypeOK, CallUnchanged, MarkPlans
  <2>3. MarkReadTypes'
    BY <1>1, <1>2, <1>5 DEF MarkReadTypes, CallUnchanged
  <2> QED BY <1>1, <1>2, <2>2, <2>3 DEF MarkTypeInv, CallUnchanged
<1>6. CASE RemoveOld
  <2>1. CASE plan.left = 0
    <3>1. pc' \in {"add", "verify"} /\ UNCHANGED <<field, plan, outcome>>
      BY <1>2, <1>6, <2>1 DEF RemoveOld, field
    <3> QED BY <1>1, <1>3, <1>5, <3>1 DEF FieldOK, field
  <2>2. CASE plan.left # 0
    <3>1. PICK done \in BOOLEAN : RemoveLast(done)
      BY <1>6, <2>2 DEF RemoveOld
    <3>2. /\ UNCHANGED <<text, caret, outcome>>
          /\ \/ Left(plan.left - 1) /\ pc' = "remove"
             \/ pc' = "restore" /\ UNCHANGED plan
      BY <1>2, <1>6, <2>2 DEF RemoveOld
    <3>3. FieldOK'
      BY <1>1, <1>3, <3>1, <3>2, RemoveTypes
    <3> QED BY <1>3, <1>4, <1>5, <2>2, <3>2, <3>3
  <2> QED BY <2>1, <2>2
<1>7. CASE Add
  <2>1. PICK done \in BOOLEAN : AddSpan(done, span)
    BY <1>7 DEF Add
  <2>2. /\ UNCHANGED <<plan, outcome>> /\ pc' \in {"restore", "verify", "caret"}
        /\ pc' = "caret" => plan.caret # None
    BY <1>7 DEF Add
  <2>3. FieldOK'
    BY <1>1, <1>2, <2>1, AddTypes
  <2> QED BY <1>3, <1>5, <2>2, <2>3
<1>8. CASE MoveCaret
  <2>1. PICK done \in BOOLEAN : PutCaret(done, plan.caret)
    BY <1>8 DEF MoveCaret
  <2>2. pc = "caret" /\ UNCHANGED <<plan, outcome>> /\ pc' \in {"restore", "verify"}
    BY <1>8 DEF MoveCaret
  <2>3. plan.caret \in Nat
    BY <1>1, <1>3, <2>2 DEF MarkReadTypes, MarkPlans
  <2>4. FieldOK'
    BY <1>1, <1>2, <2>1, <2>3, PutCaretTypes
  <2> QED BY <1>3, <1>5, <2>2, <2>4
<1>9. CASE MarkVerify \/ MarkRecheck
  <2>1. /\ UNCHANGED <<field, plan>>
        /\ \/ pc' = "ended" /\ outcome' \in Outcome
           \/ pc' = "restore" /\ outcome' = outcome
    BY <1>9 DEF MarkVerify, MarkRecheck, End, Outcome
  <2>2. FieldOK'
    BY <1>1, <2>1 DEF FieldOK, field
  <2> QED BY <1>3, <1>5, <2>1, <2>2
<1>10. CASE MarkRestore
  <2>1. /\ UNCHANGED <<field, outcome>>
        /\ \/ pc' = "recaret" /\ UNCHANGED plan
           \/ pc' = "unselect" /\ Left(Len(sels))
    BY <1>10 DEF MarkRestore
  <2>2. FieldOK'
    BY <1>1, <2>1 DEF FieldOK, field
  <2> QED BY <1>1, <1>3, <1>4, <1>5, <2>1, <2>2
<1>11. CASE Unselect
  <2>1. CASE plan.left = 0
    <3>1. /\ UNCHANGED <<field, outcome>>
          /\ \/ pc' = "reselect" /\ Left(Len(previous))
             \/ pc' = "recaret" /\ UNCHANGED plan
      BY <1>2, <1>11, <2>1 DEF Unselect, field
    <3>2. FieldOK'
      BY <1>1, <3>1 DEF FieldOK, field
    <3>3. CASE pc' = "reselect" /\ Left(Len(previous))
      <4>1. plan' \in MarkPlans /\ plan'.left = Len(previous)
        BY <1>1, <1>4, <3>3
      <4> QED BY <1>1, <1>5, <3>1, <3>2, <3>3, <4>1
    <3>4. CASE pc' = "recaret" /\ UNCHANGED plan
      BY <1>3, <1>5, <3>1, <3>2, <3>4
    <3> QED BY <3>1, <3>3, <3>4
  <2>2. CASE plan.left # 0
    <3>1. PICK done \in BOOLEAN : RemoveLast(done)
      BY <1>11, <2>2 DEF Unselect
    <3>2. /\ UNCHANGED <<text, caret>>
          /\ \/ Left(plan.left - 1) /\ pc' = "unselect" /\ UNCHANGED outcome
             \/ pc' = "ended" /\ outcome' \in Outcome /\ UNCHANGED plan
      BY <1>2, <1>11, <2>2 DEF Unselect, End, Outcome
    <3>3. FieldOK'
      BY <1>1, <1>3, <3>1, <3>2, RemoveTypes
    <3> QED BY <1>3, <1>4, <1>5, <2>2, <3>2, <3>3
  <2> QED BY <2>1, <2>2
<1>12. CASE Reselect
  <2>1. pc = "reselect" /\ plan.left <= Len(previous) /\ plan.left \in Nat
    BY <1>1, <1>3, <1>12 DEF Reselect, MarkReadTypes, MarkPlans
  <2>2. CASE plan.left = 0
    <3>1. pc' = "recheck" /\ UNCHANGED <<field, plan, outcome>>
      BY <1>2, <1>12, <2>2 DEF Reselect, field
    <3> QED BY <1>1, <1>3, <1>5, <3>1 DEF FieldOK, field
  <2>3. CASE plan.left # 0
    <3> DEFINE k == Len(previous) + 1 - plan.left
    <3>1. PICK done \in BOOLEAN : AddSpan(done, previous[k])
      BY <1>12, <2>3 DEF Reselect
    <3>2. \/ Left(plan.left - 1) /\ pc' = "reselect" /\ UNCHANGED outcome
          \/ pc' = "ended" /\ outcome' \in Outcome /\ UNCHANGED plan
      BY <1>12, <2>1, <2>3 DEF Reselect, End, Outcome
    <3>3. k \in 1..Len(previous)
      BY <1>1, <2>1, <2>3
    <3>4. previous[k] \in Nat \X Nat /\ previous[k][1] <= previous[k][2]
      BY SMTT(30), <1>1, <3>3 DEF MarkReadTypes
    <3>5. FieldOK'
      BY <1>1, <1>2, <3>1, <3>4, AddTypes
    <3>6. CASE Left(plan.left - 1) /\ pc' = "reselect" /\ UNCHANGED outcome
      <4>1. plan.left - 1 \in Nat /\ plan.left - 1 <= Len(previous)
        BY <1>1, <2>1, <2>3
      <4>2. plan' \in MarkPlans /\ plan'.left = plan.left - 1
        BY <1>4, <3>6, <4>1
      <4> QED BY <1>5, <3>5, <3>6, <4>1, <4>2
    <3>7. CASE pc' = "ended" /\ outcome' \in Outcome /\ UNCHANGED plan
      BY <1>3, <1>5, <3>5, <3>7
    <3> QED BY <3>2, <3>6, <3>7
  <2> QED BY <2>2, <2>3
<1>13. CASE Recaret
  <2>1. /\ UNCHANGED plan
        /\ \/ pc' = "ended" /\ outcome' \in Outcome
           \/ pc' = "recheck" /\ outcome' = outcome
        /\ UNCHANGED <<sels, caret>> \/ \E done \in BOOLEAN : PutCaret(done, at)
    BY <1>13 DEF Recaret, End, Outcome
  <2>2. CASE UNCHANGED <<sels, caret>>
    <3>1. FieldOK'
      BY <1>1, <1>2, <2>2 DEF FieldOK
    <3> QED BY <1>3, <1>5, <2>1, <3>1
  <2>3. CASE \E done \in BOOLEAN : PutCaret(done, at)
    <3>1. FieldOK'
      BY <1>1, <1>2, <2>3, PutCaretTypes
    <3> QED BY <1>3, <1>5, <2>1, <3>1
  <2> QED BY <2>1, <2>2, <2>3
<1> QED BY <1>6, <1>7, <1>8, <1>9, <1>10, <1>11, <1>12, <1>13

\* Every step keeps the types.
LEMMA NextMarkTypes == MarkTypeInv /\ [MarkNext]_vars => MarkTypeInv'
<1> SUFFICES ASSUME MarkTypeInv, [MarkNext]_vars PROVE MarkTypeInv'
  OBVIOUS
<1>1. CASE MarkMeta
  BY <1>1, MarkMetaTypes
<1>2. CASE MarkScan
  BY <1>2, MarkScanTypes
<1>3. CASE \/ RemoveOld \/ Add \/ MoveCaret \/ MarkVerify
           \/ MarkRestore \/ Unselect \/ Reselect \/ Recaret \/ MarkRecheck
  BY <1>3, MarkCallTypes
<1>4. CASE ReadFails
  <2>1. pc' = "ended" /\ outcome' = "refused" /\ UNCHANGED <<field, reading, base, held, foreign>>
    BY <1>4 DEF ReadFails, End
  <2>2. TypeOK'
    BY <2>1, FieldAssumption DEF MarkTypeInv, TypeOK, FieldOK, PC, Outcome, field, reading
  <2> QED BY <2>1, <2>2 DEF MarkTypeInv, MarkReadTypes, reading
<1>5. CASE Foreign
  <2>1. TypeOK' /\ UNCHANGED <<reading, pc, outcome, base>>
    BY <1>5, ForeignTypes DEF MarkTypeInv
  <2> QED BY <2>1 DEF MarkTypeInv, MarkReadTypes, reading
<1>6. CASE UNCHANGED vars
  BY <1>6 DEF vars, field, reading, MarkTypeInv, TypeOK, FieldOK, MarkReadTypes
<1> QED BY <1>1, <1>2, <1>3, <1>4, <1>5, <1>6 DEF MarkNext, MarkStep

\* The type invariant: caret and selections stay inside the field, through partial
\* removals, additions and rollbacks, and while the user shortens the field.
THEOREM MarkTypeCorrect == MarkSpec => []TypeOK
<1>1. MarkTypeInv => TypeOK
  BY DEF MarkTypeInv
<1> QED BY <1>1, InitMarkTypes, NextMarkTypes, PTL DEF MarkSpec

-----------------------------------------------------------------------------
(* A caret or selection command that nobody interferes with. *)

\* Where it goes, and what it selects, once it has decided.
Goal(t, c) ==
  LET left == Smallest(Offsets(t, Row(t, c)))
      right == Largest(Offsets(t, Row(t, c)))
  IN /\ op[1] \notin AllOps => plan.caret \in Nat
     /\ op[1] = "select_all" => span = <<0, Len(t)>>
     /\ op[1] = "move_caret" =>
          plan.caret = IF op[2] = "start" THEN 0 ELSE IF op[2] = "end" THEN Len(t)
                       ELSE IF op[2] = "previous" THEN c - 1 ELSE c + 1
     /\ op[1] = "move_caret_word" => NextWordStart(t, c, plan.caret)
     /\ op[1] = "move_caret_line" => plan.caret = IF op[2] = "start" THEN left ELSE right
     /\ op[1] = "select_character" =>
          IF op[2] = "previous" THEN span = <<c - 1, c>> /\ plan.caret = c - 1
          ELSE span = <<c, c + 1>> /\ plan.caret = c + 1
     /\ op[1] = "select_word" => \E i, j \in 0..Len(t) :
          /\ Nearest(t, c, i, j) /\ span = <<i, j>>
          /\ plan.caret = IF op[2] = "previous" THEN i ELSE j
     /\ op[1] = "select_line" => left < right /\ span = <<left, right>> /\ plan.caret = right

Decided == pc \in {"remove", "add", "caret", "verify"}

MarkExactInv ==
  /\ base.text \in Seq(Char) /\ base.caret \in 0..Len(base.text)
  /\ foreign = 0 =>
       /\ text = base.text
       /\ pc = "scan" => count = Len(base.text) /\ op[1] \in ScanOps
       /\ Decided \/ outcome = "done" => Goal(base.text, base.caret)
       /\ outcome = "done" => Marked
       /\ UnchangedHadNothing

\* The word navigation stays where it is only where there is nowhere to go.
LEMMA WordStartIsNext ==
  ASSUME text \in Seq(Char), at \in 0..Len(text), count = Len(text)
  PROVE  \E p \in 0..Len(text) :
           /\ WordStart = <<p, p>>
           /\ p # at => NextWordStart(text, at, p)
           /\ p = at => at = IF op[2] = "previous" THEN 0 ELSE Len(text)
<1> DEFINE n == Len(text)
<1>1. n \in Nat /\ at \in Nat
  OBVIOUS
<1>2. CASE op[2] = "previous"
  <2> DEFINE w == WordBefore(text, at)
  <2>1. CASE w = None
    <3>1. WordStart = <<0, 0>>
      BY <1>2, <2>1 DEF WordStart
    <3>2. \A i \in 1..at : text[i] \notin WordChar
      BY <1>2, <2>1, WordBeforeNearest
    <3>3. 0 # at => NextWordStart(text, at, 0)
      <4> SUFFICES ASSUME 0 # at, NEW i \in WordStarts(text) \cap (0 + 1..at - 1) PROVE FALSE
        BY <1>1, <1>2 DEF NextWordStart
      <4>1. i + 1 \in 1..at /\ text[i + 1] \in WordChar
        BY <1>1 DEF WordStarts
      <4> QED BY <3>2, <4>1
    <3> QED BY <1>1, <1>2, <3>1, <3>3
  <2>2. CASE w # None
    <3>1. PICK i \in 0..n, j \in 0..n : w = <<i, j>> /\ Nearest(text, at, i, j)
      BY <1>2, <2>2, WordBeforeNearest
    <3>2. WordStart = <<i, i>>
      BY <1>2, <2>2, <3>1 DEF WordStart
    <3>3. /\ i < j /\ j <= at /\ (\A k \in i + 1..j : text[k] \in WordChar)
          /\ \A k \in j + 1..at : text[k] \notin WordChar
          /\ i \in 1..n => text[i] \notin WordChar
      BY <1>2, <3>1 DEF Nearest
    <3>4. i \in WordStarts(text)
      <4>1. i \in 0..n - 1 /\ i + 1 \in i + 1..j /\ (i = 0 \/ i \in 1..n)
        BY <1>1, <3>3
      <4> QED BY <3>3, <4>1 DEF WordStarts
    <3>5. ASSUME NEW k \in WordStarts(text), k \in i + 1..at - 1 PROVE FALSE
      <4>1. k \in 0..n - 1 /\ text[k + 1] \in WordChar /\ (k = 0 \/ text[k] \notin WordChar)
        BY DEF WordStarts
      <4>2. k # 0 /\ (k \in i + 1..j \/ k + 1 \in j + 1..at)
        BY <1>1, <3>3, <3>5, <4>1
      <4> QED BY <3>3, <4>1, <4>2
    <3>6. i < at /\ i # at
      BY <1>1, <3>3
    <3>7. NextWordStart(text, at, i)
      BY <1>2, <3>4, <3>5, <3>6 DEF NextWordStart
    <3> QED BY <3>2, <3>6, <3>7
  <2> QED BY <2>1, <2>2
<1>3. CASE op[2] # "previous"
  <2> DEFINE known == AtMost(count, Len(text))
             stops == {i \in at..known :
                         \/ i = count
                         \/ /\ i < known /\ text[i + 1] \in WordChar
                            /\ \E j \in at + 1..i : text[j] \notin WordChar}
             p == Smallest(stops)
  <2>1. known = n /\ count = n
    BY <1>1 DEF AtMost
  <2>2. n \in stops /\ stops \in SUBSET Nat
    BY <1>1, <2>1
  <2>3. p \in stops /\ \A y \in stops : p <= y
    BY <2>2, SmallestIsOne
  <2>4. WordStart = <<p, p>>
    BY <1>3, <2>2 DEF WordStart
  <2> HIDE DEF p
  <2>5. /\ p \in at..n
        /\ p = n \/ (/\ p < n /\ text[p + 1] \in WordChar
                     /\ \E j \in at + 1..p : text[j] \notin WordChar)
    BY <2>1, <2>3
  <2>6. p # n => p \in WordStarts(text)
    <3> SUFFICES ASSUME p # n PROVE p \in WordStarts(text)
      OBVIOUS
    <3>1. PICK j \in at + 1..p : text[j] \notin WordChar
      BY <2>5
    <3>2. text[p] \notin WordChar
      <4> SUFFICES ASSUME text[p] \in WordChar PROVE FALSE
        OBVIOUS
      <4>1. j # p
        BY <3>1
      <4>2. p - 1 \in at..n /\ p - 1 < n /\ (p - 1) + 1 = p /\ j \in at + 1..p - 1
        BY <1>1, <2>5, <3>1, <4>1
      <4>3. p - 1 \in stops
        BY <2>1, <3>1, <4>2
      <4>4. p <= p - 1
        BY <2>3, <4>3
      <4> QED BY <1>1, <2>5, <4>4
    <3>3. p \in 0..n - 1
      BY <1>1, <2>5
    <3> QED BY <2>5, <3>2, <3>3 DEF WordStarts
  <2>7. ASSUME NEW k \in WordStarts(text), k \in at + 1..p - 1 PROVE FALSE
    <3>1. k \in 0..n - 1 /\ text[k + 1] \in WordChar /\ (k = 0 \/ text[k] \notin WordChar)
      BY DEF WordStarts
    <3>2. k # 0 /\ k \in at..n /\ k < n /\ k \in at + 1..k /\ k < p
      BY <1>1, <2>5, <2>7, <3>1
    <3>3. k \in stops
      BY <2>1, <3>1, <3>2
    <3>4. p <= k
      BY <2>3, <3>3
    <3> QED BY <1>1, <2>5, <3>2, <3>4
  <2>8. p # at => NextWordStart(text, at, p)
    <3> SUFFICES ASSUME p # at PROVE NextWordStart(text, at, p)
      OBVIOUS
    <3>1. at < p
      BY <1>1, <2>5
    <3> QED BY <1>3, <2>6, <2>7, <3>1 DEF NextWordStart
  <2>9. p = at => at = n
    <3> SUFFICES ASSUME p = at, p # n PROVE FALSE
      OBVIOUS
    <3>1. PICK j \in at + 1..p : text[j] \notin WordChar
      BY <2>5
    <3> QED BY <1>1, <3>1
  <2>10. p \in 0..n
    BY <1>1, <2>5
  <2> QED BY <1>3, <2>4, <2>8, <2>9, <2>10
<1> QED BY <1>2, <1>3

\* What is going on keeps what was decided.
LEMMA GoalKept ==
  ASSUME UNCHANGED <<op, span, base>>, plan'.caret = plan.caret
  PROVE  Goal(base.text, base.caret)' = Goal(base.text, base.caret)
BY DEF Goal, NextWordStart, Nearest

\* Deciding: the field is the one the command found.
LEMMA DecideTypes ==
  ASSUME MarkIInv, MarkTypeInv, MarkExactInv, foreign = 0, pc \in {"meta", "scan"}
  PROVE  /\ text = base.text /\ caret = base.caret /\ sels = base.sels
         /\ text \in Seq(Char) /\ caret \in 0..Len(text) /\ op \in MarkOps
         /\ outcome = None /\ None # "done" /\ None # "unchanged"
         /\ pc = "scan" => at = base.caret /\ count = Len(base.text) /\ op[1] \in ScanOps
<1>1. MarkMemoryInv /\ outcome = None /\ op \in MarkOps
  BY DEF MarkIInv, MarkTypeInv
<1> QED BY <1>1, FieldAssumption DEF MarkMemoryInv, MarkExactInv, Outcome

\* What a decision does: it stops, it scans, or it proceeds to what it is named for.
LEMMA DecisionExact ==
  ASSUME MarkExactInv, foreign = 0, UNCHANGED <<text, op, base, foreign>>,
         outcome' # "done", count' = Len(base.text),
         UnchangedHadNothing',
         \/ pc' = "ended"
         \/ (pc' = "scan" /\ op[1] \in ScanOps)
         \/ pc' \notin {"ended", "scan"} /\ Goal(base.text, base.caret)'
  PROVE  MarkExactInv'
BY DEF MarkExactInv, Decided

\* Reading the caret and the selections.
LEMMA MarkMetaExact ==
  ASSUME MarkIInv, MarkTypeInv, MarkExactInv, MarkMeta
  PROVE  MarkExactInv'
<1>1. /\ pc = "meta" /\ UNCHANGED <<text, op, base, foreign>>
      /\ count' = Len(text) /\ at' = caret
  BY DEF MarkMeta, field
<1>2. CASE foreign # 0
  BY <1>1, <1>2 DEF MarkExactInv
<1>3. CASE foreign = 0
  <2> DEFINE t == base.text
             c == base.caret
             n == Len(t)
             beside == IF op[2] = "previous" THEN <<c - 1, c>> ELSE <<c, c + 1>>
  <2>1. /\ text = t /\ caret = c /\ sels = base.sels /\ t \in Seq(Char) /\ c \in 0..n
        /\ op \in MarkOps /\ outcome = None /\ None # "done" /\ None # "unchanged"
    BY <1>1, <1>3, DecideTypes
  <2>2. n \in Nat /\ c \in Nat
    BY <2>1
  <2>3. CASE Stop("refused") \/ (pc' = "scan" /\ op[1] \in ScanOps /\ UNCHANGED outcome)
    <3>1. outcome' # "done" /\ outcome' # "unchanged"
      BY <2>1, <2>3 DEF Stop, End
    <3>2. pc' = "ended" \/ (pc' = "scan" /\ op[1] \in ScanOps)
      BY <2>3 DEF Stop, End
    <3> QED BY <1>1, <1>3, <2>1, <3>1, <3>2, DecisionExact DEF UnchangedHadNothing
  <2>4. CASE /\ Stop("unchanged")
             /\ \/ op[1] = "clear_selection" /\ sels = <<>>
                \/ op[1] \in {"move_caret_word", "select_character", "select_word"}
                   /\ AtBoundary(caret, Len(text))
                \/ op[1] = "move_caret" /\ Target(caret, Len(text)) = caret
    <3>1. outcome' # "done" /\ pc' = "ended"
      BY <2>4 DEF Stop, End
    <3>2. UnchangedHadNothing'
      <4>1. CASE op[1] = "clear_selection" /\ sels = <<>>
        BY <1>1, <2>1, <4>1 DEF UnchangedHadNothing
      <4>2. CASE op[1] \in {"move_caret_word", "select_character"} /\ AtBoundary(c, n)
        <5>1. c = IF op[2] = "previous" THEN 0 ELSE n
          BY <4>2 DEF AtBoundary
        <5> QED BY <1>1, <4>2, <5>1 DEF UnchangedHadNothing
      <4>3. CASE op[1] = "select_word" /\ AtBoundary(c, n)
        <5>1. ASSUME NEW i \in 0..n, NEW j \in 0..n, Nearest(t, c, i, j) PROVE FALSE
          BY <2>2, <4>3, <5>1 DEF Nearest, AtBoundary
        <5>2. ~\E i, j \in 0..Len(base'.text) : Nearest(base.text, base.caret, i, j)'
          BY <1>1, <5>1 DEF Nearest
        <5> QED BY <1>1, <4>3, <5>2 DEF UnchangedHadNothing
      <4>4. CASE op[1] = "move_caret" /\ Target(c, n) = c
        <5>1. op \in {"move_caret"} \X {"start", "end", "previous", "next"}
          BY <2>1, <4>4 DEF MarkOps
        <5>2. c = IF op[2] \in {"start", "previous"} THEN 0 ELSE n
          BY <2>1, <2>2, <4>4, <5>1 DEF Target, AtMost
        <5> QED BY <1>1, <4>4, <5>2 DEF UnchangedHadNothing
      <4> QED BY <2>1, <2>4, <4>1, <4>2, <4>3, <4>4
    <3> QED BY <1>1, <1>3, <2>1, <3>1, <3>2, DecisionExact
  <2>5. CASE op[1] = "select_all" /\ Proceed("remove", <<0, n>>, None, Len(sels))
    <3>1. pc' = "remove" /\ span' = <<0, n>> /\ outcome' = None
      BY <2>1, <2>5 DEF Proceed
    <3>2. Goal(base.text, base.caret)'
      BY <1>1, <2>5, <3>1 DEF Goal, AllOps
    <3> QED BY <1>1, <1>3, <2>1, <3>1, <3>2, DecisionExact DEF UnchangedHadNothing
  <2>6. CASE op[1] = "clear_selection" /\ Proceed("remove", span, None, Len(sels))
    <3>1. pc' = "remove" /\ outcome' = None
      BY <2>1, <2>6 DEF Proceed
    <3>2. Goal(base.text, base.caret)'
      BY <1>1, <2>6 DEF Goal, AllOps
    <3> QED BY <1>1, <1>3, <2>1, <3>1, <3>2, DecisionExact DEF UnchangedHadNothing
  <2>7. CASE /\ op[1] = "move_caret" /\ Target(c, n) # c
             /\ Proceed("caret", span, Target(c, n), 0)
    <3>1. pc' = "caret" /\ outcome' = None /\ plan'.caret = Target(c, n)
      BY <2>1, <2>7 DEF Proceed
    <3>2. op \in {"move_caret"} \X {"start", "end", "previous", "next"}
      BY <2>1, <2>7 DEF MarkOps
    <3>3. /\ Target(c, n) \in Nat
          /\ Target(c, n) = IF op[2] = "start" THEN 0 ELSE IF op[2] = "end" THEN n
                            ELSE IF op[2] = "previous" THEN c - 1 ELSE c + 1
      BY <2>1, <2>2, <2>7, <3>2 DEF Target, AtMost
    <3>4. Goal(base.text, base.caret)'
      BY <1>1, <2>7, <3>1, <3>3 DEF Goal, AllOps
    <3> QED BY <1>1, <1>3, <2>1, <3>1, <3>4, DecisionExact DEF UnchangedHadNothing
  <2>8. CASE /\ op[1] = "select_character" /\ ~AtBoundary(c, n)
             /\ Proceed("add", beside, Edge(beside), 0)
    <3>1. pc' = "add" /\ outcome' = None /\ span' = beside /\ plan'.caret = Edge(beside)
      BY <2>1, <2>8 DEF Proceed
    <3>2. op[2] = "previous" => c - 1 \in Nat
      BY <2>2, <2>8 DEF AtBoundary
    <3>3. IF op[2] = "previous"
          THEN span' = <<c - 1, c>> /\ plan'.caret = c - 1
          ELSE span' = <<c, c + 1>> /\ plan'.caret = c + 1
      BY <3>1 DEF Edge
    <3>4. Goal(base.text, base.caret)'
      BY <1>1, <2>2, <2>8, <3>2, <3>3 DEF Goal, AllOps
    <3> QED BY <1>1, <1>3, <2>1, <3>1, <3>4, DecisionExact DEF UnchangedHadNothing
  <2> HIDE DEF t, c, n, beside
  <2>9. op[1] \in {"select_all", "clear_selection", "move_caret", "select_character"} \cup ScanOps
    BY <2>1, Kinds
  <2> USE DEF t, c, n, beside
  <2> QED BY <2>1, <2>3, <2>4, <2>5, <2>6, <2>7, <2>8, <2>9 DEF MarkMeta
<1> QED BY <1>2, <1>3

\* What becomes of a scan: it refuses, has nothing to do, or goes on.
LEMMA ScanDecides ==
  ASSUME MarkScan, op[1] \in ScanOps, outcome = None, None # "done", None # "unchanged"
  PROVE  LET s == Scanned
             goes == IF op = <<"move_caret_line", "start">> THEN s[1] ELSE s[2]
         IN /\ pc = "scan" /\ UNCHANGED <<text, op, base, foreign, count>>
            /\ outcome' # "done"
            /\ \/ pc' = "ended" /\ outcome' # "unchanged"
               \/ /\ pc' = "ended" /\ outcome' = "unchanged" /\ s # Unreadable
                  /\ s = None \/ (op[1] \in MoveOps /\ goes = at)
               \/ /\ pc' = "caret" /\ outcome' # "unchanged" /\ op[1] \in MoveOps
                  /\ s # Unreadable /\ s # None /\ goes # at
                  /\ span' = span /\ plan'.caret = goes
               \/ /\ pc' = "add" /\ outcome' # "unchanged" /\ op[1] \notin MoveOps
                  /\ s # Unreadable /\ s # None /\ ~(op[1] = "select_line" /\ s[1] = s[2])
                  /\ span' = s /\ plan'.caret = Edge(s)
<1>1. pc = "scan" /\ UNCHANGED <<text, op, base, foreign, count>>
  BY DEF MarkScan, field
<1> QED BY <1>1 DEF MarkScan, Stop, End, Proceed

\* The word navigation.
LEMMA WordScanExact ==
  ASSUME MarkIInv, MarkTypeInv, MarkExactInv, MarkScan, foreign = 0,
         op[1] = "move_caret_word"
  PROVE  MarkExactInv'
<1> DEFINE t == base.text
           c == base.caret
           n == Len(t)
           s == Scanned
<1>1. pc = "scan"
  BY DEF MarkScan
<1>2. /\ text = t /\ at = c /\ count = n /\ t \in Seq(Char) /\ c \in 0..n
      /\ op[1] \in ScanOps /\ outcome = None /\ None # "done" /\ None # "unchanged"
  BY <1>1, DecideTypes
<1>3. PICK p \in 0..n :
        /\ WordStart = <<p, p>>
        /\ p # at => NextWordStart(t, c, p)
        /\ p = at => at = IF op[2] = "previous" THEN 0 ELSE n
  BY <1>2, WordStartIsNext
<1>4. s = <<p, p>>
  <2>1. ~(at > Len(text))
    BY <1>2
  <2> QED BY <1>3, <2>1 DEF Scanned
<1>5. /\ s # None /\ s[1] = p /\ s[2] = p
  BY <1>4, FieldAssumption
<1>6. op # <<"move_caret_line", "start">> /\ op[1] \in MoveOps
  BY DEF MoveOps
<1>7. /\ UNCHANGED <<text, op, base, foreign>> /\ outcome' # "done" /\ count' = Len(base.text)
      /\ \/ pc' = "ended" /\ outcome' # "unchanged"
         \/ pc' = "ended" /\ outcome' = "unchanged" /\ p = at
         \/ pc' = "caret" /\ outcome' # "unchanged" /\ p # at /\ plan'.caret = p
  BY <1>2, <1>5, <1>6, ScanDecides
<1>8. UnchangedHadNothing'
  <2>1. CASE outcome' = "unchanged"
    <3>1. c = IF op[2] = "previous" THEN 0 ELSE n
      BY <1>2, <1>3, <1>7, <2>1
    <3> QED BY <1>7, <3>1 DEF UnchangedHadNothing
  <2>2. CASE outcome' # "unchanged"
    BY <2>2 DEF UnchangedHadNothing
  <2> QED BY <2>1, <2>2
<1>9. pc' = "caret" => Goal(base.text, base.caret)'
  <2> SUFFICES ASSUME pc' = "caret" PROVE Goal(base.text, base.caret)'
    OBVIOUS
  <2>1. plan'.caret = p /\ NextWordStart(t, c, p) /\ p \in Nat
    BY <1>2, <1>3, <1>7
  <2>2. NextWordStart(base.text, base.caret, plan.caret)'
    BY <1>7, <2>1 DEF NextWordStart
  <2> QED BY <1>7, <2>1, <2>2 DEF Goal
<1> QED BY <1>7, <1>8, <1>9, DecisionExact

\* The word that is selected.
LEMMA SelectWordExact ==
  ASSUME MarkIInv, MarkTypeInv, MarkExactInv, MarkScan, foreign = 0,
         op[1] = "select_word"
  PROVE  MarkExactInv'
<1> DEFINE t == base.text
           c == base.caret
           n == Len(t)
           s == Scanned
<1>1. pc = "scan"
  BY DEF MarkScan
<1>2. /\ text = t /\ at = c /\ count = n /\ t \in Seq(Char) /\ c \in 0..n
      /\ op[1] \in ScanOps /\ outcome = None /\ None # "done" /\ None # "unchanged"
  BY <1>1, DecideTypes
<1>3. s = IF op[2] = "previous" THEN WordBefore(t, c) ELSE WordAfter(t, c, n)
  <2>1. ~(at > Len(text))
    BY <1>2
  <2>2. s = AdjacentWord
    BY <2>1 DEF Scanned
  <2> QED BY <1>2, <2>2 DEF AdjacentWord
<1>4. /\ s = None => \A i, j \in 0..n : ~Nearest(t, c, i, j)
      /\ s # None => \E i, j \in 0..n : s = <<i, j>> /\ Nearest(t, c, i, j)
  BY <1>2, <1>3, WordBeforeNearest, WordAfterNearest
<1>5. op[1] \notin MoveOps /\ op[1] # "select_line"
  BY DEF MoveOps
<1>6. /\ UNCHANGED <<text, op, base, foreign>> /\ outcome' # "done" /\ count' = Len(base.text)
      /\ \/ pc' = "ended" /\ outcome' # "unchanged"
         \/ pc' = "ended" /\ outcome' = "unchanged" /\ s = None
         \/ /\ pc' = "add" /\ outcome' # "unchanged" /\ s # None
            /\ span' = s /\ plan'.caret = Edge(s)
  BY <1>2, <1>5, ScanDecides
<1>7. UnchangedHadNothing'
  <2>1. CASE outcome' = "unchanged"
    <3>1. ~\E i, j \in 0..Len(base'.text) : Nearest(base.text, base.caret, i, j)'
      BY <1>4, <1>6, <2>1 DEF Nearest
    <3> QED BY <1>6, <3>1 DEF UnchangedHadNothing
  <2>2. CASE outcome' # "unchanged"
    BY <2>2 DEF UnchangedHadNothing
  <2> QED BY <2>1, <2>2
<1>8. pc' = "add" => Goal(base.text, base.caret)'
  <2> SUFFICES ASSUME pc' = "add" PROVE Goal(base.text, base.caret)'
    OBVIOUS
  <2>1. PICK i \in 0..n, j \in 0..n : s = <<i, j>> /\ Nearest(t, c, i, j)
    BY <1>4, <1>6
  <2>2. span' = <<i, j>> /\ plan'.caret = IF op[2] = "previous" THEN i ELSE j
    BY <1>6, <2>1 DEF Edge
  <2>3. Nearest(base.text, base.caret, i, j)' /\ i \in 0..Len(base'.text) /\ j \in 0..Len(base'.text)
    BY <1>6, <2>1 DEF Nearest
  <2>4. \E a, b \in 0..Len(base'.text) :
          /\ Nearest(base.text, base.caret, a, b)' /\ span' = <<a, b>>
          /\ plan'.caret = IF op'[2] = "previous" THEN a ELSE b
    BY <1>6, <2>2, <2>3
  <2>5. plan'.caret \in Nat
    BY <1>2, <2>2
  <2> QED BY <1>6, <2>4, <2>5 DEF Goal
<1> QED BY <1>6, <1>7, <1>8, DecisionExact

\* The line the caret is in.
LEMMA LineScanExact ==
  ASSUME MarkIInv, MarkTypeInv, MarkExactInv, MarkScan, foreign = 0,
         op[1] \in {"move_caret_line", "select_line"}
  PROVE  MarkExactInv'
<1> DEFINE t == base.text
           c == base.caret
           n == Len(t)
           s == Scanned
           goes == IF op = <<"move_caret_line", "start">> THEN s[1] ELSE s[2]
<1>1. pc = "scan"
  BY DEF MarkScan
<1>2. /\ text = t /\ at = c /\ count = n /\ t \in Seq(Char) /\ c \in 0..n /\ op \in MarkOps
      /\ op[1] \in ScanOps /\ outcome = None /\ None # "done" /\ None # "unchanged"
  BY <1>1, DecideTypes
<1>3. s = LineAround(t, c, n)
  <2>1. ~(at > Len(text))
    BY <1>2
  <2> QED BY <1>2, <2>1 DEF Scanned
<1>4. PICK i \in Nat, j \in Nat : /\ LineAround(t, c, n) = <<i, j>> /\ IsLine(t, i, j)
                                  /\ i <= c /\ c <= j
  BY <1>2, LineAroundIsLine
<1>5. /\ s = <<i, j>> /\ s # None /\ s[1] = i /\ s[2] = j /\ i <= j
  BY <1>3, <1>4, FieldAssumption DEF IsLine
<1>6. Smallest(Offsets(t, Row(t, c))) = i /\ Largest(Offsets(t, Row(t, c))) = j
  <2>1. c \in i..j
    BY <1>2, <1>4
  <2> QED BY <1>2, <1>4, <2>1, RowIsLine
<1>7. /\ op[1] = "move_caret_line" => goes = (IF op[2] = "start" THEN i ELSE j)
      /\ op[1] = "select_line" => op[2] # "previous"
  <2>1. op \in ({"move_caret_line"} \X {"start", "end"}) \cup ({"select_line"} \X {""})
    BY <1>2 DEF MarkOps
  <2>2. CASE op[1] = "move_caret_line"
    <3>1. op \in {"move_caret_line"} \X {"start", "end"}
      BY <2>1, <2>2
    <3> QED BY <1>5, <2>2, <3>1
  <2>3. CASE op[1] = "select_line"
    <3>1. op \in {"select_line"} \X {""}
      BY <2>1, <2>3
    <3>2. op[2] # "previous"
      BY <3>1
    <3> QED BY <2>3, <3>2
  <2> QED BY <2>2, <2>3
<1>8. op[1] \in MoveOps <=> op[1] = "move_caret_line"
  BY DEF MoveOps
<1>9. /\ UNCHANGED <<text, op, base, foreign>> /\ outcome' # "done" /\ count' = Len(base.text)
      /\ \/ pc' = "ended" /\ outcome' # "unchanged"
         \/ pc' = "ended" /\ outcome' = "unchanged" /\ op[1] = "move_caret_line" /\ goes = c
         \/ pc' = "caret" /\ outcome' # "unchanged" /\ op[1] = "move_caret_line"
            /\ plan'.caret = goes
         \/ /\ pc' = "add" /\ outcome' # "unchanged" /\ op[1] = "select_line" /\ i # j
            /\ span' = s /\ plan'.caret = Edge(s)
  BY <1>2, <1>5, <1>8, ScanDecides
<1>10. UnchangedHadNothing'
  <2>1. CASE outcome' = "unchanged"
    <3>1. op[1] = "move_caret_line" /\ c = IF op[2] = "start" THEN i ELSE j
      BY <1>7, <1>9, <2>1
    <3>2. UNCHANGED Offsets(base.text, Row(base.text, base.caret))
      BY <1>9 DEF Offsets, Row
    <3>3. /\ op'[1] = "move_caret_line"
          /\ base'.caret = IF op'[2] = "start" THEN Smallest(Offsets(base.text, Row(base.text, base.caret)))'
                           ELSE Largest(Offsets(base.text, Row(base.text, base.caret)))'
      BY <1>6, <1>9, <3>1, <3>2 DEF Smallest, Largest
    <3> QED BY <3>3 DEF UnchangedHadNothing
  <2>2. CASE outcome' # "unchanged"
    BY <2>2 DEF UnchangedHadNothing
  <2> QED BY <2>1, <2>2
<1>11. pc' = "caret" => Goal(base.text, base.caret)'
  <2> SUFFICES ASSUME pc' = "caret" PROVE Goal(base.text, base.caret)'
    OBVIOUS
  <2>1. op[1] = "move_caret_line" /\ plan'.caret = IF op[2] = "start" THEN i ELSE j
    BY <1>7, <1>9
  <2> QED BY <1>6, <1>9, <2>1 DEF Goal
<1>12. pc' = "add" => Goal(base.text, base.caret)'
  <2> SUFFICES ASSUME pc' = "add" PROVE Goal(base.text, base.caret)'
    OBVIOUS
  <2>1. op[1] = "select_line" /\ span' = <<i, j>> /\ plan'.caret = j /\ i < j
    BY <1>5, <1>7, <1>9 DEF Edge
  <2> QED BY <1>6, <1>9, <2>1 DEF Goal
<1> QED BY <1>9, <1>10, <1>11, <1>12, DecisionExact

\* Reading the text around the caret.
LEMMA MarkScanExact ==
  ASSUME MarkIInv, MarkTypeInv, MarkExactInv, MarkScan
  PROVE  MarkExactInv'
<1>1. pc = "scan" /\ UNCHANGED <<base, foreign>>
  BY DEF MarkScan
<1>2. CASE foreign # 0
  BY <1>1, <1>2 DEF MarkExactInv, UnchangedHadNothing
<1>3. CASE foreign = 0
  <2>1. op[1] \in ScanOps
    BY <1>1, <1>3, DecideTypes
  <2> QED BY <1>3, <2>1, WordScanExact, SelectWordExact, LineScanExact DEF ScanOps
<1> QED BY <1>2, <1>3

\* The calls to the application change nothing of what was decided.
LEMMA WorkKeeps ==
  ASSUME MarkTypeInv, RemoveOld \/ Add \/ MoveCaret
  PROVE  /\ UNCHANGED <<text, op, span, base, foreign, outcome>> /\ plan'.caret = plan.caret
         /\ Decided /\ pc' \in {"remove", "add", "caret", "verify", "restore"}
<1>1. pc \in {"remove", "add", "caret"} /\ UNCHANGED <<text, op, span, base, foreign, outcome>>
  BY DEF RemoveOld, Add, MoveCaret, CallUnchanged
<1>2. plan \in MarkPlans
  BY <1>1 DEF MarkTypeInv, MarkReadTypes
<1>3. plan' = plan \/ plan' = [plan EXCEPT !.left = plan.left - 1]
  BY DEF RemoveOld, Add, MoveCaret, Left
<1>4. plan'.caret = plan.caret
  BY <1>2, <1>3 DEF MarkPlans
<1>5. pc' \in {"remove", "add", "caret", "verify", "restore"}
  BY <1>1 DEF RemoveOld, Add, MoveCaret
<1> QED BY <1>1, <1>4, <1>5 DEF Decided

\* A step that leaves the command's intent alone keeps it.
LEMMA IntentKept ==
  ASSUME MarkExactInv, UNCHANGED <<text, op, span, base, foreign>>, plan'.caret = plan.caret,
         pc' # "scan", outcome' \in {"done", "unchanged"} => outcome' = outcome,
         Decided' => Decided, outcome' = "done" => UNCHANGED <<pc, caret, sels>>
  PROVE  MarkExactInv'
<1>1. Goal(base.text, base.caret)' = Goal(base.text, base.caret)
  BY GoalKept
<1>2. UnchangedHadNothing => UnchangedHadNothing'
  BY DEF UnchangedHadNothing, Nearest
<1>3. outcome' = "done" => (Marked => Marked')
  BY DEF Marked
<1> QED BY <1>1, <1>2, <1>3 DEF MarkExactInv

\* Doing what was decided, and looking at the result.
LEMMA WorkExact ==
  ASSUME MarkIInv, MarkTypeInv, MarkExactInv, RemoveOld \/ Add \/ MoveCaret \/ MarkVerify
  PROVE  MarkExactInv'
<1>1. None # "done" /\ None # "unchanged"
  BY FieldAssumption DEF Outcome
<1>2. CASE RemoveOld \/ Add \/ MoveCaret
  <2>1. outcome = None
    BY <1>2 DEF MarkIInv, RemoveOld, Add, MoveCaret
  <2>2. pc' # "scan" /\ outcome' \notin {"done", "unchanged"} /\ Decided
    BY <1>1, <1>2, <2>1, WorkKeeps
  <2> QED BY <1>2, <2>2, WorkKeeps, IntentKept
<1>3. CASE MarkVerify
  <2>1. /\ pc = "verify" /\ UNCHANGED <<text, caret, sels, op, span, base, foreign, plan>>
        /\ \/ Marked /\ pc' = "ended" /\ outcome' = "done"
           \/ pc' = "restore" /\ outcome' = outcome
    BY <1>3 DEF MarkVerify, End, CallUnchanged, field
  <2>2. outcome = None
    BY <2>1 DEF MarkIInv
  <2>3. Goal(base.text, base.caret)' = Goal(base.text, base.caret)
    BY <2>1, GoalKept
  <2>4. Marked => Marked'
    BY <2>1 DEF Marked
  <2>5. UnchangedHadNothing'
    BY <1>1, <2>1, <2>2 DEF UnchangedHadNothing
  <2> QED BY <1>1, <2>1, <2>2, <2>3, <2>4, <2>5 DEF MarkExactInv, Decided
<1> QED BY <1>2, <1>3

\* A rollback reports neither success nor that there was nothing to do.
LEMMA UndoExact ==
  ASSUME MarkIInv, MarkExactInv,
         MarkRestore \/ Unselect \/ Reselect \/ Recaret \/ MarkRecheck \/ ReadFails
  PROVE  MarkExactInv'
<1>1. None # "done" /\ None # "unchanged"
  BY FieldAssumption DEF Outcome
<1>2. /\ UNCHANGED <<text, base, foreign>> /\ pc # "ended"
      /\ pc' \in {"restore", "unselect", "reselect", "recaret", "recheck", "ended"}
      /\ outcome' \in {outcome, "refused", "restored", "unrestored"}
  BY DEF MarkRestore, Unselect, Reselect, Recaret, MarkRecheck, ReadFails, End, CallUnchanged, field
<1>3. outcome' # "done" /\ outcome' # "unchanged"
  BY <1>1, <1>2 DEF MarkIInv
<1> QED BY <1>2, <1>3 DEF MarkExactInv, Decided, UnchangedHadNothing

\* Keystrokes and stuttering.
LEMMA RestExact ==
  ASSUME MarkIInv, MarkExactInv, Foreign \/ UNCHANGED vars
  PROVE  MarkExactInv'
<1>1. CASE Foreign
  <2>1. base' = base /\ foreign' = foreign + 1 /\ foreign \in Nat
    BY <1>1 DEF Foreign, Typed, MarkIInv
  <2>2. foreign' # 0
    BY <2>1
  <2> QED BY <2>1, <2>2 DEF MarkExactInv, UnchangedHadNothing
<1>2. CASE UNCHANGED vars
  <2>1. UNCHANGED <<text, caret, sels, op, span, base, plan, pc, outcome, foreign, count>>
    BY <1>2 DEF vars, field, reading
  <2>2. Goal(base.text, base.caret)' = Goal(base.text, base.caret)
    BY <2>1, GoalKept
  <2>3. (UnchangedHadNothing => UnchangedHadNothing') /\ (Marked => Marked')
    BY <2>1 DEF UnchangedHadNothing, Nearest, Marked
  <2> QED BY <2>1, <2>2, <2>3 DEF MarkExactInv, Decided
<1> QED BY <1>1, <1>2

\* A command begins.
LEMMA InitMarkExact == MarkInit => MarkExactInv
<1> SUFFICES ASSUME MarkInit PROVE MarkExactInv
  OBVIOUS
<1>1. /\ text \in Seq(Char) /\ caret \in 0..Len(text) /\ pc = "meta" /\ outcome = None
      /\ base.text = text /\ base.caret = caret
  BY FieldAssumption DEF MarkInit, Begin
<1>2. None # "done" /\ None # "unchanged"
  BY FieldAssumption DEF Outcome
<1> QED BY <1>1, <1>2 DEF MarkExactInv, Decided, UnchangedHadNothing

\* Every step keeps what the command is about to do in line with its name.
LEMMA NextMarkExact ==
  MarkIInv /\ MarkTypeInv /\ MarkExactInv /\ [MarkNext]_vars => MarkExactInv'
BY MarkMetaExact, MarkScanExact, WorkExact, UndoExact, RestExact DEF MarkNext, MarkStep

\* What a caret or selection command knows at every moment.
LEMMA AlwaysMarkExact == MarkSpec => [](MarkIInv /\ MarkTypeInv /\ MarkExactInv)
<1>1. MarkInit => MarkIInv /\ MarkTypeInv /\ MarkExactInv
  BY InitMark, InitMarkTypes, InitMarkExact
<1>2. MarkIInv /\ MarkTypeInv /\ MarkExactInv /\ [MarkNext]_vars
        => (MarkIInv /\ MarkTypeInv /\ MarkExactInv)'
  BY NextMark, NextMarkTypes, NextMarkExact
<1> QED BY <1>1, <1>2, PTL DEF MarkSpec

\* What was decided and verified is what the command is named for.
LEMMA MarkedIsExact ==
  ASSUME MarkTypeInv, MarkExactInv
  PROVE  MarkIsExact
<1> SUFFICES ASSUME op \in MarkOps, outcome = "done", foreign = 0 PROVE MarkIsExact
  BY DEF MarkIsExact
<1>1. /\ text = base.text /\ Goal(base.text, base.caret) /\ Marked
  BY DEF MarkExactInv
<1>2. None \notin Nat
  BY FieldAssumption
<1>3. op[1] \notin AllOps => caret = plan.caret
  BY <1>1, <1>2 DEF Goal, Marked
<1>4. /\ op[1] \in SelectOps \cup {"select_all"} => sels = <<span>>
      /\ op[1] = "clear_selection" => sels = <<>>
  BY <1>1 DEF Marked, SelectOps
<1>5. CASE op[1] = "select_all"
  BY <1>1, <1>4, <1>5 DEF Goal, MarkIsExact
<1>6. CASE op[1] = "clear_selection"
  BY <1>1, <1>4, <1>6 DEF MarkIsExact
<1>7. CASE op[1] \in MoveOps
  <2>1. caret = plan.caret
    BY <1>3, <1>7 DEF MoveOps, AllOps
  <2> QED BY <1>1, <1>7, <2>1 DEF Goal, MarkIsExact, MoveOps
<1>8. CASE op[1] \in SelectOps
  <2>1. caret = plan.caret /\ sels = <<span>>
    BY <1>3, <1>4, <1>8 DEF SelectOps, AllOps
  <2> QED BY <1>1, <1>8, <2>1 DEF Goal, MarkIsExact, SelectOps, Selected
<1> QED BY <1>5, <1>6, <1>7, <1>8, Kinds DEF MoveOps, SelectOps, ScanOps

\* A caret or selection command that nobody interferes with marks what its name says.
THEOREM MarksAreExact == MarkSpec => []MarkIsExact
<1>1. MarkTypeInv /\ MarkExactInv => MarkIsExact
  BY MarkedIsExact
<1> QED BY <1>1, AlwaysMarkExact, PTL

\* A caret or selection command says that it had nothing to do only when it had not.
THEOREM MarksHadNothing == MarkSpec => []UnchangedHadNothing
<1>1. MarkExactInv => UnchangedHadNothing
  BY DEF MarkExactInv, UnchangedHadNothing
<1> QED BY <1>1, AlwaysMarkExact, PTL

-----------------------------------------------------------------------------
(* Commands that set controls. *)

\* While nobody else has interfered and everything could be read, a command that has
\* not called the application yet meets what was there when it began, and later it
\* still knows what that was and what it is to reach.
ControlIInv ==
  /\ task \in Tasks /\ increment \in Steps /\ start \in States
  /\ touched \in BOOLEAN /\ blind \in BOOLEAN
  /\ step \in {"list", "read", "act", "check", "restore", "putback", "recheck", "end"}
  /\ step # "end" => result = ""
  /\ step \in {"list", "read"} /\ ~touched => on = start
  /\ step \notin {"list", "read", "end"} /\ ~touched /\ ~blind => before = start
  /\ step \in {"act", "check"} => target \in Goals(before)
  /\ kind = "select" /\ step # "list" /\ result # "refused" /\ ~blind => item = arg
  /\ ControlRollbackRestores
  /\ result = "refused" /\ ~touched => on = start
  /\ result = "done" /\ ~touched /\ ~blind => on \in Goals(start)
  /\ result = "done" /\ ~touched => target \subseteq on /\ target \in Goals(before)

\* A command begins.
LEMMA InitControls == ControlInit => ControlIInv
<1> SUFFICES ASSUME ControlInit PROVE ControlIInv
  OBVIOUS
<1>1. on \in States /\ start = on
  BY DEF ControlInit
<1> QED BY <1>1 DEF ControlInit, ControlIInv, ControlRollbackRestores

\* Goals depend on nothing that a command changes.
LEMMA SameGoals == UNCHANGED asked => \A s : Goals(s)' = Goals(s)
<1> SUFFICES ASSUME UNCHANGED <<task, increment, item>>, NEW s PROVE Goals(s)' = Goals(s)
  BY DEF asked
<1>1. kind' = kind /\ arg' = arg
  BY DEF kind, arg
<1>2. \A n, d : Snapped(n, d)' = Snapped(n, d)
  BY Zenon DEF Snapped
<1>3. \A i : Neighbour(i)' = Neighbour(i)
  BY <1>1, Zenon DEF Neighbour
<1>4. ToggleGoals(s)' = ToggleGoals(s)
  BY <1>1 DEF ToggleGoals
<1>5. RadioGoals(s)' = RadioGoals(s) /\ SelectGoals(s)' = SelectGoals(s) /\ FocusGoals(s)' = FocusGoals(s)
  BY <1>1, Zenon DEF RadioGoals, SelectGoals, FocusGoals
<1>6. CycleGoals(s)' = CycleGoals(s) /\ WindowGoals(s)' = WindowGoals(s)
  BY <1>1, <1>3 DEF CycleGoals, WindowGoals
<1>7. SliderGoals(s)' = SliderGoals(s) /\ SpinGoals(s)' = SpinGoals(s)
  BY <1>1, <1>2 DEF SliderGoals, SpinGoals
<1> QED BY <1>1, <1>4, <1>5, <1>6, <1>7 DEF Goals, TreeGoals

\* Nor does what may be on.
LEMMA SameStates == UNCHANGED task => States' = States
BY DEF States, kind

\* The named item is where it belongs, or the listing is remembered as blind.
LEMMA ListControls == ControlIInv /\ ListChildren => ControlIInv'
<1> SUFFICES ASSUME ControlIInv, ListChildren PROVE ControlIInv'
  OBVIOUS
<1>1. /\ step = "list" /\ UNCHANGED <<task, increment, on, before, target, accepted, start, touched>>
      /\ result = "" /\ (~touched => on = start)
      /\ \/ blind' = (item' # arg) /\ step' = "read" /\ result' = ""
         \/ step' = "end" /\ result' = "refused" /\ blind' = blind
  BY DEF ListChildren, ControlIInv, Ends
<1>2. start' \in States' /\ kind' = kind /\ arg' = arg
  BY <1>1, SameStates DEF ControlIInv, kind, arg
<1> QED BY <1>1, <1>2 DEF ControlIInv, ControlRollbackRestores

\* What is read is what is on, or the reading is remembered as blind.
LEMMA ReadControls == ControlIInv /\ Read => ControlIInv'
<1> SUFFICES ASSUME ControlIInv, Read PROVE ControlIInv'
  OBVIOUS
<1>1. PICK seen \in SUBSET on :
        /\ Sees(seen) /\ before' = seen
        /\ \/ Ends("refused") /\ UNCHANGED target
           \/ /\ target' \in Goals(seen)
              /\ IF kind \in Idempotent /\ target' = seen
                   THEN Ends("done") ELSE step' = "act" /\ UNCHANGED result
  BY DEF Read
<1>2. /\ step = "read" /\ UNCHANGED <<task, increment, item, on, accepted, start, touched>>
      /\ result = "" /\ (~touched => on = start)
      /\ kind' = kind /\ arg' = arg
  BY DEF Read, ControlIInv, asked, kind, arg
<1>3. blind' = (blind \/ seen # on) /\ (~blind' => seen = on /\ ~blind)
  BY <1>1 DEF Sees
<1>4. \A s : Goals(s)' = Goals(s)
  BY <1>2, SameGoals DEF Read
<1>5. start' \in States'
  BY <1>2, SameStates DEF ControlIInv
<1> QED BY <1>1, <1>2, <1>3, <1>4, <1>5 DEF ControlIInv, Ends, ControlRollbackRestores

\* What a step that only looks at the controls leaves alone.
LEMMA SameBindings ==
  ControlIInv /\ UNCHANGED bindings =>
    /\ task' \in Tasks /\ increment' \in Steps /\ start' \in States'
    /\ kind' = kind /\ arg' = arg /\ item' = item
    /\ \A s : Goals(s)' = Goals(s)
<1> SUFFICES ASSUME ControlIInv, UNCHANGED bindings
             PROVE  /\ task' \in Tasks /\ increment' \in Steps /\ start' \in States'
                    /\ kind' = kind /\ arg' = arg /\ item' = item
                    /\ \A s : Goals(s)' = Goals(s)
  OBVIOUS
<1>1. task' = task /\ increment' = increment /\ start' = start /\ item' = item /\ UNCHANGED asked
  BY DEF bindings, asked
<1> QED BY <1>1, SameGoals, SameStates DEF ControlIInv, kind, arg

\* A call to the application: the places may be anything afterwards.
LEMMA CallControls == ControlIInv /\ (Act \/ Undo) => ControlIInv'
<1> SUFFICES ASSUME ControlIInv, Act \/ Undo PROVE ControlIInv'
  OBVIOUS
<1>1. UNCHANGED <<bindings, touched, blind>> /\ step \in {"act", "putback"} /\ result = ""
  BY DEF Act, Undo, ControlIInv
<1>2. /\ task' \in Tasks /\ increment' \in Steps /\ start' \in States'
      /\ kind' = kind /\ arg' = arg /\ item' = item
      /\ \A s : Goals(s)' = Goals(s)
  BY <1>1, SameBindings
<1>3. \/ step = "act" /\ step' \in {"check", "restore"} /\ result' = result
      \/ step = "putback" /\ step' = "recheck" /\ result' = result
      \/ step' = "end" /\ result' = "unrestored"
  BY DEF Act, Undo, Ends
<1>4. /\ before' = before /\ target' = target /\ start' = start
      /\ touched' = touched /\ blind' = blind
  BY <1>1 DEF bindings
<1>5. (step' = "end" <=> result' = "unrestored") /\ (result' \in {"", "unrestored"}) /\ step' \notin {"list", "read"}
  BY <1>1, <1>3
<1>6. step' \in {"list", "read", "act", "check", "restore", "putback", "recheck", "end"}
  BY <1>1, <1>3
<1>7. (step' \notin {"list", "read", "end"} /\ ~touched /\ ~blind => before = start)
  BY <1>1 DEF ControlIInv
<1>8. step' \in {"act", "check"} => target' \in Goals(before)'
  BY <1>1, <1>2, <1>3, <1>4 DEF ControlIInv
<1>9. touched' \in BOOLEAN /\ blind' \in BOOLEAN
  BY <1>4 DEF ControlIInv
<1>10. kind' = "select" /\ ~blind' => item' = arg'
  <2>1. kind = "select" /\ ~blind => item = arg
    BY <1>1 DEF ControlIInv
  <2>2. kind' = kind /\ arg' = arg /\ item' = item
    BY <1>2
  <2> QED BY <1>4, <2>1, <2>2
<1> QED BY <1>2, <1>4, <1>5, <1>6, <1>7, <1>8, <1>9, <1>10 DEF ControlIInv, ControlRollbackRestores

\* A reading that decides about success or about the rollback.
LEMMA LookAtControls == ControlIInv /\ (Check \/ RollBack \/ CheckUndo) => ControlIInv'
<1> SUFFICES ASSUME ControlIInv, Check \/ RollBack \/ CheckUndo PROVE ControlIInv'
  OBVIOUS
<1>1. /\ UNCHANGED <<bindings, on, touched>> /\ result = ""
      /\ step \in {"check", "restore", "recheck"}
  BY DEF Check, RollBack, CheckUndo, ControlIInv
<1>2. /\ task' \in Tasks /\ increment' \in Steps /\ start' \in States'
      /\ kind' = kind /\ arg' = arg /\ item' = item
      /\ \A s : Goals(s)' = Goals(s)
  BY <1>1, SameBindings
<1>3. PICK seen \in SUBSET on :
        /\ Sees(seen)
        /\ \/ step = "check" /\ seen = target /\ Ends("done")
           \/ step' \in {"restore", "putback"} /\ result' = result
           \/ seen = before /\ Ends("restored")
           \/ Ends("unrestored")
  BY DEF Check, RollBack, CheckUndo, Ends
<1>4. blind' = (blind \/ seen # on) /\ (~blind' => seen = on /\ ~blind)
  BY <1>3 DEF Sees
<1>5. UNCHANGED <<on, touched, before, target, start>>
  BY <1>1 DEF bindings
<1>6. kind' = "select" /\ ~blind' => item' = arg'
  <2>1. kind = "select" /\ ~blind => item = arg
    BY <1>1 DEF ControlIInv
  <2>2. kind' = kind /\ arg' = arg /\ item' = item /\ (~blind' => ~blind)
    BY <1>2, <1>4
  <2> QED BY <2>1, <2>2
<1>7. CASE step = "check" /\ seen = target /\ Ends("done")
  <2>1. target' \subseteq on' /\ target' \in Goals(before)'
    <3>1. target \in Goals(before) /\ target \subseteq on
      BY <1>3, <1>7 DEF ControlIInv
    <3> QED BY <1>2, <1>5, <3>1
  <2>2. ~touched' /\ ~blind' => on' = target' /\ before' = start'
    <3>1. ~touched /\ ~blind => before = start
      BY <1>7 DEF ControlIInv
    <3> QED BY <1>4, <1>5, <1>7, <3>1
  <2>3. ~touched' /\ ~blind' => on' \in Goals(start)'
    BY <1>2, <1>5, <2>1, <2>2
  <2>4. step' = "end" /\ result' = "done" /\ touched' \in BOOLEAN /\ blind' \in BOOLEAN
    BY <1>1, <1>4, <1>7 DEF Ends, ControlIInv
  <2> QED BY <1>2, <1>6, <2>1, <2>3, <2>4 DEF ControlIInv, ControlRollbackRestores
<1>8. CASE ~(step = "check" /\ seen = target /\ Ends("done"))
  <2>1. \/ step' \in {"restore", "putback"} /\ result' = result
        \/ seen = before /\ step' = "end" /\ result' = "restored"
        \/ step' = "end" /\ result' = "unrestored"
    BY <1>3, <1>8 DEF Ends
  <2>2. before' \subseteq on' \/ result' # "restored"
    <3>1. result # "restored"
      BY <1>1
    <3> QED BY <1>3, <1>5, <2>1, <3>1
  <2>3. ~touched' /\ ~blind' => before' = start' /\ seen = on'
    <3>1. ~touched /\ ~blind => before = start
      BY <1>1 DEF ControlIInv
    <3> QED BY <1>4, <1>5, <3>1
  <2>4. touched' \in BOOLEAN /\ blind' \in BOOLEAN
    BY <1>1, <1>4 DEF ControlIInv
  <2> QED BY <1>1, <1>2, <1>5, <1>6, <2>1, <2>2, <2>3, <2>4 DEF ControlIInv, ControlRollbackRestores
<1> QED BY <1>7, <1>8

\* Somebody else's change is remembered.
LEMMA TouchControls == ControlIInv /\ Touch => ControlIInv'
<1> SUFFICES ASSUME ControlIInv, Touch PROVE ControlIInv'
  OBVIOUS
<1>1. /\ task' \in Tasks /\ increment' \in Steps /\ start' \in States'
      /\ kind' = kind /\ arg' = arg /\ item' = item
      /\ \A s : Goals(s)' = Goals(s)
  BY SameBindings DEF Touch
<1> QED BY <1>1 DEF ControlIInv, Touch, bindings, ControlRollbackRestores

\* Every step keeps the invariant.
LEMMA StepControls == ControlIInv /\ [ControlNext]_controlVars => ControlIInv'
<1> SUFFICES ASSUME ControlIInv, [ControlNext]_controlVars PROVE ControlIInv'
  OBVIOUS
<1>1. CASE UNCHANGED controlVars
  <2>1. UNCHANGED bindings
    BY <1>1 DEF controlVars, bindings, asked
  <2>2. UNCHANGED <<on, step, before, target, result, start, touched, blind>>
    BY <1>1 DEF controlVars
  <2>3. /\ task' \in Tasks /\ increment' \in Steps /\ start' \in States'
        /\ kind' = kind /\ arg' = arg /\ item' = item
        /\ \A s : Goals(s)' = Goals(s)
    BY <2>1, SameBindings
  <2> QED BY <2>2, <2>3 DEF ControlIInv, ControlRollbackRestores
<1>2. CASE ControlNext
  BY <1>2, ListControls, ReadControls, CallControls, LookAtControls, TouchControls DEF ControlNext
<1> QED BY <1>1, <1>2

\* Division rounds down.
LEMMA Dividing ==
  ASSUME NEW a \in Nat, NEW b \in Nat \ {0}
  PROVE  (a \div b) \in Nat /\ b * (a \div b) <= a /\ a < b * (a \div b) + b
<1> DEFINE q == a \div b
           r == a % b
<1>1. a = b * q + r /\ r \in 0..(b-1) /\ q \in Int
  OBVIOUS
<1>2. q >= 0
  <2>1. ASSUME q <= -1 PROVE FALSE
    <3>1. b * q <= -b
      BY <1>1, <2>1
    <3> QED BY <1>1, <3>1
  <2> QED BY <1>1, <2>1
<1> QED BY <1>1, <1>2

\* The place after or before another one, around a row of W places.
LEMMA Around ==
  ASSUME NEW W \in Nat \ {0}, NEW i \in 1..W, NEW a \in {1, -1}
  PROVE  ((i - 1 + a) % W) + 1 = IF i + a \in 1..W THEN i + a ELSE IF a = 1 THEN 1 ELSE W
<1>1. CASE i + a \in 1..W
  <2>1. i - 1 + a \in 0..(W-1)
    BY <1>1
  <2>2. (i - 1 + a) % W = i - 1 + a
    BY <2>1
  <2> QED BY <1>1, <2>2
<1>2. CASE i + a = W + 1
  <2>1. i - 1 + a = W /\ a = 1
    BY <1>2
  <2>2. W % W = 0
    OBVIOUS
  <2> QED BY <1>2, <2>1, <2>2
<1>3. CASE i + a = 0
  <2>1. i - 1 + a = -1 /\ a = -1
    BY <1>3
  <2>2. (-1) % W = W - 1
    OBVIOUS
  <2> QED BY <1>3, <2>1, <2>2
<1> QED BY <1>1, <1>2, <1>3

\* A rounded percentage is near what was asked for.
LEMMA SnappedIsNear ==
  ASSUME increment \in Steps, kind = "slider", arg \in Percents
  PROVE  Nearly(Snapped(arg * Full, 100))
<1> DEFINE n == arg * Full
           v == Snapped(n, 100)
<1>1. Full \in Nat \ {0} /\ increment \in 0..Full /\ arg \in 0..100
  BY ControlAssumption
<1>2. n \in Nat /\ n <= 100 * Full
  BY <1>1
<1>3. CASE increment = 0
  <2>1. v = n \div 100
    BY <1>3 DEF Snapped
  <2>2. n % 100 = 0
    BY <1>3, ControlAssumption
  <2>3. 100 * v = n
    BY <1>2, <2>1, <2>2
  <2>4. v \in Int
    BY <1>2, <2>1
  <2> HIDE DEF n, v
  <2>5. v \in 0..Full
    BY <1>1, <1>2, <2>3, <2>4
  <2> QED BY <1>1, <1>3, <2>3, <2>5 DEF Nearly, Units, n, v
<1>4. CASE increment \in Nat \ {0}
  <2> DEFINE a == 2 * n + 100 * increment
             b == 2 * 100 * increment
             q == a \div b
  <2>1. a \in Nat /\ b \in Nat \ {0}
    BY <1>2, <1>4
  <2>2. v = IF q * increment > Full THEN Full ELSE q * increment
    BY <1>4 DEF Snapped
  <2>3. q \in Nat /\ b * q <= a /\ a < b * q + b
    <3> HIDE DEF a, b
    <3> QED BY <2>1, Dividing
  <2> DEFINE m == q * increment
  <2>4. m \in Nat /\ b * q = 200 * m
    BY <1>4, <2>3
  <2>5. 200 * m <= 2 * n + 100 * increment /\ 2 * n < 200 * m + 100 * increment
    <3> HIDE DEF m, q
    <3> QED BY <1>2, <1>4, <2>3, <2>4
  <2>6. v = IF m > Full THEN Full ELSE m
    BY <2>2
  <2> HIDE DEF n, v, m
  <2>7. v \in Units
    BY <1>1, <2>4, <2>6 DEF Units
  <2>8. /\ -100 * increment <= 2 * (100 * v - n)
        /\ 2 * (100 * v - n) <= 100 * increment
    BY <1>1, <1>2, <1>4, <2>4, <2>5, <2>6
  <2> QED BY <2>7, <2>8 DEF Nearly, n, v
<1> QED BY <1>1, <1>3, <1>4

\* Whatever a command may set out to reach is what it is named for.
LEMMA GoalsAreExact ==
  ASSUME task \in Tasks, increment \in Steps, start \in States, on \in Goals(start),
         kind = "select" => item = arg
  PROVE  IsExact
<1>1. CASE kind \in {"toggle", "tree"}
  BY <1>1 DEF IsExact, Goals, TreeGoals, ToggleGoals
<1>2. CASE kind \in {"radio", "select", "focus", "spin"}
  BY <1>2 DEF IsExact, Goals, RadioGoals, SelectGoals, FocusGoals, SpinGoals
<1>3. CASE kind \in {"cycle", "window"}
  <2>1. arg \in {1, -1} /\ start \subseteq Places /\ Width \in Nat \ {0}
    BY <1>3, ControlAssumption DEF Tasks, kind, arg, States, Numeric
  <2>2. CASE start = {}
    <3>1. kind = "cycle"
      BY <1>3, <2>2 DEF Goals, WindowGoals
    <3> QED BY <2>2, <3>1 DEF IsExact, Goals, CycleGoals
  <2>3. CASE start # {}
    <3>1. PICK i \in start : on = {Neighbour(i)}
      BY <1>3, <2>3 DEF Goals, CycleGoals, WindowGoals
    <3>2. Neighbour(i) = IF i + arg \in Places THEN i + arg ELSE IF arg = 1 THEN 1 ELSE Width
      BY <2>1, Around DEF Neighbour, Places
    <3> QED BY <1>3, <2>3, <3>1, <3>2 DEF IsExact
  <2> QED BY <2>2, <2>3
<1>4. CASE kind = "slider"
  <2>1. arg \in Percents
    BY <1>4 DEF Tasks, kind, arg
  <2>2. on = {Snapped(arg * Full, 100)}
    BY <1>4 DEF Goals, SliderGoals
  <2> QED BY <1>4, <2>1, <2>2, SnappedIsNear DEF IsExact
<1> QED BY <1>1, <1>2, <1>3, <1>4 DEF Tasks, kind

\* What a command reads as reached has the place it names on.
LEMMA GoalsNameIt ==
  ASSUME task \in Tasks, NEW s, target \in Goals(s), target \subseteq on
  PROVE  NamedIsOn
<1>1. CASE kind \in {"radio", "focus"}
  <2>1. target = {arg}
    BY <1>1 DEF Goals, RadioGoals, FocusGoals
  <2> QED BY <1>1, <2>1 DEF NamedIsOn
<1>2. CASE kind \in {"toggle", "tree"}
  <2>1. target = IF arg = "on" THEN {1} ELSE {}
    BY <1>2 DEF Goals, TreeGoals, ToggleGoals
  <2> QED BY <1>2, <2>1 DEF NamedIsOn
<1>3. CASE kind \notin {"radio", "focus", "toggle", "tree"}
  BY <1>3 DEF NamedIsOn
<1> QED BY <1>1, <1>2, <1>3

\* A finished command has set what it names.
LEMMA ExactControls == ControlIInv => ControlIsExact
<1> SUFFICES ASSUME ControlIInv PROVE ControlIsExact
  OBVIOUS
<1>1. result = "done" /\ ~touched /\ ~blind => IsExact
  <2> SUFFICES ASSUME result = "done", ~touched, ~blind PROVE IsExact
    OBVIOUS
  <2>1. kind = "select" => item = arg
    BY DEF ControlIInv
  <2> QED BY <2>1, GoalsAreExact DEF ControlIInv
<1>2. result = "done" /\ ~touched => NamedIsOn
  BY GoalsNameIt DEF ControlIInv
<1> QED BY <1>1, <1>2 DEF ControlIsExact, ControlIInv

\* A command that failed and does not say that its rollback failed has left every
\* place as it was, whatever the application did.
THEOREM ControlRollbacksAreComplete == ControlSpec => []ControlRollbackRestores
<1>1. ControlIInv => ControlRollbackRestores
  BY DEF ControlIInv
<1> QED BY <1>1, InitControls, StepControls, PTL DEF ControlSpec

\* A command that reports success has set exactly what it names; one that refuses
\* has set nothing.
THEOREM ControlsAreExact == ControlSpec => []ControlIsExact
<1>1. ControlIInv => ControlIsExact
  BY ExactControls
<1> QED BY <1>1, InitControls, StepControls, PTL DEF ControlSpec

-----------------------------------------------------------------------------
(* Commands that press a control. *)

\* What the variables hold, as far as the proof needs it: the list of windows is
\* looked at only before the control is pressed.
DecisionTypes ==
  /\ request \in Requests /\ shows \in [Windows -> Layouts] /\ active \in Windows \cup {Nobody}
  /\ phase \in {"window", "bind", "list", "again", "relist", "rebind", "press", "await", "end"}
  /\ phase \notin {"await", "end"} => windows \in Lists
  /\ phase # "end" => verdict = ""
  /\ stale \in BOOLEAN

\* A notification's command works on the numbered entry of its list; any other one
\* on a window whose controls it has found, and their labels have not changed while
\* the desktop has not.
FindingInv ==
  /\ rebound = bound
  /\ (does = "notification" /\ phase # "end") =>
       /\ phase \in {"list", "relist", "press", "await"}
       /\ phase # "list" => dialog = listed[Number] /\ dialog \in Windows
  /\ (does # "notification" /\ phase # "end") =>
       /\ phase \in {"list", "again", "relist", "rebind"} => does \in Twice
       /\ phase # "window" => dialog \in Windows
       /\ phase \notin {"window", "bind"} => bound \in Layouts \ {Unclear}
       /\ phase \notin {"window", "bind", "await"} /\ ~stale => shows[dialog][label] = bound[label]

\* Nothing is pressed before the command waits or ends.
PressedInv ==
  /\ decided # Undecided => phase \in {"await", "end"}
  /\ phase = "await" => decided # Undecided

DecisionIInv == DecisionTypes /\ FindingInv /\ PressedInv /\ DecisionIsExact

\* A layout that is not unclear gives every label a control of its own.
LEMMA LayoutsAreClear ==
  ASSUME NEW f \in Layouts, NEW l \in Labels, f # Unclear
  PROVE  f[l] \in Nodes /\ f[l] # Nobody /\ \A k \in Labels : f[k] = f[l] => k = l
BY DecisionAssumption DEF Layouts

\* A command begins.
LEMMA InitDecisions == DecisionInit => DecisionIInv
<1> SUFFICES ASSUME DecisionInit PROVE DecisionIInv
  OBVIOUS
<1>1. /\ request \in Requests /\ shows \in [Windows -> Layouts] /\ active \in Windows \cup {Nobody}
      /\ windows \in Lists /\ verdict = "" /\ stale = FALSE
      /\ rebound = bound /\ decided = Undecided
      /\ phase = IF does = "notification" THEN "list" ELSE "window"
  BY DEF DecisionInit, DecisionStart
<1> QED BY <1>1 DEF DecisionIInv, DecisionTypes, FindingInv, PressedInv, DecisionIsExact

\* A command refuses, or gives up.
LEMMA StopDecisions == DecisionIInv /\ (Refuse \/ Confirm \/ GiveUp) => DecisionIInv'
<1> SUFFICES ASSUME DecisionIInv, Refuse \/ Confirm \/ GiveUp PROVE DecisionIInv'
  OBVIOUS
<1>1. UNCHANGED <<desktop, request, findings, decided, stale>> /\ phase' = "end"
  BY DEF Refuse, Confirm, GiveUp, Stops
<1>2. /\ UNCHANGED <<windows, active, shows, request, listed, dialog, bound, rebound, decided, stale>>
      /\ does' = does /\ label' = label
  BY <1>1 DEF desktop, findings, does, label
<1>3. DecisionTypes' /\ FindingInv' /\ PressedInv'
  BY <1>1, <1>2 DEF DecisionIInv, DecisionTypes, FindingInv, PressedInv
<1>4. /\ verdict' = "refused" => decided = Undecided
      /\ verdict' = "done" =>
           decided # Undecided /\ (does \in Awaits => windows = Without(listed, dialog))
  BY DEF Refuse, Confirm, GiveUp, Stops, DecisionIInv, PressedInv
<1>5. Number' = Number /\ Awaits' = Awaits /\ Without(listed, dialog)' = Without(listed, dialog)
  BY <1>2 DEF Number, Awaits
<1> QED BY <1>2, <1>3, <1>4, <1>5 DEF DecisionIInv, DecisionIsExact

\* Finding, listing and looking again press nothing.
LEMMA FindDecisions ==
  DecisionIInv /\ (FindWindow \/ FindShell \/ List \/ FindAgain \/ ListAgain) => DecisionIInv'
<1> SUFFICES ASSUME DecisionIInv, FindWindow \/ FindShell \/ List \/ FindAgain \/ ListAgain
             PROVE DecisionIInv'
  OBVIOUS
<1>1. /\ UNCHANGED <<desktop, request, bound, rebound, decided, stale, verdict>>
      /\ phase \in {"window", "list", "again", "relist"}
      /\ phase' \in {"bind", "again", "relist", "rebind", "press"}
  <2>1. CASE FindWindow \/ FindShell
    BY <2>1 DEF FindWindow, FindShell, Goes
  <2>2. CASE List
    BY <2>2 DEF List, Goes
  <2>3. CASE FindAgain \/ ListAgain
    BY <2>3 DEF FindAgain, ListAgain, Goes, findings
  <2> QED BY <2>1, <2>2, <2>3
<1>2. /\ UNCHANGED <<windows, active, shows, request, bound, rebound, decided, stale, verdict>>
      /\ does' = does /\ label' = label
  BY <1>1 DEF desktop, does, label
<1>3. /\ DecisionTypes' /\ PressedInv' /\ decided' = Undecided /\ verdict' = ""
  BY <1>1, <1>2 DEF DecisionIInv, DecisionTypes, PressedInv
<1>4. ASSUME does = "notification" PROVE FindingInv'
  <2>1. Number' = Number
    BY <1>2 DEF Number
  <2>2. CASE phase = "list"
    <3>1. List
      BY <2>2 DEF FindWindow, FindShell, List, FindAgain, ListAgain
    <3>2. phase' = "relist" /\ listed' = windows /\ dialog' = windows[Number] /\ Number <= Len(windows)
      BY <1>4, <3>1 DEF List, Goes
    <3>3. PICK n \in 0..2 : windows \in [1..n -> Windows]
      BY <2>2 DEF DecisionIInv, DecisionTypes, Lists
    <3>4. Number \in 1..n
      BY <3>2, <3>3 DEF Number
    <3>5. dialog' = listed[Number]' /\ dialog' \in Windows
      BY <2>1, <3>2, <3>3, <3>4
    <3> QED BY <1>2, <1>4, <3>2, <3>5 DEF DecisionIInv, FindingInv
  <2>3. CASE phase = "relist"
    <3>1. ListAgain
      BY <1>4, <2>3 DEF FindWindow, FindShell, List, FindAgain, ListAgain
    <3>2. phase' = "press" /\ UNCHANGED <<listed, dialog>>
      BY <1>4, <3>1 DEF ListAgain, Goes, findings
    <3> QED BY <1>2, <1>4, <2>1, <2>3, <3>2 DEF DecisionIInv, FindingInv
  <2> QED BY <1>1, <1>4, <2>2, <2>3 DEF DecisionIInv, FindingInv
<1>5. ASSUME does # "notification" PROVE FindingInv'
  <2>1. CASE FindWindow \/ FindShell
    <3>1. dialog' \in Windows /\ phase' = "bind"
      BY <2>1 DEF FindWindow, FindShell, Goes, DecisionIInv, DecisionTypes
    <3> QED BY <1>2, <1>5, <3>1 DEF DecisionIInv, FindingInv
  <2>2. CASE List \/ FindAgain \/ ListAgain
    <3>1. dialog' = dialog /\ phase \in {"list", "again", "relist"} /\ phase' \notin {"window", "bind"}
      BY <1>5, <2>2 DEF List, FindAgain, ListAgain, Goes, findings
    <3>2. does \in Twice
      BY <1>5, <3>1 DEF DecisionIInv, FindingInv
    <3> QED BY <1>2, <1>5, <3>1, <3>2 DEF DecisionIInv, FindingInv
  <2> QED BY <2>1, <2>2
<1>6. FindingInv'
  BY <1>4, <1>5 DEF DecisionIInv
<1> QED BY <1>3, <1>6 DEF DecisionIInv, DecisionIsExact

\* The controls are found, and found again, under the label that is asked for.
LEMMA BindDecisions == DecisionIInv /\ (Bind \/ Rebind) => DecisionIInv'
<1> SUFFICES ASSUME DecisionIInv, Bind \/ Rebind PROVE DecisionIInv'
  OBVIOUS
<1>1. /\ UNCHANGED <<windows, active, shows, request, dialog, listed, decided, verdict>>
      /\ phase \in {"bind", "rebind"} /\ phase' \in {"list", "again", "press"}
      /\ stale' \in {stale, FALSE}
      /\ does' = does /\ label' = label
  <2>1. CASE Bind
    BY <2>1 DEF Bind, Goes, desktop, does, label, Pairs, Twice
  <2>2. CASE Rebind
    <3>1. UNCHANGED <<desktop, request, findings, decided, verdict>> /\ phase = "rebind" /\ phase' = "press"
      BY <2>2 DEF Rebind, Goes
    <3>2. stale' \in {stale, FALSE}
      <4>1. does \in Twice
        BY <3>1 DEF DecisionIInv, FindingInv
      <4> QED BY <2>2, <4>1 DEF Rebind, Twice, Pairs
    <3> QED BY <3>1, <3>2 DEF desktop, findings, does, label
  <2> QED BY <2>1, <2>2
<1>2. /\ DecisionTypes' /\ PressedInv' /\ decided' = Undecided /\ verdict' = ""
  BY <1>1 DEF DecisionIInv, DecisionTypes, PressedInv
<1>3. does # "notification" /\ dialog \in Windows
  BY <1>1 DEF DecisionIInv, FindingInv
<1>4. /\ rebound' = bound' /\ bound' \in Layouts \ {Unclear}
      /\ ~stale' => shows[dialog][label] = bound'[label]
  <2>1. CASE Bind
    <3>1. bound' = shows[dialog] /\ rebound' = shows[dialog] /\ shows[dialog] # Unclear
      BY <2>1 DEF Bind
    <3> QED BY <1>3, <3>1 DEF DecisionIInv, DecisionTypes
  <2>2. CASE Rebind
    <3>1. bound' = bound /\ rebound' = rebound /\ phase = "rebind" /\ bound \in Layouts \ {Unclear}
      BY <1>3, <2>2 DEF Rebind, findings, DecisionIInv, FindingInv
    <3>2. CASE does \in Pairs \cup {"numbered"}
      <4>1. SameControls
        BY <2>2, <3>2 DEF Rebind, Pairs
      <4> QED BY <3>1, <4>1 DEF DecisionIInv, FindingInv, SameControls
    <3>3. CASE does = "menu"
      <4>1. SameItem
        BY <2>2, <3>3 DEF Rebind, Pairs
      <4> QED BY <3>1, <4>1 DEF DecisionIInv, FindingInv, SameItem
    <3>4. CASE does = "named"
      <4>1. stale' = stale
        BY <2>2, <3>4 DEF Rebind, Pairs
      <4> QED BY <1>3, <3>1, <4>1 DEF DecisionIInv, FindingInv
    <3>5. does \in Pairs \cup {"numbered", "menu", "named"}
      BY <1>1, <1>3, <3>1 DEF DecisionIInv, FindingInv, Twice
    <3> QED BY <3>1, <3>2, <3>3, <3>4, <3>5
  <2> QED BY <2>1, <2>2
<1>5. phase' \in {"list", "again"} => does \in Twice
  BY DEF Bind, Rebind, Goes, Twice
<1>6. FindingInv'
  BY <1>1, <1>3, <1>4, <1>5 DEF FindingInv
<1> QED BY <1>2, <1>6 DEF DecisionIInv, DecisionIsExact

\* What is pressed is what was found, and it has its label still.
LEMMA PressDecisions == DecisionIInv /\ Press => DecisionIInv'
<1> SUFFICES ASSUME DecisionIInv, Press PROVE DecisionIInv'
  OBVIOUS
<1>1. /\ UNCHANGED <<windows, active, shows, request, dialog, listed, bound, rebound, stale>>
      /\ does' = does /\ label' = label /\ phase = "press"
      /\ decided' \in {Undecided, Pressed}
      /\ \/ /\ decided' = Pressed
            /\ \/ does \in Awaits /\ phase' = "await" /\ verdict' = verdict
               \/ does \notin Awaits /\ phase' = "end" /\ verdict' = "done"
         \/ phase' = "end" /\ verdict' = "rejected"
  BY DEF Press, Goes, Stops, desktop, findings, does, label
<1>2. label \in Labels /\ verdict = "" /\ shows \in [Windows -> Layouts]
  BY <1>1 DEF DecisionIInv, DecisionTypes, Requests, label
<1>3. /\ Pressed # Undecided
      /\ Pressed.node = (IF does = "notification" THEN listed[Number] ELSE bound[label])
      /\ ~stale => Pressed.label = label
  <2>1. CASE does = "notification"
    <3>1. Pressed = [node |-> dialog, label |-> label] /\ dialog = listed[Number] /\ dialog \in Windows
      BY <1>1, <2>1 DEF DecisionIInv, FindingInv, Pressed
    <3>2. dialog # Nobody
      BY <3>1, DecisionAssumption
    <3> QED BY <2>1, <3>1, <3>2 DEF Undecided
  <2>2. CASE does # "notification"
    <3>1. /\ dialog \in Windows /\ bound \in Layouts /\ bound # Unclear /\ rebound = bound
          /\ ~stale => shows[dialog][label] = bound[label]
      BY <1>1, <2>2 DEF DecisionIInv, FindingInv
    <3>2. Pressed = [node |-> bound[label], label |-> LabelOf(dialog, bound[label])]
      BY <2>2, <3>1 DEF Pressed
    <3>3. bound[label] \in Nodes /\ bound[label] # Nobody
      BY <1>2, <3>1, LayoutsAreClear
    <3>4. ASSUME ~stale PROVE LabelOf(dialog, bound[label]) = label
      <4>1. shows[dialog] \in Layouts /\ shows[dialog][label] = bound[label]
        BY <1>2, <3>1, <3>4
      <4>2. shows[dialog] # Unclear
        BY <1>2, <3>3, <4>1 DEF Unclear
      <4>3. \A l \in Labels : shows[dialog][l] = bound[label] => l = label
        BY <1>2, <4>1, <4>2, LayoutsAreClear
      <4> QED BY <1>2, <4>1, <4>3 DEF LabelOf
    <3> QED BY <2>2, <3>2, <3>3, <3>4 DEF Undecided
  <2> QED BY <2>1, <2>2
<1>4. Number' = Number /\ Awaits' = Awaits
  BY <1>1 DEF Number, Awaits
<1>5. DecisionTypes' /\ PressedInv'
  BY <1>1, <1>2, <1>3 DEF DecisionIInv, DecisionTypes, PressedInv
<1>6. FindingInv'
  BY <1>1, <1>4 DEF DecisionIInv, FindingInv
<1>7. DecisionIsExact'
  BY <1>1, <1>2, <1>3, <1>4 DEF DecisionIsExact
<1> QED BY <1>5, <1>6, <1>7 DEF DecisionIInv

\* The application closes a dialog only after it was told to.
LEMMA CloseDecisions == DecisionIInv /\ Closes => DecisionIInv'
<1> SUFFICES ASSUME DecisionIInv, Closes PROVE DecisionIInv'
  OBVIOUS
<1>1. /\ UNCHANGED <<shows, request, phase, dialog, listed, bound, rebound, verdict, decided, stale>>
      /\ phase = "await" /\ active' \in {Nobody, active}
      /\ does' = does /\ label' = label
  BY DEF Closes, findings, does, label
<1>2. verdict' = "" /\ Number' = Number
  BY <1>1 DEF DecisionIInv, DecisionTypes, Number
<1>3. DecisionTypes' /\ PressedInv'
  BY <1>1 DEF DecisionIInv, DecisionTypes, PressedInv
<1>4. FindingInv'
  BY <1>1, <1>2 DEF DecisionIInv, FindingInv
<1> QED BY <1>1, <1>2, <1>3, <1>4 DEF DecisionIInv, DecisionIsExact

\* Until something is pressed a change of the desktop makes the findings stale.
LEMMA ChangeDecisions == DecisionIInv /\ DesktopChange => DecisionIInv'
<1> SUFFICES ASSUME DecisionIInv, DesktopChange PROVE DecisionIInv'
  OBVIOUS
<1>1. /\ UNCHANGED <<request, phase, dialog, listed, bound, rebound, verdict, decided>>
      /\ phase # "end" /\ stale' = (decided = Undecided \/ stale)
      /\ does' = does /\ label' = label
  BY DEF DesktopChange, findings, does, label
<1>2. /\ active' \in Windows \cup {Nobody}
      /\ windows' \in Lists \cup {windows}
      /\ shows' \in [Windows -> Layouts]
  <2>1. CASE UNCHANGED shows
    BY <2>1 DEF DesktopChange, DecisionIInv, DecisionTypes
  <2>2. CASE \E w \in Windows, f \in Layouts : shows' = [shows EXCEPT ![w] = f]
    BY <2>2 DEF DesktopChange, DecisionIInv, DecisionTypes
  <2> QED BY <2>1, <2>2 DEF DesktopChange
<1>3. DecisionTypes' /\ PressedInv'
  BY <1>1, <1>2 DEF DecisionIInv, DecisionTypes, PressedInv
<1>4. verdict' = "" /\ Number' = Number
  BY <1>1 DEF DecisionIInv, DecisionTypes, Number
<1>5. phase # "await" => stale'
  BY <1>1 DEF DecisionIInv, PressedInv, DecisionTypes
<1>6. FindingInv'
  BY <1>1, <1>4, <1>5 DEF DecisionIInv, FindingInv
<1>7. DecisionIsExact'
  BY <1>1, <1>4 DEF DecisionIInv, DecisionIsExact
<1> QED BY <1>3, <1>6, <1>7 DEF DecisionIInv

\* A step preserves the invariant.
LEMMA StepDecisions == DecisionIInv /\ [DecisionNext]_decisionVars => DecisionIInv'
<1> SUFFICES ASSUME DecisionIInv, [DecisionNext]_decisionVars PROVE DecisionIInv'
  OBVIOUS
<1>1. CASE UNCHANGED decisionVars
  <2>1. /\ UNCHANGED <<windows, active, shows, request, phase, dialog, listed, bound, rebound,
                       verdict, decided, stale>>
        /\ does' = does /\ label' = label
    BY <1>1 DEF decisionVars, desktop, findings, does, label
  <2>2. Number' = Number /\ Awaits' = Awaits /\ Without(listed, dialog)' = Without(listed, dialog)
    BY <2>1 DEF Number, Awaits
  <2>3. DecisionTypes' /\ FindingInv' /\ PressedInv'
    BY <2>1, <2>2 DEF DecisionIInv, DecisionTypes, FindingInv, PressedInv
  <2>4. DecisionIsExact'
    BY <2>1, <2>2 DEF DecisionIInv, DecisionIsExact
  <2> QED BY <2>3, <2>4 DEF DecisionIInv
<1>2. CASE DecisionNext
  BY <1>2, StopDecisions, FindDecisions, BindDecisions, PressDecisions, CloseDecisions,
     ChangeDecisions DEF DecisionNext
<1> QED BY <1>1, <1>2

\* What is pressed is what was found under the label that was asked for, and a
\* confirmed decision has ended that dialog and no other.
THEOREM DecisionsAreExact == DecisionSpec => []DecisionIsExact
<1>1. DecisionIInv => DecisionIsExact
  BY DEF DecisionIInv
<1> QED BY <1>1, InitDecisions, StepDecisions, PTL DEF DecisionSpec

-----------------------------------------------------------------------------
(* Filters of the magnifier. *)

USE MagnifierAssumption

\* While nobody else sets a channel, what was read is what was there, the channels
\* that were changed have the new value, and a rollback has set back those before
\* the channel one.
ChannelsInv ==
  /\ pass = "read" => setting = origin
  /\ pass = "read" => \A k \in 1..channel - 1 : old[k] = origin[k]
  /\ pass \in {"write", "undo"} => old = origin
  /\ pass = "write" => \A k \in 1..Channels : setting[k] = IF k < channel THEN value ELSE origin[k]
  /\ (pass = "undo" /\ ~lost) =>
       \A k \in 1..Channels : setting[k] = IF channel <= k /\ k <= changed THEN value ELSE origin[k]
  /\ pass = "undo" => \A k \in 1..Channels : setting[k] \in {value, origin[k]}

FilterIInv ==
  /\ setting \in Settings /\ old \in Settings /\ origin \in Settings /\ value \in Filters
  /\ pass \in {"read", "write", "undo", "end"} /\ channel \in 1..Channels + 1
  /\ pass \in {"read", "write"} => channel <= Channels
  /\ changed \in 0..Channels /\ (pass = "read" => changed = 0)
  /\ pass = "write" => changed = channel - 1
  /\ disturbed \in BOOLEAN /\ lost \in BOOLEAN /\ (pass \in {"read", "write"} => ~lost)
  /\ pass # "end" => exit = "none"
  /\ ~disturbed => ChannelsInv
  /\ FilterIsWhole

\* A command begins.
LEMMA InitFilter == FilterInit => FilterIInv
<1> SUFFICES ASSUME FilterInit PROVE FilterIInv
  OBVIOUS
<1>1. old \in Settings
  BY DEF FilterInit, FilterStart, Settings
<1>2. ChannelsInv /\ FilterIsWhole
  BY DEF FilterInit, FilterStart, ChannelsInv, FilterIsWhole
<1>3. /\ setting \in Settings /\ origin = setting /\ value \in Filters /\ pass = "read"
      /\ channel = 1 /\ changed = 0 /\ exit = "none" /\ disturbed = FALSE /\ lost = FALSE
  BY DEF FilterInit, FilterStart
<1>4. disturbed \in BOOLEAN /\ lost \in BOOLEAN /\ ~lost
  BY <1>3
<1>5. channel \in 1..Channels + 1 /\ channel <= Channels /\ changed \in 0..Channels
  BY <1>3
<1> QED BY <1>1, <1>2, <1>3, <1>4, <1>5 DEF FilterIInv

\* Reading the channels changes none.
LEMMA GetFilter == FilterIInv /\ GetChannel => FilterIInv'
<1> SUFFICES ASSUME FilterIInv, GetChannel PROVE FilterIInv'
  OBVIOUS
<1>1. /\ UNCHANGED <<setting, value, changed, origin, disturbed, lost>> /\ pass = "read"
      /\ exit = "none" /\ channel \in 1..Channels
  BY DEF GetChannel, FilterIInv
<1>2. CASE Exits("error") /\ UNCHANGED old
  BY <1>1, <1>2 DEF Exits, FilterIInv, ChannelsInv, FilterIsWhole
<1>3. CASE /\ old' = [old EXCEPT ![channel] = setting[channel]] /\ exit' = exit
           /\ IF channel = Channels THEN channel' = 1 /\ pass' = "write" ELSE channel' = channel + 1 /\ UNCHANGED pass
  <2>1. old' \in Settings
    BY <1>1, <1>3 DEF FilterIInv, Settings
  <2>2. ASSUME ~disturbed PROVE ChannelsInv'
    <3>1. setting = origin /\ \A k \in 1..channel - 1 : old[k] = origin[k]
      BY <1>1, <2>2 DEF FilterIInv, ChannelsInv
    <3>2. \A k \in 1..channel : old'[k] = origin[k]
      BY <1>1, <1>3, <3>1 DEF FilterIInv, Settings
    <3>3. CASE channel = Channels
      <4>1. old' = origin
        BY <2>1, <3>2, <3>3 DEF FilterIInv, Settings
      <4> QED BY <1>1, <1>3, <3>1, <3>3, <4>1 DEF ChannelsInv
    <3>4. CASE channel # Channels
      <4>1. pass' = "read" /\ channel' = channel + 1
        BY <1>1, <1>3, <3>4
      <4> QED BY <1>1, <3>1, <3>2, <4>1 DEF ChannelsInv
    <3> QED BY <3>3, <3>4
  <2>3. FilterIsWhole'
    BY <1>1, <1>3 DEF FilterIsWhole
  <2>4. \/ pass' = "write" /\ channel' = 1 /\ channel = Channels
        \/ pass' = "read" /\ channel' = channel + 1 /\ channel < Channels
    BY <1>1, <1>3
  <2>5. pass' = "write" => changed = 0
    <3>1. pass = "read" => changed = 0
      BY DEF FilterIInv
    <3> QED BY <1>1, <3>1
  <2> QED BY <1>1, <1>3, <2>1, <2>2, <2>3, <2>4, <2>5 DEF FilterIInv
<1> QED BY <1>2, <1>3 DEF GetChannel

\* The channels before the next one have the new value.
LEMMA SetFilter == FilterIInv /\ (SetChannel \/ SetFails) => FilterIInv'
<1> SUFFICES ASSUME FilterIInv, SetChannel \/ SetFails PROVE FilterIInv'
  OBVIOUS
<1>1. /\ UNCHANGED <<value, old, origin, disturbed, lost>> /\ pass = "write"
      /\ exit = "none" /\ channel \in 1..Channels /\ changed = channel - 1 /\ ~lost
  BY DEF SetChannel, SetFails, FilterIInv
<1>2. ~disturbed =>
        /\ old = origin
        /\ \A k \in 1..Channels : setting[k] = IF k < channel THEN value ELSE origin[k]
  BY <1>1 DEF FilterIInv, ChannelsInv
<1>3. CASE SetFails
  <2>1. UNCHANGED <<setting, changed, exit>> /\ pass' = "undo" /\ channel' = 1
    BY <1>3 DEF SetFails
  <2>2. ~disturbed => ChannelsInv'
    BY <1>1, <1>2, <2>1 DEF ChannelsInv
  <2>3. FilterIsWhole'
    BY <1>1, <2>1 DEF FilterIsWhole
  <2> QED BY <1>1, <2>1, <2>2, <2>3 DEF FilterIInv
<1>4. CASE SetChannel
  <2>1. /\ setting' = [setting EXCEPT ![channel] = value] /\ changed' = channel
        /\ \/ channel = Channels /\ pass' = "end" /\ exit' = "ok" /\ channel' = channel
           \/ channel < Channels /\ pass' = "write" /\ exit' = "none" /\ channel' = channel + 1
    BY <1>1, <1>4 DEF SetChannel, Exits
  <2>2. setting' \in Settings
    BY <1>1, <2>1 DEF FilterIInv, Settings
  <2>3. ~disturbed => \A k \in 1..Channels : setting'[k] = IF k <= channel THEN value ELSE origin[k]
    BY <1>1, <1>2, <2>1 DEF FilterIInv, Settings
  <2>4. ~disturbed => ChannelsInv'
    BY <1>1, <1>2, <2>1, <2>3 DEF ChannelsInv
  <2>5. FilterIsWhole'
    BY <1>1, <2>1, <2>3 DEF FilterIsWhole
  <2> QED BY <1>1, <2>1, <2>2, <2>4, <2>5 DEF FilterIInv
<1> QED BY <1>3, <1>4

\* The channels before the next one have their old value again.
LEMMA UndoFilter == FilterIInv /\ UndoChannel => FilterIInv'
<1> SUFFICES ASSUME FilterIInv, UndoChannel PROVE FilterIInv'
  OBVIOUS
<1>1. /\ UNCHANGED <<value, old, changed, origin, disturbed>> /\ pass = "undo"
      /\ exit = "none" /\ channel \in 1..Channels + 1 /\ changed \in 0..Channels
  BY DEF UndoChannel, FilterIInv
<1>2. ~disturbed =>
        /\ old = origin
        /\ ~lost => \A k \in 1..Channels :
             setting[k] = IF channel <= k /\ k <= changed THEN value ELSE origin[k]
        /\ \A k \in 1..Channels : setting[k] \in {value, origin[k]}
  BY <1>1 DEF FilterIInv, ChannelsInv
<1>3. CASE channel > changed
  <2>1. UNCHANGED <<setting, lost, channel>> /\ pass' = "end" /\ exit' = "error"
    BY <1>1, <1>3 DEF UndoChannel, Exits
  <2>2. ~disturbed /\ ~lost => setting = origin
    BY <1>1, <1>2, <1>3 DEF FilterIInv, Settings
  <2>3. FilterIsWhole'
    BY <1>1, <2>1, <2>2 DEF FilterIsWhole
  <2>4. ChannelsInv'
    BY <2>1 DEF ChannelsInv
  <2> QED BY <1>1, <2>1, <2>3, <2>4 DEF FilterIInv
<1>4. CASE channel <= changed
  <2>1. /\ \/ setting' = [setting EXCEPT ![channel] = old[channel]] /\ lost' = lost
           \/ setting' = setting /\ lost' = TRUE
        /\ channel' = channel + 1 /\ pass' = pass /\ exit' = exit
    BY <1>1, <1>4 DEF UndoChannel
  <2>2. setting' \in Settings
    BY <1>1, <1>4, <2>1 DEF FilterIInv, Settings
  <2>3. ~disturbed =>
          /\ ~lost' => \A k \in 1..Channels :
               setting'[k] = IF channel < k /\ k <= changed THEN value ELSE origin[k]
          /\ \A k \in 1..Channels : setting'[k] \in {value, origin[k]}
    BY <1>1, <1>2, <1>4, <2>1 DEF FilterIInv, Settings
  <2>4. ~disturbed => ChannelsInv'
    BY <1>1, <1>2, <2>1, <2>3 DEF ChannelsInv
  <2>5. FilterIsWhole'
    BY <1>1, <2>1 DEF FilterIsWhole
  <2>6. lost' \in BOOLEAN
    BY <2>1 DEF FilterIInv
  <2> QED BY <1>1, <1>4, <2>1, <2>2, <2>4, <2>5, <2>6 DEF FilterIInv
<1> QED BY <1>1, <1>3, <1>4

\* A kill finds every channel at its old or new value.
LEMMA AbortFilter == FilterIInv /\ FilterAborted => FilterIInv'
<1> SUFFICES ASSUME FilterIInv, FilterAborted PROVE FilterIInv'
  OBVIOUS
<1>1. /\ UNCHANGED <<value, channel, old, changed, origin, disturbed, lost>>
      /\ pass # "end" /\ pass' = "end" /\ exit' = "aborted"
      /\ \/ setting' = setting
         \/ pass = "write" /\ setting' = [setting EXCEPT ![channel] = value]
         \/ pass = "undo" /\ channel <= changed /\ setting' = [setting EXCEPT ![channel] = old[channel]]
  BY DEF FilterAborted, Exits, FilterIInv
<1>2. channel <= changed => channel \in 1..Channels
  BY DEF FilterIInv
<1>3. setting' \in Settings
  BY <1>1, <1>2 DEF FilterIInv, Settings
<1>4. ~disturbed => \A k \in 1..Channels : setting[k] \in {value, origin[k]}
  BY <1>1 DEF FilterIInv, ChannelsInv
<1>5. ~disturbed => \A k \in 1..Channels : setting'[k] \in {value, origin[k]}
  BY <1>1, <1>2, <1>4 DEF FilterIInv, ChannelsInv, Settings
<1>6. FilterIsWhole' /\ ChannelsInv'
  BY <1>1, <1>5 DEF FilterIsWhole, ChannelsInv
<1> QED BY <1>1, <1>3, <1>6 DEF FilterIInv

\* Every step keeps the invariant.
LEMMA StepFilter == FilterIInv /\ [FilterNext]_filterVars => FilterIInv'
<1> SUFFICES ASSUME FilterIInv, [FilterNext]_filterVars PROVE FilterIInv'
  OBVIOUS
<1>1. CASE UNCHANGED filterVars
  BY <1>1 DEF filterVars, FilterIInv, ChannelsInv, FilterIsWhole
<1>2. CASE Disturb
  <2>1. setting' \in Settings
    BY <1>2 DEF Disturb, FilterIInv, Settings
  <2> QED BY <1>2, <2>1 DEF Disturb, FilterIInv, FilterIsWhole
<1> QED BY <1>1, <1>2, GetFilter, SetFilter, UndoFilter, AbortFilter DEF FilterNext

\* A filter is set on all channels or on none, but for a kill or a failed rollback.
THEOREM FiltersAreWhole == FilterSpec => []FilterIsWhole
<1>1. FilterIInv => FilterIsWhole
  BY DEF FilterIInv
<1> QED BY <1>1, InitFilter, StepFilter, PTL DEF FilterSpec
-----------------------------------------------------------------------------
(* All commands of the desktop: one of them is under way, the others are idle. *)

EditingInv == op \in EditOps /\ IInv /\ EditTypeInv /\ ExactInv /\ KeepInv
MarkingInv == op \in MarkOps /\ MarkIInv /\ MarkTypeInv /\ MarkExactInv

DesktopIInv ==
  /\ EditingInv \/ MarkingInv
  /\ ControlIdle \/ ControlIInv
  /\ DecisionIdle \/ DecisionIInv
  /\ FilterIInv

\* What the desktop promises.
DesktopPromise ==
  /\ EditIsExact /\ RollbackRestores /\ EditsKeepTyping
  /\ MarkIsExact /\ MarkRollbackRestores /\ UnchangedHadNothing
  /\ ControlIsExact /\ ControlRollbackRestores /\ DecisionIsExact /\ FilterIsWhole

\* No command is both.
LEMMA EitherKind == EditOps \cap MarkOps = {}
<1> SUFFICES ASSUME NEW o, o \in EditOps, o \in MarkOps PROVE FALSE
  OBVIOUS
<1>1. o[1] \in {"delete_character", "delete_word", "replace_word", "join_line", "insert_line",
               "duplicate_line", "move_line", "indent_line", "delete_selection",
               "replace_selection", "insert_at_caret", "delete_line", "replace_line",
               "split_line", "set_text"}
  BY Zenon DEF EditOps
<1>2. o[1] \in {"move_caret", "move_caret_word", "select_character", "select_word",
               "move_caret_line", "select_all", "clear_selection", "select_line"}
  BY Zenon DEF MarkOps
<1> QED BY <1>1, <1>2

\* A command on text goes on.
LEMMA TextStep ==
  ASSUME EditingInv \/ MarkingInv, [Next]_vars
  PROVE  (EditingInv \/ MarkingInv)'
<1>1. UNCHANGED op
  BY DEF Next, vars, reading, EditStep, MarkStep, ReadFails, Foreign, Typed, ReadMeta, Scan, Snapshot,
         Mutate, SetCaret, Verify, Restore, Recheck, ReselectSpan, MarkMeta, MarkScan, RemoveOld, Add, MoveCaret,
         MarkVerify, MarkRestore, Unselect, Reselect, Recaret, MarkRecheck, CallUnchanged
<1>2. CASE EditingInv
  <2>1. op \notin MarkOps
    BY <1>2, EitherKind DEF EditingInv
  <2>2. [EditNext]_vars
    BY <2>1 DEF Next, EditNext, MarkStep
  <2> QED BY <1>1, <1>2, <2>2, NextIInv, NextTypes, NextExact, NextKeep DEF EditingInv
<1>3. CASE MarkingInv
  <2>1. op \notin EditOps
    BY <1>3, EitherKind DEF MarkingInv
  <2>2. [MarkNext]_vars
    BY <2>1 DEF Next, MarkNext, EditStep
  <2> QED BY <1>1, <1>3, <2>2, NextMark, NextMarkTypes, NextMarkExact DEF MarkingInv
<1> QED BY <1>2, <1>3

\* A command begins.
LEMMA InitText == EditInit \/ MarkInit => EditingInv \/ MarkingInv
<1>1. EditInit => EditingInv
  <2>1. EditInit => op \in EditOps
    BY DEF EditInit
  <2> QED BY <2>1, InitIInv, InitTypes, InitExact, InitKeep DEF EditingInv
<1>2. MarkInit => MarkingInv
  <2>1. MarkInit => op \in MarkOps
    BY DEF MarkInit
  <2> QED BY <2>1, InitMark, InitMarkTypes, InitMarkExact DEF MarkingInv
<1> QED BY <1>1, <1>2

\* A filter that is not set is set correctly.
LEMMA IdleFilter == FilterIdle => FilterIInv
<1> SUFFICES ASSUME FilterIdle PROVE FilterIInv
  OBVIOUS
<1>1. value \in Filters
  BY MagnifierAssumption DEF FilterIdle
<1>2. /\ setting \in Settings /\ old \in Settings /\ origin = setting
  BY <1>1 DEF FilterIdle, FilterStart, Settings
<1>3. /\ pass = "end" /\ channel = 1 /\ changed = 0 /\ exit = "none"
      /\ disturbed = FALSE /\ lost = FALSE
  BY DEF FilterIdle, FilterStart
<1>4. channel \in 1..Channels + 1 /\ changed \in 0..Channels
  BY <1>3, MagnifierAssumption
<1>5. disturbed \in BOOLEAN /\ lost \in BOOLEAN
  BY <1>3
<1>6. ChannelsInv /\ FilterIsWhole
  BY <1>3 DEF ChannelsInv, FilterIsWhole
<1> QED BY <1>1, <1>2, <1>3, <1>4, <1>5, <1>6 DEF FilterIInv

\* The desktop begins with one command.
LEMMA InitDesktop == DesktopInit => DesktopIInv
<1>1. TextIdle => EditInit
  BY DEF TextIdle
<1> QED BY <1>1, InitText, IdleFilter, InitControls, InitDecisions, InitFilter
        DEF DesktopInit, Init, DesktopIInv

\* Every step is one of the command that is under way, or of the user.
LEMMA DesktopStep ==
  DesktopIInv /\ [DesktopNext]_<<vars, controlVars, decisionVars, filterVars>> => DesktopIInv'
<1> SUFFICES ASSUME DesktopIInv, [DesktopNext]_<<vars, controlVars, decisionVars, filterVars>>
             PROVE  DesktopIInv'
  OBVIOUS
<1>1. /\ [Next]_vars
      /\ (task # NoTask /\ ControlNext) \/ UNCHANGED controlVars
      /\ (request # NoRequest /\ DecisionNext) \/ UNCHANGED decisionVars
      /\ [FilterNext]_filterVars
  BY DEF DesktopNext
<1>2. (EditingInv \/ MarkingInv)'
  BY <1>1, TextStep DEF DesktopIInv
<1>3. (ControlIdle \/ ControlIInv)'
  <2>1. CASE ControlIdle
    <3>1. UNCHANGED controlVars
      BY <1>1, <2>1 DEF ControlIdle
    <3> QED BY <2>1, <3>1 DEF ControlIdle, controlVars
  <2>2. CASE ControlIInv
    BY <1>1, <2>2, StepControls
  <2> QED BY <2>1, <2>2 DEF DesktopIInv
<1>4. (DecisionIdle \/ DecisionIInv)'
  <2>1. CASE DecisionIdle
    <3>1. UNCHANGED decisionVars
      BY <1>1, <2>1 DEF DecisionIdle
    <3>2. /\ windows' = windows /\ active' = active /\ shows' = shows
          /\ dialog' = dialog /\ listed' = listed /\ bound' = bound /\ rebound' = rebound
          /\ request' = request /\ phase' = phase
          /\ verdict' = verdict /\ decided' = decided /\ stale' = stale /\ changes' = changes
      BY <3>1, Zenon DEF decisionVars, desktop, findings
    <3>3. DecisionStart'
      BY <2>1, <3>2, Zenon DEF DecisionIdle, DecisionStart
    <3> QED BY <2>1, <3>2, <3>3, Zenon DEF DecisionIdle
  <2>2. CASE DecisionIInv
    BY <1>1, <2>2, StepDecisions
  <2> QED BY <2>1, <2>2 DEF DesktopIInv
<1>5. FilterIInv'
  BY <1>1, StepFilter DEF DesktopIInv
<1> QED BY <1>2, <1>3, <1>4, <1>5 DEF DesktopIInv

\* Each command keeps its promise, and the commands that are idle break none.
LEMMA PromiseKept == DesktopIInv => DesktopPromise
<1> SUFFICES ASSUME DesktopIInv PROVE DesktopPromise
  OBVIOUS
<1>1. ASSUME EditingInv
      PROVE  /\ EditIsExact /\ RollbackRestores /\ EditsKeepTyping
             /\ MarkIsExact /\ MarkRollbackRestores /\ UnchangedHadNothing
  <2>1. op \notin MarkOps
    BY <1>1, EitherKind DEF EditingInv
  <2>2. EditIsExact
    BY <1>1, ExactWhenDone DEF EditingInv
  <2>3. RollbackRestores /\ EditsKeepTyping /\ UnchangedHadNothing
    BY <1>1 DEF EditingInv, IInv, KeepInv, ExactInv, UnchangedHadNothing
  <2> QED BY <2>1, <2>2, <2>3 DEF MarkIsExact, MarkRollbackRestores
<1>2. ASSUME MarkingInv
      PROVE  /\ EditIsExact /\ RollbackRestores /\ EditsKeepTyping
             /\ MarkIsExact /\ MarkRollbackRestores /\ UnchangedHadNothing
  <2>1. op \notin EditOps
    BY <1>2, EitherKind DEF MarkingInv
  <2>2. MarkIsExact
    BY <1>2, MarkedIsExact DEF MarkingInv
  <2>3. MarkRollbackRestores /\ UnchangedHadNothing
    BY <1>2 DEF MarkingInv, MarkIInv, MarkExactInv, UnchangedHadNothing
  <2> QED BY <2>1, <2>2, <2>3 DEF EditIsExact, RollbackRestores, EditsKeepTyping
<1>3. ControlIsExact /\ ControlRollbackRestores
  <2>1. CASE ControlIdle
    BY <2>1 DEF ControlIdle, ControlIsExact, ControlRollbackRestores
  <2>2. CASE ControlIInv
    BY <2>2, ExactControls DEF ControlIInv
  <2> QED BY <2>1, <2>2 DEF DesktopIInv
<1>4. DecisionIsExact
  <2>1. CASE DecisionIdle
    BY <2>1 DEF DecisionIdle, DecisionStart, DecisionIsExact
  <2>2. CASE DecisionIInv
    BY <2>2 DEF DecisionIInv
  <2> QED BY <2>1, <2>2 DEF DesktopIInv
<1>5. FilterIsWhole
  BY DEF DesktopIInv, FilterIInv
<1> QED BY <1>1, <1>2, <1>3, <1>4, <1>5 DEF DesktopIInv, DesktopPromise

\* Whichever command is under way, and whatever the user and the applications do
\* meanwhile, the desktop keeps every promise of every command.
THEOREM DesktopKeepsPromises ==
  DesktopSpec => [](/\ EditIsExact /\ RollbackRestores /\ EditsKeepTyping
                    /\ MarkIsExact /\ MarkRollbackRestores /\ UnchangedHadNothing
                    /\ ControlIsExact /\ ControlRollbackRestores
                    /\ DecisionIsExact /\ FilterIsWhole)
<1>1. DesktopPromise =>
         /\ EditIsExact /\ RollbackRestores /\ EditsKeepTyping
         /\ MarkIsExact /\ MarkRollbackRestores /\ UnchangedHadNothing
         /\ ControlIsExact /\ ControlRollbackRestores
         /\ DecisionIsExact /\ FilterIsWhole
  BY DEF DesktopPromise
<1> QED BY <1>1, InitDesktop, DesktopStep, PromiseKept, PTL DEF DesktopSpec
=============================================================================
