---------------------------- MODULE TextEditProofs ----------------------------
(***************************************************************************)
(* Proofs about TextEdit, for fields of any length and content and for     *)
(* every application behaviour.  What the command remembers while it works *)
(* is what the field was when it began, so that a rollback restores it     *)
(* (IInv); every offset stays inside the field (EditTypeInv); what is      *)
(* planned is a function of the field that was found, and what it makes of *)
(* the rows is what the command is named for (ExactInv); and a command     *)
(* that changes part of the field either has read what the user typed, or  *)
(* cannot confirm a result in which it is missing (KeepInv).               *)
(***************************************************************************)
EXTENDS TextEdit, TextLayoutProofs

\* Before the editing call the field is as it was.
UntouchedInv == pc \in {"meta", "scan", "snapshot", "mutate"} =>
  text = base.text /\ caret = base.caret /\ sels = base.sels

\* What was read for putting it back.
MemoryInv ==
  /\ pc \notin {"meta", "ended"} =>
       at = base.caret /\ (op[1] \in SelectionOps => base.sels = <<span>>)
  /\ pc \in {"scan", "snapshot"} => count = Len(base.text)
  /\ pc = "scan" => op[1] \notin SelectionOps
  /\ pc \in {"mutate", "caret", "verify", "restore", "recheck", "reselect"} =>
       previous = base.text

\* Before the selection is made again, the rest has been put back.
PutBackInv == pc = "reselect" =>
  text = base.text /\ caret = base.caret /\ sels = <<>> /\ op[1] \in SelectionOps

\* The field a command begins with; only commands on a selection have one.
BaseInv ==
  /\ base.text \in Seq(Char)
  /\ op[1] \in SelectionOps => base.sels = <<base.sels[1]>> /\ base.sels # <<>>
  /\ op[1] \notin SelectionOps => base.sels = <<>>

IInv ==
  /\ foreign \in Nat
  /\ foreign = 0 => UntouchedInv /\ MemoryInv /\ PutBackInv /\ BaseInv
  /\ pc # "ended" => outcome = None
  /\ RollbackRestores

-----------------------------------------------------------------------------
\* A snapshot that is as long as the field is the field.
LEMMA WholeSnapshot ==
  ASSUME NEW t \in Seq(Char)
  PROVE  Take(t, Len(t)) = t
<1>1. Len(t) \in Nat
  OBVIOUS
<1> QED BY <1>1 DEF Take, AtMost

\* A command begins.
LEMMA InitIInv == EditInit => IInv
<1> SUFFICES ASSUME EditInit PROVE IInv
  OBVIOUS
<1>1. /\ text \in Seq(Char) /\ pc = "meta" /\ foreign = 0 /\ outcome = None
      /\ base.text = text /\ base.caret = caret /\ base.sels = sels
  BY FieldAssumption DEF EditInit, Begin
<1>2. op[1] \in SelectionOps => sels = <<sels[1]>> /\ sels # <<>>
  <2> SUFFICES ASSUME op[1] \in SelectionOps PROVE sels = <<sels[1]>> /\ sels # <<>>
    OBVIOUS
  <2>1. PICK r \in Spans(text) : sels = <<r>>
    BY DEF EditInit
  <2> QED BY <2>1
<1>3. op[1] \notin SelectionOps => sels = <<>>
  BY DEF EditInit
<1>4. None # "restored"
  BY FieldAssumption DEF Outcome
<1> QED BY <1>1, <1>2, <1>3, <1>4
        DEF IInv, UntouchedInv, MemoryInv, PutBackInv, BaseInv, RollbackRestores

\* Reading changes nothing; what is read of a field nobody touches is the field.
LEMMA ReadIInv == IInv /\ (ReadMeta \/ Scan \/ Snapshot \/ ReadFails) => IInv'
<1> SUFFICES ASSUME IInv, ReadMeta \/ Scan \/ Snapshot \/ ReadFails PROVE IInv'
  OBVIOUS
<1>1. /\ UNCHANGED <<text, caret, sels, op, base, foreign>> /\ foreign \in Nat
      /\ pc \in {"meta", "scan", "snapshot"} /\ outcome = None
      /\ \/ pc' \in {"scan", "snapshot", "mutate"} /\ outcome' = None
         \/ pc' = "ended" /\ outcome' \in {"refused", "unchanged"}
  <2>1. CASE ReadMeta
    BY <2>1, FieldAssumption DEF IInv, ReadMeta, End, field
  <2>2. CASE Scan
    BY <2>2, FieldAssumption DEF IInv, Scan, End, field
  <2>3. CASE Snapshot
    BY <2>3, FieldAssumption DEF IInv, Snapshot, End, field
  <2>4. CASE ReadFails
    BY <2>4, FieldAssumption DEF IInv, ReadFails, End, field, reading
  <2> QED BY <2>1, <2>2, <2>3, <2>4
<1>2. ASSUME foreign = 0 PROVE UntouchedInv' /\ MemoryInv' /\ BaseInv'
  <2>1. UntouchedInv /\ MemoryInv /\ BaseInv
    BY <1>2 DEF IInv
  <2>2. text = base.text /\ caret = base.caret /\ sels = base.sels /\ text \in Seq(Char)
    BY <1>1, <2>1 DEF UntouchedInv, BaseInv
  <2>3. UntouchedInv' /\ BaseInv'
    BY <1>1, <2>1, <2>2 DEF UntouchedInv, BaseInv
  <2>4. CASE ReadMeta
    <3>1. pc' = "scan" => op[1] \notin SelectionOps
      BY <2>4 DEF ReadMeta, End, SelectionOps, WordOps, LineOps
    <3>2. pc' # "ended" /\ op[1] \in SelectionOps => sels = <<span'>>
      <4>1. op[1] \in SelectionOps => sels = <<sels[1]>> /\ sels # <<>>
        BY <2>1, <2>2 DEF BaseInv
      <4>2. op[1] \in SelectionOps /\ sels # <<>> => span' = sels[1]
        BY <2>4 DEF ReadMeta
      <4> QED BY <4>1, <4>2
    <3>3. at' = caret /\ count' = Len(text)
      BY <2>4 DEF ReadMeta
    <3>4. pc' \in {"scan", "snapshot", "ended"}
      BY <2>4 DEF ReadMeta, End
    <3> QED BY <1>1, <2>2, <2>3, <3>1, <3>2, <3>3, <3>4 DEF MemoryInv
  <2>5. CASE Scan
    <3>1. op[1] \notin SelectionOps \/ UNCHANGED span
      BY <2>1, <2>5 DEF MemoryInv, Scan
    <3>2. pc = "scan" /\ pc' \in {"snapshot", "ended"} /\ UNCHANGED <<at, count>>
      BY <2>5 DEF Scan, End
    <3> QED BY <1>1, <2>1, <2>3, <3>1, <3>2 DEF MemoryInv
  <2>6. CASE Snapshot
    <3>1. Take(text, Len(text)) = text
      BY <2>2, WholeSnapshot
    <3>2. /\ pc = "snapshot" /\ pc' \in {"mutate", "ended"} /\ UNCHANGED <<at, span>>
          /\ previous' = Take(text, Len(text)) \/ previous' = Take(text, count)
      BY <2>6 DEF Snapshot, End
    <3>3. count = Len(text)
      BY <2>1, <2>2, <3>2 DEF MemoryInv
    <3> QED BY <1>1, <2>1, <2>2, <2>3, <3>1, <3>2, <3>3 DEF MemoryInv
  <2>7. CASE ReadFails
    BY <1>1, <2>1, <2>3, <2>7 DEF MemoryInv, ReadFails, End
  <2> QED BY <2>3, <2>4, <2>5, <2>6, <2>7
<1>3. RollbackRestores'
  BY <1>1, FieldAssumption DEF RollbackRestores, Outcome
<1>4. PutBackInv'
  BY <1>1 DEF PutBackInv
<1> QED BY <1>1, <1>2, <1>3, <1>4 DEF IInv

\* The editing call, setting the caret, verifying and writing the snapshot back
\* leave alone what was remembered.
LEMMA EditIInv == IInv /\ (Mutate \/ SetCaret \/ Verify \/ Restore) => IInv'
<1> SUFFICES ASSUME IInv, Mutate \/ SetCaret \/ Verify \/ Restore PROVE IInv'
  OBVIOUS
<1>1. /\ UNCHANGED <<op, at, span, previous, base, foreign>>
      /\ pc \in {"mutate", "caret", "verify", "restore"} /\ outcome = None
      /\ \/ pc' \in {"caret", "verify", "restore", "recheck"} /\ outcome' = None
         \/ pc' = "ended" /\ outcome' \in {"done", "unrestored"}
  BY DEF IInv, Mutate, SetCaret, Verify, Restore, End, reading
<1>2. ASSUME foreign = 0 PROVE UntouchedInv' /\ MemoryInv' /\ BaseInv'
  BY <1>1, <1>2 DEF IInv, UntouchedInv, MemoryInv, BaseInv
<1>3. RollbackRestores'
  BY <1>1, FieldAssumption DEF RollbackRestores, Outcome
<1>4. PutBackInv'
  BY <1>1 DEF PutBackInv
<1> QED BY <1>1, <1>2, <1>3, <1>4 DEF IInv

\* A rollback that has compared the content with the snapshot puts back the caret
\* that was read, and is over where nothing has to be selected.
LEMMA RecheckIInv == IInv /\ Recheck => IInv'
<1> SUFFICES ASSUME IInv, Recheck PROVE IInv'
  OBVIOUS
<1>1. /\ UNCHANGED <<text, op, at, span, previous, base, foreign>> /\ pc = "recheck"
      /\ outcome = None /\ pc' \in {"ended", "reselect"}
      /\ pc' = "reselect" => outcome' = None /\ op[1] \in SelectionOps
      /\ pc' = "reselect" \/ outcome' = "restored" =>
           /\ text = previous
           /\ op[1] # "set_text" => caret' = at /\ sels' = <<>>
      /\ outcome' = "restored" => op[1] \notin SelectionOps
  BY FieldAssumption DEF IInv, Recheck, End, reading, Outcome
<1>2. ASSUME foreign = 0
      PROVE  /\ previous = base.text /\ at = base.caret
             /\ op[1] \in SelectionOps => base.sels = <<span>>
             /\ op[1] \notin SelectionOps => base.sels = <<>>
  BY <1>1, <1>2 DEF IInv, MemoryInv, BaseInv
<1>3. ASSUME foreign = 0 PROVE UntouchedInv' /\ MemoryInv' /\ PutBackInv' /\ BaseInv'
  <2>1. UntouchedInv' /\ MemoryInv' /\ BaseInv'
    BY <1>1, <1>3 DEF IInv, UntouchedInv, MemoryInv, BaseInv
  <2>2. PutBackInv'
    BY <1>1, <1>2, <1>3 DEF PutBackInv, SelectionOps
  <2> QED BY <2>1, <2>2
<1>4. RollbackRestores'
  BY <1>1, <1>2 DEF RollbackRestores
<1> QED BY <1>1, <1>3, <1>4 DEF IInv

\* The selection that is made again is read back; the caret stays or is at its end.
LEMMA ReselectIInv == IInv /\ ReselectSpan => IInv'
<1> SUFFICES ASSUME IInv, ReselectSpan PROVE IInv'
  OBVIOUS
<1>1. /\ UNCHANGED <<text, op, span, base, foreign>> /\ pc = "reselect" /\ pc' = "ended"
      /\ caret' \in {caret, span[2]}
      /\ outcome' = "restored" => sels' = <<span>>
  BY DEF ReselectSpan, AddSpan, End, reading
<1>2. ASSUME foreign = 0 PROVE UntouchedInv' /\ MemoryInv' /\ PutBackInv' /\ BaseInv'
  BY <1>1, <1>2 DEF IInv, UntouchedInv, MemoryInv, PutBackInv, BaseInv
<1>3. RollbackRestores'
  <2> SUFFICES ASSUME outcome' = "restored", foreign' = 0
               PROVE  /\ text' = base'.text /\ sels' = base'.sels
                      /\ \/ caret' = base'.caret
                         \/ op'[1] \in SelectionOps /\ caret' = base'.sels[1][2]
    BY DEF RollbackRestores
  <2>1. /\ text = base.text /\ caret = base.caret /\ op[1] \in SelectionOps
        /\ base.sels = <<span>> /\ base.sels[1] = span
    BY <1>1 DEF IInv, MemoryInv, PutBackInv
  <2> QED BY <1>1, <2>1
<1> QED BY <1>1, <1>2, <1>3 DEF IInv

\* Every step keeps the invariant; once the user types, it claims nothing.
LEMMA NextIInv == IInv /\ [EditNext]_vars => IInv'
<1> SUFFICES ASSUME IInv, [EditNext]_vars PROVE IInv'
  OBVIOUS
<1>1. CASE ReadMeta \/ Scan \/ Snapshot \/ ReadFails
  BY <1>1, ReadIInv
<1>2. CASE Mutate \/ SetCaret \/ Verify \/ Restore
  BY <1>2, EditIInv
<1>3. CASE Recheck
  BY <1>3, RecheckIInv
<1>6. CASE ReselectSpan
  BY <1>6, ReselectIInv
<1>4. CASE Foreign
  <2>1. foreign' = foreign + 1 /\ UNCHANGED <<pc, outcome>> /\ foreign \in Nat
    BY <1>4 DEF Foreign, Typed, IInv
  <2>2. foreign' \in Nat /\ foreign' # 0
    BY <2>1
  <2> QED BY <2>1, <2>2 DEF IInv, RollbackRestores
<1>5. CASE UNCHANGED vars
  BY <1>5 DEF vars, field, reading, IInv, UntouchedInv, MemoryInv, PutBackInv, BaseInv,
     RollbackRestores
<1> QED BY <1>1, <1>2, <1>3, <1>4, <1>5, <1>6 DEF EditNext, EditStep

-----------------------------------------------------------------------------
\* The invariant holds whatever the application does with the calls it gets.
THEOREM InvariantHolds == EditSpec => []IInv
  BY InitIInv, NextIInv, PTL DEF EditSpec

\* A rollback that reports success has restored content and selection, and the caret
\* unless the application moves it to the end of the selection made again.
THEOREM RollbacksAreComplete == EditSpec => []RollbackRestores
<1>1. IInv => RollbackRestores BY DEF IInv
<1> QED BY <1>1, InvariantHolds, PTL

-----------------------------------------------------------------------------
(* The editing commands. *)

\* What may be planned, and when it is.
Plans == [from : Nat, to : Nat, new : Seq(Char), caret : Nat \cup {None}]
Planned == pc \in {"mutate", "caret", "verify", "restore", "recheck", "reselect"}

\* What a command has read is in the order the plans rely on.
ReadTypes ==
  /\ line \in Seq(Char) /\ previous \in Seq(Char)
  /\ pc = "scan" => op[1] \in WordOps \cup LineOps
  /\ pc = "snapshot" /\ op[1] \in LineOps => span[1] <= at /\ at <= span[2]
  /\ pc = "snapshot" /\ op = <<"delete_word", "previous">> => span[2] <= at
  /\ op[1] \in SelectionOps /\ pc \notin {"meta", "ended"} => span[2] <= count

\* The plan is one, and the snapshot is as long as was counted.
PlanTypes ==
  /\ plan = None \/ plan \in Plans
  /\ Planned => plan \in Plans /\ plan.from <= plan.to
  /\ Planned /\ op[1] \in SelectionOps => Len(previous) = count
  /\ pc = "caret" => plan.caret # None

\* The types of an editing command.
EditTypeInv == TypeOK /\ op \in EditOps /\ ReadTypes /\ PlanTypes

\* What is inserted is text.
LEMMA DictatedTypes == Value \in Seq(Char) /\ Pad \in Seq(Char)
<1>1. WordChar \subseteq Char /\ {"space"} \subseteq Char
  BY DEF Char
<1> QED BY <1>1, TextAssumption

\* A command begins.
LEMMA InitTypes == EditInit => EditTypeInv
<1> SUFFICES ASSUME EditInit PROVE EditTypeInv
  OBVIOUS
<1>1. text \in Seq(Char) /\ op \in EditOps
  BY FieldAssumption DEF EditInit
<1>2. /\ caret \in 0..Len(text) /\ pc = "meta" /\ count = 0 /\ at = 0 /\ span = <<0, 0>>
      /\ line = <<>> /\ previous = <<>> /\ plan = None /\ outcome = None
      /\ held = {text} /\ foreign = 0
  BY DEF EditInit, Begin
<1>3. FieldOK
  <2>1. CASE sels = <<>>
    BY <1>1, <1>2, <2>1 DEF FieldOK
  <2>2. CASE sels # <<>>
    <3>1. PICK r \in Spans(text) : sels = <<r>>
      BY <2>2 DEF EditInit
    <3>2. r \in Nat \X Nat /\ r[1] <= r[2] /\ r[2] <= Len(text)
      BY <1>1, <3>1 DEF Spans
    <3> QED BY <1>1, <1>2, <3>1, <3>2 DEF FieldOK
  <2> QED BY <2>1, <2>2
<1>4. TypeOK
  BY <1>1, <1>2, <1>3, FieldAssumption DEF TypeOK, PC
<1>5. ReadTypes /\ PlanTypes
  BY <1>2 DEF ReadTypes, PlanTypes, Planned
<1> QED BY <1>1, <1>4, <1>5 DEF EditTypeInv

\* The reads of a command.
LEMMA MetaTypes == EditTypeInv /\ ReadMeta => EditTypeInv'
<1> SUFFICES ASSUME EditTypeInv, ReadMeta PROVE EditTypeInv'
  OBVIOUS
<1> USE DEF EditTypeInv
<1>1. /\ pc = "meta" /\ UNCHANGED <<field, op, line, previous, plan, base, held, foreign>>
      /\ count' = Len(text) /\ at' = caret
      /\ span' = IF op[1] \in SelectionOps /\ sels # <<>> THEN sels[1] ELSE span
      /\ \/ pc' = "ended" /\ outcome' \in Outcome
         \/ /\ pc' \in {"scan", "snapshot"} /\ outcome' = outcome
            /\ op[1] \in SelectionOps => Len(sels) = 1
            /\ pc' = "scan" <=> op[1] \in WordOps \cup LineOps
  BY DEF ReadMeta, End, Outcome, Wanted, SelectionOps, WordOps, LineOps
<1>2. /\ text \in Seq(Char) /\ caret \in Nat /\ FieldOK'
      /\ sels # <<>> => sels[1] \in Nat \X Nat /\ sels[1][1] <= sels[1][2] /\ sels[1][2] <= Len(text)
  <2>1. FieldOK /\ sels \in Seq(Nat \X Nat)
    BY DEF TypeOK, FieldOK
  <2>2. sels # <<>> => 1 \in DOMAIN sels /\ sels[1] \in Nat \X Nat
    BY <2>1
  <2> QED BY <1>1, <2>1, <2>2 DEF FieldOK, field
<1>3. /\ span' \in Nat \X Nat /\ span'[1] <= span'[2]
      /\ op[1] \in SelectionOps /\ pc' # "ended" => span'[2] <= count'
  <2>1. op[1] \in SelectionOps /\ pc' # "ended" => sels # <<>>
    BY <1>1
  <2> QED BY <1>1, <1>2, <2>1 DEF TypeOK
<1>4. TypeOK'
  BY <1>1, <1>2, <1>3, FieldAssumption DEF TypeOK, PC
<1>5. ReadTypes'
  BY <1>1, <1>3 DEF ReadTypes, WordOps, LineOps
<1>6. PlanTypes'
  BY <1>1 DEF PlanTypes, Planned
<1> QED BY <1>1, <1>4, <1>5, <1>6

\* The one-character reads find the word or the line.
LEMMA ScanTypes == EditTypeInv /\ Scan => EditTypeInv'
<1> SUFFICES ASSUME EditTypeInv, Scan PROVE EditTypeInv'
  OBVIOUS
<1> USE DEF EditTypeInv
<1>1. /\ pc = "scan" /\ UNCHANGED <<field, op, count, at, previous, plan, base, held, foreign>>
      /\ \/ pc' = "ended" /\ outcome' \in Outcome /\ UNCHANGED <<span, line>>
         \/ /\ Found # Unreadable /\ Found # None /\ pc' = "snapshot" /\ outcome' = outcome
            /\ span' = Found /\ line' = Slice(text, Found[1], Found[2])
  BY DEF Scan, End, Outcome
<1>2. /\ text \in Seq(Char) /\ at \in Nat /\ count \in Nat /\ FieldOK'
      /\ op[1] \in WordOps \cup LineOps /\ op[1] \notin SelectionOps
  BY <1>1 DEF TypeOK, FieldOK, field, ReadTypes, WordOps, LineOps, SelectionOps
<1>3. ASSUME Found # Unreadable, Found # None
      PROVE  /\ Found \in Nat \X Nat /\ Found[1] <= Found[2]
             /\ op[1] \in LineOps => Found[1] <= at /\ at <= Found[2]
             /\ op = <<"delete_word", "previous">> => Found[2] <= at
  <2>1. ~(at > Len(text))
    BY <1>3 DEF Found
  <2>2. CASE op[1] \in LineOps
    <3>1. Found = LineAround(text, at, count)
      BY <2>1, <2>2 DEF Found
    <3>2. op # <<"delete_word", "previous">>
      BY <2>2 DEF LineOps
    <3> QED BY <1>2, <1>3, <3>1, <3>2, LineAroundTypes
  <2>3. CASE op[1] \notin LineOps /\ op[2] = "previous"
    <3>1. Found = WordBefore(text, at)
      BY <2>1, <2>3 DEF Found, AdjacentWord
    <3> QED BY <1>2, <1>3, <2>3, <3>1, WordBeforeTypes
  <2>4. CASE op[1] \notin LineOps /\ op[2] # "previous"
    <3>1. Found = WordAfter(text, at, count)
      BY <2>1, <2>4 DEF Found, AdjacentWord
    <3> QED BY <1>2, <1>3, <2>4, <3>1, WordAfterTypes
  <2> QED BY <2>2, <2>3, <2>4
<1>4. /\ span' \in Nat \X Nat /\ span'[1] <= span'[2] /\ line' \in Seq(Char)
      /\ pc' = "snapshot" /\ op[1] \in LineOps => span'[1] <= at /\ at <= span'[2]
      /\ pc' = "snapshot" /\ op = <<"delete_word", "previous">> => span'[2] <= at
  <2>1. CASE UNCHANGED <<span, line>> /\ pc' = "ended"
    BY <2>1 DEF TypeOK, ReadTypes
  <2>2. CASE Found # Unreadable /\ Found # None /\ span' = Found
             /\ line' = Slice(text, Found[1], Found[2])
    <3>1. Found[1] \in Nat /\ Found[2] \in Nat
      BY <1>3, <2>2
    <3> QED BY <1>2, <1>3, <2>2, <3>1, SliceTypes
  <2> QED BY <1>1, <2>1, <2>2
<1>5. TypeOK'
  BY <1>1, <1>2, <1>4, FieldAssumption DEF TypeOK, PC
<1>6. ReadTypes'
  BY <1>1, <1>2, <1>4 DEF ReadTypes
<1>7. PlanTypes'
  BY <1>1 DEF PlanTypes, Planned
<1> QED BY <1>1, <1>5, <1>6, <1>7

\* How far a line is moved out.
LEMMA OutdentTypes ==
  ASSUME line \in Seq(Char)
  PROVE  Outdent \in Nat
<1> DEFINE widths == {k \in 0..AtMost(Len(Pad), Len(line)) : \A i \in 1..k : line[i] = "space"}
<1>1. AtMost(Len(Pad), Len(line)) \in Nat
  BY TextAssumption DEF AtMost
<1>2. widths \in SUBSET (0..AtMost(Len(Pad), Len(line))) /\ 0 \in widths
  BY <1>1
<1>3. Largest(widths) \in widths
  BY <1>1, <1>2, LargestIsOne
<1> QED BY <1>3 DEF Outdent, Spaces

\* Where the line above begins, and the line below ends.
LEMMA LineStartTypes ==
  ASSUME NEW t \in Seq(Char), NEW e \in Nat
  PROVE  LineStart(t, e) \in 0..e
<1> DEFINE starts == {i \in 0..AtMost(e, Len(t)) : i = 0 \/ t[i] = Newline}
<1>1. AtMost(e, Len(t)) \in 0..e
  BY DEF AtMost
<1>2. starts \in SUBSET (0..e) /\ 0 \in starts
  BY <1>1
<1>3. Largest(starts) \in starts
  BY <1>2, LargestIsOne
<1> QED BY <1>2, <1>3 DEF LineStart

\* The end of a line that is there.
LEMMA LineEndTypes ==
  ASSUME NEW t \in Seq(Char), NEW s \in Nat, s <= Len(t)
  PROVE  LineEnd(t, s) \in s..Len(t)
<1> DEFINE ends == {i \in s..Len(t) : i = Len(t) \/ t[i + 1] = Newline}
<1>1. ends \in SUBSET Nat /\ Len(t) \in ends
  OBVIOUS
<1>2. Smallest(ends) \in ends
  BY <1>1, SmallestIsOne
<1> QED BY <1>2 DEF LineEnd

\* A change of a stretch in order is a plan.
LEMMA ChangeTypes ==
  ASSUME NEW s \in Nat, NEW e \in Nat, s <= e, NEW new \in Seq(Char), NEW c \in Nat \cup {None}
  PROVE  /\ Change(s, e, new, c) \in Plans
         /\ Change(s, e, new, c).from <= Change(s, e, new, c).to
         /\ c \in Nat => Change(s, e, new, c).caret \in Nat
BY DEF Change, Plans

\* The commands that leave the caret where the application puts it.
Silent == {"set_text", "delete_selection"}

\* A line moved up or down.
LEMMA MoveLineTypes ==
  ASSUME NEW t \in Seq(Char), line \in Seq(Char), span \in Nat \X Nat, at \in Nat,
         span[1] <= at, at <= span[2], op \in EditOps, op[1] = "move_line", ~Inapplicable(Len(t))
  PROVE  /\ PlanMoveLine(t, Len(t)) \in Plans
         /\ PlanMoveLine(t, Len(t)).from <= PlanMoveLine(t, Len(t)).to
         /\ PlanMoveLine(t, Len(t)).caret \in Nat
<1> DEFINE s == span[1]
           e == span[2]
           above == LineStart(t, s - 1)
           below == LineEnd(t, e + 1)
           next == Slice(t, e + 1, below)
<1>1. s \in Nat /\ e \in Nat /\ Len(t) \in Nat /\ <<Newline>> \in Seq(Char)
  BY DEF Char
<1>2. op = <<"move_line", "up">> \/ op = <<"move_line", "down">>
  <2>1. op \in {"move_line"} \X {"up", "down"}
    BY DEF EditOps
  <2> QED BY <2>1
<1>3. CASE op = <<"move_line", "up">>
  <2>1. s # 0
    BY <1>3 DEF Inapplicable
  <2>2. above \in 0..s - 1
    <3>1. s - 1 \in Nat
      BY <1>1, <2>1
    <3> QED BY <3>1, LineStartTypes
  <2>3. line \o <<Newline>> \o Slice(t, above, s - 1) \in Seq(Char)
    <3>1. Slice(t, above, s - 1) \in Seq(Char)
      BY SMTT(30), <1>1, <2>1, <2>2, SliceTypes
    <3> QED BY <1>1, <3>1
  <2>4. above \in Nat /\ above <= e /\ above + at - s \in Nat
    BY <1>1, <2>1, <2>2
  <2>5. PlanMoveLine(t, Len(t)) =
          Change(above, e, line \o <<Newline>> \o Slice(t, above, s - 1), above + at - s)
    BY <1>3 DEF PlanMoveLine
  <2> QED BY <1>1, <2>3, <2>4, <2>5, ChangeTypes
<1>4. CASE op = <<"move_line", "down">>
  <2>1. e + 1 <= Len(t)
    BY <1>1, <1>4 DEF Inapplicable
  <2>2. below \in e + 1..Len(t)
    BY <1>1, <2>1, LineEndTypes
  <2>3. next \in Seq(Char) /\ Len(next) \in Nat
    <3>1. e + 1 \in Nat /\ below \in Nat
      BY <1>1, <2>2
    <3>2. next \in Seq(Char)
      BY <3>1, SliceTypes
    <3> QED BY <3>2
  <2>4. next \o <<Newline>> \o line \in Seq(Char)
    BY <1>1, <2>3
  <2>5. below \in Nat /\ s <= below /\ s + Len(next) + 1 + at - s \in Nat
    <3>1. below \in Nat /\ e + 1 <= below
      BY <1>1, <2>2
    <3> QED BY <1>1, <2>3, <3>1
  <2>6. PlanMoveLine(t, Len(t)) =
          Change(s, below, next \o <<Newline>> \o line, s + Len(next) + 1 + at - s)
    BY <1>4 DEF PlanMoveLine
  <2> QED BY ZenonT(30), <1>1, <2>4, <2>5, <2>6, ChangeTypes
<1> QED BY <1>2, <1>3, <1>4

\* Whatever a command plans is a change of a stretch of the snapshot.
LEMMA PlannedTypes ==
  ASSUME EditTypeInv, pc = "snapshot", NEW t \in Seq(Char), ~Inapplicable(Len(t)),
         ~(op[1] = "delete_character" /\ AtBoundary(at, Len(t)))
  PROVE  /\ Plan(t, Len(t)) \in Plans /\ Plan(t, Len(t)).from <= Plan(t, Len(t)).to
         /\ Plan(t, Len(t)).caret \in Nat \/ op[1] \in Silent
<1> DEFINE n == Len(t)
           s == span[1]
           e == span[2]
           Good(p) == p \in Plans /\ p.from <= p.to /\ (p.caret \in Nat \/ op[1] \in Silent)
<1>1. /\ s \in Nat /\ e \in Nat /\ s <= e /\ at \in Nat /\ n \in Nat /\ line \in Seq(Char)
      /\ op \in EditOps /\ Len(line) \in Nat /\ span \in Nat \X Nat
  BY DEF EditTypeInv, TypeOK, ReadTypes
<1>2. /\ Value \in Seq(Char) /\ Len(Value) \in Nat /\ Pad \in Seq(Char) /\ Len(Pad) \in Nat
      /\ <<Newline>> \in Seq(Char) /\ <<>> \in Seq(Char)
  BY DictatedTypes DEF Char
<1>3. op[1] \in LineOps => s <= at /\ at <= e
  BY DEF EditTypeInv, ReadTypes
<1>4. op = <<"delete_word", "previous">> => e <= at
  BY DEF EditTypeInv, ReadTypes
<1>5. ASSUME NEW new \in Seq(Char), s <= at, at <= e
      PROVE  Good(PlanNewLine(new, n))
  <2>1. Len(new) \in Nat
    BY <1>5
  <2>2. /\ new \o <<Newline>> \in Seq(Char) /\ <<Newline>> \o new \in Seq(Char)
        /\ e <= e /\ s <= s /\ 0 \in Nat /\ 0 <= 0
        /\ s + Len(new) \in Nat /\ e + 1 + Len(new) \in Nat
    BY SMTT(30), <1>1, <1>2, <1>5, <2>1
  <2>3. Good(Change(0, 0, new, Len(new)))
    BY <2>1, <2>2, <1>5, ChangeTypes
  <2>4. Good(Change(s, s, new \o <<Newline>>, s + Len(new)))
    BY <1>1, <2>2, ChangeTypes
  <2>5. Good(Change(e, e, <<Newline>> \o new, e + 1 + Len(new)))
    BY <1>1, <2>2, ChangeTypes
  <2> QED BY <2>3, <2>4, <2>5 DEF PlanNewLine
<1>6. CASE op[1] = "set_text"
  <2>1. Good(Change(0, n, Value, None))
    <3>1. 0 \in Nat /\ 0 <= n
      BY <1>1
    <3> QED BY <1>1, <1>2, <1>6, <3>1, ChangeTypes DEF Silent
  <2> QED BY <1>6, <2>1 DEF Plan, PlanSetText
<1>7. CASE op[1] = "delete_selection"
  <2>1. Good(Change(s, e, <<>>, None))
    BY <1>1, <1>2, <1>7, ChangeTypes DEF Silent
  <2> QED BY <1>7, <2>1 DEF Plan, PlanDeleteSelection
<1>8. CASE op[1] \in {"replace_selection", "replace_word", "replace_line"}
  <2>1. s + Len(Value) \in Nat
    BY <1>1, <1>2
  <2>2. Good(Change(s, e, Value, s + Len(Value)))
    BY <1>1, <1>2, <2>1, ChangeTypes
  <2> QED BY <1>8, <2>2 DEF Plan, PlanReplaceSelection, PlanReplaceWord, PlanReplaceLine
<1>9. CASE op[1] = "insert_at_caret"
  <2>1. at + Len(Value) \in Nat /\ at <= at
    BY <1>1, <1>2
  <2>2. Good(Change(at, at, Value, at + Len(Value)))
    BY <1>1, <1>2, <2>1, ChangeTypes
  <2> QED BY <1>9, <2>2 DEF Plan, PlanInsertAtCaret
<1>10. CASE op[1] = "delete_character"
  <2>1. op[2] = "previous" => at - 1 \in Nat /\ at - 1 <= at
    BY <1>1, <1>10 DEF AtBoundary
  <2>2. op[2] = "previous" => Good(Change(at - 1, at, <<>>, at - 1))
    BY <1>1, <1>2, <2>1, ChangeTypes
  <2>3. at + 1 \in Nat /\ at <= at + 1
    BY <1>1
  <2>4. Good(Change(at, at + 1, <<>>, at))
    BY <1>1, <1>2, <2>3, ChangeTypes
  <2> QED BY <1>10, <2>2, <2>4 DEF Plan, PlanDeleteCharacter
<1>11. CASE op[1] = "delete_word"
  <2>1. op[2] = "previous" => at - (e - s) \in Nat
    <3>1. op[2] = "previous" => op = <<"delete_word", "previous">>
      <4>1. op \in {"delete_word"} \X Direction
        BY <1>1, <1>11 DEF EditOps
      <4> QED BY <4>1
    <3> QED BY <1>1, <1>4, <3>1
  <2>2. op[2] = "previous" => Good(Change(s, e, <<>>, at - (e - s)))
    BY <1>1, <1>2, <2>1, ChangeTypes
  <2>3. Good(Change(s, e, <<>>, at))
    BY <1>1, <1>2, ChangeTypes
  <2> QED BY <1>11, <2>2, <2>3 DEF Plan, PlanDeleteWord
<1>12. CASE op[1] = "delete_line"
  <2>1. e + 1 \in Nat /\ s <= e + 1 /\ (s > 0 => s - 1 \in Nat /\ s - 1 <= e)
    BY <1>1
  <2>2. Good(Change(s, e + 1, <<>>, s)) /\ Good(Change(s, e, <<>>, s))
    BY <1>1, <1>2, <2>1, ChangeTypes
  <2>3. s > 0 => Good(Change(s - 1, e, <<>>, s - 1))
    BY <1>1, <1>2, <2>1, ChangeTypes
  <2> QED BY <1>12, <2>2, <2>3 DEF Plan, PlanDeleteLine
<1>13. CASE op[1] = "insert_line"
  <2>1. op[1] \in LineOps
    BY <1>13 DEF LineOps
  <2>2. Good(PlanNewLine(Value, n))
    BY <1>2, <1>3, <1>5, <2>1
  <2> QED BY <1>13, <2>2 DEF Plan, PlanInsertLine
<1>14. CASE op[1] = "duplicate_line"
  <2>1. op[1] \in LineOps
    BY <1>14 DEF LineOps
  <2>2. Good(PlanNewLine(line, n))
    BY <1>1, <1>3, <1>5, <2>1
  <2> QED BY <1>14, <2>2 DEF Plan, PlanDuplicateLine
<1>15. CASE op[1] = "move_line"
  <2>1. s <= at /\ at <= e
    BY <1>3, <1>15 DEF LineOps
  <2>2. Good(PlanMoveLine(t, n))
    BY <1>1, <1>15, <2>1, MoveLineTypes
  <2> QED BY <1>15, <2>2 DEF Plan
<1>16. CASE op[1] = "join_line"
  <2>1. s <= at /\ op \in {"join_line"} \X Direction
    BY <1>1, <1>3, <1>16 DEF LineOps, EditOps
  <2>2. op[2] = "previous" => s - 1 \in Nat /\ s - 1 <= s /\ at - 1 \in Nat
    <3>1. op[2] = "previous" => op = <<"join_line", "previous">>
      BY <2>1
    <3>2. op[2] = "previous" => s # 0
      BY <3>1 DEF Inapplicable
    <3> QED BY <1>1, <2>1, <3>2
  <2>3. op[2] = "previous" => Good(Change(s - 1, s, <<>>, at - 1))
    BY <1>1, <1>2, <2>2, ChangeTypes
  <2>4. e + 1 \in Nat /\ e <= e + 1
    BY <1>1
  <2>5. Good(Change(e, e + 1, <<>>, at))
    BY <1>1, <1>2, <2>4, ChangeTypes
  <2> QED BY <1>16, <2>3, <2>5 DEF Plan, PlanJoinLine
<1>17. CASE op[1] = "split_line"
  <2>1. at + 1 \in Nat /\ at <= at
    BY <1>1
  <2>2. Good(Change(at, at, <<Newline>>, at + 1))
    BY <1>1, <1>2, <2>1, ChangeTypes
  <2> QED BY <1>17, <2>2 DEF Plan, PlanSplitLine
<1>18. CASE op[1] = "indent_line"
  <2>1. Outdent \in Nat
    BY <1>1, OutdentTypes
  <2>2. /\ at + Len(Pad) \in Nat /\ s <= s /\ s + Outdent \in Nat /\ s <= s + Outdent
        /\ (IF at - Outdent >= s THEN at - Outdent ELSE s) \in Nat
    BY SMTT(30), <1>1, <1>2, <2>1
  <2>3. Good(Change(s, s, Pad, at + Len(Pad)))
    BY <1>1, <1>2, <2>2, ChangeTypes
  <2>4. Good(Change(s, s + Outdent, <<>>, IF at - Outdent >= s THEN at - Outdent ELSE s))
    BY <1>1, <1>2, <2>2, ChangeTypes
  <2> QED BY <1>18, <2>3, <2>4 DEF Plan, PlanIndent
<1>19. op[1] \in {"set_text", "delete_selection", "replace_selection", "replace_word",
         "replace_line", "insert_at_caret", "delete_character", "delete_word", "delete_line",
         "insert_line", "duplicate_line", "move_line", "join_line", "split_line", "indent_line"}
  BY <1>1 DEF EditOps
<1> QED BY <1>6, <1>7, <1>8, <1>9, <1>10, <1>11, <1>12, <1>13, <1>14, <1>15, <1>16, <1>17,
        <1>18, <1>19

\* The snapshot and the plan.
LEMMA SnapshotTypes == EditTypeInv /\ Snapshot => EditTypeInv'
<1> SUFFICES ASSUME EditTypeInv, Snapshot PROVE EditTypeInv'
  OBVIOUS
<1> DEFINE n == IF op[1] \in LineOps \cup {"set_text"} THEN Len(text) ELSE count
           t == Take(text, n)
<1>1. /\ pc = "snapshot" /\ UNCHANGED <<field, op, at, span, line, base, held, foreign>>
      /\ count' = n /\ previous' = t
      /\ \/ pc' = "ended" /\ outcome' \in Outcome /\ UNCHANGED plan
         \/ /\ pc' = "mutate" /\ outcome' = outcome /\ plan' = Plan(t, n)
            /\ Len(t) = n /\ ~Inapplicable(n)
            /\ ~(op[1] = "delete_character" /\ AtBoundary(at, n))
  BY DEF Snapshot, End, Outcome
<1>2. /\ TypeOK /\ op \in EditOps /\ ReadTypes /\ PlanTypes /\ text \in Seq(Char)
      /\ count \in Nat
  BY DEF EditTypeInv, TypeOK, FieldOK
<1>3. n \in Nat /\ t \in Seq(Char)
  <2>1. n \in Nat
    BY <1>2
  <2> QED BY <1>2, <2>1, CutTypes
<1>4. pc' = "mutate" => plan' \in Plans /\ plan'.from <= plan'.to
  BY <1>1, <1>3, PlannedTypes
<1>5. plan' = None \/ plan' \in Plans
  BY <1>1, <1>2, <1>4 DEF PlanTypes
<1>6. plan' # None => plan'.caret \in Nat \cup {None}
  BY <1>5 DEF Plans
<1>7. TypeOK'
  BY <1>1, <1>2, <1>3, <1>6, FieldAssumption DEF TypeOK, FieldOK, PC, field
<1>8. op[1] \in SelectionOps => n = count
  BY DEF SelectionOps, LineOps
<1>9. ReadTypes'
  BY <1>1, <1>2, <1>3, <1>8 DEF ReadTypes
<1>10. PlanTypes'
  BY <1>1, <1>4, <1>5 DEF PlanTypes, Planned
<1> QED BY <1>1, <1>2, <1>7, <1>9, <1>10 DEF EditTypeInv

\* The editing call keeps the field in order whatever the application makes of it.
LEMMA ApplyTypes ==
  ASSUME EditTypeInv, Planned, NEW how \in {"all", "short", "none"}, Apply(how)
  PROVE  FieldOK' /\ text' \in Seq(Char)
<1> DEFINE short == IF how = "short" THEN 1 ELSE 0
           from == AtMost(plan.from, Len(text))
           end == AtMost(plan.to, Len(text))
           to == IF plan.new = <<>> /\ end > from THEN end - short ELSE end
           new == IF plan.new = <<>> THEN <<>> ELSE Take(plan.new, Len(plan.new) - short)
<1>1. /\ plan.from \in Nat /\ plan.to \in Nat /\ plan.from <= plan.to /\ plan.new \in Seq(Char)
      /\ text \in Seq(Char) /\ Len(text) \in Nat /\ caret \in 0..Len(text) /\ FieldOK
      /\ previous \in Seq(Char)
  BY DEF EditTypeInv, TypeOK, FieldOK, ReadTypes, PlanTypes, Plans
<1>2. CASE how = "none"
  BY <1>1, <1>2 DEF Apply, field, FieldOK
<1>3. CASE how # "none" /\ ByPart
  <2>1. from \in Nat /\ end \in Nat /\ from <= end /\ end <= Len(text)
    BY <1>1 DEF AtMost
  <2>2. to \in Nat /\ from <= to /\ to <= Len(text)
    BY <1>1, <2>1
  <2>3. new \in Seq(Char)
    <3>1. CASE plan.new = <<>>
      BY <3>1
    <3>2. CASE plan.new # <<>>
      <4>1. Len(plan.new) \in Nat \ {0}
        BY <1>1, <3>2
      <4>2. Len(plan.new) - short \in Nat
        BY <4>1
      <4> QED BY <1>1, <3>2, <4>2, CutTypes
    <3> QED BY <3>1, <3>2
  <2>4. text' = Splice(text, from, to, new) /\ caret' = Shifted(from, to, Len(new)) /\ sels' = <<>>
    BY <1>3 DEF Apply
  <2> HIDE DEF from, to, new, end, short
  <2>5. text' \in Seq(Char) /\ Len(text') = Len(text) - (to - from) + Len(new)
    <3>1. /\ Splice(text, from, to, new) \in Seq(Char)
          /\ Len(Splice(text, from, to, new)) = Len(text) - (to - from) + Len(new)
      BY <1>1, <2>1, <2>2, <2>3, SpliceTypes
    <3> QED BY <2>4, <3>1
  <2>6. Len(new) \in Nat
    BY <2>3
  <2>7. caret' \in 0..Len(text')
    BY SMTT(30), <1>1, <2>1, <2>2, <2>4, <2>5, <2>6 DEF Shifted
  <2> QED BY <2>4, <2>5, <2>7 DEF FieldOK
<1>4. CASE how # "none" /\ ~ByPart
  <2>1. Expected \in Seq(Char)
    BY <1>1, SpliceTypes DEF Expected
  <2>2. Len(Expected) - AtMost(short, Len(Expected)) \in Nat
    <3>1. Len(Expected) \in Nat
      BY <2>1
    <3> QED BY <3>1 DEF AtMost
  <2>3. text' = Take(Expected, Len(Expected) - AtMost(short, Len(Expected)))
        /\ caret' \in {0, Len(text')} /\ sels' = <<>>
    BY <1>4 DEF Apply
  <2>4. text' \in Seq(Char)
    BY <2>1, <2>2, <2>3, CutTypes
  <2>5. Len(text') \in Nat
    BY <2>4
  <2> QED BY <2>3, <2>4, <2>5 DEF FieldOK
<1> QED BY <1>2, <1>3, <1>4

\* So do the other calls, the verification and the rollback.
LEMMA CallTypes ==
  ASSUME EditTypeInv, Mutate \/ SetCaret \/ Verify \/ Restore \/ Recheck \/ ReselectSpan
  PROVE  EditTypeInv'
<1>1. /\ TypeOK /\ op \in EditOps /\ ReadTypes /\ PlanTypes /\ FieldOK
      /\ text \in Seq(Char) /\ previous \in Seq(Char) /\ at \in Nat
  BY DEF EditTypeInv, TypeOK, FieldOK, ReadTypes
<1>2. UNCHANGED <<reading, base, held, foreign>> /\ Planned
  BY DEF Mutate, SetCaret, Verify, Restore, Recheck, ReselectSpan, Planned
<1>3. /\ \/ pc' = "ended" /\ outcome' \in Outcome
         \/ pc' \in {"caret", "verify", "restore", "recheck", "reselect"} /\ outcome' = outcome
      /\ pc' = "caret" => plan.caret # None
  BY <1>2 DEF Mutate, SetCaret, Verify, Restore, Recheck, ReselectSpan, End, Outcome
<1>4. FieldOK'
  <2>1. CASE Mutate
    <3>1. PICK how \in {"all", "short", "none"} : Apply(how)
      BY <2>1 DEF Mutate
    <3> QED BY <1>2, <3>1, ApplyTypes
  <2>2. CASE SetCaret
    <3>1. pc = "caret" /\ plan.caret \in Nat /\ Len(text) \in Nat
      BY <1>1, <1>2, <2>2 DEF SetCaret, PlanTypes, Plans
    <3>2. CASE plan.caret <= Len(text) /\ caret' = plan.caret /\ sels' = <<>> /\ UNCHANGED text
      BY <1>1, <3>1, <3>2 DEF FieldOK
    <3>3. CASE UNCHANGED field
      BY <1>1, <3>3 DEF FieldOK, field
    <3> QED BY <2>2, <3>2, <3>3 DEF SetCaret, field
  <2>3. CASE Verify
    BY <1>1, <2>3 DEF Verify, FieldOK, field
  <2>4. CASE Restore
    <3>1. \/ text' = previous /\ caret' \in {0, Len(previous)} /\ sels' = <<>>
          \/ UNCHANGED field
      BY <2>4 DEF Restore
    <3>2. Len(previous) \in Nat
      BY <1>1
    <3>3. CASE text' = previous /\ caret' \in {0, Len(previous)} /\ sels' = <<>>
      <4>1. text' \in Seq(Char) /\ caret' \in 0..Len(text')
        BY <1>1, <3>2, <3>3
      <4> QED BY <3>3, <4>1 DEF FieldOK
    <3>4. CASE UNCHANGED field
      BY <1>1, <3>4 DEF FieldOK, field
    <3> QED BY <3>1, <3>3, <3>4
  <2>5. CASE Recheck
    <3>1. CASE UNCHANGED field
      BY <1>1, <3>1 DEF FieldOK, field
    <3>2. CASE ~UNCHANGED field
      <4>1. at <= Len(text) /\ caret' = at /\ UNCHANGED text /\ sels' = <<>>
        BY <2>5, <3>2 DEF Recheck, field
      <4>2. caret' \in 0..Len(text')
        BY <1>1, <4>1
      <4> QED BY <1>1, <4>1, <4>2 DEF FieldOK
    <3> QED BY <3>1, <3>2
  <2>6. CASE ReselectSpan
    <3>1. /\ UNCHANGED text
          /\ \/ UNCHANGED <<sels, caret>>
             \/ /\ span[2] <= Len(text) /\ sels' = Append(sels, span)
                /\ caret' \in {caret, span[2]}
      BY <2>6 DEF ReselectSpan, AddSpan
    <3>2. /\ span \in Nat \X Nat /\ span[1] <= span[2]
          /\ sels \in Seq(Nat \X Nat) /\ caret \in 0..Len(text) /\ Len(text) \in Nat
          /\ \A i \in DOMAIN sels : sels[i][1] <= sels[i][2] /\ sels[i][2] <= Len(text)
      BY <1>1 DEF TypeOK, FieldOK
    <3>3. CASE UNCHANGED <<sels, caret>>
      BY <1>1, <3>1, <3>3 DEF FieldOK
    <3>4. CASE span[2] <= Len(text) /\ sels' = Append(sels, span) /\ caret' \in {caret, span[2]}
      <4>1. caret' \in 0..Len(text)
        BY <3>2, <3>4
      <4>2. sels' \in Seq(Nat \X Nat) /\ DOMAIN sels' = 1..Len(sels) + 1 /\ DOMAIN sels = 1..Len(sels)
        BY <3>2, <3>4
      <4>3. ASSUME NEW i \in 1..Len(sels) + 1
            PROVE  sels'[i][1] <= sels'[i][2] /\ sels'[i][2] <= Len(text)
        <5>1. sels'[i] = IF i = Len(sels) + 1 THEN span ELSE sels[i]
          BY <3>2, <3>4
        <5>2. i # Len(sels) + 1 => i \in 1..Len(sels)
          BY <3>2
        <5> QED BY <3>2, <3>4, <4>2, <5>1, <5>2
      <4> QED BY <1>1, <3>1, <4>1, <4>2, <4>3 DEF FieldOK
    <3> QED BY <3>1, <3>3, <3>4
  <2> QED BY <2>1, <2>2, <2>3, <2>4, <2>5, <2>6
<1>5. TypeOK'
  <2>1. outcome = None
    BY <1>1, <1>2 DEF TypeOK, Planned
  <2>2. pc' \in PC /\ outcome' \in Outcome \cup {None} /\ (pc' = "ended" <=> outcome' # None)
    BY <1>3, <2>1, FieldAssumption DEF PC
  <2> QED BY <1>1, <1>2, <1>4, <2>2 DEF TypeOK, reading
<1>6. ReadTypes' /\ PlanTypes'
  BY <1>1, <1>2, <1>3 DEF ReadTypes, PlanTypes, Planned, reading
<1> QED BY <1>1, <1>2, <1>5, <1>6 DEF EditTypeInv, reading

\* Every step keeps the types.
LEMMA NextTypes == EditTypeInv /\ [EditNext]_vars => EditTypeInv'
<1> SUFFICES ASSUME EditTypeInv, [EditNext]_vars PROVE EditTypeInv'
  OBVIOUS
<1>1. CASE ReadMeta
  BY <1>1, MetaTypes
<1>2. CASE Scan
  BY <1>2, ScanTypes
<1>3. CASE Snapshot
  BY <1>3, SnapshotTypes
<1>4. CASE Mutate \/ SetCaret \/ Verify \/ Restore \/ Recheck \/ ReselectSpan
  BY <1>4, CallTypes
<1>5. CASE ReadFails
  <2>1. pc' = "ended" /\ outcome' = "refused" /\ UNCHANGED <<field, reading, base, held, foreign>>
    BY <1>5 DEF ReadFails, End
  <2>2. TypeOK'
    BY <2>1, FieldAssumption DEF EditTypeInv, TypeOK, FieldOK, PC, Outcome, field, reading
  <2> QED BY <2>1, <2>2 DEF EditTypeInv, ReadTypes, PlanTypes, Planned, reading
<1>6. CASE Foreign
  <2>1. TypeOK' /\ UNCHANGED <<reading, pc, outcome, base>>
    BY <1>6, ForeignTypes DEF EditTypeInv
  <2> QED BY <2>1 DEF EditTypeInv, ReadTypes, PlanTypes, Planned, reading
<1>7. CASE UNCHANGED vars
  BY <1>7 DEF vars, field, reading, EditTypeInv, TypeOK, FieldOK, ReadTypes, PlanTypes, Planned
<1> QED BY <1>1, <1>2, <1>3, <1>4, <1>5, <1>6, <1>7 DEF EditNext, EditStep

\* The type invariant: no editing command, whatever the application does with its
\* calls and whatever the user types meanwhile, leaves or uses an offset outside the
\* field, and every plan is a change of a stretch of text.
THEOREM EditTypeCorrect == EditSpec => []TypeOK
<1>1. EditTypeInv => TypeOK
  BY DEF EditTypeInv
<1> QED BY <1>1, InitTypes, NextTypes, PTL DEF EditSpec

-----------------------------------------------------------------------------
(* The commands on lines. *)

\* The caret c is in column k of row r of the lines l.
At(t, c, l, r, k) == Lines(t) = l /\ Row(t, c) = r /\ Column(t, c) = k

\* The command has changed the line from i to j, with the caret at c.
LineEdit(t, c, i, j) ==
  /\ t \in Seq(Char) /\ IsLine(t, i, j) /\ c \in i..j
  /\ at = c /\ span = <<i, j>> /\ line = Slice(t, i, j)
  /\ ~Inapplicable(Len(t)) /\ plan = Plan(t, Len(t))
  /\ text = Splice(t, plan.from, plan.to, plan.new) /\ caret = plan.caret

\* What the command makes of the lines and the caret.
Makes(l, r, k, l2, r2, k2) == LinesAfter(l, r, k) = l2 /\ PlaceAfter(l, r, k) = <<r2, k2>>

\* The lines and the place of the caret are all the property asks for.
LEMMA MadeLines ==
  ASSUME NEW t, NEW c, NEW l, NEW r, NEW k, NEW l2, NEW r2, NEW k2,
         At(t, c, l, r, k), At(text, caret, l2, r2, k2), Makes(l, r, k, l2, r2, k2)
  PROVE  EditsLines(t, c)
BY DEF At, Makes, EditsLines

\* The caret c is in column k of the line from i to j, which is m, row r of the lines
\* l, between p and q.
OnLine(t, c, i, j, p, m, q, l, r, k) ==
  /\ t \in Seq(Char) /\ IsLine(t, i, j) /\ c \in i..j
  /\ i \in Nat /\ j \in Nat /\ c \in Nat /\ i <= j /\ Len(t) \in Nat /\ j <= Len(t)
  /\ m \in Seq(Char) /\ Len(m) = j - i /\ Plain(m)
  /\ p \in Seq(Seq(Char)) /\ q \in Seq(Seq(Char)) /\ k \in 0..Len(m) /\ k = c - i
  /\ p = Above(t, i) /\ m = Slice(t, i, j) /\ q = Below(t, j)
  /\ IsRow(l, r, p, m, q) /\ At(t, c, l, r, k)

\* The line from i to j is m1, the one after it, to e, is m2; they are rows r and f of
\* the lines l.
OnPair(t, i, j, e, p, m1, m2, q, l, r, f) ==
  /\ t \in Seq(Char) /\ IsLine(t, i, j) /\ IsLine(t, j + 1, e)
  /\ i \in Nat /\ j \in Nat /\ e \in Nat /\ i <= j /\ j + 1 <= e /\ Len(t) \in Nat /\ e <= Len(t)
  /\ m1 \in Seq(Char) /\ Len(m1) = j - i /\ Plain(m1)
  /\ m2 \in Seq(Char) /\ Len(m2) = e - (j + 1) /\ Plain(m2)
  /\ p \in Seq(Seq(Char)) /\ q \in Seq(Seq(Char))
  /\ p = Above(t, i) /\ m1 = Slice(t, i, j) /\ m2 = Slice(t, j + 1, e) /\ q = Below(t, e)
  /\ IsRows(l, r, f, p, m1, m2, q)
  /\ \A c \in i..j : At(t, c, l, r, c - i)
  /\ \A c \in j + 1..e : At(t, c, l, f, c - (j + 1))

\* A command on a line finds it between the lines above and below.
LEMMA LineFacts ==
  ASSUME NEW t, NEW c, NEW i, NEW j, LineEdit(t, c, i, j)
  PROVE  \E p, m, q, l, r, k : OnLine(t, c, i, j, p, m, q, l, r, k)
<1> DEFINE m == Slice(t, i, j)
           p == Above(t, i)
           q == Below(t, j)
           l == (p \o <<m>>) \o q
           r == Len(p) + 1
           k == c - i
<1>1. t \in Seq(Char) /\ IsLine(t, i, j) /\ c \in i..j
  BY DEF LineEdit
<1>2. /\ i \in Nat /\ j \in Nat /\ c \in Nat /\ i <= j /\ i <= c /\ c <= j
      /\ Len(t) \in Nat /\ j <= Len(t)
  BY <1>1 DEF IsLine
<1>3. HasLine(t, i, j, p, m, q)
  BY <1>1, LineOf
<1>4. IsRow(l, r, p, m, q)
  BY DEF IsRow
<1>5. k = c - i /\ p = Above(t, i) /\ m = Slice(t, i, j) /\ q = Below(t, j)
  OBVIOUS
<1>6. l = (p \o <<m>>) \o q /\ r = Len(p) + 1
  OBVIOUS
<1> HIDE DEF m, p, q, l, r, k
<1>7. /\ m \in Seq(Char) /\ Len(m) = j - i /\ Plain(m)
      /\ p \in Seq(Seq(Char)) /\ q \in Seq(Seq(Char))
  BY <1>3 DEF HasLine
<1>8. At(t, c, l, r, k)
  BY <1>1, <1>3, <1>5, <1>6 DEF HasLine, At
<1>9. k \in 0..Len(m)
  BY <1>2, <1>5, <1>7
<1> QED BY <1>1, <1>2, <1>4, <1>5, <1>7, <1>8, <1>9 DEF OnLine

\* Two lines next to each other lie between the lines above and below.
LEMMA PairFacts ==
  ASSUME NEW t \in Seq(Char), NEW i, NEW j, NEW e, IsLine(t, i, j), IsLine(t, j + 1, e)
  PROVE  \E p, m1, m2, q, l, r, f : OnPair(t, i, j, e, p, m1, m2, q, l, r, f)
<1> DEFINE m1 == Slice(t, i, j)
           m2 == Slice(t, j + 1, e)
           p == Above(t, i)
           q == Below(t, e)
           l == (p \o <<m1, m2>>) \o q
           r == Len(p) + 1
           f == Len(p) + 2
<1>2. /\ i \in Nat /\ j \in Nat /\ e \in Nat /\ i <= j /\ j + 1 <= e
      /\ Len(t) \in Nat /\ e <= Len(t)
  BY DEF IsLine
<1>3. HasPair(t, i, j, e, p, m1, m2, q)
  BY PairOf
<1>4. IsRows(l, r, f, p, m1, m2, q)
  BY DEF IsRows
<1>5. p = Above(t, i) /\ m1 = Slice(t, i, j) /\ m2 = Slice(t, j + 1, e) /\ q = Below(t, e)
  OBVIOUS
<1>6. l = (p \o <<m1, m2>>) \o q /\ r = Len(p) + 1 /\ f = Len(p) + 2
  OBVIOUS
<1> HIDE DEF m1, m2, p, q, l, r, f
<1>7. /\ m1 \in Seq(Char) /\ Len(m1) = j - i /\ Plain(m1)
      /\ m2 \in Seq(Char) /\ Len(m2) = e - (j + 1) /\ Plain(m2)
      /\ p \in Seq(Seq(Char)) /\ q \in Seq(Seq(Char))
  BY <1>3 DEF HasPair
<1>8. /\ \A c \in i..j : At(t, c, l, r, c - i)
      /\ \A c \in j + 1..e : At(t, c, l, f, c - (j + 1))
  BY <1>3, <1>6 DEF HasPair, At
<1> QED BY <1>2, <1>4, <1>5, <1>7, <1>8 DEF OnPair

\* Changing a part of m makes it the line y, or the lines y1 and y2.
Becomes(m, b, d, new, y) ==
  new \in Seq(Char) /\ y \in Seq(Char) /\ Plain(y) /\ Splice(m, b, d, new) = y
BecomesTwo(m, b, d, new, y1, y2) ==
  /\ new \in Seq(Char) /\ y1 \in Seq(Char) /\ Plain(y1) /\ y2 \in Seq(Char) /\ Plain(y2)
  /\ Splice(m, b, d, new) = Glue(y1, y2)

\* The caret is in column k of the line y that starts at i.
Spot(i, y, k) == k \in 0..Len(y) /\ caret = i + k

\* The caret in the line that was made.
LEMMA PlacedLine ==
  ASSUME NEW i \in Nat, NEW p, NEW y, NEW q, HasLine(text, i, i + Len(y), p, y, q),
         NEW k, Spot(i, y, k)
  PROVE  At(text, caret, (p \o <<y>>) \o q, Len(p) + 1, k)
<1>1. k \in 0..Len(y) /\ caret = i + k /\ Len(y) \in Nat
  BY DEF Spot, HasLine
<1>2. caret \in i..i + Len(y) /\ caret - i = k
  BY <1>1
<1> QED BY <1>2 DEF HasLine, At

\* The caret in one of the two lines that were made.
LEMMA PlacedPair ==
  ASSUME NEW i \in Nat, NEW p, NEW y1, NEW y2, NEW q,
         HasPair(text, i, i + Len(y1), i + Len(y1) + 1 + Len(y2), p, y1, y2, q), NEW k
  PROVE  /\ Spot(i, y1, k) => At(text, caret, (p \o <<y1, y2>>) \o q, Len(p) + 1, k)
         /\ Spot(i + Len(y1) + 1, y2, k) =>
              At(text, caret, (p \o <<y1, y2>>) \o q, Len(p) + 2, k)
<1>1. Len(y1) \in Nat /\ Len(y2) \in Nat
  BY DEF HasPair
<1> DEFINE j == i + Len(y1)
           e == i + Len(y1) + 1 + Len(y2)
<1>2. j \in Nat /\ e \in Nat /\ j = i + Len(y1) /\ e = j + 1 + Len(y2)
  BY <1>1
<1>3. /\ Lines(text) = (p \o <<y1, y2>>) \o q
      /\ \A c \in i..j : Row(text, c) = Len(p) + 1 /\ Column(text, c) = c - i
      /\ \A c \in j + 1..e : Row(text, c) = Len(p) + 2 /\ Column(text, c) = c - (j + 1)
  BY DEF HasPair
<1> HIDE DEF j, e
<1>4. ASSUME Spot(i, y1, k) PROVE At(text, caret, (p \o <<y1, y2>>) \o q, Len(p) + 1, k)
  <2>1. caret \in i..j /\ caret - i = k
    BY <1>1, <1>2, <1>4 DEF Spot
  <2> QED BY <1>3, <2>1 DEF At
<1>5. ASSUME Spot(j + 1, y2, k)
      PROVE  At(text, caret, (p \o <<y1, y2>>) \o q, Len(p) + 2, k)
  <2>1. caret \in j + 1..e /\ caret - (j + 1) = k
    BY <1>1, <1>2, <1>5 DEF Spot
  <2> QED BY <1>3, <2>1 DEF At
<1> QED BY <1>4, <1>5 DEF j

\* What is dictated or padded has no line breaks.
LEMMA PlainTexts == Value \in Seq(Char) /\ Plain(Value) /\ Pad \in Seq(Char) /\ Plain(Pad)
<1>1. Value \in Seq(WordChar) /\ Pad \in Seq({"space"})
  BY TextAssumption
<1>2. \A k \in 1..Len(Value) : Value[k] \in WordChar
  BY <1>1
<1>3. \A k \in 1..Len(Pad) : Pad[k] \in {"space"}
  BY <1>1
<1>4. Value \in Seq(Char) /\ Pad \in Seq(Char)
  BY <1>1 DEF Char
<1> QED BY <1>2, <1>3, <1>4 DEF Plain, Newline, WordChar

\* The field is one with the stretch from s to g replaced.
Now(t, s, g, new) == text = Splice(t, s, g, new)

\* A command that makes one line of the caret's line.
LEMMA OneToOne ==
  ASSUME NEW t, NEW c, NEW i, NEW j, NEW p, NEW m, NEW q, NEW l, NEW r, NEW k,
         OnLine(t, c, i, j, p, m, q, l, r, k),
         NEW b, NEW d, NEW s, NEW g, Within(i, j, b, d, s, g),
         NEW new, NEW y, Becomes(m, b, d, new, y), Now(t, s, g, new),
         NEW k2, Spot(i, y, k2), Makes(l, r, k, (p \o <<y>>) \o q, r, k2)
  PROVE  EditsLines(t, c)
<1>1. HasLine(text, i, i + Len(y), p, y, q)
  <2>1. new \in Seq(Char) /\ y \in Seq(Char) /\ Plain(y) /\ Splice(Slice(t, i, j), b, d, new) = y
    BY DEF Becomes, OnLine
  <2>2. t \in Seq(Char) /\ IsLine(t, i, j) /\ p = Above(t, i) /\ q = Below(t, j)
    BY DEF OnLine
  <2>3. HasLine(Splice(t, s, g, new), i, i + Len(y), Above(t, i), y, Below(t, j))
    BY <2>1, <2>2, LineToLine
  <2> QED BY <2>2, <2>3 DEF Now
<1>2. i \in Nat /\ r = Len(p) + 1 /\ At(t, c, l, r, k)
  BY DEF OnLine, IsRow
<1>3. At(text, caret, (p \o <<y>>) \o q, Len(p) + 1, k2)
  BY <1>1, <1>2, PlacedLine
<1> QED BY <1>2, <1>3, MadeLines

\* A command that makes two lines of the caret's line; the caret ends in the first, or
\* in the second.
LEMMA OneToTwo ==
  ASSUME NEW t, NEW c, NEW i, NEW j, NEW p, NEW m, NEW q, NEW l, NEW r, NEW k,
         OnLine(t, c, i, j, p, m, q, l, r, k),
         NEW b, NEW d, NEW s, NEW g, Within(i, j, b, d, s, g),
         NEW new, NEW y1, NEW y2, BecomesTwo(m, b, d, new, y1, y2), Now(t, s, g, new), NEW k2
  PROVE  /\ Spot(i, y1, k2) /\ Makes(l, r, k, (p \o <<y1, y2>>) \o q, r, k2) => EditsLines(t, c)
         /\ Spot(i + Len(y1) + 1, y2, k2) /\ Makes(l, r, k, (p \o <<y1, y2>>) \o q, r + 1, k2)
            => EditsLines(t, c)
<1>1. HasPair(text, i, i + Len(y1), i + Len(y1) + 1 + Len(y2), p, y1, y2, q)
  <2>1. /\ new \in Seq(Char) /\ y1 \in Seq(Char) /\ Plain(y1) /\ y2 \in Seq(Char) /\ Plain(y2)
        /\ Splice(Slice(t, i, j), b, d, new) = Glue(y1, y2)
    BY DEF BecomesTwo, OnLine
  <2>2. t \in Seq(Char) /\ IsLine(t, i, j) /\ p = Above(t, i) /\ q = Below(t, j)
    BY DEF OnLine
  <2>3. HasPair(Splice(t, s, g, new), i, i + Len(y1), i + Len(y1) + 1 + Len(y2),
                Above(t, i), y1, y2, Below(t, j))
    BY <2>1, <2>2, LineToPair
  <2> QED BY <2>2, <2>3 DEF Now
<1>2. i \in Nat /\ p \in Seq(Seq(Char)) /\ r = Len(p) + 1 /\ At(t, c, l, r, k)
  BY DEF OnLine, IsRow
<1>3. r + 1 = Len(p) + 2
  BY <1>2
<1>4. /\ Spot(i, y1, k2) => At(text, caret, (p \o <<y1, y2>>) \o q, Len(p) + 1, k2)
      /\ Spot(i + Len(y1) + 1, y2, k2) =>
           At(text, caret, (p \o <<y1, y2>>) \o q, Len(p) + 2, k2)
  BY <1>1, <1>2, PlacedPair
<1>5. ASSUME Spot(i, y1, k2), Makes(l, r, k, (p \o <<y1, y2>>) \o q, r, k2)
      PROVE  EditsLines(t, c)
  BY <1>2, <1>4, <1>5, MadeLines
<1>6. ASSUME Spot(i + Len(y1) + 1, y2, k2), Makes(l, r, k, (p \o <<y1, y2>>) \o q, r + 1, k2)
      PROVE  EditsLines(t, c)
  BY <1>2, <1>3, <1>4, <1>6, MadeLines
<1> QED BY <1>5, <1>6

\* A command that makes one line of two; the caret was in the first, or in the second.
LEMMA TwoToOne ==
  ASSUME NEW t, NEW i, NEW j, NEW e, NEW p, NEW m1, NEW m2, NEW q, NEW l, NEW r, NEW f,
         OnPair(t, i, j, e, p, m1, m2, q, l, r, f),
         NEW b, NEW d, NEW s, NEW g, Within(i, e, b, d, s, g),
         NEW new, NEW y, Becomes(Glue(m1, m2), b, d, new, y), Now(t, s, g, new),
         NEW k2, Spot(i, y, k2), NEW c
  PROVE  /\ c \in i..j /\ Makes(l, r, c - i, (p \o <<y>>) \o q, r, k2) => EditsLines(t, c)
         /\ c \in j + 1..e /\ Makes(l, f, c - (j + 1), (p \o <<y>>) \o q, r, k2)
            => EditsLines(t, c)
<1>1. HasLine(text, i, i + Len(y), p, y, q)
  <2>1. /\ new \in Seq(Char) /\ y \in Seq(Char) /\ Plain(y)
        /\ Splice(Glue(Slice(t, i, j), Slice(t, j + 1, e)), b, d, new) = y
    BY DEF Becomes, OnPair
  <2>2. /\ t \in Seq(Char) /\ IsLine(t, i, j) /\ IsLine(t, j + 1, e)
        /\ p = Above(t, i) /\ q = Below(t, e)
    BY DEF OnPair
  <2>3. HasLine(Splice(t, s, g, new), i, i + Len(y), Above(t, i), y, Below(t, e))
    BY <2>1, <2>2, PairToLine
  <2> QED BY <2>2, <2>3 DEF Now
<1>2. /\ i \in Nat /\ r = Len(p) + 1
      /\ \A x \in i..j : At(t, x, l, r, x - i)
      /\ \A x \in j + 1..e : At(t, x, l, f, x - (j + 1))
  BY DEF OnPair, IsRows
<1>3. At(text, caret, (p \o <<y>>) \o q, r, k2)
  BY <1>1, <1>2, PlacedLine
<1>4. ASSUME c \in i..j, Makes(l, r, c - i, (p \o <<y>>) \o q, r, k2)
      PROVE  EditsLines(t, c)
  <2>1. At(t, c, l, r, c - i)
    BY <1>2, <1>4
  <2> QED BY <1>3, <1>4, <2>1, MadeLines
<1>5. ASSUME c \in j + 1..e, Makes(l, f, c - (j + 1), (p \o <<y>>) \o q, r, k2)
      PROVE  EditsLines(t, c)
  <2>1. At(t, c, l, f, c - (j + 1))
    BY <1>2, <1>5
  <2> QED BY <1>3, <1>5, <2>1, MadeLines
<1> QED BY <1>4, <1>5

\* A command that exchanges two lines; the caret stays in its own.
LEMMA TwoToTwo ==
  ASSUME NEW t, NEW i, NEW j, NEW e, NEW p, NEW m1, NEW m2, NEW q, NEW l, NEW r, NEW f,
         OnPair(t, i, j, e, p, m1, m2, q, l, r, f), Now(t, i, e, Glue(m2, m1)),
         NEW k2, NEW c
  PROVE  /\ /\ c \in i..j /\ Spot(i + Len(m2) + 1, m1, k2)
            /\ Makes(l, r, c - i, (p \o <<m2, m1>>) \o q, r + 1, k2)
            => EditsLines(t, c)
         /\ /\ c \in j + 1..e /\ Spot(i, m2, k2)
            /\ Makes(l, f, c - (j + 1), (p \o <<m2, m1>>) \o q, r, k2)
            => EditsLines(t, c)
<1>1. HasPair(text, i, i + Len(m2), i + Len(m2) + 1 + Len(m1), p, m2, m1, q)
  <2>1. /\ t \in Seq(Char) /\ IsLine(t, i, j) /\ IsLine(t, j + 1, e)
        /\ p = Above(t, i) /\ q = Below(t, e)
        /\ m1 \in Seq(Char) /\ Plain(m1) /\ m2 \in Seq(Char) /\ Plain(m2)
    BY DEF OnPair
  <2>2. IsBlock(t, i, e)
    BY <2>1, PairOf
  <2>3. HasPair(Splice(t, i, e, Glue(m2, m1)), i, i + Len(m2), i + Len(m2) + 1 + Len(m1),
                Above(t, i), m2, m1, Below(t, e))
    BY <2>1, <2>2, PutPair
  <2> QED BY <2>1, <2>3 DEF Now
<1>2. /\ i \in Nat /\ r = Len(p) + 1 /\ p \in Seq(Seq(Char))
      /\ \A x \in i..j : At(t, x, l, r, x - i)
      /\ \A x \in j + 1..e : At(t, x, l, f, x - (j + 1))
  BY DEF OnPair, IsRows
<1>3. r + 1 = Len(p) + 2
  BY <1>2
<1>4. /\ Spot(i, m2, k2) => At(text, caret, (p \o <<m2, m1>>) \o q, Len(p) + 1, k2)
      /\ Spot(i + Len(m2) + 1, m1, k2) =>
           At(text, caret, (p \o <<m2, m1>>) \o q, Len(p) + 2, k2)
  BY <1>1, <1>2, PlacedPair
<1>5. ASSUME c \in i..j, Spot(i + Len(m2) + 1, m1, k2),
             Makes(l, r, c - i, (p \o <<m2, m1>>) \o q, r + 1, k2)
      PROVE  EditsLines(t, c)
  <2>1. At(t, c, l, r, c - i)
    BY <1>2, <1>5
  <2> QED BY <1>3, <1>4, <1>5, <2>1, MadeLines
<1>6. ASSUME c \in j + 1..e, Spot(i, m2, k2),
             Makes(l, f, c - (j + 1), (p \o <<m2, m1>>) \o q, r, k2)
      PROVE  EditsLines(t, c)
  <2>1. At(t, c, l, f, c - (j + 1))
    BY <1>2, <1>6
  <2> QED BY <1>2, <1>4, <1>6, <2>1, MadeLines
<1> QED BY <1>5, <1>6

\* Parts and joins of plain lines are plain.
LEMMA PlainParts ==
  ASSUME NEW m \in Seq(Char), Plain(m), NEW k \in 0..Len(m)
  PROVE  /\ Take(m, k) \in Seq(Char) /\ Plain(Take(m, k))
         /\ Drop(m, k) \in Seq(Char) /\ Plain(Drop(m, k))
         /\ Len(Take(m, k)) = k /\ Len(Drop(m, k)) = Len(m) - k
<1>1. /\ Take(m, k) \in Seq(Char) /\ Len(Take(m, k)) = k /\ \A i \in 1..k : Take(m, k)[i] = m[i]
      /\ Drop(m, k) \in Seq(Char) /\ Len(Drop(m, k)) = Len(m) - k
      /\ \A i \in 1..Len(m) - k : Drop(m, k)[i] = m[k + i]
  BY CutElements
<1> DEFINE a == Take(m, k)
           b == Drop(m, k)
<1> HIDE DEF a, b
<1>2. k \in Nat /\ Len(m) \in Nat /\ k <= Len(m)
  OBVIOUS
<1>3. Plain(a)
  <2>1. \A i \in 1..Len(a) : a[i] = m[i] /\ i \in 1..Len(m)
    BY <1>1, <1>2 DEF a
  <2> QED BY <2>1 DEF Plain
<1>4. Plain(b)
  <2>1. \A i \in 1..Len(b) : b[i] = m[k + i] /\ k + i \in 1..Len(m)
    BY <1>1, <1>2 DEF b
  <2> QED BY <2>1 DEF Plain
<1> QED BY <1>1, <1>3, <1>4 DEF a, b

\* Joined plain lines are plain.
LEMMA PlainJoin ==
  ASSUME NEW a \in Seq(Char), Plain(a), NEW b \in Seq(Char), Plain(b)
  PROVE  a \o b \in Seq(Char) /\ Plain(a \o b) /\ Len(a \o b) = Len(a) + Len(b)
<1> DEFINE z == a \o b
           m == Len(a)
           n == Len(a) + Len(b)
<1>1. m \in Nat /\ n \in Nat /\ m = Len(a) /\ n = m + Len(b) /\ Len(b) \in Nat
  OBVIOUS
<1>2. IsJoin(Char, z, m, n, a, b)
  BY <1>1, JoinElements
<1> HIDE DEF z, m, n
<1>3. z \in Seq(Char) /\ Len(z) = n /\ \A k \in 1..n : z[k] = IF k <= m THEN a[k] ELSE b[k - m]
  BY <1>2 DEF IsJoin
<1>4. ASSUME NEW k \in 1..n PROVE z[k] # Newline
  <2>1. CASE k <= m
    BY <1>1, <1>3, <2>1 DEF Plain
  <2>2. CASE ~(k <= m)
    <3>1. k - m \in 1..Len(b)
      BY <1>1, <2>2
    <3> QED BY <1>3, <2>2, <3>1 DEF Plain
  <2> QED BY <2>1, <2>2
<1> QED BY <1>1, <1>3, <1>4 DEF Plain, z, m, n

\* A whole line is replaced.
LEMMA Whole ==
  ASSUME NEW m \in Seq(Char), NEW y \in Seq(Char), Plain(y)
  PROVE  Becomes(m, 0, Len(m), y, y)
<1>1. Len(m) \in 0..Len(m)
  OBVIOUS
<1>2. Splice(m, 0, Len(m), y) = y
  BY <1>1, SpliceEnds
<1> QED BY <1>2 DEF Becomes

\* Something is put before a line.
LEMMA Front ==
  ASSUME NEW m \in Seq(Char), Plain(m), NEW y \in Seq(Char), Plain(y)
  PROVE  Becomes(m, 0, 0, y, y \o m)
<1>1. 0 \in 0..Len(m)
  OBVIOUS
<1>2. Splice(m, 0, 0, y) = y \o Drop(m, 0)
  BY <1>1, SpliceEnds
<1>3. Drop(m, 0) = m
  BY CutEnds
<1> QED BY <1>2, <1>3, PlainJoin DEF Becomes

\* The front of a line is cut off.
LEMMA CutFront ==
  ASSUME NEW m \in Seq(Char), Plain(m), NEW k \in 0..Len(m)
  PROVE  Becomes(m, 0, k, <<>>, Drop(m, k))
<1> DEFINE none == <<>>
           y == Drop(m, k)
<1>1. none \in Seq(Char)
  OBVIOUS
<1>2. y \in Seq(Char) /\ Plain(y)
  BY PlainParts
<1>3. none \o y = y
  BY <1>2
<1> HIDE DEF none
<1>4. Splice(m, 0, k, none) = none \o y
  BY <1>1, SpliceEnds
<1> QED BY <1>1, <1>2, <1>3, <1>4 DEF Becomes, none

\* A line is split.
LEMMA SplitTwo ==
  ASSUME NEW m \in Seq(Char), Plain(m), NEW k \in 0..Len(m)
  PROVE  BecomesTwo(m, k, k, <<Newline>>, Take(m, k), Drop(m, k))
<1>1. <<Newline>> \in Seq(Char)
  BY DEF Char
<1>2. Splice(m, k, k, <<Newline>>) = Glue(Take(m, k), Drop(m, k))
  BY DEF Splice, Glue
<1> QED BY <1>1, <1>2, PlainParts DEF BecomesTwo

\* A line is put above a line.
LEMMA AboveTwo ==
  ASSUME NEW m \in Seq(Char), Plain(m), NEW y \in Seq(Char), Plain(y)
  PROVE  BecomesTwo(m, 0, 0, y \o <<Newline>>, y, m)
<1> DEFINE nl == <<Newline>>
           new == y \o nl
<1>1. nl \in Seq(Char) /\ new \in Seq(Char)
  BY ConcatProperties DEF Char
<1>2. 0 \in 0..Len(m)
  OBVIOUS
<1>3. new \o m = Glue(y, m)
  BY DEF Glue
<1> HIDE DEF new
<1>4. Splice(m, 0, 0, new) = new \o Drop(m, 0)
  BY <1>1, <1>2, SpliceEnds
<1>5. Drop(m, 0) = m
  BY CutEnds
<1> QED BY <1>1, <1>3, <1>4, <1>5 DEF BecomesTwo, new

\* A line is put below a line.
LEMMA BelowTwo ==
  ASSUME NEW m \in Seq(Char), Plain(m), NEW y \in Seq(Char), Plain(y)
  PROVE  BecomesTwo(m, Len(m), Len(m), <<Newline>> \o y, m, y)
<1> DEFINE nl == <<Newline>>
           new == nl \o y
           n == Len(m)
           S == Seq(Char)
<1>1. nl \in Seq(Char) /\ new \in Seq(Char)
  BY ConcatProperties DEF Char
<1>2. n \in 0..n /\ n = Len(m)
  OBVIOUS
<1>0. Glue(m, y) = (m \o nl) \o y
  BY DEF Glue
<1> HIDE DEF nl
<1>3. m \o (nl \o y) = (m \o nl) \o y
  BY SMTT(30), <1>1, Associative
<1>6. m \o new = Glue(m, y)
  BY <1>0, <1>3
<1> HIDE DEF new, n
<1>4. Splice(m, n, n, new) = Take(m, n) \o new
  BY ZenonT(30), <1>1, <1>2, SpliceEnds
<1>5. Take(m, n) = m
  BY <1>2, CutEnds
<1>7. BecomesTwo(m, n, n, new, m, y)
  BY <1>1, <1>4, <1>5, <1>6 DEF BecomesTwo
<1> QED BY <1>7 DEF n, new, nl

\* Two lines lose the break between them, or the first of them goes.
LEMMA JoinedTwo ==
  ASSUME NEW a \in Seq(Char), Plain(a), NEW m \in Seq(Char), Plain(m)
  PROVE  /\ Becomes(Glue(a, m), Len(a), Len(a) + 1, <<>>, a \o m)
         /\ Becomes(Glue(a, m), 0, Len(a) + 1, <<>>, m)
         /\ Becomes(Glue(a, m), Len(a), Len(a) + 1 + Len(m), <<>>, a)
<1> DEFINE g == Glue(a, m)
           n == Len(a)
           e == n + 1
           none == <<>>
           w == e + Len(m)
<1>1. /\ g \in Seq(Char) /\ Len(g) = w
      /\ Take(g, n) = a /\ Drop(g, e) = m
  BY GlueCuts
<1>2. none \in Seq(Char) /\ a \o none = a /\ none \o m = m
  OBVIOUS
<1>3. n \in Nat /\ e \in Nat /\ n \in 0..w /\ e \in 0..w
  OBVIOUS
<1> HIDE DEF g, n, e, none, w
<1>9. n \in 0..Len(g) /\ e \in 0..Len(g)
  BY <1>1, <1>3
<1>4. Splice(g, n, e, none) = a \o m
  BY <1>1, <1>2 DEF Splice
<1>5. Splice(g, 0, e, none) = none \o Drop(g, e)
  <2>1. g \in Seq(Char) /\ none \in Seq(Char) /\ e \in 0..Len(g)
    BY <1>1, <1>2, <1>9
  <2> QED BY <2>1, SpliceEnds
<1>6. Splice(g, n, w, none) = Take(g, n) \o none
  <2>1. g \in Seq(Char) /\ none \in Seq(Char) /\ n \in 0..Len(g)
    BY <1>1, <1>2, <1>9
  <2>2. Splice(g, n, Len(g), none) = Take(g, n) \o none
    BY <2>1, SpliceEnds
  <2> QED BY <1>1, <2>2
<1>7. a \o m \in Seq(Char) /\ Plain(a \o m)
  BY PlainJoin
<1>8. Becomes(g, n, e, none, a \o m) /\ Becomes(g, 0, e, none, m) /\ Becomes(g, n, w, none, a)
  BY <1>1, <1>2, <1>4, <1>5, <1>6, <1>7 DEF Becomes
<1> QED BY <1>8 DEF g, n, e, none, w

Text == Seq(Char)

\* The list of lines around a row, and around a pair of rows.
Listed(l, r, p, m, q) == p \in Seq(Text) /\ m \in Text /\ q \in Seq(Text) /\ IsRow(l, r, p, m, q)
ListedTwo(l, r, f, p, m1, m2, q) ==
  p \in Seq(Text) /\ m1 \in Text /\ m2 \in Text /\ q \in Seq(Text) /\ IsRows(l, r, f, p, m1, m2, q)

Replaced(l, r, p, m, q, y) ==
  /\ Splice(l, r - 1, r, <<y>>) = (p \o <<y>>) \o q
  /\ l[r] = m /\ r \in Nat /\ r = Len(p) + 1 /\ Len(l) = Len(p) + 1 + Len(q)

\* A row of a list is replaced.
LEMMA RowReplaced ==
  ASSUME NEW l, NEW r, NEW p, NEW m, NEW q, Listed(l, r, p, m, q), NEW y \in Text
  PROVE  Replaced(l, r, p, m, q, y)
<1> DEFINE new == <<y>>
<1>1. new \in Seq(Text)
  OBVIOUS
<1>2. p \in Seq(Text) /\ m \in Text /\ q \in Seq(Text) /\ IsRow(l, r, p, m, q)
  BY DEF Listed
<1> HIDE DEF new
<1>3. RowParts(l, r, p, m, q, new)
  BY <1>1, <1>2, ListLine
<1> QED BY <1>3 DEF RowParts, Replaced, new

Divided(l, r, p, q, y1, y2) == Splice(l, r - 1, r, <<y1, y2>>) = (p \o <<y1, y2>>) \o q

\* A row of a list becomes two.
LEMMA RowSplit ==
  ASSUME NEW l, NEW r, NEW p, NEW m, NEW q, Listed(l, r, p, m, q),
         NEW y1 \in Text, NEW y2 \in Text
  PROVE  Divided(l, r, p, q, y1, y2)
<1> DEFINE new == <<y1, y2>>
<1>1. new \in Seq(Text)
  BY TwoItems
<1>2. p \in Seq(Text) /\ m \in Text /\ q \in Seq(Text) /\ IsRow(l, r, p, m, q)
  BY DEF Listed
<1> HIDE DEF new
<1>3. RowParts(l, r, p, m, q, new)
  BY <1>1, <1>2, ListLine
<1> QED BY <1>3 DEF new, Divided, RowParts

Added(l, r, p, m, q, y) ==
  /\ Splice(l, r - 1, r - 1, <<y>>) = (p \o <<y, m>>) \o q
  /\ Splice(l, r, r, <<y>>) = (p \o <<m, y>>) \o q

\* A row is added above or below one of a list.
LEMMA RowAdded ==
  ASSUME NEW l, NEW r, NEW p, NEW m, NEW q, Listed(l, r, p, m, q), NEW y \in Text
  PROVE  Added(l, r, p, m, q, y)
<1> DEFINE new == <<y>>
           one == <<m>>
<1>1. new \in Seq(Text)
  OBVIOUS
<1>2. p \in Seq(Text) /\ m \in Text /\ q \in Seq(Text) /\ IsRow(l, r, p, m, q)
  BY DEF Listed
<1>4. new \o one = <<y, m>> /\ one \o new = <<m, y>>
  BY <1>2, TwoItems
<1>3. RowParts(l, r, p, m, q, new)
  <2> HIDE DEF new
  <2> QED BY <1>1, <1>2, ListLine
<1>5. /\ Splice(l, r - 1, r - 1, new) = (p \o (new \o one)) \o q
      /\ Splice(l, r, r, new) = (p \o (one \o new)) \o q
  <2> HIDE DEF new
  <2> QED BY <1>3 DEF RowParts
<1>6. /\ Splice(l, r - 1, r - 1, new) = (p \o <<y, m>>) \o q
      /\ Splice(l, r, r, new) = (p \o <<m, y>>) \o q
  <2> HIDE DEF new, one
  <2> QED BY <1>4, <1>5
<1> QED BY <1>6 DEF Added

\* Two rows of a list are swapped or become one.
LEMMA PairReplaced ==
  ASSUME NEW l, NEW r, NEW f, NEW p, NEW m1, NEW m2, NEW q, ListedTwo(l, r, f, p, m1, m2, q)
  PROVE  /\ PairParts(l, r, f, p, m1, m2, q, <<m2, m1>>)
         /\ \A y \in Text : PairParts(l, r, f, p, m1, m2, q, <<y>>)
<1> DEFINE new == <<m2, m1>>
<1>2. /\ p \in Seq(Text) /\ m1 \in Text /\ m2 \in Text /\ q \in Seq(Text)
      /\ IsRows(l, r, f, p, m1, m2, q)
  BY DEF ListedTwo
<1>1. new \in Seq(Text)
  BY <1>2, TwoItems
<1>3. PairParts(l, r, f, p, m1, m2, q, new)
  <2> HIDE DEF new
  <2> QED BY <1>1, <1>2, ListPair
<1>4. ASSUME NEW y \in Text PROVE PairParts(l, r, f, p, m1, m2, q, <<y>>)
  <2> DEFINE one == <<y>>
  <2>1. one \in Seq(Text)
    OBVIOUS
  <2> HIDE DEF one
  <2>2. PairParts(l, r, f, p, m1, m2, q, one)
    BY <1>2, <2>1, ListPair
  <2> QED BY <2>2 DEF one
<1> QED BY <1>3, <1>4

\* The line of the caret is a row of the list of lines.
LEMMA LineListed ==
  ASSUME NEW t, NEW c, NEW i, NEW j, NEW p, NEW m, NEW q, NEW l, NEW r, NEW k,
         OnLine(t, c, i, j, p, m, q, l, r, k)
  PROVE  Listed(l, r, p, m, q)
BY DEF OnLine, Listed, Text

\* Two lines are two rows of the list of lines.
LEMMA PairListed ==
  ASSUME NEW t, NEW i, NEW j, NEW e, NEW p, NEW m1, NEW m2, NEW q, NEW l, NEW r, NEW f,
         OnPair(t, i, j, e, p, m1, m2, q, l, r, f)
  PROVE  ListedTwo(l, r, f, p, m1, m2, q)
BY DEF OnPair, ListedTwo, Text

\* The parts of the caret's line a command changes.
LEMMA WithinLine ==
  ASSUME NEW t, NEW c, NEW i, NEW j, NEW p, NEW m, NEW q, NEW l, NEW r, NEW k,
         OnLine(t, c, i, j, p, m, q, l, r, k)
  PROVE  /\ Within(i, j, 0, Len(m), i, j) /\ Within(i, j, 0, 0, i, i)
         /\ Within(i, j, Len(m), Len(m), j, j) /\ Within(i, j, k, k, c, c)
         /\ \A x \in 0..Len(m) : Within(i, j, 0, x, i, i + x)
<1> DEFINE n == Len(m)
<1>1. /\ i \in Nat /\ j \in Nat /\ c \in Nat /\ i <= j /\ n \in Nat /\ n = j - i
      /\ k \in 0..n /\ k = c - i
  BY DEF OnLine
<1> HIDE DEF n
<1>2. j = i + n /\ c = i + k /\ k \in Nat /\ k <= n
  BY <1>1
<1>3. /\ Within(i, j, 0, n, i, j) /\ Within(i, j, 0, 0, i, i)
      /\ Within(i, j, n, n, j, j) /\ Within(i, j, k, k, c, c)
  BY <1>1, <1>2 DEF Within
<1>4. ASSUME NEW x \in 0..n PROVE Within(i, j, 0, x, i, i + x)
  BY <1>1, <1>2 DEF Within
<1> QED BY <1>3, <1>4 DEF n

\* Columns of a line that was put somewhere.
LEMMA SpotEnds ==
  ASSUME NEW i \in Nat, NEW y \in Seq(Char)
  PROVE  /\ caret = i => Spot(i, y, 0)
         /\ caret = i + Len(y) => Spot(i, y, Len(y))
<1> DEFINE n == Len(y)
<1>1. n \in Nat
  OBVIOUS
<1> HIDE DEF n
<1>2. /\ caret = i => Spot(i, y, 0)
      /\ caret = i + n => Spot(i, y, n)
  BY <1>1 DEF Spot, n
<1> QED BY <1>2 DEF n

-----------------------------------------------------------------------------
\* replace_line replaces the row of the caret.
LEMMA ReplaceLineExact ==
  ASSUME NEW t, NEW c, NEW i, NEW j, LineEdit(t, c, i, j), op[1] = "replace_line"
  PROVE  EditsLines(t, c)
<1>1. PICK p, m, q, l, r, k : OnLine(t, c, i, j, p, m, q, l, r, k)
  BY LineFacts
<1> DEFINE n == Len(Value)
           z == (p \o <<Value>>) \o q
<1>2. Value \in Seq(Char) /\ Plain(Value) /\ Value \in Text
  BY PlainTexts DEF Text
<1>3. m \in Seq(Char)
  BY <1>1 DEF OnLine
<1>4. Now(t, i, j, Value) /\ caret = i + n
  BY DEF LineEdit, Plan, PlanReplaceLine, Change, Now
<1>5. Within(i, j, 0, Len(m), i, j)
  BY <1>1, WithinLine
<1>6. Becomes(m, 0, Len(m), Value, Value)
  BY <1>2, <1>3, Whole
<1>7. Spot(i, Value, n)
  <2>1. i \in Nat
    BY <1>1 DEF OnLine
  <2> QED BY <1>2, <1>4, <2>1, SpotEnds
<1>8. Makes(l, r, k, z, r, n)
  <2>1. Replaced(l, r, p, m, q, Value)
    BY <1>1, <1>2, LineListed, RowReplaced
  <2>2. LinesAfter(l, r, k) = Splice(l, r - 1, r, <<Value>>) /\ PlaceAfter(l, r, k) = <<r, n>>
    BY DEF LinesAfter, PlaceAfter
  <2> QED BY <2>1, <2>2 DEF Makes, Replaced
<1> HIDE DEF n
<1> QED BY <1>1, <1>4, <1>5, <1>6, <1>7, <1>8, OneToOne

\* indent_line pads the row of the caret.
LEMMA IndentExact ==
  ASSUME NEW t, NEW c, NEW i, NEW j, LineEdit(t, c, i, j), op = <<"indent_line", "indent">>
  PROVE  EditsLines(t, c)
<1>1. PICK p, m, q, l, r, k : OnLine(t, c, i, j, p, m, q, l, r, k)
  BY LineFacts
<1> DEFINE n == Len(Pad)
           y == Pad \o m
           z == (p \o <<y>>) \o q
<1>2. Pad \in Seq(Char) /\ Plain(Pad) /\ n \in Nat
  BY PlainTexts
<1>3. /\ m \in Seq(Char) /\ Plain(m) /\ i \in Nat /\ k \in 0..Len(m) /\ k = c - i /\ c \in Nat
  BY <1>1 DEF OnLine
<1>4. Now(t, i, i, Pad) /\ caret = c + n
  BY DEF LineEdit, Plan, PlanIndent, Change, Now
<1>5. Within(i, j, 0, 0, i, i)
  BY <1>1, WithinLine
<1>6. Becomes(m, 0, 0, Pad, y)
  BY <1>2, <1>3, Front
<1>7. Spot(i, y, k + n)
  <2>1. Len(y) = n + Len(m)
    BY <1>2, <1>3
  <2> HIDE DEF y, n
  <2> QED BY <1>2, <1>3, <1>4, <2>1 DEF Spot
<1>8. Makes(l, r, k, z, r, k + n)
  <2>0. y \in Text
    BY <1>2, <1>3 DEF Text
  <2>1. Replaced(l, r, p, m, q, y)
    BY <1>1, <2>0, LineListed, RowReplaced
  <2>2. LinesAfter(l, r, k) = Splice(l, r - 1, r, <<Pad \o l[r]>>) /\ PlaceAfter(l, r, k) = <<r, k + n>>
    BY DEF LinesAfter, PlaceAfter
  <2> QED BY <2>1, <2>2 DEF Makes, Replaced
<1> HIDE DEF n, y
<1> QED BY <1>1, <1>4, <1>5, <1>6, <1>7, <1>8, OneToOne

\* split_line splits the row of the caret at its column.
LEMMA SplitLineExact ==
  ASSUME NEW t, NEW c, NEW i, NEW j, LineEdit(t, c, i, j), op[1] = "split_line"
  PROVE  EditsLines(t, c)
<1>1. PICK p, m, q, l, r, k : OnLine(t, c, i, j, p, m, q, l, r, k)
  BY LineFacts
<1>0. i + k + 1 = c + 1 /\ c + 1 \in Nat
  <2>1. Len(m) \in Nat /\ i \in Nat /\ k \in 0..Len(m) /\ k = c - i /\ c \in Nat
    BY <1>1 DEF OnLine
  <2> DEFINE n == Len(m)
  <2>2. k \in Nat /\ i \in Nat /\ c \in Nat /\ k = c - i
    <3>1. n \in Nat /\ k \in 0..n /\ i \in Nat /\ c \in Nat /\ k = c - i
      BY <2>1
    <3> HIDE DEF n
    <3> QED BY <3>1
  <2> QED BY <2>2
<1> DEFINE y1 == Take(m, k)
           y2 == Drop(m, k)
           z == (p \o <<y1, y2>>) \o q
           nl == <<Newline>>
<1>2. /\ m \in Seq(Char) /\ Plain(m) /\ i \in Nat /\ k \in 0..Len(m) /\ k = c - i /\ c \in Nat
  BY <1>1 DEF OnLine
<1>3. y1 \in Seq(Char) /\ y2 \in Seq(Char) /\ Len(y1) = k
  BY <1>2, PlainParts
<1>4. Now(t, c, c, nl) /\ caret = c + 1
  BY DEF LineEdit, Plan, PlanSplitLine, Change, Now
<1>5. Within(i, j, k, k, c, c)
  BY <1>1, WithinLine
<1>6. BecomesTwo(m, k, k, nl, y1, y2)
  BY <1>2, SplitTwo
<1>7. Spot(i + Len(y1) + 1, y2, 0)
  <2>1. i + Len(y1) + 1 \in Nat /\ caret = i + Len(y1) + 1
    BY <1>0, <1>3, <1>4
  <2> QED BY <1>3, <2>1, SpotEnds
<1>8. Makes(l, r, k, z, r + 1, 0)
  <2>0. y1 \in Text /\ y2 \in Text
    BY <1>3 DEF Text
  <2>4. Replaced(l, r, p, m, q, y1)
    BY <1>1, <2>0, LineListed, RowReplaced
  <2>1. l[r] = m
    BY <2>4 DEF Replaced
  <2>2. Divided(l, r, p, q, y1, y2)
    BY <1>1, <2>0, LineListed, RowSplit
  <2>3. /\ LinesAfter(l, r, k) = Splice(l, r - 1, r, <<Take(l[r], k), Drop(l[r], k)>>)
        /\ PlaceAfter(l, r, k) = <<r + 1, 0>>
    BY DEF LinesAfter, PlaceAfter
  <2> QED BY <2>1, <2>2, <2>3 DEF Makes, Divided
<1> HIDE DEF y1, y2, nl
<1> QED BY <1>1, <1>4, <1>5, <1>6, <1>7, <1>8, OneToTwo

\* A plain line v is put above the caret's line, or below it.
LEMMA NewLineAbove ==
  ASSUME NEW t, NEW c, NEW i, NEW j, NEW p, NEW m, NEW q, NEW l, NEW r, NEW k,
         OnLine(t, c, i, j, p, m, q, l, r, k), NEW v \in Seq(Char), Plain(v),
         Now(t, i, i, v \o <<Newline>>), caret = i + Len(v),
         LinesAfter(l, r, k) = Splice(l, r - 1, r - 1, <<v>>),
         PlaceAfter(l, r, k) = <<r, Len(v)>>
  PROVE  EditsLines(t, c)
<1> DEFINE new == v \o <<Newline>>
           z == (p \o <<v, m>>) \o q
           n == Len(v)
<1>1. m \in Seq(Char) /\ Plain(m) /\ i \in Nat
  BY DEF OnLine
<1>2. Within(i, j, 0, 0, i, i)
  BY WithinLine
<1>3. BecomesTwo(m, 0, 0, new, v, m)
  BY <1>1, AboveTwo
<1>4. Spot(i, v, n)
  BY <1>1, SpotEnds
<1>5. Makes(l, r, k, z, r, n)
  <2>1. Added(l, r, p, m, q, v)
    BY LineListed, RowAdded DEF Text
  <2> QED BY <2>1 DEF Makes, Added
<1> HIDE DEF new, n
<1>6. Now(t, i, i, new)
  BY DEF new
<1> QED BY <1>2, <1>3, <1>4, <1>5, <1>6, OneToTwo

\* A line is made below the caret's.
LEMMA NewLineBelow ==
  ASSUME NEW t, NEW c, NEW i, NEW j, NEW p, NEW m, NEW q, NEW l, NEW r, NEW k,
         OnLine(t, c, i, j, p, m, q, l, r, k), NEW v \in Seq(Char), Plain(v),
         Now(t, j, j, <<Newline>> \o v), caret = j + 1 + Len(v),
         LinesAfter(l, r, k) = Splice(l, r, r, <<v>>),
         PlaceAfter(l, r, k) = <<r + 1, Len(v)>>
  PROVE  EditsLines(t, c)
<1> DEFINE new == <<Newline>> \o v
           z == (p \o <<m, v>>) \o q
           n == Len(v)
<1>1. m \in Seq(Char) /\ Plain(m) /\ i \in Nat /\ j \in Nat /\ Len(m) = j - i
  BY DEF OnLine
<1>2. Within(i, j, Len(m), Len(m), j, j)
  BY WithinLine
<1>3. BecomesTwo(m, Len(m), Len(m), new, m, v)
  BY <1>1, BelowTwo
<1>4. Spot(i + Len(m) + 1, v, n)
  <2>1. i + Len(m) + 1 = j + 1 /\ j + 1 \in Nat
    BY <1>1
  <2>2. Spot(j + 1, v, n)
    BY <2>1, SpotEnds
  <2> QED BY <2>1, <2>2
<1>5. Makes(l, r, k, z, r + 1, n)
  <2>1. Added(l, r, p, m, q, v)
    BY LineListed, RowAdded DEF Text
  <2> QED BY <2>1 DEF Makes, Added
<1> HIDE DEF new, n
<1>6. Now(t, j, j, new)
  BY DEF new
<1> QED BY <1>2, <1>3, <1>4, <1>5, <1>6, OneToTwo

\* duplicate_line repeats the row of the caret on the side it is asked to.
LEMMA DuplicateLineExact ==
  ASSUME NEW t, NEW c, NEW i, NEW j, LineEdit(t, c, i, j),
         op \in {<<"duplicate_line", "above">>, <<"duplicate_line", "below">>}
  PROVE  EditsLines(t, c)
<1>1. PICK p, m, q, l, r, k : OnLine(t, c, i, j, p, m, q, l, r, k)
  BY LineFacts
<1>2. /\ m \in Seq(Char) /\ Plain(m) /\ i \in Nat /\ j \in Nat /\ Len(m) = j - i
      /\ m = Slice(t, i, j) /\ Len(t) \in Nat /\ j <= Len(t)
  BY <1>1 DEF OnLine
<1>3. l[r] = m
  <2>1. m \in Text
    BY <1>2 DEF Text
  <2>2. Replaced(l, r, p, m, q, m)
    BY <1>1, <2>1, LineListed, RowReplaced
  <2> QED BY <2>2 DEF Replaced
<1>4. Len(t) # 0
  <2>1. m # <<>>
    BY <1>2 DEF LineEdit, Inapplicable
  <2>2. Len(m) # 0
    BY <1>2, <2>1
  <2> QED BY <1>2, <2>2
<1>5. CASE op = <<"duplicate_line", "above">>
  <2>1. Now(t, i, i, m \o <<Newline>>) /\ caret = i + Len(m)
    BY <1>2, <1>4, <1>5 DEF LineEdit, Plan, PlanDuplicateLine, PlanNewLine, Change, Now
  <2>2. /\ LinesAfter(l, r, k) = Splice(l, r, r, <<l[r]>>)
        /\ PlaceAfter(l, r, k) = <<r, Len(l[r])>>
    BY <1>5 DEF LinesAfter, PlaceAfter
  <2>3. Splice(l, r - 1, r - 1, <<m>>) = Splice(l, r, r, <<m>>)
    <3>1. Added(l, r, p, m, q, m)
      BY <1>1, <1>2, LineListed, RowAdded DEF Text
    <3> QED BY <3>1 DEF Added
  <2> QED BY <1>1, <1>2, <1>3, <2>1, <2>2, <2>3, NewLineAbove
<1>6. CASE op = <<"duplicate_line", "below">>
  <2>1. Now(t, j, j, <<Newline>> \o m) /\ caret = j + 1 + Len(m)
    BY <1>2, <1>4, <1>6 DEF LineEdit, Plan, PlanDuplicateLine, PlanNewLine, Change, Now
  <2>2. /\ LinesAfter(l, r, k) = Splice(l, r, r, <<l[r]>>)
        /\ PlaceAfter(l, r, k) = <<r + 1, Len(l[r])>>
    BY <1>6 DEF LinesAfter, PlaceAfter
  <2> QED BY <1>1, <1>2, <1>3, <2>1, <2>2, NewLineBelow
<1> QED BY <1>5, <1>6

\* Only an empty field is one empty line.
LEMMA EmptyField ==
  ASSUME NEW t, NEW c, NEW i, NEW j, NEW p, NEW m, NEW q, NEW l, NEW r, NEW k,
         OnLine(t, c, i, j, p, m, q, l, r, k)
  PROVE  /\ l = <<<<>>>> => Len(t) = 0
         /\ Len(t) = 0 => /\ l = <<<<>>>> /\ p = <<>> /\ q = <<>> /\ r = 1
                          /\ i = 0 /\ j = 0 /\ m = <<>>
<1>1. /\ t \in Seq(Char) /\ IsLine(t, i, j) /\ i \in Nat /\ j \in Nat /\ i <= j
      /\ Len(t) \in Nat /\ j <= Len(t)
      /\ m \in Seq(Char) /\ Len(m) = j - i /\ p \in Seq(Seq(Char)) /\ q \in Seq(Seq(Char))
      /\ p = Above(t, i) /\ q = Below(t, j) /\ l = (p \o <<m>>) \o q
      /\ r = Len(p) + 1
  BY DEF OnLine, IsRow
<1>2. ASSUME l = <<<<>>>> PROVE Len(t) = 0
  <2>0. Replaced(l, r, p, m, q, m)
    BY <1>1, LineListed, RowReplaced DEF Text
  <2>1. Len(l) = Len(p) + 1 + Len(q) /\ l[r] = m /\ Len(p) \in Nat /\ Len(q) \in Nat
    BY <1>1, <2>0 DEF Replaced
  <2>2. Len(l) = 1 /\ l[1] = <<>>
    BY <1>2
  <2>3. Len(p) = 0 /\ Len(q) = 0
    <3> DEFINE n == Len(l)
               x == Len(p)
               y == Len(q)
    <3>1. n = x + 1 + y /\ x \in Nat /\ y \in Nat /\ n = 1
      BY <2>1, <2>2
    <3> HIDE DEF n, x, y
    <3>2. x = 0 /\ y = 0
      BY <3>1
    <3> QED BY <3>2 DEF x, y
  <2>4. m = <<>>
    BY <1>1, <2>1, <2>2, <2>3
  <2>5. i = j
    BY <1>1, <2>4
  <2>6. i = 0
    <3> SUFFICES ASSUME i # 0 PROVE FALSE
      OBVIOUS
    <3>1. Take(t, i - 1) \in Seq(Char)
      <4>1. i - 1 \in 0..Len(t)
        BY <1>1
      <4> QED BY <1>1, <4>1, CutElements
    <3>2. p = Lines(Take(t, i - 1))
      BY <1>1 DEF Above
    <3> QED BY <2>3, <3>1, <3>2, LinesType
  <2>7. j = Len(t)
    <3> SUFFICES ASSUME j # Len(t) PROVE FALSE
      OBVIOUS
    <3>1. Drop(t, j + 1) \in Seq(Char)
      <4>1. j + 1 \in 0..Len(t)
        BY <1>1
      <4> QED BY <1>1, <4>1, CutElements
    <3>2. q = Lines(Drop(t, j + 1))
      BY <1>1 DEF Below
    <3> QED BY <2>3, <3>1, <3>2, LinesType
  <2> QED BY <2>5, <2>6, <2>7
<1>3. ASSUME Len(t) = 0
      PROVE  /\ l = <<<<>>>> /\ p = <<>> /\ q = <<>> /\ r = 1 /\ i = 0 /\ j = 0 /\ m = <<>>
  <2>1. i = 0 /\ j = 0
    BY <1>1, <1>3
  <2>2. p = <<>> /\ q = <<>>
    BY <1>1, <1>3, <2>1 DEF Above, Below
  <2>3. m = <<>>
    BY <1>1, <2>1
  <2>4. l = (<<>> \o <<m>>) \o <<>>
    BY <1>1, <2>2
  <2>5. l = <<m>>
    BY <2>4
  <2>6. r = 1
    BY <1>1, <2>2
  <2> QED BY <2>1, <2>2, <2>3, <2>5, <2>6
<1> QED BY <1>2, <1>3

\* insert_line adds a row on the side it is asked to, in an empty field as well.
LEMMA InsertLineExact ==
  ASSUME NEW t, NEW c, NEW i, NEW j, LineEdit(t, c, i, j),
         op \in {<<"insert_line", "above">>, <<"insert_line", "below">>}
  PROVE  EditsLines(t, c)
<1>1. PICK p, m, q, l, r, k : OnLine(t, c, i, j, p, m, q, l, r, k)
  BY LineFacts
<1>2. Value \in Seq(Char) /\ Plain(Value)
  BY PlainTexts
<1>3. CASE Len(t) = 0
  <2>0. l = <<<<>>>> /\ p = <<>> /\ q = <<>> /\ r = 1 /\ i = 0 /\ j = 0 /\ m = <<>>
    BY <1>1, <1>3, EmptyField
  <2> DEFINE z == (p \o <<Value>>) \o q
  <2>7. plan = Change(0, 0, Value, Len(Value))
    <3>1. op[1] = "insert_line"
      OBVIOUS
    <3>2. plan = PlanInsertLine(Len(t))
      BY <3>1 DEF LineEdit, Plan
    <3> QED BY <1>3, <3>2 DEF PlanInsertLine, PlanNewLine
  <2>1. Now(t, 0, 0, Value) /\ caret = Len(Value)
    BY <2>7 DEF LineEdit, Change, Now
  <2>2. Within(i, j, 0, Len(m), i, j)
    BY <1>1, WithinLine
  <2>3. Becomes(m, 0, Len(m), Value, Value)
    BY <1>1, <1>2, Whole DEF OnLine
  <2>4. Spot(i, Value, Len(Value))
    <3>1. Len(Value) \in Nat
      BY <1>2
    <3>2. caret = 0 + Len(Value) /\ 0 \in Nat
      BY <2>1, <3>1
    <3> QED BY <1>2, <2>0, <3>2, SpotEnds
  <2>5. Makes(l, r, k, z, r, Len(Value))
    <3>1. LinesAfter(l, r, k) = <<Value>> /\ PlaceAfter(l, r, k) = <<r, Len(Value)>>
      <4>1. op[1] = "insert_line" /\ l = <<<<>>>> /\ op[2] \in {"above", "below"}
        BY <2>0
      <4>2. LinesAfter(l, r, k) = <<Value>>
        BY <4>1 DEF LinesAfter
      <4>3. PlaceAfter(l, r, k) = <<r, Len(Value)>>
        BY <4>1 DEF PlaceAfter
      <4> QED BY <4>2, <4>3
    <3>2. z = (<<>> \o <<Value>>) \o <<>>
      BY <2>0
    <3>3. z = <<Value>>
      BY <3>2
    <3> QED BY <3>1, <3>3 DEF Makes
  <2>6. Now(t, i, j, Value)
    BY <2>0, <2>1
  <2> QED BY <1>1, <2>2, <2>3, <2>4, <2>5, <2>6, OneToOne
<1>4. CASE Len(t) # 0
  <2>0. l # <<<<>>>>
    BY <1>1, <1>4, EmptyField
  <2>1. CASE op = <<"insert_line", "above">>
    <3>1. Now(t, i, i, Value \o <<Newline>>) /\ caret = i + Len(Value)
      BY <1>4, <2>1 DEF LineEdit, Plan, PlanInsertLine, PlanNewLine, Change, Now
    <3>2. /\ LinesAfter(l, r, k) = Splice(l, r - 1, r - 1, <<Value>>)
          /\ PlaceAfter(l, r, k) = <<r, Len(Value)>>
      BY <2>0, <2>1 DEF LinesAfter, PlaceAfter
    <3> QED BY <1>1, <1>2, <3>1, <3>2, NewLineAbove
  <2>2. CASE op = <<"insert_line", "below">>
    <3>1. Now(t, j, j, <<Newline>> \o Value) /\ caret = j + 1 + Len(Value)
      BY <1>4, <2>2 DEF LineEdit, Plan, PlanInsertLine, PlanNewLine, Change, Now
    <3>2. /\ LinesAfter(l, r, k) = Splice(l, r, r, <<Value>>)
          /\ PlaceAfter(l, r, k) = <<r + 1, Len(Value)>>
      BY <2>0, <2>2 DEF LinesAfter, PlaceAfter
    <3> QED BY <1>1, <1>2, <3>1, <3>2, NewLineBelow
  <2> QED BY <2>1, <2>2
<1> QED BY <1>3, <1>4

\* The line before the caret's, and the line after it.
LEMMA PairAbove ==
  ASSUME NEW t \in Seq(Char), NEW i, NEW j, IsLine(t, i, j), i > 0
  PROVE  \E x, p, m1, m2, q, l, r, f : OnPair(t, x, i - 1, j, p, m1, m2, q, l, r, f)
<1> DEFINE e == i - 1
<1>1. e \in Nat /\ e + 1 = i
  BY LineBefore
<1>2. \E x \in Nat : IsLine(t, x, e)
  BY LineBefore
<1> HIDE DEF e
<1>3. PICK x \in Nat : IsLine(t, x, e)
  BY <1>2
<1>4. IsLine(t, e + 1, j)
  BY <1>1
<1>5. \E p, m1, m2, q, l, r, f : OnPair(t, x, e, j, p, m1, m2, q, l, r, f)
  BY <1>3, <1>4, PairFacts
<1> QED BY <1>5 DEF e

\* The caret's line and the one after it.
LEMMA PairBelow ==
  ASSUME NEW t \in Seq(Char), NEW i, NEW j, IsLine(t, i, j), j < Len(t)
  PROVE  \E e, p, m1, m2, q, l, r, f : OnPair(t, i, j, e, p, m1, m2, q, l, r, f)
<1>1. PICK e : IsLine(t, j + 1, e)
  BY NextLine
<1> QED BY <1>1, PairFacts

\* Where the change lies in the two lines.
LEMMA WithinPair ==
  ASSUME NEW t, NEW i, NEW j, NEW e, NEW p, NEW m1, NEW m2, NEW q, NEW l, NEW r, NEW f,
         OnPair(t, i, j, e, p, m1, m2, q, l, r, f)
  PROVE  /\ Within(i, e, Len(m1), Len(m1) + 1, j, j + 1) /\ Within(i, e, 0, Len(m1) + 1, i, j + 1)
         /\ Within(i, e, Len(m1), Len(m1) + 1 + Len(m2), j, e)
         /\ i \in Nat /\ j \in Nat /\ e \in Nat /\ i + Len(m1) = j /\ j + 1 + Len(m2) = e
         /\ i <= j /\ Len(m1) \in Nat /\ Len(m2) \in Nat /\ e <= Len(t) /\ Len(t) \in Nat
<1> DEFINE n == Len(m1)
           d == Len(m2)
<1>1. /\ i \in Nat /\ j \in Nat /\ e \in Nat /\ i <= j /\ j + 1 <= e
      /\ n = j - i /\ d = e - (j + 1) /\ n \in Nat /\ d \in Nat
      /\ e <= Len(t) /\ Len(t) \in Nat
  BY DEF OnPair
<1> HIDE DEF n, d
<1>2. j = i + n /\ e = j + 1 + d
  BY <1>1
<1>3. /\ Within(i, e, n, n + 1, j, j + 1) /\ Within(i, e, 0, n + 1, i, j + 1)
      /\ Within(i, e, n, n + 1 + d, j, e)
  BY <1>1, <1>2 DEF Within
<1> QED BY <1>1, <1>2, <1>3 DEF n, d

\* The lines around the pair of lines.
LEMMA PairParted ==
  ASSUME NEW t, NEW i, NEW j, NEW e, NEW p, NEW m1, NEW m2, NEW q, NEW l, NEW r, NEW f,
         OnPair(t, i, j, e, p, m1, m2, q, l, r, f)
  PROVE  /\ PairParts(l, r, f, p, m1, m2, q, <<m2, m1>>)
         /\ \A y \in Text : PairParts(l, r, f, p, m1, m2, q, <<y>>)
         /\ m1 \in Text /\ m2 \in Text
         /\ m1 \in Seq(Char) /\ Plain(m1) /\ m2 \in Seq(Char) /\ Plain(m2)
<1>1. ListedTwo(l, r, f, p, m1, m2, q)
  BY PairListed
<1>2. /\ PairParts(l, r, f, p, m1, m2, q, <<m2, m1>>)
      /\ \A y \in Text : PairParts(l, r, f, p, m1, m2, q, <<y>>)
  BY <1>1, PairReplaced
<1>3. /\ m1 \in Text /\ m2 \in Text
      /\ m1 \in Seq(Char) /\ Plain(m1) /\ m2 \in Seq(Char) /\ Plain(m2)
  BY DEF OnPair, Text
<1> QED BY <1>2, <1>3

\* The rows of two lines follow one another.
LEMMA PairRows ==
  ASSUME NEW t, NEW i, NEW j, NEW e, NEW p, NEW m1, NEW m2, NEW q, NEW l, NEW r, NEW f,
         OnPair(t, i, j, e, p, m1, m2, q, l, r, f)
  PROVE  r \in Nat /\ f \in Nat /\ f = r + 1 /\ f - 1 = r /\ f - 2 = r - 1
<1>1. r = Len(p) + 1 /\ f = Len(p) + 2 /\ Len(p) \in Nat
  BY DEF OnPair, IsRows
<1> DEFINE n == Len(p)
<1>2. r = n + 1 /\ f = n + 2 /\ n \in Nat
  BY <1>1
<1> HIDE DEF n
<1> QED BY <1>2

-----------------------------------------------------------------------------
\* join_line joins the row of the caret to the one above.
LEMMA JoinPreviousExact ==
  ASSUME NEW t, NEW c, NEW i, NEW j, LineEdit(t, c, i, j), op = <<"join_line", "previous">>
  PROVE  EditsLines(t, c)
<1>0. t \in Seq(Char) /\ IsLine(t, i, j) /\ c \in i..j /\ i \in Nat /\ j \in Nat /\ c \in Nat
  BY DEF LineEdit, IsLine
<1>1. i > 0
  BY <1>0 DEF LineEdit, Inapplicable
<1>2. PICK x, p, m1, m2, q, l, r, f : OnPair(t, x, i - 1, j, p, m1, m2, q, l, r, f)
  BY <1>0, <1>1, PairAbove
<1> DEFINE e == i - 1
           y == m1 \o m2
           g == Glue(m1, m2)
           z == (p \o <<y>>) \o q
           k == c - i
           n == Len(m1)
<1>3. e \in Nat /\ e + 1 = i /\ k \in Nat /\ c = i + k /\ k = c - (e + 1) /\ c \in e + 1..j
  BY <1>0, <1>1
<1>4. OnPair(t, x, e, j, p, m1, m2, q, l, r, f)
  BY <1>2
<1>5. Now(t, e, i, <<>>) /\ caret = c - 1
  BY <1>0 DEF LineEdit, Plan, PlanJoinLine, Change, Now
<1>6. /\ PairParts(l, r, f, p, m1, m2, q, <<y>>) /\ y \in Seq(Char) /\ Len(y) = n + Len(m2)
      /\ m1 \in Seq(Char) /\ Plain(m1) /\ m2 \in Seq(Char) /\ Plain(m2)
      /\ f - 1 = r /\ f - 2 = r - 1
  <2>1. m1 \in Seq(Char) /\ Plain(m1) /\ m2 \in Seq(Char) /\ Plain(m2)
    BY <1>4, PairParted
  <2>3. f - 1 = r /\ f - 2 = r - 1
    <3> HIDE DEF e
    <3> QED BY <1>4, PairRows
  <2>2. y \in Seq(Char) /\ Len(y) = n + Len(m2) /\ y \in Text
    BY <2>1, PlainJoin DEF Text
  <2> HIDE DEF y
  <2>4. PairParts(l, r, f, p, m1, m2, q, <<y>>)
    BY <1>4, <2>2, PairParted
  <2> QED BY <2>1, <2>2, <2>3, <2>4
<1>7. Becomes(g, n, n + 1, <<>>, y)
  BY <1>6, JoinedTwo
<1>8. /\ Within(x, j, n, n + 1, e, e + 1) /\ x \in Nat /\ n \in Nat /\ x + n = e
      /\ e + 1 + Len(m2) = j
  <2> HIDE DEF e
  <2> QED BY <1>4, WithinPair
<1> HIDE DEF e, y, g, k, n
<1>9. Spot(x, y, n + k)
  <2> DEFINE d == Len(m2)
  <2>1. n + k \in 0..n + d /\ c - 1 = x + (n + k)
    <3>1. d \in Nat /\ e + 1 + d = j
      BY <1>6, <1>8
    <3> HIDE DEF d
    <3> QED BY <1>0, <1>3, <1>8, <3>1
  <2> QED BY <1>5, <1>6, <2>1 DEF Spot
<1>10. Makes(l, f, c - (e + 1), z, r, n + k)
  <2>1. Makes(l, f, k, z, r, n + k)
    <3>1. LinesAfter(l, f, k) = Splice(l, f - 2, f, <<l[f - 1] \o l[f]>>)
      BY DEF LinesAfter
    <3>2. PlaceAfter(l, f, k) = <<f - 1, Len(l[f - 1]) + k>>
      BY DEF PlaceAfter
    <3>3. l[r] = m1 /\ l[f] = m2 /\ Splice(l, r - 1, f, <<y>>) = (p \o <<y>>) \o q
      BY <1>6 DEF PairParts
    <3> QED BY <1>6, <3>1, <3>2, <3>3 DEF Makes, y, n
  <2> QED BY <1>3, <2>1
<1>11. Becomes(Glue(m1, m2), n, n + 1, <<>>, y) /\ Now(t, e, e + 1, <<>>)
  BY <1>3, <1>5, <1>7 DEF g
<1> QED BY <1>3, <1>4, <1>8, <1>9, <1>10, <1>11, TwoToOne

\* join_line joins the row below to that of the caret.
LEMMA JoinNextExact ==
  ASSUME NEW t, NEW c, NEW i, NEW j, LineEdit(t, c, i, j), op = <<"join_line", "next">>
  PROVE  EditsLines(t, c)
<1>0. /\ t \in Seq(Char) /\ IsLine(t, i, j) /\ c \in i..j /\ i \in Nat /\ j \in Nat /\ c \in Nat
      /\ Len(t) \in Nat /\ j <= Len(t)
  BY DEF LineEdit, IsLine
<1>1. j < Len(t)
  BY <1>0 DEF LineEdit, Inapplicable
<1>2. PICK e, p, m1, m2, q, l, r, f : OnPair(t, i, j, e, p, m1, m2, q, l, r, f)
  BY <1>0, <1>1, PairBelow
<1> DEFINE y == m1 \o m2
           z == (p \o <<y>>) \o q
           k == c - i
           n == Len(m1)
<1>3. k \in Nat /\ c = i + k /\ k = c - i
  BY <1>0, <1>1
<1>5. Now(t, j, j + 1, <<>>) /\ caret = c
  BY <1>0 DEF LineEdit, Plan, PlanJoinLine, Change, Now
<1>6. /\ PairParts(l, r, f, p, m1, m2, q, <<y>>) /\ y \in Seq(Char) /\ Len(y) = n + Len(m2)
      /\ m1 \in Seq(Char) /\ Plain(m1) /\ m2 \in Seq(Char) /\ Plain(m2)
      /\ f = r + 1
  <2>1. m1 \in Seq(Char) /\ Plain(m1) /\ m2 \in Seq(Char) /\ Plain(m2)
    BY <1>2, PairParted
  <2>3. f = r + 1
    BY <1>2, PairRows
  <2>2. y \in Seq(Char) /\ Len(y) = n + Len(m2) /\ y \in Text
    BY <2>1, PlainJoin DEF Text
  <2> HIDE DEF y
  <2>4. PairParts(l, r, f, p, m1, m2, q, <<y>>)
    BY <1>2, <2>2, PairParted
  <2> QED BY <2>1, <2>2, <2>3, <2>4
<1>7. Becomes(Glue(m1, m2), n, n + 1, <<>>, y)
  BY <1>6, JoinedTwo
<1>8. /\ Within(i, e, n, n + 1, j, j + 1) /\ n \in Nat /\ i + n = j /\ Len(m2) \in Nat
  BY <1>2, WithinPair
<1> HIDE DEF y, k, n
<1>9. Spot(i, y, k)
  <2> DEFINE d == Len(m2)
  <2>1. k \in 0..n + d
    <3>1. d \in Nat
      BY <1>8
    <3> HIDE DEF d
    <3> QED BY <1>0, <1>3, <1>8, <3>1
  <2> QED BY <1>3, <1>5, <1>6, <2>1 DEF Spot
<1>10. Makes(l, r, k, z, r, k)
  <2>1. LinesAfter(l, r, k) = Splice(l, r - 1, r + 1, <<l[r] \o l[r + 1]>>)
    BY DEF LinesAfter
  <2>2. PlaceAfter(l, r, k) = <<r, k>>
    BY DEF PlaceAfter
  <2>3. l[r] = m1 /\ l[f] = m2 /\ Splice(l, r - 1, f, <<y>>) = (p \o <<y>>) \o q
    BY <1>6 DEF PairParts
  <2> QED BY <1>6, <2>1, <2>2, <2>3 DEF Makes, y
<1>11. c \in i..j /\ Makes(l, r, c - i, z, r, k)
  BY <1>0, <1>3, <1>10
<1> QED BY <1>2, <1>5, <1>7, <1>8, <1>9, <1>11, TwoToOne

\* Where the line before begins and the line after ends, as the plan finds them.
LEMMA LineLimits ==
  ASSUME NEW t \in Seq(Char), NEW i, NEW j, IsLine(t, i, j)
  PROVE  LineStart(t, j) = i /\ LineEnd(t, i) = j
<1>1. /\ i \in Nat /\ j \in Nat /\ i <= j /\ j <= Len(t) /\ Len(t) \in Nat
      /\ (i = 0 \/ t[i] = Newline) /\ (j = Len(t) \/ t[j + 1] = Newline)
      /\ \A k \in i + 1..j : t[k] # Newline
  BY DEF IsLine
<1>2. AtMost(j, Len(t)) = j
  BY <1>1 DEF AtMost
<1> DEFINE A == {x \in 0..j : x = 0 \/ t[x] = Newline}
           B == {x \in i..Len(t) : x = Len(t) \/ t[x + 1] = Newline}
<1>3. i \in A /\ \A x \in A : x <= i
  <2>1. i \in A
    BY <1>1
  <2>2. ASSUME NEW x \in A PROVE x <= i
    <3>1. x \in 0..j /\ (x = 0 \/ t[x] = Newline)
      OBVIOUS
    <3>2. SUFFICES ASSUME x > i PROVE FALSE
      BY <1>1, <3>1
    <3>3. x \in i + 1..j /\ x # 0
      BY <1>1, <3>1, <3>2
    <3> QED BY <1>1, <3>1, <3>3
  <2> QED BY <2>1, <2>2
<1>4. j \in B /\ \A x \in B : j <= x
  <2>1. j \in B
    BY <1>1
  <2>2. ASSUME NEW x \in B PROVE j <= x
    <3>1. x \in i..Len(t) /\ (x = Len(t) \/ t[x + 1] = Newline)
      OBVIOUS
    <3>2. SUFFICES ASSUME x < j PROVE FALSE
      BY <1>1, <3>1
    <3>3. x + 1 \in i + 1..j /\ x # Len(t)
      BY <1>1, <3>1, <3>2
    <3> QED BY <1>1, <3>1, <3>3
  <2> QED BY <2>1, <2>2
<1>5. LineStart(t, j) = Largest(A) /\ LineEnd(t, i) = Smallest(B)
  BY <1>2 DEF LineStart, LineEnd
<1>6. A \subseteq Nat /\ B \subseteq Nat
  BY <1>1
<1> HIDE DEF A, B
<1>7. Largest(A) = i
  <2>1. \A x, y \in A : x <= y /\ y <= x => x = y
    BY <1>6
  <2> QED BY <1>3, <2>1 DEF Largest
<1>8. Smallest(B) = j
  <2>1. \A x, y \in B : x <= y /\ y <= x => x = y
    BY <1>6
  <2> QED BY <1>4, <2>1 DEF Smallest
<1> QED BY <1>5, <1>7, <1>8

\* move_line swaps the row of the caret with the one above.
LEMMA MoveUpExact ==
  ASSUME NEW t, NEW c, NEW i, NEW j, LineEdit(t, c, i, j), op = <<"move_line", "up">>
  PROVE  EditsLines(t, c)
<1>0. t \in Seq(Char) /\ IsLine(t, i, j) /\ c \in i..j /\ i \in Nat /\ j \in Nat /\ c \in Nat
  BY DEF LineEdit, IsLine
<1>1. i > 0
  BY <1>0 DEF LineEdit, Inapplicable
<1>2. PICK x, p, m1, m2, q, l, r, f : OnPair(t, x, i - 1, j, p, m1, m2, q, l, r, f)
  BY <1>0, <1>1, PairAbove
<1> DEFINE e == i - 1
           g == Glue(m2, m1)
           z == (p \o <<m2, m1>>) \o q
           k == c - i
<1>3. e \in Nat /\ e + 1 = i /\ k \in Nat /\ c = i + k /\ k = c - (e + 1) /\ c \in e + 1..j
  BY <1>0, <1>1
<1>4. OnPair(t, x, e, j, p, m1, m2, q, l, r, f)
  BY <1>2
<1>5. /\ IsLine(t, x, e) /\ m1 = Slice(t, x, e) /\ m2 = Slice(t, e + 1, j) /\ x \in Nat
      /\ Len(m2) = j - (e + 1)
  BY <1>4 DEF OnPair
<1>6. line = m2 /\ LineStart(t, e) = x
  BY <1>0, <1>3, <1>5, LineLimits DEF LineEdit
<1>7. Now(t, x, j, g) /\ caret = x + k
  <2>1. plan = PlanMoveLine(t, Len(t))
    BY DEF LineEdit, Plan
  <2>2. plan = Change(x, j, line \o <<Newline>> \o Slice(t, x, e), x + c - i)
    BY <1>6, <2>1 DEF PlanMoveLine, LineEdit
  <2>3. x + c - i = x + k
    BY <1>0, <1>5
  <2>4. plan = Change(x, j, g, x + k)
    BY <1>5, <1>6, <2>2, <2>3 DEF Glue
  <2> HIDE DEF g, k
  <2> QED BY <2>4 DEF LineEdit, Change, Now
<1> HIDE DEF e, g, k
<1>8. PairParts(l, r, f, p, m1, m2, q, <<m2, m1>>) /\ f - 1 = r /\ f - 2 = r - 1
  BY <1>4, PairParted, PairRows
<1>9. Spot(x, m2, k)
  <2>1. k \in 0..j - (e + 1)
    BY <1>0, <1>3
  <2> QED BY <1>5, <1>7, <2>1 DEF Spot
<1>10. Makes(l, f, c - (e + 1), z, r, k)
  <2>1. Makes(l, f, k, z, r, k)
    <3>1. LinesAfter(l, f, k) = Splice(l, f - 2, f, <<l[f], l[f - 1]>>)
      BY DEF LinesAfter
    <3>2. PlaceAfter(l, f, k) = <<f - 1, k>>
      BY DEF PlaceAfter
    <3>3. /\ l[r] = m1 /\ l[f] = m2
          /\ Splice(l, r - 1, f, <<m2, m1>>) = (p \o <<m2, m1>>) \o q
      BY <1>8 DEF PairParts
    <3> QED BY <1>8, <3>1, <3>2, <3>3 DEF Makes
  <2> QED BY <1>3, <2>1
<1>11. Now(t, x, j, Glue(m2, m1))
  BY <1>7 DEF g
<1> QED BY <1>3, <1>4, <1>9, <1>10, <1>11, TwoToTwo

\* move_line swaps the row of the caret with the one below.
LEMMA MoveDownExact ==
  ASSUME NEW t, NEW c, NEW i, NEW j, LineEdit(t, c, i, j), op = <<"move_line", "down">>
  PROVE  EditsLines(t, c)
<1>0. /\ t \in Seq(Char) /\ IsLine(t, i, j) /\ c \in i..j /\ i \in Nat /\ j \in Nat /\ c \in Nat
      /\ Len(t) \in Nat /\ j <= Len(t)
  BY DEF LineEdit, IsLine
<1>1. j < Len(t)
  BY <1>0 DEF LineEdit, Inapplicable
<1>2. PICK e, p, m1, m2, q, l, r, f : OnPair(t, i, j, e, p, m1, m2, q, l, r, f)
  BY <1>0, <1>1, PairBelow
<1> DEFINE g == Glue(m2, m1)
           z == (p \o <<m2, m1>>) \o q
           k == c - i
           n == Len(m2)
<1>3. k \in Nat /\ c = i + k /\ k = c - i
  BY <1>0
<1>5. /\ IsLine(t, j + 1, e) /\ m1 = Slice(t, i, j) /\ m2 = Slice(t, j + 1, e)
      /\ Len(m1) = j - i /\ n \in Nat
  BY <1>2 DEF OnPair
<1>6. line = m1 /\ LineEnd(t, j + 1) = e
  BY <1>0, <1>5, LineLimits DEF LineEdit
<1>7. Now(t, i, e, g) /\ caret = i + n + 1 + k
  <2>1. plan = PlanMoveLine(t, Len(t))
    BY DEF LineEdit, Plan
  <2>2. plan = Change(i, e, Slice(t, j + 1, e) \o <<Newline>> \o line,
                      i + Len(Slice(t, j + 1, e)) + 1 + c - i)
    BY <1>6, <2>1 DEF PlanMoveLine, LineEdit
  <2>3. i + n + 1 + c - i = i + n + 1 + k
    <3> HIDE DEF n
    <3> QED BY <1>0, <1>5
  <2>4. plan = Change(i, e, g, i + n + 1 + k)
    BY <1>5, <1>6, <2>2, <2>3 DEF Glue
  <2> HIDE DEF g, k, n
  <2> QED BY <2>4 DEF LineEdit, Change, Now
<1> HIDE DEF g, k
<1>8. PairParts(l, r, f, p, m1, m2, q, <<m2, m1>>) /\ f = r + 1
  BY <1>2, PairParted, PairRows
<1>9. Spot(i + Len(m2) + 1, m1, k)
  <2> HIDE DEF n
  <2>1. k \in 0..j - i
    BY <1>0, <1>3
  <2>2. Spot(i + n + 1, m1, k)
    BY <1>5, <1>7, <2>1 DEF Spot
  <2> QED BY <2>2 DEF n
<1>10. c \in i..j /\ Makes(l, r, c - i, z, r + 1, k)
  <2>1. Makes(l, r, k, z, r + 1, k)
    <3>1. LinesAfter(l, r, k) = Splice(l, r - 1, r + 1, <<l[r + 1], l[r]>>)
      BY DEF LinesAfter
    <3>2. PlaceAfter(l, r, k) = <<r + 1, k>>
      BY DEF PlaceAfter
    <3>3. /\ l[r] = m1 /\ l[f] = m2
          /\ Splice(l, r - 1, f, <<m2, m1>>) = (p \o <<m2, m1>>) \o q
      BY <1>8 DEF PairParts
    <3> QED BY <1>8, <3>1, <3>2, <3>3 DEF Makes
  <2> QED BY <1>0, <1>3, <2>1
<1>11. Now(t, i, e, Glue(m2, m1))
  BY <1>7 DEF g
<1> QED BY <1>2, <1>9, <1>10, <1>11, TwoToTwo

\* The line and the line break after it are deleted.
LEMMA DeleteUpperExact ==
  ASSUME NEW t, NEW c, NEW i, NEW j, LineEdit(t, c, i, j), op[1] = "delete_line", j < Len(t)
  PROVE  EditsLines(t, c)
<1>0. /\ t \in Seq(Char) /\ IsLine(t, i, j) /\ c \in i..j
  BY DEF LineEdit
<1>2. PICK e, p, m1, m2, q, l, r, f : OnPair(t, i, j, e, p, m1, m2, q, l, r, f)
  BY <1>0, PairBelow
<1> DEFINE z == (p \o <<m2>>) \o q
           n == Len(m1)
           k == c - i
<1>3. Now(t, i, j + 1, <<>>) /\ caret = i
  <2>1. plan = PlanDeleteLine(Len(t))
    BY DEF LineEdit, Plan
  <2>2. plan = Change(i, j + 1, <<>>, i)
    BY <2>1 DEF PlanDeleteLine, LineEdit
  <2> QED BY <2>2 DEF LineEdit, Change, Now
<1>4. m1 \in Seq(Char) /\ Plain(m1) /\ m2 \in Seq(Char) /\ Plain(m2) /\ m2 \in Text
  BY <1>2, PairParted
<1>5. PairParts(l, r, f, p, m1, m2, q, <<m2>>)
  BY <1>2, <1>4, PairParted
<1>6. Becomes(Glue(m1, m2), 0, n + 1, <<>>, m2)
  BY <1>4, JoinedTwo
<1>7. Within(i, e, 0, n + 1, i, j + 1) /\ i \in Nat
  BY <1>2, WithinPair
<1>8. Spot(i, m2, 0)
  BY <1>3, <1>4, <1>7, SpotEnds
<1>9. Len(l) # 1 /\ r < Len(l)
  <2> DEFINE a == Len(p)
             b == Len(q)
             d == Len(l)
  <2>1. d = a + 2 + b /\ a \in Nat /\ b \in Nat /\ r = a + 1
    BY <1>5 DEF PairParts
  <2> HIDE DEF a, b, d
  <2>2. d # 1 /\ r < d
    BY <2>1
  <2> QED BY <2>2 DEF d
<1>10. Makes(l, r, k, z, r, 0)
  <2>1. LinesAfter(l, r, k) = Splice(l, r - 1, r, <<>>)
    BY <1>9 DEF LinesAfter
  <2>2. PlaceAfter(l, r, k) = <<r, 0>>
    BY <1>9 DEF PlaceAfter
  <2> QED BY <1>5, <2>1, <2>2 DEF Makes, PairParts
<1> HIDE DEF n
<1> QED BY <1>0, <1>2, <1>3, <1>6, <1>7, <1>8, <1>10, TwoToOne

\* The last line and the line break before it are deleted.
LEMMA DeleteLastExact ==
  ASSUME NEW t, NEW c, NEW i, NEW j, LineEdit(t, c, i, j), op[1] = "delete_line",
         ~(j < Len(t)), i > 0
  PROVE  EditsLines(t, c)
<1>0. /\ t \in Seq(Char) /\ IsLine(t, i, j) /\ c \in i..j /\ i \in Nat /\ j \in Nat /\ c \in Nat
      /\ Len(t) \in Nat /\ j <= Len(t)
  BY DEF LineEdit, IsLine
<1>2. PICK x, p, m1, m2, q, l, r, f : OnPair(t, x, i - 1, j, p, m1, m2, q, l, r, f)
  BY <1>0, PairAbove
<1> DEFINE e == i - 1
           z == (p \o <<m1>>) \o q
           n == Len(m1)
           w == n + 1 + Len(m2)
           k == c - (e + 1)
<1>3. e \in Nat /\ e + 1 = i /\ c \in e + 1..j
  BY <1>0
<1>4. OnPair(t, x, e, j, p, m1, m2, q, l, r, f)
  BY <1>2
<1>5. Now(t, e, j, <<>>) /\ caret = e
  <2>1. plan = PlanDeleteLine(Len(t))
    BY DEF LineEdit, Plan
  <2>2. plan = Change(i - 1, j, <<>>, i - 1)
    BY <2>1 DEF PlanDeleteLine, LineEdit
  <2> QED BY <2>2 DEF LineEdit, Change, Now
<1> HIDE DEF e
<1>6. m1 \in Seq(Char) /\ Plain(m1) /\ m2 \in Seq(Char) /\ Plain(m2) /\ m1 \in Text
  BY <1>4, PairParted
<1>7. PairParts(l, r, f, p, m1, m2, q, <<m1>>)
  BY <1>4, <1>6, PairParted
<1>8. f - 1 = r /\ r \in Nat /\ f = r + 1
  BY <1>4, PairRows
<1>9. Becomes(Glue(m1, m2), n, w, <<>>, m1)
  BY <1>6, JoinedTwo
<1>10. Within(x, j, n, w, e, j) /\ x \in Nat /\ x + n = e
  BY <1>4, WithinPair
<1>11. Spot(x, m1, n)
  BY <1>5, <1>6, <1>10, SpotEnds
<1>12. Len(l) # 1 /\ ~(f < Len(l)) /\ f # 1
  <2>1. q = <<>>
    <3>1. q = Below(t, j)
      BY <1>4 DEF OnPair
    <3>2. j = Len(t)
      BY <1>0
    <3> QED BY <3>1, <3>2 DEF Below
  <2> DEFINE a == Len(p)
             b == Len(q)
             d == Len(l)
  <2>2. d = a + 2 + b /\ a \in Nat /\ b = 0 /\ f = a + 2
    BY <1>7, <2>1 DEF PairParts
  <2> HIDE DEF a, b, d
  <2>3. d # 1 /\ ~(f < d) /\ f # 1
    BY <2>2
  <2> QED BY <2>3 DEF d
<1>13. Makes(l, f, k, z, r, n)
  <2>1. LinesAfter(l, f, k) = Splice(l, f - 1, f, <<>>)
    BY <1>12 DEF LinesAfter
  <2>2. PlaceAfter(l, f, k) = <<f - 1, Len(l[f - 1])>>
    BY <1>12 DEF PlaceAfter
  <2>3. Splice(l, r, f, <<>>) = (p \o <<m1>>) \o q /\ l[r] = m1
    BY <1>7 DEF PairParts
  <2> QED BY <1>8, <2>1, <2>2, <2>3 DEF Makes
<1> HIDE DEF n, w
<1> QED BY <1>3, <1>4, <1>5, <1>9, <1>10, <1>11, <1>13, TwoToOne

\* The only line is emptied.
LEMMA DeleteOnlyExact ==
  ASSUME NEW t, NEW c, NEW i, NEW j, LineEdit(t, c, i, j), op[1] = "delete_line",
         ~(j < Len(t)), ~(i > 0)
  PROVE  EditsLines(t, c)
<1>1. PICK p, m, q, l, r, k : OnLine(t, c, i, j, p, m, q, l, r, k)
  BY LineFacts
<1> DEFINE none == <<>>
           z == (p \o <<none>>) \o q
<1>2. /\ i \in Nat /\ j \in Nat /\ Len(t) \in Nat /\ j <= Len(t) /\ m \in Seq(Char)
      /\ p = Above(t, i) /\ q = Below(t, j)
  BY <1>1 DEF OnLine
<1>3. i = 0 /\ j = Len(t)
  BY <1>2
<1>4. p = <<>> /\ q = <<>>
  BY <1>2, <1>3 DEF Above, Below
<1>5. Now(t, i, j, none) /\ caret = i
  <2>1. plan = PlanDeleteLine(Len(t))
    BY DEF LineEdit, Plan
  <2>2. plan = Change(i, j, <<>>, i)
    BY <2>1 DEF PlanDeleteLine, LineEdit
  <2> QED BY <2>2 DEF LineEdit, Change, Now
<1>6. none \in Seq(Char) /\ Plain(none) /\ Len(none) = 0 /\ none \in Text
  BY DEF Plain, Text
<1>7. Becomes(m, 0, Len(m), none, none)
  <2> HIDE DEF none
  <2> QED BY <1>2, <1>6, Whole
<1>8. Within(i, j, 0, Len(m), i, j)
  BY <1>1, WithinLine
<1>9. Spot(i, none, 0)
  BY <1>2, <1>5, <1>6, SpotEnds
<1>10. Makes(l, r, k, z, r, 0)
  <2>1. Replaced(l, r, p, m, q, m)
    <3>1. m \in Text
      BY <1>2 DEF Text
    <3> QED BY <1>1, <3>1, LineListed, RowReplaced
  <2>2. Len(p) = 0 /\ Len(q) = 0
    BY <1>4
  <2>3. r = 1 /\ Len(l) = 1
    BY <2>1, <2>2 DEF Replaced
  <2>4. LinesAfter(l, r, k) = <<<<>>>> /\ PlaceAfter(l, r, k) = <<1, 0>>
    BY <2>3 DEF LinesAfter, PlaceAfter
  <2>5. z = (<<>> \o <<none>>) \o <<>>
    BY <1>4
  <2>6. z = <<none>>
    BY <2>5
  <2> QED BY <2>3, <2>4, <2>6 DEF Makes
<1> HIDE DEF none
<1> QED BY <1>1, <1>5, <1>7, <1>8, <1>9, <1>10, OneToOne

\* The caret's line is moved out by a tab, or by its leading spaces up to a pad.
LEMMA OutdentIsIndented ==
  ASSUME line \in Seq(Char), Outdent # 0
  PROVE  Outdent = Indented(line) /\ Outdent \in 1..Len(line) /\ line # <<>>
<1> DEFINE n == Len(line)
           b == AtMost(Len(Pad), n)
           T == {k \in 0..b : \A i \in 1..k : line[i] = "space"}
<1>1. n \in Nat /\ Len(Pad) \in Nat /\ b \in Nat /\ b <= n /\ b <= Len(Pad)
      /\ (b = n \/ b = Len(Pad))
  BY PlainTexts DEF AtMost
<1>2. CASE line # <<>> /\ line[1] = "tab"
  <2>1. n # 0
    BY <1>2
  <2>2. 1 \in 1..n
    <3> HIDE DEF n
    <3> QED BY <1>1, <2>1
  <2>3. Outdent = 1
    BY <1>2 DEF Outdent
  <2>4. Indented(line) = 1
    BY <1>2 DEF Indented
  <2> QED BY <1>2, <2>2, <2>3, <2>4
<1>3. CASE ~(line # <<>> /\ line[1] = "tab")
  <2>1. Outdent = Spaces(line) /\ Spaces(line) = Largest(T)
    BY <1>3 DEF Outdent, Spaces
  <2> HIDE DEF n, b
  <2>2. 0 \in T /\ T \subseteq 0..b
    BY <1>1
  <2>3. \E x \in T : \A y \in T : y <= x
    BY <1>1, <2>2, LargestIsOne
  <2>4. Largest(T) \in T /\ \A y \in T : y <= Largest(T)
    <3> HIDE DEF T
    <3> QED BY <2>3 DEF Largest
  <2> DEFINE k == Largest(T)
  <2>5. k \in 1..b /\ \A i \in 1..k : line[i] = "space"
    <3>1. k \in 0..b /\ \A i \in 1..k : line[i] = "space"
      BY <2>4
    <3>2. k # 0
      BY <2>1
    <3> HIDE DEF k
    <3> QED BY <1>1, <3>1, <3>2
  <2>6. ASSUME NEW x \in 1..b, \A i \in 1..x : line[i] = "space",
               x = Len(Pad) \/ x = n \/ line[x + 1] # "space"
        PROVE  x = k
    <3>1. x \in T
      BY <1>1, <2>6
    <3>2. x <= k
      BY <2>4, <3>1
    <3>3. ~(x < k)
      <4> SUFFICES ASSUME x < k PROVE FALSE
        OBVIOUS
      <4> HIDE DEF k
      <4>1. x + 1 \in 1..k
        BY <1>1, <2>5
      <4>2. line[x + 1] = "space"
        BY <2>5, <4>1
      <4>3. x # Len(Pad) /\ x # n
        BY <1>1, <2>5
      <4> QED BY <2>6, <4>2, <4>3
    <3> HIDE DEF k
    <3> QED BY <1>1, <2>5, <3>2, <3>3
  <2>7. k = Len(Pad) \/ k = n \/ line[k + 1] # "space"
    <3> SUFFICES ASSUME k # Len(Pad), k # n, line[k + 1] = "space" PROVE FALSE
      OBVIOUS
    <3>1. k + 1 \in T
      <4> HIDE DEF k
      <4>1. k + 1 \in 0..b
        BY <1>1, <2>5
      <4>2. \A i \in 1..k + 1 : i \in 1..k \/ i = k + 1
        BY <1>1, <2>5
      <4> QED BY <2>5, <4>1, <4>2
    <3>2. k + 1 <= k /\ k \in Nat
      BY <1>1, <2>4, <2>5, <3>1
    <3> HIDE DEF k
    <3> QED BY <3>2
  <2>8. line # <<>> /\ line[1] # "tab" /\ k \in 1..n
    <3> HIDE DEF k
    <3>1. k \in 1..n
      BY <1>1, <2>5
    <3>2. n # 0
      BY <1>1, <3>1
    <3>3. line # <<>>
      BY <3>2 DEF n
    <3> QED BY <1>3, <3>1, <3>3
  <2>9. Head(line) # "tab"
    BY <2>8
  <2>10. Indented(line) = CHOOSE x \in 1..b : /\ \A i \in 1..x : line[i] = "space"
                                              /\ x = Len(Pad) \/ x = n \/ line[x + 1] # "space"
    BY <2>9 DEF Indented, n, b
  <2>11. Indented(line) = k
    <3> HIDE DEF k
    <3> QED BY <2>5, <2>6, <2>7, <2>10
  <2> QED BY <2>1, <2>8, <2>11 DEF n
<1> QED BY <1>2, <1>3

\* indent_line takes the padding away that is there.
LEMMA OutdentExact ==
  ASSUME NEW t, NEW c, NEW i, NEW j, LineEdit(t, c, i, j), op = <<"indent_line", "outdent">>
  PROVE  EditsLines(t, c)
<1>1. PICK p, m, q, l, r, k : OnLine(t, c, i, j, p, m, q, l, r, k)
  BY LineFacts
<1> DEFINE o == Outdent
           n == Len(m)
           y == Drop(m, o)
           z == (p \o <<y>>) \o q
           k2 == IF k > o THEN k - o ELSE 0
<1>2. /\ m \in Seq(Char) /\ Plain(m) /\ i \in Nat /\ k \in 0..n /\ k = c - i /\ c \in Nat
      /\ n \in Nat /\ line = m
  BY <1>1 DEF OnLine, LineEdit
<1>3. o # 0
  BY DEF LineEdit, Inapplicable
<1>4. o = Indented(m) /\ o \in 1..n
  BY <1>2, <1>3, OutdentIsIndented
<1>5. Now(t, i, i + o, <<>>) /\ caret = IF c - o >= i THEN c - o ELSE i
  <2>1. plan = PlanIndent
    BY DEF LineEdit, Plan
  <2>2. plan = Change(i, i + o, <<>>, IF c - o >= i THEN c - o ELSE i)
    BY <2>1 DEF PlanIndent, LineEdit
  <2> HIDE DEF o
  <2> QED BY <2>2 DEF LineEdit, Change, Now
<1> HIDE DEF o, n
<1>6. o \in 0..Len(m)
  BY <1>2, <1>4 DEF n
<1>7. Within(i, j, 0, o, i, i + o)
  BY <1>1, <1>6, WithinLine
<1>8. Becomes(m, 0, o, <<>>, y) /\ y \in Text /\ Len(y) = n - o
  BY <1>2, <1>6, CutFront, PlainParts DEF Text, n
<1>9. Spot(i, y, k2)
  <2> HIDE DEF y
  <2>1. k2 \in 0..n - o /\ caret = i + k2
    <3>1. n \in Nat /\ o \in Nat /\ o <= n /\ i \in Nat /\ k \in Nat /\ k <= n /\ c = i + k
      BY <1>2, <1>4
    <3>2. CASE k > o
      <4>1. c - o >= i /\ k2 = k - o
        BY <3>1, <3>2
      <4> HIDE DEF k2
      <4> QED BY <1>5, <3>1, <3>2, <4>1
    <3>3. CASE ~(k > o)
      <4>1. k2 = 0 /\ (c - o >= i => c - o = i)
        BY <3>1, <3>3
      <4> HIDE DEF k2
      <4> QED BY <1>5, <3>1, <3>3, <4>1
    <3> QED BY <3>2, <3>3
  <2> QED BY <1>8, <2>1 DEF Spot
<1> HIDE DEF y
<1>10. Makes(l, r, k, z, r, k2)
  <2>1. Replaced(l, r, p, m, q, y)
    BY <1>1, <1>8, LineListed, RowReplaced
  <2>2. LinesAfter(l, r, k) = Splice(l, r - 1, r, <<Drop(l[r], Indented(l[r]))>>)
    BY DEF LinesAfter
  <2>3. PlaceAfter(l, r, k) =
          <<r, IF k > Indented(l[r]) THEN k - Indented(l[r]) ELSE 0>>
    BY DEF PlaceAfter
  <2>4. l[r] = m /\ Indented(l[r]) = o
    BY <1>4, <2>1 DEF Replaced
  <2>5. LinesAfter(l, r, k) = z
    BY <2>1, <2>2, <2>4 DEF Replaced, y
  <2>6. PlaceAfter(l, r, k) = <<r, k2>>
    BY <2>3, <2>4
  <2> QED BY <2>5, <2>6 DEF Makes
<1> HIDE DEF k2, z
<1>11. Makes(l, r, k, (p \o <<y>>) \o q, r, k2)
  BY <1>10 DEF z
<1> QED BY <1>1, <1>5, <1>7, <1>8, <1>9, <1>11, OneToOne

-----------------------------------------------------------------------------
(* A command that nobody interferes with. *)

\* What it has read.
Knows ==
  /\ at = base.caret
  /\ op[1] \in SelectionOps => base.sels = <<span>>
  /\ op[1] \in LineOps => /\ span = LineAround(base.text, base.caret, Len(base.text))
                          /\ line = Slice(base.text, span[1], span[2])
  /\ op[1] \in WordOps => /\ span \in (0..Len(base.text)) \X (0..Len(base.text))
                          /\ Nearest(base.text, base.caret, span[1], span[2])

\* What it has planned.
HasPlan ==
  /\ previous = base.text /\ plan = Plan(base.text, Len(base.text))
  /\ ~Inapplicable(Len(base.text))
  /\ ~(op[1] = "delete_character" /\ AtBoundary(at, Len(base.text)))
  /\ plan.caret \in Nat \/ op[1] \in Silent

Prepared == Planned \/ outcome = "done"

\* The plan of the field the command found, and what was verified, stay what they are.
ExactInv ==
  /\ base.text \in Seq(Char) /\ base.caret \in 0..Len(base.text)
  /\ foreign = 0 =>
       /\ pc = "snapshot" \/ Prepared => Knows
       /\ Prepared => HasPlan
       /\ outcome = "done" => Observed
       /\ UnchangedHadNothing

\* What was read stays what it is while nothing is read.
LEMMA KnowsKept ==
  ASSUME UNCHANGED <<op, at, span, line, base>>
  PROVE  Knows' = Knows
BY DEF Knows, Nearest

\* The plan is a function of what was read.
LEMMA PlanKept ==
  ASSUME UNCHANGED <<op, at, span, line, base>>
  PROVE  /\ Plan(base.text, Len(base.text))' = Plan(base.text, Len(base.text))
         /\ Inapplicable(Len(base.text))' = Inapplicable(Len(base.text))
         /\ AtBoundary(at, Len(base.text))' = AtBoundary(at, Len(base.text))
<1>1. Inapplicable(Len(base.text))' = Inapplicable(Len(base.text))
  BY DEF Inapplicable, Outdent
<1>2. AtBoundary(at, Len(base.text))' = AtBoundary(at, Len(base.text))
  BY DEF AtBoundary
<1>3. Plan(base.text, Len(base.text))' = Plan(base.text, Len(base.text))
  BY DEF Plan, PlanSetText, PlanDeleteSelection, PlanReplaceSelection, PlanInsertAtCaret,
         PlanDeleteCharacter, PlanDeleteWord, PlanReplaceWord, PlanDeleteLine, PlanReplaceLine,
         PlanInsertLine, PlanDuplicateLine, PlanNewLine, PlanMoveLine, PlanJoinLine,
         PlanSplitLine, PlanIndent, Outdent
<1> QED BY <1>1, <1>2, <1>3

\* The plan that was made stays the plan of the field that was found.
LEMMA HasPlanKept ==
  ASSUME UNCHANGED <<op, at, span, line, base, previous, plan>>
  PROVE  HasPlan' = HasPlan
BY PlanKept DEF HasPlan

\* What was verified stays so while nobody touches the field.
LEMMA ObservedKept ==
  ASSUME UNCHANGED <<field, op, previous, plan>>
  PROVE  Observed' = Observed
BY DEF Observed, Expected, field

\* A command that had nothing to do has had nothing to do.
LEMMA UnchangedKept ==
  ASSUME outcome' # "unchanged" \/ UNCHANGED <<outcome, op, base, foreign>>, UnchangedHadNothing
  PROVE  UnchangedHadNothing'
BY DEF UnchangedHadNothing, Nearest

\* A command begins.
LEMMA InitExact == EditInit => ExactInv
<1> SUFFICES ASSUME EditInit PROVE ExactInv
  OBVIOUS
<1>1. /\ text \in Seq(Char) /\ caret \in 0..Len(text) /\ pc = "meta" /\ outcome = None
      /\ base.text = text /\ base.caret = caret
  BY FieldAssumption DEF EditInit, Begin
<1>2. None # "done" /\ None # "unchanged"
  BY FieldAssumption DEF Outcome
<1> QED BY <1>1, <1>2 DEF ExactInv, Prepared, Planned, UnchangedHadNothing

\* The steps that change nothing of what was read.
LEMMA LaterExact ==
  ASSUME IInv, ExactInv, Mutate \/ SetCaret \/ Verify \/ Restore \/ Recheck \/ ReselectSpan
  PROVE  ExactInv'
<1>a. outcome = None /\ None # "done" /\ None # "unchanged"
  BY FieldAssumption DEF Outcome, IInv, Mutate, SetCaret, Verify, Restore, Recheck, ReselectSpan
<1>b. UNCHANGED <<op, at, span, line, previous, plan, base, foreign>>
  BY DEF Mutate, SetCaret, Verify, Restore, Recheck, ReselectSpan, reading
<1>c. Planned /\ pc' # "snapshot"
  BY DEF Mutate, SetCaret, Verify, Restore, Recheck, ReselectSpan, Planned, End
<1>d. outcome' # "unchanged"
  BY <1>a DEF Mutate, SetCaret, Verify, Restore, Recheck, ReselectSpan, End
<1>e. outcome' = "done" => Verify /\ Observed /\ UNCHANGED field
  <2>1. Verify => (outcome' = "done" => Verify /\ Observed /\ UNCHANGED field)
    BY <1>a DEF Verify, End
  <2>2. Mutate \/ SetCaret \/ Restore \/ Recheck \/ ReselectSpan => outcome' # "done"
    BY <1>a DEF Mutate, SetCaret, Restore, Recheck, ReselectSpan, End
  <2> QED BY <2>1, <2>2
<1>1. /\ UNCHANGED <<op, at, span, line, previous, plan, base, foreign>> /\ Planned
      /\ pc' # "snapshot" /\ outcome' # "unchanged" /\ outcome = None
      /\ outcome' = "done" => Verify /\ Observed /\ UNCHANGED field
  BY <1>a, <1>b, <1>c, <1>d, <1>e
<1>2. UnchangedHadNothing'
  BY <1>1 DEF UnchangedHadNothing
<1>3. ASSUME foreign = 0 PROVE Knows' /\ HasPlan' /\ (outcome' = "done" => Observed')
  <2>1. Knows /\ HasPlan
    BY <1>1, <1>3 DEF ExactInv, Prepared
  <2>2. Knows' /\ HasPlan'
    BY <1>1, <2>1, KnowsKept, HasPlanKept
  <2>3. outcome' = "done" => Observed'
    BY <1>1, ObservedKept
  <2> QED BY <2>2, <2>3
<1>4. base'.text \in Seq(Char) /\ base'.caret \in 0..Len(base'.text) /\ foreign' = foreign
  BY <1>1 DEF ExactInv
<1> QED BY <1>2, <1>3, <1>4 DEF ExactInv

\* Before the editing call the command knows the field it began with.
LEMMA KnowsField ==
  ASSUME IInv, EditTypeInv, ExactInv, foreign = 0, pc \in {"meta", "scan", "snapshot"}
  PROVE  /\ text = base.text /\ caret = base.caret /\ sels = base.sels
         /\ base.text \in Seq(Char) /\ base.caret \in 0..Len(base.text) /\ op \in EditOps
         /\ pc # "meta" => at = base.caret
         /\ pc # "meta" /\ op[1] \in SelectionOps => base.sels = <<span>>
         /\ pc \in {"scan", "snapshot"} => count = Len(base.text)
         /\ pc = "scan" => op[1] \in WordOps \cup LineOps
         /\ outcome = None
<1>1. UntouchedInv /\ MemoryInv /\ outcome = None
  BY DEF IInv
<1>2. op \in EditOps /\ (pc = "scan" => op[1] \in WordOps \cup LineOps)
  BY DEF EditTypeInv, ReadTypes
<1> QED BY <1>1, <1>2 DEF UntouchedInv, MemoryInv, ExactInv

\* A word command that ends without an edit has found no word.
LEMMA UnchangedWord ==
  ASSUME op[1] \in WordOps, UNCHANGED <<op, base>>,
         \A i, j \in 0..Len(base.text) : ~Nearest(base.text, base.caret, i, j)
  PROVE  UnchangedHadNothing'
<1>1. op'[1] \in {"delete_word", "replace_word", "select_word"}
  BY DEF WordOps
<1>2. ~\E i, j \in 0..Len(base'.text) : Nearest(base.text, base.caret, i, j)'
  BY DEF Nearest
<1> QED BY <1>1, <1>2 DEF UnchangedHadNothing

\* Reading the caret and the selection.
LEMMA MetaExact ==
  ASSUME IInv, IInv', EditTypeInv, ExactInv, ReadMeta
  PROVE  ExactInv'
<1>1. /\ pc = "meta" /\ UNCHANGED <<op, base, foreign>> /\ at' = caret
      /\ pc' \in {"ended", "scan", "snapshot"}
      /\ pc' = "snapshot" => op[1] \notin WordOps \cup LineOps
  BY DEF ReadMeta, End
<1>2. /\ outcome' \in {"refused", "unchanged", outcome}
      /\ outcome' = "unchanged" =>
           (op[1] \in WordOps /\ AtBoundary(caret, Len(text))) \/ outcome = "unchanged"
  BY DEF ReadMeta, End
<1>3. base'.text \in Seq(Char) /\ base'.caret \in 0..Len(base'.text)
  BY <1>1 DEF ExactInv
<1>4. ASSUME foreign = 0
      PROVE  /\ pc' = "snapshot" => Knows'
             /\ outcome' # "done" /\ UnchangedHadNothing' /\ ~Planned'
  <2>1. /\ text = base.text /\ caret = base.caret /\ outcome = None
        /\ base.text \in Seq(Char) /\ base.caret \in 0..Len(base.text)
    BY <1>1, <1>4, KnowsField
  <2>2. None # "done" /\ None # "unchanged"
    BY FieldAssumption DEF Outcome
  <2>3. pc' = "snapshot" => Knows'
    <3>1. MemoryInv'
      BY <1>1, <1>4 DEF IInv
    <3> QED BY <1>1, <3>1 DEF Knows, MemoryInv
  <2>4. ASSUME outcome' = "unchanged" PROVE UnchangedHadNothing'
    <3>1. op[1] \in WordOps /\ AtBoundary(caret, Len(text))
      BY <1>2, <2>1, <2>2, <2>4
    <3>2. ASSUME NEW i \in 0..Len(base.text), NEW j \in 0..Len(base.text),
                 Nearest(base.text, base.caret, i, j)
          PROVE  FALSE
      BY <2>1, <3>1, <3>2 DEF Nearest, AtBoundary
    <3> QED BY <1>1, <3>1, <3>2, UnchangedWord
  <2>5. outcome' # "unchanged" => UnchangedHadNothing'
    BY DEF UnchangedHadNothing
  <2> QED BY <1>1, <1>2, <2>1, <2>2, <2>3, <2>4, <2>5 DEF Planned
<1>5. foreign # 0 => UnchangedHadNothing'
  BY <1>1 DEF UnchangedHadNothing
<1> QED BY <1>1, <1>3, <1>4, <1>5 DEF ExactInv, Prepared

\* Reading character by character.
LEMMA ScanExact ==
  ASSUME IInv, IInv', EditTypeInv, ExactInv, Scan
  PROVE  ExactInv'
<1>1. /\ pc = "scan" /\ UNCHANGED <<op, base, foreign, at>> /\ pc' \in {"ended", "snapshot"}
      /\ pc' = "snapshot" => /\ Found # None /\ Found # Unreadable /\ span' = Found
                             /\ line' = Slice(text, Found[1], Found[2])
      /\ outcome' \in {"refused", "unchanged", outcome}
      /\ outcome' = "unchanged" => (Found = None /\ Found # Unreadable) \/ outcome = "unchanged"
  BY DEF Scan, End
<1>2. base'.text \in Seq(Char) /\ base'.caret \in 0..Len(base'.text)
  BY <1>1 DEF ExactInv
<1>3. ASSUME foreign = 0
      PROVE  /\ pc' = "snapshot" => Knows'
             /\ outcome' # "done" /\ UnchangedHadNothing' /\ ~Planned'
  <2>1. /\ text = base.text /\ outcome = None /\ at = base.caret /\ count = Len(base.text)
        /\ base.text \in Seq(Char) /\ base.caret \in 0..Len(base.text)
        /\ op[1] \in WordOps \cup LineOps /\ op[1] \notin SelectionOps
    BY <1>1, <1>3, KnowsField DEF WordOps, LineOps, SelectionOps
  <2>2. None # "done" /\ None # "unchanged"
    BY FieldAssumption DEF Outcome
  <2>3. ~(at > Len(text))
    BY <2>1
  <2>4. CASE op[1] \in LineOps
    <3>1. Found = LineAround(base.text, base.caret, Len(base.text))
      BY <2>1, <2>3, <2>4 DEF Found
    <3>2. Found # Unreadable => Found \in Nat \X Nat
      BY <2>1, <3>1, LineAroundTypes
    <3>3. Found # Unreadable => Found # None
      BY <3>2, FieldAssumption
    <3>4. UnchangedHadNothing'
      BY <1>1, <2>1, <2>2, <3>3 DEF UnchangedHadNothing
    <3>5. pc' = "snapshot" => Knows'
      BY <1>1, <2>1, <2>4, <3>1 DEF Knows, LineOps, WordOps
    <3> QED BY <1>1, <2>1, <2>2, <3>4, <3>5 DEF Planned
  <2>5. CASE op[1] \in WordOps
    <3>1. Found = IF op[2] = "previous" THEN WordBefore(base.text, base.caret)
                  ELSE WordAfter(base.text, base.caret, Len(base.text))
      BY <2>1, <2>3, <2>5 DEF Found, AdjacentWord, WordOps, LineOps
    <3>2. /\ Found = None => \A i, j \in 0..Len(base.text) : ~Nearest(base.text, base.caret, i, j)
          /\ Found # None => \E i, j \in 0..Len(base.text) :
                               Found = <<i, j>> /\ Nearest(base.text, base.caret, i, j)
      BY <2>1, <3>1, WordBeforeNearest, WordAfterNearest
    <3>3. ASSUME outcome' = "unchanged" PROVE UnchangedHadNothing'
      BY <1>1, <2>1, <2>2, <2>5, <3>2, <3>3, UnchangedWord
    <3>4. outcome' # "unchanged" => UnchangedHadNothing'
      BY DEF UnchangedHadNothing
    <3>5. ASSUME pc' = "snapshot" PROVE Knows'
      <4>1. PICK i \in 0..Len(base.text), j \in 0..Len(base.text) :
              Found = <<i, j>> /\ Nearest(base.text, base.caret, i, j)
        BY <1>1, <3>2, <3>5
      <4>2. span' = <<i, j>> /\ Nearest(base.text, base.caret, i, j)'
        BY <1>1, <3>5, <4>1 DEF Nearest
      <4>3. /\ span' \in (0..Len(base'.text)) \X (0..Len(base'.text))
            /\ span'[1] = i /\ span'[2] = j
        BY <1>1, <4>2
      <4>4. Nearest(base.text, base.caret, span[1], span[2])'
        BY <4>2, <4>3 DEF Nearest
      <4> QED BY <1>1, <2>1, <2>5, <4>3, <4>4 DEF Knows, LineOps, WordOps
    <3> QED BY <1>1, <2>1, <2>2, <3>3, <3>4, <3>5 DEF Planned
  <2> QED BY <2>1, <2>4, <2>5
<1>4. foreign # 0 => UnchangedHadNothing'
  BY <1>1 DEF UnchangedHadNothing
<1> QED BY <1>1, <1>2, <1>3, <1>4 DEF ExactInv, Prepared

\* Taking the snapshot and planning.
LEMMA SnapshotExact ==
  ASSUME IInv, IInv', EditTypeInv, ExactInv, Snapshot
  PROVE  ExactInv'
<1> DEFINE n == Len(base.text)
<1>1. /\ pc = "snapshot" /\ UNCHANGED <<op, base, foreign, at, span, line>>
      /\ pc' \in {"ended", "mutate"}
      /\ outcome' \in {"refused", "unchanged", outcome}
  BY DEF Snapshot, End
<1>2. base'.text \in Seq(Char) /\ base'.caret \in 0..Len(base'.text)
  BY <1>1 DEF ExactInv
<1>3. ASSUME foreign = 0
      PROVE  /\ pc' = "mutate" => Knows' /\ HasPlan'
             /\ outcome' # "done" /\ UnchangedHadNothing' /\ pc' # "snapshot"
  <2>1. /\ text = base.text /\ outcome = None /\ at = base.caret /\ count = Len(base.text)
        /\ base.text \in Seq(Char) /\ base.caret \in 0..Len(base.text) /\ op \in EditOps /\ Knows
    BY <1>1, <1>3, KnowsField DEF ExactInv
  <2>2. None # "done" /\ None # "unchanged"
    BY FieldAssumption DEF Outcome
  <2>3. Take(base.text, n) = base.text
    BY <2>1, WholeSnapshot
  <2>4. /\ previous' = base.text
        /\ pc' = "mutate" => /\ plan' = Plan(base.text, n) /\ ~Inapplicable(n)
                             /\ ~(op[1] = "delete_character" /\ AtBoundary(at, n))
        /\ outcome' = "unchanged" =>
             (op[1] = "delete_character" /\ AtBoundary(at, n)) \/ outcome = "unchanged"
    BY <2>1, <2>3 DEF Snapshot, End
  <2>5. UnchangedHadNothing'
    <3>1. CASE outcome' = "unchanged"
      <4>1. op[1] = "delete_character" /\ AtBoundary(base.caret, n)
        BY <2>1, <2>2, <2>4, <3>1
      <4>2. op \in {"delete_character"} \X Direction
        BY <2>1, <4>1 DEF EditOps
      <4>3. base.caret = IF op[2] = "previous" THEN 0 ELSE n
        BY <4>1, <4>2 DEF AtBoundary, Direction
      <4>4. /\ op'[1] \in {"delete_character", "select_character", "move_caret_word"}
            /\ op'[1] \notin {"delete_word", "replace_word", "select_word"}
            /\ base'.caret = IF op'[2] = "previous" THEN 0 ELSE Len(base'.text)
        BY <1>1, <4>1, <4>3
      <4> QED BY <4>4 DEF UnchangedHadNothing
    <3>2. CASE outcome' # "unchanged"
      BY <3>2 DEF UnchangedHadNothing
    <3> QED BY <3>1, <3>2
  <2>6. ASSUME pc' = "mutate" PROVE HasPlan'
    <3>1. Plan(base.text, n).caret \in Nat \/ op[1] \in Silent
      BY <1>1, <2>1, <2>4, <2>6, PlannedTypes
    <3> QED BY <1>1, <2>4, <2>6, <3>1, PlanKept DEF HasPlan
  <2>7. Knows'
    BY <1>1, <2>1, KnowsKept
  <2> QED BY <1>1, <2>1, <2>2, <2>5, <2>6, <2>7
<1>4. foreign # 0 => UnchangedHadNothing'
  BY <1>1 DEF UnchangedHadNothing
<1> QED BY <1>1, <1>2, <1>3, <1>4 DEF ExactInv, Prepared, Planned

\* Reads that fail, keystrokes and stuttering.
LEMMA OtherExact ==
  ASSUME IInv, EditTypeInv, ExactInv, ReadFails \/ Foreign \/ UNCHANGED vars
  PROVE  ExactInv'
<1>1. CASE ReadFails
  <2>1. /\ pc' = "ended" /\ outcome' = "refused" /\ UNCHANGED <<base, foreign>>
    BY <1>1 DEF ReadFails, End
  <2> QED BY <2>1 DEF ExactInv, UnchangedHadNothing, Prepared, Planned
<1>2. CASE Foreign
  <2>1. base' = base /\ foreign' = foreign + 1 /\ foreign \in Nat
    BY <1>2 DEF Foreign, Typed, IInv
  <2>2. foreign' # 0
    BY <2>1
  <2> QED BY <2>1, <2>2 DEF ExactInv, UnchangedHadNothing
<1>3. CASE UNCHANGED vars
  <2>1. UNCHANGED <<op, at, span, line, base, previous, plan, pc, outcome, field, foreign>>
    BY <1>3 DEF vars, reading
  <2>2. foreign = 0 => UnchangedHadNothing'
    BY <2>1, UnchangedKept DEF ExactInv
  <2> QED BY <2>1, <2>2, KnowsKept, HasPlanKept, ObservedKept DEF ExactInv, Prepared, Planned
<1> QED BY <1>1, <1>2, <1>3

\* Every step keeps what was read and planned true to the field that was found.
LEMMA NextExact == IInv /\ EditTypeInv /\ ExactInv /\ [EditNext]_vars => ExactInv'
<1> SUFFICES ASSUME IInv, EditTypeInv, ExactInv, [EditNext]_vars PROVE ExactInv'
  OBVIOUS
<1>1. IInv'
  BY NextIInv
<1> QED BY <1>1, MetaExact, ScanExact, SnapshotExact, LaterExact, OtherExact DEF EditNext, EditStep

\* What an editing command knows at every moment.
LEMMA AlwaysExact == EditSpec => [](IInv /\ EditTypeInv /\ ExactInv)
<1>1. EditInit => IInv /\ EditTypeInv /\ ExactInv
  BY InitIInv, InitTypes, InitExact
<1>2. IInv /\ EditTypeInv /\ ExactInv /\ [EditNext]_vars => (IInv /\ EditTypeInv /\ ExactInv)'
  BY NextIInv, NextTypes, NextExact
<1> QED BY <1>1, <1>2, PTL DEF EditSpec

\* Says that a command had nothing to do, only when it had not.
THEOREM EditsHadNothing == EditSpec => []UnchangedHadNothing
<1>1. ExactInv => UnchangedHadNothing
  BY DEF ExactInv, UnchangedHadNothing
<1> QED BY <1>1, AlwaysExact, PTL

\* Every command on lines makes of the rows what it is named for.
LEMMA LineEditIsExact ==
  ASSUME NEW t, NEW c, NEW i, NEW j, LineEdit(t, c, i, j), op \in EditOps, op[1] \in LineOps
  PROVE  EditsLines(t, c)
<1>1. CASE op[1] = "delete_line"
  BY <1>1, DeleteUpperExact, DeleteLastExact, DeleteOnlyExact
<1>2. CASE op[1] = "replace_line"
  BY <1>2, ReplaceLineExact
<1>3. CASE op[1] = "insert_line"
  <2>1. op \in {"insert_line"} \X {"above", "below"}
    BY <1>3 DEF EditOps
  <2>2. op \in {<<"insert_line", "above">>, <<"insert_line", "below">>}
    BY <2>1
  <2> QED BY <2>2, InsertLineExact
<1>4. CASE op[1] = "duplicate_line"
  <2>1. op \in {"duplicate_line"} \X {"above", "below"}
    BY <1>4 DEF EditOps
  <2>2. op \in {<<"duplicate_line", "above">>, <<"duplicate_line", "below">>}
    BY <2>1
  <2> QED BY <2>2, DuplicateLineExact
<1>5. CASE op[1] = "move_line"
  <2>1. op \in {"move_line"} \X {"up", "down"}
    BY <1>5 DEF EditOps
  <2>2. op = <<"move_line", "up">> \/ op = <<"move_line", "down">>
    BY <2>1
  <2> QED BY <2>2, MoveUpExact, MoveDownExact
<1>6. CASE op[1] = "join_line"
  <2>1. op \in {"join_line"} \X Direction
    BY <1>6 DEF EditOps
  <2>2. op = <<"join_line", "previous">> \/ op = <<"join_line", "next">>
    BY <2>1 DEF Direction
  <2> QED BY <2>2, JoinPreviousExact, JoinNextExact
<1>7. CASE op[1] = "split_line"
  BY <1>7, SplitLineExact
<1>8. CASE op[1] = "indent_line"
  <2>1. op \in {"indent_line"} \X {"indent", "outdent"}
    BY <1>8 DEF EditOps
  <2>2. op = <<"indent_line", "indent">> \/ op = <<"indent_line", "outdent">>
    BY <2>1
  <2> QED BY <2>2, IndentExact, OutdentExact
<1> QED BY <1>1, <1>2, <1>3, <1>4, <1>5, <1>6, <1>7, <1>8 DEF LineOps

\* Done and read back: the field is the planned change of the field it began with.
LEMMA DoneIsPlanned ==
  ASSUME ExactInv, outcome = "done", foreign = 0
  PROVE  /\ base.text \in Seq(Char) /\ base.caret \in 0..Len(base.text)
         /\ Knows /\ ~Inapplicable(Len(base.text))
         /\ ~(op[1] = "delete_character" /\ AtBoundary(at, Len(base.text)))
         /\ plan = Plan(base.text, Len(base.text))
         /\ text = Splice(base.text, plan.from, plan.to, plan.new)
         /\ op[1] \notin Silent => caret = plan.caret
<1>1. /\ Knows /\ HasPlan /\ Observed
      /\ base.text \in Seq(Char) /\ base.caret \in 0..Len(base.text)
  BY DEF ExactInv, Prepared
<1>2. text = Splice(base.text, plan.from, plan.to, plan.new)
  BY <1>1 DEF Observed, Expected, HasPlan
<1>3. op[1] \notin Silent => caret = plan.caret
  BY <1>1, FieldAssumption DEF Observed, HasPlan
<1> QED BY <1>1, <1>2, <1>3 DEF HasPlan

\* A line command that is done.
LEMMA EditedLines ==
  ASSUME ExactInv, outcome = "done", foreign = 0, op \in EditOps, op[1] \in LineOps
  PROVE  EditsLines(base.text, base.caret)
<1> DEFINE t == base.text
           c == base.caret
<1>1. /\ t \in Seq(Char) /\ c \in 0..Len(t) /\ Knows /\ ~Inapplicable(Len(t))
      /\ plan = Plan(t, Len(t)) /\ text = Splice(t, plan.from, plan.to, plan.new)
      /\ op[1] \notin Silent => caret = plan.caret
  BY DoneIsPlanned
<1>2. op[1] \notin Silent
  BY DEF LineOps, Silent
<1>3. /\ at = c /\ span = LineAround(t, c, Len(t)) /\ line = Slice(t, span[1], span[2])
  BY <1>1 DEF Knows
<1>4. PICK i \in Nat, j \in Nat : LineAround(t, c, Len(t)) = <<i, j>> /\ IsLine(t, i, j)
                                  /\ i <= c /\ c <= j
  BY <1>1, LineAroundIsLine
<1>5. c \in i..j
  BY <1>1, <1>4
<1>6. span = <<i, j>> /\ line = Slice(t, i, j)
  BY <1>3, <1>4
<1>7. LineEdit(t, c, i, j)
  BY <1>1, <1>2, <1>3, <1>4, <1>5, <1>6 DEF LineEdit
<1> QED BY <1>7, LineEditIsExact

\* A word command that is done.
LEMMA EditedWord ==
  ASSUME ExactInv, outcome = "done", foreign = 0, op \in EditOps, op[1] \in WordOps
  PROVE  EditsWord(base.text, base.caret)
<1> DEFINE t == base.text
           c == base.caret
           i == span[1]
           j == span[2]
<1>1. /\ t \in Seq(Char) /\ c \in 0..Len(t) /\ Knows
      /\ plan = Plan(t, Len(t)) /\ text = Splice(t, plan.from, plan.to, plan.new)
      /\ op[1] \notin Silent => caret = plan.caret
  BY DoneIsPlanned
<1>2. caret = plan.caret
  BY <1>1 DEF WordOps, Silent
<1>3. /\ at = c /\ i \in 0..Len(t) /\ j \in 0..Len(t) /\ Nearest(t, c, i, j)
  BY <1>1 DEF Knows
<1>4. plan = IF op[1] = "replace_word" THEN Change(i, j, Value, i + Len(Value))
             ELSE Change(i, j, <<>>, IF op[2] = "previous" THEN at - (j - i) ELSE at)
  BY <1>1 DEF WordOps, Plan, PlanReplaceWord, PlanDeleteWord
<1>5. /\ plan.from = i /\ plan.to = j
      /\ plan.new = IF op[1] = "replace_word" THEN Value ELSE <<>>
      /\ plan.caret = IF op[1] = "replace_word" THEN i + Len(Value)
                      ELSE IF op[2] = "previous" THEN at - (j - i) ELSE at
  BY <1>4 DEF Change
<1> HIDE DEF i, j
<1>6. /\ text = Splice(t, i, j, IF op[1] = "replace_word" THEN Value ELSE <<>>)
      /\ caret = IF op[1] = "replace_word" THEN i + Len(Value)
                 ELSE IF op[2] = "previous" THEN c - (j - i) ELSE c
  BY <1>1, <1>2, <1>3, <1>5
<1> QED BY <1>3, <1>6 DEF EditsWord

\* delete_character when it is done.
LEMMA EditedCharacter ==
  ASSUME ExactInv, outcome = "done", foreign = 0, op \in EditOps, op[1] = "delete_character"
  PROVE  EditsCharacter(base.text, base.caret)
<1> DEFINE t == base.text
           c == base.caret
           p == IF op[2] = "previous" THEN c ELSE c + 1
           n == Len(t)
<1>1. /\ t \in Seq(Char) /\ c \in 0..n /\ at = c /\ ~AtBoundary(c, n)
      /\ plan = Plan(t, n) /\ text = Splice(t, plan.from, plan.to, plan.new)
      /\ op[1] \notin Silent => caret = plan.caret
  BY DoneIsPlanned DEF Knows
<1>2. caret = plan.caret
  BY <1>1 DEF Silent
<1>3. op \in {"delete_character"} \X Direction
  BY DEF EditOps
<1>4. op[2] = "previous" \/ op[2] = "next"
  BY <1>3 DEF Direction
<1>5. n \in Nat
  BY <1>1
<1>6. p \in 1..n
  <2> HIDE DEF n, c
  <2> QED BY <1>1, <1>4, <1>5 DEF AtBoundary
<1>7. plan = Change(p - 1, p, <<>>, p - 1)
  <2>1. plan = PlanDeleteCharacter
    BY <1>1 DEF Plan
  <2>2. c \in Nat
    BY <1>1, <1>5
  <2>3. c + 1 - 1 = c
    BY <2>2
  <2> QED BY <1>1, <2>1, <2>3 DEF PlanDeleteCharacter
<1>8. plan.from = p - 1 /\ plan.to = p /\ plan.new = <<>> /\ plan.caret = p - 1
  BY <1>7 DEF Change
<1>9. text = Splice(t, p - 1, p, <<>>) /\ caret = p - 1
  BY <1>1, <1>2, <1>8
<1> QED BY <1>6, <1>9 DEF EditsCharacter

\* All of a text is replaced.
LEMMA SpliceAll ==
  ASSUME NEW t \in Seq(Char), NEW new \in Seq(Char)
  PROVE  Splice(t, 0, Len(t), new) = new
<1>1. Len(t) \in Nat
  OBVIOUS
<1>2. Take(t, 0) = <<>> /\ Drop(t, Len(t)) = <<>>
  BY <1>1 DEF Take, Drop, AtMost
<1> QED BY <1>2 DEF Splice

\* The commands on a selection, at the caret and on the whole field when they are done.
LEMMA EditedSpan ==
  ASSUME ExactInv, outcome = "done", foreign = 0, op \in EditOps
  PROVE  LET t == base.text
             c == base.caret
             s == base.sels[1]
         IN /\ op[1] = "delete_selection" => text = Splice(t, s[1], s[2], <<>>)
            /\ op[1] = "replace_selection" =>
                 text = Splice(t, s[1], s[2], Value) /\ caret = s[1] + Len(Value)
            /\ op[1] = "insert_at_caret" =>
                 text = Splice(t, c, c, Value) /\ caret = c + Len(Value)
            /\ op[1] = "set_text" => text = Value
<1> DEFINE t == base.text
           c == base.caret
           s == base.sels[1]
<1>1. /\ t \in Seq(Char) /\ at = c /\ (op[1] \in SelectionOps => s = span)
      /\ plan = Plan(t, Len(t)) /\ text = Splice(t, plan.from, plan.to, plan.new)
      /\ op[1] \notin Silent => caret = plan.caret
  BY DoneIsPlanned DEF Knows
<1>2. CASE op[1] = "delete_selection"
  <2>1. plan = Change(s[1], s[2], <<>>, None)
    BY <1>1, <1>2 DEF Plan, PlanDeleteSelection, SelectionOps
  <2>2. plan.from = s[1] /\ plan.to = s[2] /\ plan.new = <<>>
    BY <2>1 DEF Change
  <2> QED BY <1>1, <1>2, <2>2
<1>3. CASE op[1] = "replace_selection"
  <2>1. plan = Change(s[1], s[2], Value, s[1] + Len(Value))
    BY <1>1, <1>3 DEF Plan, PlanReplaceSelection, SelectionOps
  <2>2. plan.from = s[1] /\ plan.to = s[2] /\ plan.new = Value /\ plan.caret = s[1] + Len(Value)
    BY <2>1 DEF Change
  <2> QED BY <1>1, <1>3, <2>2 DEF Silent
<1>4. CASE op[1] = "insert_at_caret"
  <2>1. plan = Change(c, c, Value, c + Len(Value))
    BY <1>1, <1>4 DEF Plan, PlanInsertAtCaret
  <2>2. plan.from = c /\ plan.to = c /\ plan.new = Value /\ plan.caret = c + Len(Value)
    BY <2>1 DEF Change
  <2> QED BY <1>1, <1>4, <2>2 DEF Silent
<1>5. CASE op[1] = "set_text"
  <2>1. plan = Change(0, Len(t), Value, None)
    BY <1>1, <1>5 DEF Plan, PlanSetText
  <2>2. plan.from = 0 /\ plan.to = Len(t) /\ plan.new = Value
    BY <2>1 DEF Change
  <2>3. text = Splice(t, 0, Len(t), Value)
    BY <1>1, <2>2
  <2>4. text = Value
    BY <1>1, <2>3, DictatedTypes, SpliceAll
  <2> QED BY <1>5, <2>4
<1> QED BY <1>2, <1>3, <1>4, <1>5

\* A command that nobody interferes with does what it is named for.
LEMMA ExactWhenDone ==
  ASSUME ExactInv, EditTypeInv
  PROVE  EditIsExact
BY EditedLines, EditedWord, EditedCharacter, EditedSpan DEF EditIsExact

\* An edit that nobody interferes with makes exactly the change it is named for.
THEOREM EditsAreExact == EditSpec => []EditIsExact
<1>1. IInv /\ EditTypeInv /\ ExactInv => EditIsExact
  BY ExactWhenDone
<1> QED BY <1>1, AlwaysExact, PTL

(* Typing. *)

\* The content the command began with, after a character was typed at its caret.
Grown == Splice(base.text, at, at, <<"t">>)

\* The commands that trust the count they read first.
Counting == {"delete_selection", "insert_at_caret", "delete_character", "delete_word"}

Early == pc \in {"meta", "scan", "snapshot", "mutate"}
Longer(t) == Len(t) > Len(base.text)

\* A plan that takes something out of n characters, or puts something in that is
\* not what was typed, or at the caret.
Deletes(p, n) == p.from < p.to /\ p.to <= n /\ p.new = <<>>
Inserts(p, n) ==
  /\ p.from = p.to /\ p.from <= at /\ p.new # <<>>
  /\ IF op[1] = "insert_at_caret" THEN p.from = at /\ p.new = Value
     ELSE op[1] \notin Counting /\ p.new[Len(p.new)] # "t"
Fits(p, n) == Deletes(p, n) \/ Inserts(p, n)

\* The command has read the content t that holds what was typed,
Caught(t) ==
  /\ Early => text = t
  /\ pc \in {"scan", "snapshot"} => count = Len(t)
  /\ Planned => previous = t

\* or it has not, and can only confirm what is made of it.
Missed(t) ==
  /\ t = Grown /\ at <= Len(base.text) /\ pc # "meta" /\ op[1] \notin SelectionOps
  /\ Early => text = t
  /\ pc \in {"scan", "snapshot"} => count = Len(base.text)
  /\ Planned =>
       /\ Fits(plan, Len(base.text))
       /\ previous = base.text \/ (op[1] \in Counting /\ previous = Take(t, Len(base.text)))
  /\ pc \in {"caret", "verify"} /\ text = Expected => MadeTo(t)

KeepInv ==
  /\ base.text \in Seq(Char)
  /\ op[1] \in SelectionOps => base.sels[1][1] < base.sels[1][2]
  /\ foreign = 0 => held = {base.text}
  /\ pc \in {"scan", "snapshot"} => at <= count
  /\ pc = "snapshot" /\ op[1] = "delete_word" => span[1] < span[2] /\ span[2] <= count
  /\ foreign <= 1 /\ ByPart /\ pc # "ended" =>
       \A t \in held : Longer(t) => Caught(t) \/ Missed(t)
  /\ EditsKeepTyping

-----------------------------------------------------------------------------
\* What was typed is at its place.
LEMMA GrownElements ==
  ASSUME NEW b \in Seq(Char), NEW c \in 0..Len(b)
  PROVE  /\ Splice(b, c, c, <<"t">>) \in Seq(Char)
         /\ Len(Splice(b, c, c, <<"t">>)) = Len(b) + 1
         /\ Splice(b, c, c, <<"t">>)[c + 1] = "t"
         /\ \A k \in 1..c : Splice(b, c, c, <<"t">>)[k] = b[k]
<1> DEFINE o == <<"t">>
           g == Splice(b, c, c, o)
           n == Len(b)
<1>1. n \in Nat /\ c \in Nat /\ c <= c /\ c <= n /\ o \in Seq(Char) /\ Len(o) = 1 /\ o[1] = "t"
  BY DEF Char, WordChar
<1> HIDE DEF o
<1>2. IsSplice(Char, g, b, c, c, o)
  BY <1>1, SpliceElements
<1> HIDE DEF g, n
<1>3. g \in Seq(Char) /\ Len(g) = n + 1
  BY <1>1, <1>2 DEF IsSplice, n
<1>4. \A k \in 1..n + 1 : g[k] = IF k <= c THEN b[k] ELSE IF k <= c + 1 THEN o[k - c]
                                ELSE b[k - c - 1 + c]
  BY <1>1, <1>2, <1>3 DEF IsSplice
<1>5. g[c + 1] = "t"
  <2>1. c + 1 \in 1..n + 1 /\ ~(c + 1 <= c) /\ c + 1 - c = 1
    BY <1>1
  <2>2. g[c + 1] = o[c + 1 - c]
    BY <1>1, <1>4, <2>1
  <2> QED BY <1>1, <2>1, <2>2
<1>6. \A k \in 1..c : g[k] = b[k]
  BY <1>1, <1>4
<1> QED BY <1>3, <1>5, <1>6 DEF g, o, n

\* If inserting V before what was typed, short of its last character, looks like
\* inserting it without that, then V ends as what was typed: at once if it is
\* inserted right there, else one character after the other back to V.
LEMMA LooksInserted ==
  ASSUME NEW b \in Seq(Char), NEW p \in Seq(Char), Len(p) = Len(b),
         NEW a \in Nat, NEW c \in 0..Len(b), a <= c, a = c \/ p = b,
         NEW V \in Seq(Char), V # <<>>,
         Splice(p, a, a, V) = Splice(Splice(b, c, c, <<"t">>), a, a, Take(V, Len(V) - 1))
  PROVE  V[Len(V)] = "t"
<1> DEFINE n == Len(b)
           m == Len(V)
           g == Splice(b, c, c, <<"t">>)
           W == Take(V, m - 1)
           x == Splice(p, a, a, V)
           y == Splice(g, a, a, W)
<1>1. n \in Nat /\ c \in Nat /\ c <= n /\ m \in Nat /\ m # 0
  OBVIOUS
<1>2. g \in Seq(Char) /\ Len(g) = n + 1 /\ g[c + 1] = "t" /\ \A k \in 1..c : g[k] = b[k]
  BY GrownElements
<1>3. W \in Seq(Char) /\ Len(W) = m - 1
  <2>1. m - 1 \in 0..Len(V)
    BY <1>1
  <2> HIDE DEF m
  <2> QED BY <2>1, CutElements
<1>4. IsSplice(Char, x, p, a, a, V)
  BY <1>1, SpliceElements
<1> HIDE DEF g, W
<1>5. IsSplice(Char, y, g, a, a, W)
  <2>1. a <= a /\ a <= Len(g)
    BY <1>1, <1>2
  <2> QED BY <1>2, <1>3, <2>1, SpliceElements
<1>6. x = y
  BY DEF g, W
<1> HIDE DEF x, y, n, m
<1>7. Len(x) = n + m
  BY <1>1, <1>4 DEF IsSplice, n, m
<1>8. ASSUME NEW k \in 1..n + m
      PROVE  /\ a < k /\ k <= a + m => x[k] = V[k - a]
             /\ a + m < k => x[k] = p[k - m]
             /\ a + m - 1 < k => x[k] = g[k - (m - 1)]
  <2>1. x[k] = IF k <= a THEN p[k] ELSE IF k <= a + m THEN V[k - a] ELSE p[k - a - m + a]
    BY <1>4, <1>7 DEF IsSplice, m
  <2>2. y[k] = IF k <= a THEN g[k] ELSE IF k <= a + (m - 1) THEN W[k - a]
               ELSE g[k - a - (m - 1) + a]
    BY <1>3, <1>5, <1>6, <1>7 DEF IsSplice
  <2>3. k - a - m + a = k - m /\ k - a - (m - 1) + a = k - (m - 1)
    BY <1>1
  <2> QED BY <1>1, <1>6, <2>1, <2>2, <2>3
<1> DEFINE D == {j \in a..c : x[j + m] = "t"}
<1>9. c \in D
  <2> DEFINE k == c + m
  <2>1. k \in 1..n + m /\ a + m - 1 < k /\ k - (m - 1) = c + 1
    BY <1>1
  <2> HIDE DEF k
  <2>2. x[k] = g[k - (m - 1)]
    BY <1>8, <2>1
  <2>3. x[k] = "t"
    BY <1>2, <2>1, <2>2
  <2> QED BY <1>1, <2>3 DEF k
<1>10. PICK j \in D : \A i \in D : j <= i
  <2>1. D \in SUBSET Nat
    BY <1>1
  <2> HIDE DEF D
  <2> QED BY <1>9, <2>1, SmallestIsOne
<1>11. j = a
  <2> SUFFICES ASSUME j # a PROVE FALSE
    OBVIOUS
  <2> DEFINE k == j + m
             h == j - 1 + m
  <2>1. j \in Nat /\ a < j /\ j <= c /\ x[k] = "t" /\ p = b
    BY <1>1, <1>10
  <2>2. k \in 1..n + m /\ a + m < k /\ k - m = j
    BY <1>1, <2>1
  <2>3. h \in 1..n + m /\ a + m - 1 < h /\ h - (m - 1) = j /\ j \in 1..c
    BY <1>1, <2>1
  <2> HIDE DEF k, h
  <2>4. x[k] = p[k - m] /\ x[h] = g[h - (m - 1)]
    BY <1>8, <2>2, <2>3
  <2>5. x[h] = "t"
    BY <1>2, <2>1, <2>2, <2>3, <2>4
  <2>6. j - 1 \in D
    BY <1>1, <2>1, <2>5 DEF h
  <2> QED BY <1>10, <2>1, <2>6
<1>12. V[m] = "t"
  <2> DEFINE k == a + m
  <2>1. k \in 1..n + m /\ a < k /\ k <= a + m /\ k - a = m
    BY <1>1
  <2>2. x[k] = "t"
    BY <1>10, <1>11
  <2> HIDE DEF k
  <2>3. x[k] = V[k - a]
    BY <1>8, <2>1
  <2> QED BY <2>1, <2>2, <2>3
<1> QED BY <1>12 DEF m

-----------------------------------------------------------------------------
\* The plans of the commands that trust the count they read first.
LEMMA CountingFits ==
  ASSUME op \in EditOps, op[1] \in Counting \ {"delete_selection"},
         NEW t, NEW n \in Nat, at \in Nat, at <= n, span \in Nat \X Nat,
         op[1] = "delete_word" => span[1] < span[2] /\ span[2] <= n,
         ~(op[1] = "delete_character" /\ AtBoundary(at, n))
  PROVE  Fits(Plan(t, n), n)
<1>1. CASE op[1] = "insert_at_caret"
  <2>1. Plan(t, n) = Change(at, at, Value, at + Len(Value)) /\ Value # <<>>
    BY <1>1, TextAssumption DEF Plan, PlanInsertAtCaret
  <2> QED BY <1>1, <2>1 DEF Fits, Inserts, Change
<1>2. CASE op[1] = "delete_character"
  <2>1. op \in {"delete_character"} \X Direction
    BY <1>2 DEF EditOps
  <2>2. op[2] = "previous" => at # 0
    BY <1>2 DEF AtBoundary
  <2>3. op[2] # "previous" => at # n
    BY <1>2, <2>1 DEF AtBoundary, Direction
  <2>4. Plan(t, n) = IF op[2] = "previous" THEN Change(at - 1, at, <<>>, at - 1)
                     ELSE Change(at, at + 1, <<>>, at)
    BY <1>2 DEF Plan, PlanDeleteCharacter
  <2>5. CASE op[2] = "previous"
    <3>1. at - 1 < at
      BY <2>2
    <3> QED BY <2>4, <2>5, <3>1 DEF Fits, Deletes, Change
  <2>6. CASE op[2] # "previous"
    <3>1. at < at + 1 /\ at + 1 <= n
      BY <2>3, <2>6
    <3> QED BY <2>4, <2>6, <3>1 DEF Fits, Deletes, Change
  <2> QED BY <2>5, <2>6
<1>3. CASE op[1] = "delete_word"
  <2>1. Plan(t, n) = Change(span[1], span[2], <<>>,
                            IF op[2] = "previous" THEN at - (span[2] - span[1]) ELSE at)
    BY <1>3 DEF Plan, PlanDeleteWord
  <2> QED BY <1>3, <2>1 DEF Fits, Deletes, Change
<1> QED BY <1>1, <1>2, <1>3 DEF Counting

\* The plans of the commands on lines that do not write the whole field.
LEMMA LinesFit ==
  ASSUME op \in EditOps, op[1] \in LineOps, ByPart,
         NEW t \in Seq(Char), at \in 0..Len(t), ~Inapplicable(Len(t)),
         span = LineAround(t, at, Len(t)), line = Slice(t, span[1], span[2])
  PROVE  Fits(Plan(t, Len(t)), Len(t))
<1> DEFINE n == Len(t)
<1>1. PICK i \in Nat, j \in Nat : span = <<i, j>> /\ IsLine(t, i, j) /\ i <= at /\ at <= j
  BY LineAroundIsLine
<1>2. j <= n /\ n \in Nat /\ i <= j /\ at \in Nat /\ span[1] = i /\ span[2] = j
  BY <1>1 DEF IsLine
<1>3. line \in Seq(Char) /\ Len(line) = j - i
  <2>1. IsSlice(Char, Slice(t, i, j), t, i, j)
    BY <1>2, SliceElements
  <2> QED BY <1>2, <2>1 DEF IsSlice
<1> HIDE DEF n
<1>4. CASE op[1] = "delete_line"
  <2>1. i < j
    <3>1. line # <<>>
      BY <1>4 DEF Inapplicable
    <3> QED BY <1>2, <1>3, <3>1
  <2>2. Plan(t, n) = IF j < n THEN Change(i, j + 1, <<>>, i)
                     ELSE IF i > 0 THEN Change(i - 1, j, <<>>, i - 1)
                     ELSE Change(i, j, <<>>, i)
    BY <1>2, <1>4 DEF Plan, PlanDeleteLine
  <2>3. CASE j < n
    BY <1>1, <1>2, <2>1, <2>2, <2>3 DEF Fits, Deletes, Change, n
  <2>4. CASE ~(j < n) /\ i > 0
    BY <1>1, <1>2, <2>1, <2>2, <2>4 DEF Fits, Deletes, Change, n
  <2>5. CASE ~(j < n) /\ ~(i > 0)
    BY <1>1, <1>2, <2>1, <2>2, <2>5 DEF Fits, Deletes, Change, n
  <2> QED BY <2>3, <2>4, <2>5
<1>5. CASE op[1] = "join_line"
  <2>1. op \in {"join_line"} \X Direction
    BY <1>5 DEF EditOps
  <2>2. CASE op = <<"join_line", "previous">>
    <3>1. Plan(t, n) = Change(i - 1, i, <<>>, at - 1)
      BY <1>2, <2>2 DEF Plan, PlanJoinLine
    <3>2. i # 0
      BY <1>2, <2>2 DEF Inapplicable
    <3> QED BY <1>2, <3>1, <3>2 DEF Fits, Deletes, Change, n
  <2>3. CASE op = <<"join_line", "next">>
    <3>1. Plan(t, n) = Change(j, j + 1, <<>>, at)
      BY <1>2, <2>3 DEF Plan, PlanJoinLine
    <3>2. j < n
      BY <1>2, <2>3 DEF Inapplicable, n
    <3> QED BY <1>2, <3>1, <3>2 DEF Fits, Deletes, Change, n
  <2> QED BY <2>1, <2>2, <2>3 DEF Direction
<1>6. CASE op[1] = "split_line"
  <2>1. Plan(t, n) = Change(at, at, <<Newline>>, at + 1)
    BY <1>6 DEF Plan, PlanSplitLine
  <2>2. <<Newline>> # <<>> /\ <<Newline>>[Len(<<Newline>>)] # "t"
    BY DEF Newline
  <2>3. op[1] \notin Counting /\ op[1] # "insert_at_caret"
    BY <1>6 DEF Counting
  <2> QED BY <1>2, <2>1, <2>2, <2>3 DEF Fits, Inserts, Change, n
<1>7. CASE op = <<"indent_line", "indent">>
  <2>1. Plan(t, n) = Change(i, i, Pad, at + Len(Pad))
    BY <1>2, <1>7 DEF Plan, PlanIndent
  <2>2. Pad # <<>> /\ Pad[Len(Pad)] # "t"
    <3>1. Pad \in Seq({"space"}) /\ Pad # <<>>
      BY TextAssumption
    <3>2. Pad[Len(Pad)] \in {"space"}
      BY <3>1
    <3> QED BY <3>1, <3>2
  <2>3. op[1] \notin Counting /\ op[1] # "insert_at_caret"
    BY <1>7 DEF Counting
  <2> QED BY <1>1, <2>1, <2>2, <2>3 DEF Fits, Inserts, Change, n
<1>8. CASE op = <<"indent_line", "outdent">>
  <2>1. Plan(t, n) = Change(i, i + Outdent, <<>>, IF at - Outdent >= i THEN at - Outdent ELSE i)
    BY <1>2, <1>8 DEF Plan, PlanIndent
  <2>2. Outdent # 0
    BY <1>8 DEF Inapplicable
  <2>3. Outdent \in 1..Len(line)
    BY <1>3, <2>2, OutdentIsIndented
  <2>4. i < i + Outdent /\ i + Outdent <= n
    BY <1>2, <1>3, <2>3
  <2> QED BY <2>1, <2>4 DEF Fits, Deletes, Change, n
<1>9. \/ op[1] \in {"delete_line", "join_line", "split_line"}
      \/ op \in {<<"indent_line", "indent">>, <<"indent_line", "outdent">>}
  <2>1. op[1] \in {"delete_line", "join_line", "split_line", "indent_line"}
    BY DEF ByPart, LineOps
  <2>2. op[1] = "indent_line" => op \in {"indent_line"} \X {"indent", "outdent"}
    BY DEF EditOps
  <2> QED BY <2>1, <2>2
<1> QED BY <1>4, <1>5, <1>6, <1>7, <1>8, <1>9

\* What is planned for the field the command found fits into it.
LEMMA PlanFits ==
  ASSUME EditTypeInv, IInv, ExactInv, foreign = 0, pc = "mutate", ByPart,
         op[1] \notin SelectionOps
  PROVE  Fits(plan, Len(base.text)) /\ previous = base.text /\ at \in 0..Len(base.text)
<1> DEFINE t == base.text
           n == Len(t)
<1>1. /\ op \in EditOps /\ t \in Seq(Char) /\ base.caret \in 0..n /\ Knows /\ HasPlan
      /\ span \in Nat \X Nat
  BY DEF EditTypeInv, TypeOK, ExactInv, Prepared, Planned
<1>2. /\ at = base.caret /\ at \in Nat /\ at <= n /\ n \in Nat
      /\ plan = Plan(t, n) /\ previous = t /\ ~Inapplicable(n)
      /\ ~(op[1] = "delete_character" /\ AtBoundary(at, n))
  BY <1>1 DEF Knows, HasPlan
<1>3. CASE op[1] \in LineOps
  <2>1. span = LineAround(t, at, n) /\ line = Slice(t, span[1], span[2])
    BY <1>1, <1>3 DEF Knows
  <2>2. at \in 0..Len(t)
    BY <1>1, <1>2
  <2>3. Fits(Plan(t, Len(t)), Len(t))
    BY <1>1, <1>2, <1>3, <2>1, <2>2, LinesFit
  <2> QED BY <1>2, <2>2, <2>3
<1>4. CASE op[1] \notin LineOps
  <2>1. op[1] \in Counting \ {"delete_selection"}
    BY <1>4 DEF ByPart, LineOps, SelectionOps, Counting
  <2>2. op[1] = "delete_word" => span[1] < span[2] /\ span[2] <= n
    <3> SUFFICES ASSUME op[1] = "delete_word" PROVE span[1] < span[2] /\ span[2] <= n
      OBVIOUS
    <3>1. span \in (0..n) \X (0..n) /\ span[1] < span[2]
      BY <1>1 DEF Knows, WordOps, Nearest
    <3> QED BY <3>1
  <2>3. Fits(Plan(t, n), n)
    BY <1>1, <1>2, <2>1, <2>2, CountingFits
  <2> QED BY <1>1, <1>2, <2>3
<1> QED BY <1>3, <1>4

-----------------------------------------------------------------------------
\* A command begins.
LEMMA InitKeep == EditInit => KeepInv
<1> SUFFICES ASSUME EditInit PROVE KeepInv
  OBVIOUS
<1>1. /\ text \in Seq(Char) /\ pc = "meta" /\ outcome = None /\ held = {text}
      /\ base.text = text /\ base.sels = sels /\ Len(text) \in Nat
  BY FieldAssumption DEF EditInit, Begin
<1>2. None # "done"
  BY FieldAssumption DEF Outcome
<1>3. op[1] \in SelectionOps => base.sels[1][1] < base.sels[1][2]
  <2> SUFFICES ASSUME op[1] \in SelectionOps PROVE base.sels[1][1] < base.sels[1][2]
    OBVIOUS
  <2>1. PICK r \in Spans(text) : sels = <<r>>
    BY DEF EditInit
  <2> QED BY <1>1, <2>1 DEF Spans
<1>4. \A t \in held : ~Longer(t)
  BY <1>1 DEF Longer
<1> QED BY <1>1, <1>2, <1>3, <1>4 DEF KeepInv, EditsKeepTyping

\* Reading the caret and the selection.
LEMMA MetaKeep == IInv /\ EditTypeInv /\ KeepInv /\ ReadMeta => KeepInv'
<1> SUFFICES ASSUME IInv, EditTypeInv, KeepInv, ReadMeta PROVE KeepInv'
  OBVIOUS
<1>1. /\ pc = "meta" /\ UNCHANGED <<text, op, base, held, foreign>>
      /\ at' = caret /\ count' = Len(text) /\ pc' \in {"ended", "scan", "snapshot"}
      /\ pc' = "snapshot" => op[1] \notin WordOps
      /\ outcome' \in {"refused", "unchanged", outcome}
  BY DEF ReadMeta, End, field
<1>2. outcome # "done" /\ caret <= Len(text) /\ Len(text) \in Nat
  BY <1>1, FieldAssumption DEF IInv, EditTypeInv, TypeOK, FieldOK, Outcome
<1>3. ASSUME foreign <= 1, ByPart, NEW t \in held, Longer(t) PROVE Caught(t)'
  <2>1. Caught(t)
    BY <1>1, <1>3 DEF KeepInv, Missed
  <2> QED BY <1>1, <2>1 DEF Caught, Early, Planned
<1>4. ByPart' = ByPart /\ \A t : Longer(t)' = Longer(t)
  BY <1>1 DEF ByPart, Longer
<1> QED BY <1>1, <1>2, <1>3, <1>4 DEF KeepInv, EditsKeepTyping, WordOps

\* Reading character by character: a word lies within what was counted.
LEMMA ScanKeep == IInv /\ EditTypeInv /\ KeepInv /\ Scan => KeepInv'
<1> SUFFICES ASSUME IInv, EditTypeInv, KeepInv, Scan PROVE KeepInv'
  OBVIOUS
<1>1. /\ pc = "scan" /\ UNCHANGED <<text, op, count, at, base, held, foreign>>
      /\ pc' \in {"ended", "snapshot"}
      /\ pc' = "snapshot" => Found # None /\ Found # Unreadable /\ span' = Found
      /\ outcome' \in {"refused", "unchanged", outcome}
  BY DEF Scan, End, field
<1>2. /\ outcome # "done" /\ text \in Seq(Char) /\ at \in Nat /\ count \in Nat /\ at <= count
  BY <1>1, FieldAssumption
     DEF IInv, EditTypeInv, TypeOK, FieldOK, Outcome, KeepInv
<1>3. ASSUME pc' = "snapshot", op[1] = "delete_word"
      PROVE  span'[1] < span'[2] /\ span'[2] <= count
  <2>1. Found = IF op[2] = "previous" THEN WordBefore(text, at) ELSE WordAfter(text, at, count)
    BY <1>1, <1>3 DEF Found, AdjacentWord, LineOps
  <2>2. CASE op[2] = "previous"
    <3>1. /\ WordBefore(text, at) \in Nat \X Nat
          /\ WordBefore(text, at)[1] < WordBefore(text, at)[2] /\ WordBefore(text, at)[2] <= at
      BY <1>1, <1>2, <1>3, <2>1, <2>2, WordBeforeTypes
    <3> QED BY <1>1, <1>2, <1>3, <2>1, <2>2, <3>1
  <2>3. CASE op[2] # "previous"
    BY <1>1, <1>2, <1>3, <2>1, <2>3, WordAfterTypes
  <2> QED BY <2>2, <2>3
<1>4. ASSUME pc' # "ended", foreign <= 1, ByPart, NEW t \in held, Longer(t)
      PROVE  Caught(t)' \/ Missed(t)'
  <2>1. Caught(t) \/ Missed(t)
    BY <1>1, <1>4 DEF KeepInv
  <2>2. pc' = "snapshot"
    BY <1>1, <1>4
  <2>3. Grown' = Grown
    BY <1>1 DEF Grown
  <2>4. Caught(t) => Caught(t)'
    BY <1>1, <2>2 DEF Caught, Early, Planned
  <2>5. Missed(t) => Missed(t)'
    BY <1>1, <2>2, <2>3 DEF Missed, Early, Planned
  <2> QED BY <2>1, <2>4, <2>5
<1>5. ByPart' = ByPart /\ \A t : Longer(t)' = Longer(t)
  BY <1>1 DEF ByPart, Longer
<1> QED BY <1>1, <1>2, <1>3, <1>4, <1>5 DEF KeepInv, EditsKeepTyping

\* The snapshot holds what was typed, or the plan was made without it.
LEMMA SnapshotKeep == IInv /\ EditTypeInv /\ KeepInv /\ Snapshot => KeepInv'
<1> SUFFICES ASSUME IInv, EditTypeInv, KeepInv, Snapshot PROVE KeepInv'
  OBVIOUS
<1> DEFINE n == IF op[1] \in LineOps \cup {"set_text"} THEN Len(text) ELSE count
           s == Take(text, n)
<1>1. /\ pc = "snapshot" /\ UNCHANGED <<text, op, at, span, line, base, held, foreign>>
      /\ pc' \in {"ended", "mutate"} /\ previous' = s
      /\ pc' = "mutate" => /\ Len(s) = n /\ plan' = Plan(s, n)
                           /\ ~(op[1] = "delete_character" /\ AtBoundary(at, n))
      /\ outcome' \in {"refused", "unchanged", outcome}
  BY DEF Snapshot, End, field
<1>2. /\ outcome # "done" /\ text \in Seq(Char) /\ at \in Nat /\ count \in Nat /\ at <= count
      /\ op \in EditOps /\ span \in Nat \X Nat
  BY <1>1, FieldAssumption DEF IInv, EditTypeInv, TypeOK, FieldOK, Outcome, KeepInv
<1>3. Take(text, Len(text)) = text
  BY <1>2, WholeSnapshot
<1>4. ASSUME pc' # "ended", foreign <= 1, ByPart, NEW t \in held, Longer(t)
      PROVE  Caught(t)' \/ Missed(t)'
  <2>1. Caught(t) \/ Missed(t)
    BY <1>1, <1>4 DEF KeepInv
  <2>2. text = t /\ pc' = "mutate" /\ Grown' = Grown
    BY <1>1, <1>4, <2>1 DEF Caught, Missed, Early, Grown
  <2>3. CASE n = Len(t)
    <3>1. previous' = t
      BY <1>1, <1>3, <2>2, <2>3
    <3> QED BY <1>1, <2>2, <3>1 DEF Caught, Early, Planned
  <2>4. CASE n # Len(t)
    <3>1. n = count /\ op[1] \notin LineOps \cup {"set_text"}
      BY <2>2, <2>4
    <3>2. Missed(t) /\ count = Len(base.text) /\ op[1] \notin SelectionOps
      BY <1>1, <2>1, <2>2, <2>4, <3>1 DEF Caught, Missed
    <3>3. op[1] \in Counting \ {"delete_selection"}
      BY <1>4, <3>1, <3>2 DEF ByPart, LineOps, SelectionOps, Counting
    <3>4. op[1] = "delete_word" => span[1] < span[2] /\ span[2] <= n
      BY <1>1, <3>1 DEF KeepInv
    <3> HIDE DEF n, s
    <3>5. n \in Nat /\ at <= n /\ ~(op[1] = "delete_character" /\ AtBoundary(at, n))
      BY <1>1, <1>2, <2>2, <3>1
    <3>6. Fits(Plan(s, n), n)
      BY <1>2, <3>3, <3>4, <3>5, CountingFits
    <3>7. previous' = Take(t, Len(base.text))
      BY <1>1, <2>2, <3>1, <3>2 DEF s
    <3>8. Fits(plan', Len(base.text)) /\ UNCHANGED <<op, at, base, text>>
      BY <1>1, <2>2, <3>1, <3>2, <3>6
    <3>9. Fits(plan, Len(base.text))'
      BY <3>8 DEF Fits, Deletes, Inserts
    <3> QED BY <2>2, <3>2, <3>3, <3>7, <3>8, <3>9 DEF Missed, Early, Planned
  <2> QED BY <2>3, <2>4
<1>5. ByPart' = ByPart /\ \A t : Longer(t)' = Longer(t)
  BY <1>1 DEF ByPart, Longer
<1> QED BY <1>1, <1>2, <1>4, <1>5 DEF KeepInv, EditsKeepTyping

\* How long a splice is.
LEMMA SpliceLength ==
  ASSUME NEW t \in Seq(Char), NEW s \in Nat, NEW e \in Nat, s <= e, e <= Len(t),
         NEW new \in Seq(Char)
  PROVE  Len(Splice(t, s, e, new)) = Len(t) - (e - s) + Len(new)
BY SpliceTypes

\* Putting nothing in changes nothing.
LEMMA SpliceNothing ==
  ASSUME NEW t \in Seq(Char), NEW a \in 0..Len(t)
  PROVE  Splice(t, a, a, <<>>) = t
<1>1. a \in Nat /\ a <= a /\ a <= Len(t)
  OBVIOUS
<1>2. IsSlice(Char, Slice(t, a, a), t, a, a)
  BY <1>1, SliceElements
<1>3. Slice(t, a, a) \in Seq(Char) /\ Len(Slice(t, a, a)) = 0
  BY <1>1, <1>2 DEF IsSlice
<1>4. Slice(t, a, a) = <<>>
  BY <1>3
<1>5. Splice(t, a, a, Slice(t, a, a)) = t
  BY <1>1, SpliceBack
<1> QED BY <1>4, <1>5

\* A command that missed what was typed finds its result only where the dictated
\* text, cut short by the application, ends as what was typed.
LEMMA MissedMutate ==
  ASSUME EditTypeInv, KeepInv, ByPart, Missed(Grown), pc = "mutate",
         NEW how \in {"all", "short", "none"}, Apply(how), text' = Expected
  PROVE  /\ op[1] = "insert_at_caret" /\ Value[Len(Value)] = "t"
         /\ Expected = Splice(Grown, at, at, Take(Value, Len(Value) - 1))
<1> DEFINE b == base.text
           n == Len(b)
           V == plan.new
           m == Len(V)
           d == plan.to - plan.from
           short == IF how = "short" THEN 1 ELSE 0
           from == AtMost(plan.from, Len(text))
           end == AtMost(plan.to, Len(text))
           to == IF plan.new = <<>> /\ end > from THEN end - short ELSE end
           new == IF plan.new = <<>> THEN <<>> ELSE Take(plan.new, Len(plan.new) - short)
           g == Grown
<1>1. /\ b \in Seq(Char) /\ at \in 0..n /\ text = g /\ n \in Nat
      /\ V \in Seq(Char) /\ m \in Nat /\ plan.from \in Nat /\ plan.to \in Nat
      /\ Fits(plan, n)
      /\ previous = b \/ (op[1] \in Counting /\ previous = Take(g, n))
  <2>1. plan \in Plans /\ at \in Nat /\ base.text \in Seq(Char)
    BY DEF EditTypeInv, TypeOK, PlanTypes, Planned, KeepInv
  <2> QED BY <2>1 DEF Missed, Early, Planned, Plans
<1>2. g \in Seq(Char) /\ Len(g) = n + 1
  BY <1>1, GrownElements DEF Grown
<1>3. previous \in Seq(Char) /\ Len(previous) = n
  <2>1. n \in 0..Len(g)
    BY <1>1, <1>2
  <2> HIDE DEF n, g
  <2>2. Take(g, n) \in Seq(Char) /\ Len(Take(g, n)) = n
    BY <1>2, <2>1, CutElements
  <2> QED BY <1>1, <2>2 DEF n
<1>4. how = "none" => text' = g
  BY <1>1 DEF Apply, field
<1>5. how # "none" => text' = Splice(g, from, to, new)
  BY <1>1 DEF Apply
<1>6. plan.from <= plan.to /\ plan.to <= n
  BY <1>1 DEF Fits, Deletes, Inserts
<1>7. from = plan.from /\ end = plan.to
  BY <1>1, <1>2, <1>6 DEF AtMost
<1> HIDE DEF g, n, m, from, end
<1>8. Len(Expected) = n - d + m
  <2>1. /\ plan.from \in Nat /\ plan.to \in Nat /\ plan.from <= plan.to
        /\ plan.to <= Len(previous) /\ previous \in Seq(Char) /\ V \in Seq(Char) /\ Len(V) = m
    BY <1>1, <1>3, <1>6 DEF m
  <2> HIDE DEF V
  <2>2. Len(Splice(previous, plan.from, plan.to, V))
          = Len(previous) - (plan.to - plan.from) + Len(V)
    BY ZenonT(30), <2>1, SpliceLength
  <2>3. Len(Expected) = Len(previous) - (plan.to - plan.from) + Len(V)
    BY <2>2 DEF Expected, V
  <2> QED BY <1>3, <2>1, <2>3
<1>9. ~Deletes(plan, n)
  <2> SUFFICES ASSUME Deletes(plan, n) PROVE FALSE
    OBVIOUS
  <2>1. plan.from < plan.to /\ V = <<>> /\ m = 0 /\ new = <<>>
    BY DEF Deletes, m
  <2>2. to = plan.to - short
    BY <1>1, <1>7, <2>1
  <2>3. /\ plan.from \in Nat /\ to \in Nat /\ plan.from <= to /\ to <= Len(g)
        /\ <<>> \in Seq(Char) /\ Len(<<>>) = 0
    BY <1>1, <1>2, <1>6, <2>1, <2>2
  <2> HIDE DEF to, new
  <2>4. Len(Splice(g, plan.from, to, <<>>)) = Len(g) - (to - plan.from) + Len(<<>>)
    BY ZenonT(30), <1>2, <2>3, SpliceLength
  <2>5. how = "none" \/ text' = Splice(g, plan.from, to, <<>>)
    BY <1>5, <1>7, <2>1
  <2>6. Len(text') = n - d
    BY <1>1, <1>8, <2>1
  <2>7. how = "none" => Len(text') = n + 1
    BY <1>2, <1>4
  <2>8. how = "none" \/ Len(text') = n + 1 - (to - plan.from)
    <3>1. n \in Nat /\ plan.from \in Nat /\ to \in Nat /\ Len(g) = n + 1 /\ Len(<<>>) = 0
      BY <1>1, <1>2, <2>3
    <3>2. Len(g) - (to - plan.from) + 0 = n + 1 - (to - plan.from)
      BY <3>1
    <3> QED BY <2>4, <2>5, <3>1, <3>2
  <2> QED BY SMTT(30), <1>1, <1>6, <2>1, <2>2, <2>6, <2>7, <2>8
<1>10. /\ plan.from = plan.to /\ plan.from <= at /\ V # <<>>
       /\ IF op[1] = "insert_at_caret" THEN plan.from = at /\ V = Value
          ELSE op[1] \notin Counting /\ V[m] # "t"
  BY <1>1, <1>9 DEF Fits, Inserts, m
<1>11. m # 0 /\ m - 1 \in 0..m
  <2>1. m # 0
    BY <1>1, <1>10 DEF m
  <2> QED BY <1>1, <2>1
<1>12. Take(V, m - 1) \in Seq(Char) /\ Len(Take(V, m - 1)) = m - 1
  BY <1>1, <1>11, CutElements DEF m
<1> DEFINE a == plan.from
<1>13. a \in Nat /\ a <= a /\ a <= n + 1 /\ a \in 0..n + 1 /\ to = a /\ from = a
  BY <1>1, <1>6, <1>7, <1>10
<1>14. Len(Expected) = n + m
  BY <1>1, <1>8, <1>10
<1>15. text' = Splice(g, a, a, Take(V, m - 1))
  <2>1. CASE how = "none"
    <3>1. m = 1
      BY <1>1, <1>2, <1>4, <1>14, <2>1
    <3>2. Take(V, m - 1) = <<>>
      BY <1>12, <3>1
    <3>3. Splice(g, a, a, <<>>) = g
      BY <1>2, <1>13, SpliceNothing
    <3> HIDE DEF a
    <3> QED BY <1>4, <2>1, <3>2, <3>3
  <2>2. CASE how = "all"
    <3>1. new = Take(V, m)
      BY <1>1, <1>10, <2>2 DEF m
    <3>2. Take(V, m) = V
      BY <1>1, WholeSnapshot DEF m
    <3> HIDE DEF new, to, a
    <3>3. text' = Splice(g, a, a, V)
      BY <1>5, <1>13, <2>2, <3>1, <3>2
    <3>4. Len(Splice(g, a, a, V)) = Len(g) - (a - a) + Len(V)
      <4>1. a <= Len(g)
        BY <1>2, <1>13
      <4> HIDE DEF V
      <4> QED BY <1>1, <1>2, <1>13, <4>1, SpliceLength
    <3>5. Len(text') = n + 1 + m
      <4>1. Len(g) - (a - a) + Len(V) = n + 1 + m
        BY <1>1, <1>2, <1>13 DEF m
      <4> QED BY <3>3, <3>4, <4>1
    <3> QED BY <1>1, <1>14, <3>5
  <2>3. CASE how = "short"
    <3>1. new = Take(V, m - 1)
      BY <1>1, <1>10, <2>3 DEF m
    <3> HIDE DEF new, to, a
    <3> QED BY <1>5, <1>13, <2>3, <3>1
  <2> QED BY <2>1, <2>2, <2>3
<1>16. Expected = Splice(previous, a, a, V)
  BY <1>10 DEF Expected
<1>17. V[Len(V)] = "t"
  <2>1. Splice(previous, a, a, V) = Splice(Splice(b, at, at, <<"t">>), a, a, Take(V, Len(V) - 1))
    BY <1>15, <1>16 DEF g, Grown, m
  <2>2. a <= at /\ (a = at \/ previous = b) /\ V # <<>>
    BY <1>1, <1>10
  <2>3. at \in 0..Len(b) /\ Len(previous) = Len(b)
    BY <1>1, <1>3 DEF n
  <2> HIDE DEF a, V, b
  <2> QED BY <1>1, <1>3, <1>13, <2>1, <2>2, <2>3, LooksInserted
<1>18. op[1] = "insert_at_caret" /\ a = at /\ V = Value
  BY <1>10, <1>17 DEF m
<1> QED BY <1>15, <1>17, <1>18 DEF g, m

\* The editing call.
LEMMA MutateKeep == IInv /\ EditTypeInv /\ KeepInv /\ Mutate => KeepInv'
<1> SUFFICES ASSUME IInv, EditTypeInv, KeepInv, Mutate PROVE KeepInv'
  OBVIOUS
<1>1. /\ pc = "mutate" /\ UNCHANGED <<op, at, previous, plan, outcome, base, held, foreign>>
      /\ pc' \in {"restore", "verify", "caret"}
  BY DEF Mutate, reading
<1>2. outcome # "done" /\ Expected' = Expected /\ Grown' = Grown
  BY <1>1, FieldAssumption DEF IInv, Outcome, Expected, Grown
<1>3. PICK how \in {"all", "short", "none"} : Apply(how)
  BY DEF Mutate
<1>4. ASSUME foreign <= 1, ByPart, NEW t \in held, Longer(t)
      PROVE  Caught(t)' \/ Missed(t)'
  <2>1. Caught(t) \/ Missed(t)
    BY <1>1, <1>4 DEF KeepInv
  <2>2. Caught(t) => Caught(t)'
    BY <1>1 DEF Caught, Early, Planned
  <2>3. ASSUME Missed(t) PROVE Missed(t)'
    <3>1. text' = Expected => MadeTo(t)'
      <4> SUFFICES ASSUME text' = Expected PROVE MadeTo(t)'
        OBVIOUS
      <4>1. t = Grown
        BY <2>3 DEF Missed
      <4>2. Missed(Grown)
        BY <2>3, <4>1
      <4>3. /\ op[1] = "insert_at_caret" /\ Value[Len(Value)] = "t"
            /\ Expected = Splice(Grown, at, at, Take(Value, Len(Value) - 1))
        BY <1>1, <1>3, <1>4, <4>2, MissedMutate
      <4> QED BY <1>1, <4>1, <4>3 DEF MadeTo
    <3>2. Fits(plan, Len(base.text))' = Fits(plan, Len(base.text))
      BY <1>1 DEF Fits, Deletes, Inserts
    <3>3. Fits(plan, Len(base.text))
      BY <1>1, <2>3 DEF Missed, Planned
    <3>4. previous = base.text \/ (op[1] \in Counting /\ previous = Take(t, Len(base.text)))
      BY <1>1, <2>3 DEF Missed, Planned
    <3>5. t = Grown /\ at <= Len(base.text) /\ op[1] \notin SelectionOps
      BY <2>3 DEF Missed
    <3> QED BY <1>1, <1>2, <3>1, <3>2, <3>3, <3>4, <3>5 DEF Missed, Early
  <2> QED BY <2>1, <2>2, <2>3
<1>5. ByPart' = ByPart /\ \A t : Longer(t)' = Longer(t)
  BY <1>1 DEF ByPart, Longer
<1> QED BY <1>1, <1>2, <1>4, <1>5 DEF KeepInv, EditsKeepTyping

\* The calls after it.
LEMMA LaterKeep ==
  ASSUME IInv, EditTypeInv, KeepInv,
         SetCaret \/ Verify \/ Restore \/ Recheck \/ ReselectSpan
  PROVE  KeepInv'
<1>1. /\ UNCHANGED <<op, at, previous, plan, base, held, foreign>> /\ Planned /\ pc # "mutate"
      /\ pc' \in {"verify", "restore", "recheck", "reselect", "ended"}
  BY DEF SetCaret, Verify, Restore, Recheck, ReselectSpan, reading, Planned, End
<1>2. outcome # "done"
  BY <1>1, FieldAssumption DEF IInv, Outcome, Planned
<1>3. pc' = "verify" => pc = "caret" /\ UNCHANGED text
  BY DEF SetCaret, Verify, Restore, Recheck, ReselectSpan, End
<1>4. outcome' = "done" => pc = "verify" /\ text = Expected /\ UNCHANGED text
  <2>1. Verify => (outcome' = "done" => pc = "verify" /\ text = Expected /\ UNCHANGED text)
    BY <1>2 DEF Verify, Observed, field
  <2>2. SetCaret \/ Restore \/ Recheck \/ ReselectSpan => outcome' # "done"
    BY <1>2 DEF SetCaret, Restore, Recheck, ReselectSpan, End
  <2> QED BY <2>1, <2>2
<1>5. /\ Grown' = Grown /\ Expected' = Expected /\ ByPart' = ByPart
      /\ \A t : Longer(t)' = Longer(t) /\ (UNCHANGED text => MadeTo(t)' = MadeTo(t))
      /\ Fits(plan, Len(base.text))' = Fits(plan, Len(base.text))
  BY <1>1 DEF Grown, Expected, ByPart, Longer, MadeTo, Fits, Deletes, Inserts
<1>6. ~Early' /\ pc' \notin {"scan", "snapshot", "meta"}
  BY <1>1 DEF Early
<1>7. ASSUME NEW t PROVE Caught(t) => Caught(t)'
  BY <1>1, <1>6 DEF Caught
<1>8. ASSUME NEW t PROVE Missed(t) => Missed(t)'
  <2> SUFFICES ASSUME Missed(t) PROVE Missed(t)'
    OBVIOUS
  <2>1. pc' \in {"caret", "verify"} /\ text' = Expected' => MadeTo(t)'
    BY <1>1, <1>3, <1>5 DEF Missed
  <2>2. /\ Fits(plan, Len(base.text))
        /\ previous = base.text \/ (op[1] \in Counting /\ previous = Take(t, Len(base.text)))
        /\ t = Grown /\ at <= Len(base.text) /\ op[1] \notin SelectionOps
    BY <1>1 DEF Missed
  <2> QED BY <1>1, <1>5, <1>6, <2>1, <2>2 DEF Missed
<1>9. ASSUME foreign <= 1, ByPart, NEW t \in held, Longer(t) PROVE Caught(t) \/ Missed(t)
  BY <1>1, <1>9 DEF KeepInv, Planned
<1>10. EditsKeepTyping'
  <2> SUFFICES ASSUME outcome' = "done", foreign <= 1, ByPart, NEW t \in held,
                      Len(t) > Len(base.text)
               PROVE  MadeTo(t)'
    BY <1>1, <1>5 DEF EditsKeepTyping
  <2>1. Caught(t) \/ Missed(t)
    BY <1>9 DEF Longer
  <2>2. CASE Caught(t)
    <3>1. previous = t
      BY <1>1, <2>2 DEF Caught
    <3> QED BY <1>4, <1>5, <3>1 DEF MadeTo, Expected
  <2>3. CASE Missed(t)
    BY <1>4, <1>5, <2>3 DEF Missed
  <2> QED BY <2>1, <2>2, <2>3
<1> QED BY <1>1, <1>5, <1>6, <1>7, <1>8, <1>9, <1>10 DEF KeepInv

\* Only typing at the caret makes the field longer, and by one character.
LEMMA TypedGrowth ==
  ASSUME IInv, EditTypeInv, KeepInv, Foreign, foreign = 0, Early
  PROVE  \/ Len(text') <= Len(base.text)
         \/ /\ text' = Splice(base.text, base.caret, base.caret, <<"t">>)
            /\ op[1] \notin SelectionOps
<1> DEFINE n == Len(text)
           r == base.sels[1]
<1>1. /\ text = base.text /\ caret = base.caret /\ sels = base.sels
      /\ op[1] \in SelectionOps => sels[1] = r /\ sels # <<>>
      /\ op[1] \notin SelectionOps => sels = <<>>
  BY DEF IInv, UntouchedInv, BaseInv, Early
<1>2. text \in Seq(Char) /\ n \in Nat /\ caret \in 0..n /\ FieldOK
  BY DEF EditTypeInv, TypeOK, FieldOK
<1>3. op[1] \in SelectionOps => r[1] \in Nat /\ r[2] \in Nat /\ r[1] < r[2] /\ r[2] <= n
  <2> SUFFICES ASSUME op[1] \in SelectionOps
               PROVE  r[1] \in Nat /\ r[2] \in Nat /\ r[1] < r[2] /\ r[2] <= n
    OBVIOUS
  <2>1. sels \in Seq(Nat \X Nat) /\ sels # <<>> /\ 1 \in DOMAIN sels
    BY <1>1, <1>2 DEF FieldOK
  <2>2. sels[1] \in Nat \X Nat /\ sels[1][2] <= Len(text)
    BY <1>2, <2>1 DEF FieldOK
  <2> QED BY <1>1, <2>2 DEF KeepInv
<1>4. /\ <<"t">> \in Seq(Char) /\ Len(<<"t">>) = 1 /\ <<>> \in Seq(Char) /\ Len(<<>>) = 0
  BY DEF Char, WordChar
<1>5. ASSUME NEW s \in Nat, NEW e \in Nat, s <= e, e <= n, NEW new \in Seq(Char),
             Typed(s, e, new), Len(new) <= e - s
      PROVE  Len(text') <= n
  <2>1. text' = Splice(text, s, e, new) /\ Len(new) \in Nat
    BY <1>5 DEF Typed
  <2>2. Len(Splice(text, s, e, new)) = n - (e - s) + Len(new)
    BY <1>2, <1>5, SpliceTypes
  <2>3. Len(text') = n - (e - s) + Len(new)
    BY <2>1, <2>2
  <2> HIDE DEF n
  <2> QED BY <1>2, <1>5, <2>1, <2>3
<1>6. CASE Typed(TypesAt[1], TypesAt[2], <<"t">>)
  <2>1. CASE op[1] \in SelectionOps
    <3>1. TypesAt = r
      BY <1>1, <2>1 DEF TypesAt
    <3>2. Len(<<"t">>) <= r[2] - r[1] /\ r[1] <= r[2]
      BY <1>3, <1>4, <2>1
    <3>3. Typed(r[1], r[2], <<"t">>)
      BY <1>6, <3>1
    <3> HIDE DEF n, r
    <3>4. Len(text') <= n
      BY <1>3, <1>4, <1>5, <2>1, <3>2, <3>3
    <3> QED BY <1>1, <3>4 DEF n
  <2>2. CASE op[1] \notin SelectionOps
    <3>1. TypesAt = <<caret, caret>>
      BY <1>1, <2>2 DEF TypesAt
    <3>2. text' = Splice(base.text, base.caret, base.caret, <<"t">>)
      BY <1>1, <1>6, <3>1 DEF Typed
    <3> QED BY <2>2, <3>2
  <2> QED BY <2>1, <2>2
<1>7. CASE caret > 0 /\ Typed(caret - 1, caret, <<>>)
  <2>1. caret - 1 \in Nat /\ caret \in Nat /\ caret - 1 <= caret /\ caret <= n
        /\ Len(<<>>) <= caret - (caret - 1)
    BY <1>2, <1>4, <1>7
  <2> HIDE DEF n
  <2>2. Len(text') <= n
    BY <1>4, <1>5, <1>7, <2>1
  <2> QED BY <1>1, <2>2 DEF n
<1>8. CASE sels # <<>> /\ Typed(sels[1][1], sels[1][2], <<>>)
  <2>1. op[1] \in SelectionOps /\ Typed(r[1], r[2], <<>>)
    BY <1>1, <1>8
  <2>2. Len(<<>>) <= r[2] - r[1] /\ r[1] <= r[2]
    BY <1>3, <1>4, <2>1
  <2> HIDE DEF n, r
  <2>3. Len(text') <= n
    BY <1>3, <1>4, <1>5, <2>1, <2>2
  <2> QED BY <1>1, <2>3 DEF n
<1>9. CASE Typed(0, 0, <<>>)
  <2>1. 0 \in Nat /\ 0 <= 0 /\ 0 <= n /\ Len(<<>>) <= 0 - 0
    BY <1>2, <1>4
  <2> HIDE DEF n
  <2>2. Len(text') <= n
    BY <1>4, <1>5, <1>9, <2>1
  <2> QED BY <1>1, <2>2 DEF n
<1> QED BY <1>6, <1>7, <1>8, <1>9 DEF Foreign

\* The user goes on typing: the command will read it, or it is too late.
LEMMA ForeignKeep == IInv /\ EditTypeInv /\ ExactInv /\ KeepInv /\ Foreign => KeepInv'
<1> SUFFICES ASSUME IInv, EditTypeInv, ExactInv, KeepInv, Foreign PROVE KeepInv'
  OBVIOUS
<1>1. /\ UNCHANGED <<op, at, count, span, previous, plan, pc, outcome, base>>
      /\ pc # "ended" /\ foreign' = foreign + 1 /\ foreign \in Nat
      /\ held' = IF Early THEN held \cup {text'} ELSE held
  BY DEF Foreign, Typed, reading, IInv, Early
<1>2. outcome # "done"
  BY <1>1, FieldAssumption DEF IInv, Outcome
<1>3. foreign' # 0 /\ (foreign' <= 1 => foreign = 0)
  BY <1>1
<1>4. ByPart' = ByPart /\ (\A t : Longer(t)' = Longer(t)) /\ Early' = Early /\ Grown' = Grown
      /\ Fits(plan, Len(base.text))' = Fits(plan, Len(base.text))
  BY <1>1 DEF ByPart, Longer, Early, Grown, Fits, Deletes, Inserts
<1>5. ASSUME foreign = 0, ByPart, NEW t \in held', Longer(t)
      PROVE  Caught(t)' \/ Missed(t)'
  <2>1. base.text \in Seq(Char) /\ Len(base.text) \in Nat /\ held = {base.text}
    BY <1>5 DEF KeepInv
  <2>2. Early /\ t = text'
    BY <1>1, <1>5, <2>1 DEF Longer
  <2>3. t = Splice(base.text, base.caret, base.caret, <<"t">>) /\ op[1] \notin SelectionOps
    <3>1. ~(Len(text') <= Len(base.text))
      <4>1. text' \in Seq(Char) /\ Len(text') \in Nat
        BY NextTypes DEF EditNext, EditTypeInv, TypeOK, FieldOK
      <4> QED BY <1>5, <2>1, <2>2, <4>1 DEF Longer
    <3> QED BY <1>5, <2>2, <3>1, TypedGrowth
  <2>4. CASE pc = "meta"
    BY <1>1, <2>2, <2>4 DEF Caught, Early, Planned
  <2>5. CASE pc \in {"scan", "snapshot"}
    <3>1. at = base.caret /\ count = Len(base.text)
      BY <1>5, <2>5 DEF IInv, MemoryInv
    <3>2. at <= Len(base.text)
      BY <2>5, <3>1 DEF KeepInv
    <3>3. t = Grown
      BY <2>3, <3>1 DEF Grown
    <3> QED BY <1>1, <1>4, <2>2, <2>3, <2>5, <3>1, <3>2, <3>3 DEF Missed, Planned
  <2>6. CASE pc = "mutate"
    <3>1. Fits(plan, Len(base.text)) /\ previous = base.text /\ at \in 0..Len(base.text)
      BY <1>5, <2>3, <2>6, PlanFits
    <3>2. at = base.caret
      BY <1>5, <2>6 DEF IInv, MemoryInv
    <3>3. t = Grown /\ at <= Len(base.text)
      BY <2>1, <2>3, <3>1, <3>2 DEF Grown
    <3> QED BY <1>1, <1>4, <2>2, <2>3, <2>6, <3>1, <3>3 DEF Missed
  <2> QED BY <2>2, <2>4, <2>5, <2>6 DEF Early
<1> QED BY <1>1, <1>2, <1>3, <1>4, <1>5 DEF KeepInv, EditsKeepTyping

\* Every step keeps what the user typed.
LEMMA NextKeep == IInv /\ EditTypeInv /\ ExactInv /\ KeepInv /\ [EditNext]_vars => KeepInv'
<1> SUFFICES ASSUME IInv, EditTypeInv, ExactInv, KeepInv, [EditNext]_vars PROVE KeepInv'
  OBVIOUS
<1>1. CASE ReadFails
  <2>1. /\ UNCHANGED <<op, at, text, base, held, foreign>>
        /\ pc' = "ended" /\ outcome' = "refused"
    BY <1>1 DEF ReadFails, End, field, reading
  <2> QED BY <2>1 DEF KeepInv, EditsKeepTyping
<1>2. CASE UNCHANGED vars
  <2>1. UNCHANGED <<op, at, count, span, previous, plan, text, pc, outcome, base, held, foreign>>
    BY <1>2 DEF vars, field, reading
  <2>2. /\ Grown' = Grown /\ Expected' = Expected /\ Planned' = Planned /\ Early' = Early
        /\ ByPart' = ByPart /\ \A t : MadeTo(t)' = MadeTo(t) /\ Longer(t)' = Longer(t)
        /\ Fits(plan, Len(base.text))' = Fits(plan, Len(base.text))
    BY <2>1 DEF Grown, Expected, Planned, Early, ByPart, MadeTo, Longer, Fits, Deletes, Inserts
  <2>3. \A t : Caught(t)' = Caught(t)
    BY <2>1, <2>2 DEF Caught
  <2>4. \A t : Missed(t)' = Missed(t)
    BY <2>1, <2>2 DEF Missed
  <2>5. EditsKeepTyping' = EditsKeepTyping
    BY <2>1, <2>2 DEF EditsKeepTyping
  <2> QED BY <2>1, <2>2, <2>3, <2>4, <2>5 DEF KeepInv
<1> QED BY <1>1, <1>2, MetaKeep, ScanKeep, SnapshotKeep, MutateKeep, LaterKeep, ForeignKeep
        DEF EditNext, EditStep

\* A command that changes part of the field loses no keystroke: what the user typed
\* before the editing call is in the confirmed result, wherever the command was.
THEOREM EditsKeepWhatIsTyped == EditSpec => []EditsKeepTyping
<1>1. EditInit => KeepInv
  BY InitKeep
<1>2. IInv /\ EditTypeInv /\ ExactInv /\ KeepInv /\ [EditNext]_vars => KeepInv'
  BY NextKeep
<1>3. KeepInv => EditsKeepTyping
  BY DEF KeepInv
<1> QED BY <1>1, <1>2, <1>3, AlwaysExact, PTL DEF EditSpec
=============================================================================
