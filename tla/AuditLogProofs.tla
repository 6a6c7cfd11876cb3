---------------------------- MODULE AuditLogProofs ----------------------------
(***************************************************************************)
(* Proofs about AuditLog, for any number of appends, failures and crashes. *)
(*                                                                         *)
(* verify() looks at the file only.  IInv ties the file to what the broker *)
(* has acknowledged and to the digest it holds in memory.                  *)
(***************************************************************************)
EXTENDS AuditLog, TLAPS

\* What append() acknowledged has been put into the file.
AckedInFile == \A a \in acked : \E i \in 1..Len(file) : file[i].id = a

\* The file begins with whole lines that continue one another.
ChainInv == \A i \in 1..intact : file[i].shape = "line" /\ Chained(file, i)

\* While nothing is damaged, a broker holds the digest of the last line.
TailInv == intact = Len(file) /\ up => previous = TailHash

IInv == TypeOK /\ AckedInFile /\ ChainInv /\ TailInv

-----------------------------------------------------------------------------
(* Lemmas about the file. *)

\* What Append does to the file.
LEMMA Appended ==
  ASSUME NEW f \in Seq(Chunk), NEW e \in Chunk
  PROVE  /\ Append(f, e) \in Seq(Chunk)
         /\ Len(Append(f, e)) = Len(f) + 1
         /\ Append(f, e)[Len(f) + 1] = e
         /\ \A i \in 1..Len(f) : Append(f, e)[i] = f[i]
  OBVIOUS

\* Every entry that is written is a chunk.
LEMMA EntryTyped ==
  ASSUME TypeOK, NEW shape \in Shape
  PROVE  /\ Entry(shape) \in Chunk
         /\ Entry(shape).id = count + 1 /\ Entry(shape).prev = previous
         /\ Entry(shape).shape = shape
  BY DEF TypeOK, Entry, Chunk

\* An entry at the end of the file disturbs nothing that is in it.
LEMMA AppendKeeps ==
  ASSUME TypeOK, NEW e \in Chunk, file' = Append(file, e)
  PROVE  /\ file' \in Seq(Chunk) /\ Len(file') = Len(file) + 1
         /\ file'[Len(file')] = e
         /\ \A i \in 1..Len(file) : file'[i] = file[i]
         /\ \A i \in 1..Len(file) : Chained(file, i) => Chained(file', i)
  BY Appended DEF TypeOK, Chained

\* A whole line that continues an undamaged file.
LEMMA LineContinues ==
  ASSUME IInv, up, intact = Len(file), NEW e \in Chunk, e.shape = "line",
         e.prev = previous, file' = Append(file, e)
  PROVE  /\ file'[Len(file')].shape = "line" /\ Chained(file', Len(file'))
         /\ TailHash' = e.id
<1>1. Len(file) \in Nat /\ (file = <<>> <=> Len(file) = 0)
  BY DEF IInv, TypeOK
<1>2. file' # <<>> /\ Len(file') = Len(file) + 1 /\ file'[Len(file')] = e
      /\ \A i \in 1..Len(file) : file'[i] = file[i]
  BY <1>1, AppendKeeps DEF IInv
<1>3. previous = IF Len(file') = 1 THEN 0 ELSE file'[Len(file') - 1].id
  BY <1>1, <1>2 DEF IInv, TailInv, TailHash
<1> QED BY <1>2, <1>3 DEF Chained, TailHash

-----------------------------------------------------------------------------
(* IInv is inductive. *)

\* An empty log.
LEMMA InitIInv == Init => IInv
  BY DEF Init, IInv, TypeOK, AckedInFile, ChainInv, TailInv, TailHash, Chunk

\* An entry is written.  It extends the undamaged part only as a whole line, and a
\* broker that then still runs holds its digest.
LEMMA WriteIInv ==
  ASSUME IInv, up, NEW shape \in Shape, file' = Append(file, Entry(shape)),
         count' = count + 1, intact' \in {intact, intact + 1},
         previous' \in {count + 1, previous},
         intact' # intact => /\ intact = Len(file) /\ shape = "line"
                             /\ previous' = count + 1 \/ ~up',
         acked' = acked \/ acked' = acked \cup {count + 1},
         up' \in BOOLEAN, faults' \in Nat
  PROVE  IInv'
<1> DEFINE e == Entry(shape)
<1>1. /\ e \in Chunk /\ e.id = count + 1 /\ e.prev = previous /\ e.shape = shape
  BY EntryTyped DEF IInv
<1> HIDE DEF e
<1>2. /\ file' \in Seq(Chunk) /\ Len(file') = Len(file) + 1 /\ file'[Len(file')] = e
      /\ \A i \in 1..Len(file) : file'[i] = file[i]
      /\ \A i \in 1..Len(file) : Chained(file, i) => Chained(file', i)
  BY <1>1, AppendKeeps DEF IInv, e
<1>3. Len(file) \in Nat /\ intact \in 0..Len(file) /\ count \in Nat /\ previous \in Nat
      /\ acked \subseteq 1..count
  BY DEF IInv, TypeOK
<1>4. TypeOK'
  <2>1. intact' \in 0..Len(file')
    BY <1>2, <1>3
  <2>2. \A a \in acked' : a \in 1..count'
    <3>1. SUFFICES ASSUME NEW a \in acked' PROVE a \in 1..count'
      OBVIOUS
    <3>2. a \in 1..count \/ a = count + 1
      BY <1>3, <3>1
    <3> QED BY <1>3, <3>2
  <2>3. previous' \in Nat /\ count' \in Nat
    BY <1>3
  <2> QED BY <1>2, <2>1, <2>2, <2>3 DEF TypeOK
<1>5. AckedInFile'
  <2>1. ASSUME NEW a \in acked' PROVE \E i \in 1..Len(file') : file'[i].id = a
    <3>1. CASE a = count + 1
      BY <1>1, <1>2, <1>3, <3>1
    <3>2. CASE a \in acked
      <4>1. PICK i \in 1..Len(file) : file[i].id = a
        BY <3>2 DEF IInv, AckedInFile
      <4> QED BY <1>2, <1>3, <4>1
    <3> QED BY <2>1, <3>1, <3>2
  <2> QED BY <2>1 DEF AckedInFile
<1>6. ASSUME intact' # intact
      PROVE  file'[Len(file')].shape = "line" /\ Chained(file', Len(file')) /\ TailHash' = e.id
  BY <1>1, <1>6, LineContinues DEF e
<1>7. ChainInv'
  <2>1. ASSUME NEW i \in 1..intact' PROVE file'[i].shape = "line" /\ Chained(file', i)
    <3>1. CASE i \in 1..intact
      BY <1>2, <1>3, <3>1 DEF IInv, ChainInv
    <3>2. CASE i \notin 1..intact
      <4>1. intact' # intact /\ i = Len(file')
        BY <1>2, <1>3, <2>1, <3>2
      <4> QED BY <1>6, <4>1
    <3> QED BY <3>1, <3>2
  <2> QED BY <2>1 DEF ChainInv
<1>8. TailInv'
  <2>1. SUFFICES ASSUME intact' = Len(file'), up' PROVE previous' = TailHash'
    BY DEF TailInv
  <2>2. intact' # intact
    BY <1>2, <1>3, <2>1
  <2> QED BY <1>1, <1>6, <2>1, <2>2, <1>3
<1> QED BY <1>4, <1>5, <1>7, <1>8 DEF IInv

\* A step that writes nothing; a broker that starts takes up the last line's digest.
LEMMA SilentIInv ==
  ASSUME IInv, UNCHANGED <<file, acked, intact>>, count' \in {count, count + 1},
         up' \in BOOLEAN, faults' \in Nat, previous' \in Nat,
         up' => (up /\ previous' = previous) \/ previous' = TailHash
  PROVE  IInv'
<1>1. TypeOK'
  BY DEF IInv, TypeOK
<1>2. AckedInFile' /\ ChainInv'
  BY DEF IInv, AckedInFile, ChainInv, Chained
<1>3. TailInv'
  BY DEF IInv, TailInv, TailHash
<1> QED BY <1>1, <1>2, <1>3 DEF IInv

\* Every step keeps the invariant.
LEMMA NextIInv == IInv /\ [Next]_vars => IInv'
<1> SUFFICES ASSUME IInv, [Next]_vars PROVE IInv'
  OBVIOUS
<1>0. /\ count \in Nat /\ faults \in Nat /\ previous \in Nat /\ up \in BOOLEAN
      /\ Len(file) \in Nat
  BY DEF IInv, TypeOK
<1>1. CASE AppendEntry
  <2>1. PICK shape \in {"line", "split"} : file' = Append(file, Entry(shape))
    BY <1>1 DEF AppendEntry
  <2>2. Entry(shape) \in Chunk /\ Entry(shape).shape = shape
    BY <2>1, EntryTyped DEF IInv, Shape
  <2>3. file'[Len(file')].shape = shape
    BY <2>1, <2>2, AppendKeeps DEF IInv
  <2>4. intact' = IF intact = Len(file) /\ shape = "line" THEN intact + 1 ELSE intact
    BY <1>1, <2>3 DEF AppendEntry
  <2>5. shape \in Shape
    BY <2>1 DEF Shape
  <2>6. intact' \in {intact, intact + 1}
        /\ (intact' # intact => intact = Len(file) /\ shape = "line")
    BY <2>4
  <2> QED BY <1>0, <1>1, <2>1, <2>5, <2>6, WriteIInv DEF AppendEntry
<1>2. CASE AppendFails
  <2>1. CASE file' = file
    BY <1>0, <1>2, <2>1, SilentIInv DEF AppendFails
  <2>2. CASE file' # file
    <3>1. PICK shape \in Torn : file' = Append(file, Entry(shape))
      BY <1>2, <2>2 DEF AppendFails
    <3>2. shape \in Shape
      BY <3>1 DEF Torn, Shape
    <3> QED BY <1>0, <1>2, <3>1, <3>2, WriteIInv DEF AppendFails
  <2> QED BY <2>1, <2>2
<1>3. CASE Crash
  <2>1. CASE UNCHANGED <<file, count, intact>>
    <3>1. up' = FALSE /\ faults' = faults + 1 /\ UNCHANGED <<previous, acked>>
      BY <1>3 DEF Crash
    <3>2. ~up' /\ up' \in BOOLEAN
      BY <3>1
    <3>3. count' \in {count, count + 1} /\ faults' \in Nat /\ previous' \in Nat
          /\ UNCHANGED <<file, acked, intact>>
      BY <1>0, <2>1, <3>1
    <3> QED BY <3>2, <3>3, SilentIInv
  <2>2. CASE ~UNCHANGED <<file, count, intact>>
    <3>1. PICK shape \in Torn :
            /\ file' = Append(file, Entry(shape))
            /\ intact' = IF intact = Len(file) /\ shape = "line" THEN intact + 1 ELSE intact
      BY <1>3, <2>2 DEF Crash
    <3>2. shape \in Shape
      BY <3>1 DEF Torn, Shape
    <3>3. intact' \in {intact, intact + 1}
          /\ (intact' # intact => intact = Len(file) /\ shape = "line")
      BY <3>1
    <3>4. count' = count + 1 /\ UNCHANGED <<previous, acked>> /\ ~up' /\ faults' = faults + 1
          /\ up' \in BOOLEAN
      BY <1>3, <2>2 DEF Crash
    <3> QED BY <1>0, <1>3, <3>1, <3>2, <3>3, <3>4, WriteIInv DEF Crash
  <2> QED BY <2>1, <2>2
<1>4. CASE Restart
  <2>1. TailHash \in Nat
    <3>1. file # <<>> => file[Len(file)] \in Chunk
      BY <1>0 DEF IInv, TypeOK
    <3> QED BY <3>1 DEF TailHash, Chunk
  <2> QED BY <1>0, <1>4, <2>1, SilentIInv DEF Restart
<1>5. CASE UNCHANGED vars
  BY <1>5 DEF vars, IInv, TypeOK, AckedInFile, ChainInv, Chained, TailInv, TailHash
<1> QED BY <1>1, <1>2, <1>3, <1>4, <1>5 DEF Next

-----------------------------------------------------------------------------
(* The properties. *)

\* The invariant holds, whatever fails.
THEOREM InvariantHolds == Spec => []IInv
  BY InitIInv, NextIInv, PTL DEF Spec

\* Every variable keeps its type.
THEOREM TypeCorrect == Spec => []TypeOK
<1>1. IInv => TypeOK BY DEF IInv
<1> QED BY <1>1, InvariantHolds, PTL

\* A log that verifies holds every acknowledged entry.
THEOREM VerifiedLogsAreComplete == Spec => []VerifiedIsComplete
<1>1. IInv => VerifiedIsComplete
  BY DEF IInv, AckedInFile, VerifiedIsComplete, Verify
<1> QED BY <1>1, InvariantHolds, PTL

\* Damage never reaches back to what was written before it.
THEOREM PrefixVerifies == Spec => []GoodPrefix
<1>1. IInv => GoodPrefix
  <2> SUFFICES ASSUME IInv PROVE Verify(SubSeq(file, 1, intact))
    BY DEF GoodPrefix
  <2> DEFINE f == SubSeq(file, 1, intact)
  <2>1. file \in Seq(Chunk) /\ Len(file) \in Nat /\ intact \in 0..Len(file)
    BY DEF IInv, TypeOK
  <2>2. Len(f) = intact /\ \A i \in 1..intact : f[i] = file[i]
    BY <2>1
  <2> HIDE DEF f
  <2>3. ASSUME NEW i \in 1..Len(f)
        PROVE  f[i].shape = "line" /\ Chained(f, i)
    <3>1. i \in 1..intact /\ f[i] = file[i]
      BY <2>1, <2>2, <2>3
    <3>2. i # 1 => f[i - 1] = file[i - 1]
      <4>1. i # 1 => i - 1 \in 1..intact
        BY <2>1, <3>1
      <4> QED BY <2>2, <4>1
    <3>3. file[i].shape = "line" /\ Chained(file, i)
      BY <3>1 DEF IInv, ChainInv
    <3> QED BY <3>1, <3>2, <3>3 DEF Chained
  <2>4. \A i \in 1..Len(f) : Readable(f, i)
    BY <2>1, <2>2, <2>3 DEF Readable, Fresh
  <2> QED BY <2>3, <2>4 DEF Verify, f
<1> QED BY <1>1, InvariantHolds, PTL

\* Without damage the log can be taken up again, and its chain goes on.
THEOREM UndamagedLogSurvives == Spec => []CleanLogSurvives
<1>1. IInv => CleanLogSurvives
  <2> SUFFICES ASSUME IInv, intact = Len(file), file # <<>> PROVE Readable(file, Len(file))
    BY DEF IInv, TailInv, CleanLogSurvives, TailLoads
  <2>1. Len(file) \in Nat \ {0}
    BY DEF IInv, TypeOK
  <2>2. \A i \in 1..Len(file) : file[i].shape = "line"
    BY DEF IInv, ChainInv
  <2> QED BY <2>1, <2>2 DEF Readable, Fresh
<1> QED BY <1>1, InvariantHolds, PTL
=============================================================================
