------------------------------ MODULE AuditLog ------------------------------
(***************************************************************************)
(* The hash-chained log of src/clausis/audit.py under failed writes,       *)
(* crashes and restarts of the action broker.                              *)
(*                                                                         *)
(* The file is the sequence of what the appends left in it.  A chunk is    *)
(* one entry's JSON text, or part of it; its digest is the number of the   *)
(* append that produced it.  HMACs are perfect and nobody tampers.         *)
(***************************************************************************)
EXTENDS Naturals, Sequences

CONSTANTS
  LineBreaks, \* TRUE: an entry may hold a Unicode line separator (U+0085, U+2028, U+2029)
  MaxAppends, \* bound on the number of appends
  MaxFaults   \* bound on failed writes and crashes

ASSUME AuditAssumption ==
  LineBreaks \in BOOLEAN /\ MaxAppends \in Nat /\ MaxFaults \in Nat

VARIABLES
  file,     \* the chunks in the log file, oldest first
  previous, \* AuditLog._previous: digest of the last append that returned; 0 is "0" * 64
  up,       \* whether a broker process holds the log
  count,    \* appends so far; the next one has digest count + 1
  acked,    \* digests append() has returned
  intact,   \* history: length of the file before the first damaged append
  faults    \* failed writes and crashes so far

vars == <<file, previous, up, count, acked, intact, faults>>

\* How much of an entry is in the file.
\*  line   the whole entry and its newline
\*  open   the whole entry, without the newline
\*  part   a truncated entry, without a newline
\*  cut    a truncated entry that ends inside a UTF-8 sequence: read_text() raises
\*  split  the whole entry and its newline, with a line separator inside a string:
\*         ensure_ascii=False writes it raw and splitlines() breaks the line there
Shape == {"line", "open", "part", "cut", "split"}

\* What a write that did not finish may leave.
Torn == {"line", "open", "part", "cut"}

Chunk == [id : Nat, prev : Nat, shape : Shape]

Init ==
  /\ file = <<>> /\ previous = 0 /\ up = TRUE /\ count = 0
  /\ acked = {} /\ intact = 0 /\ faults = 0

-----------------------------------------------------------------------------
(* Reading the file back. *)

\* Chunk i starts a line of its own.
Fresh(f, i) == i > 1 => f[i - 1].shape \in {"line", "split"}

\* json.loads accepts the line that chunk i is on.
Readable(f, i) ==
  /\ \A j \in 1..Len(f) : f[j].shape # "cut"
  /\ Fresh(f, i)
  /\ f[i].shape = "line" \/ (f[i].shape = "open" /\ i = Len(f))

\* The entry at i continues the chain.
Chained(f, i) == f[i].prev = IF i = 1 THEN 0 ELSE f[i - 1].id

\* Mutant: lines that cannot be read are passed over.
VerifySkipping(f) == \A i \in 1..Len(f) : Readable(f, i) => Chained(f, i)

\* verify(): FALSE also stands for the exceptions of an unreadable line or file.
Verify(f) == \A i \in 1..Len(f) : Readable(f, i) /\ Chained(f, i)

\* _load_tail_hash does not raise.
TailLoads == file # <<>> => Readable(file, Len(file))
TailHash == IF file = <<>> THEN 0 ELSE file[Len(file)].id

-----------------------------------------------------------------------------
(* Appending. *)

Entry(shape) == [id |-> count + 1, prev |-> previous, shape |-> shape]

\* append() returns: the line is written, and only then becomes "previous".
AppendEntry ==
  /\ up /\ count < MaxAppends
  /\ \E shape \in {"line"} \cup (IF LineBreaks THEN {"split"} ELSE {}) :
       file' = Append(file, Entry(shape))
  /\ previous' = count + 1
  /\ count' = count + 1
  /\ acked' = acked \cup {count + 1}
  /\ intact' = IF intact = Len(file) /\ file'[Len(file')].shape = "line"
               THEN intact + 1 ELSE intact
  /\ UNCHANGED <<up, faults>>

\* Mutant: the chain advances before the write, and stays advanced if it fails.
AppendFailsAdvancing ==
  /\ up /\ count < MaxAppends /\ faults < MaxFaults
  /\ file' = file /\ previous' = count + 1
  /\ count' = count + 1 /\ faults' = faults + 1
  /\ UNCHANGED <<up, acked, intact>>

\* The write or the close raises OSError (full disk, I/O error): nothing, a part,
\* or all of the text may be in the file, _previous stays what it was, and the
\* broker keeps running.
AppendFails ==
  /\ up /\ count < MaxAppends /\ faults < MaxFaults
  /\ \/ file' = file
     \/ \E shape \in Torn : file' = Append(file, Entry(shape))
  /\ count' = count + 1 /\ faults' = faults + 1
  /\ UNCHANGED <<previous, up, acked, intact>>

\* The broker dies, between two appends or inside one.
Crash ==
  /\ up /\ faults < MaxFaults
  /\ up' = FALSE /\ faults' = faults + 1
  /\ \/ UNCHANGED <<file, count, intact>>
     \/ /\ count < MaxAppends
        /\ count' = count + 1
        /\ \E shape \in Torn :
             /\ file' = Append(file, Entry(shape))
             /\ intact' = IF intact = Len(file) /\ shape = "line" THEN intact + 1 ELSE intact
  /\ UNCHANGED <<previous, acked>>

\* Mutant: a restarted broker starts a new chain.
RestartFromZero ==
  /\ ~up /\ TailLoads
  /\ up' = TRUE /\ previous' = 0
  /\ UNCHANGED <<file, count, acked, intact, faults>>

\* AuditLog.__init__ takes up the chain from the last line; it raises, and the
\* broker does not start, when that line cannot be read.
Restart ==
  /\ ~up /\ TailLoads
  /\ up' = TRUE
  /\ previous' = TailHash
  /\ UNCHANGED <<file, count, acked, intact, faults>>

Next == AppendEntry \/ AppendFails \/ Crash \/ Restart

Spec == Init /\ [][Next]_vars

-----------------------------------------------------------------------------
(* Properties. *)

\* Every variable keeps its type.
TypeOK ==
  /\ file \in Seq(Chunk) /\ previous \in Nat /\ up \in BOOLEAN /\ count \in Nat
  /\ acked \subseteq 1..count /\ intact \in 0..Len(file) /\ faults \in Nat

\* A log that verifies holds every entry append() returned a digest for: verify()
\* never passes over an entry glued to the rest of a failed one, or lost with a
\* restart.
VerifiedIsComplete == Verify(file) =>
  \A a \in acked : \E i \in 1..Len(file) : Readable(file, i) /\ file[i].id = a

\* Damage never reaches back: what was written before the first damaged append
\* verifies on its own, whatever is glued to the file after it, and also across
\* crashes and restarts.
GoodPrefix == Verify(SubSeq(file, 1, intact))

\* A log without damage can be taken up again: failed writes that left nothing and
\* crashes that left nothing or a whole line cost no restart and no chain.
CleanLogSurvives == intact = Len(file) =>
  TailLoads /\ (up => previous = TailHash)

-----------------------------------------------------------------------------
(* A statement of the repository's tests. *)

\* "test_audit_is_written_and_valid": the log the broker itself wrote verifies.
VerifiesOwnLog == Verify(file)
=============================================================================
