------------------------------ MODULE TextField ------------------------------
(***************************************************************************)
(* The focused text field the commands of PyAtSpiDesktop work on           *)
(* (src/clausis/gnome_adapter.py), what a command remembers of it, how it  *)
(* finds the word or the line at the caret, and the user who goes on       *)
(* typing.  TextEdit has the commands that change the content, TextMarks   *)
(* those that move the caret and the selection.                            *)
(*                                                                         *)
(* Every call to the accessible object goes to another process, which may  *)
(* refuse it, do less than it says, or serve its user's keystrokes first.  *)
(* Offsets count from 0, as they do there: t[:k] is Take(t, k).            *)
(***************************************************************************)
EXTENDS Naturals, Sequences

CONSTANTS
  Texts,      \* the contents a field may have when a command begins
  None,       \* no outcome, no plan, a caret that is not checked
  MaxForeign  \* bound on the changes the user makes while a command runs

WordChar == {"w", "v", "t"}
Newline == "newline"
Char == WordChar \cup {Newline, "space", "tab"}

Direction == {"previous", "next"}

\* The commands that change the content, with their direction.
EditOps ==
  ({"delete_character", "delete_word", "replace_word", "join_line"} \X Direction)
  \cup ({"insert_line", "duplicate_line"} \X {"above", "below"})
  \cup ({"move_line"} \X {"up", "down"}) \cup ({"indent_line"} \X {"indent", "outdent"})
  \cup ({"delete_selection", "replace_selection", "insert_at_caret", "delete_line",
         "replace_line", "split_line", "set_text"} \X {""})

\* The commands that move the caret or the selection.
MarkOps ==
  ({"move_caret"} \X {"start", "end", "previous", "next"})
  \cup ({"move_caret_word", "select_character", "select_word"} \X Direction)
  \cup ({"move_caret_line"} \X {"start", "end"})
  \cup ({"select_all", "clear_selection", "select_line"} \X {""})

\* What a command ends with: the confirmed result, nothing to do, an error before
\* anything was changed, an error after the rollback, an error that says the
\* rollback failed.
Outcome == {"done", "unchanged", "refused", "restored", "unrestored"}

ASSUME FieldAssumption ==
  /\ Texts \subseteq Seq(Char) /\ MaxForeign \in Nat
  /\ None \notin Nat \cup Outcome \cup (Nat \X Nat)

VARIABLES
  text, caret, sels, \* the field: content, caret offset, selections <<start, end>>
  op,       \* the command
  pc,       \* where it is
  count,    \* characterCount as the command last read it
  at,       \* caretOffset as it was read
  span,     \* <<start, end>> of the selection, word or line
  line,     \* the line, character by character, as it was scanned
  previous, \* the snapshot: of the content, or of the selections
  plan,     \* the change to make
  outcome,
  base,     \* history: the field when the command began
  held,     \* history: the contents the field had before the command touched it
  foreign   \* changes the user made meanwhile

field == <<text, caret, sels>>
reading == <<op, count, at, span, line, previous, plan>>
vars == <<field, reading, pc, outcome, base, held, foreign>>

PC == {"meta", "scan", "snapshot", "mutate", "remove", "add", "caret", "verify",
       "restore", "unselect", "reselect", "recaret", "recheck", "ended"}

Largest(S) == CHOOSE x \in S : \A y \in S : y <= x
Smallest(S) == CHOOSE x \in S : \A y \in S : x <= y
AtMost(a, b) == IF a <= b THEN a ELSE b

Take(t, k) == SubSeq(t, 1, AtMost(k, Len(t)))
Drop(t, k) == SubSeq(t, k + 1, Len(t))
Slice(t, s, e) == Drop(Take(t, e), s)
Splice(t, s, e, new) == Take(t, s) \o new \o Drop(t, e)

\* The stretches of a field that can be selected.
Spans(t) == {r \in (0..Len(t)) \X (0..Len(t)) : r[1] < r[2]}

\* A command begins; which field it may find, its module says.
Begin ==
  /\ caret \in 0..Len(text)
  /\ pc = "meta" /\ count = 0 /\ at = 0 /\ span = <<0, 0>> /\ line = <<>>
  /\ previous = <<>> /\ plan = None /\ outcome = None
  /\ base = [text |-> text, caret |-> caret, sels |-> sels]
  /\ held = {text} /\ foreign = 0

End(o) == pc' = "ended" /\ outcome' = o

-----------------------------------------------------------------------------
(* Finding the word or the line at the caret, one character at a time. *)

\* Nothing lies in the direction of the command from caret c of n characters.
AtBoundary(c, n) == (op[2] = "previous" /\ c = 0) \/ (op[2] = "next" /\ c = n)

\* A word or line whose end the scan cannot reach: the text got shorter.
Unreadable == <<>>

WordBefore(t, c) ==
  LET words == {i \in 1..c : t[i] \in WordChar}
      end == Largest(words)
  IN IF words = {} THEN None
     ELSE <<Largest({i \in 0..end - 1 : i = 0 \/ t[i] \notin WordChar}), end>>

WordAfter(t, c, n) ==
  LET known == AtMost(n, Len(t))
      words == {i \in c + 1..known : t[i] \in WordChar}
      first == Smallest(words)
      ends == {i \in first..known : i = n \/ (i < known /\ t[i + 1] \notin WordChar)}
  IN IF words = {} THEN (IF known < n THEN Unreadable ELSE None)
     ELSE IF ends = {} THEN Unreadable ELSE <<first - 1, Smallest(ends)>>

LineAround(t, c, n) ==
  LET known == AtMost(n, Len(t))
      ends == {i \in c..known : i = n \/ (i < known /\ t[i + 1] = Newline)}
  IN IF ends = {} THEN Unreadable
     ELSE <<Largest({i \in 0..c : i = 0 \/ t[i] = Newline}), Smallest(ends)>>

\* The word on the command's side of the caret.
AdjacentWord == IF op[2] = "previous" THEN WordBefore(text, at) ELSE WordAfter(text, at, count)

\* A read raises: no focused, unprotected text object of the right role, or it is gone.
ReadFails ==
  /\ pc \in {"meta", "scan", "snapshot"}
  /\ End("refused")
  /\ UNCHANGED <<field, reading, base, held, foreign>>

\* addSelection does it or not; the caret may follow.
AddSpan(done, r) ==
  IF done /\ r[2] <= Len(text)
  THEN sels' = Append(sels, r) /\ caret' \in {caret, r[2]}
  ELSE UNCHANGED <<sels, caret>>

-----------------------------------------------------------------------------
(* The user goes on typing. *)

Typed(s, e, new) ==
  /\ pc # "ended" /\ foreign < MaxForeign
  /\ text' = Splice(text, s, e, new) /\ caret' = s + Len(new) /\ sels' = <<>>
  /\ held' = IF pc \in {"meta", "scan", "snapshot", "mutate"} THEN held \cup {text'} ELSE held
  /\ foreign' = foreign + 1
  /\ UNCHANGED <<reading, pc, outcome, base>>

\* Where typing starts and how far it replaces: the first selection, or the caret.
TypesAt == IF sels = <<>> THEN <<caret, caret>> ELSE sels[1]

Foreign ==
  \/ Typed(TypesAt[1], TypesAt[2], <<"t">>)
  \/ sels = <<>> /\ caret > 0 /\ Typed(caret - 1, caret, <<>>)
  \/ sels # <<>> /\ Typed(sels[1][1], sels[1][2], <<>>)
  \/ Typed(0, 0, <<>>)

-----------------------------------------------------------------------------
\* The content, the caret and the selections fit together.
FieldOK ==
  /\ text \in Seq(Char) /\ caret \in 0..Len(text)
  /\ sels \in Seq(Nat \X Nat)
  /\ \A i \in DOMAIN sels : sels[i][1] <= sels[i][2] /\ sels[i][2] <= Len(text)

\* Every variable keeps its type; offsets stay inside the field.
TypeOK ==
  /\ FieldOK
  /\ op \in EditOps \cup MarkOps /\ pc \in PC /\ outcome \in Outcome \cup {None}
  /\ (pc = "ended" <=> outcome # None)
  /\ count \in Nat /\ at \in Nat /\ span \in Nat \X Nat /\ span[1] <= span[2]
  /\ plan # None => plan.caret \in Nat \cup {None}
  /\ held \subseteq Seq(Char) /\ foreign \in 0..MaxForeign
=============================================================================
