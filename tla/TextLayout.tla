----------------------------- MODULE TextLayout -----------------------------
(***************************************************************************)
(* What a user sees in a text field: lines in rows, carets in columns, and *)
(* words.  The properties of the commands are stated in these terms, and   *)
(* not in those of the scans by which the commands find their way.         *)
(***************************************************************************)
EXTENDS TextField, FiniteSets

\* The row of an offset: one more than the line breaks before it.
Row(t, c) == 1 + Cardinality({i \in 1..c : t[i] = Newline})

\* The offsets in a row, and the line between the first and the last of them.
Offsets(t, r) == {c \in 0..Len(t) : Row(t, c) = r}
LineIn(t, r) == Slice(t, Smallest(Offsets(t, r)), Largest(Offsets(t, r)))

\* The field as a list of lines.
Lines(t) == [r \in 1..Row(t, Len(t)) |-> LineIn(t, r)]

Column(t, c) == c - Smallest(Offsets(t, Row(t, c)))

\* From i to j is the nearest word on the command's side of the caret, or the
\* part of it that is there.
Nearest(t, c, i, j) ==
  /\ i < j /\ (IF op[2] = "previous" THEN j <= c ELSE c <= i)
  /\ \A k \in i + 1..j : t[k] \in WordChar
  /\ \A k \in IF op[2] = "previous" THEN j + 1..c ELSE c + 1..i : t[k] \notin WordChar
  /\ LET edge == IF op[2] = "previous" THEN i ELSE j + 1
     IN edge \in 1..Len(t) => t[edge] \notin WordChar

WordStarts(t) == {i \in 0..Len(t) - 1 : t[i + 1] \in WordChar /\ (i = 0 \/ t[i] \notin WordChar)}

-----------------------------------------------------------------------------
\* A command that reports success without having done anything had nothing to do:
\* no word or character on that side, nothing selected, the caret already there.
UnchangedHadNothing == (outcome = "unchanged" /\ foreign = 0) =>
  LET t == base.text
      c == base.caret
      row == Offsets(t, Row(t, c))
  IN \/ /\ op[1] \in {"delete_word", "replace_word", "select_word"}
        /\ ~\E i, j \in 0..Len(t) : Nearest(t, c, i, j)
     \/ /\ op[1] \in {"delete_character", "select_character", "move_caret_word"}
        /\ c = IF op[2] = "previous" THEN 0 ELSE Len(t)
     \/ op[1] = "move_caret" /\ c = IF op[2] \in {"start", "previous"} THEN 0 ELSE Len(t)
     \/ /\ op[1] = "move_caret_line"
        /\ c = IF op[2] = "start" THEN Smallest(row) ELSE Largest(row)
     \/ op[1] = "clear_selection" /\ base.sels = <<>>
=============================================================================
