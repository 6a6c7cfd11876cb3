------------------------------ MODULE TextMarks ------------------------------
(***************************************************************************)
(* The commands of PyAtSpiDesktop in src/clausis/gnome_adapter.py that     *)
(* move the caret or the selection: decide the target, take away the       *)
(* selections in the way, select, set the caret, verify, and put the old   *)
(* selections and caret back when the result is not there.                 *)
(* plan is [caret, left]: where the caret goes (None: nowhere), and how    *)
(* many selections are still to be removed or added.                       *)
(***************************************************************************)
EXTENDS TextLayout

\* Commands on all selections, on one stretch beside the caret, and on the caret.
AllOps == {"select_all", "clear_selection"}
SelectOps == {"select_character", "select_word", "select_line"}
MoveOps == {"move_caret", "move_caret_word", "move_caret_line"}

\* Those that read the text around the caret, and those that refuse a selection.
ScanOps == {"move_caret_word", "select_word", "move_caret_line", "select_line"}
UnselectedOps == SelectOps \cup ScanOps

MarkInit ==
  /\ op \in MarkOps /\ text \in Texts
  /\ sels \in {<<>>} \cup {<<r>> : r \in Spans(text)}
              \cup {<<r[1], r[2]>> : r \in {p \in Spans(text) \X Spans(text) : p[1][2] < p[2][1]}}
  /\ Begin

-----------------------------------------------------------------------------
(* Deciding. *)

Target(c, n) == CASE op[2] = "start" -> 0
                  [] op[2] = "end" -> n
                  [] op[2] = "previous" -> IF c > 0 THEN c - 1 ELSE 0
                  [] op[2] = "next" -> AtMost(n, c + 1)

\* The edge of a selected stretch the caret goes to.
Edge(r) == IF op[2] = "previous" THEN r[1] ELSE r[2]

\* The command goes on with the stretch r to select, the caret target c and k
\* selections to remove.
Proceed(first, r, c, k) ==
  pc' = first /\ span' = r /\ plan' = [caret |-> c, left |-> k] /\ UNCHANGED outcome

Stop(o) == End(o) /\ UNCHANGED <<span, plan>>

\* characterCount, caretOffset, nSelections and every getSelection.
MarkMeta ==
  /\ pc = "meta"
  /\ count' = Len(text) /\ at' = caret /\ previous' = sels
  /\ LET n == Len(text)
         beside == IF op[2] = "previous" THEN <<caret - 1, caret>> ELSE <<caret, caret + 1>>
     IN IF \/ op[1] \in UnselectedOps /\ sels # <<>>
           \/ op[1] = "select_all" /\ n = 0
        THEN Stop("refused")
        ELSE IF \/ op[1] = "clear_selection" /\ sels = <<>>
                \/ op[1] \in {"move_caret_word", "select_character", "select_word"}
                   /\ AtBoundary(caret, n)
                \/ op[1] = "move_caret" /\ Target(caret, n) = caret
        THEN Stop("unchanged")
        ELSE IF op[1] \in ScanOps THEN pc' = "scan" /\ UNCHANGED <<span, plan, outcome>>
        ELSE CASE op[1] = "select_all" -> Proceed("remove", <<0, n>>, None, Len(sels))
               [] op[1] = "clear_selection" -> Proceed("remove", span, None, Len(sels))
               [] op[1] = "move_caret" -> Proceed("caret", span, Target(caret, n), 0)
               [] op[1] = "select_character" -> Proceed("add", beside, Edge(beside), 0)
  /\ UNCHANGED <<field, op, line, base, held, foreign>>

\* Mutant: what separates the current word from the next one is not skipped.
WordStartOrEnd ==
  IF op[2] = "previous"
  THEN LET w == WordBefore(text, at) IN IF w = None THEN <<0, 0>> ELSE <<w[1], w[1]>>
  ELSE LET known == AtMost(count, Len(text))
           stops == {i \in at + 1..known : i = count \/ (i < known /\ text[i + 1] \notin WordChar)}
       IN IF stops = {} THEN Unreadable ELSE <<Smallest(stops), Smallest(stops)>>

\* Mutant: the current word is not skipped.
WordStartFromHere ==
  IF op[2] = "previous"
  THEN LET w == WordBefore(text, at) IN IF w = None THEN <<0, 0>> ELSE <<w[1], w[1]>>
  ELSE LET known == AtMost(count, Len(text))
           stops == {i \in at..known : i = count \/ (i < known /\ text[i + 1] \in WordChar)}
       IN IF stops = {} THEN Unreadable ELSE <<Smallest(stops), Smallest(stops)>>

\* Where the word navigation ends: at the start of the word before the caret or
\* of the field, after the rest of the current word and what separates it from
\* the next one or from the end of the field.
WordStart ==
  IF op[2] = "previous"
  THEN LET w == WordBefore(text, at) IN IF w = None THEN <<0, 0>> ELSE <<w[1], w[1]>>
  ELSE LET known == AtMost(count, Len(text))
           stops == {i \in at..known :
                       \/ i = count
                       \/ /\ i < known /\ text[i + 1] \in WordChar
                          /\ \E j \in at + 1..i : text[j] \notin WordChar}
       IN IF stops = {} THEN Unreadable ELSE <<Smallest(stops), Smallest(stops)>>

\* What the scan is after: a stretch, for the word navigation an empty one.
Scanned == IF at > Len(text) THEN Unreadable
           ELSE CASE op[1] = "move_caret_word" -> WordStart
                  [] op[1] = "select_word" -> AdjacentWord
                  [] OTHER -> LineAround(text, at, count)

\* The one-character reads around the caret.
MarkScan ==
  /\ pc = "scan"
  /\ LET s == Scanned
         c == IF op = <<"move_caret_line", "start">> THEN s[1] ELSE s[2]
     IN IF s = Unreadable \/ (op[1] = "select_line" /\ s[1] = s[2]) THEN Stop("refused")
        ELSE IF s = None \/ (op[1] \in MoveOps /\ c = at) THEN Stop("unchanged")
        ELSE IF op[1] \in MoveOps THEN Proceed("caret", span, c, 0)
        ELSE Proceed("add", s, Edge(s), 0)
  /\ UNCHANGED <<field, op, count, at, line, previous, base, held, foreign>>

-----------------------------------------------------------------------------
(* The calls to the application.  It does what it is asked or nothing, and *)
(* says yes or no whatever it did; an exception counts as a no.            *)

\* removeSelection of the last one that is left.
RemoveLast(done) ==
  sels' = IF done /\ plan.left \in DOMAIN sels
          THEN [i \in 1..Len(sels) - 1 |-> sels[IF i < plan.left THEN i ELSE i + 1]]
          ELSE sels

\* setCaretOffset; the selections may go.
PutCaret(done, c) ==
  IF done /\ c <= Len(text)
  THEN caret' = c /\ sels' \in {sels, <<>>}
  ELSE UNCHANGED <<sels, caret>>

Left(k) == plan' = [plan EXCEPT !.left = k]

CallUnchanged == UNCHANGED <<text, op, count, at, span, line, previous, base, held, foreign>>

-----------------------------------------------------------------------------
(* Doing it. *)

\* The old selections are removed, from the last to the first.
RemoveOld ==
  /\ pc = "remove"
  /\ IF plan.left = 0
     THEN /\ pc' = IF op[1] = "select_all" THEN "add" ELSE "verify"
          /\ UNCHANGED <<sels, plan>>
     ELSE \E done, accepted \in BOOLEAN :
            /\ RemoveLast(done)
            /\ IF accepted THEN Left(plan.left - 1) /\ UNCHANGED pc
               ELSE pc' = "restore" /\ UNCHANGED plan
  /\ UNCHANGED <<caret, outcome>> /\ CallUnchanged

Add ==
  /\ pc = "add"
  /\ \E done, accepted \in BOOLEAN :
       /\ AddSpan(done, span)
       /\ pc' = IF ~accepted THEN "restore" ELSE IF plan.caret = None THEN "verify" ELSE "caret"
  /\ UNCHANGED <<plan, outcome>> /\ CallUnchanged

MoveCaret ==
  /\ pc = "caret"
  /\ \E done, accepted \in BOOLEAN :
       /\ PutCaret(done, plan.caret)
       /\ pc' = IF accepted THEN "verify" ELSE "restore"
  /\ UNCHANGED <<plan, outcome>> /\ CallUnchanged

\* The selection and the caret are read back; move_caret looks at the caret only.
Marked ==
  /\ plan.caret # None => caret = plan.caret
  /\ op[1] # "move_caret" =>
       sels = IF op[1] \in SelectOps \cup {"select_all"} THEN <<span>> ELSE <<>>

MarkVerify ==
  /\ pc = "verify"
  /\ \/ Marked /\ End("done")
     \/ pc' = "restore" /\ UNCHANGED outcome
  /\ UNCHANGED <<field, plan>> /\ CallUnchanged

-----------------------------------------------------------------------------
(* Rolling back. *)

\* Whatever is selected now goes first; moving the caret selects nothing.
MarkRestore ==
  /\ pc = "restore"
  /\ IF op[1] \in MoveOps THEN pc' = "recaret" /\ UNCHANGED plan
     ELSE pc' = "unselect" /\ Left(Len(sels))
  /\ UNCHANGED <<field, outcome>> /\ CallUnchanged

Unselect ==
  /\ pc = "unselect"
  /\ IF plan.left = 0
     THEN /\ UNCHANGED <<sels, outcome>>
          /\ IF op[1] \in AllOps THEN pc' = "reselect" /\ Left(Len(previous))
             ELSE pc' = "recaret" /\ UNCHANGED plan
     ELSE \E done, accepted \in BOOLEAN :
            /\ RemoveLast(done)
            /\ IF accepted THEN Left(plan.left - 1) /\ UNCHANGED <<pc, outcome>>
               ELSE End("unrestored") /\ UNCHANGED plan
  /\ UNCHANGED caret /\ CallUnchanged

\* The previous selections are added again, from the first to the last.
Reselect ==
  /\ pc = "reselect"
  /\ IF plan.left = 0 THEN pc' = "recheck" /\ UNCHANGED <<sels, caret, plan, outcome>>
     ELSE \E done, accepted \in BOOLEAN :
            /\ AddSpan(done, previous[Len(previous) + 1 - plan.left])
            /\ IF accepted THEN Left(plan.left - 1) /\ UNCHANGED <<pc, outcome>>
               ELSE End("unrestored") /\ UNCHANGED plan
  /\ CallUnchanged

\* A selecting command first makes sure that nothing is selected any more.
Recaret ==
  /\ pc = "recaret"
  /\ IF op[1] \in SelectOps /\ sels # <<>>
     THEN End("unrestored") /\ UNCHANGED <<sels, caret>>
     ELSE \E done, accepted \in BOOLEAN :
            /\ PutCaret(done, at)
            /\ IF accepted THEN pc' = "recheck" /\ UNCHANGED outcome ELSE End("unrestored")
  /\ UNCHANGED plan /\ CallUnchanged

\* Mutant: the selections are counted, not compared.
PutBackCounted ==
  IF op[1] \in AllOps THEN Len(sels) = Len(previous) ELSE caret = at

\* What the rollback compares.  Only the word and line navigation looks at the
\* selection after the caret was set.
PutBack ==
  IF op[1] \in AllOps THEN sels = previous
  ELSE caret = at /\ (op[1] \in {"move_caret_word", "move_caret_line"} => sels = <<>>)

MarkRecheck ==
  /\ pc = "recheck"
  /\ \/ PutBack /\ End("restored")
     \/ End("unrestored")
  /\ UNCHANGED <<field, plan>> /\ CallUnchanged

MarkStep ==
  /\ op \in MarkOps
  /\ \/ MarkMeta \/ MarkScan \/ RemoveOld \/ Add \/ MoveCaret \/ MarkVerify
     \/ MarkRestore \/ Unselect \/ Reselect \/ Recaret \/ MarkRecheck

MarkNext == MarkStep \/ ReadFails \/ Foreign

MarkSpec == MarkInit /\ [][MarkNext]_vars

-----------------------------------------------------------------------------
(* Properties. *)

\* A rollback that reports success has put back what the command promises, when
\* nobody else touched the field: the selections, and for every command that
\* moves the caret on purpose the caret.  move_caret does not look at selections.
MarkRollbackRestores == op \in MarkOps /\ outcome = "restored" /\ foreign = 0 =>
  /\ op[1] # "move_caret" => sels = base.sels
  /\ op[1] \notin AllOps => caret = base.caret

\* From c on that side, p is the next word start or the end of the field.
NextWordStart(t, c, p) ==
  IF op[2] = "previous"
  THEN p \in {0} \cup WordStarts(t) /\ p < c /\ WordStarts(t) \cap (p + 1..c - 1) = {}
  ELSE p \in {Len(t)} \cup WordStarts(t) /\ c < p /\ WordStarts(t) \cap (c + 1..p - 1) = {}

\* Only the stretch from s to e is selected, and the caret is at c.
Selected(s, e, c) == sels = <<<<s, e>>>> /\ caret = c

\* A caret or selection command that nobody interferes with marks exactly what it
\* is named for, in every field, at every caret, whatever was selected before.
MarkIsExact == (op \in MarkOps /\ outcome = "done" /\ foreign = 0) =>
  LET t == base.text
      c == base.caret
      left == Smallest(Offsets(t, Row(t, c)))
      right == Largest(Offsets(t, Row(t, c)))
  IN /\ text = t
     /\ op[1] = "select_all" => sels = <<<<0, Len(t)>>>>
     /\ op[1] = "clear_selection" => sels = <<>>
     /\ op[1] = "move_caret" =>
          caret = IF op[2] = "start" THEN 0 ELSE IF op[2] = "end" THEN Len(t)
                  ELSE IF op[2] = "previous" THEN c - 1 ELSE c + 1
     /\ op[1] = "move_caret_word" => NextWordStart(t, c, caret)
     /\ op[1] = "move_caret_line" => caret = IF op[2] = "start" THEN left ELSE right
     /\ op[1] = "select_character" =>
          IF op[2] = "previous" THEN Selected(c - 1, c, c - 1) ELSE Selected(c, c + 1, c + 1)
     /\ op[1] = "select_word" => \E i, j \in 0..Len(t) :
          Nearest(t, c, i, j) /\ Selected(i, j, IF op[2] = "previous" THEN i ELSE j)
     /\ op[1] = "select_line" => left < right /\ Selected(left, right, right)
=============================================================================
