------------------------------ MODULE TextEdit ------------------------------
(***************************************************************************)
(* The editing commands of PyAtSpiDesktop in src/clausis/gnome_adapter.py: *)
(* read the caret and the selection, find the word or the line, take a     *)
(* snapshot of the field, compute the expected result, change the field,   *)
(* verify the result and, when it is not there, put the snapshot back.     *)
(* plan is the change [from, to, new, caret] against the snapshot.         *)
(***************************************************************************)
EXTENDS TextLayout

CONSTANTS
  Value,      \* the dictated text
  Pad         \* what "indent" inserts (four spaces in the code)

SelectionOps == {"delete_selection", "replace_selection"}
WordOps == {"delete_word", "replace_word"}
LineOps == {"delete_line", "replace_line", "insert_line", "duplicate_line", "move_line",
            "join_line", "split_line", "indent_line"}

ASSUME TextAssumption ==
  /\ Value \in Seq(WordChar) /\ Value # <<>>
  /\ Pad \in Seq({"space"}) /\ Pad # <<>>

\* A command finds the selection it needs, or none.
EditInit ==
  /\ op \in EditOps /\ text \in Texts
  /\ sels \in IF op[1] \in SelectionOps THEN {<<r>> : r \in Spans(text)} ELSE {<<>>}
  /\ Begin

-----------------------------------------------------------------------------
(* Reading. *)

\* How many selections the command insists on.
Wanted == IF op[1] \in SelectionOps THEN 1 ELSE 0

\* characterCount, caretOffset, nSelections and getSelection(0).
ReadMeta ==
  /\ pc = "meta"
  /\ count' = Len(text) /\ at' = caret
  /\ span' = IF op[1] \in SelectionOps /\ sels # <<>> THEN sels[1] ELSE span
  /\ IF op[1] # "set_text" /\ Len(sels) # Wanted THEN End("refused")
     ELSE IF op[1] \in WordOps /\ AtBoundary(caret, Len(text)) THEN End("unchanged")
     ELSE /\ pc' = IF op[1] \in WordOps \cup LineOps THEN "scan" ELSE "snapshot"
          /\ UNCHANGED outcome
  /\ UNCHANGED <<field, op, line, previous, plan, base, held, foreign>>

Found == IF at > Len(text) THEN Unreadable
         ELSE IF op[1] \in LineOps THEN LineAround(text, at, count)
         ELSE AdjacentWord

\* The one-character reads around the caret.
Scan ==
  /\ pc = "scan"
  /\ IF Found = Unreadable THEN End("refused") /\ UNCHANGED <<span, line>>
     ELSE IF Found = None THEN End("unchanged") /\ UNCHANGED <<span, line>>
     ELSE /\ pc' = "snapshot" /\ UNCHANGED outcome
          /\ span' = Found
          /\ line' = Slice(text, Found[1], Found[2])
  /\ UNCHANGED <<field, op, count, at, previous, plan, base, held, foreign>>

-----------------------------------------------------------------------------
(* Planning: the change each command makes to the snapshot t. *)

Change(from, to, new, c) == [from |-> from, to |-> to, new |-> new, caret |-> c]

Spaces(t) == Largest({k \in 0..AtMost(Len(Pad), Len(t)) : \A i \in 1..k : t[i] = "space"})
Outdent == IF line # <<>> /\ line[1] = "tab" THEN 1 ELSE Spaces(line)

\* Start of the line that ends at offset e, and end of the line that starts at s.
LineStart(t, e) == Largest({i \in 0..AtMost(e, Len(t)) : i = 0 \/ t[i] = Newline})
LineEnd(t, s) == Smallest({i \in s..Len(t) : i = Len(t) \/ t[i + 1] = Newline})

\* Mutant: the last line is deleted without the line break before it.
PlanDeleteLineKeepingBreak(n) ==
  LET s == span[1]
      e == span[2]
  IN IF e < n THEN Change(s, e + 1, <<>>, s) ELSE Change(s, e, <<>>, s)

\* The line and one line break: the one after it, else the one before it.
PlanDeleteLine(n) ==
  LET s == span[1]
      e == span[2]
  IN IF e < n THEN Change(s, e + 1, <<>>, s)
     ELSE IF s > 0 THEN Change(s - 1, e, <<>>, s - 1)
     ELSE Change(s, e, <<>>, s)

PlanMoveLine(t, n) ==
  LET s == span[1]
      e == span[2]
      above == LineStart(t, s - 1)
      below == LineEnd(t, e + 1)
      next == Slice(t, e + 1, below)
  IN IF op[2] = "up"
     THEN Change(above, e, line \o <<Newline>> \o Slice(t, above, s - 1), above + at - s)
     ELSE Change(s, below, next \o <<Newline>> \o line, s + Len(next) + 1 + at - s)

PlanIndent ==
  IF op[2] = "indent" THEN Change(span[1], span[1], Pad, at + Len(Pad))
  ELSE Change(span[1], span[1] + Outdent, <<>>,
              IF at - Outdent >= span[1] THEN at - Outdent ELSE span[1])

\* A new line above or below the current one; in an empty field, just its text.
PlanNewLine(new, n) ==
  IF n = 0 THEN Change(0, 0, new, Len(new))
  ELSE IF op[2] = "above" THEN Change(span[1], span[1], new \o <<Newline>>, span[1] + Len(new))
  ELSE Change(span[2], span[2], <<Newline>> \o new, span[2] + 1 + Len(new))

\* The command finds that it cannot be done.
Inapplicable(n) ==
  \/ op[1] \in {"delete_line", "replace_line", "duplicate_line"} /\ line = <<>>
  \/ op \in {<<"move_line", "up">>, <<"join_line", "previous">>} /\ span[1] = 0
  \/ op \in {<<"move_line", "down">>, <<"join_line", "next">>} /\ span[2] >= n
  \/ op = <<"indent_line", "outdent">> /\ Outdent = 0

\* The calls that take one piece of text out, or put one in.
PlanDeleteSelection == Change(span[1], span[2], <<>>, None)
PlanReplaceSelection == Change(span[1], span[2], Value, span[1] + Len(Value))
PlanInsertAtCaret == Change(at, at, Value, at + Len(Value))
PlanDeleteCharacter == IF op[2] = "previous" THEN Change(at - 1, at, <<>>, at - 1)
                       ELSE Change(at, at + 1, <<>>, at)
PlanDeleteWord == Change(span[1], span[2], <<>>,
                         IF op[2] = "previous" THEN at - (span[2] - span[1]) ELSE at)
PlanReplaceWord == Change(span[1], span[2], Value, span[1] + Len(Value))
PlanReplaceLine == Change(span[1], span[2], Value, span[1] + Len(Value))
PlanJoinLine == IF op[2] = "previous" THEN Change(span[1] - 1, span[1], <<>>, at - 1)
                ELSE Change(span[2], span[2] + 1, <<>>, at)
PlanSplitLine == Change(at, at, <<Newline>>, at + 1)
PlanSetText(t) == Change(0, Len(t), Value, None)

PlanInsertLine(n) == PlanNewLine(Value, n)
PlanDuplicateLine(n) == PlanNewLine(line, n)

Plan(t, n) ==
  CASE op[1] = "set_text" -> PlanSetText(t)
    [] op[1] = "delete_selection" -> PlanDeleteSelection
    [] op[1] = "replace_selection" -> PlanReplaceSelection
    [] op[1] = "insert_at_caret" -> PlanInsertAtCaret
    [] op[1] = "delete_character" -> PlanDeleteCharacter
    [] op[1] = "delete_word" -> PlanDeleteWord
    [] op[1] = "replace_word" -> PlanReplaceWord
    [] op[1] = "delete_line" -> PlanDeleteLine(n)
    [] op[1] = "replace_line" -> PlanReplaceLine
    [] op[1] = "insert_line" -> PlanInsertLine(n)
    [] op[1] = "duplicate_line" -> PlanDuplicateLine(n)
    [] op[1] = "move_line" -> PlanMoveLine(t, n)
    [] op[1] = "join_line" -> PlanJoinLine
    [] op[1] = "split_line" -> PlanSplitLine
    [] op[1] = "indent_line" -> PlanIndent

\* getText(0, count): commands on lines and on the whole field count again, the
\* others rely on the count they read before.
Snapshot ==
  /\ pc = "snapshot"
  /\ LET n == IF op[1] \in LineOps \cup {"set_text"} THEN Len(text) ELSE count
         t == Take(text, n)
     IN /\ count' = n /\ previous' = t
        /\ IF Len(t) # n \/ Inapplicable(n) THEN End("refused") /\ UNCHANGED plan
           ELSE IF op[1] = "delete_character" /\ AtBoundary(at, n)
                THEN End("unchanged") /\ UNCHANGED plan
           ELSE plan' = Plan(t, n) /\ pc' = "mutate" /\ UNCHANGED outcome
  /\ UNCHANGED <<field, op, at, span, line, base, held, foreign>>

-----------------------------------------------------------------------------
(* Changing the field. *)

Expected == Splice(previous, plan.from, plan.to, plan.new)

\* deleteText and insertText change part of the field, setTextContents all of it.
ByPart == op[1] \in {"delete_selection", "delete_character", "delete_word", "delete_line",
                     "join_line", "insert_at_caret", "split_line", "indent_line"}

\* The caret after [from, to) was replaced by k characters.
Shifted(from, to, k) ==
  IF caret >= to THEN caret + k - (to - from)
  ELSE IF caret > from THEN from ELSE caret

\* What the application makes of the call: all of it, all but the last
\* character, or nothing.
Apply(how) ==
  LET short == IF how = "short" THEN 1 ELSE 0
      from == AtMost(plan.from, Len(text))
      end == AtMost(plan.to, Len(text))
      to == IF plan.new = <<>> /\ end > from THEN end - short ELSE end
      new == IF plan.new = <<>> THEN <<>> ELSE Take(plan.new, Len(plan.new) - short)
  IN IF how = "none" THEN UNCHANGED field
     ELSE IF ByPart
          THEN /\ text' = Splice(text, from, to, new)
               /\ caret' = Shifted(from, to, Len(new))
               /\ sels' = <<>>
     ELSE /\ text' = Take(Expected, Len(Expected) - AtMost(short, Len(Expected)))
          /\ caret' \in {0, Len(text')}
          /\ sels' = <<>>

\* Mutant: every command writes the whole field back, as set_text does.
MutateWhole ==
  /\ pc = "mutate"
  /\ text' = Expected /\ caret' = Len(Expected) /\ sels' = <<>>
  /\ pc' = IF plan.caret = None \/ op[1] = "delete_line" THEN "verify" ELSE "caret"
  /\ UNCHANGED <<reading, outcome, base, held, foreign>>

\* The editing call.  An exception counts as a refusal.
Mutate ==
  /\ pc = "mutate"
  /\ \E how \in {"all", "short", "none"}, accepted \in BOOLEAN :
       /\ Apply(how)
       /\ pc' = IF ~accepted THEN "restore"
                ELSE IF plan.caret = None \/ op[1] = "delete_line" THEN "verify" ELSE "caret"
  /\ UNCHANGED <<reading, outcome, base, held, foreign>>

\* setCaretOffset to where the command ends.
SetCaret ==
  /\ pc = "caret"
  /\ \/ /\ plan.caret <= Len(text)
        /\ caret' = plan.caret /\ sels' = <<>> /\ pc' = "verify"
     \/ pc' = "restore" /\ UNCHANGED <<caret, sels>>
  /\ UNCHANGED <<text, reading, outcome, base, held, foreign>>

\* The field is what the command wanted to make it.
Observed ==
  /\ text = Expected
  /\ plan.caret # None => caret = plan.caret
  /\ op[1] # "set_text" => sels = <<>>

Verify ==
  /\ pc = "verify"
  /\ \/ Observed /\ End("done")
     \/ pc' = "restore" /\ UNCHANGED outcome
  /\ UNCHANGED <<field, reading, base, held, foreign>>

-----------------------------------------------------------------------------
(* Rolling back. *)

\* setTextContents(previous).  delete_focused_text_selection does not look at
\* what the call returns.
Restore ==
  /\ pc = "restore"
  /\ \E done, accepted \in BOOLEAN :
       /\ IF done THEN text' = previous /\ caret' \in {0, Len(previous)} /\ sels' = <<>>
          ELSE UNCHANGED field
       /\ IF accepted \/ op[1] = "delete_selection" THEN pc' = "recheck" /\ UNCHANGED outcome
          ELSE End("unrestored")
  /\ UNCHANGED <<reading, base, held, foreign>>

\* The content is compared, then the caret is put back and nothing is selected;
\* _set_text_node leaves those two alone.
Recheck ==
  /\ pc = "recheck"
  /\ \/ /\ text = previous
        /\ op[1] # "set_text" => at <= Len(text)
        /\ IF op[1] = "set_text" THEN UNCHANGED <<caret, sels>> ELSE caret' = at /\ sels' = <<>>
        /\ IF op[1] \in SelectionOps THEN pc' = "reselect" /\ UNCHANGED outcome
           ELSE End("restored")
     \/ End("unrestored") /\ UNCHANGED <<caret, sels>>
  /\ UNCHANGED <<text, reading, base, held, foreign>>

\* Mutant: the selection is not read back.
ReselectBlindly ==
  /\ pc = "reselect"
  /\ \E done, accepted \in BOOLEAN :
       /\ AddSpan(done, span)
       /\ End(IF accepted THEN "restored" ELSE "unrestored")
  /\ UNCHANGED <<text, reading, base, held, foreign>>

\* Last of all addSelection.  The selection is read back, the caret, which may
\* have followed it, is not read again.
ReselectSpan ==
  /\ pc = "reselect"
  /\ \E done \in BOOLEAN : AddSpan(done, span)
  /\ \/ sels' = <<span>> /\ End("restored")
     \/ End("unrestored")
  /\ UNCHANGED <<text, reading, base, held, foreign>>

EditStep ==
  /\ op \in EditOps
  /\ \/ ReadMeta \/ Scan \/ Snapshot \/ Mutate \/ SetCaret \/ Verify
     \/ Restore \/ Recheck \/ ReselectSpan

EditNext == EditStep \/ ReadFails \/ Foreign

EditSpec == EditInit /\ [][EditNext]_vars

-----------------------------------------------------------------------------
(* Properties. *)

\* A rollback that reports success has put back what it promises, when nobody
\* else touched the field: the content, for every command but set_text the
\* selection, and the caret with it; only where a selection had to be made again,
\* after the caret was compared, the caret may be at its end instead.
RollbackRestores == op \in EditOps /\ outcome = "restored" /\ foreign = 0 =>
  /\ text = base.text
  /\ op[1] # "set_text" => sels = base.sels
  /\ op[1] # "set_text" =>
       caret = base.caret \/ (op[1] \in SelectionOps /\ caret = base.sels[1][2])

\* The result is the change made to content t: all of it, or, if the dictated text
\* ends as what was typed, all of it but that end.
MadeTo(t) ==
  \/ text = Splice(t, plan.from, plan.to, plan.new)
  \/ /\ op[1] = "insert_at_caret" /\ Value[Len(Value)] = "t"
     /\ text = Splice(t, at, at, Take(Value, Len(Value) - 1))

\* A command that works with deleteText and insertText loses no keystroke: if the
\* user typed into the field after the command began and before it changed
\* anything, whatever it had read by then, the confirmed result is the change made
\* to the content with the keystroke in it.  The commands that write the whole
\* field back do not keep this, nor is it said of a second change by the user.
EditsKeepTyping ==
  op \in EditOps /\ ByPart /\ outcome = "done" /\ foreign <= 1 =>
    \A t \in held : Len(t) > Len(base.text) => MadeTo(t)

\* How far a line is moved out: by its tab, or by its leading spaces up to a pad.
Indented(l) == IF Head(l) = "tab" THEN 1 ELSE
  CHOOSE k \in 1..AtMost(Len(Pad), Len(l)) :
    /\ \A i \in 1..k : l[i] = "space"
    /\ k = Len(Pad) \/ k = Len(l) \/ l[k + 1] # "space"

\* What a command in row r and column c makes of the lines l.
LinesAfter(l, r, c) ==
  CASE op[1] = "delete_line" -> IF Len(l) = 1 THEN <<<<>>>> ELSE Splice(l, r - 1, r, <<>>)
    [] op[1] = "replace_line" -> Splice(l, r - 1, r, <<Value>>)
    [] op[1] = "insert_line" -> IF l = <<<<>>>> THEN <<Value>>
                                ELSE IF op[2] = "above" THEN Splice(l, r - 1, r - 1, <<Value>>)
                                ELSE Splice(l, r, r, <<Value>>)
    [] op[1] = "duplicate_line" -> Splice(l, r, r, <<l[r]>>)
    [] op = <<"move_line", "up">> -> Splice(l, r - 2, r, <<l[r], l[r - 1]>>)
    [] op = <<"move_line", "down">> -> Splice(l, r - 1, r + 1, <<l[r + 1], l[r]>>)
    [] op = <<"join_line", "previous">> -> Splice(l, r - 2, r, <<l[r - 1] \o l[r]>>)
    [] op = <<"join_line", "next">> -> Splice(l, r - 1, r + 1, <<l[r] \o l[r + 1]>>)
    [] op[1] = "split_line" -> Splice(l, r - 1, r, <<Take(l[r], c), Drop(l[r], c)>>)
    [] op = <<"indent_line", "indent">> -> Splice(l, r - 1, r, <<Pad \o l[r]>>)
    [] op = <<"indent_line", "outdent">> -> Splice(l, r - 1, r, <<Drop(l[r], Indented(l[r]))>>)

\* Row and column its caret goes to.
PlaceAfter(l, r, c) ==
  CASE op[1] = "delete_line" -> IF r < Len(l) THEN <<r, 0>>
                                ELSE IF r = 1 THEN <<1, 0>> ELSE <<r - 1, Len(l[r - 1])>>
    [] op[1] = "replace_line" -> <<r, Len(Value)>>
    [] op[1] = "insert_line" ->
         <<IF op[2] = "above" \/ l = <<<<>>>> THEN r ELSE r + 1, Len(Value)>>
    [] op[1] = "duplicate_line" -> <<IF op[2] = "above" THEN r ELSE r + 1, Len(l[r])>>
    [] op = <<"move_line", "up">> -> <<r - 1, c>>
    [] op = <<"move_line", "down">> -> <<r + 1, c>>
    [] op = <<"join_line", "previous">> -> <<r - 1, Len(l[r - 1]) + c>>
    [] op = <<"join_line", "next">> -> <<r, c>>
    [] op[1] = "split_line" -> <<r + 1, 0>>
    [] op = <<"indent_line", "indent">> -> <<r, c + Len(Pad)>>
    [] op = <<"indent_line", "outdent">> ->
         <<r, IF c > Indented(l[r]) THEN c - Indented(l[r]) ELSE 0>>

EditsLines(t, c) ==
  LET l == Lines(t)
      r == Row(t, c)
  IN /\ Lines(text) = LinesAfter(l, r, Column(t, c))
     /\ <<Row(text, caret), Column(text, caret)>> = PlaceAfter(l, r, Column(t, c))

EditsWord(t, c) == \E i, j \in 0..Len(t) :
  /\ Nearest(t, c, i, j)
  /\ text = Splice(t, i, j, IF op[1] = "replace_word" THEN Value ELSE <<>>)
  /\ caret = IF op[1] = "replace_word" THEN i + Len(Value)
             ELSE IF op[2] = "previous" THEN c - (j - i) ELSE c

EditsCharacter(t, c) ==
  LET p == IF op[2] = "previous" THEN c ELSE c + 1
  IN p \in 1..Len(t) /\ text = Splice(t, p - 1, p, <<>>) /\ caret = p - 1

\* A command that nobody interferes with does what it is named for: an operation
\* on the list of lines, or on the word, character or selection at the caret;
\* content and caret, in every field and at every position: first, last, empty and
\* only lines, words cut by the caret, line breaks at either end.
EditIsExact == (op \in EditOps /\ outcome = "done" /\ foreign = 0) =>
  LET t == base.text
      c == base.caret
      s == base.sels[1]
  IN /\ op[1] \in LineOps => EditsLines(t, c)
     /\ op[1] \in WordOps => EditsWord(t, c)
     /\ op[1] = "delete_character" => EditsCharacter(t, c)
     /\ op[1] = "delete_selection" => text = Splice(t, s[1], s[2], <<>>)
     /\ op[1] = "replace_selection" =>
          text = Splice(t, s[1], s[2], Value) /\ caret = s[1] + Len(Value)
     /\ op[1] = "insert_at_caret" => text = Splice(t, c, c, Value) /\ caret = c + Len(Value)
     /\ op[1] = "set_text" => text = Value

-----------------------------------------------------------------------------
(* Statements of the repository's own texts. *)

\* "replace exactly the previous or next bounded Unicode word": nothing but one
\* word of the field is replaced.
ReplacesExactly == (outcome = "done" /\ op[1] = "replace_word") =>
  \E t \in held : text = Splice(t, plan.from, plan.to, plan.new)
=============================================================================
