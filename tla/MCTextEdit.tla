----------------------------- MODULE MCTextEdit -----------------------------
(* TextEdit and TextMarks on small fields: one command of either kind.         *)
EXTENDS TextEdit, TextMarks

Init == EditInit \/ MarkInit
Next == EditStep \/ MarkStep \/ ReadFails \/ Foreign
Spec == Init /\ [][Next]_vars

MCValue == <<"v">>
MCPad == <<"space", "space">>
MCChars == {"w", "space", Newline}

MCTexts == {<<>>, <<"tab", "w">>, <<"space", "tab", "w">>, <<"w", Newline, Newline, "w">>}
  \cup UNION {[1..n -> MCChars] : n \in 1..3}
=============================================================================
