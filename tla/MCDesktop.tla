------------------------------ MODULE MCDesktop ------------------------------
(* The desktop commands on small instances: one command that edits or marks    *)
(* text, one that sets controls, one that presses a control, or a filter of    *)
(* the magnifier, with the user and the applications interfering.              *)
EXTENDS MCTextEdit, Controls, Decisions, Magnifier

\* No command works on text.
TextIdle == EditInit /\ op = <<"set_text", "">> /\ text = <<>>

\* The controls of every window before the desktop changes.
MCShown == CHOOSE f \in Layouts : f # Unclear

DesktopInit ==
  \/ Init /\ ControlIdle /\ DecisionIdle /\ FilterIdle
  \/ TextIdle /\ ControlInit /\ DecisionIdle /\ FilterIdle
  \/ /\ TextIdle /\ ControlIdle /\ DecisionInit /\ FilterIdle
     /\ \A w \in Windows : shows[w] = MCShown
  \/ TextIdle /\ ControlIdle /\ DecisionIdle /\ FilterInit

DesktopNext ==
  \/ /\ task = NoTask /\ request = NoRequest /\ pass = "end" /\ Next
     /\ UNCHANGED <<controlVars, decisionVars, filterVars>>
  \/ task # NoTask /\ ControlNext /\ UNCHANGED <<vars, decisionVars, filterVars>>
  \/ request # NoRequest /\ DecisionNext /\ UNCHANGED <<vars, controlVars, filterVars>>
  \/ FilterNext /\ UNCHANGED <<vars, controlVars, decisionVars>>

DesktopSpec == DesktopInit /\ [][DesktopNext]_<<vars, controlVars, decisionVars, filterVars>>

MCSteps == {0, 1, 4}
MCPercents == {0, 50, 100}
=============================================================================
