----------------------------- MODULE Decisions -----------------------------
(***************************************************************************)
(* The commands of PyAtSpiDesktop that press one control and must not      *)
(* press another (src/clausis/gnome_adapter.py): the decision of a file,   *)
(* standard or permission dialog, a numbered or named control, a menu      *)
(* item, the dismissal of a notification, and the actions that are pressed *)
(* at once (back, window and shell actions, opening a folder).             *)
(*                                                                         *)
(* Finding a control and pressing it are separate calls to a desktop that  *)
(* changes in between: another window comes up, a dialog asks a second     *)
(* question in the same window, a window opens or closes.  So a command    *)
(* finds everything twice and compares before it presses, and a dialog     *)
(* must afterwards be missing from an otherwise unchanged list of windows. *)
(*                                                                         *)
(* For a notification the list is that of the visible notifications, and   *)
(* what is pressed is one of them.                                         *)
(***************************************************************************)
EXTENDS Naturals, Sequences

CONSTANTS
  Windows,    \* windows of an application, or notifications
  Nodes,      \* accessible objects that may be its controls
  Nobody,     \* no window, no control
  MaxChanges  \* bound on the changes of the desktop while a command runs

\* What tells two controls apart: opposite decisions, numbers or names.
Labels == {"first", "second"}

ASSUME DecisionAssumption ==
  /\ Nobody \notin Windows \cup Nodes /\ MaxChanges \in Nat
  /\ Windows \cap Nodes = {}

\* Decisions that need the opposite control too, and await the dialog's end;
\* what is found twice; what is pressed as it was found, in the window or the Shell.
\* (A dialog with nothing but a close button is a pair of which one is asked for.)
Pairs == {"dialog"}
Twice == Pairs \cup {"numbered", "named", "menu"}
Once == {"direct", "shell"}
Requests == (Twice \cup Once \cup {"notification"}) \X Labels
NoRequest == <<"none", "">>

\* Which control carries a label; Unclear when one is missing or ambiguous.
Unclear == [l \in Labels |-> Nobody]
Layouts == {Unclear} \cup
  {f \in [Labels -> Nodes] : \A k, l \in Labels : f[k] = f[l] => k = l}

VARIABLES
  windows, active, shows, \* the desktop: the list, the window in front, its controls
  request, \* the command and the label it is to press
  phase,   \* where it is
  dialog,  \* the window it works on
  listed,  \* the list as it was first read
  bound,   \* the controls as they were first found
  rebound, \* the controls it presses one of
  verdict, \* "done", "refused", "rejected", "unconfirmed"; "" while it runs
  decided, \* history: the control and the label it had when it was pressed
  stale,   \* history: the desktop changed since the labels were last compared
  changes

desktop == <<windows, active, shows>>
findings == <<dialog, listed, bound, rebound>>
decisionVars == <<desktop, request, phase, findings, verdict, decided, stale, changes>>

does == request[1]
label == request[2]

Distinct(q) == \A i, j \in DOMAIN q : q[i] = q[j] => i = j
Lists == {q \in UNION {[1..n -> Windows] : n \in 0..2} : Distinct(q)}
InList(w, q) == \E i \in DOMAIN q : q[i] = w
Without(q, w) == SelectSeq(q, LAMBDA x : x # w)

Undecided == [node |-> Nobody, label |-> ""]

DecisionStart ==
  /\ dialog = Nobody /\ listed = <<>> /\ bound = Unclear /\ rebound = Unclear
  /\ verdict = "" /\ decided = Undecided /\ stale = FALSE /\ changes = 0

DecisionInit ==
  /\ windows \in Lists /\ active \in Windows \cup {Nobody} /\ shows \in [Windows -> Layouts]
  /\ request \in Requests
  /\ phase = IF does = "notification" THEN "list" ELSE "window"
  /\ DecisionStart

\* No command presses anything.
DecisionIdle ==
  /\ windows = <<>> /\ active = Nobody /\ shows = [w \in Windows |-> Unclear]
  /\ request = NoRequest /\ phase = "end" /\ DecisionStart

-----------------------------------------------------------------------------
(* Finding. *)

Goes(p) == phase' = p /\ UNCHANGED verdict
Stops(v) == phase' = "end" /\ verdict' = v

\* Something is missing, ambiguous, not of the right role or not readable.
Refuse ==
  /\ phase \in {"window", "bind", "list", "again", "relist", "rebind", "press"}
  /\ Stops("refused")
  /\ UNCHANGED <<desktop, request, findings, decided, stale, changes>>

\* _active_window: exactly one window is active.
FindWindow ==
  /\ phase = "window" /\ does # "shell" /\ active # Nobody
  /\ dialog' = active
  /\ Goes("bind")
  /\ UNCHANGED <<desktop, request, listed, bound, rebound, decided, stale, changes>>

\* A shell action searches the Shell instead, active or not.
FindShell ==
  /\ phase = "window" /\ does = "shell"
  /\ dialog' \in Windows
  /\ Goes("bind")
  /\ UNCHANGED <<desktop, request, listed, bound, rebound, decided, stale, changes>>

\* The controls of that window, active or not by now.
Bind ==
  /\ phase = "bind" /\ shows[dialog] # Unclear
  /\ bound' = shows[dialog] /\ rebound' = shows[dialog] /\ stale' = FALSE
  /\ Goes(CASE does \in Pairs -> "list" [] does \in Twice -> "again" [] OTHER -> "press")
  /\ UNCHANGED <<desktop, request, dialog, listed, decided, changes>>

\* The place of a notification in the list.
Number == IF label = "first" THEN 1 ELSE 2

\* The windows of the application, its dialog among them; or all notifications,
\* the numbered one among them.
List ==
  /\ phase = "list"
  /\ IF does = "notification"
       THEN Number <= Len(windows) /\ dialog' = windows[Number] /\ Goes("relist")
       ELSE InList(dialog, windows) /\ Goes("again") /\ UNCHANGED dialog
  /\ listed' = windows
  /\ UNCHANGED <<desktop, request, bound, rebound, decided, stale, changes>>

FindAgain ==
  /\ phase = "again" /\ active = dialog
  /\ Goes(IF does \in Pairs THEN "relist" ELSE "rebind")
  /\ UNCHANGED <<desktop, request, findings, decided, stale, changes>>

ListAgain ==
  /\ phase = "relist" /\ windows = listed
  /\ Goes(IF does = "notification" THEN "press" ELSE "rebind")
  /\ UNCHANGED <<desktop, request, findings, decided, stale, changes>>

\* The same controls with the same labels: of the pair or the whole order.
SameControls == shows[dialog] # Unclear /\ shows[dialog] = bound

\* The same control under the label, whatever became of the others.
SameItem == shows[dialog][label] = bound[label]

\* The control is still there; its name is not read again.
StillThere == \E l \in Labels : shows[dialog][l] = bound[label]

\* Mutant: the second look is not compared with the first.
RebindUnchecked ==
  /\ phase = "rebind" /\ shows[dialog] # Unclear
  /\ rebound' = shows[dialog] /\ stale' = FALSE /\ Goes("press")
  /\ UNCHANGED <<desktop, request, dialog, listed, bound, decided, changes>>

Rebind ==
  /\ phase = "rebind"
  /\ CASE does \in Pairs \cup {"numbered"} -> SameControls /\ stale' = FALSE
       [] does = "menu" -> SameItem /\ stale' = FALSE
       [] does = "named" -> StillThere /\ UNCHANGED stale
  /\ Goes("press")
  /\ UNCHANGED <<desktop, request, findings, decided, changes>>

-----------------------------------------------------------------------------
(* Pressing. *)

\* The label a control of a window has now; a control that is gone has none.
LabelOf(w, n) == IF \E l \in Labels : shows[w][l] = n
                 THEN CHOOSE l \in Labels : shows[w][l] = n ELSE ""

Pressed == IF does = "notification"
           THEN [node |-> dialog, label |-> label]
           ELSE [node |-> rebound[label], label |-> LabelOf(dialog, rebound[label])]

\* Only these wait for the dialog or notification to be gone.
Awaits == Pairs \cup {"notification"}

\* doAction is accepted, or it says no or raises, with or without an effect.
Press ==
  /\ phase = "press"
  /\ \/ decided' = Pressed /\ (IF does \in Awaits THEN Goes("await") ELSE Stops("done"))
     \/ decided' \in {Undecided, Pressed} /\ Stops("rejected")
  /\ UNCHANGED <<desktop, request, findings, stale, changes>>

Confirm ==
  /\ phase = "await" /\ windows = Without(listed, dialog) /\ Stops("done")
  /\ UNCHANGED <<desktop, request, findings, decided, stale, changes>>

\* Two seconds have passed with another list, or with none that could be read.
GiveUp ==
  /\ phase = "await" /\ Stops("unconfirmed")
  /\ UNCHANGED <<desktop, request, findings, decided, stale, changes>>

\* The application closes the dialog it was told to close, sooner or later.
Closes ==
  /\ phase = "await" /\ InList(dialog, windows)
  /\ windows' = Without(windows, dialog)
  /\ active' = IF active = dialog THEN Nobody ELSE active
  /\ UNCHANGED <<shows, request, phase, findings, verdict, decided, stale, changes>>

-----------------------------------------------------------------------------
\* The desktop changes: another window comes to the front, the list changes, or a
\* window replaces, swaps or loses its controls.
DesktopChange ==
  /\ phase # "end" /\ changes < MaxChanges
  /\ \/ active' \in (Windows \cup {Nobody}) \ {active} /\ UNCHANGED <<windows, shows>>
     \/ windows' \in Lists \ {windows} /\ UNCHANGED <<active, shows>>
     \/ /\ \E w \in Windows, f \in Layouts : f # shows[w] /\ shows' = [shows EXCEPT ![w] = f]
        /\ UNCHANGED <<windows, active>>
  /\ stale' = (decided = Undecided \/ stale) /\ changes' = changes + 1
  /\ UNCHANGED <<request, phase, findings, verdict, decided>>

DecisionNext ==
  \/ Refuse \/ FindWindow \/ FindShell \/ Bind \/ List \/ FindAgain \/ ListAgain \/ Rebind
  \/ Press \/ Confirm \/ GiveUp \/ Closes \/ DesktopChange

DecisionSpec == DecisionInit /\ [][DecisionNext]_decisionVars

-----------------------------------------------------------------------------
(* Properties. *)

\* Whatever a command presses is the control it first found under the label it was
\* asked for, and still the control of that label unless the desktop changed after
\* the last look (for a named control: the first); a refusal has pressed nothing;
\* and a confirmed decision has ended that dialog or notification, and no other
\* window has come or gone.
DecisionIsExact ==
  /\ decided # Undecided =>
       /\ decided.node = (IF does = "notification" THEN listed[Number] ELSE bound[label])
       /\ ~stale => decided.label = label
  /\ verdict = "refused" => decided = Undecided
  /\ verdict = "done" =>
       decided # Undecided /\ (does \in Awaits => windows = Without(listed, dialog))
=============================================================================
