------------------------------ MODULE Controls ------------------------------
(***************************************************************************)
(* The commands of PyAtSpiDesktop that change the state of controls and    *)
(* verify it (src/clausis/gnome_adapter.py): check boxes and switches,     *)
(* tree items, radio buttons, lists, tables, tabs, combo boxes and files,  *)
(* sliders and spin buttons, the focus and the active window.              *)
(*                                                                         *)
(* What such a command works on is a row of places, each of which is on or *)
(* off: the one check box, the radio buttons of the window, the items of a *)
(* container, the operable controls, the windows, or the units of a value. *)
(* Every call goes to another process, which may refuse it, do something   *)
(* else, or fail after it did something; the user may change the same      *)
(* places meanwhile.                                                       *)
(***************************************************************************)
EXTENDS Integers, FiniteSets

CONSTANTS
  Width,    \* places in a row
  Full,     \* units between the minimum and the maximum of a value
  Steps,    \* declared increments, 0 for none that is usable
  Percents  \* percentages asked of a slider

Places == 1..Width
Units == 0..Full

\* A percentage that falls between two units needs an increment.
ASSUME ControlAssumption ==
  /\ Width \in Nat \ {0} /\ Full \in Nat \ {0} /\ Steps \subseteq 0..Full
  /\ Percents \subseteq 0..100 /\ (0 \in Steps => \A p \in Percents : (p * Full) % 100 = 0)

\* The commands: what kind of thing is set, and to what.
Tasks ==
  ({"toggle", "tree"} \X {"on", "off"}) \cup ({"radio", "select", "focus"} \X Places)
  \cup ({"cycle", "window"} \X {1, -1}) \cup ({"slider"} \X Percents) \cup ({"spin"} \X Units)
NoTask == <<"none", "">>

Numeric == {"slider", "spin"}
\* Kinds that are read with getState().contains(), which an error turns into "no".
ByState == {"toggle", "tree", "radio", "focus", "cycle", "window"}

VARIABLES
  task,      \* the command
  increment, \* the declared increment of a value
  item,      \* where the named item is among the children that could be listed
  length,    \* how many of them the command looks at
  on,        \* the places that are on
  step,      \* where the command is
  before,    \* the places it found on
  target,    \* the places that are to be on
  accepted,  \* did the application accept the change?
  result,    \* "done", "refused", "restored", "unrestored"; "" while it runs
  start,     \* history: the places that were on when it began
  touched,   \* history: somebody else changed a place
  blind      \* history: a place that was on, or one before the named item, could not be read

controlVars == <<task, increment, item, length, on, step, before, target, accepted, result,
                 start, touched, blind>>
asked == <<task, increment, item, length>>
bindings == <<asked, before, target, start>>

kind == task[1]
arg == task[2]

\* Whatever may be on: a value has one unit, a single control is on or off.
States == CASE kind \in {"toggle", "tree"} -> {{}, {1}}
            [] kind \in Numeric -> {{v} : v \in Units}
            [] OTHER -> SUBSET Places

ControlInit ==
  /\ task \in Tasks /\ increment \in Steps /\ (kind \notin Numeric => increment = 0)
  /\ on \in States /\ start = on /\ item = 0 /\ length = 0
  /\ step = IF kind = "select" THEN "list" ELSE "read"
  /\ before = {} /\ target = {} /\ accepted = FALSE /\ result = ""
  /\ touched = FALSE /\ blind = FALSE

\* Nothing is asked of the controls.
ControlIdle ==
  /\ task = NoTask /\ increment = 0 /\ item = 0 /\ length = 0 /\ on = {} /\ start = {}
  /\ step = "end" /\ before = {} /\ target = {} /\ accepted = FALSE /\ result = ""
  /\ touched = FALSE /\ blind = FALSE

-----------------------------------------------------------------------------
(* What a command is to reach. *)

\* To the nearest multiple of the increment, halves upwards, and at most the maximum.
Snapped(numerator, denominator) ==
  IF increment = 0 THEN numerator \div denominator
  ELSE LET steps == (2 * numerator + denominator * increment) \div (2 * denominator * increment)
       IN IF steps * increment > Full THEN Full ELSE steps * increment

\* The place after, or before, place i, around the row.
Neighbour(i) == ((i - 1 + arg) % Width) + 1

\* What each command may set out to reach, given what is on: one set of places,
\* or none when it refuses by itself.
ToggleGoals(seen) == {IF arg = "on" THEN {1} ELSE {}}

\* A tree item that is so already is refused.
TreeGoals(seen) == ToggleGoals(seen) \ {seen}

\* At most one of the window's radio buttons may be checked.
RadioGoals(seen) == {g \in {{arg}} : Cardinality(seen) <= 1}

\* Items, files, table rows, tabs and combo box items.
SelectGoals(seen) == {{item}}

FocusGoals(seen) == {g \in {{arg}} : Cardinality(seen) = 1}

\* Without a focus the first or the last control gets it.
CycleGoals(seen) ==
  IF seen = {} THEN {{IF arg = 1 THEN 1 ELSE Width}}
  ELSE {g \in {{Neighbour(i)} : i \in seen} : Cardinality(seen) = 1}

WindowGoals(seen) == {g \in {{Neighbour(i)} : i \in seen} : Cardinality(seen) = 1 /\ Width > 1}

SliderGoals(seen) == {{Snapped(arg * Full, 100)}}

\* A number between two increments is refused.
SpinGoals(seen) == {g \in {{Snapped(arg, 1)}} : g = {arg}}

Goals(seen) ==
  CASE kind = "toggle" -> ToggleGoals(seen)  [] kind = "tree" -> TreeGoals(seen)
    [] kind = "radio" -> RadioGoals(seen)    [] kind = "select" -> SelectGoals(seen)
    [] kind = "focus" -> FocusGoals(seen)    [] kind = "cycle" -> CycleGoals(seen)
    [] kind = "window" -> WindowGoals(seen)  [] kind = "slider" -> SliderGoals(seen)
    [] kind = "spin" -> SpinGoals(seen)

\* Kinds that have nothing to do when the target is on already.
Idempotent == {"toggle", "radio", "focus"} \cup Numeric

-----------------------------------------------------------------------------
(* A command. *)

\* What a command sees of the places: an error hides one that is on, or the items
\* past the end of its list.
Sees(seen) ==
  /\ seen \in IF kind \in ByState THEN SUBSET on
              ELSE IF kind = "select" THEN {on \cap 1..length} ELSE {on}
  /\ blind' = (blind \/ seen # on)

Ends(r) == step' = "end" /\ result' = r

\* The children of a container are fetched twice, to find the named item and to go
\* through the selection: one that is missing moves up those after it, an error
\* cuts off the rest.
ListChildren ==
  /\ step = "list"
  /\ \/ /\ item' \in 1..arg /\ length' \in item'..Width
        /\ blind' = (item' # arg) /\ step' = "read" /\ UNCHANGED result
     \/ Ends("refused") /\ UNCHANGED <<item, length, blind>>
  /\ UNCHANGED <<task, increment, on, before, target, accepted, start, touched>>

\* Names, roles and actions are checked, what is on is read; anything that is
\* missing, ambiguous or unreadable is a refusal.
Read ==
  /\ step = "read"
  /\ \E seen \in SUBSET on :
       /\ Sees(seen)
       /\ before' = seen
       /\ \/ Ends("refused") /\ UNCHANGED target
          \/ /\ target' \in Goals(seen)
             /\ IF kind \in Idempotent /\ target' = seen
                  THEN Ends("done") ELSE step' = "act" /\ UNCHANGED result
  /\ UNCHANGED <<asked, on, accepted, start, touched>>

\* doAction, setCurrentValue, grabFocus, or clearSelection and selectChild: the
\* application answers yes or no and does what it does, or raises after that.
Act ==
  /\ step = "act"
  /\ on' \in States
  /\ \/ accepted' \in {TRUE, FALSE} /\ step' = "check"
     \/ accepted' = FALSE /\ step' = "restore"
  /\ UNCHANGED <<bindings, result, touched, blind>>

\* Mutant: the target is read, the other places are not.
CheckTargetOnly ==
  /\ step = "check"
  /\ \E seen \in SUBSET on :
       /\ Sees(seen)
       /\ \/ accepted /\ target \subseteq seen /\ Ends("done")
          \/ ~(accepted /\ target \subseteq seen) /\ step' = "restore" /\ UNCHANGED result
  /\ UNCHANGED <<bindings, on, accepted, touched>>

\* Success needs the acceptance and every place as it is to be; a reading of a
\* selection or a value that raises counts as a difference.
Check ==
  /\ step = "check"
  /\ \E seen \in SUBSET on :
       /\ Sees(seen)
       /\ \/ accepted /\ seen = target /\ Ends("done")
          \/ /\ ~(accepted /\ seen = target /\ kind \in ByState)
             /\ step' = "restore" /\ UNCHANGED result
  /\ UNCHANGED <<bindings, on, accepted, touched>>

\* What was on is on still, except for a selection, which is always put back; or
\* there is nothing that could be called to put it back.
RollBack ==
  /\ step = "restore"
  /\ \E seen \in SUBSET on :
       /\ Sees(seen)
       /\ \/ kind # "select" /\ seen = before /\ Ends("restored")
          \/ kind = "select" /\ step' = "putback" /\ UNCHANGED result
          \/ /\ kind # "select" /\ seen # before
             /\ \/ kind \in {"radio", "cycle"} /\ before = {} /\ Ends("unrestored")
                \/ kind \in {"tree", "radio"} \cup Numeric /\ Ends("unrestored")
                \/ ~(kind \in {"radio", "cycle"} /\ before = {}) /\ step' = "putback"
                   /\ UNCHANGED result
  /\ UNCHANGED <<bindings, on, accepted, touched>>

\* The opposite action, the previous radio button, value, focus, window or the
\* previous items, one by one; the answer counts except for a value.
Undo ==
  /\ step = "putback"
  /\ on' \in States
  /\ \/ step' = "recheck" /\ UNCHANGED result
     \/ Ends("unrestored")
  /\ UNCHANGED <<bindings, accepted, touched, blind>>

\* Mutant: an accepted rollback is taken for a complete one.
UndoUnchecked ==
  /\ step = "recheck" /\ Ends("restored")
  /\ UNCHANGED <<bindings, on, accepted, touched, blind>>

CheckUndo ==
  /\ step = "recheck"
  /\ \E seen \in SUBSET on :
       Sees(seen) /\ Ends(IF seen = before THEN "restored" ELSE "unrestored")
  /\ UNCHANGED <<bindings, on, accepted, touched>>

\* The user, or the application by itself or late, changes a place.
Touch ==
  /\ step # "end" /\ ~touched
  /\ on' \in States /\ on' # on /\ touched' = TRUE
  /\ UNCHANGED <<bindings, step, accepted, result, blind>>

ControlNext == ListChildren \/ Read \/ Act \/ Check \/ RollBack \/ Undo \/ CheckUndo \/ Touch

ControlSpec == ControlInit /\ [][ControlNext]_controlVars

-----------------------------------------------------------------------------
(* Properties. *)

\* Within half an increment of the percentage that was asked for, or exactly there.
Nearly(v) == v \in Units /\ LET off == 100 * v - arg * Full
                            IN -100 * increment <= 2 * off /\ 2 * off <= 100 * increment

\* What the command is named for, places that it does not name included.
IsExact ==
  CASE kind \in {"toggle", "tree"} -> on = IF arg = "on" THEN {1} ELSE {}
    [] kind \in {"radio", "select", "focus", "spin"} -> on = {arg}
    [] kind \in {"cycle", "window"} /\ start = {} -> on = {IF arg = 1 THEN 1 ELSE Width}
    [] kind \in {"cycle", "window"} /\ start # {} -> \E i \in start :
         on = {IF i + arg \in Places THEN i + arg ELSE IF arg = 1 THEN 1 ELSE Width}
    [] kind = "slider" -> \E v \in on : on = {v} /\ Nearly(v)

\* The place it names is on.
NamedIsOn == CASE kind \in {"radio", "focus"} -> arg \in on
               [] kind \in {"toggle", "tree"} -> arg = "on" => 1 \in on
               [] OTHER -> TRUE

\* A command that reports success has set exactly what it names and nothing else,
\* whatever the application answered and did, while nobody else changed the same
\* places and every place could be read; where one could not, the place it names is
\* on even so, unless it is an item of a list.  A command that refuses has set
\* nothing.
ControlIsExact ==
  /\ result = "done" /\ ~touched /\ ~blind => IsExact
  /\ result = "done" /\ ~touched => NamedIsOn
  /\ result = "refused" /\ ~touched => on = start

\* A command that failed and does not say that its rollback failed has left every
\* place as it was: the other radio buttons, all previous items, the value.  Where
\* it could not read a place, what it had read as on is on again.
ControlRollbackRestores ==
  /\ result = "restored" /\ ~touched /\ ~blind => on = start
  /\ result = "restored" /\ ~touched => before \subseteq on
=============================================================================
