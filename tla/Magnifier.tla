----------------------------- MODULE Magnifier -----------------------------
(***************************************************************************)
(* clausis-magnifier-filter (magnifier_filter.py): brightness or contrast  *)
(* of the screen magnifier is three settings, one for each channel, read,  *)
(* written and rolled back by one call of gsettings each.  SafeExecutor    *)
(* kills the command after 15 seconds; the user may move the same sliders  *)
(* meanwhile.                                                              *)
(*                                                                         *)
(* gsettings sets what it is told to or exits with an error and sets       *)
(* nothing.                                                                *)
(***************************************************************************)
EXTENDS Integers

CONSTANTS
  Filters,   \* values of a channel
  Channels   \* number of channels, 3 in the code

ASSUME MagnifierAssumption == Filters # {} /\ Channels \in Nat \ {0}

VARIABLES
  setting,   \* setting[k]: the value of channel k
  value,     \* the value that is to be set
  pass,      \* "read", "write", "undo", "end"
  channel,   \* the channel that is next
  old,       \* the values that were read
  changed,   \* how many channels were changed
  exit,      \* "ok", "error", "aborted"; "none" while it runs
  origin,    \* history: the settings when it began
  disturbed, \* history: somebody else changed a channel
  lost       \* history: a channel could not be rolled back

filterVars == <<setting, value, pass, channel, old, changed, exit, origin, disturbed, lost>>

Settings == [1..Channels -> Filters]

\* An entry of old is read before it is used.
FilterStart ==
  /\ channel = 1 /\ old = [k \in 1..Channels |-> value] /\ changed = 0 /\ exit = "none"
  /\ origin = setting /\ disturbed = FALSE /\ lost = FALSE

FilterInit == setting \in Settings /\ value \in Filters /\ pass = "read" /\ FilterStart

\* No filter is set.
FilterIdle ==
  /\ value = CHOOSE v \in Filters : TRUE
  /\ setting = [k \in 1..Channels |-> value] /\ pass = "end" /\ FilterStart

-----------------------------------------------------------------------------
Exits(r) == pass' = "end" /\ exit' = r /\ UNCHANGED channel

\* All channels are read first; an error ends the command.
GetChannel ==
  /\ pass = "read"
  /\ \/ /\ old' = [old EXCEPT ![channel] = setting[channel]]
        /\ IF channel = Channels THEN channel' = 1 /\ pass' = "write"
           ELSE channel' = channel + 1 /\ UNCHANGED pass
        /\ UNCHANGED exit
     \/ Exits("error") /\ UNCHANGED old
  /\ UNCHANGED <<setting, value, changed, origin, disturbed, lost>>

SetChannel ==
  /\ pass = "write"
  /\ setting' = [setting EXCEPT ![channel] = value] /\ changed' = channel
  /\ IF channel = Channels THEN Exits("ok") ELSE channel' = channel + 1 /\ UNCHANGED <<pass, exit>>
  /\ UNCHANGED <<value, old, origin, disturbed, lost>>

\* A CalledProcessError starts the rollback.
SetFails ==
  /\ pass = "write"
  /\ pass' = "undo" /\ channel' = 1
  /\ UNCHANGED <<setting, value, old, changed, exit, origin, disturbed, lost>>

\* Mutant: the channel that was changed last is left out.
UndoAllButLast ==
  /\ pass = "undo"
  /\ \/ /\ channel < changed
        /\ setting' = [setting EXCEPT ![channel] = old[channel]] /\ channel' = channel + 1
        /\ UNCHANGED <<pass, exit, lost>>
     \/ channel >= changed /\ Exits("error") /\ UNCHANGED <<setting, lost>>
  /\ UNCHANGED <<value, old, changed, origin, disturbed>>

\* The channels that were changed are set back, one by one; an error is not noticed.
UndoChannel ==
  /\ pass = "undo"
  /\ \/ /\ channel <= changed
        /\ \/ setting' = [setting EXCEPT ![channel] = old[channel]] /\ UNCHANGED lost
           \/ lost' = TRUE /\ UNCHANGED setting
        /\ channel' = channel + 1 /\ UNCHANGED <<pass, exit>>
     \/ channel > changed /\ Exits("error") /\ UNCHANGED <<setting, lost>>
  /\ UNCHANGED <<value, old, changed, origin, disturbed>>

\* SafeExecutor's timeout kills the command, or it ends with another exception, which
\* starts no rollback; a gsettings that runs then ends by itself.
FilterAborted ==
  /\ pass # "end" /\ Exits("aborted")
  /\ setting' \in {setting} \cup
       CASE pass = "write" -> {[setting EXCEPT ![channel] = value]}
         [] pass = "undo" /\ channel <= changed -> {[setting EXCEPT ![channel] = old[channel]]}
         [] OTHER -> {setting}
  /\ UNCHANGED <<value, old, changed, origin, disturbed, lost>>

\* Somebody else sets a channel.
Disturb ==
  /\ pass # "end" /\ ~disturbed
  /\ \E k \in 1..Channels : \E v \in Filters \ {setting[k]} : setting' = [setting EXCEPT ![k] = v]
  /\ disturbed' = TRUE
  /\ UNCHANGED <<value, pass, channel, old, changed, exit, origin, lost>>

FilterNext == GetChannel \/ SetChannel \/ SetFails \/ UndoChannel \/ FilterAborted \/ Disturb

FilterSpec == FilterInit /\ [][FilterNext]_filterVars

-----------------------------------------------------------------------------
(* Properties. *)

\* A command that reports success has set every channel; one that reports an error
\* has left every channel as it was, unless a rollback failed as well; and one that
\* was killed has left every channel at its old or its new value, while nobody else
\* set the same channels.
FilterIsWhole ==
  ~disturbed =>
    /\ exit = "ok" => \A k \in 1..Channels : setting[k] = value
    /\ exit = "error" /\ ~lost => setting = origin
    /\ exit = "aborted" => \A k \in 1..Channels : setting[k] \in {value, origin[k]}
=============================================================================
