------------------------------ MODULE VoiceLoop ------------------------------
(***************************************************************************)
(* The local voice loop of src/clausis/assistant.py: the wake gate         *)
(* (LocalActivationController), the dialog runtime (VoiceRuntime) with its *)
(* correction slot, and the order in which main() drives them while        *)
(* recording, speech output and the broker take their time or fail.        *)
(*                                                                         *)
(* An utterance is what it means to the gate and the router.  Time passes  *)
(* while the loop records, speaks or waits for the broker; what it         *)
(* computes in between takes no time.                                      *)
(***************************************************************************)
EXTENDS Naturals

CONSTANTS
  ActiveSeconds, \* LocalActivationController.active_seconds (25 in the code)
  CorrectionTtl, \* VoiceRuntime._correction_ttl_seconds (30 in the code)
  Grace,         \* CORRECTION_EXPIRY_GRACE_SECONDS (5 in the code)
  None,          \* no value: no correction pending, no command, nothing heard
  MaxTime        \* bound on the clock

\* What the router makes of a command: the voice.* requests, any other request
\* for the broker, or no match.
Command == {"stop", "cancel", "correct", "repeat", "action", "other"}

ASSUME VoiceAssumption ==
  /\ ActiveSeconds \in Nat \ {0} /\ CorrectionTtl \in Nat \ {0} /\ Grace \in Nat \ {0}
  /\ MaxTime \in Nat /\ None \notin Nat \cup Command

\* A transcript: an optional wake phrase and what follows it.  "nothing" without
\* a wake phrase is a transcript of punctuation, "silence" an empty one.
Utterance == [wake : BOOLEAN, says : Command \cup {"sleep", "nothing"}]
               \cup {[wake |-> FALSE, says |-> "silence"]}

\* How main() was started: as a loop, with --once, or with --text.
Mode == {"loop", "once", "text"}

\* Where main() is: recording, a transcript at the gate, speaking the gate's
\* announcement, handling a command, waiting for the broker or Hermes, speaking
\* the answer, speaking a SpeechError, ended.
Phase == {"listen", "gate", "announce", "handle", "act", "respond", "report", "ended"}

VARIABLES
  now,      \* time.monotonic()
  mode,     \* the arguments of main()
  text,     \* pending_text
  phase,    \* where main() is
  heard,    \* the utterance at the gate
  command,  \* gated.command, as the router understands it
  gate,     \* LocalActivationController.state
  deadline, \* LocalActivationController._deadline
  runtime,  \* VoiceRuntime.state
  slot,     \* _correction_deadline while a correction is pending, else None
  accepted, \* history: when the gate last let an utterance in
  fresh,    \* history: the last accepted utterance was addressed to the assistant
  stopped   \* history: a stop phrase reached the gate

vars == <<now, mode, text, phase, heard, command, gate, deadline, runtime, slot,
          accepted, fresh, stopped>>

Later(a, b) == IF a >= b THEN a ELSE b

\* The longest the gate may stay open after an utterance it let in.
LongestWindow == Later(ActiveSeconds, CorrectionTtl + Grace)

Init ==
  /\ now = 0 /\ mode \in Mode
  /\ IF mode = "text" THEN text \in Utterance ELSE text = None
  /\ phase = "listen" /\ heard = None /\ command = None
  /\ gate = "sleeping" /\ deadline = 0
  /\ runtime = "idle" /\ slot = None
  /\ accepted = None /\ fresh = FALSE /\ stopped = FALSE

Tick ==
  /\ now < MaxTime /\ phase \in {"listen", "announce", "act", "respond", "report"}
  /\ now' = now + 1
  /\ UNCHANGED <<mode, text, phase, heard, command, gate, deadline, runtime, slot,
                 accepted, fresh, stopped>>

-----------------------------------------------------------------------------
(* Getting a transcript. *)

Hear(u) ==
  /\ phase = "listen" /\ phase' = "gate" /\ heard' = u
  /\ UNCHANGED <<now, mode, command, gate, deadline, runtime, slot, accepted, fresh, stopped>>

\* The text of --text is used once; then there is only the microphone.
TakeText == text # None /\ Hear(text) /\ text' = None

Record == text = None /\ UNCHANGED text /\ \E u \in Utterance : Hear(u)

RecordFails ==
  /\ phase = "listen" /\ text = None
  /\ phase' = "report"
  /\ UNCHANGED <<now, mode, text, heard, command, gate, deadline, runtime, slot,
                 accepted, fresh, stopped>>

-----------------------------------------------------------------------------
(* The gate: LocalActivationController.ingest. *)

Bypass == mode = "text"

\* Mutant: the gate's deadline is never looked at.
LapsedNever == gate

\* The gate's state after its own deadline has been looked at.
Lapsed == IF gate = "awake" /\ now >= deadline THEN "sleeping" ELSE gate

IsStop(u)  == ~u.wake /\ u.says = "stop"
IsSleep(u) == ~u.wake /\ u.says = "sleep"

\* An utterance that opens the gate, or that the open gate lets in.
Activates(u) ==
  /\ ~IsStop(u) /\ ~IsSleep(u) /\ u # [wake |-> FALSE, says |-> "nothing"]
  /\ gate # "stopped"
  /\ Bypass \/ u.wake \/ Lapsed = "awake"

\* The command that gets through.  A wake phrase is cut off unless the gate was
\* bypassed; a sleep phrase behind one is nothing the router knows.
Commanded(u) ==
  IF IsStop(u) THEN "stop"
  ELSE IF ~Activates(u) THEN None
  ELSE IF u.wake /\ Bypass THEN "other"
  ELSE IF u.says = "nothing" THEN None
  ELSE IF u.says = "sleep" THEN "other" ELSE u.says

Announced(u) ==
  \/ IsStop(u)
  \/ gate # "stopped" /\ IsSleep(u)
  \/ ~Bypass /\ Activates(u) /\ u.says = "nothing"

\* The gate's state after u.
Gated(u) ==
  IF IsStop(u) THEN "stopped"
  ELSE IF gate = "stopped" \/ u = [wake |-> FALSE, says |-> "nothing"] THEN gate
  ELSE IF IsSleep(u) THEN "sleeping"
  ELSE IF Activates(u) THEN "awake" ELSE Lapsed

GatedDeadline(u) ==
  IF Activates(u) THEN now + ActiveSeconds
  ELSE IF IsSleep(u) /\ gate # "stopped" THEN 0 ELSE deadline

\* Mutant: extend_awake_for wakes a stopped gate.
SynchronizedReviving(g, d, s, r) ==
  /\ gate' = IF s # None /\ g # "sleeping" THEN "awake" ELSE g
  /\ slot' = IF g = "sleeping" THEN None ELSE s
  /\ runtime' = IF g = "sleeping" /\ r = "correcting" THEN "idle" ELSE r
  /\ deadline' = IF g # "sleeping" /\ s # None
                 THEN Later(d, now + Later(s, now) - now + Grace) ELSE d

\* Mutant: a gate that goes to sleep leaves the correction pending.
SynchronizedKeeping(g, d, s, r) ==
  /\ gate' = g /\ slot' = s /\ runtime' = r
  /\ deadline' = IF g = "awake" /\ s # None
                 THEN Later(d, now + Later(s, now) - now + Grace) ELSE d

\* _synchronize_correction_gate, for a gate g with deadline d, a slot s and a
\* runtime r: a sleeping gate cancels the correction, a pending correction keeps
\* the gate open, a stopped gate stays stopped.
Synchronized(g, d, s, r) ==
  /\ gate' = g
  /\ slot' = IF g = "sleeping" THEN None ELSE s
  /\ runtime' = IF g = "sleeping" /\ r = "correcting" THEN "idle" ELSE r
  /\ deadline' = IF g = "awake" /\ s # None
                 THEN Later(d, now + Later(s, now) - now + Grace) ELSE d

\* The next iteration, unless the loop is over.
NextIteration == IF mode = "loop" /\ runtime # "stopped" THEN "listen" ELSE "ended"

\* "continue" after a transcript that held no command.
Continue(g) == IF mode = "once" /\ g # "awake" THEN "ended" ELSE "listen"

IngestNothing ==
  /\ phase = "gate" /\ heard.says = "silence"
  /\ phase' = "report"
  /\ UNCHANGED <<now, mode, text, heard, command, gate, deadline, runtime, slot,
                 accepted, fresh, stopped>>

Ingest ==
  /\ phase = "gate" /\ heard.says # "silence"
  /\ command' = Commanded(heard)
  /\ Synchronized(Gated(heard), GatedDeadline(heard), slot, runtime)
  /\ phase' = IF Announced(heard) THEN "announce"
              ELSE IF Commanded(heard) = None THEN Continue(Gated(heard)) ELSE "handle"
  /\ accepted' = IF Activates(heard) THEN now ELSE accepted
  /\ fresh' = IF Activates(heard)
              THEN Bypass \/ heard.wake \/ (accepted # None /\ now < accepted + LongestWindow)
              ELSE fresh
  /\ stopped' = (stopped \/ IsStop(heard))
  /\ UNCHANGED <<now, mode, text, heard>>

Announce ==
  /\ phase = "announce"
  /\ phase' \in {IF command = None THEN Continue(gate) ELSE "handle", "report"}
  /\ UNCHANGED <<now, mode, text, heard, command, gate, deadline, runtime, slot,
                 accepted, fresh, stopped>>

-----------------------------------------------------------------------------
(* VoiceRuntime.handle_transcript, and what main() does with its result. *)

Overdue == slot # None /\ now >= slot

\* The runtime answers on its own; the slot becomes s and the state r, and the
\* gate g is brought in line with them.
Answered(c, s, r, g) ==
  /\ phase = "handle" /\ command = c
  /\ phase' = "respond"
  /\ Synchronized(g, IF g = "sleeping" THEN 0 ELSE deadline, s, r)
  /\ UNCHANGED <<now, mode, text, heard, command, accepted, fresh, stopped>>

HandleStop   == Answered("stop", None, "stopped", gate)
HandleCancel == Answered("cancel", None, "idle", gate)

\* Mutant: the gate is brought in line with the runtime only after the answer was
\* spoken, which a SpeechError skips.
HandleCorrectUnsynchronized ==
  /\ phase = "handle" /\ command = "correct"
  /\ phase' = "respond" /\ slot' = now + CorrectionTtl /\ runtime' = "correcting"
  /\ UNCHANGED <<now, mode, text, heard, command, gate, deadline, accepted, fresh, stopped>>

HandleCorrect == Answered("correct", now + CorrectionTtl, "correcting", gate)

\* The first late utterance is discarded and the gate goes to sleep.
HandleOverdue ==
  /\ Overdue
  /\ \E c \in {"repeat", "action", "other"} :
       Answered(c, None, "idle", IF gate = "stopped" THEN gate ELSE "sleeping")

HandleRepeat ==
  /\ ~Overdue
  /\ Answered("repeat", slot, IF slot # None THEN "correcting" ELSE "idle", gate)

\* Without a Hermes fallback; whether one is configured is left open.
HandleUnmatched == ~Overdue /\ Answered("other", None, "idle", gate)

\* The slot is used up before the broker or Hermes is called.
HandleCall ==
  /\ phase = "handle" /\ command \in {"action", "other"} /\ ~Overdue
  /\ phase' = "act" /\ slot' = None /\ runtime' = "processing"
  /\ UNCHANGED <<now, mode, text, heard, command, gate, deadline, accepted, fresh, stopped>>

CallReturns ==
  /\ phase = "act"
  /\ phase' = "respond"
  /\ Synchronized(gate, deadline, slot, "idle")
  /\ UNCHANGED <<now, mode, text, heard, command, accepted, fresh, stopped>>

Respond ==
  /\ phase = "respond"
  /\ phase' \in {NextIteration, "report"}
  /\ UNCHANGED <<now, mode, text, heard, command, gate, deadline, runtime, slot,
                 accepted, fresh, stopped>>

\* A SpeechError is spoken, or only printed if that fails too.
Report ==
  /\ phase = "report"
  /\ phase' = NextIteration
  /\ UNCHANGED <<now, mode, text, heard, command, gate, deadline, runtime, slot,
                 accepted, fresh, stopped>>

Interrupt ==
  /\ phase # "ended"
  /\ phase' = "ended"
  /\ UNCHANGED <<now, mode, text, heard, command, gate, deadline, runtime, slot,
                 accepted, fresh, stopped>>

Next ==
  \/ Tick \/ TakeText \/ Record \/ RecordFails
  \/ IngestNothing \/ Ingest \/ Announce
  \/ HandleStop \/ HandleCancel \/ HandleCorrect \/ HandleOverdue \/ HandleRepeat
  \/ HandleUnmatched \/ HandleCall \/ CallReturns
  \/ Respond \/ Report \/ Interrupt

Spec == Init /\ [][Next]_vars

-----------------------------------------------------------------------------
(* Properties. *)

\* Every variable keeps its type.
TypeOK ==
  /\ now \in Nat /\ mode \in Mode /\ text \in Utterance \cup {None} /\ phase \in Phase
  /\ heard \in Utterance \cup {None} /\ command \in Command \cup {None}
  /\ gate \in {"sleeping", "awake", "stopped"} /\ deadline \in Nat
  /\ runtime \in {"idle", "processing", "correcting", "stopped"}
  /\ slot \in Nat \cup {None} /\ accepted \in Nat \cup {None}
  /\ fresh \in BOOLEAN /\ stopped \in BOOLEAN

\* Speech not addressed to the assistant never reaches the broker or Hermes: a
\* command without a wake phrase acts only if it follows an accepted utterance
\* within the wake window or the correction window, however often corrections,
\* repeats and stray transcripts have moved the gate's deadline.
UnaddressedNeverActs == phase = "act" => fresh

\* Nothing acts after a stop phrase, and nothing wakes the gate again, also when a
\* correction was pending or the speech output failed.
StopIsHeeded == stopped => gate = "stopped" /\ phase # "act"

\* A correction is pending only behind an open gate, and the runtime knows it: no
\* slot survives a sleeping gate to swallow a later command.
SlotIsGated == slot # None =>
  gate # "sleeping" /\ (phase \in {"listen", "respond", "report"} => runtime = "correcting")

\* A pending correction can be given until its deadline: whenever the loop listens
\* the gate stays open for the rest of the slot and the grace after it, although
\* the wake window is shorter and although speech output may have failed.
SlotStaysReachable ==
  slot # None /\ gate = "awake" /\ phase \in {"listen", "respond", "report"}
    => deadline >= slot + Grace

=============================================================================
