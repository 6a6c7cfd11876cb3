---------------------------- MODULE VoiceLoopProofs ----------------------------
(***************************************************************************)
(* Proofs about VoiceLoop, for every length of the wake window, of the     *)
(* correction window and of the grace, and for conversations of any length.*)
(*                                                                         *)
(* The gate's deadline and the runtime's slot are two clocks.  IInv says   *)
(* how far the first may run ahead of the last accepted utterance, and     *)
(* that it only runs further while the second is overdue, which stops      *)
(* every action.                                                           *)
(***************************************************************************)
EXTENDS VoiceLoop, TLAPS

\* The transcript at the gate is one; what was accepted was accepted by now.
HeardInv ==
  /\ phase = "gate" => heard \in Utterance
  /\ accepted # None => accepted <= now

\* A pending correction: an open gate that stays open for it, a runtime that knows
\* it, and an accepted utterance it belongs to.
SlotInv == slot # None =>
  /\ gate # "sleeping" /\ runtime = "correcting"
  /\ accepted # None /\ slot <= accepted + CorrectionTtl
  /\ gate = "awake" => deadline >= slot + Grace

\* An open gate closes in time, unless an overdue correction keeps it open.
WindowInv == gate = "awake" =>
  accepted # None /\ (deadline <= accepted + LongestWindow \/ Overdue)

\* A command that is handled was accepted just now, or is the stop phrase.
HandleInv == phase = "handle" =>
  /\ gate = "awake" => accepted = now /\ deadline <= now + LongestWindow
  /\ command \in Command \ {"stop"} => gate = "awake" /\ (fresh \/ Overdue)

\* An announcement with a command to follow is that of the stop phrase.
AnnounceInv == phase = "announce" =>
  command = None \/ (command = "stop" /\ gate = "stopped")

\* Whatever acts was addressed to the assistant, and has used up its slot.
ActInv == phase = "act" => slot = None /\ fresh

\* After a stop phrase only the stop phrase is handled.
StopInv == stopped =>
  /\ gate = "stopped" /\ phase # "act"
  /\ phase = "handle" => command = "stop" \/ command = None

IInv == /\ TypeOK /\ HeardInv /\ SlotInv /\ WindowInv /\ HandleInv
        /\ AnnounceInv /\ ActInv /\ StopInv

-----------------------------------------------------------------------------
(* Lemmas about the operators. *)

\* The longest window covers both of the windows it is made of.
LEMMA WindowBounds ==
  /\ LongestWindow \in Nat
  /\ ActiveSeconds <= LongestWindow /\ CorrectionTtl + Grace <= LongestWindow
  BY VoiceAssumption DEF LongestWindow, Later

\* What the gate makes of an utterance.
LEMMA GateAnswers ==
  ASSUME TypeOK, NEW u \in Utterance, u.says # "silence"
  PROVE  /\ Commanded(u) \in Command \cup {None}
         /\ Gated(u) \in {"sleeping", "awake", "stopped"}
         /\ GatedDeadline(u) \in Nat
         /\ gate = "stopped" \/ IsStop(u) => Gated(u) = "stopped"
         /\ gate = "stopped" /\ ~IsStop(u) => Commanded(u) = None
         /\ IsStop(u) => Commanded(u) = "stop" /\ ~Activates(u)
         /\ Commanded(u) # None /\ ~IsStop(u) => Activates(u)
         /\ Activates(u) => Gated(u) = "awake" /\ GatedDeadline(u) = now + ActiveSeconds
         /\ Gated(u) = "awake" /\ ~Activates(u) =>
              gate = "awake" /\ Commanded(u) = None /\ GatedDeadline(u) = deadline
  BY VoiceAssumption DEF TypeOK, Utterance, Command, Commanded, Gated, GatedDeadline,
     Activates, IsStop, IsSleep, Lapsed

\* What synchronising leaves of the deadline and the slot.
LEMMA SynchronizedKeeps ==
  ASSUME now \in Nat, NEW g, NEW d \in Nat, NEW s \in Nat \cup {None}, NEW r,
         Synchronized(g, d, s, r)
  PROVE  /\ deadline' \in Nat /\ slot' \in Nat \cup {None}
         /\ gate' = g /\ (slot' # None => slot' = s /\ g # "sleeping" /\ runtime' = r)
         /\ runtime' \in {r, "idle"}
         /\ g = "awake" /\ s # None =>
              /\ slot' = s /\ deadline' >= s + Grace
              /\ deadline' = d \/ deadline' = Later(s, now) + Grace
         /\ g # "awake" \/ s = None => deadline' = d
         /\ s = None => slot' = None
  BY VoiceAssumption DEF Synchronized, Later

-----------------------------------------------------------------------------
(* IInv is inductive. *)

\* A gate that sleeps, and nothing said yet.
LEMMA InitIInv == Init => IInv
<1> SUFFICES ASSUME Init PROVE IInv
  OBVIOUS
<1>1. text \in Utterance \cup {None}
  BY DEF Init
<1>2. TypeOK
  BY <1>1 DEF Init, TypeOK, Phase
<1>3. HeardInv /\ SlotInv /\ WindowInv /\ HandleInv /\ AnnounceInv /\ ActInv /\ StopInv
  BY DEF Init, HeardInv, SlotInv, WindowInv, HandleInv, AnnounceInv, ActInv, StopInv
<1> QED BY <1>2, <1>3 DEF IInv

\* A step that changes only the time, the phase and the transcript.
LEMMA QuietIInv ==
  ASSUME IInv, UNCHANGED <<mode, gate, deadline, runtime, slot, accepted, fresh, stopped, command>>,
         now' \in Nat, now' >= now, phase' \in Phase, text' \in Utterance \cup {None},
         heard' \in Utterance \cup {None}, phase' = "gate" => heard' \in Utterance,
         phase' = "handle" => phase = "announce" /\ command # None,
         phase' = "announce" => phase = "announce", phase' = "act" => phase = "act"
  PROVE  IInv'
<1>1. TypeOK' /\ HeardInv' /\ SlotInv' /\ ActInv' /\ AnnounceInv'
  BY DEF IInv, TypeOK, HeardInv, SlotInv, ActInv, AnnounceInv
<1>2. WindowInv'
  BY DEF IInv, TypeOK, WindowInv, Overdue
<1>3. HandleInv'
  BY DEF IInv, HandleInv, AnnounceInv
<1>4. StopInv'
  BY DEF IInv, StopInv, AnnounceInv
<1> QED BY <1>1, <1>2, <1>3, <1>4 DEF IInv

\* A transcript goes through the gate.
LEMMA IngestIInv == IInv /\ Ingest => IInv'
<1> SUFFICES ASSUME IInv, Ingest PROVE IInv'
  OBVIOUS
<1> DEFINE u == heard
           g == Gated(u)
           d == GatedDeadline(u)
<1>1. u \in Utterance /\ u.says # "silence" /\ TypeOK /\ phase = "gate"
  BY DEF IInv, HeardInv, Ingest
<1>2. /\ now' = now /\ mode' = mode /\ text' = text /\ heard' = heard
      /\ command' = Commanded(u) /\ Synchronized(g, d, slot, runtime)
      /\ accepted' = IF Activates(u) THEN now ELSE accepted
      /\ stopped' = (stopped \/ IsStop(u))
  BY DEF Ingest
<1>3. fresh' = IF Activates(u)
               THEN Bypass \/ u.wake \/ (accepted # None /\ now < accepted + LongestWindow)
               ELSE fresh
  BY DEF Ingest
<1>4. /\ phase' \in {"announce", "ended", "listen", "handle"}
      /\ phase' = "announce" => Announced(u)
      /\ phase' = "handle" => ~Announced(u) /\ Commanded(u) # None
  BY DEF Ingest, Continue
<1>5. /\ now \in Nat /\ slot \in Nat \cup {None} /\ accepted \in Nat \cup {None}
      /\ runtime \in {"idle", "processing", "correcting", "stopped"}
      /\ gate \in {"sleeping", "awake", "stopped"} /\ deadline \in Nat
      /\ fresh \in BOOLEAN /\ stopped \in BOOLEAN /\ g \in {"sleeping", "awake", "stopped"}
      /\ d \in Nat
  BY <1>1, GateAnswers DEF TypeOK
<1>6. /\ deadline' \in Nat /\ slot' \in Nat \cup {None} /\ gate' = g
      /\ slot' # None => slot' = slot /\ g # "sleeping" /\ runtime' = runtime
      /\ runtime' \in {runtime, "idle"}
      /\ g = "awake" /\ slot # None =>
           /\ slot' = slot /\ deadline' >= slot + Grace
           /\ deadline' = d \/ deadline' = Later(slot, now) + Grace
      /\ g # "awake" \/ slot = None => deadline' = d
      /\ slot = None => slot' = None
  BY <1>2, <1>5, SynchronizedKeeps
<1>7. /\ Commanded(u) \in Command \cup {None}
      /\ gate = "stopped" \/ IsStop(u) => g = "stopped"
      /\ gate = "stopped" /\ ~IsStop(u) => Commanded(u) = None
      /\ IsStop(u) => Commanded(u) = "stop" /\ ~Activates(u)
      /\ Commanded(u) # None /\ ~IsStop(u) => Activates(u)
      /\ Activates(u) => g = "awake" /\ d = now + ActiveSeconds
      /\ g = "awake" /\ ~Activates(u) =>
           gate = "awake" /\ Commanded(u) = None /\ d = deadline
  BY <1>1, GateAnswers
<1> HIDE DEF g, d
<1>8. /\ LongestWindow \in Nat
      /\ ActiveSeconds <= LongestWindow /\ CorrectionTtl + Grace <= LongestWindow
  BY WindowBounds
<1>9. fresh' \in BOOLEAN /\ stopped' \in BOOLEAN
  <2>1. fresh' \in BOOLEAN
    BY <1>1, <1>3, <1>5 DEF Bypass, Utterance
  <2>2. stopped' \in BOOLEAN
    BY <1>2, <1>5 DEF IsStop
  <2> QED BY <2>1, <2>2
<1>10. TypeOK' /\ HeardInv'
  BY <1>1, <1>2, <1>4, <1>5, <1>6, <1>7, <1>9 DEF IInv, TypeOK, HeardInv, Phase
<1>11. SlotInv'
  <2> SUFFICES ASSUME slot' # None
               PROVE  /\ gate' # "sleeping" /\ runtime' = "correcting"
                      /\ accepted' # None /\ slot' <= accepted' + CorrectionTtl
                      /\ gate' = "awake" => deadline' >= slot' + Grace
    BY DEF SlotInv
  <2>1. slot' = slot /\ slot \in Nat /\ runtime = "correcting" /\ accepted \in Nat
        /\ accepted <= now /\ slot <= accepted + CorrectionTtl
    BY <1>5, <1>6 DEF IInv, SlotInv, HeardInv
  <2> QED BY <1>2, <1>5, <1>6, <2>1, VoiceAssumption
<1>12. /\ WindowInv'
       /\ gate' = "awake" /\ Activates(u) =>
            accepted' = now /\ deadline' <= now + LongestWindow
  <2> SUFFICES ASSUME g = "awake"
               PROVE  /\ accepted' # None
                      /\ deadline' <= accepted' + LongestWindow \/ Overdue'
                      /\ Activates(u) => accepted' = now /\ deadline' <= now + LongestWindow
    BY <1>6 DEF WindowInv
  <2>1. slot # None => /\ slot \in Nat /\ accepted \in Nat /\ accepted <= now
                       /\ slot <= accepted + CorrectionTtl
    BY <1>5 DEF IInv, SlotInv, HeardInv
  <2>2. CASE Activates(u)
    <3>1. accepted' = now /\ d = now + ActiveSeconds
      BY <1>2, <1>7, <2>2
    <3>2. slot # None => Later(slot, now) + Grace <= now + LongestWindow
      BY <1>5, <1>8, <2>1, VoiceAssumption DEF Later
    <3>3. deadline' <= now + LongestWindow
      BY <1>5, <1>6, <1>8, <3>1, <3>2, VoiceAssumption
    <3> QED BY <1>5, <3>1, <3>3, VoiceAssumption
  <2>3. CASE ~Activates(u)
    <3>1. accepted' = accepted /\ gate = "awake" /\ d = deadline
      BY <1>2, <1>7, <2>3
    <3>2. accepted \in Nat /\ (deadline <= accepted + LongestWindow \/ Overdue)
      BY <1>5, <3>1 DEF IInv, WindowInv
    <3>3. CASE Overdue
      BY <1>2, <1>6, <2>3, <3>1, <3>2, <3>3, VoiceAssumption DEF Overdue
    <3>4. CASE ~Overdue
      <4>1. slot # None => Later(slot, now) + Grace <= accepted + LongestWindow
        BY <1>5, <1>8, <2>1, <3>2, <3>4, VoiceAssumption DEF Later, Overdue
      <4> QED BY <1>5, <1>6, <2>3, <3>1, <3>2, <3>4, <4>1, VoiceAssumption
    <3> QED BY <3>3, <3>4
  <2> QED BY <2>2, <2>3
<1>13. AnnounceInv' /\ ActInv'
  <2>1. Announced(u) => Commanded(u) = None \/ (Commanded(u) = "stop" /\ g = "stopped")
    BY <1>1, <1>7 DEF Announced, Commanded, Activates, Bypass
  <2> QED BY <1>2, <1>4, <1>6, <2>1 DEF AnnounceInv, ActInv
<1>14. HandleInv'
  <2> SUFFICES ASSUME phase' = "handle"
               PROVE  /\ gate' = "awake" => accepted' = now' /\ deadline' <= now' + LongestWindow
                      /\ command' \in Command \ {"stop"} =>
                           gate' = "awake" /\ (fresh' \/ Overdue')
    BY DEF HandleInv
  <2>1. ~IsStop(u) /\ Activates(u) /\ g = "awake"
    BY <1>4, <1>7 DEF Announced
  <2>2. fresh' \/ Overdue'
    <3>1. CASE Bypass \/ u.wake
      BY <1>3, <2>1, <3>1
    <3>2. CASE ~Bypass /\ ~u.wake
      <4>1. gate = "awake" /\ now < deadline
        BY <2>1, <3>2, <1>5 DEF Activates, Lapsed
      <4>2. accepted \in Nat /\ (deadline <= accepted + LongestWindow \/ Overdue)
        BY <1>5, <4>1 DEF IInv, WindowInv
      <4>3. CASE deadline <= accepted + LongestWindow
        <5>1. accepted # None /\ now < accepted + LongestWindow
          BY <1>5, <1>8, <4>1, <4>2, <4>3, VoiceAssumption
        <5> QED BY <1>3, <2>1, <5>1
      <4>4. CASE Overdue
        BY <1>2, <1>6, <2>1, <4>4 DEF Overdue
      <4> QED BY <4>2, <4>3, <4>4
    <3> QED BY <3>1, <3>2
  <2> QED BY <1>2, <1>6, <1>12, <2>1, <2>2
<1>15. StopInv'
  <2> SUFFICES ASSUME stopped \/ IsStop(u)
               PROVE  /\ gate' = "stopped" /\ phase' # "act"
                      /\ phase' = "handle" => command' = "stop" \/ command' = None
    BY <1>2 DEF StopInv
  <2>1. gate = "stopped" \/ IsStop(u)
    BY DEF IInv, StopInv
  <2> QED BY <1>2, <1>4, <1>6, <1>7, <2>1
<1> QED BY <1>10, <1>11, <1>12, <1>13, <1>14, <1>15 DEF IInv

\* The runtime answers a command.
LEMMA AnsweredIInv ==
  ASSUME IInv, NEW c \in Command, NEW s \in Nat \cup {None},
         NEW r \in {"idle", "correcting", "stopped"},
         NEW g \in {gate, "sleeping"}, Answered(c, s, r, g),
         g = gate \/ gate # "stopped",
         s # None => c # "stop" /\ r = "correcting" /\ s <= now + CorrectionTtl /\ now <= s
  PROVE  IInv'
<1> DEFINE d == IF g = "sleeping" THEN 0 ELSE deadline
<1>1. /\ TypeOK /\ phase = "handle" /\ command = c /\ phase' = "respond"
      /\ Synchronized(g, d, s, r)
      /\ UNCHANGED <<now, mode, text, heard, command, accepted, fresh, stopped>>
  BY DEF Answered, IInv
<1>2. now \in Nat /\ d \in Nat /\ accepted \in Nat \cup {None} /\ deadline \in Nat
  BY DEF IInv, TypeOK
<1> HIDE DEF d
<1>3. /\ deadline' \in Nat /\ slot' \in Nat \cup {None} /\ gate' = g
      /\ slot' # None => slot' = s /\ g # "sleeping" /\ runtime' = r
      /\ runtime' \in {r, "idle"}
      /\ g = "awake" /\ s # None =>
           /\ slot' = s /\ deadline' >= s + Grace
           /\ deadline' = d \/ deadline' = Later(s, now) + Grace
      /\ g # "awake" \/ s = None => deadline' = d
      /\ s = None => slot' = None
  BY <1>1, <1>2, SynchronizedKeeps
<1>4. /\ gate = "awake" => accepted = now /\ deadline <= now + LongestWindow
      /\ s # None => gate = "awake"
  BY <1>1 DEF IInv, HandleInv
<1>5. TypeOK' /\ HeardInv' /\ AnnounceInv' /\ ActInv' /\ HandleInv' /\ StopInv'
  BY <1>1, <1>2, <1>3 DEF IInv, TypeOK, HeardInv, AnnounceInv, ActInv, HandleInv, StopInv, Phase
<1>6. SlotInv'
  BY <1>1, <1>2, <1>3, <1>4, VoiceAssumption DEF SlotInv
<1>7. WindowInv'
  <2> SUFFICES ASSUME g = "awake"
               PROVE  accepted # None /\ deadline' <= accepted + LongestWindow
    BY <1>1, <1>3 DEF WindowInv
  <2>1. gate = "awake" /\ accepted = now /\ d = deadline /\ deadline <= now + LongestWindow
    BY <1>4 DEF d
  <2>2. s # None => Later(s, now) + Grace <= now + LongestWindow
    BY <1>2, WindowBounds, VoiceAssumption DEF Later
  <2> QED BY <1>2, <1>3, <2>1, <2>2, WindowBounds, VoiceAssumption
<1> QED BY <1>5, <1>6, <1>7 DEF IInv

\* Every step keeps the invariant.
LEMMA NextIInv == IInv /\ [Next]_vars => IInv'
<1> SUFFICES ASSUME IInv, [Next]_vars PROVE IInv'
  OBVIOUS
<1>0. /\ now \in Nat /\ slot \in Nat \cup {None} /\ gate \in {"sleeping", "awake", "stopped"}
      /\ heard \in Utterance \cup {None} /\ text \in Utterance \cup {None} /\ phase \in Phase
  BY DEF IInv, TypeOK
<1>1. CASE Tick \/ RecordFails \/ IngestNothing \/ Announce \/ Respond \/ Report \/ Interrupt
  BY <1>0, <1>1, QuietIInv DEF Tick, RecordFails, IngestNothing, Announce, Respond, Report,
     Interrupt, NextIteration, Continue, Phase, IInv, HeardInv
<1>2. CASE TakeText \/ Record
  BY <1>0, <1>2, QuietIInv DEF TakeText, Record, Hear, Phase
<1>3. CASE Ingest
  BY <1>3, IngestIInv
<1>4. CASE HandleStop \/ HandleCancel
  BY <1>0, <1>4, AnsweredIInv DEF HandleStop, HandleCancel, Command
<1>5. CASE HandleCorrect
  BY <1>0, <1>5, AnsweredIInv, VoiceAssumption DEF HandleCorrect, Command
<1>6. CASE HandleOverdue
  BY <1>0, <1>6, AnsweredIInv DEF HandleOverdue, Command
<1>7. CASE HandleRepeat
  <2>1. phase = "handle" /\ command = "repeat"
    BY <1>7 DEF HandleRepeat, Answered
  <2>2. slot # None => slot <= now + CorrectionTtl /\ now <= slot
    BY <1>0, <1>7, <2>1, VoiceAssumption DEF HandleRepeat, Overdue, IInv, TypeOK, SlotInv, HeardInv
  <2> QED BY <1>0, <1>7, <2>2, AnsweredIInv DEF HandleRepeat, Command
<1>8. CASE HandleUnmatched
  BY <1>0, <1>8, AnsweredIInv DEF HandleUnmatched, Command
<1>9. CASE HandleCall
  BY <1>9, VoiceAssumption DEF HandleCall, IInv, TypeOK, HeardInv, SlotInv, WindowInv, HandleInv,
     AnnounceInv, ActInv, StopInv, Phase, Command, Overdue
<1>10. CASE CallReturns
  BY <1>10, VoiceAssumption DEF CallReturns, Synchronized, IInv, TypeOK, HeardInv, SlotInv,
     WindowInv, HandleInv, AnnounceInv, ActInv, StopInv, Phase, Overdue
<1>11. CASE UNCHANGED vars
  BY <1>11 DEF vars, IInv, TypeOK, HeardInv, SlotInv, WindowInv, HandleInv, AnnounceInv,
     ActInv, StopInv, Overdue
<1> QED
  BY <1>1, <1>2, <1>3, <1>4, <1>5, <1>6, <1>7, <1>8, <1>9, <1>10, <1>11 DEF Next

-----------------------------------------------------------------------------
(* The properties. *)

\* The invariant holds in every conversation.
THEOREM InvariantHolds == Spec => []IInv
  BY InitIInv, NextIInv, PTL DEF Spec

\* Every variable keeps its type.
THEOREM TypeCorrect == Spec => []TypeOK
<1>1. IInv => TypeOK BY DEF IInv
<1> QED BY <1>1, InvariantHolds, PTL

\* Speech that was not addressed to the assistant never reaches the broker.
THEOREM OnlyAddressedSpeechActs == Spec => []UnaddressedNeverActs
<1>1. IInv => UnaddressedNeverActs BY DEF IInv, ActInv, UnaddressedNeverActs
<1> QED BY <1>1, InvariantHolds, PTL

\* A stop phrase is final.
THEOREM StopIsFinal == Spec => []StopIsHeeded
<1>1. IInv => StopIsHeeded BY DEF IInv, StopInv, StopIsHeeded
<1> QED BY <1>1, InvariantHolds, PTL

\* A correction is pending only behind an open gate.
THEOREM CorrectionsAreGated == Spec => []SlotIsGated
<1>1. IInv => SlotIsGated BY DEF IInv, SlotInv, SlotIsGated
<1> QED BY <1>1, InvariantHolds, PTL

\* The gate stays open as long as the correction it was opened for.
THEOREM CorrectionsStayReachable == Spec => []SlotStaysReachable
<1>1. IInv => SlotStaysReachable BY DEF IInv, SlotInv, SlotStaysReachable
<1> QED BY <1>1, InvariantHolds, PTL
=============================================================================
