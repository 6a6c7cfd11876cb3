----------------------------- MODULE GptLiveProofs -----------------------------
(***************************************************************************)
(* Proofs about GptLive, for every queue and any number of sessions.       *)
(*                                                                         *)
(* IInv says which of the four actors may still touch what, by where the   *)
(* main thread is.                                                         *)
(***************************************************************************)
EXTENDS GptLive, TLAPS

\* Sessions are counted before they begin.
SessionInv ==
  /\ main = "notice" => session = 0
  /\ main = "connect" => session < MaxSessions

\* The microphone is open in the receive loop only, the socket until run() closes it; a
\* socket that run() leaves behind has no sender.
OpenInv ==
  /\ main \in {"notice", "connect", "update", "open", "close", "join", "over", "local", "ended"}
       => capture = "off"
  /\ main \in {"notice", "connect", "join"} => socket = "closed"
  /\ main \in {"over", "local", "ended"} => socket # "open"
  /\ main = "update" => sender = "exited"
  /\ socket = "left" => sender = "exited" /\ main \in {"over", "local", "ended"}

\* The block that is sent after a stop was taken before it, and is the last.
LateInv == late = 0 \/ (late = 1 /\ stopped /\ sender \in {"check", "exited"})

\* A session is stopped, and run() left, for a reason that is written down.
StopInv ==
  /\ main \in {"notice", "connect", "update", "open", "poll", "unlink", "recv", "submit",
               "reply", "prompt"} => raising = None
  /\ main \in {"update", "open", "poll", "unlink", "recv", "submit", "reply", "prompt"} =>
       (stopped => heeded = session \/ lost)
  /\ main \in {"leave", "close", "join"} /\ raising = None => heeded = session \/ lost
  /\ main = "over" /\ raising = None => heeded = session
  /\ outcome = "stopped" => heeded = session

IInv == TypeOK /\ SessionInv /\ OpenInv /\ LateInv /\ StopInv

-----------------------------------------------------------------------------
(* IInv is inductive. *)

\* Nothing is open before the notice.
LEMMA InitIInv == Init => IInv
<1> SUFFICES ASSUME Init PROVE IInv
  OBVIOUS
<1>1. TypeOK
  <2>1. stopped \in BOOLEAN /\ lost \in BOOLEAN
    BY DEF Init
  <2>2. heeded \in 0..session /\ session \in 0..MaxSessions /\ queue \in 0..QueueSize
    BY LiveAssumption DEF Init
  <2> QED BY <2>1, <2>2, LiveAssumption DEF Init, TypeOK, Place, Sender
<1>2. SessionInv /\ OpenInv /\ LateInv /\ StopInv
  BY LiveAssumption DEF Init, SessionInv, OpenInv, LateInv, StopInv
<1> QED BY <1>1, <1>2 DEF IInv

\* The main thread, up to the receive loop.
LEMMA StartIInv == IInv /\ (Notice \/ Connect \/ Update \/ OpenStreams) => IInv'
<1> SUFFICES ASSUME IInv, Notice \/ Connect \/ Update \/ OpenStreams PROVE IInv'
  OBVIOUS
<1>1. CASE Notice
  <2>1. TypeOK'
    BY <1>1, LiveAssumption DEF Notice, Goto, IInv, TypeOK, SessionInv, OpenInv,
       Place
  <2>2. SessionInv' /\ OpenInv'
    BY <1>1, LiveAssumption DEF Notice, Goto, IInv, TypeOK, SessionInv, OpenInv
  <2>3. LateInv' /\ StopInv'
    BY <1>1, LiveAssumption DEF Notice, Goto, IInv, TypeOK, LateInv, StopInv
  <2> QED BY <2>1, <2>2, <2>3 DEF IInv
<1>2. CASE Connect
  <2>1. TypeOK'
    <3>1. session' \in 0..MaxSessions /\ heeded' \in 0..session' /\ queue' \in 0..QueueSize
      BY <1>2, LiveAssumption DEF Connect, IInv, TypeOK, SessionInv, mainVars
    <3>2. stopped' \in BOOLEAN /\ lost' \in BOOLEAN
      BY <1>2 DEF Connect, IInv, TypeOK
    <3> QED
      BY <3>1, <3>2, <1>2, LiveAssumption DEF Connect, IInv, TypeOK, SessionInv, OpenInv, Place,
         Sender
  <2>2. SessionInv' /\ OpenInv'
    BY <1>2, LiveAssumption DEF Connect, IInv, TypeOK, SessionInv, OpenInv
  <2>3. LateInv' /\ StopInv'
    BY <1>2, LiveAssumption DEF Connect, IInv, TypeOK, LateInv, StopInv
  <2> QED BY <2>1, <2>2, <2>3 DEF IInv
<1>3. CASE OpenStreams
  <2>1. TypeOK'
    BY <1>3, LiveAssumption DEF OpenStreams, Goto, Raise, IInv, TypeOK,
       SessionInv, OpenInv, Place
  <2>2. SessionInv' /\ OpenInv'
    BY <1>3, LiveAssumption DEF OpenStreams, Goto, Raise, IInv, TypeOK,
       SessionInv, OpenInv
  <2>3. LateInv' /\ StopInv'
    BY <1>3, LiveAssumption DEF OpenStreams, Goto, Raise, IInv, TypeOK, LateInv,
       StopInv
  <2> QED BY <2>1, <2>2, <2>3 DEF IInv
<1>4. CASE Update
  <2>1. TypeOK'
    BY <1>4, LiveAssumption DEF Update, Goto, Raise, IInv, TypeOK, SessionInv, OpenInv, Place,
       Sender
  <2>2. SessionInv' /\ OpenInv'
    BY <1>4, LiveAssumption DEF Update, Goto, Raise, IInv, TypeOK, SessionInv, OpenInv
  <2>3. LateInv' /\ StopInv'
    BY <1>4, LiveAssumption DEF Update, Goto, Raise, IInv, TypeOK, LateInv, StopInv
  <2> QED BY <2>1, <2>2, <2>3 DEF IInv
<1> QED BY <1>1, <1>2, <1>3, <1>4

\* The receive loop.
LEMMA LoopIInv ==
  IInv /\ (Poll \/ Unlink \/ UnlinkFails \/ Recv \/ BrokerReturns \/ Reply \/ Prompt) => IInv'
<1> SUFFICES ASSUME IInv,
                    Poll \/ Unlink \/ UnlinkFails \/ Recv \/ BrokerReturns \/ Reply \/ Prompt
             PROVE  IInv'
  OBVIOUS
<1>1. CASE Poll
  <2>1. TypeOK'
    BY <1>1, LiveAssumption DEF Poll, Goto, IInv, TypeOK, SessionInv, OpenInv,
       Place
  <2>2. SessionInv' /\ OpenInv'
    BY <1>1, LiveAssumption DEF Poll, Goto, IInv, TypeOK, SessionInv, OpenInv
  <2>3. LateInv' /\ StopInv'
    BY <1>1, LiveAssumption DEF Poll, Goto, IInv, TypeOK, LateInv, StopInv
  <2> QED BY <2>1, <2>2, <2>3 DEF IInv
<1>2. CASE Unlink
  <2>1. TypeOK'
    <3>1. session' \in 0..MaxSessions /\ heeded' \in 0..session' /\ queue' \in 0..QueueSize
      BY <1>2, LiveAssumption DEF Unlink, Goto, IInv, TypeOK, SessionInv, mainVars
    <3>2. stopped' \in BOOLEAN /\ lost' \in BOOLEAN
      BY <1>2 DEF Unlink, Goto, IInv, TypeOK
    <3> QED
      BY <3>1, <3>2, <1>2, LiveAssumption DEF Unlink, Goto, IInv, TypeOK, SessionInv, OpenInv, Place
  <2>2. SessionInv' /\ OpenInv'
    BY <1>2, LiveAssumption DEF Unlink, Goto, IInv, TypeOK, SessionInv, OpenInv
  <2>3. LateInv' /\ StopInv'
    BY <1>2, LiveAssumption DEF Unlink, Goto, IInv, TypeOK, LateInv, StopInv
  <2> QED BY <2>1, <2>2, <2>3 DEF IInv
<1>3. CASE Recv
  <2>1. TypeOK'
    <3>1. session' \in 0..MaxSessions /\ heeded' \in 0..session' /\ queue' \in 0..QueueSize
      BY <1>3, LiveAssumption DEF Recv, Goto, Raise, IInv, TypeOK, SessionInv, mainVars
    <3>2. stopped' \in BOOLEAN /\ lost' \in BOOLEAN
      BY <1>3 DEF Recv, Goto, Raise, IInv, TypeOK
    <3> QED
      BY <3>1, <3>2, <1>3, LiveAssumption DEF Recv, Goto, Raise, IInv, TypeOK, SessionInv,
         OpenInv, Place
  <2>2. SessionInv' /\ OpenInv'
    BY <1>3, LiveAssumption DEF Recv, Goto, Raise, IInv, TypeOK, SessionInv,
       OpenInv
  <2>3. LateInv' /\ StopInv'
    BY <1>3, LiveAssumption DEF Recv, Goto, Raise, IInv, TypeOK, LateInv, StopInv
  <2> QED BY <2>1, <2>2, <2>3 DEF IInv
<1>4. CASE UnlinkFails \/ BrokerReturns \/ Reply \/ Prompt
  <2>1. TypeOK'
    BY <1>4, LiveAssumption DEF UnlinkFails, BrokerReturns, Reply, Prompt, Goto, Raise, IInv,
       TypeOK, SessionInv, OpenInv, Place
  <2>2. SessionInv' /\ OpenInv'
    BY <1>4, LiveAssumption DEF UnlinkFails, BrokerReturns, Reply, Prompt, Goto, Raise, IInv,
       TypeOK, SessionInv, OpenInv
  <2>3. LateInv' /\ StopInv'
    BY <1>4, LiveAssumption DEF UnlinkFails, BrokerReturns, Reply, Prompt, Goto, Raise, IInv,
       TypeOK, LateInv, StopInv
  <2> QED BY <2>1, <2>2, <2>3 DEF IInv
<1> QED BY <1>1, <1>2, <1>3, <1>4

\* Leaving run(), and what main() makes of it.
LEMMA LeaveIInv == IInv /\ (LeaveStreams \/ Close \/ Join \/ Over \/ Interrupt) => IInv'
<1> SUFFICES ASSUME IInv, LeaveStreams \/ Close \/ Join \/ Over \/ Interrupt PROVE IInv'
  OBVIOUS
<1>1. CASE LeaveStreams \/ Close
  <2>1. TypeOK'
    BY ZenonT(30), <1>1, LiveAssumption DEF LeaveStreams, Close, Goto, IInv, TypeOK,
       SessionInv, OpenInv, Place
  <2>2. SessionInv' /\ OpenInv'
    BY <1>1, LiveAssumption DEF LeaveStreams, Close, Goto, IInv, TypeOK,
       SessionInv, OpenInv
  <2>3. LateInv' /\ StopInv'
    BY <1>1, LiveAssumption DEF LeaveStreams, Close, Goto, IInv, TypeOK, LateInv,
       StopInv
  <2> QED BY <2>1, <2>2, <2>3 DEF IInv
<1>2. CASE Join
  <2>1. TypeOK'
    BY <1>2, LiveAssumption DEF Join, IInv, TypeOK, SessionInv, OpenInv, Place
  <2>2. SessionInv' /\ OpenInv'
    BY <1>2, LiveAssumption DEF Join, IInv, TypeOK, SessionInv, OpenInv
  <2>3. LateInv' /\ StopInv'
    BY <1>2, LiveAssumption DEF Join, IInv, TypeOK, LateInv, StopInv
  <2> QED BY <2>1, <2>2, <2>3 DEF IInv
<1>3. CASE Over
  <2>1. TypeOK'
    BY <1>3, LiveAssumption DEF Over, IInv, TypeOK, SessionInv, OpenInv, Place
  <2>2. SessionInv' /\ OpenInv'
    BY <1>3, LiveAssumption DEF Over, IInv, TypeOK, SessionInv, OpenInv
  <2>3. LateInv' /\ StopInv'
    BY <1>3, LiveAssumption DEF Over, IInv, TypeOK, LateInv, StopInv
  <2> QED BY <2>1, <2>2, <2>3 DEF IInv
<1>4. CASE Interrupt
  <2>1. TypeOK'
    BY <1>4, LiveAssumption DEF Interrupt, IInv, TypeOK, SessionInv, OpenInv,
       Place
  <2>2. SessionInv' /\ OpenInv'
    BY <1>4, LiveAssumption DEF Interrupt, IInv, TypeOK, SessionInv, OpenInv
  <2>3. LateInv' /\ StopInv'
    BY <1>4, LiveAssumption DEF Interrupt, IInv, TypeOK, LateInv, StopInv
  <2> QED BY <2>1, <2>2, <2>3 DEF IInv
<1> QED BY <1>1, <1>2, <1>3, <1>4

\* The capture callback, the sending thread, the user and the clock.
LEMMA OthersIInv ==
  IInv /\ (CaptureBegins \/ CaptureQueues \/ Send \/ RequestLocalStop \/ Age) => IInv'
<1> SUFFICES ASSUME IInv, CaptureBegins \/ CaptureQueues \/ Send \/ RequestLocalStop \/ Age
             PROVE  IInv'
  OBVIOUS
<1>1. CASE CaptureBegins \/ CaptureQueues
  <2>1. TypeOK'
    BY <1>1, LiveAssumption DEF CaptureBegins, CaptureQueues, mainVars, IInv,
       TypeOK, SessionInv, OpenInv
  <2>2. SessionInv' /\ OpenInv'
    BY <1>1, LiveAssumption DEF CaptureBegins, CaptureQueues, mainVars, IInv,
       TypeOK, SessionInv, OpenInv
  <2>3. LateInv' /\ StopInv'
    BY <1>1, LiveAssumption DEF CaptureBegins, CaptureQueues, mainVars, IInv,
       TypeOK, LateInv, StopInv
  <2> QED BY <2>1, <2>2, <2>3 DEF IInv
<1>2. CASE Send
  <2>1. TypeOK'
    <3>1. session' \in 0..MaxSessions /\ heeded' \in 0..session' /\ queue' \in 0..QueueSize
      BY <1>2, LiveAssumption DEF Send, SenderChecks, SenderGets, SenderSends, SenderFails, IInv, TypeOK, SessionInv, mainVars
    <3>2. stopped' \in BOOLEAN /\ lost' \in BOOLEAN
      BY <1>2 DEF Send, SenderChecks, SenderGets, SenderSends, SenderFails, IInv, TypeOK
    <3> QED
      BY <3>1, <3>2, <1>2, LiveAssumption DEF Send, SenderChecks, SenderGets, SenderSends, SenderFails,
         mainVars, IInv, TypeOK, SessionInv, OpenInv, Sender
  <2>2. SessionInv' /\ OpenInv'
    BY <1>2, LiveAssumption DEF Send, SenderChecks, SenderGets, SenderSends, SenderFails,
       mainVars, IInv, TypeOK, SessionInv, OpenInv
  <2>3. LateInv' /\ StopInv'
    BY <1>2, LiveAssumption DEF Send, SenderChecks, SenderGets, SenderSends, SenderFails,
       mainVars, IInv, TypeOK, LateInv, StopInv
  <2> QED BY <2>1, <2>2, <2>3 DEF IInv
<1>3. CASE RequestLocalStop \/ Age
  <2>1. TypeOK'
    BY ZenonT(30), <1>3, LiveAssumption DEF RequestLocalStop, Age, mainVars, IInv, TypeOK, SessionInv,
       OpenInv
  <2>2. SessionInv' /\ OpenInv'
    BY <1>3, LiveAssumption DEF RequestLocalStop, Age, mainVars, IInv, TypeOK, SessionInv,
       OpenInv
  <2>3. LateInv' /\ StopInv'
    BY <1>3, LiveAssumption DEF RequestLocalStop, Age, mainVars, IInv, TypeOK, LateInv,
       StopInv
  <2> QED BY <2>1, <2>2, <2>3 DEF IInv
<1> QED BY <1>1, <1>2, <1>3

\* Every step of every actor keeps the invariant.
LEMMA NextIInv == IInv /\ [Next]_vars => IInv'
<1> SUFFICES ASSUME IInv, [Next]_vars PROVE IInv'
  OBVIOUS
<1>1. CASE Main
  BY <1>1, StartIInv, LoopIInv, LeaveIInv DEF Main
<1>2. CASE Interrupt
  BY <1>2, LeaveIInv
<1>3. CASE CaptureBegins \/ CaptureQueues \/ Send \/ RequestLocalStop \/ Age
  BY <1>3, OthersIInv
<1>4. CASE UNCHANGED vars
  BY <1>4 DEF vars, mainVars, IInv, TypeOK, SessionInv, OpenInv, LateInv, StopInv
<1> QED BY <1>1, <1>2, <1>3, <1>4 DEF Next

-----------------------------------------------------------------------------
(* The properties. *)

\* The invariant holds in every interleaving.
THEOREM InvariantHolds == Spec => []IInv
  BY InitIInv, NextIInv, PTL DEF Spec

\* Every variable keeps its type.
THEOREM TypeCorrect == Spec => []TypeOK
<1>1. IInv => TypeOK BY DEF IInv
<1> QED BY <1>1, InvariantHolds, PTL

\* After a stop at most one more block of audio leaves the computer.
THEOREM OneBlockAfterStop == Spec => []AtMostOneBlockAfterStop
<1>1. IInv => AtMostOneBlockAfterStop BY DEF IInv, LateInv, AtMostOneBlockAfterStop
<1> QED BY <1>1, InvariantHolds, PTL

\* Out of run(), the microphone is off and no socket that anything sends on is open.
THEOREM OverMeansSilent == Spec => []SilentWhenOver
<1>1. IInv => SilentWhenOver BY DEF IInv, TypeOK, OpenInv, SilentWhenOver
<1> QED BY <1>1, InvariantHolds, PTL

\* The assistant ends quietly only after a stop that was asked for.
THEOREM QuietEndsAreRequested == Spec => []QuietEndIsRequested
<1>1. IInv => QuietEndIsRequested BY DEF IInv, StopInv, QuietEndIsRequested
<1> QED BY <1>1, InvariantHolds, PTL
=============================================================================
