------------------------------- MODULE GptLive -------------------------------
(***************************************************************************)
(* The online voice session: GptLiveSession.run of src/clausis/gpt_live.py *)
(* and the part of main() in src/clausis/assistant.py that starts it,      *)
(* connects it again and falls back to the local loop.                     *)
(*                                                                         *)
(* Four actors: the main thread, which receives events; the thread that    *)
(* sends audio; PortAudio's callback, which queues a block every 100 ms;   *)
(* and the user, who may leave a stop marker from another process.         *)
(***************************************************************************)
EXTENDS Naturals

CONSTANTS
  QueueSize,   \* blocks of audio that wait to be sent (80 in the code)
  MaxSessions, \* bound on connecting again
  None         \* no outcome, nothing raised, no marker

ASSUME LiveAssumption ==
  /\ QueueSize \in Nat \ {0} /\ MaxSessions \in Nat \ {0}
  /\ None \notin {"error", "interrupt", "stopped", "fresh", "stale"}

\* Where the main thread is: speaking the consent notice, connecting, in the first
\* send of the session, opening the audio streams, at the head of the loop, removing
\* the marker, receiving, in the broker, sending the call's output, asking for a
\* response, closing the streams, closing the socket, waiting for the sender, run() is
\* over, in the local loop, ended.
Place == {"notice", "connect", "update", "open", "poll", "unlink", "recv", "submit", "reply",
          "prompt", "leave", "close", "join", "over", "local", "ended"}

\* The sending thread: looking at the stop event, waiting for a block, in
\* ws.send, having failed there, finished.
Sender == {"check", "get", "send", "failing", "exited"}

VARIABLES
  main,     \* where the main thread is
  raising,  \* what run() is leaving with: None, an "error" or an "interrupt"
  outcome,  \* what main() returned: None, "stopped" (0) or "interrupt" (130)
  session,  \* how often run() has been called
  stopped,  \* _stopped
  lost,     \* _transport_failed
  socket,   \* at this end: "open", "closed", or "left" to the garbage collector
  capture,  \* the callback: "off", "on", or "passed" its test of _stopped
  queue,    \* blocks in _audio_input
  sender,   \* the sending thread
  marker,   \* the stop marker: None, "fresh" or "stale" (over 120 seconds old)
  seen,     \* the marker's age when it was looked at
  heeded,   \* history: the session that honoured a stop request, 0 if none
  late      \* history: blocks sent since _stopped was set

mainVars == <<main, raising, outcome, session>>
vars == <<mainVars, stopped, lost, socket, capture, queue, sender, marker, seen,
          heeded, late>>

Init ==
  /\ main = "notice" /\ raising = None /\ outcome = None /\ session = 0
  /\ stopped = FALSE /\ lost = FALSE /\ socket = "closed" /\ capture = "off"
  /\ queue = 0 /\ sender = "exited"
  /\ marker \in {None, "fresh", "stale"} /\ seen = None
  /\ heeded = 0 /\ late = 0

Goto(place) == main' = place /\ UNCHANGED <<raising, outcome, session>>
Raise(place) == main' = place /\ raising' = "error" /\ UNCHANGED <<outcome, session>>

-----------------------------------------------------------------------------
(* Starting a session. *)

\* The notice that audio is sent away.  If it cannot be spoken, nothing is.
Notice ==
  /\ main = "notice"
  /\ Goto("connect") \/ Goto("local")
  /\ UNCHANGED <<stopped, lost, socket, capture, queue, sender, marker, seen, heeded, late>>

\* A new GptLiveSession: its events and its queue are its own.
Connect ==
  /\ main = "connect"
  /\ session' = session + 1 /\ UNCHANGED outcome
  /\ stopped' = FALSE /\ lost' = FALSE /\ queue' = 0 /\ late' = 0 /\ sender' = "exited"
  /\ \/ main' = "update" /\ socket' = "open" /\ UNCHANGED raising
     \/ main' = "over" /\ raising' = "error" /\ UNCHANGED socket
  /\ UNCHANGED <<capture, marker, seen, heeded>>

\* session.update, outside the try block that closes the socket.
Update ==
  /\ main = "update"
  /\ \/ Goto("open") /\ sender' = "check" /\ UNCHANGED socket
     \/ Raise("over") /\ socket' = "left" /\ UNCHANGED sender
  /\ UNCHANGED <<stopped, lost, capture, queue, marker, seen, heeded, late>>

OpenStreams ==
  /\ main = "open"
  /\ \/ Goto("poll") /\ capture' = "on"
     \/ Raise("close") /\ UNCHANGED capture
  /\ UNCHANGED <<stopped, lost, socket, queue, sender, marker, seen, heeded, late>>

-----------------------------------------------------------------------------
(* The receive loop. *)

\* The head of the loop: the event, then the marker.
Poll ==
  /\ main = "poll"
  /\ seen' = IF stopped THEN None ELSE marker
  /\ Goto(IF stopped THEN "leave" ELSE IF marker = None THEN "recv" ELSE "unlink")
  /\ UNCHANGED <<stopped, lost, socket, capture, queue, sender, marker, heeded, late>>

\* Mutant: the marker is removed before its age is read, which then fails.
UnlinkFirst ==
  /\ main = "unlink"
  /\ marker' = None
  /\ Goto("recv")
  /\ UNCHANGED <<stopped, heeded, lost, socket, capture, queue, sender, seen, late>>

\* The marker that was looked at, or the one that has replaced it, is removed.
Unlink ==
  /\ main = "unlink"
  /\ marker' = None
  /\ IF seen = "fresh" THEN Goto("leave") /\ stopped' = TRUE /\ heeded' = session
     ELSE Goto("recv") /\ UNCHANGED <<stopped, heeded>>
  /\ UNCHANGED <<lost, socket, capture, queue, sender, seen, late>>

\* It cannot be removed: the request is not honoured, and is met again at the next poll.
UnlinkFails ==
  /\ main = "unlink" /\ Goto("recv")
  /\ UNCHANGED <<stopped, lost, socket, capture, queue, sender, marker, seen, heeded, late>>

\* One event or one second: nothing or audio; an action for the broker; a call
\* that is denied as it is; the stop call; or an error of the service, the
\* connection or the audio output.
Recv ==
  /\ main = "recv"
  /\ \/ Goto("poll") /\ UNCHANGED <<stopped, heeded>>
     \/ Goto("submit") /\ UNCHANGED <<stopped, heeded>>
     \/ Goto("reply") /\ UNCHANGED <<stopped, heeded>>
     \/ Goto("reply") /\ stopped' = TRUE /\ heeded' = session
     \/ Raise("leave") /\ UNCHANGED <<stopped, heeded>>
  /\ UNCHANGED <<lost, socket, capture, queue, sender, marker, seen, late>>

BrokerReturns ==
  /\ main = "submit" /\ Goto("reply")
  /\ UNCHANGED <<stopped, lost, socket, capture, queue, sender, marker, seen, heeded, late>>

\* The output of the call is sent also after a stop; a response is not asked for.
Reply ==
  /\ main = "reply"
  /\ Goto(IF stopped THEN "poll" ELSE "prompt") \/ Raise("leave")
  /\ UNCHANGED <<stopped, lost, socket, capture, queue, sender, marker, seen, heeded, late>>

Prompt ==
  /\ main = "prompt"
  /\ Goto("poll") \/ Raise("leave")
  /\ UNCHANGED <<stopped, lost, socket, capture, queue, sender, marker, seen, heeded, late>>

-----------------------------------------------------------------------------
(* Leaving run(). *)

\* Leaving the streams' context waits for a callback that is running.
LeaveStreams ==
  /\ main = "leave" /\ capture \in {"off", "on"}
  /\ Goto("close") /\ capture' = "off"
  /\ UNCHANGED <<stopped, lost, socket, queue, sender, marker, seen, heeded, late>>

\* Mutant: the event is set, the socket is left to the garbage collector.
CloseEventOnly ==
  /\ main = "close" /\ Goto("join")
  /\ stopped' = TRUE
  /\ UNCHANGED <<socket, lost, capture, queue, sender, marker, seen, heeded, late>>

Close ==
  /\ main = "close" /\ Goto("join")
  /\ stopped' = TRUE /\ socket' = "closed"
  /\ UNCHANGED <<lost, capture, queue, sender, marker, seen, heeded, late>>

\* Mutant: only the main thread's own errors are reported.
JoinSilently ==
  /\ main = "join" /\ sender \in {"exited", "send"}
  /\ main' = "over"
  /\ UNCHANGED <<raising, outcome, session, stopped, lost, socket, capture, queue, sender,
                 marker, seen, heeded, late>>

\* A sender that hangs in ws.send is left behind after two seconds.
Join ==
  /\ main = "join" /\ sender \in {"exited", "send"}
  /\ main' = "over"
  /\ raising' = IF raising = None /\ lost THEN "error" ELSE raising
  /\ UNCHANGED <<outcome, session, stopped, lost, socket, capture, queue, sender, marker,
                 seen, heeded, late>>

\* main(): 0, 130, another session after one of at least 50 minutes, which one that
\* failed in its first send was not, or the local loop.
Over ==
  /\ main = "over"
  /\ \/ raising = None /\ main' = "ended" /\ outcome' = "stopped" /\ UNCHANGED raising
     \/ raising = "interrupt" /\ main' = "ended" /\ outcome' = "interrupt" /\ UNCHANGED raising
     \/ /\ raising = "error" /\ raising' = None /\ UNCHANGED outcome
        /\ main' = "local" \/ (session < MaxSessions /\ socket = "closed" /\ main' = "connect")
  /\ UNCHANGED <<session, stopped, lost, socket, capture, queue, sender, marker, seen,
                 heeded, late>>

\* KeyboardInterrupt in the main thread.
Interrupt ==
  /\ main \notin {"over", "local", "ended"}
  /\ raising' = "interrupt"
  /\ main' = IF main \in {"notice", "connect", "update", "join"} THEN "over"
             ELSE IF main \in {"open", "close"} THEN "close" ELSE "leave"
  /\ socket' = IF main = "update" THEN "left" ELSE socket
  /\ UNCHANGED <<outcome, session, stopped, lost, capture, queue, sender, marker,
                 seen, heeded, late>>

-----------------------------------------------------------------------------
(* Audio. *)

CaptureBegins ==
  /\ capture = "on" /\ main # "leave" /\ ~stopped
  /\ capture' = "passed"
  /\ UNCHANGED <<mainVars, stopped, lost, socket, queue, sender, marker, seen, heeded, late>>

\* put_nowait: a block that finds the queue full is dropped.
CaptureQueues ==
  /\ capture = "passed" /\ capture' = "on"
  /\ queue' = IF queue < QueueSize THEN queue + 1 ELSE queue
  /\ UNCHANGED <<mainVars, stopped, lost, socket, sender, marker, seen, heeded, late>>

\* Mutant: the thread empties the queue before it looks at the event.
SenderChecksWhenEmpty ==
  /\ sender = "check"
  /\ sender' = IF stopped /\ queue = 0 THEN "exited" ELSE "get"
  /\ UNCHANGED <<mainVars, stopped, lost, socket, capture, queue, marker, seen, heeded, late>>

SenderChecks ==
  /\ sender = "check"
  /\ sender' = IF stopped THEN "exited" ELSE "get"
  /\ UNCHANGED <<mainVars, stopped, lost, socket, capture, queue, marker, seen, heeded, late>>

\* A block, or none for 200 ms.
SenderGets ==
  /\ sender = "get"
  /\ \/ queue > 0 /\ sender' = "send" /\ queue' = queue - 1
     \/ queue = 0 /\ sender' = "check" /\ UNCHANGED queue
  /\ UNCHANGED <<mainVars, stopped, lost, socket, capture, marker, seen, heeded, late>>

\* ws.send fails on a closed socket, and may fail on an open one.
SenderSends ==
  /\ sender = "send"
  /\ \/ socket = "open" /\ sender' = "check" /\ late' = IF stopped THEN late + 1 ELSE late
     \/ sender' = "failing" /\ UNCHANGED late
  /\ UNCHANGED <<mainVars, stopped, lost, socket, capture, queue, marker, seen, heeded>>

\* Mutant: the failure is noted, the session is not stopped.
SenderFailsQuietly ==
  /\ sender = "failing" /\ sender' = "exited"
  /\ lost' = TRUE
  /\ UNCHANGED <<stopped, mainVars, socket, capture, queue, marker, seen, heeded, late>>

SenderFails ==
  /\ sender = "failing" /\ sender' = "exited"
  /\ lost' = TRUE /\ stopped' = TRUE
  /\ UNCHANGED <<mainVars, socket, capture, queue, marker, seen, heeded, late>>

-----------------------------------------------------------------------------
(* The user, and time. *)

\* request_local_stop, from another process.
RequestLocalStop ==
  /\ main \notin {"local", "ended"} /\ marker' = "fresh"
  /\ UNCHANGED <<mainVars, stopped, lost, socket, capture, queue, sender, seen, heeded, late>>

\* 120 seconds pass.  Of what the main thread does, only a call to the broker, with
\* its spoken confirmation, takes that long.
Age ==
  /\ main = "submit" /\ marker = "fresh"
  /\ marker' = "stale"
  /\ UNCHANGED <<mainVars, stopped, lost, socket, capture, queue, sender, seen, heeded, late>>

-----------------------------------------------------------------------------

Main == \/ Notice \/ Connect \/ Update \/ OpenStreams \/ Poll \/ Unlink \/ UnlinkFails
        \/ Recv \/ BrokerReturns \/ Reply \/ Prompt \/ LeaveStreams \/ Close \/ Join \/ Over

Send == SenderChecks \/ SenderGets \/ SenderSends \/ SenderFails

Next == Main \/ Interrupt \/ CaptureBegins \/ CaptureQueues \/ Send \/ RequestLocalStop \/ Age

Spec == Init /\ [][Next]_vars

\* Each thread is scheduled, a callback that has begun ends, and every call the
\* main thread waits for returns: the socket has a timeout of one second.  The marker's
\* directory is the user's own: its removal may fail, but not for ever.
FairSpec == Spec /\ WF_vars(Main) /\ SF_vars(Unlink) /\ WF_vars(Send) /\ WF_vars(CaptureQueues)

-----------------------------------------------------------------------------
(* Properties. *)

\* Every variable keeps its type; a stop is honoured by a session that runs.
TypeOK ==
  /\ main \in Place /\ raising \in {None, "error", "interrupt"}
  /\ outcome \in {None, "stopped", "interrupt"} /\ (main = "ended" <=> outcome # None)
  /\ session \in 0..MaxSessions /\ heeded \in 0..session
  /\ stopped \in BOOLEAN /\ lost \in BOOLEAN
  /\ socket \in {"open", "closed", "left"} /\ capture \in {"off", "on", "passed"}
  /\ queue \in 0..QueueSize /\ sender \in Sender /\ late \in Nat
  /\ marker \in {None, "fresh", "stale"} /\ seen \in {None, "fresh", "stale"}

\* Once a session is to stop, at most the block the sending thread was already
\* waiting for still leaves the computer, however many are queued.
AtMostOneBlockAfterStop == late <= 1

\* When main() is out of run(), the microphone is closed and nothing can be sent any
\* more, although the sending thread may have been left behind: its socket is closed.
\* The socket that a failing session.update leaves open never had a sender.
SilentWhenOver == main \in {"over", "local", "ended", "connect"} =>
  capture = "off" /\ (socket = "closed" \/ (socket = "left" /\ sender = "exited"))

\* The assistant ends quietly only because somebody asked it to stop: a lost
\* connection is never taken for a stop, and the user is not left without a voice.
QuietEndIsRequested == outcome = "stopped" => heeded = session

\* A local stop request ends the session, with or without the service answering and
\* although the marker cannot be removed at first.  It can miss in two ways only: it
\* becomes too old to be believed while the broker works, or it replaces a marker that
\* was found too old and is being removed.
LocalStopIsHeeded == (marker = "fresh") ~>
  (marker = "stale" \/ (main = "unlink" /\ seen = "stale") \/ stopped
   \/ main \in {"over", "local", "ended"})

\* A lost connection is noticed: main() connects again, falls back or ends.
LossIsNoticed == lost ~> (main \in {"connect", "local", "ended"})

-----------------------------------------------------------------------------
(* Statements of the repository's own texts. *)

\* "Sagen Sie Stopp Clausis [...] zum Beenden" and "GPT Live sofort beenden stops
\* online audio locally": after a session that honoured a stop there is no other.
StopEndsOnlineAudio == heeded # 0 => session = heeded
=============================================================================
