------------------------- MODULE TrustedBrokerProofs -------------------------
(***************************************************************************)
(* Proofs about TrustedBroker, for every set of calls and requests, every  *)
(* policy table, every pair of lifetimes and any number of crashes.        *)
(*                                                                         *)
(* None of the safety properties is inductive alone.  IInv adds what each  *)
(* place a call can be in says about its token, its executions and its     *)
(* answer; it is proved once, and the properties follow from it.           *)
(***************************************************************************)
EXTENDS TrustedBroker, TLAPS

\* A call that has not been through a ceremony has nothing to show.
EarlyInv(c) ==
  /\ pc[c] \in {"idle", "asked", "collecting"} => token[c] = None
  /\ pc[c] \in {"idle", "asked", "collecting", "approved", "queued"} =>
       runs[c] = 0 /\ localRuns[c] = 0 /\ result[c] = None
  /\ pc[c] \in {"executing", "recording", "answered"} => localRuns[c] = 0
  /\ pc[c] = "idle" => reply[c] = None

\* Who may hold a token, and for what it was issued.
TokenInv(c) ==
  /\ pc[c] \in {"asked", "collecting", "approved", "answered"} => ViaConfirm(c)
  /\ pc[c] = "approved" => token[c] # None
  /\ pc[c] = "queued" => token[c] # None \/ ~ViaConfirm(c)
  /\ token[c] # None => ViaConfirm(c)
  /\ token[c] # None \/ pc[c] = "collecting" => Tainted(request[c])
  /\ pc[c] # "idle" => request[c] # None /\ route[c] # None

\* Executions belong to approved calls, or to safe ones of a client taken at its
\* word; session executions to the others.
RunInv(c) ==
  /\ runs[c] > 0 =>
       runs[c] = 1 /\ ((token[c] # None /\ ViaConfirm(c)) \/ TakenAtItsWord(c))
  /\ pc[c] = "executing" => runs[c] = 1
  /\ localRuns[c] > 0 => localRuns[c] = 1 /\ runs[c] = 0 /\ pc[c] = "done"
                           /\ token[c] = None /\ route[c] = "session"

\* What the result, the audit log and the client's answer say about each other.
AnswerInv(c) ==
  /\ pc[c] # "done" /\ reply[c] # None => reply[c] \in {"denied", "error"} /\ c \in lost
  /\ pc[c] \in {"recording", "answered"} => result[c] # None
  /\ pc[c] = "executing" => result[c] = None
  /\ result[c] = "confirmation_required" => runs[c] = 0
  /\ result[c] = "denied" => runs[c] = 0 \/ ~Marshals(request[c])
  /\ result[c] = "error" => c \in lost
  /\ pc[c] = "answered" => \/ result[c] = "error" \/ <<c, result[c]>> \in audit
                           \/ result[c] = "denied" /\ ~Marshals(request[c])
  /\ \A s \in Answers : <<c, s>> \in audit =>
       s = result[c] /\ pc[c] \in {"answered", "done"}

\* The two properties about what a client was told, for one call.
ReplyInv(c) ==
  /\ (reply[c] \in Statuses /\ (token[c] # None \/ route[c] = "submit")) =>
       \/ <<c, reply[c]>> \in audit
       \/ reply[c] = "denied" /\ (c \in lost \/ ~Marshals(request[c]))
  /\ reply[c] \in {"denied", "confirmation_required"} =>
       \/ runs[c] = 0 /\ localRuns[c] = 0
       \/ reply[c] = "denied" /\ (c \in lost \/ ~Marshals(request[c]))

CallInv(c) == EarlyInv(c) /\ TokenInv(c) /\ RunInv(c) /\ AnswerInv(c) /\ ReplyInv(c)

IInv == TypeOK /\ PendingIsLive /\ \A c \in Calls : CallInv(c)

-----------------------------------------------------------------------------
(* Lemmas about the operators. *)

\* canonicalize_untrusted_request yields a tainted request of the right type.
LEMMA CanonicalTainted ==
  ASSUME NEW r \in ActionRequest
  PROVE  /\ Canonical(r) \in ActionRequest
         /\ Tainted(Canonical(r))
         /\ Canonical(r).payload = r.payload
  BY DEF Canonical, Tainted, ActionRequest, Origin

\* The broker's rewriting keeps type and payload, and taints a request that
\* comes without any token string.
LEMMA ReceivedTyped ==
  ASSUME NEW c \in Calls, request[c] \in ActionRequest
  PROVE  /\ Received(c) \in ActionRequest
         /\ Received(c).payload = request[c].payload
         /\ ~HasToken(c) => Tainted(Received(c))
         /\ HasToken(c) => Received(c) = request[c]
  BY DEF Received, Tainted, ActionRequest, Origin

\* A tainted request is never safe, so only a verified token authorises it.
LEMMA TaintedNeedsToken ==
  ASSUME NEW c \in Calls, NEW r, Tainted(r), Authorized(c, r)
  PROVE  Evaluate(r) = "confirm" /\ token[c] # None /\ Verifies(c, r)
  BY DEF Authorized, Evaluate, NeedsConfirmation

\* SafeExecutor never answers with a denial.
LEMMA ExecutorResultsTyped ==
  ASSUME NEW r
  PROVE  ExecutorResults(r) \subseteq {"completed", "failed", "dry_run"}
  BY DEF ExecutorResults

-----------------------------------------------------------------------------
(* IInv is inductive. *)

\* The initial states satisfy the invariant: nothing was asked, issued or run.
LEMMA InitIInv == Init => IInv
  BY BrokerAssumption, PolicyAssumption
  DEF Init, IInv, TypeOK, PendingIsLive, CallInv, EarlyInv, TokenInv, RunInv,
      AnswerInv, ReplyInv, ViaConfirm, PC, Answers, Statuses, Routes, Services, Tokens

\* What the invariant speaks of, without the clock and the service flags.
callVars(c) == <<pc[c], route[c], request[c], carried[c], token[c], result[c],
                 runs[c], localRuns[c], reply[c]>>

\* A step that leaves a call and its audit entries alone keeps its invariant.
LEMMA UntouchedCall ==
  ASSUME NEW c \in Calls, CallInv(c), callVars(c)' = callVars(c),
         c \in lost' <=> c \in lost,
         \A s \in Answers : <<c, s>> \in audit' <=> <<c, s>> \in audit,
         reply[c] \in Answers \cup {None}, result[c] \in Answers \cup {None}
  PROVE  CallInv(c)'
<1>1. /\ pc'[c] = pc[c] /\ route'[c] = route[c] /\ request'[c] = request[c]
      /\ carried'[c] = carried[c] /\ token'[c] = token[c] /\ result'[c] = result[c]
      /\ runs'[c] = runs[c] /\ localRuns'[c] = localRuns[c] /\ reply'[c] = reply[c]
  BY DEF callVars
<1>2. EarlyInv(c)' /\ TokenInv(c)' /\ RunInv(c)'
  BY <1>1 DEF CallInv, EarlyInv, TokenInv, RunInv, TakenAtItsWord, ViaConfirm
<1>3. AnswerInv(c)'
  BY <1>1 DEF CallInv, AnswerInv
<1>4. ReplyInv(c)'
  BY <1>1 DEF CallInv, ReplyInv, Answers, Statuses
<1> QED
  BY <1>2, <1>3, <1>4 DEF CallInv

\* Making a call, in any of the five ways.
LEMMA ClientIInv ==
  ASSUME IInv, NEW d \in Calls, Client(d)
  PROVE  IInv'
<1>1. PICK r \in Requests : SessionRefuse(d, r) \/ SessionRun(d, r) \/ SessionAsk(d, r)
                              \/ BusConfirm(d, r) \/ BusSubmit(d, r)
  BY DEF Client
<1>2. r \in ActionRequest
  BY BrokerAssumption
<1>3. TypeOK'
  BY <1>1, <1>2 DEF IInv, TypeOK, SessionRefuse, SessionRun, SessionAsk, BusConfirm,
     BusSubmit, Enter, PC, Routes, Answers, Statuses, Tokens
<1>4. PendingIsLive'
  BY <1>1 DEF IInv, TypeOK, PendingIsLive, SessionRefuse, SessionRun, SessionAsk,
     BusConfirm, BusSubmit, Enter
<1>5. ASSUME NEW c \in Calls, c # d PROVE CallInv(c)'
  BY <1>1, <1>5, UntouchedCall DEF IInv, TypeOK, callVars, SessionRefuse, SessionRun,
     SessionAsk, BusConfirm, BusSubmit, Enter
<1>6. CallInv(d)'
  <2>1. /\ pc[d] = "idle"
    BY <1>1 DEF SessionRefuse, SessionRun, SessionAsk, BusConfirm, BusSubmit, Enter
  <2>2. /\ token[d] = None /\ runs[d] = 0 /\ localRuns[d] = 0
        /\ result[d] = None /\ reply[d] = None
        /\ \A s \in Answers : <<d, s>> \notin audit
    BY <2>1 DEF IInv, CallInv, EarlyInv, AnswerInv
  <2>3. token' = token /\ runs' = runs /\ result' = result /\ audit' = audit /\ lost' = lost
    BY <1>1 DEF SessionRefuse, SessionRun, SessionAsk, BusConfirm, BusSubmit, Enter
  <2>4. request'[d] # None /\ route'[d] # None
    BY <1>1, <1>2, BrokerAssumption
    DEF IInv, TypeOK, SessionRefuse, SessionRun, SessionAsk, BusConfirm, BusSubmit, Enter
  <2>5. CASE SessionRefuse(d, r) \/ SessionRun(d, r)
    <3>1. /\ pc'[d] = "done" /\ route'[d] = "session"
          /\ \/ reply'[d] \in {"denied", "confirmation_required"} /\ localRuns'[d] = 0
             \/ reply'[d] \in {"completed", "failed", "dry_run"} /\ localRuns'[d] = 1
      BY <2>2, <2>5 DEF IInv, TypeOK, SessionRefuse, SessionRun, Enter
    <3> QED BY <2>2, <2>3, <2>4, <3>1, BrokerAssumption
      DEF CallInv, EarlyInv, TokenInv, RunInv, AnswerInv, ReplyInv, ViaConfirm,
        TakenAtItsWord, Answers, Statuses
  <2>6. CASE SessionAsk(d, r) \/ BusConfirm(d, r) \/ BusSubmit(d, r)
    <3>1. /\ localRuns'[d] = 0 /\ reply'[d] = None
          /\ \/ pc'[d] = "asked" /\ route'[d] \in {"session", "confirm"}
             \/ pc'[d] = "queued" /\ route'[d] = "submit"
      BY <2>2, <2>6 DEF IInv, TypeOK, SessionAsk, BusConfirm, BusSubmit, Enter
    <3> QED BY <2>2, <2>3, <2>4, <3>1, BrokerAssumption
      DEF CallInv, EarlyInv, TokenInv, RunInv, AnswerInv, ReplyInv, ViaConfirm,
        TakenAtItsWord, Answers, Statuses
  <2> QED BY <1>1, <2>5, <2>6
<1> QED
  BY <1>3, <1>4, <1>5, <1>6 DEF IInv

\* A step that touches one call d keeps the invariant if it keeps it for d.
LEMMA OneCall ==
  ASSUME IInv, NEW d \in Calls, TypeOK', PendingIsLive', CallInv(d)',
         \A c \in Calls \ {d} : callVars(c)' = callVars(c) /\ (c \in lost' <=> c \in lost),
         \A c \in Calls \ {d} : \A s \in Answers :
            <<c, s>> \in audit' <=> <<c, s>> \in audit
  PROVE  IInv'
<1>1. ASSUME NEW c \in Calls, c # d PROVE CallInv(c)'
  <2>1. reply[c] \in Answers \cup {None} /\ result[c] \in Answers \cup {None}
    BY DEF IInv, TypeOK
  <2> QED BY <1>1, <2>1, UntouchedCall DEF IInv
<1> QED BY <1>1 DEF IInv

\* The request enters its ceremony, or is refused by the confirmation service.
LEMMA ConfirmBeginIInv ==
  ASSUME IInv, NEW d \in Calls, ConfirmBegin(d)
  PROVE  IInv'
<1>a. request[d] \in ActionRequest
  BY DEF IInv, TypeOK, CallInv, TokenInv, ConfirmBegin
<1>b. Canonical(request[d]) \in ActionRequest
  BY <1>a, CanonicalTainted
<1>1. TypeOK'
  BY <1>b, BrokerAssumption
  DEF IInv, TypeOK, ConfirmBegin, Answer, PC, Answers, Statuses
<1>2. PendingIsLive'
  BY BrokerAssumption, PolicyAssumption
  DEF IInv, TypeOK, PendingIsLive, ConfirmBegin, Answer
<1>3. CallInv(d)'
  <2>1. CallInv(d)
    BY DEF IInv
  <2>2. /\ pc[d] = "asked" /\ request'[d] # None
        /\ Tainted(request'[d]) /\ (Marshals(request'[d]) <=> Marshals(request[d]))
        /\ \/ pc'[d] = "collecting" /\ reply'[d] = reply[d]
           \/ pc'[d] = "done" /\ reply'[d] = IF reply[d] = None THEN "denied" ELSE reply[d]
        /\ UNCHANGED <<route, carried, token, result, runs, localRuns, audit, lost>>
    BY <1>a, <1>b, CanonicalTainted, BrokerAssumption
    DEF IInv, TypeOK, ConfirmBegin, Answer, Marshals
  <2> QED BY <2>1, <2>2, BrokerAssumption
    DEF CallInv, EarlyInv, TokenInv, RunInv, AnswerInv, ReplyInv, ViaConfirm,
        TakenAtItsWord, Answers, Statuses
<1> QED
  BY <1>1, <1>2, <1>3, OneCall DEF IInv, TypeOK, callVars, ConfirmBegin, Answer

\* A token is issued for the request the ceremony was about.
LEMMA ApproveIInv ==
  ASSUME IInv, NEW d \in Calls, Approve(d)
  PROVE  IInv'
<1>a. request[d] \in ActionRequest
  BY DEF IInv, TypeOK, CallInv, TokenInv, Approve
<1>b. Capability(request[d]) \in Capabilities
  BY <1>a, BrokerAssumption DEF IInv, TypeOK, Capability, Capabilities, ActionRequest
<1>1. TypeOK'
  BY <1>b, BrokerAssumption
  DEF IInv, TypeOK, Approve, PC
<1>2. PendingIsLive'
  BY BrokerAssumption
  DEF IInv, TypeOK, PendingIsLive, Approve
<1>3. CallInv(d)'
  <2>1. CallInv(d)
    BY DEF IInv
  <2>2. /\ pc[d] = "collecting" /\ pc'[d] = "approved" /\ token'[d] # None
        /\ UNCHANGED <<route, request, carried, result, runs, localRuns, audit, reply, lost>>
    BY <1>b, BrokerAssumption DEF IInv, TypeOK, Approve
  <2> QED BY <2>1, <2>2, BrokerAssumption
    DEF CallInv, EarlyInv, TokenInv, RunInv, AnswerInv, ReplyInv, ViaConfirm,
        TakenAtItsWord, Answers, Statuses
<1> QED
  BY <1>1, <1>2, <1>3, OneCall DEF IInv, TypeOK, callVars, Approve

\* A failed ceremony ends the call.
LEMMA DenyIInv ==
  ASSUME IInv, NEW d \in Calls, Deny(d)
  PROVE  IInv'
<1>1. TypeOK'
  BY BrokerAssumption
  DEF IInv, TypeOK, Deny, Answer, PC, Answers, Statuses
<1>2. PendingIsLive'
  BY BrokerAssumption
  DEF IInv, TypeOK, PendingIsLive, Deny, Answer
<1>3. CallInv(d)'
  <2>1. CallInv(d)
    BY DEF IInv
  <2>2. /\ pc[d] = "collecting" /\ pc'[d] = "done"
        /\ reply'[d] = IF reply[d] = None THEN "denied" ELSE reply[d]
        /\ UNCHANGED <<route, request, carried, token, result, runs, localRuns, audit, lost>>
    BY BrokerAssumption DEF IInv, TypeOK, Deny, Answer
  <2> QED BY <2>1, <2>2, BrokerAssumption
    DEF CallInv, EarlyInv, TokenInv, RunInv, AnswerInv, ReplyInv, ViaConfirm,
        TakenAtItsWord, Answers, Statuses
<1> QED
  BY <1>1, <1>2, <1>3, OneCall DEF IInv, TypeOK, callVars, Deny, Answer

\* The approved request is sent on.
LEMMA SubmitApprovedIInv ==
  ASSUME IInv, NEW d \in Calls, SubmitApproved(d)
  PROVE  IInv'
<1>1. TypeOK'
  BY BrokerAssumption
  DEF IInv, TypeOK, SubmitApproved, Answer, PC, Answers, Statuses
<1>2. PendingIsLive'
  BY BrokerAssumption
  DEF IInv, TypeOK, PendingIsLive, SubmitApproved, Answer
<1>3. CallInv(d)'
  <2>1. CallInv(d)
    BY DEF IInv
  <2>2. /\ pc[d] = "approved"
        /\ \/ pc'[d] = "queued" /\ reply'[d] = reply[d]
           \/ /\ pc'[d] = "done" /\ ~Marshals(request[d])
              /\ reply'[d] = IF reply[d] = None THEN "denied" ELSE reply[d]
        /\ UNCHANGED <<route, request, carried, token, result, runs, localRuns, audit, lost>>
    BY BrokerAssumption DEF IInv, TypeOK, SubmitApproved, Answer
  <2> QED BY <2>1, <2>2, BrokerAssumption
    DEF CallInv, EarlyInv, TokenInv, RunInv, AnswerInv, ReplyInv, ViaConfirm,
        TakenAtItsWord, Answers, Statuses
<1> QED
  BY <1>1, <1>2, <1>3, OneCall DEF IInv, TypeOK, callVars, SubmitApproved, Answer

\* The confirmation service hands on what the broker recorded.
LEMMA ConfirmReturnIInv ==
  ASSUME IInv, NEW d \in Calls, ConfirmReturn(d)
  PROVE  IInv'
<1>1. TypeOK'
  BY BrokerAssumption
  DEF IInv, TypeOK, ConfirmReturn, Answer, PC, Answers, Statuses
<1>2. PendingIsLive'
  BY BrokerAssumption
  DEF IInv, TypeOK, PendingIsLive, ConfirmReturn, Answer
<1>3. CallInv(d)'
  <2>1. CallInv(d)
    BY DEF IInv
  <2>2. /\ pc[d] = "answered" /\ pc'[d] = "done" /\ result[d] \in Answers \cup {None}
        /\ reply'[d] = IF reply[d] # None THEN reply[d]
                       ELSE IF result[d] = "error" THEN "denied" ELSE result[d]
        /\ UNCHANGED <<route, request, carried, token, result, runs, localRuns, audit, lost>>
    BY BrokerAssumption DEF IInv, TypeOK, ConfirmReturn, Answer
  <2> QED BY <2>1, <2>2, BrokerAssumption
    DEF CallInv, EarlyInv, TokenInv, RunInv, AnswerInv, ReplyInv, ViaConfirm,
        TakenAtItsWord, Answers, Statuses
<1> QED
  BY <1>1, <1>2, <1>3, OneCall DEF IInv, TypeOK, callVars, ConfirmReturn, Answer

\* What an admission step starts from: an approved call with its own request, or
\* a safe request in a message that holds some token string.
LEMMA AdmitNeedsToken ==
  ASSUME IInv, NEW d \in Calls, BrokerAdmit(d)
  PROVE  /\ request[d] \in ActionRequest /\ Received(d) = request[d]
         /\ \/ /\ token[d] # None /\ token[d] \in Capabilities /\ ViaConfirm(d)
               /\ Evaluate(request[d]) = "confirm" /\ Verifies(d, request[d])
            \/ token[d] = None /\ TakenAtItsWord(d)
<1>1. request[d] \in ActionRequest /\ pc[d] = "queued"
  BY DEF IInv, TypeOK, CallInv, TokenInv, BrokerAdmit
<1>2. HasToken(d)
  <2> SUFFICES ASSUME ~HasToken(d) PROVE FALSE
    OBVIOUS
  <2>1. Tainted(Received(d)) /\ token[d] = None
    BY <1>1, ReceivedTyped DEF HasToken
  <2> QED BY <2>1, TaintedNeedsToken DEF BrokerAdmit
<1>3. Received(d) = request[d]
  BY <1>1, <1>2, ReceivedTyped
<1>4. CASE token[d] # None
  <2>1. Tainted(request[d]) /\ ViaConfirm(d)
    BY <1>4 DEF IInv, CallInv, TokenInv
  <2>2. Evaluate(request[d]) = "confirm" /\ Verifies(d, request[d])
    BY <1>3, <2>1, TaintedNeedsToken DEF BrokerAdmit
  <2> QED BY <1>1, <1>3, <1>4, <2>1, <2>2 DEF IInv, TypeOK
<1>5. CASE token[d] = None
  <2>1. Evaluate(request[d]) = "safe"
    BY <1>3, <1>5 DEF BrokerAdmit, Authorized
  <2>2. route[d] = "submit"
    BY <1>1, <1>5 DEF IInv, TypeOK, CallInv, TokenInv, ViaConfirm, Routes
  <2> QED BY <1>1, <1>2, <1>3, <1>5, <2>1, <2>2 DEF TakenAtItsWord, HasToken
<1> QED
  BY <1>4, <1>5

\* The executor is started for an approved call, or for one taken at its word.
LEMMA BrokerAdmitIInv ==
  ASSUME IInv, NEW d \in Calls, BrokerAdmit(d)
  PROVE  IInv'
<1>a. /\ request[d] \in ActionRequest /\ Received(d) = request[d]
      /\ (token[d] # None /\ ViaConfirm(d)) \/ TakenAtItsWord(d)
  BY AdmitNeedsToken
<1>1. TypeOK'
  BY <1>a, BrokerAssumption
  DEF IInv, TypeOK, BrokerAdmit, PC
<1>2. PendingIsLive'
  BY BrokerAssumption
  DEF IInv, TypeOK, PendingIsLive, BrokerAdmit
<1>3. CallInv(d)'
  <2>1. CallInv(d)
    BY DEF IInv
  <2>2. /\ pc[d] = "queued" /\ pc'[d] = "executing"
        /\ runs'[d] = runs[d] + 1 /\ request'[d] = request[d]
        /\ UNCHANGED <<route, carried, token, result, localRuns, audit, reply, lost>>
    BY <1>a, BrokerAssumption DEF IInv, TypeOK, BrokerAdmit
  <2> QED BY <1>a, <2>1, <2>2, BrokerAssumption
    DEF CallInv, EarlyInv, TokenInv, RunInv, AnswerInv, ReplyInv, ViaConfirm,
        TakenAtItsWord, Answers, Statuses
<1> QED
  BY <1>1, <1>2, <1>3, OneCall DEF IInv, TypeOK, callVars, BrokerAdmit

\* A refused message is recorded and never executed.
LEMMA BrokerRefuseIInv ==
  ASSUME IInv, NEW d \in Calls, BrokerRefuse(d)
  PROVE  IInv'
<1>a. request[d] \in ActionRequest
  BY DEF IInv, TypeOK, CallInv, TokenInv, BrokerRefuse
<1>b. /\ Received(d) \in ActionRequest /\ Received(d).payload = request[d].payload
      /\ token[d] # None => Received(d) = request[d]
  BY <1>a, ReceivedTyped DEF HasToken
<1>1. TypeOK'
  BY <1>b, BrokerAssumption
  DEF IInv, TypeOK, BrokerRefuse, PC, Answers, Statuses
<1>2. PendingIsLive'
  BY BrokerAssumption
  DEF IInv, TypeOK, PendingIsLive, BrokerRefuse
<1>3. CallInv(d)'
  <2>1. CallInv(d)
    BY DEF IInv
  <2>2. /\ pc[d] = "queued" /\ pc'[d] = "recording"
        /\ result'[d] \in {"denied", "confirmation_required"}
        /\ request'[d] # None
        /\ token[d] # None => request'[d] = request[d]
        /\ Marshals(request'[d]) <=> Marshals(request[d])
        /\ UNCHANGED <<route, carried, token, runs, localRuns, audit, reply, lost>>
    BY <1>b, BrokerAssumption DEF IInv, TypeOK, BrokerRefuse, Marshals
  <2> QED BY <2>1, <2>2, BrokerAssumption
    DEF CallInv, EarlyInv, TokenInv, RunInv, AnswerInv, ReplyInv, ViaConfirm,
        TakenAtItsWord, Answers, Statuses
<1> QED
  BY <1>1, <1>2, <1>3, OneCall DEF IInv, TypeOK, callVars, BrokerRefuse

\* The executor comes back, never with a denial.
LEMMA BrokerExecuteIInv ==
  ASSUME IInv, NEW d \in Calls, BrokerExecute(d)
  PROVE  IInv'
<1>a. ExecutorResults(request[d]) \subseteq {"completed", "failed", "dry_run"}
  BY ExecutorResultsTyped
<1>1. TypeOK'
  BY <1>a, BrokerAssumption
  DEF IInv, TypeOK, BrokerExecute, PC, Answers, Statuses
<1>2. PendingIsLive'
  BY BrokerAssumption
  DEF IInv, TypeOK, PendingIsLive, BrokerExecute
<1>3. CallInv(d)'
  <2>1. CallInv(d)
    BY DEF IInv
  <2>2. /\ pc[d] = "executing" /\ pc'[d] = "recording"
        /\ result'[d] \in {"completed", "failed", "dry_run"}
        /\ UNCHANGED <<route, request, carried, token, runs, localRuns, audit, reply, lost>>
    BY <1>a, BrokerAssumption DEF IInv, TypeOK, BrokerExecute
  <2> QED BY <2>1, <2>2, BrokerAssumption
    DEF CallInv, EarlyInv, TokenInv, RunInv, AnswerInv, ReplyInv, ViaConfirm,
        TakenAtItsWord, Answers, Statuses
<1> QED
  BY <1>1, <1>2, <1>3, OneCall DEF IInv, TypeOK, callVars, BrokerExecute

\* The result is recorded and then answered.
LEMMA BrokerRecordIInv ==
  ASSUME IInv, NEW d \in Calls, BrokerRecord(d)
  PROVE  IInv'
<1>a. result[d] \in Answers
  BY DEF IInv, TypeOK, CallInv, AnswerInv, BrokerRecord
<1>1. TypeOK'
  BY <1>a, BrokerAssumption
  DEF IInv, TypeOK, BrokerRecord, Return, Answer, PC, Answers, Statuses
<1>2. PendingIsLive'
  BY BrokerAssumption
  DEF IInv, TypeOK, PendingIsLive, BrokerRecord, Return, Answer
<1>3. CallInv(d)'
  <2>1. CallInv(d)
    BY DEF IInv
  <2>2. /\ pc[d] = "recording" /\ audit' = audit \cup {<<d, result[d]>>}
        /\ \/ ViaConfirm(d) /\ reply[d] = None /\ pc'[d] = "answered" /\ reply'[d] = reply[d]
           \/ /\ ~(ViaConfirm(d) /\ reply[d] = None)
              /\ pc'[d] = "done"
              /\ reply'[d] = IF reply[d] = None THEN result[d] ELSE reply[d]
        /\ result[d] \in Answers \cup {None}
        /\ UNCHANGED <<route, request, carried, token, result, runs, localRuns, lost>>
    BY BrokerAssumption DEF IInv, TypeOK, BrokerRecord, Return, Answer
  <2> QED BY <2>1, <2>2, BrokerAssumption
    DEF CallInv, EarlyInv, TokenInv, RunInv, AnswerInv, ReplyInv, ViaConfirm,
        TakenAtItsWord, Answers, Statuses
<1> QED
  BY <1>1, <1>2, <1>3, OneCall DEF IInv, TypeOK, callVars, BrokerRecord, Return, Answer

\* A request that cannot be recorded is answered with a denial.
LEMMA BrokerRecordRejectsIInv ==
  ASSUME IInv, NEW d \in Calls, BrokerRecordRejects(d)
  PROVE  IInv'
<1>1. TypeOK'
  BY BrokerAssumption
  DEF IInv, TypeOK, BrokerRecordRejects, Return, Answer, PC, Answers, Statuses
<1>2. PendingIsLive'
  BY BrokerAssumption
  DEF IInv, TypeOK, PendingIsLive, BrokerRecordRejects, Return, Answer
<1>3. CallInv(d)'
  <2>1. CallInv(d)
    BY DEF IInv
  <2>2. /\ pc[d] = "recording" /\ ~Marshals(request[d]) /\ result'[d] = "denied"
        /\ \/ ViaConfirm(d) /\ reply[d] = None /\ pc'[d] = "answered" /\ reply'[d] = reply[d]
           \/ /\ ~(ViaConfirm(d) /\ reply[d] = None)
              /\ pc'[d] = "done"
              /\ reply'[d] = IF reply[d] = None THEN "denied" ELSE reply[d]
        /\ UNCHANGED <<route, request, carried, token, runs, localRuns, audit, lost>>
    BY BrokerAssumption DEF IInv, TypeOK, BrokerRecordRejects, Return, Answer
  <2> QED BY <2>1, <2>2, BrokerAssumption
    DEF CallInv, EarlyInv, TokenInv, RunInv, AnswerInv, ReplyInv, ViaConfirm,
        TakenAtItsWord, Answers, Statuses
<1> QED
  BY <1>1, <1>2, <1>3, OneCall DEF IInv, TypeOK, callVars, BrokerRecordRejects, Return, Answer

\* The audit write fails: nobody learns the result.
LEMMA BrokerRecordFailsIInv ==
  ASSUME IInv, NEW d \in Calls, BrokerRecordFails(d)
  PROVE  IInv'
<1>1. TypeOK'
  BY BrokerAssumption
  DEF IInv, TypeOK, BrokerRecordFails, Return, Answer, PC, Answers, Statuses
<1>2. PendingIsLive'
  BY BrokerAssumption
  DEF IInv, TypeOK, PendingIsLive, BrokerRecordFails, Return, Answer
<1>3. CallInv(d)'
  <2>1. CallInv(d)
    BY DEF IInv
  <2>2. /\ pc[d] = "recording" /\ audit' = audit /\ result'[d] = "error"
        /\ lost' = lost \cup {d}
        /\ \/ ViaConfirm(d) /\ reply[d] = None /\ pc'[d] = "answered" /\ reply'[d] = reply[d]
           \/ /\ ~(ViaConfirm(d) /\ reply[d] = None)
              /\ pc'[d] = "done"
              /\ reply'[d] = IF reply[d] = None THEN "error" ELSE reply[d]
        /\ UNCHANGED <<route, request, carried, token, runs, localRuns>>
    BY BrokerAssumption DEF IInv, TypeOK, BrokerRecordFails, Return, Answer
  <2> QED BY <2>1, <2>2, BrokerAssumption
    DEF CallInv, EarlyInv, TokenInv, RunInv, AnswerInv, ReplyInv, ViaConfirm,
        TakenAtItsWord, Answers, Statuses
<1> QED
  BY <1>1, <1>2, <1>3, OneCall DEF IInv, TypeOK, callVars, BrokerRecordFails, Return, Answer

\* A broker crash answers everything it held with an error and runs nothing.
LEMMA BrokerCrashIInv ==
  ASSUME IInv, BrokerCrash
  PROVE  IInv'
<1>1. TypeOK'
  BY BrokerAssumption
  DEF IInv, TypeOK, BrokerCrash, InBroker, PC, Answers, Statuses, Services
<1>2. PendingIsLive'
  BY DEF IInv, TypeOK, PendingIsLive, BrokerCrash, InBroker
<1>3. ASSUME NEW c \in Calls PROVE CallInv(c)'
  <2>1. CallInv(c)
    BY DEF IInv
  <2>2. CASE pc[c] \notin InBroker
    BY <2>1, <2>2, UntouchedCall DEF IInv, TypeOK, BrokerCrash, callVars
  <2>3. CASE pc[c] \in InBroker
    <3>1. /\ result'[c] = "error" /\ c \in lost'
          /\ \/ ViaConfirm(c) /\ reply[c] = None /\ pc'[c] = "answered" /\ reply'[c] = reply[c]
             \/ ViaConfirm(c) /\ reply[c] # None /\ pc'[c] = "done" /\ reply'[c] = reply[c]
             \/ /\ ~ViaConfirm(c) /\ pc'[c] = "done"
                /\ reply'[c] = IF reply[c] = None THEN "error" ELSE reply[c]
          /\ UNCHANGED <<route, request, carried, token, runs, localRuns, audit>>
      BY <2>3 DEF IInv, TypeOK, BrokerCrash
    <3> QED BY <2>1, <2>3, <3>1, BrokerAssumption
      DEF InBroker, CallInv, EarlyInv, TokenInv, RunInv, AnswerInv, ReplyInv, ViaConfirm,
          TakenAtItsWord, Answers, Statuses
  <2> QED BY <2>2, <2>3
<1> QED
  BY <1>1, <1>2, <1>3 DEF IInv

\* A crash of the confirmation service tells its clients that it is gone; what
\* the broker already has goes on.
LEMMA ConfirmCrashIInv ==
  ASSUME IInv, ConfirmCrash
  PROVE  IInv'
<1>1. TypeOK'
  BY BrokerAssumption
  DEF IInv, TypeOK, ConfirmCrash, InConfirm, PC, Answers, Statuses, Services
<1>2. PendingIsLive'
  BY DEF IInv, TypeOK, PendingIsLive, ConfirmCrash, InConfirm
<1>3. ASSUME NEW c \in Calls PROVE CallInv(c)'
  <2>1. CallInv(c)
    BY DEF IInv
  <2> DEFINE waits == pc[c] \notin {"idle", "done"} /\ ViaConfirm(c) /\ reply[c] = None
  <2>2. /\ pc'[c] = IF pc[c] \in InConfirm THEN "done" ELSE pc[c]
        /\ ~waits => reply'[c] = reply[c] /\ (c \in lost' <=> c \in lost)
        /\ waits => reply'[c] \in {"denied", "error"} /\ c \in lost'
        /\ UNCHANGED <<route, request, carried, token, result, runs, localRuns, audit>>
    BY DEF IInv, TypeOK, ConfirmCrash
  <2> QED BY <2>1, <2>2, BrokerAssumption
    DEF InConfirm, CallInv, EarlyInv, TokenInv, RunInv, AnswerInv, ReplyInv, ViaConfirm,
        TakenAtItsWord, Answers, Statuses
<1> QED
  BY <1>1, <1>2, <1>3 DEF IInv

\* The clock and the restarts touch no call.
LEMMA QuietIInv ==
  ASSUME IInv, Tick \/ BrokerRestart \/ ConfirmRestart \/ UNCHANGED vars
  PROVE  IInv'
<1>1. TypeOK' /\ PendingIsLive'
  <2>1. CASE Tick
    BY <2>1 DEF IInv, TypeOK, PendingIsLive, Tick
  <2>2. CASE BrokerRestart
    BY <2>2 DEF IInv, TypeOK, PendingIsLive, BrokerRestart, Services
  <2>3. CASE ConfirmRestart
    BY <2>3 DEF IInv, TypeOK, PendingIsLive, ConfirmRestart, Services
  <2>4. CASE UNCHANGED vars
    BY <2>4 DEF IInv, TypeOK, PendingIsLive, vars
  <2> QED BY <2>1, <2>2, <2>3, <2>4
<1>2. ASSUME NEW c \in Calls PROVE CallInv(c)'
  BY UntouchedCall DEF IInv, TypeOK, callVars, Tick, BrokerRestart, ConfirmRestart, vars
<1> QED
  BY <1>1, <1>2 DEF IInv

\* Every step of the clients, the two services and the environment keeps it.
LEMMA NextIInv == IInv /\ [Next]_vars => IInv'
<1> SUFFICES ASSUME IInv, [Next]_vars PROVE IInv'
  OBVIOUS
<1>1. ASSUME NEW c \in Calls, Client(c) PROVE IInv'
  BY <1>1, ClientIInv
<1>2. ASSUME NEW c \in Calls, Serve(c) PROVE IInv'
  BY <1>2, ConfirmBeginIInv, ApproveIInv, DenyIInv, SubmitApprovedIInv, ConfirmReturnIInv,
     BrokerAdmitIInv, BrokerRefuseIInv, BrokerExecuteIInv, BrokerRecordIInv,
     BrokerRecordRejectsIInv DEF Serve
<1>3. ASSUME NEW c \in Calls, BrokerRecordFails(c) PROVE IInv'
  BY <1>3, BrokerRecordFailsIInv
<1>4. CASE BrokerCrash \/ ConfirmCrash
  BY <1>4, BrokerCrashIInv, ConfirmCrashIInv
<1>5. CASE Tick \/ BrokerRestart \/ ConfirmRestart \/ UNCHANGED vars
  BY <1>5, QuietIInv
<1> QED
  BY <1>1, <1>2, <1>3, <1>4, <1>5 DEF Next

\* The inductive invariant holds in every reachable state.
THEOREM InvariantHolds == Spec => []IInv
  BY InitIInv, NextIInv, PTL DEF Spec

-----------------------------------------------------------------------------
(* The properties. *)

\* Every variable keeps its type.
THEOREM TypeCorrect == Spec => []TypeOK
  BY InvariantHolds, PTL DEF IInv

\* On the system bus an action runs at most once, and without an approval only if
\* it is a safe one whose client was taken at its word, also when the broker
\* restarts with an empty set of consumed tokens.
THEOREM ExecutionIsApproved == Spec => []ApprovedOnce
<1>1. IInv => ApprovedOnce
  BY DEF IInv, CallInv, RunInv, ApprovedOnce
<1> QED
  BY <1>1, InvariantHolds, PTL

\* No request is executed by the session's broker and by the system's.
THEOREM ExecutedByOneBroker == Spec => []OneExecutor
<1>1. IInv => OneExecutor
  <2> SUFFICES ASSUME IInv, NEW c \in Calls PROVE runs[c] + localRuns[c] <= 1
    BY DEF OneExecutor
  <2>1. runs[c] \in Nat /\ localRuns[c] \in Nat
    BY DEF IInv, TypeOK
  <2> QED BY <2>1 DEF IInv, CallInv, RunInv
<1> QED
  BY <1>1, InvariantHolds, PTL

\* A client told "denied" or "confirmation_required" has had nothing executed,
\* unless a crash or a failed audit write hit its call or its text cannot be
\* recorded.
THEOREM RefusalsAreFinal == Spec => []RefusalIsFinal
<1>1. IInv => RefusalIsFinal
  BY DEF IInv, CallInv, ReplyInv, RefusalIsFinal
<1> QED
  BY <1>1, InvariantHolds, PTL

\* Every outcome the system broker reports is in the audit log, but for denials
\* made of an error or of a text that cannot be recorded.
THEOREM AnswersAreRecorded == Spec => []AnswerIsRecorded
<1>1. IInv => AnswerIsRecorded
  BY DEF IInv, CallInv, ReplyInv, AnswerIsRecorded
<1> QED
  BY <1>1, InvariantHolds, PTL

\* The audit log holds one outcome per call.
THEOREM RecordsAreUnique == Spec => []OneRecord
<1>1. IInv => OneRecord
  <2> SUFFICES ASSUME IInv, NEW x \in audit, NEW y \in audit, x[1] = y[1] PROVE x = y
    BY DEF OneRecord
  <2>1. /\ x = <<x[1], x[2]>> /\ x[1] \in Calls /\ x[2] \in Answers
        /\ y = <<y[1], y[2]>> /\ y[2] \in Answers
    BY DEF IInv, TypeOK
  <2>2. \A s \in Answers : <<x[1], s>> \in audit => s = result[x[1]]
    BY <2>1 DEF IInv, CallInv, AnswerInv
  <2>3. <<x[1], x[2]>> \in audit /\ <<x[1], y[2]>> \in audit
    BY <2>1
  <2> QED BY <2>1, <2>2, <2>3
<1> QED
  BY <1>1, InvariantHolds, PTL

\* Nothing of a ceremony that has ended stays pending.
THEOREM PendingCeremoniesAreLive == Spec => []PendingIsLive
  BY InvariantHolds, PTL DEF IInv

\* An action starts within the lifetime of its capability, for what was approved,
\* and uses the capability up, or it is a safe one of a client taken at its word.
THEOREM RunsOnlyAsApproved == Spec => RunsAsApproved
<1>1. IInv /\ [Next]_vars => [\A c \in Calls :
         runs'[c] # runs[c] => AsApproved(c) \/ TakenAtItsWord(c)]_vars
  <2> SUFFICES ASSUME IInv, Next, NEW c \in Calls, runs'[c] # runs[c], ~TakenAtItsWord(c)
               PROVE  AsApproved(c)
    OBVIOUS
  <2>1. BrokerAdmit(c)
    BY DEF Next, Client, Serve, IInv, TypeOK, Tick, SessionRefuse, SessionRun, SessionAsk,
       BusConfirm, BusSubmit, Enter, ConfirmBegin, Approve, Deny, SubmitApproved,
       ConfirmReturn, BrokerAdmit, BrokerRefuse, BrokerExecute, BrokerRecord,
       BrokerRecordRejects, BrokerRecordFails, BrokerCrash, BrokerRestart, ConfirmCrash,
       ConfirmRestart
  <2>2. /\ Received(c) = request[c] /\ Evaluate(Received(c)) = "confirm"
        /\ token[c] # None /\ Verifies(c, Received(c))
    BY <2>1, AdmitNeedsToken
  <2>3. request'[c] = request[c] /\ consumed' = consumed \cup {c}
    BY <2>1, <2>2 DEF BrokerAdmit, IInv, TypeOK
  <2> QED BY <2>2, <2>3 DEF Verifies, AsApproved
<1> QED
  BY <1>1, InvariantHolds, PTL DEF Spec, RunsAsApproved

-----------------------------------------------------------------------------
(* Refinement: every step of the services is a step of ConfirmedExecution or *)
(* changes nothing there.                                                    *)

stageMap   == [c \in Calls |-> Stage(c)]
riskyMap   == {c \in Calls : Risky(c)}
expiresMap == [c \in Calls |-> IF token[c] = None THEN 0 ELSE token[c].expires_at]

\* A step that leaves stage, risk and token of every call alone is invisible.
LEMMA Invisible ==
  ASSUME \A c \in Calls : /\ Stage(c)' = Stage(c) /\ (Risky(c)' <=> Risky(c))
                          /\ token'[c] = token[c]
  PROVE  stageMap' = stageMap /\ riskyMap' = riskyMap /\ expiresMap' = expiresMap
  BY DEF stageMap, riskyMap, expiresMap

\* Calls that are closed by refusal or loss, wherever they were before.
LEMMA Closing ==
  ASSUME UNCHANGED now,
         \A c \in Calls : token'[c] = token[c],
         \A c \in Calls :
           \/ Stage(c)' = Stage(c) /\ (Risky(c)' <=> Risky(c))
           \/ Stage(c) \in {"new", "open", "approved"} /\ Stage(c)' = "closed"
  PROVE  [CE!Next]_CE!vars
<1> DEFINE S == {c \in Calls : Stage(c)' # Stage(c)}
<1>1. expiresMap' = expiresMap
  BY DEF expiresMap
<1>2. CASE S = {}
  <2>1. \A c \in Calls : Stage(c)' = Stage(c) /\ (Risky(c)' <=> Risky(c))
    BY <1>2
  <2> QED BY <1>1, <2>1, Invisible DEF CE!vars, stageMap, riskyMap, expiresMap
<1>3. CASE S # {}
  <2>1. \A c \in S : stageMap[c] \in {"new", "open", "approved"}
    BY DEF stageMap
  <2>2. stageMap' = [c \in Calls |-> IF c \in S THEN "closed" ELSE stageMap[c]]
    BY DEF stageMap
  <2>3. ASSUME NEW c \in Calls PROVE Risky(c)' <=> c \notin S /\ Risky(c)
    BY DEF Risky
  <2>4. riskyMap' = riskyMap \ S
    BY <2>3 DEF riskyMap
  <2>5. CE!Close(S)
    BY <1>1, <1>3, <2>1, <2>2, <2>4 DEF CE!Close, stageMap, riskyMap, expiresMap
  <2> QED BY <2>5 DEF CE!Next
<1> QED BY <1>2, <1>3

\* Crashes lose calls, and start nothing.
LEMMA CrashStep ==
  ASSUME IInv, BrokerCrash \/ ConfirmCrash
  PROVE  [CE!Next]_CE!vars
<1>1. UNCHANGED <<now, token, runs, localRuns, request>>
  BY DEF BrokerCrash, ConfirmCrash
<1>2. ASSUME NEW c \in Calls
      PROVE  \/ Stage(c)' = Stage(c) /\ (Risky(c)' <=> Risky(c))
             \/ Stage(c) \in {"new", "open", "approved"} /\ Stage(c)' = "closed"
  <2>1. CallInv(c)
    BY DEF IInv
  <2>2. \/ pc'[c] = pc[c]
        \/ pc[c] \in {"asked", "collecting", "approved", "queued"} /\ pc'[c] \in {"answered", "done"}
        \/ pc[c] = "executing" /\ pc'[c] \in {"answered", "done"} /\ runs[c] = 1
        \/ pc[c] \in {"recording", "answered"} /\ pc'[c] \in {"answered", "done"}
    BY <2>1 DEF IInv, TypeOK, BrokerCrash, ConfirmCrash, InBroker, InConfirm, CallInv, RunInv
  <2>3. runs[c] \in Nat /\ localRuns[c] \in Nat
    BY DEF IInv, TypeOK
  <2> QED BY <1>1, <2>2, <2>3 DEF Stage, Risky
<1> QED BY <1>1, <1>2, Closing

\* The calls a step of call d does not touch keep their stage and their risk.
LEMMA Others ==
  ASSUME NEW d \in Calls,
         \A c \in Calls \ {d} :
           /\ pc'[c] = pc[c] /\ request'[c] = request[c] /\ token'[c] = token[c]
           /\ runs'[c] = runs[c] /\ localRuns'[c] = localRuns[c]
  PROVE  \A c \in Calls \ {d} :
           Stage(c)' = Stage(c) /\ (Risky(c)' <=> Risky(c)) /\ token'[c] = token[c]
  BY DEF Stage, Risky

\* A call is made: it is run at once, refused at once, or open.
LEMMA ClientStep ==
  ASSUME IInv, NEW d \in Calls, Client(d)
  PROVE  [CE!Next]_CE!vars
<1>1. PICK r \in Requests : SessionRefuse(d, r) \/ SessionRun(d, r) \/ SessionAsk(d, r)
                              \/ BusConfirm(d, r) \/ BusSubmit(d, r)
  BY DEF Client
<1>2. /\ pc[d] = "idle" /\ UNCHANGED <<now, token, runs>>
      /\ \A c \in Calls \ {d} : /\ pc'[c] = pc[c] /\ request'[c] = request[c]
                                /\ localRuns'[c] = localRuns[c]
  BY <1>1 DEF IInv, TypeOK, SessionRefuse, SessionRun, SessionAsk, BusConfirm, BusSubmit, Enter
<1>3. runs[d] = 0 /\ localRuns[d] = 0 /\ token[d] = None
  BY <1>2 DEF IInv, CallInv, EarlyInv
<1>4. Stage(d) = "new" /\ ~Risky(d)
  BY <1>2, <1>3 DEF Stage, Risky
<1>5. \A c \in Calls \ {d} : Stage(c)' = Stage(c) /\ (Risky(c)' <=> Risky(c))
  BY <1>2, Others
<1>6. expiresMap' = expiresMap
  BY <1>2 DEF expiresMap
<1>7. CASE SessionRefuse(d, r)
  <2>1. pc'[d] = "done" /\ localRuns' = localRuns
    BY <1>7 DEF IInv, TypeOK, SessionRefuse, Enter
  <2>2. Stage(d)' = "closed"
    BY <1>2, <1>3, <2>1 DEF Stage
  <2> QED BY <1>2, <1>4, <1>5, <2>2, Closing
<1>8. CASE SessionRun(d, r)
  <2>1. localRuns'[d] = 1 /\ request'[d] = r /\ Evaluate(r) = "safe"
    BY <1>3, <1>8 DEF IInv, TypeOK, SessionRun, Enter
  <2>2. Stage(d)' = "run" /\ ~Risky(d)'
    BY <1>2, <1>3, <2>1 DEF Stage, Risky
  <2>3. stageMap' = [stageMap EXCEPT ![d] = "run"] /\ riskyMap' = riskyMap
    BY <1>4, <1>5, <2>2 DEF stageMap, riskyMap
  <2>4. CE!AskAndRun(d)
    BY <1>2, <1>4, <1>6, <2>3 DEF CE!AskAndRun, stageMap, riskyMap, expiresMap
  <2> QED BY <2>4 DEF CE!Next
<1>9. CASE SessionAsk(d, r) \/ BusConfirm(d, r) \/ BusSubmit(d, r)
  <2>1. pc'[d] \in {"asked", "queued"} /\ localRuns' = localRuns
    BY <1>9 DEF IInv, TypeOK, SessionAsk, BusConfirm, BusSubmit, Enter
  <2>2. Stage(d)' = "open"
    BY <1>2, <1>3, <2>1 DEF Stage
  <2>4. stageMap' = [stageMap EXCEPT ![d] = "open"]
    BY <1>5, <2>2 DEF stageMap
  <2>5. riskyMap' \in {riskyMap \ {d}, riskyMap \cup {d}}
    <3>1. CASE Risky(d)'
      BY <1>5, <3>1 DEF riskyMap
    <3>2. CASE ~Risky(d)'
      BY <1>5, <3>2 DEF riskyMap
    <3> QED BY <3>1, <3>2
  <2>6. CE!Ask(d)
    BY <1>2, <1>4, <1>6, <2>4, <2>5 DEF CE!Ask, stageMap, riskyMap, expiresMap
  <2> QED BY <2>6 DEF CE!Next
<1> QED
  BY <1>1, <1>7, <1>8, <1>9

\* A ceremony begins for a request that is now taken for a tainted one, or the
\* request is refused.
LEMMA ConfirmBeginStep ==
  ASSUME IInv, NEW d \in Calls, ConfirmBegin(d)
  PROVE  [CE!Next]_CE!vars
<1>1. /\ pc[d] = "asked" /\ UNCHANGED <<now, token, runs, localRuns>>
      /\ \A c \in Calls \ {d} : pc'[c] = pc[c] /\ request'[c] = request[c]
      /\ \/ pc'[d] = "done"
         \/ pc'[d] = "collecting" /\ Evaluate(request'[d]) = "confirm"
  BY DEF IInv, TypeOK, ConfirmBegin, Answer
<1>2. runs[d] = 0 /\ localRuns[d] = 0 /\ token[d] = None
  BY <1>1 DEF IInv, CallInv, EarlyInv
<1>3. \A c \in Calls \ {d} : Stage(c)' = Stage(c) /\ (Risky(c)' <=> Risky(c))
  BY <1>1, Others
<1>4. Stage(d) = "open"
  BY <1>1, <1>2 DEF Stage
<1>5. CASE pc'[d] = "done"
  <2>1. Stage(d)' = "closed"
    BY <1>1, <1>2, <1>5 DEF Stage
  <2> QED BY <1>1, <1>3, <1>4, <2>1, Closing
<1>6. CASE pc'[d] = "collecting"
  <2>1. Stage(d)' = "open" /\ Risky(d)'
    BY <1>1, <1>2, <1>6 DEF Stage, Risky
  <2>2. stageMap' = stageMap /\ riskyMap' = riskyMap \cup {d}
    BY <1>3, <1>4, <2>1 DEF stageMap, riskyMap
  <2>3. CE!Taint(d)
    BY <1>1, <1>4, <2>2 DEF CE!Taint, stageMap, riskyMap, expiresMap
  <2> QED BY <2>3 DEF CE!Next
<1> QED BY <1>1, <1>5, <1>6

\* The other steps of one call d move it towards its end, or nowhere.
LEMMA ClosingStep ==
  ASSUME IInv, NEW d \in Calls,
         \/ Deny(d) \/ SubmitApproved(d) \/ ConfirmReturn(d) \/ BrokerRefuse(d)
         \/ BrokerExecute(d) \/ BrokerRecord(d) \/ BrokerRecordRejects(d)
         \/ BrokerRecordFails(d)
  PROVE  [CE!Next]_CE!vars
<1>1. UNCHANGED <<now, token, runs, localRuns>>
  BY DEF Deny, SubmitApproved, ConfirmReturn, BrokerRefuse, BrokerExecute,
     BrokerRecord, BrokerRecordRejects, BrokerRecordFails
<1>2. \A c \in Calls \ {d} : pc'[c] = pc[c] /\ request'[c] = request[c]
  BY DEF IInv, TypeOK, Deny, SubmitApproved, ConfirmReturn, BrokerRefuse, BrokerExecute,
     BrokerRecord, BrokerRecordRejects, BrokerRecordFails, Return, Answer
<1>3. CallInv(d) /\ runs[d] \in Nat /\ localRuns[d] \in Nat
  BY DEF IInv, TypeOK
<1>4. \/ pc[d] = "collecting" /\ pc'[d] = "done"
      \/ pc[d] = "approved" /\ pc'[d] = "done"
      \/ pc[d] = "approved" /\ pc'[d] = "queued" /\ request'[d] = request[d]
      \/ pc[d] = "queued" /\ pc'[d] = "recording"
      \/ pc[d] = "executing" /\ pc'[d] = "recording" /\ request'[d] = request[d]
      \/ /\ pc[d] \in {"recording", "answered"} /\ pc'[d] \in {"answered", "done"}
         /\ request'[d] = request[d]
  BY DEF IInv, TypeOK, Deny, SubmitApproved, ConfirmReturn, BrokerRefuse, BrokerExecute,
     BrokerRecord, BrokerRecordRejects, BrokerRecordFails, Return, Answer
<1>5. \/ Stage(d)' = Stage(d) /\ (Risky(d)' <=> Risky(d))
      \/ Stage(d) \in {"new", "open", "approved"} /\ Stage(d)' = "closed"
  <2>1. CASE pc[d] \in {"collecting", "approved", "queued"}
    <3>1. runs[d] = 0 /\ localRuns[d] = 0
      BY <1>3, <2>1 DEF CallInv, EarlyInv
    <3> QED BY <1>1, <1>4, <2>1, <3>1 DEF Stage, Risky
  <2>2. CASE pc[d] = "executing"
    <3>1. runs[d] = 1
      BY <1>3, <2>2 DEF CallInv, RunInv
    <3> QED BY <1>1, <1>3, <1>4, <2>2, <3>1 DEF Stage, Risky
  <2>3. CASE pc[d] \in {"recording", "answered"}
    BY <1>1, <1>4, <2>3 DEF Stage, Risky
  <2> QED BY <1>4, <2>1, <2>2, <2>3
<1>6. \A c \in Calls \ {d} : Stage(c)' = Stage(c) /\ (Risky(c)' <=> Risky(c))
  BY <1>1, <1>2, Others
<1> QED BY <1>1, <1>5, <1>6, Closing

\* Issuing a token is the abstract Approve.
LEMMA ApproveStep ==
  ASSUME IInv, NEW d \in Calls, Approve(d)
  PROVE  CE!Approve(d)
<1>1. pc[d] = "collecting" /\ token[d] = None /\ runs[d] = 0 /\ localRuns[d] = 0
  BY DEF IInv, CallInv, EarlyInv, Approve
<1>2. /\ pc' = [pc EXCEPT ![d] = "approved"]
      /\ token' = [token EXCEPT ![d] = Capability(request[d])]
      /\ UNCHANGED <<now, runs, localRuns, request>>
  BY DEF Approve
<1>3. request[d] \in ActionRequest
  BY <1>1 DEF IInv, TypeOK, CallInv, TokenInv
<1>4. Capability(request[d]) \in Capabilities /\ Capability(request[d]).expires_at = now + CapabilityTtl
  BY <1>3, BrokerAssumption DEF IInv, TypeOK, Capability, Capabilities, ActionRequest
<1>5. Stage(d) = "open" /\ Stage(d)' = "approved"
  BY <1>1, <1>2, <1>4, BrokerAssumption DEF IInv, TypeOK, Stage
<1>6. (Risky(d)' <=> Risky(d))
  BY <1>2, <1>5 DEF Risky
<1>7. \A c \in Calls \ {d} : Stage(c)' = Stage(c) /\ (Risky(c)' <=> Risky(c)) /\ token'[c] = token[c]
  BY <1>2, Others DEF IInv, TypeOK
<1>8. stageMap' = [stageMap EXCEPT ![d] = "approved"] /\ riskyMap' = riskyMap
  BY <1>5, <1>6, <1>7 DEF stageMap, riskyMap
<1>9. expiresMap' = [expiresMap EXCEPT ![d] = now + CapabilityTtl]
  BY <1>2, <1>4, <1>7, BrokerAssumption DEF IInv, TypeOK, expiresMap
<1> QED
  BY <1>2, <1>5, <1>8, <1>9 DEF CE!Approve, stageMap, riskyMap, expiresMap

\* Starting the executor is the abstract Run.
LEMMA AdmitStep ==
  ASSUME IInv, NEW d \in Calls, BrokerAdmit(d)
  PROVE  CE!Run(d)
<1>1. /\ pc[d] = "queued" /\ runs[d] = 0 /\ localRuns[d] = 0
      /\ Received(d) = request[d]
  BY AdmitNeedsToken DEF IInv, CallInv, EarlyInv, BrokerAdmit
<1>2. /\ pc' = [pc EXCEPT ![d] = "executing"] /\ runs' = [runs EXCEPT ![d] = @ + 1]
      /\ request' = [request EXCEPT ![d] = Received(d)]
      /\ UNCHANGED <<now, token, localRuns>>
  BY DEF BrokerAdmit
<1>3. Stage(d)' = "run" /\ request'[d] = request[d]
  BY <1>1, <1>2 DEF IInv, TypeOK, Stage
<1>4. \/ Stage(d) = "approved" /\ now < token[d].expires_at /\ token[d] # None
      \/ Stage(d) = "open" /\ ~Risky(d)
  <2>1. CASE token[d] # None
    BY <1>1, <2>1, AdmitNeedsToken DEF Verifies, Stage
  <2>2. CASE token[d] = None
    BY <1>1, <2>2, AdmitNeedsToken DEF TakenAtItsWord, Stage, Risky
  <2> QED BY <2>1, <2>2
<1>5. (Risky(d)' <=> Risky(d))
  BY <1>3, <1>4 DEF Risky
<1>6. \A c \in Calls \ {d} : Stage(c)' = Stage(c) /\ (Risky(c)' <=> Risky(c))
  BY <1>2, Others DEF IInv, TypeOK
<1>7. stageMap' = [stageMap EXCEPT ![d] = "run"] /\ riskyMap' = riskyMap
  BY <1>3, <1>5, <1>6 DEF stageMap, riskyMap
<1> QED
  BY <1>2, <1>4, <1>7 DEF CE!Run, stageMap, riskyMap, expiresMap

\* The composition of the two services, the session broker, and any number of
\* crashes implements ConfirmedExecution.
THEOREM Implements == Spec => ImplementsConfirmedExecution
<1>1. Init => CE!Init
  BY DEF Init, CE!Init, Stage, Risky
<1>2. IInv /\ [Next]_vars => [CE!Next]_CE!vars
  <2> SUFFICES ASSUME IInv, [Next]_vars PROVE [CE!Next]_CE!vars
    OBVIOUS
  <2>1. ASSUME NEW c \in Calls, Approve(c) PROVE [CE!Next]_CE!vars
    BY <2>1, ApproveStep DEF CE!Next
  <2>2. ASSUME NEW c \in Calls, BrokerAdmit(c) PROVE [CE!Next]_CE!vars
    BY <2>2, AdmitStep DEF CE!Next
  <2>3. ASSUME NEW c \in Calls, Client(c) \/ Serve(c) \/ BrokerRecordFails(c)
        PROVE [CE!Next]_CE!vars
    BY <2>1, <2>2, <2>3, ClientStep, ConfirmBeginStep, ClosingStep DEF Serve
  <2>4. CASE BrokerCrash \/ ConfirmCrash
    BY <2>4, CrashStep
  <2>5. CASE Tick
    <3>1. stageMap' = stageMap /\ riskyMap' = riskyMap /\ expiresMap' = expiresMap
      BY <2>5, Invisible DEF Tick, Stage, Risky
    <3> QED BY <2>5, <3>1 DEF Tick, CE!Next, CE!Tick, stageMap, riskyMap, expiresMap
  <2>6. CASE BrokerRestart \/ ConfirmRestart \/ UNCHANGED vars
    <3>1. /\ stageMap' = stageMap /\ riskyMap' = riskyMap /\ expiresMap' = expiresMap
          /\ now' = now
      BY <2>6, Invisible DEF BrokerRestart, ConfirmRestart, vars, Stage, Risky
    <3> QED BY <3>1 DEF CE!vars, stageMap, riskyMap, expiresMap
  <2> QED BY <2>3, <2>4, <2>5, <2>6 DEF Next
<1> QED
  BY <1>1, <1>2, InvariantHolds, PTL DEF Spec, ImplementsConfirmedExecution, CE!Spec
=============================================================================
