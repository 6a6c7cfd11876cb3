---------------------------- MODULE TrustedBroker ----------------------------
(***************************************************************************)
(* One action from the moment a client asks for it to the answer: the      *)
(* in-session broker (ConfirmationAwareBroker over a local ActionBroker),  *)
(* the clausis-confirm service (TrustedConfirmer, ConfirmAndSubmit) and    *)
(* the clausis-action-broker service (ActionBroker over SafeExecutor with  *)
(* a CapabilityAuthority and an AuditLog), on one clock.                   *)
(*                                                                         *)
(* A client call is a member of Calls.  The token issued for a call is     *)
(* identified by the call: issue() draws a fresh jti, and one ceremony     *)
(* issues at most one token.  The HMAC is perfect and the confirmation     *)
(* service hands no token out, so a token string in a client's own message *)
(* never verifies.  A message that does not parse is answered "denied" by  *)
(* either service at once and is not a call here.                          *)
(*                                                                         *)
(* Both services may crash between any two of their steps and are started  *)
(* again; what they keep in memory is lost.                                *)
(***************************************************************************)
EXTENDS Policy

CONSTANTS
  Calls,         \* client calls
  Requests,      \* requests clients may make
  ConfirmTtl,    \* TrustedConfirmer.ttl_seconds (90 in the code)
  CapabilityTtl, \* TrustedConfirmer.capability_ttl_seconds (30 in the code)
  Unencodable,   \* payloads holding text that UTF-8 cannot encode (a lone surrogate)
  Execute,       \* CLAUSIS_EXECUTE=1 on the system broker
  Confirming,    \* calls whose session found a voice PIN: it has a confirmer
  MaxTime,       \* bound on the clock
  MaxFaults      \* bound on crashes and failed audit writes

\* What a token stands for: the request fields its signature binds, and its end.
Capabilities == [action : Actions, payload : Payloads, origin : Origin, expires_at : Nat]

ASSUME BrokerAssumption ==
  /\ Requests \subseteq ActionRequest
  /\ ConfirmTtl \in Nat \ {0} /\ CapabilityTtl \in Nat \ {0}
  /\ Unencodable \subseteq Payloads
  /\ Execute \in BOOLEAN /\ Confirming \subseteq Calls
  /\ MaxTime \in Nat /\ MaxFaults \in Nat
  /\ None \notin {"session", "submit", "confirm", "completed", "failed", "dry_run",
                  "denied", "confirmation_required", "error"}
  /\ None \notin ActionRequest /\ None \notin Capabilities

VARIABLES
  now,        \* utc_now()
  pc,         \* pc[c]: where call c is
  route,      \* route[c]: through which door call c came in
  request,    \* request[c]: the request, as last rewritten on its way
  carried,    \* carried[c]: the capability_token the client itself put in
  pending,    \* pending[c]: when the confirmation of c expires; TrustedConfirmer._pending
  token,      \* token[c]: the capability issued for c
  consumed,   \* CapabilityAuthority._consumed in the system broker's memory
  result,     \* result[c]: status the system broker has decided for c
  runs,       \* runs[c]: how often the system executor was started for c
  localRuns,  \* localRuns[c]: how often the session executor was started for c
  audit,      \* <<call, status>> pairs the audit log holds
  reply,      \* reply[c]: the status the client was given
  up,         \* up[s]: whether service s runs
  faults,     \* crashes and failed audit writes so far
  lost        \* history: calls a crash or a failed audit write happened to

vars == <<now, pc, route, request, carried, pending, token, consumed, result, runs,
          localRuns, audit, reply, up, faults, lost>>

Services == {"broker", "confirm"}
Routes   == {"session", "submit", "confirm"}
Statuses == {"completed", "failed", "dry_run", "denied", "confirmation_required"}

\* A message has no token, an empty string for one, or a string that is no
\* token of the confirmation service.
Tokens == {"none", "empty", "foreign"}

\* What a client can be told: a status, or a D-Bus error if it talks to a
\* service itself.  ConfirmInterface turns every exception, and
\* ConfirmationAwareBroker every exception and D-Bus error, into "denied".
Answers == Statuses \cup {"error"}

\* The states of a call.
\*  asked       sent to the confirmation service
\*  collecting  TrustedConfirmer waits for the spoken phrase and PIN
\*  approved    the worker thread returned a request with a token
\*  queued      sent to the system broker
\*  executing   inside SafeExecutor.execute
\*  recording   result decided, audit record not yet written
\*  answered    the broker has answered the confirmation service
\*  done        nothing more will happen
PC == {"idle", "asked", "collecting", "approved", "queued", "executing",
       "recording", "answered", "done"}

\* Mutant: the capability lives as long as the confirmation window.
CapabilityWithWindowTtl(r) ==
  [action |-> r.action, payload |-> r.payload, origin |-> r.origin,
   expires_at |-> now + ConfirmTtl]

\* CapabilityAuthority.issue: the fields the signature covers.
Capability(r) == [action |-> r.action, payload |-> r.payload, origin |-> r.origin,
                  expires_at |-> now + CapabilityTtl]

Init ==
  /\ now = 0
  /\ pc = [c \in Calls |-> "idle"]
  /\ route = [c \in Calls |-> None]
  /\ request = [c \in Calls |-> None]
  /\ carried = [c \in Calls |-> "none"]
  /\ pending = [c \in Calls |-> None]
  /\ token = [c \in Calls |-> None]
  /\ consumed = {}
  /\ result = [c \in Calls |-> None]
  /\ runs = [c \in Calls |-> 0]
  /\ localRuns = [c \in Calls |-> 0]
  /\ audit = {}
  /\ reply = [c \in Calls |-> None]
  /\ up = [s \in Services |-> TRUE]
  /\ faults = 0
  /\ lost = {}

Tick ==
  /\ now < MaxTime
  /\ now' = now + 1
  /\ UNCHANGED <<pc, route, request, carried, pending, token, consumed, result, runs,
                 localRuns, audit, reply, up, faults, lost>>

-----------------------------------------------------------------------------
(* The client side. *)

\* Call c leaves its client through door d with request r and token string t,
\* and is now at p.
Enter(c, d, r, t, p) ==
  /\ pc[c] = "idle"
  /\ pc' = [pc EXCEPT ![c] = p]
  /\ route' = [route EXCEPT ![c] = d]
  /\ request' = [request EXCEPT ![c] = r]
  /\ carried' = [carried EXCEPT ![c] = t]
  /\ UNCHANGED <<now, pending, token, consumed, result, runs, audit, up, faults, lost>>

\* json.dumps(ensure_ascii=False) yields a string that D-Bus cannot marshal.
Marshals(r) == r.payload \notin Unencodable

\* The session's own broker refuses the request, or asks for a confirmation
\* this session cannot give, or one whose request cannot be sent.
SessionRefuse(c, r) ==
  \E status \in {"denied", "confirmation_required"} :
    /\ \/ status = "denied" /\ (Expired(r, now) \/ Evaluate(r) = "refused")
       \/ status = "confirmation_required" /\ ~Expired(r, now)
            /\ Evaluate(r) = "confirm" /\ c \notin Confirming
       \/ status = "denied" /\ ~Expired(r, now)
            /\ Evaluate(r) = "confirm" /\ c \in Confirming /\ ~Marshals(r)
    /\ Enter(c, "session", r, "none", "done")
    /\ reply' = [reply EXCEPT ![c] = status]
    /\ UNCHANGED localRuns

\* Mutant: anything but a completed action is put to the confirmation service.
SessionRunThenAsk(c, r) ==
  /\ ~Expired(r, now) /\ Evaluate(r) = "safe"
  /\ Enter(c, "session", r, "none", "asked")
  /\ localRuns' = [localRuns EXCEPT ![c] = @ + 1]
  /\ UNCHANGED reply

\* A safe request runs in the session; it is not audited there.  Whatever the
\* executor makes of it, ConfirmationAwareBroker hands the answer on.
SessionRun(c, r) ==
  /\ ~Expired(r, now) /\ Evaluate(r) = "safe"
  /\ Enter(c, "session", r, "none", "done")
  /\ localRuns' = [localRuns EXCEPT ![c] = @ + 1]
  /\ \E status \in {"completed", "failed", "dry_run"} :
       reply' = [reply EXCEPT ![c] = status]

\* Only "confirmation_required" sends a request to the confirmation service.
SessionAsk(c, r) ==
  /\ ~Expired(r, now) /\ Evaluate(r) = "confirm" /\ c \in Confirming /\ Marshals(r)
  /\ Enter(c, "session", r, "none", "asked")
  /\ UNCHANGED <<localRuns, reply>>

\* Another bus client calls ConfirmAndSubmit, or Submit, directly, with
\* whatever it likes in capability_token; ConfirmAndSubmit does not tell one
\* string from another.
BusConfirm(c, r) == \E t \in Tokens \ {"empty"} :
  Enter(c, "confirm", r, t, "asked") /\ UNCHANGED <<localRuns, reply>>
BusSubmit(c, r) == \E t \in Tokens :
  Enter(c, "submit", r, t, "queued") /\ UNCHANGED <<localRuns, reply>>

-----------------------------------------------------------------------------
(* The confirmation service. *)

ViaConfirm(c) == route[c] \in {"session", "confirm"}

\* canonicalize_untrusted_request
Canonical(r) == [r EXCEPT !.origin = IF r.origin = "external_content"
                                     THEN "external_content" ELSE "hermes"]

\* Call c ends with answer a, unless its client already has one.
Answer(c, a) ==
  /\ pc' = [pc EXCEPT ![c] = "done"]
  /\ reply' = [reply EXCEPT ![c] = IF @ = None THEN a ELSE @]

\* ConfirmAndSubmit parses and canonicalises the request, refuses one that
\* brings a token, and starts the worker thread, which evaluates the request
\* and begins a confirmation.
ConfirmBegin(c) ==
  /\ up["confirm"] /\ pc[c] = "asked"
  /\ request' = [request EXCEPT ![c] = Canonical(@)]
  /\ IF carried[c] = "none" /\ Evaluate(Canonical(request[c])) = "confirm"
     THEN /\ pc' = [pc EXCEPT ![c] = "collecting"]
          /\ pending' = [pending EXCEPT ![c] = now + ConfirmTtl]
          /\ UNCHANGED reply
     ELSE Answer(c, "denied") /\ UNCHANGED pending
  /\ UNCHANGED <<now, route, carried, token, consumed, result, runs, localRuns, audit,
                 up, faults, lost>>

\* TrustedConfirmer.approve after a matching phrase and PIN.
Approve(c) ==
  /\ up["confirm"] /\ pc[c] = "collecting"
  /\ now < pending[c]
  /\ pending' = [pending EXCEPT ![c] = None]
  /\ token' = [token EXCEPT ![c] = Capability(request[c])]
  /\ pc' = [pc EXCEPT ![c] = "approved"]
  /\ UNCHANGED <<now, route, request, carried, consumed, result, runs, localRuns, audit,
                 reply, up, faults, lost>>

\* Mutant: a failed ceremony leaves its entry for the expiry check of approve().
DenyKeepsPending(c) ==
  /\ up["confirm"] /\ pc[c] = "collecting"
  /\ Answer(c, "denied")
  /\ UNCHANGED <<now, route, request, carried, pending, token, consumed, result, runs,
                 localRuns, audit, up, faults, lost>>

\* Mutant: an answer that comes after the ceremony expired is dropped silently.
DenyInTimeOnly(c) ==
  /\ up["confirm"] /\ pc[c] = "collecting" /\ now < pending[c]
  /\ pending' = [pending EXCEPT ![c] = None]
  /\ Answer(c, "denied")
  /\ UNCHANGED <<now, route, request, carried, token, consumed, result, runs, localRuns,
                 audit, up, faults, lost>>

\* A wrong phrase or PIN, an abort phrase, a speech failure, or an answer that
\* comes too late: deny() and the exception reaches ConfirmAndSubmit.
Deny(c) ==
  /\ up["confirm"] /\ pc[c] = "collecting"
  /\ pending' = [pending EXCEPT ![c] = None]
  /\ Answer(c, "denied")
  /\ UNCHANGED <<now, route, request, carried, token, consumed, result, runs, localRuns,
                 audit, up, faults, lost>>

\* The event loop resumes and calls Submit on the broker, or fails to send the
\* request.
SubmitApproved(c) ==
  /\ up["confirm"] /\ pc[c] = "approved"
  /\ IF Marshals(request[c]) THEN pc' = [pc EXCEPT ![c] = "queued"] /\ UNCHANGED reply
     ELSE Answer(c, "denied")
  /\ UNCHANGED <<now, route, request, carried, pending, token, consumed, result, runs,
                 localRuns, audit, up, faults, lost>>

\* ConfirmAndSubmit returns what the broker answered; a D-Bus error becomes the
\* generic denial, whatever the broker had done before it.
ConfirmReturn(c) ==
  /\ up["confirm"] /\ pc[c] = "answered"
  /\ Answer(c, IF result[c] = "error" THEN "denied" ELSE result[c])
  /\ UNCHANGED <<now, route, request, carried, pending, token, consumed, result, runs,
                 localRuns, audit, up, faults, lost>>

-----------------------------------------------------------------------------
(* The system broker.  Submit runs to completion on the event loop, so one   *)
(* call at a time is past the checks.                                        *)

Busy == \E c \in Calls : pc[c] \in {"executing", "recording"}

\* Mutant: the origin a direct caller claims is believed.
ReceivedAsClaimed(c) == request[c]

\* Whether Submit's message has a capability_token that is not null.
HasToken(c) == token[c] # None \/ carried[c] # "none"

\* A message without a token cannot claim a trusted origin.  One with any token
\* string keeps what it claims: the string is looked at only if the policy asks
\* for a confirmation.
Received(c) == IF HasToken(c) THEN request[c]
               ELSE [request[c] EXCEPT !.origin = "hermes"]

\* Mutant: the expiry of the token is not compared with the clock.
VerifiesWithoutExpiry(c, r) ==
  /\ token[c].action = r.action /\ token[c].payload = r.payload
  /\ token[c].origin = r.origin
  /\ c \notin consumed

\* CapabilityAuthority.verify for a well-formed, correctly signed token.
Verifies(c, r) ==
  /\ now < token[c].expires_at
  /\ token[c].action = r.action /\ token[c].payload = r.payload
  /\ token[c].origin = r.origin
  /\ c \notin consumed

Authorized(c, r) ==
  /\ ~Expired(r, now)
  /\ \/ Evaluate(r) = "safe"
     \/ Evaluate(r) = "confirm" /\ token[c] # None /\ Verifies(c, r)

\* The request is authorised: the token is consumed and the executor starts.
BrokerAdmit(c) ==
  /\ up["broker"] /\ pc[c] = "queued" /\ ~Busy
  /\ Authorized(c, Received(c))
  /\ consumed' = IF Evaluate(Received(c)) = "confirm" THEN consumed \cup {c}
                 ELSE consumed
  /\ request' = [request EXCEPT ![c] = Received(c)]
  /\ runs' = [runs EXCEPT ![c] = @ + 1]
  /\ pc' = [pc EXCEPT ![c] = "executing"]
  /\ UNCHANGED <<now, route, carried, pending, token, result, localRuns, audit, reply,
                 up, faults, lost>>

\* Expired, refused by the policy, unconfirmed (an empty token counts as none
\* here), or carrying a bad token.
BrokerRefuse(c) ==
  /\ up["broker"] /\ pc[c] = "queued" /\ ~Busy
  /\ ~Authorized(c, Received(c))
  /\ result' = [result EXCEPT ![c] =
       IF /\ ~Expired(Received(c), now)
          /\ Evaluate(Received(c)) = "confirm"
          /\ token[c] = None /\ carried[c] \in {"none", "empty"}
       THEN "confirmation_required" ELSE "denied"]
  /\ request' = [request EXCEPT ![c] = Received(c)]
  /\ pc' = [pc EXCEPT ![c] = "recording"]
  /\ UNCHANGED <<now, route, carried, pending, token, consumed, runs, localRuns, audit,
                 reply, up, faults, lost>>

\* A mutant: a missing adapter is reported as a denial.
ExecutorResultsDenying(r) ==
  IF ~Row(r).command THEN {"denied"} ELSE {"completed", "failed"}

\* What SafeExecutor.execute can come back with: a row without an argv raises
\* before anything runs; a dry run stops there; otherwise the child's exit
\* code, a timeout or an OSError decides.
ExecutorResults(r) ==
  IF ~Row(r).command THEN {"failed"}
  ELSE IF ~Execute THEN {"dry_run"} ELSE {"completed", "failed"}

BrokerExecute(c) ==
  /\ up["broker"] /\ pc[c] = "executing"
  /\ \E status \in ExecutorResults(request[c]) :
       result' = [result EXCEPT ![c] = status]
  /\ pc' = [pc EXCEPT ![c] = "recording"]
  /\ UNCHANGED <<now, route, request, carried, pending, token, consumed, runs, localRuns,
                 audit, reply, up, faults, lost>>

\* The broker's answer leaves for whoever sent the message: the confirmation
\* service if it still waits for it, or the client.
Return(c, a) ==
  IF ViaConfirm(c) /\ reply[c] = None
  THEN pc' = [pc EXCEPT ![c] = "answered"] /\ UNCHANGED reply
  ELSE Answer(c, a)

\* _record succeeds and Submit returns.
BrokerRecord(c) ==
  /\ up["broker"] /\ pc[c] = "recording" /\ Marshals(request[c])
  /\ audit' = audit \cup {<<c, result[c]>>}
  /\ Return(c, result[c])
  /\ UNCHANGED <<now, route, request, carried, pending, token, consumed, result, runs,
                 localRuns, up, faults, lost>>

\* append() cannot encode the request: a ValueError, raised before anything is
\* written and caught by Submit, which answers "denied", also after execution.
BrokerRecordRejects(c) ==
  /\ up["broker"] /\ pc[c] = "recording" /\ ~Marshals(request[c])
  /\ result' = [result EXCEPT ![c] = "denied"]
  /\ Return(c, "denied")
  /\ UNCHANGED <<now, route, request, carried, pending, token, consumed, runs, localRuns,
                 audit, up, faults, lost>>

\* Mutant: a failed audit write is ignored.
BrokerRecordFailsIgnored(c) ==
  /\ up["broker"] /\ pc[c] = "recording" /\ Marshals(request[c]) /\ faults < MaxFaults
  /\ faults' = faults + 1
  /\ lost' = lost \cup {c}
  /\ Return(c, result[c])
  /\ UNCHANGED <<now, route, request, carried, pending, token, consumed, result, runs,
                 localRuns, audit, up>>

\* Mutant: an error after the line was written makes the broker record a failure.
BrokerRecordFailsAgain(c) ==
  /\ up["broker"] /\ pc[c] = "recording" /\ Marshals(request[c]) /\ faults < MaxFaults
  /\ faults' = faults + 1
  /\ audit' = audit \cup {<<c, result[c]>>}
  /\ result' = [result EXCEPT ![c] = "failed"]
  /\ UNCHANGED <<now, pc, route, request, carried, pending, token, consumed, runs,
                 localRuns, reply, up, lost>>

\* AuditLog.append raises OSError, which Submit does not catch: a D-Bus error.
BrokerRecordFails(c) ==
  /\ up["broker"] /\ pc[c] = "recording" /\ Marshals(request[c]) /\ faults < MaxFaults
  /\ faults' = faults + 1
  /\ lost' = lost \cup {c}
  /\ result' = [result EXCEPT ![c] = "error"]
  /\ Return(c, "error")
  /\ UNCHANGED <<now, route, request, carried, pending, token, consumed, runs, localRuns,
                 audit, up>>

-----------------------------------------------------------------------------
(* Crashes and restarts. *)

InBroker  == {"queued", "executing", "recording"}
InConfirm == {"asked", "collecting", "approved", "answered"}

\* Every message the broker holds is answered with a D-Bus error.
BrokerCrash ==
  /\ up["broker"] /\ faults < MaxFaults
  /\ up' = [up EXCEPT !["broker"] = FALSE]
  /\ faults' = faults + 1
  /\ lost' = lost \cup {c \in Calls : pc[c] \in InBroker}
  /\ result' = [c \in Calls |-> IF pc[c] \in InBroker THEN "error" ELSE result[c]]
  /\ pc' = [c \in Calls |->
       IF pc[c] \notin InBroker THEN pc[c]
       ELSE IF ViaConfirm(c) /\ reply[c] = None THEN "answered" ELSE "done"]
  /\ reply' = [c \in Calls |->
       IF pc[c] \in InBroker /\ ~ViaConfirm(c) /\ reply[c] = None
       THEN "error" ELSE reply[c]]
  /\ UNCHANGED <<now, route, request, carried, pending, token, consumed, runs, localRuns,
                 audit>>

\* systemd starts the broker again with an empty set of consumed tokens.
BrokerRestart ==
  /\ ~up["broker"]
  /\ up' = [up EXCEPT !["broker"] = TRUE]
  /\ consumed' = {}
  /\ UNCHANGED <<now, pc, route, request, carried, pending, token, result, runs,
                 localRuns, audit, reply, faults, lost>>

\* Clients waiting for the confirmation service get a D-Bus error at once, also
\* those whose action the broker is still working on; a session makes a denial
\* of it.  Ceremonies and tokens not yet sent are gone.
ConfirmCrash ==
  /\ up["confirm"] /\ faults < MaxFaults
  /\ up' = [up EXCEPT !["confirm"] = FALSE]
  /\ faults' = faults + 1
  /\ pending' = [c \in Calls |-> None]
  /\ LET Waiting == {c \in Calls : /\ pc[c] \notin {"idle", "done"}
                                   /\ ViaConfirm(c) /\ reply[c] = None}
     IN /\ lost' = lost \cup Waiting
        /\ reply' = [c \in Calls |-> IF c \notin Waiting THEN reply[c]
             ELSE IF route[c] = "session" THEN "denied" ELSE "error"]
  /\ pc' = [c \in Calls |-> IF pc[c] \in InConfirm THEN "done" ELSE pc[c]]
  /\ UNCHANGED <<now, route, request, carried, token, consumed, result, runs, localRuns,
                 audit>>

ConfirmRestart ==
  /\ ~up["confirm"]
  /\ up' = [up EXCEPT !["confirm"] = TRUE]
  /\ UNCHANGED <<now, pc, route, request, carried, pending, token, consumed, result, runs,
                 localRuns, audit, reply, faults, lost>>

-----------------------------------------------------------------------------
Client(c) == \E r \in Requests :
  SessionRefuse(c, r) \/ SessionRun(c, r) \/ SessionAsk(c, r)
    \/ BusConfirm(c, r) \/ BusSubmit(c, r)

\* The ceremony is bounded in time (recordings and speech output are), so it
\* ends with an approval or a denial.
Serve(c) ==
  \/ ConfirmBegin(c) \/ Approve(c) \/ Deny(c) \/ SubmitApproved(c) \/ ConfirmReturn(c)
  \/ BrokerAdmit(c) \/ BrokerRefuse(c) \/ BrokerExecute(c)
  \/ BrokerRecord(c) \/ BrokerRecordRejects(c)

Next ==
  \/ Tick
  \/ \E c \in Calls : Client(c) \/ Serve(c) \/ BrokerRecordFails(c)
  \/ BrokerCrash \/ BrokerRestart \/ ConfirmCrash \/ ConfirmRestart

Spec == Init /\ [][Next]_vars

\* Both services keep working and systemd restarts them (Restart=on-failure).
\* Nothing is assumed of clients, of the clock or of crashes.
Fairness == /\ \A c \in Calls : WF_vars(Serve(c))
            /\ WF_vars(BrokerRestart) /\ WF_vars(ConfirmRestart)

FairSpec == Spec /\ Fairness

-----------------------------------------------------------------------------
(* Properties. *)

\* Every variable keeps its type.
TypeOK ==
  /\ now \in Nat
  /\ pc \in [Calls -> PC]
  /\ route \in [Calls -> Routes \cup {None}]
  /\ request \in [Calls -> ActionRequest \cup {None}]
  /\ carried \in [Calls -> Tokens]
  /\ pending \in [Calls -> Nat \cup {None}]
  /\ token \in [Calls -> Capabilities \cup {None}]
  /\ consumed \subseteq Calls
  /\ result \in [Calls -> Answers \cup {None}]
  /\ runs \in [Calls -> Nat] /\ localRuns \in [Calls -> Nat]
  /\ audit \subseteq Calls \X Answers
  /\ reply \in [Calls -> Answers \cup {None}]
  /\ up \in [Services -> BOOLEAN]
  /\ faults \in Nat
  /\ lost \subseteq Calls

\* The client of c spared itself the ceremony: it put a token string of its own
\* into a message for Submit, and its request, taken at its word, is safe
\* (see ProvenanceIsConfirmed).
TakenAtItsWord(c) ==
  route[c] = "submit" /\ carried[c] # "none" /\ Evaluate(request[c]) = "safe"

\* No action asked for on the system bus runs twice, also across a broker
\* restart that forgets which tokens were consumed; and none runs without an
\* approval of its own, except a safe one whose origin Submit took from the
\* message because it found some token string in it.
ApprovedOnce == \A c \in Calls : runs[c] > 0 =>
  /\ runs[c] = 1
  /\ (token[c] # None /\ ViaConfirm(c)) \/ TakenAtItsWord(c)

\* A request is never executed twice by going through both brokers:
\* ConfirmationAwareBroker must not hand a request on after the session's own
\* executor has had it, whatever that executor answered.
OneExecutor == \A c \in Calls : runs[c] + localRuns[c] <= 1

\* What the verification of a token binds: an action starts inside the lifetime
\* of its capability, for exactly the action, payload and origin that were
\* approved, and its token is consumed by the same step.
AsApproved(c) ==
  /\ token[c] # None
  /\ now < token[c].expires_at
  /\ token[c].action = request'[c].action /\ token[c].payload = request'[c].payload
  /\ token[c].origin = request'[c].origin
  /\ c \in consumed' \ consumed

\* An action that starts on the system broker starts as it was approved, or is
\* a safe one of a client that was taken at its word.
RunsAsApproved == [][\A c \in Calls :
  runs'[c] # runs[c] => AsApproved(c) \/ TakenAtItsWord(c)]_vars

\* A client that is told "denied" or "confirmation_required" has had nothing
\* executed and never will, unless a crash or a failed audit write hit its call
\* after the decision, or its text could not be recorded: every other answer of
\* this kind comes from a check that failed before anything ran.
RefusalIsFinal == \A c \in Calls :
  reply[c] \in {"denied", "confirmation_required"} =>
    \/ runs[c] = 0 /\ localRuns[c] = 0
    \/ reply[c] = "denied" /\ (c \in lost \/ ~Marshals(request[c]))

\* The system broker tells nobody the outcome of a request that the audit log
\* does not hold, with that very outcome.  Only a denial goes unrecorded: one
\* made of an error, or of a text that cannot be recorded.
AnswerIsRecorded == \A c \in Calls :
  (reply[c] \in Statuses /\ (token[c] # None \/ route[c] = "submit")) =>
    \/ <<c, reply[c]>> \in audit
    \/ reply[c] = "denied" /\ (c \in lost \/ ~Marshals(request[c]))

\* The log never holds two outcomes for one call.
OneRecord == \A x, y \in audit : x[1] = y[1] => x = y

\* Whichever way a ceremony ends (approval, wrong answer, abort, late answer,
\* crash of the service), nothing of it stays pending.
PendingIsLive == \A c \in Calls :
  pending[c] # None <=> pc[c] = "collecting"

\* Every call that was made is answered and nothing of it stays in the services,
\* also when they crash under it: no ceremony and no admitted action hangs.
EveryCallAnswered == \A c \in Calls :
  pc[c] # "idle" ~> (pc[c] = "done" /\ reply[c] # None)

-----------------------------------------------------------------------------
(* The composition implements ConfirmedExecution. *)

\* A call that is over without having run is closed, wherever its answer is.
Stage(c) ==
  IF runs[c] + localRuns[c] > 0 THEN "run"
  ELSE IF pc[c] = "idle" THEN "new"
  ELSE IF pc[c] \in {"recording", "answered", "done"} THEN "closed"
  ELSE IF token[c] # None /\ pc[c] \in {"approved", "queued"} THEN "approved"
  ELSE "open"

\* What the request that may run is, by itself and by where it says it is from.
Risky(c) == Stage(c) \in {"open", "approved", "run"} /\ Evaluate(request[c]) # "safe"

CE == INSTANCE ConfirmedExecution WITH
  Ttl <- CapabilityTtl,
  stage <- [c \in Calls |-> Stage(c)],
  risky <- {c \in Calls : Risky(c)},
  expires <- [c \in Calls |-> IF token[c] = None THEN 0 ELSE token[c].expires_at]

\* A risky action runs only in time after its approval, and any action once.
ImplementsConfirmedExecution == CE!Spec

-----------------------------------------------------------------------------
(* Statements of the repository's own texts. *)

\* "Any missing dependency, adapter or authorization fails closed": a client
\* that is told its action was denied has had nothing executed.
FailsClosed == \A c \in Calls : reply[c] = "denied" => runs[c] = 0

\* "An unconfirmed public-bus caller cannot claim trusted local provenance":
\* what Submit executes under a trusted origin was confirmed.
ProvenanceIsConfirmed == \A c \in Calls :
  pc[c] = "executing" /\ ~Tainted(request[c]) => token[c] # None
=============================================================================
