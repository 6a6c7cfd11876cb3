------------------------------- MODULE Policy -------------------------------
(***************************************************************************)
(* The pure decision procedure of src/clausis/policy.py: which request an  *)
(* ActionBroker refuses outright, which one it will not run without a      *)
(* capability, and which one it runs at once.                              *)
(*                                                                         *)
(* The content of a request (target and arguments) is one abstract         *)
(* "payload"; the per-action validators are the relation Valid.            *)
(***************************************************************************)
EXTENDS Naturals

CONSTANTS
  Actions,        \* the action names a request may carry
  ActionPolicies, \* the allowlist: a function from action names to policy rows
  Payloads,       \* abstract target + arguments of a request
  Valid,          \* the <<action, payload>> pairs the action's validator accepts
  None            \* "no value": an absent deadline, token or answer

Origin == {"local_voice", "local_ui", "hermes", "external_content",
           "installer", "gpt_live"}

\* Risk.rank: low, medium, high, critical.
Risk   == 0..3
MEDIUM == 1

\* One row of the allowlist.  "command" says whether the row has a fixed argv;
\* a row without one needs a platform adapter.
ActionPolicy == [minimum_risk : Risk, reversible : BOOLEAN,
                 command : BOOLEAN, privileged : BOOLEAN]

ASSUME PolicyAssumption ==
  /\ DOMAIN ActionPolicies \subseteq Actions
  /\ ActionPolicies \in [DOMAIN ActionPolicies -> ActionPolicy]
  /\ Valid \subseteq (DOMAIN ActionPolicies) \X Payloads
  /\ None \notin Nat

\* A request as it crosses a trust boundary, without its capability token:
\* tokens are part of the message, see TrustedBroker.
ActionRequest ==
  [action : Actions, payload : Payloads, origin : Origin, risk : Risk,
   reversible : BOOLEAN, expires_at : Nat \cup {None}]

Row(r) == ActionPolicies[r.action]

\* No ValueError is raised: the action is on the allowlist, its validator
\* accepts the payload, and the caller understated neither the risk nor the
\* irreversibility of the action.
Allowed(r) ==
  /\ r.action \in DOMAIN ActionPolicies
  /\ <<r.action, r.payload>> \in Valid
  /\ r.risk >= Row(r).minimum_risk
  /\ r.reversible => Row(r).reversible

Tainted(r) == r.origin \in {"external_content", "hermes"}

NeedsConfirmation(r) ==
  \/ Row(r).minimum_risk >= MEDIUM
  \/ ~Row(r).reversible
  \/ Row(r).privileged
  \/ Tainted(r)

\* What evaluate() answers: "refused" stands for the ValueErrors.
Evaluate(r) == IF ~Allowed(r) THEN "refused"
               ELSE IF NeedsConfirmation(r) THEN "confirm" ELSE "safe"

Expired(r, now) == r.expires_at # None /\ r.expires_at <= now
=============================================================================
