------------------------- MODULE ConfirmedExecution -------------------------
(***************************************************************************)
(* What the two brokers of Clausis promise about the actions they are      *)
(* asked for, with no word about tokens, services or buses: a safe action  *)
(* may run at once, a risky one is first put to the user, an approval is   *)
(* good for Ttl time units, and whichever way it runs, it runs once.       *)
(* TrustedBroker implements this specification.                            *)
(***************************************************************************)
EXTENDS Naturals

CONSTANTS
  Calls, \* client calls, each asking for one action
  Ttl    \* how long an approval may be used, a positive number

VARIABLES
  now,     \* the clock both services read
  stage,   \* stage[c]: how far the action asked for by c has come
  risky,   \* the calls whose action, while it may run, is not a safe one
  expires  \* expires[c]: when the approval of c ends; 0 while there is none

vars == <<now, stage, risky, expires>>

Stage == {"new", "open", "approved", "run", "closed"}

Init ==
  /\ now = 0
  /\ stage = [c \in Calls |-> "new"]
  /\ risky = {}
  /\ expires = [c \in Calls |-> 0]

Tick == now' = now + 1 /\ UNCHANGED <<stage, risky, expires>>

\* Somebody asks for an action.
Ask(c) ==
  /\ stage[c] = "new"
  /\ stage' = [stage EXCEPT ![c] = "open"]
  /\ risky' \in {risky \ {c}, risky \cup {c}}
  /\ UNCHANGED <<now, expires>>

\* A safe action that is asked for is run at once.
AskAndRun(c) ==
  /\ stage[c] = "new"
  /\ stage' = [stage EXCEPT ![c] = "run"]
  /\ UNCHANGED <<now, risky, expires>>

\* The source of an action turns out to be none that is trusted.
Taint(c) ==
  /\ stage[c] = "open"
  /\ risky' = risky \cup {c}
  /\ UNCHANGED <<now, stage, expires>>

\* The user approves the action of call c.
Approve(c) ==
  /\ stage[c] = "open"
  /\ stage' = [stage EXCEPT ![c] = "approved"]
  /\ expires' = [expires EXCEPT ![c] = now + Ttl]
  /\ UNCHANGED <<now, risky>>

\* An approved action is started, once and in time, or a safe one without it.
Run(c) ==
  /\ \/ stage[c] = "approved" /\ now < expires[c]
     \/ stage[c] = "open" /\ c \notin risky
  /\ stage' = [stage EXCEPT ![c] = "run"]
  /\ UNCHANGED <<now, risky, expires>>

\* Refused, aborted, expired or lost in a crash: calls that will never run.
Close(S) ==
  /\ S # {}
  /\ \A c \in S : stage[c] \in {"new", "open", "approved"}
  /\ stage' = [c \in Calls |-> IF c \in S THEN "closed" ELSE stage[c]]
  /\ risky' = risky \ S
  /\ UNCHANGED <<now, expires>>

Next ==
  \/ Tick
  \/ \E c \in Calls : Ask(c) \/ AskAndRun(c) \/ Taint(c) \/ Approve(c) \/ Run(c)
  \/ \E S \in SUBSET Calls : Close(S)

Spec == Init /\ [][Next]_vars
=============================================================================
