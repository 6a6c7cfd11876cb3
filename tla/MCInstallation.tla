--------------------------- MODULE MCInstallation ---------------------------
(* An installation on two disks, and the finalizer's update of Hermes in it.   *)
EXTENDS HermesUpdate, Installation

Disk(n) == [id |-> n, type |-> "disk", readonly |-> FALSE, removable |-> FALSE,
            small |-> FALSE, mounted |-> FALSE, stable |-> TRUE]

MCDisks == {Disk("a"), [Disk("a") EXCEPT !.mounted = TRUE], Disk("b")}

MCInit == Init /\ InstallInit

\* The update reads nothing of what was before it: it is followed step by step,
\* and repeatedly, in the plainest installation, and ends at once in the others.
Plain == fpc = "update" /\ attempt = 1 /\ saves = 0 /\ slots = {} /\ ~swapped

MCNext ==
  \/ InstallNext /\ runs = 0 /\ UNCHANGED vars
  \/ Plain /\ Next /\ UNCHANGED installVars

MCSpec == MCInit /\ [][MCNext]_<<vars, installVars>>
=============================================================================
