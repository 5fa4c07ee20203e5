---------------------------- MODULE DurableStore ----------------------------
(***************************************************************************)
(* What a persistent store promises, in terms of data sets only: there is  *)
(* the current data set and the set of those that a restart may come back  *)
(* with.  A write adds one; hardening removes some, never the current one; *)
(* a restart comes back with one of them and can then no longer come back  *)
(* with any that is not in the set.  Aof.tla implements this module.       *)
(***************************************************************************)
CONSTANT Absent     \* the value of a key that does not exist

VARIABLES
    data,           \* the data set that clients see, or will see after a restart
    recoverable     \* the data sets that a restart may come back with

\* An empty store, or the one that the last server left behind.
Init == recoverable = {data}

\* The data set without some keys.
Without(keys) == [p \in DOMAIN data |-> IF p \in keys THEN Absent ELSE data[p]]

\* A unit of work: a command or a whole transaction.  What it finds expired it may
\* delete first, as a unit of its own.
Write ==
    \E expired \in SUBSET DOMAIN data :
        recoverable' = recoverable \cup {Without(expired), data'}

\* Some data sets are no longer possible, because later ones are safe.
Harden ==
    /\ data' = data
    /\ data \in recoverable'
    /\ recoverable' \subseteq recoverable

\* A crash and the restart after it.
Restart ==
    /\ data' \in recoverable
    /\ data' \in recoverable'
    /\ recoverable' \subseteq recoverable

Next == Write \/ Harden \/ Restart

Spec == Init /\ [][Next]_<<data, recoverable>>
=============================================================================
