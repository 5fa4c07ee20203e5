------------------------------ MODULE MCMulti ------------------------------
(***************************************************************************)
(* Instances of Multi for TLC.                                             *)
(***************************************************************************)
EXTENDS Multi, TLC

CONSTANTS k1, k2, c1, c2

OneDb == {0}
TwoDbs == {0, 1}
OneKey == {k1}
TwoKeys == {k1, k2}
TwoClients == {c1, c2}

\* Keys that are written, that expire and that change their name: expires given,
\* taken away, given in the past and inherited.
KeyCommands ==
    {[op |-> "setpx", key |-> k1, val |-> 1, ttl |-> 1],
     [op |-> "pexpireat", key |-> k2, when |-> 1],
     [op |-> "persist", key |-> k2],
     [op |-> "rename", key |-> k1, newkey |-> k2],
     [op |-> "incr", key |-> k1],
     [op |-> "get", key |-> k2],
     [op |-> "unwatch"]}

\* Commands that reach another database, or all keys of one.
DbCommands ==
    {[op |-> "incr", key |-> k1],
     [op |-> "move", key |-> k1, dst |-> 1],
     [op |-> "swapdb", id1 |-> 0, id2 |-> 1],
     [op |-> "flushdb"],
     [op |-> "select", id |-> 1]}

ClientSymmetry == Permutations(TwoClients)
=============================================================================
