------------------------------- MODULE MCAof -------------------------------
(***************************************************************************)
(* Instances of Aof.tla for TLC.                                           *)
(***************************************************************************)
EXTENDS Aof, FiniteSets

Single(db, cmd) == [multi |-> FALSE, db |-> db, cmds |-> <<cmd>>]
Transaction(db, cmds) == [multi |-> TRUE, db |-> db, cmds |-> cmds]

Set(k, v) == [op |-> "set", key |-> k, val |-> v]
Incr(k) == [op |-> "incr", key |-> k]
Del(k) == [op |-> "del", key |-> k]

OneDb == {0}
TwoDbs == {0, 1}

\* Two keys, changed one at a time and both at once.
PlainUnits ==
    LET k == CHOOSE x \in Key : TRUE
        j == CHOOSE x \in Key : x # k
    IN  {Single(0, Incr(k)), Single(0, Set(j, 1)),
         Transaction(0, <<Incr(k), Del(j)>>)}

\* One key in two databases, with times to live.
TtlUnits ==
    LET k == CHOOSE x \in Key : TRUE
    IN  {Single(1, [op |-> "setpx", key |-> k, val |-> 1, ttl |-> 1]),
         Single(1, [op |-> "pexpire", key |-> k, ttl |-> 1]),
         Transaction(0, <<Incr(k), [op |-> "select", id |-> 1], Incr(k)>>)}

\* One key that is only counted up.
CountUnits == LET k == CHOOSE x \in Key : TRUE IN {Single(0, Incr(k))}

CommandsOf(units) == UNION {{u.cmds[i] : i \in DOMAIN u.cmds} : u \in units}
PlainCommands == CommandsOf(PlainUnits)
TtlCommands == CommandsOf(TtlUnits)
CountCommands == CommandsOf(CountUnits)
=============================================================================
