------------------------------ MODULE Keyspace ------------------------------
(***************************************************************************)
(* The Redis key space as the commands see it (src/redis/src/db.c,         *)
(* expire.c, t_string.c): what each command does to the two hash tables of *)
(* a database, which watched keys it touches and what it propagates.       *)
(*                                                                         *)
(* Nothing here has state.  A command maps an effect to an effect.  An     *)
(* effect holds the data set as the command left it (dict, expires), the   *)
(* slots it passed to signalModifiedKey() or signalFlushedDb() (touched)   *)
(* and the commands it hands to propagate(), in order (feed).  A slot is   *)
(* a key of one database.  Multi.tla runs the commands for the clients,    *)
(* Aof.tla runs them again when the log is loaded.                         *)
(*                                                                         *)
(* A clock is what the code can read of the time: server.mstime, cached by *)
(* call(), mstime(), the system clock, and whether the server is loading.  *)
(***************************************************************************)
EXTENDS Integers, Sequences

CONSTANTS
    Db,         \* the database numbers, 0 among them
    Key,        \* the keys
    MaxVal,     \* the largest integer a value can hold (LLONG_MAX)
    Commands    \* the commands that clients send

Val == 1..MaxVal
Absent == 0
NoExpire == -1
Slot == Db \X Key

\* Commands that reach the key space, with their arguments.  Times are integers:
\* a relative time to live may be zero or negative.
Command ==
    [op : {"get", "del", "persist", "incr"}, key : Key]
    \cup [op : {"set"}, key : Key, val : Val]
    \cup [op : {"setpx"}, key : Key, val : Val, ttl : Int]
    \cup [op : {"setpxat"}, key : Key, val : Val, when : Nat]
    \cup [op : {"pexpire"}, key : Key, ttl : Int]
    \cup [op : {"pexpireat"}, key : Key, when : Nat]
    \cup [op : {"rename"}, key : Key, newkey : Key]
    \cup [op : {"move"}, key : Key, dst : Db]
    \cup [op : {"swapdb"}, id1 : Db, id2 : Db]
    \cup [op : {"flushdb"}]
    \cup [op : {"select"}, id : Db]
    \cup [op : {"unwatch"}]

ASSUME DbAssumption == 0 \in Db /\ Db \subseteq Nat
ASSUME MaxValAssumption == MaxVal \in Nat \ {0}
ASSUME CommandsAssumption == Commands \subseteq Command

\* A command as propagate() receives it: the database it ran in, and its vector.
Entry(db, cmd) == [db |-> db, cmd |-> cmd]
DelEntry(p) == Entry(p[1], [op |-> "del", key |-> p[2]])

Effect(dict, expires) ==
    [dict |-> dict, expires |-> expires, touched |-> {}, feed |-> <<>>]

Clock(mstime, now, loading) == [mstime |-> mstime, now |-> now, loading |-> loading]

-----------------------------------------------------------------------------
(* The two hash tables, db.c *)

keyIsExpired(expires, p, clock) ==
    /\ expires[p] # NoExpire
    /\ ~clock.loading
    /\ clock.mstime > expires[p]

\* Leave slot p with value v and expire e, and signal it as modified.
Put(s, p, v, e) ==
    [dict    |-> [s.dict EXCEPT ![p] = v],
     expires |-> [s.expires EXCEPT ![p] = e],
     touched |-> s.touched \cup {p},
     feed    |-> s.feed]

RemoveKeepingExpire(s, p) == Put(s, p, Absent, s.expires[p])

Remove(s, p) == Put(s, p, Absent, NoExpire)

Propagate(s, entry) ==
    [dict |-> s.dict, expires |-> s.expires, touched |-> s.touched,
     feed |-> Append(s.feed, entry)]

\* Wrong forms of the definitions below, for the mutation runs.
ExpireWithoutSignal(s, p, clock) ==
    IF keyIsExpired(s.expires, p, clock)
    THEN Propagate([Remove(s, p) EXCEPT !.touched = s.touched], DelEntry(p))
    ELSE s

ExpireWithoutPropagation(s, p, clock) ==
    IF keyIsExpired(s.expires, p, clock) THEN Remove(s, p) ELSE s

\* A deletion forced by the clock or by memory: the key goes, a DEL is propagated.
DeleteAndPropagate(s, p) == Propagate(Remove(s, p), DelEntry(p))

expireIfNeeded(s, p, clock) ==
    IF keyIsExpired(s.expires, p, clock) THEN DeleteAndPropagate(s, p) ELSE s

-----------------------------------------------------------------------------
(* The commands.  p is the slot of the first key; the command runs in p[1]. *)

setCommand(s, p, cmd, expire, clock) ==
    Propagate(Put(expireIfNeeded(s, p, clock), p, cmd.val, expire), Entry(p[1], cmd))

delCommand(s, p, cmd, clock) ==
    LET r == expireIfNeeded(s, p, clock)
    IN  IF r.dict[p] = Absent THEN r ELSE Propagate(Remove(r, p), Entry(p[1], cmd))

IncrWithoutLimit(s, p, cmd, clock) ==
    LET r == expireIfNeeded(s, p, clock)
    IN  Propagate(Put(r, p, r.dict[p] + 1, r.expires[p]), Entry(p[1], cmd))

\* INCR keeps the expire of the key and refuses to overflow.
incrCommand(s, p, cmd, clock) ==
    LET r == expireIfNeeded(s, p, clock)
    IN  IF r.dict[p] = MaxVal
        THEN r
        ELSE Propagate(Put(r, p, r.dict[p] + 1, r.expires[p]), Entry(p[1], cmd))

checkAlreadyExpired(when, clock) == when <= clock.now /\ ~clock.loading

\* An expire in the past deletes the key, and is propagated as a DEL.
expireGenericCommand(s, p, cmd, when, clock) ==
    LET r == expireIfNeeded(s, p, clock)
    IN  IF r.dict[p] = Absent THEN r
        ELSE IF checkAlreadyExpired(when, clock) THEN DeleteAndPropagate(r, p)
        ELSE Propagate(Put(r, p, r.dict[p], when), Entry(p[1], cmd))

persistCommand(s, p, cmd, clock) ==
    LET r == expireIfNeeded(s, p, clock)
    IN  IF r.expires[p] = NoExpire
        THEN r
        ELSE Propagate(Put(r, p, r.dict[p], NoExpire), Entry(p[1], cmd))

\* What RENAME and MOVE share: p's value and expire go to q, and p is deleted.
Transfer(s, p, q, cmd) ==
    Propagate(Remove(Put(s, q, s.dict[p], s.expires[p]), p), Entry(p[1], cmd))

renameCommand(s, p, q, cmd, clock) ==
    LET r1 == expireIfNeeded(s, p, clock)
        r2 == expireIfNeeded(r1, q, clock)
    IN  IF r1.dict[p] = Absent \/ p = q THEN r1 ELSE Transfer(r2, p, q, cmd)

moveCommand(s, p, q, cmd, clock) ==
    LET r1 == expireIfNeeded(s, p, clock)
        r2 == expireIfNeeded(r1, q, clock)
    IN  IF p = q THEN s
        ELSE IF r1.dict[p] = Absent THEN r1
        ELSE IF r2.dict[q] # Absent THEN r2
        ELSE Transfer(r2, p, q, cmd)

\* FLUSHDB is propagated only if it removed something.
flushdbCommand(s, db, cmd) ==
    LET present == {p \in Slot : p[1] = db /\ s.dict[p] # Absent}
    IN  [dict    |-> [p \in Slot |-> IF p[1] = db THEN Absent ELSE s.dict[p]],
         expires |-> [p \in Slot |-> IF p[1] = db THEN NoExpire ELSE s.expires[p]],
         touched |-> s.touched \cup present,
         feed    |-> IF present = {} THEN s.feed ELSE Append(s.feed, Entry(db, cmd))]

SwapOnlyTouchingFirst(s, db, cmd) ==
    LET other(p) == IF p[1] = cmd.id1 THEN <<cmd.id2, p[2]>>
                    ELSE IF p[1] = cmd.id2 THEN <<cmd.id1, p[2]>> ELSE p
    IN  [dict    |-> [p \in Slot |-> s.dict[other(p)]],
         expires |-> [p \in Slot |-> s.expires[other(p)]],
         touched |-> s.touched
                       \cup {p \in Slot : other(p) # p /\ s.dict[other(p)] # Absent},
         feed    |-> Append(s.feed, Entry(db, cmd))]

\* SWAPDB exchanges the tables and touches a key that exists in either database.
swapdbCommand(s, db, cmd) ==
    LET other(p) == IF p[1] = cmd.id1 THEN <<cmd.id2, p[2]>>
                    ELSE IF p[1] = cmd.id2 THEN <<cmd.id1, p[2]>> ELSE p
    IN  [dict    |-> [p \in Slot |-> s.dict[other(p)]],
         expires |-> [p \in Slot |-> s.expires[other(p)]],
         touched |-> s.touched
                       \cup {p \in Slot : /\ other(p) # p
                                          /\ \/ s.dict[p] # Absent
                                             \/ s.dict[other(p)] # Absent},
         feed    |-> Append(s.feed, Entry(db, cmd))]

-----------------------------------------------------------------------------
(* c->cmd->proc(c): the effect of a command run in database db.  SELECT and
   UNWATCH concern only the client: Multi.tla models what they do there.     *)

Proc(s, db, cmd, clock) ==
    CASE cmd.op = "get"       -> expireIfNeeded(s, <<db, cmd.key>>, clock)
      [] cmd.op = "set"       -> setCommand(s, <<db, cmd.key>>, cmd, NoExpire, clock)
      [] cmd.op = "setpx"     -> IF cmd.ttl <= 0 THEN s
                                 ELSE setCommand(s, <<db, cmd.key>>, cmd,
                                                 clock.now + cmd.ttl, clock)
      [] cmd.op = "setpxat"   -> IF cmd.when <= 0 THEN s
                                 ELSE setCommand(s, <<db, cmd.key>>, cmd, cmd.when, clock)
      [] cmd.op = "del"       -> delCommand(s, <<db, cmd.key>>, cmd, clock)
      [] cmd.op = "incr"      -> incrCommand(s, <<db, cmd.key>>, cmd, clock)
      [] cmd.op = "pexpire"   -> expireGenericCommand(s, <<db, cmd.key>>, cmd,
                                                      clock.now + cmd.ttl, clock)
      [] cmd.op = "pexpireat" -> expireGenericCommand(s, <<db, cmd.key>>, cmd,
                                                      cmd.when, clock)
      [] cmd.op = "persist"   -> persistCommand(s, <<db, cmd.key>>, cmd, clock)
      [] cmd.op = "rename"    -> renameCommand(s, <<db, cmd.key>>, <<db, cmd.newkey>>,
                                               cmd, clock)
      [] cmd.op = "move"      -> moveCommand(s, <<db, cmd.key>>, <<cmd.dst, cmd.key>>,
                                             cmd, clock)
      [] cmd.op = "swapdb"    -> swapdbCommand(s, db, cmd)
      [] cmd.op = "flushdb"   -> flushdbCommand(s, db, cmd)
      [] OTHER                -> s
=============================================================================
