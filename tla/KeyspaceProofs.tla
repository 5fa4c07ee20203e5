--------------------------- MODULE KeyspaceProofs ---------------------------
(***************************************************************************)
(* What every command of Keyspace.tla guarantees, for any set of keys,     *)
(* databases and values: the two tables keep their types, a volatile key   *)
(* stays in the main dictionary, and a slot that was not signalled as      *)
(* modified has not changed.                                               *)
(***************************************************************************)
EXTENDS Keyspace, TLAPS

\* The types of an effect.  Nothing depends on what is in the feed.
EffectType(s) ==
    /\ s.dict \in [Slot -> Val \cup {Absent}]
    /\ s.expires \in [Slot -> Int]
    /\ s.touched \in SUBSET Slot

\* An effect that is faithful to the data set (d, e) the command started from.
Faithful(s, d, e) ==
    /\ EffectType(s)
    /\ \A p \in Slot : s.expires[p] # NoExpire => s.dict[p] # Absent
    /\ \A p \in Slot : p \notin s.touched => s.dict[p] = d[p] /\ s.expires[p] = e[p]

ClockType(clock) ==
    clock.mstime \in Int /\ clock.now \in Int /\ clock.loading \in BOOLEAN

\* A command starts from an effect that is faithful to the data set: nothing changed.
LEMMA EffectFaithful ==
  ASSUME NEW d \in [Slot -> Val \cup {Absent}], NEW e \in [Slot -> Int],
         \A p \in Slot : e[p] # NoExpire => d[p] # Absent
  PROVE  Faithful(Effect(d, e), d, e)
BY DEF Faithful, EffectType, Effect

\* Writing a slot and signalling it keeps an effect faithful, if the slot gets no
\* expire without a value.
LEMMA PutFaithful ==
  ASSUME NEW s, NEW d, NEW e, Faithful(s, d, e),
         NEW p \in Slot, NEW v \in Val \cup {Absent}, NEW x \in Int,
         x # NoExpire => v # Absent
  PROVE  Faithful(Put(s, p, v, x), d, e)
BY DEF Faithful, EffectType, Put

\* Deleting a slot and signalling it keeps an effect faithful.
LEMMA RemoveFaithful ==
  ASSUME NEW s, NEW d, NEW e, Faithful(s, d, e), NEW p \in Slot
  PROVE  Faithful(Remove(s, p), d, e)
BY PutFaithful DEF Remove, Absent, NoExpire

\* Propagation changes nothing but the feed.
LEMMA PropagateFaithful ==
  ASSUME NEW s, NEW d, NEW e, Faithful(s, d, e), NEW entry
  PROVE  /\ Faithful(Propagate(s, entry), d, e)
         /\ Propagate(s, entry).dict = s.dict
         /\ Propagate(s, entry).expires = s.expires
BY DEF Faithful, EffectType, Propagate

\* Expiry on access, the active expire cycle and eviction signal what they delete.
LEMMA DeleteFaithful ==
  ASSUME NEW s, NEW d, NEW e, Faithful(s, d, e), NEW p \in Slot
  PROVE  Faithful(DeleteAndPropagate(s, p), d, e)
BY RemoveFaithful, PropagateFaithful DEF DeleteAndPropagate

\* Expiry on access (expireIfNeeded()) is faithful, whether the key has expired or not.
LEMMA ExpireFaithful ==
  ASSUME NEW s, NEW d, NEW e, Faithful(s, d, e), NEW p \in Slot, NEW clock
  PROVE  Faithful(expireIfNeeded(s, p, clock), d, e)
BY DeleteFaithful DEF expireIfNeeded

-----------------------------------------------------------------------------
(* The commands *)

\* SET, with or without an expire, is faithful.
LEMMA SetFaithful ==
  ASSUME NEW s, NEW d, NEW e, Faithful(s, d, e), NEW p \in Slot, NEW clock,
         NEW cmd, cmd.val \in Val, NEW x \in Int
  PROVE  Faithful(setCommand(s, p, cmd, x, clock), d, e)
<1>1. Faithful(expireIfNeeded(s, p, clock), d, e)
  BY ExpireFaithful
<1>2. cmd.val # Absent
  BY MaxValAssumption DEF Val, Absent
<1>3. Faithful(Put(expireIfNeeded(s, p, clock), p, cmd.val, x), d, e)
  BY <1>1, <1>2, PutFaithful
<1> QED  BY <1>3, PropagateFaithful DEF setCommand

\* DEL is faithful.
LEMMA DelFaithful ==
  ASSUME NEW s, NEW d, NEW e, Faithful(s, d, e), NEW p \in Slot, NEW clock, NEW cmd
  PROVE  Faithful(delCommand(s, p, cmd, clock), d, e)
BY ExpireFaithful, RemoveFaithful, PropagateFaithful DEF delCommand

\* INCR is faithful: it keeps the expire of a key it only overwrites.
LEMMA IncrFaithful ==
  ASSUME NEW s, NEW d, NEW e, Faithful(s, d, e), NEW p \in Slot, NEW clock, NEW cmd
  PROVE  Faithful(incrCommand(s, p, cmd, clock), d, e)
<1> DEFINE r == expireIfNeeded(s, p, clock)
<1>1. Faithful(r, d, e)
  BY ExpireFaithful
<1>2. CASE r.dict[p] = MaxVal
  BY <1>1, <1>2 DEF incrCommand
<1>3. CASE r.dict[p] # MaxVal
  <2>1. r.dict[p] \in Val \cup {Absent} /\ r.expires[p] \in Int
    BY <1>1 DEF Faithful, EffectType
  <2>2. r.dict[p] + 1 \in Val /\ r.dict[p] + 1 # Absent
    BY <1>3, <2>1, MaxValAssumption DEF Val, Absent
  <2>3. Faithful(Put(r, p, r.dict[p] + 1, r.expires[p]), d, e)
    BY <1>1, <2>1, <2>2, PutFaithful
  <2> QED  BY <1>3, <2>3, PropagateFaithful DEF incrCommand
<1> QED  BY <1>2, <1>3

\* PEXPIRE and PEXPIREAT are faithful, an expire in the past included.
LEMMA ExpireCommandFaithful ==
  ASSUME NEW s, NEW d, NEW e, Faithful(s, d, e), NEW p \in Slot, NEW clock, NEW cmd,
         NEW when \in Int
  PROVE  Faithful(expireGenericCommand(s, p, cmd, when, clock), d, e)
<1> DEFINE r == expireIfNeeded(s, p, clock)
<1>1. Faithful(r, d, e)
  BY ExpireFaithful
<1>2. r.dict[p] \in Val \cup {Absent}
  BY <1>1 DEF Faithful, EffectType
<1>3. r.dict[p] # Absent => Faithful(Propagate(Put(r, p, r.dict[p], when), Entry(p[1], cmd)), d, e)
  BY <1>1, <1>2, PutFaithful, PropagateFaithful
<1> QED  BY <1>1, <1>3, DeleteFaithful DEF expireGenericCommand

\* PERSIST is faithful.
LEMMA PersistFaithful ==
  ASSUME NEW s, NEW d, NEW e, Faithful(s, d, e), NEW p \in Slot, NEW clock, NEW cmd
  PROVE  Faithful(persistCommand(s, p, cmd, clock), d, e)
<1> DEFINE r == expireIfNeeded(s, p, clock)
<1>1. Faithful(r, d, e)
  BY ExpireFaithful
<1>2. r.dict[p] \in Val \cup {Absent}
  BY <1>1 DEF Faithful, EffectType
<1>3. Faithful(Put(r, p, r.dict[p], NoExpire), d, e)
  BY <1>1, <1>2, PutFaithful DEF NoExpire
<1> QED  BY <1>1, <1>3, PropagateFaithful DEF persistCommand

\* Moving a value with its expire to another slot is faithful.
LEMMA TransferFaithful ==
  ASSUME NEW s, NEW d, NEW e, Faithful(s, d, e), NEW p \in Slot, NEW q \in Slot, NEW cmd
  PROVE  Faithful(Transfer(s, p, q, cmd), d, e)
<1>1. /\ s.dict[p] \in Val \cup {Absent}
      /\ s.expires[p] \in Int
      /\ s.expires[p] # NoExpire => s.dict[p] # Absent
  BY DEF Faithful, EffectType
<1>2. Faithful(Put(s, q, s.dict[p], s.expires[p]), d, e)
  BY <1>1, PutFaithful
<1> QED  BY <1>2, RemoveFaithful, PropagateFaithful DEF Transfer

\* RENAME and MOVE are faithful, whichever of the two keys has expired.
LEMMA RenameFaithful ==
  ASSUME NEW s, NEW d, NEW e, Faithful(s, d, e), NEW p \in Slot, NEW q \in Slot,
         NEW clock, NEW cmd
  PROVE  /\ Faithful(renameCommand(s, p, q, cmd, clock), d, e)
         /\ Faithful(moveCommand(s, p, q, cmd, clock), d, e)
<1>1. Faithful(expireIfNeeded(s, p, clock), d, e)
  BY ExpireFaithful
<1>2. Faithful(expireIfNeeded(expireIfNeeded(s, p, clock), q, clock), d, e)
  BY <1>1, ExpireFaithful
<1>3. Faithful(Transfer(expireIfNeeded(expireIfNeeded(s, p, clock), q, clock), p, q, cmd), d, e)
  BY <1>2, TransferFaithful
<1>4. Faithful(renameCommand(s, p, q, cmd, clock), d, e)
  BY <1>1, <1>3 DEF renameCommand
<1>5. Faithful(moveCommand(s, p, q, cmd, clock), d, e)
  BY <1>1, <1>2, <1>3 DEF moveCommand
<1> QED  BY <1>4, <1>5

\* FLUSHDB is faithful: it signals every key that was there.
LEMMA FlushFaithful ==
  ASSUME NEW s, NEW d, NEW e, Faithful(s, d, e), NEW db \in Db, NEW cmd
  PROVE  Faithful(flushdbCommand(s, db, cmd), d, e)
BY DEF Faithful, EffectType, flushdbCommand, Absent, NoExpire

\* SWAPDB is faithful: a key it does not signal is missing in both databases.
LEMMA SwapFaithful ==
  ASSUME NEW s, NEW d, NEW e, Faithful(s, d, e), NEW db \in Db,
         NEW cmd, cmd.id1 \in Db, cmd.id2 \in Db
  PROVE  Faithful(swapdbCommand(s, db, cmd), d, e)
BY DEF Faithful, EffectType, swapdbCommand, Absent, NoExpire, Slot

\* Every command is faithful to the data set: what it changes it has signalled to the
\* clients that WATCH it, and it leaves no expire without a key.
THEOREM ProcFaithful ==
  ASSUME NEW d \in [Slot -> Val \cup {Absent}], NEW e \in [Slot -> Int],
         \A p \in Slot : e[p] # NoExpire => d[p] # Absent,
         NEW db \in Db, NEW cmd \in Command, NEW clock, ClockType(clock)
  PROVE  Faithful(Proc(Effect(d, e), db, cmd, clock), d, e)
<1> DEFINE s == Effect(d, e)
<1> HIDE DEF s
<1>0. Faithful(s, d, e)
  BY EffectFaithful DEF s
<1>1. CASE cmd \in [op : {"get", "del", "persist", "incr"}, key : Key]
  <2>1. <<db, cmd.key>> \in Slot /\ cmd.op \in {"get", "del", "persist", "incr"}
    BY <1>1 DEF Slot
  <2> QED  BY <1>0, <2>1, ExpireFaithful, DelFaithful, PersistFaithful, IncrFaithful
           DEF Proc, s
<1>2. CASE cmd \in [op : {"set"}, key : Key, val : Val]
  <2>1. <<db, cmd.key>> \in Slot /\ cmd.val \in Val /\ cmd.op = "set"
    BY <1>2 DEF Slot
  <2> QED  BY <1>0, <2>1, SetFaithful DEF Proc, s, NoExpire
<1>3. CASE cmd \in [op : {"setpx"}, key : Key, val : Val, ttl : Int]
  <2>1. /\ <<db, cmd.key>> \in Slot /\ cmd.val \in Val /\ cmd.op = "setpx"
        /\ clock.now + cmd.ttl \in Int
    BY <1>3 DEF Slot, ClockType
  <2> QED  BY <1>0, <2>1, SetFaithful DEF Proc, s
<1>4. CASE cmd \in [op : {"setpxat"}, key : Key, val : Val, when : Nat]
  <2>1. /\ <<db, cmd.key>> \in Slot /\ cmd.val \in Val /\ cmd.op = "setpxat"
        /\ cmd.when \in Int
    BY <1>4 DEF Slot
  <2> QED  BY <1>0, <2>1, SetFaithful DEF Proc, s
<1>5. CASE cmd \in [op : {"pexpire"}, key : Key, ttl : Int]
  <2>1. <<db, cmd.key>> \in Slot /\ clock.now + cmd.ttl \in Int /\ cmd.op = "pexpire"
    BY <1>5 DEF Slot, ClockType
  <2> QED  BY <1>0, <2>1, ExpireCommandFaithful DEF Proc, s
<1>6. CASE cmd \in [op : {"pexpireat"}, key : Key, when : Nat]
  <2>1. <<db, cmd.key>> \in Slot /\ cmd.when \in Int /\ cmd.op = "pexpireat"
    BY <1>6 DEF Slot
  <2> QED  BY <1>0, <2>1, ExpireCommandFaithful DEF Proc, s
<1>7. CASE cmd \in [op : {"rename"}, key : Key, newkey : Key]
  <2>1. <<db, cmd.key>> \in Slot /\ <<db, cmd.newkey>> \in Slot /\ cmd.op = "rename"
    BY <1>7 DEF Slot
  <2> QED  BY <1>0, <2>1, RenameFaithful DEF Proc, s
<1>8. CASE cmd \in [op : {"move"}, key : Key, dst : Db]
  <2>1. <<db, cmd.key>> \in Slot /\ <<cmd.dst, cmd.key>> \in Slot /\ cmd.op = "move"
    BY <1>8 DEF Slot
  <2> QED  BY <1>0, <2>1, RenameFaithful DEF Proc, s
<1>9. CASE cmd \in [op : {"swapdb"}, id1 : Db, id2 : Db]
  <2>1. cmd.id1 \in Db /\ cmd.id2 \in Db /\ cmd.op = "swapdb"
    BY <1>9
  <2> QED  BY <1>0, <2>1, SwapFaithful DEF Proc, s
<1>10. CASE cmd \in [op : {"flushdb"}]
  <2>1. cmd.op = "flushdb"
    BY <1>10
  <2> QED  BY <1>0, <2>1, FlushFaithful DEF Proc, s
<1>11. CASE cmd \in [op : {"select"}, id : Db] \cup [op : {"unwatch"}]
  <2>1. cmd.op \in {"select", "unwatch"}
    BY <1>11
  <2> QED  BY <1>0, <2>1 DEF Proc, s
<1> QED  BY <1>1, <1>2, <1>3, <1>4, <1>5, <1>6, <1>7, <1>8, <1>9, <1>10, <1>11 DEF Command
=============================================================================
