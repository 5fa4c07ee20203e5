------------------------------- MODULE Multi -------------------------------
(***************************************************************************)
(* Transactions of the Redis server: MULTI, EXEC, DISCARD, WATCH, UNWATCH  *)
(* (src/redis/src/multi.c), the command dispatch that queues, rejects and  *)
(* calls (server.c), and everything that changes a key from outside a      *)
(* transaction: other clients' commands, the active expire cycle           *)
(* (expire.c) and eviction (evict.c).                                      *)
(*                                                                         *)
(* The server runs one command at a time, so a command is one step, except *)
(* EXEC: it is a step that starts the transaction, one step per queued     *)
(* command and a step that ends it.  Nothing else runs in between          *)
(* (in_exec); only the system clock moves on.                              *)
(***************************************************************************)
EXTENDS Keyspace

CONSTANTS
    Client,         \* the connections
    Nobody,         \* in_exec when no EXEC is running
    MaxQueue,       \* bound: commands queued in a transaction
    MaxTime,        \* bound: the last instant of the clock
    Evicting        \* TRUE if maxmemory is set, with a policy over all keys

ASSUME NobodyAssumption == Nobody \notin Client
ASSUME BoundsAssumption == MaxQueue \in Nat /\ MaxTime \in Nat /\ Evicting \in BOOLEAN

VARIABLES
    dict, expires,      \* db->dict and db->expires, of all databases
    now,                \* the system clock, mstime()
    mstime,             \* server.mstime, cached when the outermost call() began
    db,                 \* c->db
    multi,              \* CLIENT_MULTI
    dirty_cas,          \* CLIENT_DIRTY_CAS
    dirty_exec,         \* CLIENT_DIRTY_EXEC
    queue,              \* c->mstate: the queued commands still to be executed
    client_watched,     \* c->watched_keys
    watched_keys,       \* db->watched_keys, of all databases
    in_exec,            \* server.in_exec, and for whom
    propagate_in_transaction,
    feed,               \* what this step passed to propagate(), with MULTI and EXEC
    sent,               \* history: commands sent since MULTI, queued or refused
    stale               \* history: a slot the client watches has changed since

data == <<dict, expires>>
clocks == <<now, mstime>>
tables == <<client_watched, watched_keys>>
mstate == <<queue, sent>>
exec == <<in_exec, propagate_in_transaction>>
vars == <<data, clocks, db, multi, dirty_cas, dirty_exec, mstate, tables, exec, feed, stale>>

Idle == in_exec = Nobody

-----------------------------------------------------------------------------
(* The WATCH tables, multi.c *)

watchForKey(c, p) ==
    /\ client_watched' = [client_watched EXCEPT ![c] = @ \cup {p}]
    /\ watched_keys' = [watched_keys EXCEPT ![p] = @ \cup {c}]

UnwatchOnlyClient(c) ==
    /\ client_watched' = [client_watched EXCEPT ![c] = {}]
    /\ UNCHANGED watched_keys

unwatchAllKeys(c) ==
    /\ client_watched' = [client_watched EXCEPT ![c] = {}]
    /\ watched_keys' = [p \in Slot |-> IF p \in client_watched[c]
                                       THEN watched_keys[p] \ {c}
                                       ELSE watched_keys[p]]

isWatchedKeyExpired(c, clock) ==
    \E p \in client_watched[c] : keyIsExpired(expires, p, clock)

\* touchWatchedKey() of every slot of ps: the clients that watch one become dirty.
touchWatchedKeys(ps) ==
    dirty_cas' = [c \in Client |-> dirty_cas[c] \/ \E p \in ps : c \in watched_keys[p]]

DiscardKeepingDirtyExec(c) ==
    /\ queue' = [queue EXCEPT ![c] = <<>>]
    /\ sent' = [sent EXCEPT ![c] = 0]
    /\ multi' = [multi EXCEPT ![c] = FALSE]
    /\ dirty_cas' = [dirty_cas EXCEPT ![c] = FALSE]
    /\ UNCHANGED dirty_exec
    /\ unwatchAllKeys(c)

discardTransaction(c) ==
    /\ queue' = [queue EXCEPT ![c] = <<>>]
    /\ sent' = [sent EXCEPT ![c] = 0]
    /\ multi' = [multi EXCEPT ![c] = FALSE]
    /\ dirty_cas' = [dirty_cas EXCEPT ![c] = FALSE]
    /\ dirty_exec' = [dirty_exec EXCEPT ![c] = FALSE]
    /\ unwatchAllKeys(c)

-----------------------------------------------------------------------------
Init ==
    /\ dict = [p \in Slot |-> Absent]
    /\ expires = [p \in Slot |-> NoExpire]
    /\ now = 0
    /\ mstime = 0
    /\ db = [c \in Client |-> 0]
    /\ multi = [c \in Client |-> FALSE]
    /\ dirty_cas = [c \in Client |-> FALSE]
    /\ dirty_exec = [c \in Client |-> FALSE]
    /\ queue = [c \in Client |-> <<>>]
    /\ client_watched = [c \in Client |-> {}]
    /\ watched_keys = [p \in Slot |-> {}]
    /\ in_exec = Nobody
    /\ propagate_in_transaction = FALSE
    /\ feed = <<>>
    /\ sent = [c \in Client |-> 0]
    /\ stale = [c \in Client |-> FALSE]

(* Commands that only concern the client.  call() caches the time first.     *)

\* call() of a command that propagates nothing and leaves the data set alone.
CallClientCommand ==
    /\ Idle
    /\ mstime' = now
    /\ feed' = <<>>
    /\ UNCHANGED <<data, now, exec>>

multiCommand(c) ==
    /\ CallClientCommand
    /\ multi' = [multi EXCEPT ![c] = TRUE]      \* an error if it is set already
    /\ UNCHANGED <<db, dirty_cas, dirty_exec, mstate, tables>>

discardCommand(c) ==
    /\ multi[c]
    /\ CallClientCommand
    /\ discardTransaction(c)
    /\ UNCHANGED db

watchCommand(c, key) ==
    /\ ~multi[c]
    /\ CallClientCommand
    /\ watchForKey(c, <<db[c], key>>)
    /\ UNCHANGED <<db, multi, dirty_cas, dirty_exec, mstate>>

UnwatchKeepingDirty(c) ==
    /\ ~multi[c]
    /\ CallClientCommand
    /\ unwatchAllKeys(c)
    /\ UNCHANGED <<db, multi, dirty_cas, dirty_exec, mstate>>

unwatchCommand(c) ==
    /\ ~multi[c]
    /\ CallClientCommand
    /\ unwatchAllKeys(c)
    /\ dirty_cas' = [dirty_cas EXCEPT ![c] = FALSE]
    /\ UNCHANGED <<db, multi, dirty_exec, mstate>>

selectCommand(c, id) ==
    /\ ~multi[c]
    /\ CallClientCommand
    /\ db' = [db EXCEPT ![c] = id]
    /\ UNCHANGED <<multi, dirty_cas, dirty_exec, mstate, tables>>

resetCommand(c) ==
    /\ CallClientCommand
    /\ discardTransaction(c)
    /\ db' = [db EXCEPT ![c] = 0]

\* The connection closes and another one takes its place.
freeClient(c) ==
    /\ Idle
    /\ discardTransaction(c)
    /\ db' = [db EXCEPT ![c] = 0]
    /\ feed' = <<>>
    /\ UNCHANGED <<data, clocks, exec>>

-----------------------------------------------------------------------------
(* Dispatch, server.c *)

\* In a transaction a command is queued, unless the transaction is doomed already.
queueMultiCommand(c, cmd) ==
    /\ Idle
    /\ multi[c]
    /\ sent[c] < MaxQueue
    /\ queue' = [queue EXCEPT ![c] = IF dirty_exec[c] THEN @ ELSE Append(@, cmd)]
    /\ sent' = [sent EXCEPT ![c] = @ + 1]
    /\ feed' = <<>>
    /\ UNCHANGED <<data, clocks, db, multi, dirty_cas, dirty_exec, tables, exec>>

RejectWithoutFlag(c) ==
    /\ Idle
    /\ multi[c]
    /\ sent[c] < MaxQueue
    /\ sent' = [sent EXCEPT ![c] = @ + 1]
    /\ feed' = <<>>
    /\ UNCHANGED <<data, clocks, db, multi, dirty_cas, dirty_exec, queue, tables, exec>>

\* A check of processCommand() refuses a command other than EXEC: in a transaction
\* flagTransaction() marks it, elsewhere nothing changes.
rejectCommand(c) ==
    /\ Idle
    /\ multi[c]
    /\ sent[c] < MaxQueue
    /\ sent' = [sent EXCEPT ![c] = @ + 1]
    /\ dirty_exec' = [dirty_exec EXCEPT ![c] = TRUE]
    /\ feed' = <<>>
    /\ UNCHANGED <<data, clocks, db, multi, dirty_cas, queue, tables, exec>>

\* It refuses EXEC itself: execCommandAbort().
execCommandAbort(c) ==
    /\ Idle
    /\ discardTransaction(c)
    /\ feed' = <<>>
    /\ UNCHANGED <<data, clocks, db, exec>>

\* The effect s of a command on the data set and on the clients that watch it.
ApplyEffect(s) ==
    /\ dict' = s.dict
    /\ expires' = s.expires
    /\ touchWatchedKeys(s.touched)

\* call() of a command outside a transaction.
call(c, cmd) ==
    /\ Idle
    /\ ~multi[c]
    /\ cmd.op \notin {"select", "unwatch"}
    /\ mstime' = now
    /\ LET s == Proc(Effect(dict, expires), db[c], cmd, Clock(now, now, FALSE))
       IN  ApplyEffect(s) /\ feed' = s.feed
    /\ UNCHANGED <<now, db, multi, dirty_exec, mstate, tables, exec>>

-----------------------------------------------------------------------------
(* EXEC, multi.c *)

\* Wrong forms of execCommand, for the mutation runs.
ExecIgnoringCas(c) ==
    /\ ~dirty_exec[c]
    /\ unwatchAllKeys(c)
    /\ in_exec' = c
    /\ UNCHANGED <<dirty_cas, dirty_exec, multi, mstate>>

ExecIgnoringExpiry(c) ==
    IF dirty_cas[c] \/ dirty_exec[c]
    THEN discardTransaction(c) /\ UNCHANGED in_exec
    ELSE /\ unwatchAllKeys(c)
         /\ in_exec' = c
         /\ UNCHANGED <<dirty_cas, dirty_exec, multi, mstate>>

ExecIgnoringErrors(c) ==
    IF dirty_cas[c] \/ isWatchedKeyExpired(c, Clock(now, now, FALSE))
    THEN discardTransaction(c) /\ UNCHANGED in_exec
    ELSE /\ unwatchAllKeys(c)
         /\ in_exec' = c
         /\ UNCHANGED <<dirty_cas, dirty_exec, multi, mstate>>

\* The checks of EXEC: a dirty transaction is discarded, another one starts.
StartOrAbort(c) ==
    IF \/ dirty_cas[c]
       \/ dirty_exec[c]
       \/ isWatchedKeyExpired(c, Clock(now, now, FALSE))
    THEN discardTransaction(c) /\ UNCHANGED in_exec
    ELSE /\ unwatchAllKeys(c)
         /\ in_exec' = c
         /\ UNCHANGED <<dirty_cas, dirty_exec, multi, mstate>>

execCommand(c) ==
    /\ Idle
    /\ multi[c]
    /\ mstime' = now
    /\ StartOrAbort(c)
    /\ feed' = <<>>
    /\ UNCHANGED <<data, now, db, propagate_in_transaction>>

PropagateWithoutMulti(entries) ==
    /\ feed' = entries
    /\ propagate_in_transaction' = (propagate_in_transaction \/ entries # <<>>)

\* propagate() inside EXEC: the first command is preceded by a MULTI.
PropagateInExec(entries) ==
    /\ feed' = IF entries = <<>> \/ propagate_in_transaction
               THEN entries
               ELSE <<Entry(Head(entries).db, [op |-> "multi"])>> \o entries
    /\ propagate_in_transaction' = (propagate_in_transaction \/ entries # <<>>)

\* The next queued command is called, with the time cached when EXEC began.
ExecCall(c) ==
    /\ in_exec = c
    /\ queue[c] # <<>>
    /\ LET cmd == Head(queue[c])
           s == Proc(Effect(dict, expires), db[c], cmd, Clock(mstime, now, FALSE))
       IN  /\ ApplyEffect(s)
           /\ PropagateInExec(s.feed)
           /\ db' = IF cmd.op = "select" THEN [db EXCEPT ![c] = cmd.id] ELSE db
    /\ queue' = [queue EXCEPT ![c] = Tail(@)]
    /\ UNCHANGED <<clocks, multi, dirty_exec, sent, tables, in_exec>>

\* The ACL rules changed since it was queued: the command is skipped.
ExecDenied(c) ==
    /\ in_exec = c
    /\ queue[c] # <<>>
    /\ queue' = [queue EXCEPT ![c] = Tail(@)]
    /\ feed' = <<>>
    /\ UNCHANGED <<data, clocks, db, multi, dirty_cas, dirty_exec, sent, tables, exec>>

ExecDoneKeepingFlag(c) ==
    /\ in_exec = c
    /\ queue[c] = <<>>
    /\ discardTransaction(c)
    /\ feed' = IF propagate_in_transaction
               THEN <<Entry(db[c], [op |-> "exec"])>> ELSE <<>>
    /\ in_exec' = Nobody
    /\ UNCHANGED <<data, clocks, db, propagate_in_transaction>>

\* After the last command EXEC is propagated if MULTI was.
ExecDone(c) ==
    /\ in_exec = c
    /\ queue[c] = <<>>
    /\ discardTransaction(c)
    /\ feed' = IF propagate_in_transaction
               THEN <<Entry(db[c], [op |-> "exec"])>> ELSE <<>>
    /\ propagate_in_transaction' = FALSE
    /\ in_exec' = Nobody
    /\ UNCHANGED <<data, clocks, db>>

-----------------------------------------------------------------------------
(* What changes the key space between two commands *)

\* One key of the active expire cycle, by the system clock.
activeExpireCycleTryExpire(p) ==
    /\ Idle
    /\ keyIsExpired(expires, p, Clock(now, now, FALSE))
    /\ LET s == DeleteAndPropagate(Effect(dict, expires), p)
       IN  ApplyEffect(s) /\ feed' = s.feed
    /\ UNCHANGED <<clocks, db, multi, dirty_exec, mstate, tables, exec>>

\* One key that performEvictions() picks.
performEvictions(p) ==
    /\ Idle
    /\ Evicting
    /\ dict[p] # Absent
    /\ LET s == DeleteAndPropagate(Effect(dict, expires), p)
       IN  ApplyEffect(s) /\ feed' = s.feed
    /\ UNCHANGED <<clocks, db, multi, dirty_exec, mstate, tables, exec>>

Tick ==
    /\ now < MaxTime
    /\ now' = now + 1
    /\ feed' = <<>>
    /\ UNCHANGED <<data, mstime, db, multi, dirty_cas, dirty_exec, mstate, tables, exec>>

ClientStep(c) ==
    \/ multiCommand(c)
    \/ discardCommand(c)
    \/ \E key \in Key : watchCommand(c, key)
    \/ unwatchCommand(c)
    \/ \E id \in Db : selectCommand(c, id)
    \/ resetCommand(c)
    \/ freeClient(c)
    \/ \E cmd \in Commands : queueMultiCommand(c, cmd)
    \/ rejectCommand(c)
    \/ execCommandAbort(c)
    \/ \E cmd \in Commands : call(c, cmd)
    \/ execCommand(c)
    \/ ExecCall(c)
    \/ ExecDenied(c)
    \/ ExecDone(c)

ServerStep ==
    \/ \E p \in Slot : activeExpireCycleTryExpire(p) \/ performEvictions(p)
    \/ Tick

\* The history variable: a client's view is stale once a slot that it watches has
\* changed; it is fresh again when it watches nothing.
Changed(p) == dict'[p] # dict[p] \/ expires'[p] # expires[p]

RecordStale ==
    stale' = [c \in Client |->
                /\ client_watched'[c] # {}
                /\ stale[c] \/ \E p \in client_watched[c] : Changed(p)]

Next == (ServerStep \/ \E c \in Client : ClientStep(c)) /\ RecordStale

Spec == Init /\ [][Next]_vars

-----------------------------------------------------------------------------
(* Properties *)

\* The type of every variable (multi.c, the structures client and redisDb).
TypeOK ==
    /\ dict \in [Slot -> Val \cup {Absent}]
    /\ expires \in [Slot -> Int]
    /\ now \in 0..MaxTime /\ mstime \in 0..MaxTime
    /\ db \in [Client -> Db]
    /\ multi \in [Client -> BOOLEAN]
    /\ dirty_cas \in [Client -> BOOLEAN]
    /\ dirty_exec \in [Client -> BOOLEAN]
    /\ queue \in [Client -> Seq(Commands)]
    /\ client_watched \in [Client -> SUBSET Slot]
    /\ watched_keys \in [Slot -> SUBSET Client]
    /\ in_exec \in Client \cup {Nobody}
    /\ propagate_in_transaction \in BOOLEAN
    /\ sent \in [Client -> 0..MaxQueue]
    /\ stale \in [Client -> BOOLEAN]

\* The two WATCH tables mirror each other: unwatchAllKeys() finds every client in
\* the list of every key it watches (the serverAssert there), and no list keeps a
\* client that has gone (touchWatchedKey() would write to freed memory).
WatchTablesMirror ==
    \A c \in Client, p \in Slot : p \in client_watched[c] <=> c \in watched_keys[p]

\* A volatile key is in the main dictionary: the serverAssert of getExpire() and
\* removeExpire(), whatever RENAME, MOVE, SWAPDB, FLUSHDB, expiry or eviction did.
ExpiresInDict == \A p \in Slot : expires[p] # NoExpire => dict[p] # Absent

\* A client whose watched keys have changed is marked CLIENT_DIRTY_CAS, whoever
\* changed them: a command, a transaction, a flush, a swap, expiry or eviction.
StaleIsDirty == \A c \in Client : stale[c] => dirty_cas[c]

\* Optimistic locking: a transaction starts only if no key that the client watches
\* has changed since it was watched, not even back to its old value, and none has
\* expired (execCommand()).
ExecStartsFresh ==
    [][\A c \in Client : in_exec' = c /\ in_exec # c =>
          /\ ~stale[c]
          /\ \A p \in client_watched[c] : expires[p] = NoExpire \/ now <= expires[p]]_vars

\* All or nothing: a transaction that starts executes every command the client has
\* sent since MULTI.  If a check of processCommand() refused one, execution of the
\* others is refused too (flagTransaction(), and the early return of
\* queueMultiCommand()).  MULTI and WATCH inside a transaction are answered with an
\* error that does not mark it: they are not counted in sent.
AllOrNothing ==
    [][\A c \in Client : in_exec' = c /\ in_exec # c => Len(queue[c]) = sent[c]]_vars

\* What propagate() asserts: a MULTI is open in the stream only while an EXEC runs
\* (processCommand(), beforePropagateMulti(), afterPropagateExec()).
StreamClosedWhenIdle == propagate_in_transaction => in_exec # Nobody

\* A connection that watches nothing and is not in a transaction carries no mark of
\* an earlier one, so that its next transaction is not aborted for nothing.
NoLeftoverMarks ==
    \A c \in Client : /\ dirty_exec[c] => multi[c]
                      /\ dirty_cas[c] => client_watched[c] # {}
=============================================================================
