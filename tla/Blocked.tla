------------------------------ MODULE Blocked ------------------------------
(***************************************************************************)
(* Clients of the Redis server that wait for data: BLPOP, BRPOP, BLMOVE    *)
(* and BZPOPMIN/MAX (src/redis/src/blocked.c, timeout.c, t_list.c,         *)
(* t_zset.c).  A command that creates a key marks it ready, and when the   *)
(* command or transaction has ended handleClientsBlockedOnKeys() serves    *)
(* the clients that wait for ready keys, which may make other keys ready.  *)
(* That loop is taken in steps here, and nothing else happens in between.  *)
(*                                                                         *)
(* The elements of lists and sorted sets are numbers, each one new when it *)
(* is pushed.  A sorted set is the sequence of its elements by score.      *)
(***************************************************************************)
EXTENDS Integers, Sequences, FiniteSets

CONSTANTS
    Client, Db, Key,
    NoKey,       \* no destination: the command is not BLMOVE
    Units,       \* sequences of commands that a client runs at once
    Requests,    \* blocking commands: [btype, db, keys, target, from, to, ttl]
    MaxElements, \* bound: how many elements are ever pushed
    MaxTime      \* bound: the last instant of the clock

ASSUME BoundsAssumption == MaxElements \in Nat /\ MaxTime \in Nat
ASSUME RequestsAssumption == \A r \in Requests : r.btype \in {"list", "zset"} /\ r.ttl \in Nat
ASSUME TargetAssumption == NoKey \notin Key

Slot == Db \X Key
Types == {"list", "zset"}      \* the types that clients block for

Absent == [type |-> "none", els |-> <<>>]
String == [type |-> "string", els |-> <<>>]
Empty(type) == [type |-> type, els |-> <<>>]
Elements(seq) == {seq[i] : i \in DOMAIN seq}

VARIABLES
    dict,           \* the values of the slots
    next, gone,     \* ghost: the next new element; the ones popped or deleted
    blocking_keys,  \* the clients that wait for each slot
    ready_keys,     \* the slots to be served: this round of the loop, then the next
    serving,        \* the slot being served, and numclients
    client,         \* c->btype and c->bpop
    timeout_table,  \* server.clients_timeout_table
    now,
    arrival,        \* ghost: the blocked clients, the one that waits longest first
    rotated         \* ghost: slots where clients that wait for another type were passed

store == <<dict, next, gone, ready_keys>>
waiting == <<blocking_keys, client, timeout_table, arrival, rotated>>
vars == <<store, waiting, serving, now>>

NotServing == [slot |-> <<>>, left |-> 0]
NotBlocked == [btype |-> "none", db |-> 0, keys |-> {}, target |-> NoKey,
               from |-> "head", to |-> "head", timeout |-> 0]
IsBlocked(c) == client[c].btype # "none"

\* The server is between two commands.
Idle == serving = NotServing /\ ready_keys = <<>>

Init ==
    /\ dict = [p \in Slot |-> Absent]
    /\ next = 1 /\ gone = {}
    /\ blocking_keys = [p \in Slot |-> <<>>]
    /\ ready_keys = <<>> /\ serving = NotServing
    /\ client = [c \in Client |-> NotBlocked]
    /\ timeout_table = {}
    /\ now = 0
    /\ arrival = <<>> /\ rotated = {}

-----------------------------------------------------------------------------
(* The data set: operators take and return the record s of what they change. *)

Store == [dict |-> dict, ready |-> ready_keys, next |-> next, gone |-> gone]

Becomes(s) == dict' = s.dict /\ ready_keys' = s.ready /\ next' = s.next /\ gone' = s.gone

\* A key that has got a value is queued if somebody blocks for a value of that type,
\* somebody for the key, and it is not queued yet.
signalKeyAsReady(s, p) ==
    IF /\ \E c \in Client : client[c].btype = s.dict[p].type /\ IsBlocked(c)
       /\ blocking_keys[p] # <<>>
       /\ p \notin Elements(s.ready)
    THEN [s EXCEPT !.ready = Append(@, p)]
    ELSE s

dbAdd(s, p, value) == signalKeyAsReady([s EXCEPT !.dict[p] = value], p)

dbDelete(s, p) == [s EXCEPT !.dict[p] = Absent]

dbOverwrite(s, p, value) == [s EXCEPT !.dict[p] = value]

setKey(s, p, value) ==
    LET t == [s EXCEPT !.gone = @ \cup Elements(s.dict[p].els)]
    IN  IF s.dict[p] = Absent THEN dbAdd(t, p, value) ELSE dbOverwrite(t, p, value)

listTypePush(s, p, el, where) ==
    [s EXCEPT !.dict[p].els = IF where = "head" THEN <<el>> \o @ ELSE Append(@, el)]

End(els, where) == IF where = "head" THEN els[1] ELSE els[Len(els)]

\* The element at one end is removed; the caller deletes the key when it was the last.
listTypePop(s, p, where) ==
    [s EXCEPT !.dict[p].els =
        IF where = "head" THEN Tail(@) ELSE SubSeq(@, 1, Len(@) - 1)]

DeleteIfEmpty(s, p) == IF s.dict[p].els = <<>> THEN dbDelete(s, p) ELSE s

\* An element of a list or sorted set goes to a client, and an emptied key is deleted.
PopToClient(s, p, where) ==
    DeleteIfEmpty([listTypePop(s, p, where)
                      EXCEPT !.gone = @ \cup {End(s.dict[p].els, where)}], p)

\* The push side of LMOVE; the caller has checked the type.
lmoveHandlePush(s, p, el, where) ==
    listTypePush(IF s.dict[p] = Absent THEN dbAdd(s, p, Empty("list")) ELSE s, p, el, where)

-----------------------------------------------------------------------------
(* The commands that do not block *)

\* A wrong form of the next definition, for the mutation runs, like others below.
PushWithoutTypeCheck(s, p, type, where, xx) ==
    LET t == IF s.dict[p] = Absent THEN dbAdd(s, p, Empty(type)) ELSE s
    IN  [listTypePush(t, p, s.next, where) EXCEPT !.next = @ + 1]

\* LPUSH, RPUSH and their X forms, and ZADD of an element with the highest score.
pushGenericCommand(s, p, type, where, xx) ==
    IF s.dict[p].type \notin {"none", type} \/ (s.dict[p] = Absent /\ xx) THEN s
    ELSE LET t == IF s.dict[p] = Absent THEN dbAdd(s, p, Empty(type)) ELSE s
         IN  [listTypePush(t, p, s.next, where) EXCEPT !.next = @ + 1]

delGenericCommand(s, p) ==
    [dbDelete(s, p) EXCEPT !.gone = @ \cup Elements(s.dict[p].els)]

renameGenericCommand(s, p, q) ==
    IF s.dict[p] = Absent \/ p = q THEN s
    ELSE LET t == IF s.dict[q] = Absent THEN s ELSE delGenericCommand(s, q)
         IN  dbDelete(dbAdd(t, q, s.dict[p]), p)

moveCommand(s, p, q) ==
    IF s.dict[p] = Absent \/ s.dict[q] # Absent THEN s
    ELSE dbDelete(dbAdd(s, q, s.dict[p]), p)

\* SORT p STORE q: a list of as many new elements as p has, or none.
sortCommand(s, p, q) ==
    LET n    == Len(s.dict[p].els)
        copy == [type |-> "list", els |-> [i \in 1..n |-> s.next + i - 1]]
    IN  IF s.dict[p] = String THEN s
        ELSE IF n = 0 THEN delGenericCommand(s, q)
        ELSE [setKey(s, q, copy) EXCEPT !.next = @ + n]

ScanNothing(s, db, order) == s

\* The keys somebody blocks for, in the order of the hash table.
scanDatabaseForReadyLists(s, db, order) ==
    LET after[n \in 0..Len(order)] ==
            IF n = 0 THEN s
            ELSE LET p == <<db, order[n]>>
                 IN  IF blocking_keys[p] = <<>> \/ s.dict[p] = Absent THEN after[n - 1]
                     ELSE signalKeyAsReady(after[n - 1], p)
    IN  after[Len(order)]

dbSwapDatabases(s, a, b, order) ==
    LET other(db) == IF db = a THEN b ELSE IF db = b THEN a ELSE db
        swapped   == [s EXCEPT !.dict = [p \in Slot |-> s.dict[<<other(p[1]), p[2]>>]]]
    IN  IF a = b THEN s
        ELSE scanDatabaseForReadyLists(scanDatabaseForReadyLists(swapped, a, order), b, order)

Proc(s, cmd, order) ==
    CASE cmd.op = "push"   -> pushGenericCommand(s, cmd.slot, cmd.type, cmd.where, cmd.xx)
      [] cmd.op = "del"    -> delGenericCommand(s, cmd.slot)
      [] cmd.op = "set"    -> setKey(s, cmd.slot, String)
      [] cmd.op = "rename" -> renameGenericCommand(s, cmd.slot, cmd.to)
      [] cmd.op = "move"   -> moveCommand(s, cmd.slot, cmd.to)
      [] cmd.op = "sort"   -> sortCommand(s, cmd.slot, cmd.to)
      [] cmd.op = "swapdb" -> dbSwapDatabases(s, cmd.a, cmd.b, order)

KeyOrders ==
    {f \in [1..Cardinality(Key) -> Key] : \A i, j \in DOMAIN f : f[i] = f[j] => i = j}

\* A command, or the commands of a transaction, of a client that is not blocked.
call(u, order) ==
    LET after[n \in 0..Len(u)] ==
            IF n = 0 THEN Store ELSE Proc(after[n - 1], u[n], order)
    IN  /\ Idle
        /\ after[Len(u)].next <= MaxElements + 1
        /\ Becomes(after[Len(u)])
        /\ UNCHANGED <<waiting, serving, now>>

-----------------------------------------------------------------------------
(* The commands that block.  One that finds a value of another type replies with an  *)
(* error and changes nothing: it is no step.                                         *)

EnqueueAtHead(queue, c) == <<c>> \o queue

Enqueue(queue, c) == Append(queue, c)

addClientToTimeoutTable(c, timeout) ==
    timeout_table' = IF timeout = 0 THEN timeout_table
                     ELSE timeout_table \cup {<<timeout, c>>}

\* The client waits at the end of the queues of its keys, each one once.
blockForKeys(c, r, keys, timeout) ==
    /\ client' = [client EXCEPT ![c] =
                     [btype |-> r.btype, db |-> r.db, keys |-> keys, target |-> r.target,
                      from |-> r.from, to |-> r.to, timeout |-> timeout]]
    /\ blocking_keys' = [p \in Slot |-> IF p \in keys THEN Enqueue(blocking_keys[p], c)
                                        ELSE blocking_keys[p]]
    /\ addClientToTimeoutTable(c, timeout)
    /\ arrival' = Append(arrival, c)
    /\ UNCHANGED <<store, rotated>>

\* A timeout is kept as the time when it ends.
getTimeoutFromObjectOrReply(ttl) == IF ttl = 0 THEN 0 ELSE now + ttl

\* BLPOP, BRPOP and BZPOPMIN/MAX: the first key that exists decides, and the client
\* blocks for all of them when there is none.
blockingPopGenericCommand(c, r) ==
    LET slot(i) == <<r.db, r.keys[i]>>
        exists  == {i \in DOMAIN r.keys : dict[slot(i)] # Absent}
        first   == CHOOSE i \in exists : \A j \in exists : i <= j
    IN  /\ Idle /\ ~IsBlocked(c)
        /\ r.target = NoKey
        /\ now + r.ttl < MaxTime
        /\ \/ /\ exists = {}
              /\ blockForKeys(c, r, {slot(i) : i \in DOMAIN r.keys},
                              getTimeoutFromObjectOrReply(r.ttl))
           \/ /\ exists # {}
              /\ dict[slot(first)].type = r.btype
              /\ Becomes(PopToClient(Store, slot(first), r.from))
              /\ UNCHANGED waiting
        /\ UNCHANGED <<serving, now>>

\* LMOVE from a list to a list or to a key that does not exist.
lmoveGenericCommand(s, p, q, from, to) ==
    DeleteIfEmpty(lmoveHandlePush(listTypePop(s, p, from), q, End(s.dict[p].els, from), to), p)

\* BLMOVE and BRPOPLPUSH.
blmoveGenericCommand(c, r) ==
    LET p == <<r.db, r.keys[1]>>
        q == <<r.db, r.target>>
    IN  /\ Idle /\ ~IsBlocked(c)
        /\ r.target # NoKey
        /\ now + r.ttl < MaxTime
        /\ \/ /\ dict[p] = Absent
              /\ blockForKeys(c, r, {p}, getTimeoutFromObjectOrReply(r.ttl))
           \/ /\ dict[p].type = "list" /\ dict[q].type \in {"none", "list"}
              /\ Becomes(lmoveGenericCommand(Store, p, q, r.from, r.to))
              /\ UNCHANGED waiting
        /\ UNCHANGED <<serving, now>>

-----------------------------------------------------------------------------
(* Unblocking *)

UnblockForServedKey(cs) ==
    blocking_keys' = [p \in Slot |->
        IF serving.slot \in {<<>>, p} THEN SelectSeq(blocking_keys[p], LAMBDA c : c \notin cs)
        ELSE blocking_keys[p]]

\* Some clients leave all the queues they are in.
unblockClientWaitingData(cs) ==
    blocking_keys' = [p \in Slot |->
        SelectSeq(blocking_keys[p], LAMBDA c : ~(c \in cs /\ p \in client[c].keys))]

\* The clients are unblocked, and the given entries leave the timeout table.
Unblock(cs, entries) ==
    /\ unblockClientWaitingData(cs)
    /\ client' = [c \in Client |-> IF c \in cs THEN NotBlocked ELSE client[c]]
    /\ timeout_table' = timeout_table \ entries
    /\ arrival' = SelectSeq(arrival, LAMBDA c : c \notin cs)
    /\ rotated' = {p \in rotated : blocking_keys'[p] # <<>>}

unblockClient(c) == Unblock({c}, {<<client[c].timeout, c>>})

\* A blocked client is disconnected, or another one runs CLIENT UNBLOCK.
freeClient(c) ==
    /\ Idle /\ IsBlocked(c)
    /\ unblockClient(c)
    /\ UNCHANGED <<store, serving, now>>

TimeoutOnlyOfPops(c) ==
    /\ IsBlocked(c) /\ client[c].target = NoKey
    /\ client[c].timeout # 0 /\ client[c].timeout < now

checkBlockedClientTimeout(c) ==
    IsBlocked(c) /\ client[c].timeout # 0 /\ client[c].timeout < now

\* All the entries of the table that are in the past are removed, and the clients in
\* them that are blocked with such a timeout are unblocked.
handleBlockedClientsTimeout ==
    LET past == {e \in timeout_table : e[1] < now}
    IN  /\ Idle
        /\ past # {}
        /\ Unblock({c \in Client : checkBlockedClientTimeout(c) /\ \E e \in past : e[2] = c},
                   past)
        /\ UNCHANGED <<store, serving, now>>

Tick ==
    /\ Idle
    /\ now < MaxTime
    /\ now' = now + 1
    /\ UNCHANGED <<store, waiting, serving>>

-----------------------------------------------------------------------------
(* handleClientsBlockedOnKeys() *)

\* The next ready key; a value that nobody can block for is passed over.
TakeReadyKey ==
    LET p == Head(ready_keys)
    IN  /\ serving = NotServing /\ ready_keys # <<>>
        /\ ready_keys' = Tail(ready_keys)
        /\ serving' = IF dict[p].type \in Types
                      THEN [slot |-> p, left |-> Len(blocking_keys[p])]
                      ELSE NotServing
        /\ UNCHANGED <<dict, next, gone, waiting, now>>

ServeUndoLost(s, c, p, el) ==
    LET q == <<client[c].db, client[c].target>>
    IN  IF client[c].target = NoKey THEN [s EXCEPT !.gone = @ \cup {el}]
        ELSE IF s.dict[q].type \in {"none", "list"} THEN lmoveHandlePush(s, q, el, client[c].to)
        ELSE s

\* The element el, popped from p, goes to the client or to the destination of BLMOVE;
\* it goes back if that is no list.
serveClientBlockedOnList(s, c, p, el) ==
    LET q == <<client[c].db, client[c].target>>
    IN  IF client[c].target = NoKey THEN [s EXCEPT !.gone = @ \cup {el}]
        ELSE IF s.dict[q].type \in {"none", "list"} THEN lmoveHandlePush(s, q, el, client[c].to)
        ELSE listTypePush(s, p, el, client[c].from)

\* The client at the head of the queue gets an element.  Those that wait for another
\* type go to its end.
ServeClient ==
    LET p == serving.slot
        c == Head(blocking_keys[p])
        s == Store
    IN  /\ serving.left > 0 /\ dict[p] # Absent
        /\ \/ /\ client[c].btype # dict[p].type
              /\ blocking_keys' = [blocking_keys EXCEPT ![p] = Append(Tail(@), c)]
              /\ rotated' = rotated \cup {p}
              /\ UNCHANGED <<store, client, timeout_table, arrival>>
           \/ /\ client[c].btype = dict[p].type /\ dict[p].els # <<>>
              /\ Becomes(IF dict[p].type = "zset" THEN PopToClient(s, p, client[c].from)
                         ELSE serveClientBlockedOnList(listTypePop(s, p, client[c].from), c, p,
                                                       End(dict[p].els, client[c].from)))
              /\ unblockClient(c)
        /\ serving' = [serving EXCEPT !.left = @ - 1]
        /\ UNCHANGED now

\* Every client has been seen, or no element is left: an emptied list is deleted.
ServeEnd ==
    LET p == serving.slot
    IN  /\ serving # NotServing
        /\ \/ serving.left = 0
           \/ dict[p] = Absent
           \/ /\ serving.left > 0 /\ dict[p] = Empty("list")
              /\ client[Head(blocking_keys[p])].btype = "list"
        /\ Becomes(DeleteIfEmpty(Store, p))
        /\ serving' = NotServing
        /\ UNCHANGED <<waiting, now>>

Next ==
    \/ \E u \in Units, order \in KeyOrders : call(u, order)
    \/ \E c \in Client, r \in Requests :
          blockingPopGenericCommand(c, r) \/ blmoveGenericCommand(c, r)
    \/ \E c \in Client : freeClient(c)
    \/ handleBlockedClientsTimeout
    \/ Tick
    \/ TakeReadyKey
    \/ ServeClient
    \/ ServeEnd

Spec == Init /\ [][Next]_vars

\* The loop of handleClientsBlockedOnKeys() runs to its end.  Time passes whatever the
\* clients do, and every turn of the event loop begins with beforeSleep(), so with
\* handleBlockedClientsTimeout(): commands cannot keep it off for ever.
FairSpec ==
    /\ Spec
    /\ WF_vars(TakeReadyKey) /\ WF_vars(ServeClient) /\ WF_vars(ServeEnd)
    /\ SF_vars(Tick) /\ SF_vars(handleBlockedClientsTimeout)

-----------------------------------------------------------------------------
(* Properties *)

\* Every variable has its type; a string has no elements, and a list or sorted set only
\* stays empty while handleClientsBlockedOnKeys() serves it.
TypeOK ==
    /\ \A p \in Slot :
          /\ dict[p].type \in Types \cup {"none", "string"}
          /\ Elements(dict[p].els) \subseteq 1..(next - 1)
          /\ dict[p].type \notin Types => dict[p].els = <<>>
          /\ dict[p].type \in Types /\ dict[p].els = <<>> => p = serving.slot
    /\ \A c \in Client : client[c].btype \in Types \cup {"none"}
    /\ timeout_table \subseteq Nat \X Client
    /\ Elements(ready_keys) \subseteq Slot
    /\ serving = NotServing \/ serving.slot \in Slot

\* Between two commands no client waits for a key that holds what it waits for: no
\* wakeup is lost by signalKeyAsReady(), the quick returns in it, a transaction that
\* creates and deletes keys, RENAME, MOVE, SWAPDB or the push side of BLMOVE.
NoClientSleepsOnData ==
    Idle => \A p \in Slot : \A c \in Elements(blocking_keys[p]) :
                client[c].btype # dict[p].type

\* The queues of the keys, the clients' own records and the timeout table name the
\* same clients, each one once, and the loop that serves a key never runs past the end
\* of its queue (blockForKeys, unblockClient, serveClientsBlockedOnListKey).
TablesAgree ==
    /\ \A p \in Slot :
          /\ Elements(blocking_keys[p]) = {c \in Client : p \in client[c].keys}
          /\ Len(blocking_keys[p]) = Cardinality(Elements(blocking_keys[p]))
    /\ timeout_table = {<<client[c].timeout, c>> : c \in {d \in Client : client[d].timeout # 0}}
    /\ \A c \in Client : IsBlocked(c) <=> client[c].keys # {}
    /\ serving # NotServing => serving.left <= Len(blocking_keys[serving.slot])

\* An element is in one place, once: it is never handed to two clients, nor handed out
\* and kept, nor lost when BLMOVE finds a destination that is no list
\* (serveClientBlockedOnList and the undo of its pop).
ElementsAreConserved ==
    \A n \in 1..(next - 1) :
        LET places == {<<p, i>> \in Slot \X (1..MaxElements) :
                          i \in DOMAIN dict[p].els /\ dict[p].els[i] = n}
        IN  Cardinality(places) = IF n \in gone THEN 0 ELSE 1

\* Clients that wait for a key are served in the order in which they blocked, as long
\* as nobody waits there for another type (handleClientsBlockedOnKeys calls itself
\* fair in this sense).
ServedInOrder ==
    [][\A c \in Client :
          serving # NotServing /\ serving.slot \notin rotated /\ IsBlocked(c) /\ ~IsBlocked(c)'
          => c = SelectSeq(arrival, LAMBDA d : serving.slot \in client[d].keys)[1]]_vars

\* A client that blocks with a timeout does not wait for ever, whatever the others do
\* and although many may share the instant when it ends (handleBlockedClientsTimeout,
\* clients_timeout_table).
TimeoutsEnd ==
    \A c \in Client : client[c].timeout # 0 ~> ~IsBlocked(c)
=============================================================================
