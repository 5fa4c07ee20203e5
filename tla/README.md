# Verification of wahana and of the Redis server it ships

wahana turns web-server logs into searchable documents. Two PHP scripts read a
log, stage each record in Redis and index it in Elasticsearch; a small dashboard
lists and exports two MySQL tables. The repository also carries the source of
Redis 6.2.5, the server the scripts talk to, and nearly all of its own code is
there. This directory holds TLA+ models of both, TLC configurations that check
them on small instances, and TLAPS proofs for all instances.

Paths below are relative to `src/`. The map from definitions to lines is
`PROJECT.json`.

## The system and its parts

**The pipeline.** `convertNGINX.php` reads `data_log/nginx.log` line by line. For
each line it sets the Redis key `json`, gets it back, indexes it in Elasticsearch
under the constant document id 3 and deletes the key. `convertUWSGI.php` matches
the whole of `data_log/uwsgi.log` in each turn of a loop, sets and gets the key
`uwsgi` and adds one document with a new id. Neither takes a lock or catches an
exception. `configDB.php`, `getData*.php`, `exportCSV_*.php` and `view/` only read.

**The server** (`redis/src/`). One thread executes commands; background threads
(`bio.c`) and forked children do the slow I/O.

| part | files | state |
|---|---|---|
| key space, expiry, eviction, strings | `db.c`, `expire.c`, `evict.c`, `t_string.c` | two hash tables per database |
| transactions, WATCH, dispatch | `multi.c`, `server.c` | flags and queue of a client, two WATCH tables |
| append only file | `aof.c`, `bio.c` | file, buffer, fsync state, rewriting child |
| blocking commands | `blocked.c`, `timeout.c`, `t_list.c`, `t_zset.c`, `sort.c` | queues of keys, ready keys, timeout table |
| event loop, networking, threaded I/O | `ae.c`, `networking.c`, `connection.c` | buffers, clients to close |
| replication | `replication.c` | backlog, two ids with offsets, links |
| snapshots | `rdb.c`, `rio.c`, `childinfo.c` | child, dirty counters, save status |
| cluster, sentinel | `cluster.c`, `sentinel.c` | epochs, votes, slots, failover state |
| hash tables | `dict.c` | two tables, rehash index, cursors |
| client-side caching, Pub/Sub | `tracking.c`, `pubsub.c` | invalidation tables |
| value encodings, other types | `ziplist.c`, `quicklist.c`, `t_*.c`, ... | bytes |
| scripting, modules, ACL, configuration, tools | `scripting.c`, `module.c`, `acl.c`, ... | - |

The first four and the two scripts are modelled; "What is not modelled" says why
the others are not, or not yet.

## Modules

| module | models |
|---|---|
| `ConvertNginx`, `ConvertNginxProofs` | `convertNGINX.php`, several runs at once |
| `ConvertUwsgi` | `convertUWSGI.php`, several runs at once |
| `Keyspace`, `KeyspaceProofs` | what a command does to the data set; no state of its own |
| `Multi`, `MultiProofs`, `MultiExecProofs` | clients, transactions and WATCH over `Keyspace` |
| `DurableStore` | abstract: what a persistent store promises |
| `Aof` | the append only file over `Keyspace`; implements `DurableStore` |
| `Blocked` | blocking commands over their own small data set |
| `MC*` | instances for TLC |

### ConvertNginx

A run is an execution of the script. `pc`, `fn`, `line`, `eof` and `decode` are its
local state, `json` is the Redis key that all runs share and `doc` the document with
id 3. `Open` is `fopen`, which may fail: the script does not look at its result, so the
loop begins either way. `feof` and `fgets` of a `FALSE` instead of a handle warn and
give `null` on the PHP 7 that the Redis client and the operator `??` ask for, so such a
run reads no line and indexes empty documents without end. (PHP 8 throws a `TypeError`
there; that is `Abort`.)
`SetJson`, `GetJson`, `IndexDoc` and `DelJson` are the four requests of the loop
body together with the local statements around them, `Finish` is the exit of the
loop, and `Abort` an uncaught exception or a kill. `between` is history: what other
runs have left in the key since a run's SET, up to its GET. A line is one of three kinds,
those that the regular expression and `json_encode` tell apart: it matches, it does
not, or it matches and is not valid UTF-8, for which `json_encode` gives `FALSE`.
A `FALSE` is stored as an empty string, and `json_decode` makes `null` of it. The
end-of-file flag is set by the read that meets the end, as in PHP.

### ConvertUwsgi

`i` is the record that `$i` selects, with one value for everything past the last
match, where the fields are null; `docs` counts the documents by body. Both are
saturated where nothing depends on larger values. The loop's condition is the
content of the file, so only `Abort` ends a run. The `DEL` in line 61 is commented
out while line 62 still reports it as done, so the key `uwsgi` stays in Redis.

### Keyspace

A command is an operator from an effect to an effect. An effect carries the two
tables (`dict`, `expires`), the slots passed to `signalModifiedKey()` (`touched`)
and the commands handed to `propagate()` (`feed`). A slot is a key of one database.
A clock holds what the code reads of the time: `server.mstime`, cached when the
outermost `call()` began, `mstime()` itself, and whether the server is loading.
Expiry on access happens inside each command, where the code looks a key up, and
propagates its own DEL. `Proc` is the table of commands: GET, SET with PX and PXAT,
DEL, INCR, PEXPIRE, PEXPIREAT, PERSIST, RENAME, MOVE, SWAPDB, FLUSHDB.

### Multi

A command is one step, because the server runs one at a time. EXEC is several:
`execCommand` checks and starts, `ExecCall` runs one queued command (`ExecDenied`
skips one that the ACL rules refuse by now), `ExecDone` ends. Between them only the
system clock moves (`Tick`); `mstime` stays, as in the code. `call`,
`queueMultiCommand`, `rejectCommand` and `execCommandAbort` are the branches of
`processCommand()`. `activeExpireCycleTryExpire` and `performEvictions` change keys
between commands. `freeClient` is a disconnect and a new connection. `feed` is what
the step propagated, the MULTI and EXEC around a transaction included. Two variables
are history: `sent` counts the commands sent since MULTI, those that a check of
`processCommand()` refuses included. MULTI and WATCH inside a transaction are not
counted: the code answers them with an error and does not mark the transaction, which
goes on without them. `stale` is true once a slot the client watches has changed.

### DurableStore and Aof

`DurableStore` knows only data sets: the current one and those a restart may come
back with. `Aof` implements it (`RecoversSafely`, with the mapping in `Durable`).

`log` is the sequence of entries fed since `base`, the data set with which the file
begins. Positions count halves of entries, so that an odd position is inside one:
`written` is the size of the file, `durable` the part that a power failure cannot
take. A unit is a command or a transaction; the file is touched only between units.
`Execute` runs one and feeds the log (SELECT where the database changes, MULTI and
EXEC, relative times made absolute, by a clock that may have advanced by `Drift`
since the command read it). `flushAppendOnlyFile`, `TryFsync`, `FsyncWhenIdle` and
`WriteError` are the paths of `flushAppendOnlyFile()`; `bioProcessBackgroundJobs`
is the thread that syncs: it makes safe what was in the file when the job was queued,
and nothing that was written since. `rewriteAppendOnlyFileBackground`,
`backgroundRewriteDoneHandler` and `RewriteFailed` are the rewrite. `Crash` cuts the
file, at `written` or later if the process died in a write, at `durable` or later if
the machine failed. `loadAppendOnlyFile` replays the file through the same
`Keyspace` operators with the loading clock, and truncates it where the code does.

### Blocked

Elements of lists and sorted sets are numbers that are never used twice, so their
fate can be followed. `call` runs a command or transaction; `blockingPopGenericCommand`
and `blmoveGenericCommand` serve or block a client; `handleBlockedClientsTimeout`
and `freeClient` unblock. The loop of `handleClientsBlockedOnKeys()` is three
actions, `TakeReadyKey`, `ServeClient` and `ServeEnd`, and nothing else happens
until it is done. `arrival` and `rotated` are ghosts: the order in which clients
blocked, and where the loop has moved clients that wait for another type to the end
of a queue. The order in which SWAPDB meets the keys of a hash table is free.

## Runs

The passing runs explore every state within their bounds.

| run | shows |
|---|---|
| `nginx_two_runs` | Two runs over a log with a line of each kind and a final newline. The key `json` outlives no run that ends normally. A run indexes the line it read unless another run's SET or DEL came between its SET and its GET. It indexes nulls only after another run's DEL there, or for a line, its own or another's, that is not UTF-8. An undisturbed run leaves an empty document, because the final newline costs one more turn. Every run that could open the log ends; one that could not never ends by itself. |
| `uwsgi_two_runs` | Two runs, three records. Each run stores each record once, in order, then nulls; a run that is not killed goes on storing nulls for ever. |
| `multi_keys` | Two clients, two keys with expires, eviction: WATCH notices every change, the tables agree, EXEC starts only on a fresh view, no mark outlives its cause. |
| `multi_dbs` | Two clients, two databases with MOVE, SWAPDB, FLUSHDB and SELECT: changes are noticed, a transaction runs whole or not at all, the stream never stays inside MULTI. |
| `aof_always` | `appendfsync always`, a rewrite, two crashes between entries: what was acknowledged survives, transactions are whole, the log always replays to the data set. |
| `aof_rewrite` | `everysec` with `no-appendfsync-on-rewrite`, times to live, two databases, a rewrite and a crash. |
| `aof_torn` | `everysec`, a short write and a crash inside an entry: the restart comes back between two units, and writes are accepted again. |
| `aof_torn_multi` | violation, see Findings |
| `aof_torn_base` | violation, see Findings |
| `aof_fsync_error` | violation, see Findings |
| `blocked` | Three clients, two keys in two databases, lists and sorted sets, BLMOVE, timeouts: no lost wakeup, the tables agree, no element is lost or handed out twice, first come first served, timeouts end. |
| `blocked_sort` | violation, see Findings |

### Bounds

* Two runs of a script are enough for every interference between a SET and a GET or
  DEL of another; a third adds no new kind of value in the key. The log has a line of
  each kind.
* Two clients suffice for WATCH: one watches, the other changes. The queue holds one
  command over keys and two over databases, so that a SELECT can precede a command.
  `MaxVal = 1` puts INCR at its limit at once. `MaxTime = 2` lets an expire given at
  time 0 lie in the future, now and in the past. `KeyCommands` and `DbCommands` split
  the commands by what they reach.
* `MaxLog` is the length of the log from which no unit starts any more. Since a unit
  may add up to six entries the log is longer than that. Two crashes in `aof_always`
  let a second restart read what the first one cut and appended to. `Torn` is off in
  the runs about whole entries and on in those about cut ones, because of the findings.
* Three clients in `blocked` give a queue with one client served, one moved to the end
  and one left. Two elements let a transaction create two keys or one key twice.

### Fairness

* The converters: weak fairness of each run's own steps, as PHP executes a script to
  its end; none of `Abort`.
* `Aof`: weak fairness of the flush in a new second, of the idle fsync, of a
  background fsync that succeeds and of the restart. `beforeSleep()`
  calls the flush in every turn of the event loop, and `serverCron()` calls it again
  while a write is postponed or has failed. Errors and
  crashes are bounded and not fair: the property is about what follows them.
* `Blocked`: weak fairness of the three steps of the serving loop, which is a plain
  loop. Strong fairness of `Tick` and `handleBlockedClientsTimeout`: both need the
  server between two commands, where other clients' commands can always get in first,
  but time passes regardless and every turn of the event loop begins in
  `beforeSleep()`, which calls the handler.
* `Multi` states no liveness.

`CHECK_DEADLOCK FALSE` is set for the converters, whose runs end, and for `Aof`, whose
behaviours end when its bounds are used up. `Multi` and `Blocked` never deadlock, and
TLC checks that.

## Findings

Each one is a run that TLC ends with a counterexample, and an entry in `PROJECT.json`.

* **A file torn inside a transaction** (`aof_torn_multi`, `redis/src/aof.c:902`).
  `valid_up_to` moves past entries that are only queued, and a short read does not go
  back to `valid_before_multi`, as a clean end inside MULTI does. The file keeps an
  open MULTI; what is appended after the restart is queued behind it and lost at the
  next one.
* **A file torn right behind its RDB preamble** (`aof_torn_base`, `aof.c:759`).
  `valid_up_to` is still 0 when the preamble has been read, so the file is cut to
  nothing, while the server holds the data.
* **A background fsync that fails once** (`aof_fsync_error`, `aof.c:546`). The offset
  was recorded when the job was queued. If nothing else is written, no other fsync is
  started, and write commands stay refused although the disk works.
* **SORT ... STORE over another type** (`blocked_sort`, `db.c:224`). `dbOverwrite()`
  does not signal the key, so a client blocked for a list there goes on waiting, and
  so does it after later pushes to the list, which is no longer new.

Observed in the models, without a run of their own:

* `backgroundRewriteDoneHandler()` empties `aof_buf` but leaves
  `aof_last_write_status`, and only a flush that has something to write clears the
  error (`aof.c:1970`; the comment at `server.c:2200` expects a buffer).
* What a restart loads is taken as synced (`aof.c:925`): a power failure soon after
  can take back data that clients have read since the restart. `DurableStore` permits it.
* With `no-appendfsync-on-rewrite` the policy `always` does not sync while a child is
  active. The documented trade-off; `TryFsync` models it.

## Proofs

`TLAPS` checks every theorem below, for any clients, keys, databases, commands, logs
and bounds that satisfy the named assumptions.

* `ConvertNginxProofs`: `TypeCorrect`, `KeyHeld`, `KeepsItsLine` (the invariant
  `UndisturbedKeepsItsLine`) and `NullsAreExplained` (`NullsHaveACause`), from
  `LogAssumption`. `KeyHeld`
  is inductive with the types: only `SetJson` creates the key, and the run that does so
  is then at "get"; a run leaves "get", "index" and "del" for "while" only in
  `DelJson`, which removes the key for everyone. The last two speak of what a run has
  decoded, and are not inductive: `ReadsHeld` adds what the key holds while a run is
  about to get it, its own line or a member of `between`. A null comes from a missing key
  or an empty string, and a run's own SET never leaves the key missing.
* `KeyspaceProofs`: `ProcFaithful`. If no expire is without its key, every command
  keeps it so, keeps values and expires in their types, and changes only slots that it
  signals. There is one lemma per command, over lemmas for writing, deleting and
  propagating. SWAPDB is the case that needs the hypothesis: a slot it does not signal
  is missing from both databases, and is unchanged only if neither has an expire there.
* `MultiProofs`: `Safety`, that `Safe` is an invariant, where
  `Safe == TypeOK /\ WatchTablesMirror /\ ExpiresInDict /\ StaleIsDirty`. `StaleIsDirty`
  is not inductive by itself. It needs the mirror, since `touchWatchedKey()` finds
  clients by the key's list while staleness is about the client's list, and it needs `ProcFaithful`, which needs `ExpiresInDict`.
  The proof has a lemma per kind of step (`ApplyEffectSafe`, `CallSafe`,
  `DiscardSafe`, `QuietSafe`) and one case per action. `TypeCorrect`, `TablesMirror`,
  `VolatileKeysExist` and `ChangesAreNoticed` are its conjuncts. `OptimisticLocking`
  proves the action property `ExecStartsFresh` from it: only `execCommand` starts a
  transaction (`OnlyExecStarts`), and it has just tested `dirty_cas` and the watched
  expires.
* `MultiExecProofs`: `MarksHold`, that `Marks` is an invariant on top of `Safe`, and from
  it `MarksAreCleared`, `StreamCloses` and `TransactionsAreWhole`. `AllOrNothing` speaks
  of the moment when EXEC starts; what makes it inductive is `QueueComplete`: outside
  EXEC, a client whose transaction is not marked as failed has queued all it has sent.
  `NoLeftoverMarks` needs the mirror of the WATCH tables again, since a client is marked
  through the keys' lists.

Only model-checked: all liveness (`EveryReaderEnds`, `WithoutFileForever`,
`NullsForever`, `WritesResume`, `TimeoutsEnd`), since temporal reasoning under fairness and ENABLED
are beyond the prover; everything about `Aof`, whose log is replayed by a fold over a
sequence, which would need induction over data; `LastDocumentIsEmpty` and the
properties of `ConvertUwsgi` and `Blocked`, which are planned.

## What is not modelled

* The dashboard and the exports: one SELECT each. The statements that would fill the
  tables are commented out in the converters.
* Predis, the Elasticsearch client and Redis' bundled libraries: third-party code. A
  request is one atomic step that may fail before or after its effect.
* Inside the modelled parts: values other than small integers, and NX, XX, KEEPTTL and
  GET of SET, in `Keyspace`; Lua,
  CLIENT PAUSE and a change of role inside EXEC; the sampling of the expire cycle and of
  eviction (any expired or present key may be taken); the pipes between the server and
  the rewriting child, so that the difference arrives as a whole; CONFIG SET appendonly;
  directory entries, so that a rename is safe at once; streams, modules and WAIT among
  the blocking commands; the query buffer of an unblocked client.
* Encodings of values, other data types, lazy freeing, defragmentation: sequential
  code over bytes or one value, where tests reach more than these tools.
* Scripting and modules run code from elsewhere; command line tools are clients.

## Plan

In order, each with its composition and what would be checked and proved:

1. `ConvertNginx` and `ConvertUwsgi`: theorems for the remaining invariants
   (`LastDocumentIsEmpty`, `RecordsStored`, `NullsComeLast`).
2. `Blocked`: theorems for its type invariant, `TablesAgree` and
   `ElementsAreConserved`; the query buffer of unblocked clients.
3. `Replication`: backlog, PSYNC with two ids, failover and WAIT over the stream of
   `Multi`; refinement of a replicated log; lost links and restarts of both sides.
4. `Aof`: the pipe protocol of the rewriting child, as a module that implements
   `RewriteBuffer`; snapshots (`rdb.c`) as a second writer of `DurableStore`.
5. `Dict`: incremental rehashing and the cursor of SCAN, against the guarantee that no
   element that stays is skipped.
6. `Cluster` and `Sentinel`: epochs, votes and failover; at most one winner per epoch.
7. Client-side caching: no stale read without an invalidation on its way.
