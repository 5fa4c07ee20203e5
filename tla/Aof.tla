-------------------------------- MODULE Aof --------------------------------
(***************************************************************************)
(* The append only file of the Redis server (src/redis/src/aof.c): what    *)
(* propagate() feeds to it, how it is written, synced and rewritten, what  *)
(* a crash leaves of it and what loadAppendOnlyFile() makes of that.       *)
(*                                                                         *)
(* The log is the sequence of entries fed since the base was written: the  *)
(* base is the data set that the last rewrite stored, empty at first.  The *)
(* file holds a part of it and aof_buf the rest.  Positions count halves   *)
(* of entries, so that an odd one is in the middle of an entry: written is *)
(* the size of the file, durable the part that survives a power failure.   *)
(*                                                                         *)
(* A client runs a unit: a command or a transaction.  The file is only     *)
(* touched between two units, so a unit is one step.                       *)
(***************************************************************************)
EXTENDS Keyspace

CONSTANTS
    Units,          \* what clients run: [multi, db, cmds]
    Fsync,          \* appendfsync: "always", "everysec" or "no"
    NoFsyncOnRewrite,
    Torn,           \* TRUE if a failure can leave half an entry in the file
    Drift,          \* the most mstime() advances while a command runs
    MaxLog,         \* bound: a unit starts only if the log is shorter than this
    MaxTime,        \* bound: the last instant of the clock
    MaxCrashes, MaxRewrites, MaxWriteErrors, MaxFsyncErrors  \* bounds: how often

ASSUME UnitsAssumption ==
    \A u \in Units : u.multi \in BOOLEAN /\ u.db \in Db /\ u.cmds \in Seq(Commands)
ASSUME ConfigAssumption ==
    /\ Fsync \in {"always", "everysec", "no"}
    /\ NoFsyncOnRewrite \in BOOLEAN /\ Torn \in BOOLEAN
    /\ {Drift, MaxLog, MaxTime, MaxCrashes, MaxRewrites, MaxWriteErrors, MaxFsyncErrors}
            \subseteq Nat

\* op applied along a sequence, from the left.  The singleton makes TLC evaluate each
\* intermediate result once instead of once for each use of it.
FoldSeq(op(_, _), start, seq) ==
    LET after[n \in 0..Len(seq)] ==
            IF n = 0 THEN start
            ELSE CHOOSE r \in {op(acc, seq[n]) : acc \in {after[n - 1]}} : TRUE
    IN  after[Len(seq)]

VARIABLES
    up,                     \* the server runs
    dict, expires,          \* its data set
    now,                    \* mstime()
    aof_selected_db,
    base,                   \* the data set at the start of the file
    log,                    \* the entries since, in the file or in aof_buf
    written,                \* the size of the file beyond the base
    durable,                \* the part of it that fsync() has made safe
    aof_fsync_offset,       \* the part that fsync() was asked to make safe
    fsync_jobs,             \* queued in bio.c: the size of the file then, or FormerFile
    aof_last_write_status,  \* TRUE for C_OK
    aof_bio_fsync_status,   \* TRUE for C_OK
    aof_child,              \* a rewriting child: its data set, where the log was
    crashes, rewrites, write_errors, fsync_errors,
    history                 \* ghost: data sets a restart may restore, with positions

data == <<dict, expires>>
file == <<base, log, written, durable>>
syncing == <<aof_fsync_offset, fsync_jobs>>
status == <<aof_last_write_status, aof_bio_fsync_status>>
counters == <<crashes, rewrites, write_errors, fsync_errors>>
vars == <<up, data, now, aof_selected_db, file, syncing, status, aof_child, counters,
          history>>

Dataset(d, e) == [dict |-> d, expires |-> e]
EmptyDataset == Dataset([p \in Slot |-> Absent], [p \in Slot |-> NoExpire])
NoChild == [saved |-> EmptyDataset, from |-> -1]
FormerFile == -1   \* the file of a queued fsync() has been replaced by a rewrite

\* Positions: halves of entries, only whole ones unless failures tear them.
Size(entries) == 2 * Len(entries)
Cuts(low, high) == {n \in low..high : Torn \/ n % 2 = 0}

-----------------------------------------------------------------------------
(* Feeding the log *)

\* The commands of a unit in turn: their effect, and the database of the client.
RunCommands(u, clock) ==
    LET step(acc, cmd) ==
            [s |-> Proc(acc.s, acc.db, cmd, clock),
             db |-> IF cmd.op = "select" THEN cmd.id ELSE acc.db]
    IN  FoldSeq(step, [s |-> Effect(dict, expires), db |-> u.db], u.cmds)

\* Wrong form of the next definition, for the mutation runs, like others below.
PropagatedAlone(u, run) == run.s.feed

\* What a unit propagates: in a transaction MULTI precedes the first entry and EXEC
\* follows the last one, if there is any.
Propagated(u, run) ==
    IF ~u.multi \/ run.s.feed = <<>>
    THEN run.s.feed
    ELSE <<Entry(Head(run.s.feed).db, [op |-> "multi"])>>
         \o run.s.feed \o <<Entry(run.db, [op |-> "exec"])>>

\* A relative time to live is logged as the absolute time it means now.
catAppendOnlyExpireAtCommand(cmd, t) ==
    CASE cmd.op = "pexpire" ->
            [op |-> "pexpireat", key |-> cmd.key, when |-> t + cmd.ttl]
      [] cmd.op = "setpx" ->
            [op |-> "setpxat", key |-> cmd.key, val |-> cmd.val, when |-> t + cmd.ttl]
      [] OTHER -> cmd

\* The entries as they are logged from time t on, after SELECT where the database
\* is not the one of the entry before.
feedAppendOnlyFile(entries, selected, t) ==
    LET step(acc, e) ==
            [db  |-> e.db,
             out |-> acc.out
                     \o (IF e.db = acc.db THEN <<>> ELSE <<[op |-> "select", id |-> e.db]>>)
                     \o <<catAppendOnlyExpireAtCommand(e.cmd, t)>>]
    IN  FoldSeq(step, [db |-> selected, out |-> <<>>], entries)

-----------------------------------------------------------------------------
(* Loading the log *)

\* The fake client and the data set as loadAppendOnlyFile() finds them at the start.
FakeClient(b) ==
    [s |-> Effect(b.dict, b.expires), db |-> 0, multi |-> FALSE, queue |-> <<>>,
     valid_up_to |-> 0, valid_before_multi |-> 0]

LoadClock == Clock(0, 0, TRUE)

\* cmd->proc(fakeClient): the commands that concern only the client, and the others.
RunLoaded(f, cmd) ==
    CASE cmd.op = "select" -> [f EXCEPT !.db = cmd.id]
      [] cmd.op = "multi"  -> [f EXCEPT !.multi = TRUE]
      [] OTHER             -> [f EXCEPT !.s = Proc(f.s, f.db, cmd, LoadClock)]

\* EXEC: the queued commands in turn.
ExecLoaded(f) ==
    [FoldSeq(RunLoaded, f, f.queue) EXCEPT !.multi = FALSE, !.queue = <<>>]

LoadWithoutQueue(f, cmd) ==
    [(IF cmd.op = "exec" THEN ExecLoaded(f) ELSE RunLoaded(f, cmd))
        EXCEPT !.valid_up_to = @ + 1]

\* One entry of the file.
LoadEntry(f, cmd) ==
    LET g == [f EXCEPT !.valid_before_multi =
                          IF cmd.op = "multi" THEN f.valid_up_to ELSE @]
        h == IF cmd.op = "exec" THEN ExecLoaded(g)
             ELSE IF g.multi THEN [g EXCEPT !.queue = Append(@, cmd)]
             ELSE RunLoaded(g, cmd)
    IN  [h EXCEPT !.valid_up_to = @ + 1]

Load(b, entries) == FoldSeq(LoadEntry, FakeClient(b), entries)

KeepOpenMulti(f, torn) == f.valid_up_to

\* Where the file is cut: after the last complete entry if another one begins there,
\* before MULTI if the file ends cleanly inside a transaction.
ValidLength(f, torn) ==
    IF f.multi /\ ~torn THEN f.valid_before_multi ELSE f.valid_up_to

-----------------------------------------------------------------------------
(* The ghost: positions here count whole entries. *)

Point(n, d) == [pos |-> n, dict |-> d]

\* The points from the last one that is at or before position n.
From(h, n) == {x \in h : \A y \in h : x.pos < y.pos => y.pos > n}

-----------------------------------------------------------------------------
Init ==
    /\ up = TRUE
    /\ dict = EmptyDataset.dict /\ expires = EmptyDataset.expires
    /\ now = 0
    /\ aof_selected_db = -1
    /\ base = EmptyDataset /\ log = <<>> /\ written = 0 /\ durable = 0
    /\ aof_fsync_offset = 0 /\ fsync_jobs = <<>>
    /\ aof_last_write_status = TRUE /\ aof_bio_fsync_status = TRUE
    /\ aof_child = NoChild
    /\ crashes = 0 /\ rewrites = 0 /\ write_errors = 0 /\ fsync_errors = 0
    /\ history = {Point(0, dict)}

\* Time passes, whether the server runs or not.
Tick ==
    /\ now < MaxTime
    /\ now' = now + 1
    /\ UNCHANGED <<up, data, aof_selected_db, file, syncing, status, aof_child, counters,
                   history>>

-----------------------------------------------------------------------------
(* Commands *)

writeCommandsDeniedByDiskError == ~aof_last_write_status \/ ~aof_bio_fsync_status

IsWrite(cmd) == cmd.op \notin {"get", "select", "unwatch"}

\* The data set becomes s.dict, s.expires and the entries go to aof_buf: propagate().
\* What a command deletes as expired before it does its own work is a unit itself.
Change(s, entries, t) ==
    LET fed(n)    == feedAppendOnlyFile(SubSeq(entries, 1, n), aof_selected_db, t)
        all       == fed(Len(entries))
        purged(n) == [p \in Slot |-> IF \E i \in 1..n : entries[i] = DelEntry(p)
                                     THEN Absent ELSE dict[p]]
        purges    == {n \in 1..(Len(entries) - 1) :
                        \A i \in 1..n : entries[i].cmd.op = "del"}
    IN  /\ dict' = s.dict
        /\ expires' = s.expires
        /\ log' = log \o all.out
        /\ aof_selected_db' = all.db
        /\ history' = history \cup {Point(Len(log'), dict')}
               \cup {Point(Len(log) + Len(fed(n).out), purged(n)) : n \in purges}
        /\ UNCHANGED <<up, now, base, written, durable, syncing, status, aof_child,
                       counters>>

\* A client runs a command or a transaction; the log is fed a little later.
Execute(u) ==
    LET run == RunCommands(u, Clock(now, now, FALSE))
    IN  /\ up
        /\ Len(log) < MaxLog
        /\ writeCommandsDeniedByDiskError => \A i \in DOMAIN u.cmds : ~IsWrite(u.cmds[i])
        /\ \E t \in now..(now + Drift) : Change(run.s, Propagated(u, run), t)

\* The expire cycle meets an expired key.
activeExpireCycleTryExpire(p) ==
    LET r == DeleteAndPropagate(Effect(dict, expires), p)
    IN  /\ up
        /\ keyIsExpired(expires, p, Clock(now, now, FALSE))
        /\ Change(r, r.feed, now)

-----------------------------------------------------------------------------
(* Writing and syncing the file *)

ReplyWithoutFsync(second) ==
    /\ history' = From(history, Len(log))
    /\ UNCHANGED <<durable, syncing>>

\* The end of flushAppendOnlyFile(), after which beforeSleep() sends the replies.  A
\* new second has begun since the last fsync() or not.
TryFsync(second) ==
    IF NoFsyncOnRewrite /\ aof_child # NoChild
    THEN UNCHANGED <<durable, syncing, history>>
    ELSE IF Fsync = "always"
    THEN /\ durable' = written'
         /\ aof_fsync_offset' = written'
         /\ history' = From(history, Len(log))
         /\ UNCHANGED fsync_jobs
    ELSE IF Fsync = "everysec" /\ second /\ fsync_jobs = <<>>
    THEN /\ fsync_jobs' = <<written'>>
         /\ aof_fsync_offset' = written'
         /\ UNCHANGED <<durable, history>>
    ELSE UNCHANGED <<durable, syncing, history>>

FlushKeepingError(second) ==
    /\ up
    /\ written < Size(log)
    /\ written' = Size(log)
    /\ TryFsync(second)
    /\ UNCHANGED <<up, data, now, aof_selected_db, base, log, status, aof_child, counters>>

\* flushAppendOnlyFile() with something in aof_buf.  While a background fsync() runs
\* the write is postponed for at most two seconds: the step is not taken yet.
flushAppendOnlyFile(second) ==
    /\ up
    /\ written < Size(log)
    /\ written' = Size(log)
    /\ aof_last_write_status' = TRUE
    /\ TryFsync(second)
    /\ UNCHANGED <<up, data, now, aof_selected_db, base, log, aof_bio_fsync_status,
                   aof_child, counters>>

\* flushAppendOnlyFile() with an empty aof_buf.
FsyncWhenIdle ==
    /\ up
    /\ written = Size(log)
    /\ Fsync = "everysec" /\ aof_fsync_offset # written /\ fsync_jobs = <<>>
    /\ UNCHANGED written
    /\ TryFsync(TRUE)
    /\ UNCHANGED <<up, data, now, aof_selected_db, base, log, status, aof_child, counters>>

\* write(2) fails, or is short and cannot be undone: n halves more are in the file.
\* With "always" the server exits, which is a crash.
WriteError(n) ==
    /\ up
    /\ write_errors < MaxWriteErrors
    /\ Fsync # "always"
    /\ written + n < Size(log)
    /\ written' = written + n
    /\ aof_last_write_status' = FALSE
    /\ write_errors' = write_errors + 1
    /\ UNCHANGED <<up, data, now, aof_selected_db, base, log, durable, syncing,
                   aof_bio_fsync_status, aof_child, crashes, rewrites, fsync_errors,
                   history>>

\* The thread of bio.c ends a job.  What was in the file when the job was queued is
\* safe; what has been written since need not be, as it may have come after fsync()
\* had begun (Crash may keep it all the same).
bioProcessBackgroundJobs(ok) ==
    /\ up
    /\ fsync_jobs # <<>>
    /\ ok \/ fsync_errors < MaxFsyncErrors
    /\ fsync_jobs' = Tail(fsync_jobs)
    /\ durable' = IF ok /\ Head(fsync_jobs) # FormerFile THEN Head(fsync_jobs) ELSE durable
    /\ aof_bio_fsync_status' = ok
    /\ fsync_errors' = IF ok THEN fsync_errors ELSE fsync_errors + 1
    /\ UNCHANGED <<up, data, now, aof_selected_db, base, log, written, aof_fsync_offset,
                   aof_last_write_status, aof_child, crashes, rewrites, write_errors, history>>

-----------------------------------------------------------------------------
(* Rewriting the file *)

ForkKeepingSelectedDb ==
    /\ up
    /\ aof_child = NoChild
    /\ rewrites < MaxRewrites
    /\ rewrites' = rewrites + 1
    /\ aof_child' = [saved |-> Dataset(dict, expires), from |-> Len(log)]
    /\ UNCHANGED <<up, data, now, aof_selected_db, file, syncing, status, crashes,
                   write_errors, fsync_errors, history>>

rewriteAppendOnlyFileBackground ==
    /\ up
    /\ aof_child = NoChild
    /\ rewrites < MaxRewrites
    /\ rewrites' = rewrites + 1
    /\ aof_child' = [saved |-> Dataset(dict, expires), from |-> Len(log)]
    /\ aof_selected_db' = -1
    /\ UNCHANGED <<up, data, now, file, syncing, status, crashes, write_errors, fsync_errors,
                   history>>

\* aof_rewrite_buf: the entries fed since the child was forked.
RewriteBuffer == SubSeq(log, aof_child.from + 1, Len(log))

\* The child has saved its data set; the buffer is appended and the file replaced.
backgroundRewriteDoneHandler ==
    LET at(n) == IF n < aof_child.from THEN 0 ELSE n - aof_child.from
        kept  == {Point(at(x.pos), x.dict) : x \in From(history, aof_child.from)}
    IN  /\ up
        /\ aof_child # NoChild
        /\ base' = aof_child.saved
        /\ log' = RewriteBuffer
        /\ written' = Size(log')
        /\ durable' = IF Fsync = "always" THEN written' ELSE 0
        /\ history' = IF Fsync = "always" THEN From(kept, Len(log')) ELSE kept
        /\ aof_fsync_offset' = written'
        /\ fsync_jobs' = [i \in DOMAIN fsync_jobs |-> FormerFile]
                         \o (IF Fsync = "everysec" THEN <<written'>> ELSE <<>>)
        /\ aof_selected_db' = -1
        /\ aof_child' = NoChild
        /\ UNCHANGED <<up, data, now, status, counters>>

\* The child fails or is killed, or its file cannot be completed or renamed.
RewriteFailed ==
    /\ up
    /\ aof_child # NoChild
    /\ aof_child' = NoChild
    /\ UNCHANGED <<up, data, now, aof_selected_db, file, syncing, status, counters, history>>

-----------------------------------------------------------------------------
(* Crashes and restarts *)

\* The server stops, perhaps in the middle of a write: the file ends at cut.  What
\* fsync() had not made safe can be lost when the machine stops as well.
Crash(cut, power) ==
    /\ up
    /\ crashes < MaxCrashes
    /\ cut >= (IF power THEN durable ELSE written)
    /\ up' = FALSE
    /\ log' = SubSeq(log, 1, (cut + 1) \div 2)
    /\ written' = cut
    /\ durable' = IF power THEN cut ELSE durable
    /\ history' = {x \in history : 2 * x.pos <= cut}
    /\ dict' = EmptyDataset.dict /\ expires' = EmptyDataset.expires
    /\ aof_selected_db' = -1
    /\ aof_fsync_offset' = 0 /\ fsync_jobs' = <<>>
    /\ aof_last_write_status' = TRUE /\ aof_bio_fsync_status' = TRUE
    /\ aof_child' = NoChild
    /\ crashes' = crashes + 1
    /\ UNCHANGED <<now, base, rewrites, write_errors, fsync_errors>>

\* The complete entries of the file.
InFile == SubSeq(log, 1, written \div 2)

\* The restart.  Offset 0 is the start of the file, where the base is: the offset is
\* not moved when the base has been read, so a file cut there loses it.
loadAppendOnlyFile ==
    LET f    == Load(base, InFile)
        torn == written % 2 = 1
        n    == ValidLength(f, torn)
    IN  /\ ~up
        /\ up' = TRUE
        /\ dict' = f.s.dict
        /\ expires' = f.s.expires
        /\ base' = IF n = 0 /\ (torn \/ f.multi) THEN EmptyDataset ELSE base
        /\ log' = SubSeq(log, 1, n)
        /\ written' = 2 * n
        /\ durable' = IF durable < 2 * n THEN durable ELSE 2 * n
        /\ aof_fsync_offset' = written'
        /\ UNCHANGED <<now, aof_selected_db, fsync_jobs, status, aof_child, counters, history>>

Next ==
    \/ Tick
    \/ \E u \in Units : Execute(u)
    \/ \E p \in Slot : activeExpireCycleTryExpire(p)
    \/ \E second \in BOOLEAN : flushAppendOnlyFile(second)
    \/ FsyncWhenIdle
    \/ \E n \in Cuts(0, Size(log)) : WriteError(n)
    \/ \E ok \in BOOLEAN : bioProcessBackgroundJobs(ok)
    \/ rewriteAppendOnlyFileBackground
    \/ backgroundRewriteDoneHandler
    \/ RewriteFailed
    \/ \E cut \in Cuts(durable, Size(log)), power \in BOOLEAN : Crash(cut, power)
    \/ loadAppendOnlyFile

Spec == Init /\ [][Next]_vars

\* beforeSleep() and serverCron() call flushAppendOnlyFile() again and again, at some
\* time in a new second, the threads of bio.c work off their queues, and a server
\* that is down is started again.
FairSpec ==
    /\ Spec
    /\ WF_vars(flushAppendOnlyFile(TRUE))
    /\ WF_vars(FsyncWhenIdle)
    /\ WF_vars(bioProcessBackgroundJobs(TRUE))
    /\ WF_vars(loadAppendOnlyFile)

-----------------------------------------------------------------------------
(* Properties *)

\* Every variable has its type, and the file is no longer than what was fed to it and
\* at least as long as what was synced.
TypeOK ==
    /\ {up, aof_last_write_status, aof_bio_fsync_status} \subseteq BOOLEAN
    /\ dict \in [Slot -> Val \cup {Absent}]
    /\ expires \in [Slot -> Nat \cup {NoExpire}]
    /\ aof_selected_db \in Db \cup {-1}
    /\ durable \in 0..written /\ written \in 0..(Size(log))
    /\ aof_fsync_offset \in 0..written
    /\ \A i \in DOMAIN fsync_jobs : fsync_jobs[i] \in {FormerFile} \cup durable..written
    /\ aof_child.from \in -1..Len(log)
    /\ \A x \in history : x.pos \in 0..Len(log)

\* Whatever has been run, fed, rewritten, cut and loaded, loading the log again gives
\* the data set of the server: the same values, and times to live that are as old as
\* the time that passed before the log was fed (feedAppendOnlyFile, MULTI and EXEC,
\* SELECT at the start of a rewrite buffer, loadAppendOnlyFile).
LogReplaysToData ==
    LET f == Load(base, log).s
    IN  up => /\ f.dict = dict
              /\ \A p \in Slot : f.expires[p] - expires[p] \in 0..Drift

\* Disk errors that stop do not stop the server from accepting writes for good
\* (writeCommandsDeniedByDiskError, flushAppendOnlyFile, bioProcessBackgroundJobs).
WritesResume == []<>(up /\ ~writeCommandsDeniedByDiskError)

\* What the file promises: a restart comes back with a data set that was current
\* between two units of work, and with "always" not with one that is older than the
\* last unit whose reply was sent.  Data is what the server holds or, while it is
\* down, what loadAppendOnlyFile() will make of the file.
Durable == INSTANCE DurableStore WITH
    data <- IF up THEN dict ELSE Load(base, InFile).s.dict,
    recoverable <- {x.dict : x \in history}

\* The append only file implements DurableStore: a whole transaction survives a crash
\* or none of it, an acknowledged one survives, and nothing comes back that a
\* restart has already lost (flushAppendOnlyFile, loadAppendOnlyFile and
\* backgroundRewriteDoneHandler between them).
RecoversSafely == Durable!Spec
=============================================================================
