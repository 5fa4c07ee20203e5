----------------------------- MODULE MultiProofs -----------------------------
(***************************************************************************)
(* Theorems about Multi.tla, for any set of clients, keys, databases and   *)
(* commands.  The inductive invariant is Safe; ExecStartsFresh follows     *)
(* from it.                                                                *)
(***************************************************************************)
EXTENDS Multi, KeyspaceProofs

\* The inductive invariant.  That stale clients are dirty is preserved only because
\* the WATCH tables mirror each other (a client that watches a slot is found in its
\* list) and because commands signal what they change, which for SWAPDB needs that
\* no expire is left without its key.
Safe == TypeOK /\ WatchTablesMirror /\ ExpiresInDict /\ StaleIsDirty

\* Running a command, for a client or inside EXEC: types are kept, and whoever
\* watches a slot that changed is dirty afterwards.
LEMMA ApplyEffectSafe ==
  ASSUME Safe, NEW s, Faithful(s, dict, expires), ApplyEffect(s)
  PROVE  /\ dict' \in [Slot -> Val \cup {Absent}]
         /\ expires' \in [Slot -> Int]
         /\ ExpiresInDict'
         /\ dirty_cas' \in [Client -> BOOLEAN]
         /\ \A c \in Client : dirty_cas[c] => dirty_cas'[c]
         /\ \A c \in Client : (\E p \in client_watched[c] : Changed(p)) => dirty_cas'[c]
<1>1. /\ dict' \in [Slot -> Val \cup {Absent}]
      /\ expires' \in [Slot -> Int]
      /\ ExpiresInDict'
  BY DEF ApplyEffect, Faithful, EffectType, ExpiresInDict
<1>2. \A c \in Client : dirty_cas'[c] = (dirty_cas[c] \/ \E p \in s.touched : c \in watched_keys[p])
  BY DEF ApplyEffect, touchWatchedKeys
<1>3. dirty_cas' \in [Client -> BOOLEAN]
  BY Zenon DEF ApplyEffect, touchWatchedKeys
<1>4. ASSUME NEW c \in Client, NEW p \in client_watched[c], Changed(p)
      PROVE  dirty_cas'[c]
  <2>1. p \in Slot /\ c \in watched_keys[p]
    BY <1>4 DEF Safe, TypeOK, WatchTablesMirror
  <2>2. p \in s.touched
    BY <1>4, <2>1 DEF Changed, ApplyEffect, Faithful
  <2> QED  BY <1>2, <2>1, <2>2, Zenon
<1> QED  BY <1>1, <1>2, <1>3, <1>4

\* Forgetting the keys of one client keeps the two WATCH tables in step.
LEMMA UnwatchMirror ==
  ASSUME Safe, NEW c \in Client, unwatchAllKeys(c)
  PROVE  /\ client_watched' \in [Client -> SUBSET Slot]
         /\ watched_keys' \in [Slot -> SUBSET Client]
         /\ WatchTablesMirror'
         /\ client_watched'[c] = {}
         /\ \A x \in Client : x # c => client_watched'[x] = client_watched[x]
BY DEF Safe, TypeOK, WatchTablesMirror, unwatchAllKeys

\* If the data set does not change, a client is stale afterwards only if it was
\* stale before and still watches something.
LEMMA StaleFrame ==
  ASSUME Safe, RecordStale, UNCHANGED data
  PROVE  /\ stale' \in [Client -> BOOLEAN]
         /\ \A c \in Client : stale'[c] => stale[c] /\ client_watched'[c] # {}
BY Zenon DEF RecordStale, Changed, data

\* Discarding the transaction of one client keeps Safe.
LEMMA DiscardSafe ==
  ASSUME Safe, NEW c \in Client, discardTransaction(c), RecordStale, UNCHANGED data,
         db' \in [Client -> Db], now' = now, mstime' \in {mstime, now},
         in_exec' \in Client \cup {Nobody}, propagate_in_transaction' \in BOOLEAN
  PROVE  Safe'
<1>1. /\ client_watched' \in [Client -> SUBSET Slot]
      /\ watched_keys' \in [Slot -> SUBSET Client]
      /\ WatchTablesMirror'
      /\ client_watched'[c] = {}
  BY UnwatchMirror DEF discardTransaction
<1>2. /\ stale' \in [Client -> BOOLEAN]
      /\ \A x \in Client : stale'[x] => stale[x] /\ client_watched'[x] # {}
  BY StaleFrame
<1>3. StaleIsDirty'
  BY <1>1, <1>2 DEF Safe, TypeOK, StaleIsDirty, discardTransaction
<1>4. ExpiresInDict'
  BY DEF Safe, ExpiresInDict, data
<1>5. TypeOK'
  <2>1. queue' \in [Client -> Seq(Commands)]
    BY DEF Safe, TypeOK, discardTransaction
  <2>2. sent' \in [Client -> 0..MaxQueue]
    BY BoundsAssumption DEF Safe, TypeOK, discardTransaction
  <2>3. /\ multi' \in [Client -> BOOLEAN]
        /\ dirty_cas' \in [Client -> BOOLEAN]
        /\ dirty_exec' \in [Client -> BOOLEAN]
    BY DEF Safe, TypeOK, discardTransaction
  <2>4. now' \in 0..MaxTime /\ mstime' \in 0..MaxTime
    BY DEF Safe, TypeOK
  <2>5. dict' \in [Slot -> Val \cup {Absent}] /\ expires' \in [Slot -> Int]
    BY DEF Safe, TypeOK, data
  <2> QED  BY <1>1, <1>2, <2>1, <2>2, <2>3, <2>4, <2>5 DEF TypeOK
<1> QED  BY <1>1, <1>3, <1>4, <1>5 DEF Safe

\* Running a command keeps Safe, whatever it does to the client that runs it.
LEMMA CallSafe ==
  ASSUME Safe, NEW s, Faithful(s, dict, expires), ApplyEffect(s), RecordStale,
         UNCHANGED <<now, multi, dirty_exec, sent, tables, in_exec>>,
         db' \in [Client -> Db], mstime' \in {mstime, now},
         queue' \in [Client -> Seq(Commands)], propagate_in_transaction' \in BOOLEAN
  PROVE  Safe'
<1>1. /\ dict' \in [Slot -> Val \cup {Absent}]
      /\ expires' \in [Slot -> Int]
      /\ ExpiresInDict'
      /\ dirty_cas' \in [Client -> BOOLEAN]
      /\ \A c \in Client : dirty_cas[c] => dirty_cas'[c]
      /\ \A c \in Client : (\E p \in client_watched[c] : Changed(p)) => dirty_cas'[c]
  BY ApplyEffectSafe
<1>2. WatchTablesMirror'
  BY DEF Safe, WatchTablesMirror, tables
<1>3. stale' \in [Client -> BOOLEAN]
  BY Zenon DEF RecordStale
<1>4. \A c \in Client : stale'[c] => stale[c] \/ \E p \in client_watched[c] : Changed(p)
  BY DEF RecordStale
<1>5. StaleIsDirty'
  BY <1>1, <1>4 DEF Safe, StaleIsDirty
<1>6. TypeOK'
  BY <1>1, <1>3, BoundsAssumption DEF Safe, TypeOK, tables
<1> QED  BY <1>1, <1>2, <1>5, <1>6 DEF Safe

\* A step that changes neither the data set nor the WATCH tables nor the marks of
\* WATCH keeps Safe if it keeps the types.
LEMMA QuietSafe ==
  ASSUME Safe, RecordStale, UNCHANGED <<data, dirty_cas, tables, in_exec>>,
         propagate_in_transaction' \in BOOLEAN,
         now' \in 0..MaxTime, mstime' \in 0..MaxTime, db' \in [Client -> Db],
         multi' \in [Client -> BOOLEAN], dirty_exec' \in [Client -> BOOLEAN],
         queue' \in [Client -> Seq(Commands)], sent' \in [Client -> 0..MaxQueue]
  PROVE  Safe'
<1>1. /\ stale' \in [Client -> BOOLEAN]
      /\ \A c \in Client : stale'[c] => stale[c]
  BY StaleFrame
<1>2. StaleIsDirty' /\ WatchTablesMirror' /\ ExpiresInDict'
  BY <1>1 DEF Safe, StaleIsDirty, WatchTablesMirror, ExpiresInDict, data, tables
<1>3. TypeOK'
  BY <1>1 DEF Safe, TypeOK, data, tables
<1> QED  BY <1>2, <1>3 DEF Safe

-----------------------------------------------------------------------------
\* The initial state is safe.
LEMMA InitSafe == Init => Safe
<1> SUFFICES ASSUME Init PROVE Safe
  OBVIOUS
<1>1. /\ dict \in [Slot -> Val \cup {Absent}]
      /\ expires \in [Slot -> Int]
      /\ now \in 0..MaxTime /\ mstime \in 0..MaxTime
      /\ db \in [Client -> Db]
      /\ sent \in [Client -> 0..MaxQueue]
  BY DbAssumption, BoundsAssumption DEF Init, Absent, NoExpire
<1>2. queue \in [Client -> Seq(Commands)]
  BY DEF Init
<1>3. TypeOK
  BY <1>1, <1>2, Zenon DEF Init, TypeOK
<1>4. WatchTablesMirror /\ ExpiresInDict /\ StaleIsDirty
  BY DEF Init, WatchTablesMirror, ExpiresInDict, StaleIsDirty
<1> QED  BY <1>3, <1>4 DEF Safe

\* A command that is called, or taken from the queue by EXEC, is faithful to the data
\* set, by the clock it sees (call(), execCommand()).
LEMMA CallFaithful ==
  ASSUME Safe, NEW c \in Client, NEW cmd \in Commands
  PROVE  Faithful(Proc(Effect(dict, expires), db[c], cmd, Clock(now, now, FALSE)),
                  dict, expires)
<1>1. ClockType(Clock(now, now, FALSE))
  BY BoundsAssumption DEF ClockType, Clock, Safe, TypeOK
<1> QED  BY <1>1, ProcFaithful, CommandsAssumption, Zenon DEF Safe, TypeOK, ExpiresInDict

\* The same for the command at the head of the queue, by the time cached by EXEC.
LEMMA ExecCallFaithful ==
  ASSUME Safe, NEW c \in Client, queue[c] # <<>>
  PROVE  Faithful(Proc(Effect(dict, expires), db[c], Head(queue[c]),
                       Clock(mstime, now, FALSE)), dict, expires)
<1>1. ClockType(Clock(mstime, now, FALSE))
  BY BoundsAssumption DEF ClockType, Clock, Safe, TypeOK
<1>2. Head(queue[c]) \in Command
  BY CommandsAssumption DEF Safe, TypeOK
<1> QED  BY <1>1, <1>2, ProcFaithful, Zenon DEF Safe, TypeOK, ExpiresInDict

\* Every step of a client keeps Safe.
LEMMA ClientStepSafe ==
  ASSUME Safe, NEW c \in Client, ClientStep(c), RecordStale
  PROVE  Safe'
<1> USE DEF Safe
<1>1. CASE multiCommand(c)
  <2>1. multi' \in [Client -> BOOLEAN] /\ mstime' \in 0..MaxTime
    BY <1>1 DEF multiCommand, CallClientCommand, TypeOK
  <2> QED  BY <1>1, <2>1, QuietSafe
           DEF multiCommand, CallClientCommand, TypeOK, exec, mstate
<1>2. CASE discardCommand(c)
  BY <1>2, DiscardSafe DEF discardCommand, CallClientCommand, TypeOK, exec
<1>3. ASSUME NEW key \in Key, watchCommand(c, key)
      PROVE  Safe'
  <2>1. <<db[c], key>> \in Slot
    BY DEF TypeOK, Slot
  <2>2. /\ client_watched' \in [Client -> SUBSET Slot]
        /\ watched_keys' \in [Slot -> SUBSET Client]
        /\ WatchTablesMirror'
    BY <1>3, <2>1, Zenon DEF watchCommand, watchForKey, TypeOK, WatchTablesMirror
  <2>3. /\ stale' \in [Client -> BOOLEAN]
        /\ \A x \in Client : stale'[x] => stale[x]
    BY <1>3, StaleFrame DEF watchCommand, CallClientCommand
  <2>4. StaleIsDirty' /\ ExpiresInDict'
    BY <1>3, <2>3 DEF watchCommand, CallClientCommand, StaleIsDirty, ExpiresInDict, data
  <2>5. TypeOK'
    BY <1>3, <2>2, <2>3 DEF watchCommand, CallClientCommand, TypeOK, data, exec, mstate
  <2> QED  BY <2>2, <2>4, <2>5
<1>4. CASE unwatchCommand(c)
  <2>1. /\ client_watched' \in [Client -> SUBSET Slot]
        /\ watched_keys' \in [Slot -> SUBSET Client]
        /\ WatchTablesMirror'
        /\ client_watched'[c] = {}
    BY <1>4, UnwatchMirror DEF unwatchCommand
  <2>2. /\ stale' \in [Client -> BOOLEAN]
        /\ \A x \in Client : stale'[x] => stale[x] /\ client_watched'[x] # {}
    BY <1>4, StaleFrame DEF unwatchCommand, CallClientCommand
  <2>3. dirty_cas' \in [Client -> BOOLEAN]
    BY <1>4 DEF unwatchCommand, TypeOK
  <2>4. StaleIsDirty' /\ ExpiresInDict'
    BY <1>4, <2>1, <2>2
    DEF unwatchCommand, CallClientCommand, TypeOK, StaleIsDirty, ExpiresInDict, data
  <2>5. TypeOK'
    BY <1>4, <2>1, <2>2, <2>3
    DEF unwatchCommand, CallClientCommand, TypeOK, data, exec, mstate
  <2> QED  BY <2>1, <2>4, <2>5
<1>5. ASSUME NEW id \in Db, selectCommand(c, id)
      PROVE  Safe'
  <2>1. db' \in [Client -> Db] /\ mstime' \in 0..MaxTime
    BY <1>5 DEF selectCommand, CallClientCommand, TypeOK
  <2> QED  BY <1>5, <2>1, QuietSafe
           DEF selectCommand, CallClientCommand, TypeOK, exec, mstate
<1>6. CASE resetCommand(c)
  <2>1. db' \in [Client -> Db]
    BY <1>6, DbAssumption DEF resetCommand, TypeOK
  <2> QED  BY <1>6, <2>1, DiscardSafe DEF resetCommand, CallClientCommand, TypeOK, exec
<1>7. CASE freeClient(c)
  <2>1. db' \in [Client -> Db]
    BY <1>7, DbAssumption DEF freeClient, TypeOK
  <2> QED  BY <1>7, <2>1, DiscardSafe DEF freeClient, TypeOK, clocks, exec
<1>8. ASSUME NEW cmd \in Commands, queueMultiCommand(c, cmd)
      PROVE  Safe'
  <2>1. queue' \in [Client -> Seq(Commands)]
    BY <1>8 DEF queueMultiCommand, TypeOK
  <2>2. sent' \in [Client -> 0..MaxQueue]
    BY <1>8, BoundsAssumption DEF queueMultiCommand, TypeOK
  <2> QED  BY <1>8, <2>1, <2>2, QuietSafe DEF queueMultiCommand, TypeOK, clocks, exec
<1>9. CASE rejectCommand(c)
  <2>1. sent' \in [Client -> 0..MaxQueue] /\ dirty_exec' \in [Client -> BOOLEAN]
    BY <1>9, BoundsAssumption DEF rejectCommand, TypeOK
  <2> QED  BY <1>9, <2>1, QuietSafe DEF rejectCommand, TypeOK, clocks, exec
<1>10. CASE execCommandAbort(c)
  BY <1>10, DiscardSafe, Zenon DEF execCommandAbort, TypeOK, clocks, exec
<1>11. ASSUME NEW cmd \in Commands, call(c, cmd)
       PROVE  Safe'
  BY <1>11, CallFaithful, CallSafe, Zenon DEF call, TypeOK, mstate, exec
<1>12. CASE execCommand(c)
  <2>1. CASE discardTransaction(c) /\ UNCHANGED in_exec
    BY <1>12, <2>1, DiscardSafe DEF execCommand, TypeOK
  <2>2. CASE /\ unwatchAllKeys(c)
             /\ in_exec' = c
             /\ UNCHANGED <<dirty_cas, dirty_exec, multi, mstate>>
    <3>1. /\ client_watched' \in [Client -> SUBSET Slot]
          /\ watched_keys' \in [Slot -> SUBSET Client]
          /\ WatchTablesMirror'
      BY <2>2, UnwatchMirror
    <3>2. /\ stale' \in [Client -> BOOLEAN]
          /\ \A x \in Client : stale'[x] => stale[x]
      BY <1>12, StaleFrame DEF execCommand
    <3>3. StaleIsDirty' /\ ExpiresInDict'
      BY <1>12, <2>2, <3>2 DEF execCommand, StaleIsDirty, ExpiresInDict, data
    <3>4. TypeOK'
      BY <1>12, <2>2, <3>1, <3>2 DEF execCommand, TypeOK, data, mstate
    <3> QED  BY <3>1, <3>3, <3>4
  <2> QED  BY <1>12, <2>1, <2>2, Zenon DEF execCommand, StartOrAbort
<1>13. CASE ExecCall(c)
  <2> DEFINE cmd == Head(queue[c])
  <2>1. queue[c] \in Seq(Commands) /\ queue[c] # <<>> /\ cmd \in Command
    BY <1>13, CommandsAssumption DEF ExecCall, TypeOK
  <2>2. queue' \in [Client -> Seq(Commands)]
    BY <1>13, <2>1 DEF ExecCall, TypeOK
  <2>3. db' \in [Client -> Db]
    <3>1. cmd.op = "select" => cmd.id \in Db
      BY <2>1 DEF Command
    <3> QED  BY <1>13, <3>1 DEF ExecCall, TypeOK
  <2>4. propagate_in_transaction' \in BOOLEAN
    BY <1>13, Zenon DEF ExecCall, PropagateInExec
  <2> QED  BY <1>13, <2>2, <2>3, <2>4, ExecCallFaithful, CallSafe, Zenon DEF ExecCall, clocks
<1>14. CASE ExecDenied(c)
  <2>1. queue' \in [Client -> Seq(Commands)]
    BY <1>14 DEF ExecDenied, TypeOK
  <2> QED  BY <1>14, <2>1, QuietSafe DEF ExecDenied, TypeOK, clocks, exec
<1>15. CASE ExecDone(c)
  BY <1>15, DiscardSafe, Zenon DEF ExecDone, TypeOK, clocks
<1> QED  BY <1>1, <1>2, <1>3, <1>4, <1>5, <1>6, <1>7, <1>8, <1>9, <1>10, <1>11, <1>12,
            <1>13, <1>14, <1>15 DEF ClientStep

\* Every step of the server keeps Safe.
LEMMA NextSafe == Safe /\ [Next]_vars => Safe'
<1> SUFFICES ASSUME Safe, [Next]_vars PROVE Safe'
  OBVIOUS
<1>1. ASSUME NEW c \in Client, ClientStep(c), RecordStale
      PROVE  Safe'
  BY <1>1, ClientStepSafe
<1>2. ASSUME NEW p \in Slot, activeExpireCycleTryExpire(p) \/ performEvictions(p), RecordStale
      PROVE  Safe'
  <2> DEFINE s == DeleteAndPropagate(Effect(dict, expires), p)
  <2>1. Faithful(s, dict, expires)
    BY EffectFaithful, DeleteFaithful, Zenon DEF Safe, TypeOK, ExpiresInDict
  <2>2. /\ ApplyEffect(s)
        /\ UNCHANGED <<clocks, db, multi, dirty_exec, mstate, tables, exec>>
    BY <1>2, Zenon DEF activeExpireCycleTryExpire, performEvictions
  <2> QED  BY <1>2, <2>1, <2>2, CallSafe, Zenon DEF Safe, TypeOK, clocks, mstate, exec
<1>3. CASE Tick /\ RecordStale
  <2>1. now' \in 0..MaxTime
    BY <1>3, BoundsAssumption DEF Tick, Safe, TypeOK
  <2> QED  BY <1>3, <2>1, QuietSafe DEF Tick, Safe, TypeOK, mstate, exec
<1>4. CASE UNCHANGED vars
  <2>1. TypeOK'
    BY <1>4 DEF Safe, TypeOK, vars, data, clocks, tables, mstate, exec
  <2>2. WatchTablesMirror' /\ ExpiresInDict' /\ StaleIsDirty'
    BY <1>4 DEF Safe, WatchTablesMirror, ExpiresInDict, StaleIsDirty, vars, data, tables
  <2> QED  BY <2>1, <2>2 DEF Safe
<1> QED  BY <1>1, <1>2, <1>3, <1>4 DEF Next, ServerStep

-----------------------------------------------------------------------------
\* The inductive invariant holds in every reachable state of the server.
THEOREM Safety == Spec => []Safe
BY InitSafe, NextSafe, PTL DEF Spec

\* The fields of the clients and of the databases keep their types; an integer
\* value never exceeds the largest one (incrDecrCommand()).
THEOREM TypeCorrect == Spec => []TypeOK
BY Safety, PTL DEF Safe

\* The client's list of watched keys and the keys' lists of clients always agree,
\* whatever connects, disconnects, watches, unwatches or runs EXEC (multi.c).
THEOREM TablesMirror == Spec => []WatchTablesMirror
BY Safety, PTL DEF Safe

\* No volatile key is missing from the main dictionary (getExpire()).
THEOREM VolatileKeysExist == Spec => []ExpiresInDict
BY Safety, PTL DEF Safe

\* Whoever changes a watched key, the client that watches it is marked.
THEOREM ChangesAreNoticed == Spec => []StaleIsDirty
BY Safety, PTL DEF Safe

\* A transaction starts only in execCommand(), with the checks it makes.
LEMMA OnlyExecStarts ==
  ASSUME Next, NEW c \in Client, in_exec' = c, in_exec # c
  PROVE  execCommand(c)
<1>1. in_exec' # in_exec /\ in_exec' # Nobody
  BY NobodyAssumption
<1>2. ~ServerStep
  BY <1>1, Zenon DEF ServerStep, activeExpireCycleTryExpire, performEvictions, Tick, exec
<1>3. PICK d \in Client : ClientStep(d)
  BY <1>2 DEF Next
<1>4. /\ ~multiCommand(d) /\ ~discardCommand(d) /\ ~unwatchCommand(d) /\ ~resetCommand(d)
      /\ \A key \in Key : ~watchCommand(d, key)
      /\ \A id \in Db : ~selectCommand(d, id)
  BY <1>1 DEF multiCommand, discardCommand, unwatchCommand, resetCommand, watchCommand,
              selectCommand, CallClientCommand, exec
<1>5. /\ ~freeClient(d) /\ ~rejectCommand(d) /\ ~execCommandAbort(d)
      /\ \A cmd \in Commands : ~queueMultiCommand(d, cmd) /\ ~call(d, cmd)
  BY <1>1, Zenon DEF freeClient, rejectCommand, execCommandAbort, queueMultiCommand, call, exec
<1>6. ~ExecCall(d) /\ ~ExecDenied(d) /\ ~ExecDone(d)
  BY <1>1, Zenon DEF ExecCall, ExecDenied, ExecDone, exec
<1>7. execCommand(d)
  BY <1>3, <1>4, <1>5, <1>6, Zenon DEF ClientStep
<1> QED  BY <1>1, <1>7, Zenon DEF execCommand, StartOrAbort

\* Optimistic locking is sound for any number of clients, keys and databases: EXEC
\* starts a transaction only if no watched key has changed or expired.
THEOREM OptimisticLocking == Spec => ExecStartsFresh
<1> DEFINE Fresh == \A c \in Client : in_exec' = c /\ in_exec # c =>
                      /\ ~stale[c]
                      /\ \A p \in client_watched[c] :
                            expires[p] = NoExpire \/ now <= expires[p]
<1>1. Safe /\ [Next]_vars => [Fresh]_vars
  <2> SUFFICES ASSUME Safe, Next, NEW c \in Client, in_exec' = c, in_exec # c
               PROVE  /\ ~stale[c]
                      /\ \A p \in client_watched[c] :
                            expires[p] = NoExpire \/ now <= expires[p]
    OBVIOUS
  <2>1. execCommand(c)
    BY OnlyExecStarts
  <2>2. ~dirty_cas[c] /\ ~isWatchedKeyExpired(c, Clock(now, now, FALSE))
    BY <2>1, NobodyAssumption, Zenon DEF execCommand, StartOrAbort
  <2>3. ~stale[c]
    BY <2>2 DEF Safe, StaleIsDirty
  <2>4. ASSUME NEW p \in client_watched[c], expires[p] # NoExpire
        PROVE  now <= expires[p]
    BY <2>2, <2>4 DEF isWatchedKeyExpired, keyIsExpired, Clock, Safe, TypeOK
  <2> QED  BY <2>3, <2>4
<1> QED  BY <1>1, Safety, PTL DEF Spec, ExecStartsFresh
=============================================================================
