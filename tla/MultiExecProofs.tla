-------------------------- MODULE MultiExecProofs --------------------------
(***************************************************************************)
(* Proofs about what EXEC runs and leaves behind: a transaction is         *)
(* executed whole or not at all, no mark of it stays with the client, and  *)
(* the stream of propagated commands is not left inside a MULTI.           *)
(***************************************************************************)
EXTENDS MultiProofs

\* Why a transaction is whole: a client whose transaction is not marked as failed has
\* queued all it has sent.  EXEC takes the commands off the queue of its client, who
\* is therefore left out while it runs.
QueueComplete ==
    \A c \in Client : in_exec # c /\ ~dirty_exec[c] => Len(queue[c]) = sent[c]

Marks == NoLeftoverMarks /\ StreamClosedWhenIdle /\ QueueComplete

\* Discarding a transaction (discardTransaction()) clears the marks of its client and
\* touches nobody else's.
LEMMA DiscardMarks ==
  ASSUME Safe, Marks, NEW c \in Client, discardTransaction(c), in_exec \in {Nobody, c}
  PROVE  NoLeftoverMarks' /\ QueueComplete'
<1>1. Len(<<>>) = 0
  OBVIOUS
<1>2. /\ queue'[c] = <<>> /\ sent'[c] = 0 /\ ~dirty_exec'[c] /\ ~dirty_cas'[c]
      /\ \A d \in Client : d # c =>
            /\ queue'[d] = queue[d] /\ sent'[d] = sent[d] /\ multi'[d] = multi[d]
            /\ dirty_exec'[d] = dirty_exec[d] /\ dirty_cas'[d] = dirty_cas[d]
            /\ client_watched'[d] = client_watched[d]
  BY DEF discardTransaction, unwatchAllKeys, Safe, TypeOK
<1>3. \A d \in Client : d # c => in_exec # d
  BY NobodyAssumption
<1>4. NoLeftoverMarks'
  BY <1>2 DEF Marks, NoLeftoverMarks
<1>5. QueueComplete'
  BY <1>1, <1>2, <1>3 DEF Marks, QueueComplete
<1> QED  BY <1>4, <1>5

\* Touching keys (touchWatchedKey()) marks only clients that watch something.
LEMMA TouchMarks ==
  ASSUME Safe, Marks, NEW ps, ps \subseteq Slot, touchWatchedKeys(ps),
         UNCHANGED <<multi, dirty_exec, tables>>
  PROVE  NoLeftoverMarks'
<1>1. SUFFICES ASSUME NEW c \in Client, dirty_cas'[c]
               PROVE  client_watched[c] # {}
  BY DEF Marks, NoLeftoverMarks, tables
<1>2. dirty_cas[c] \/ \E p \in ps : c \in watched_keys[p]
  BY <1>1, Zenon DEF touchWatchedKeys
<1> QED  BY <1>2 DEF Safe, WatchTablesMirror, Marks, NoLeftoverMarks

\* A step that leaves the marks, the queues and EXEC alone keeps Marks.
LEMMA FrameMarks ==
  ASSUME Marks, UNCHANGED <<dirty_exec, mstate, exec>>, NoLeftoverMarks'
  PROVE  Marks'
<1>1. StreamClosedWhenIdle'
  BY DEF Marks, StreamClosedWhenIdle, exec
<1>2. QueueComplete'
  BY DEF Marks, QueueComplete, mstate, exec
<1> QED  BY <1>1, <1>2 DEF Marks

\* A command runs outside a transaction, or a key is deleted between two commands.
LEMMA EffectMarks ==
  ASSUME Safe, Marks, NEW s, Faithful(s, dict, expires), ApplyEffect(s),
         UNCHANGED <<multi, dirty_exec, mstate, tables, exec>>
  PROVE  Marks'
<1>1. s.touched \subseteq Slot /\ touchWatchedKeys(s.touched)
  BY DEF Faithful, EffectType, ApplyEffect
<1>2. NoLeftoverMarks'
  BY <1>1, TouchMarks
<1> QED  BY <1>2, FrameMarks

\* The initial state has no marks.
LEMMA InitMarks == Init => Marks
<1> SUFFICES ASSUME Init PROVE Marks
  OBVIOUS
<1>1. Len(<<>>) = 0
  OBVIOUS
<1>2. QueueComplete
  BY <1>1 DEF Init, QueueComplete
<1>3. NoLeftoverMarks /\ StreamClosedWhenIdle
  BY DEF Init, NoLeftoverMarks, StreamClosedWhenIdle
<1> QED  BY <1>2, <1>3 DEF Marks

\* Commands that concern only the client, its disconnect and the refusal of EXEC.
LEMMA ClientMarks ==
  ASSUME Safe, Marks, NEW c \in Client,
         \/ multiCommand(c) \/ discardCommand(c) \/ unwatchCommand(c) \/ resetCommand(c)
         \/ freeClient(c) \/ execCommandAbort(c)
         \/ \E key \in Key : watchCommand(c, key)
         \/ \E id \in Db : selectCommand(c, id)
  PROVE  Marks'
<1>1. Idle /\ UNCHANGED exec
  BY Zenon DEF multiCommand, discardCommand, unwatchCommand, resetCommand, freeClient,
               execCommandAbort, watchCommand, selectCommand, CallClientCommand
<1>2. StreamClosedWhenIdle'
  BY <1>1 DEF Marks, StreamClosedWhenIdle, exec
<1>3. CASE discardTransaction(c)
  <2>1. in_exec \in {Nobody, c}
    BY <1>1 DEF Idle
  <2> QED  BY <1>2, <1>3, <2>1, DiscardMarks DEF Marks
<1>4. CASE multiCommand(c) \/ \E id \in Db : selectCommand(c, id)
  <2>1. UNCHANGED <<dirty_cas, dirty_exec, mstate, tables>> /\ \A d \in Client : multi[d] => multi'[d]
    BY <1>4 DEF multiCommand, selectCommand, Safe, TypeOK
  <2>2. NoLeftoverMarks'
    BY <2>1 DEF Marks, NoLeftoverMarks, tables
  <2> QED  BY <1>1, <2>1, <2>2, FrameMarks
<1>5. CASE unwatchCommand(c)
  <2>1. NoLeftoverMarks'
    BY <1>5 DEF unwatchCommand, unwatchAllKeys, Marks, NoLeftoverMarks, Safe, TypeOK
  <2> QED  BY <1>1, <1>5, <2>1, FrameMarks DEF unwatchCommand
<1>6. CASE \E key \in Key : watchCommand(c, key)
  <2>1. /\ UNCHANGED <<multi, dirty_cas, dirty_exec, mstate>>
        /\ \A d \in Client : client_watched[d] # {} => client_watched'[d] # {}
    BY <1>6 DEF watchCommand, watchForKey, Safe, TypeOK
  <2>2. NoLeftoverMarks'
    BY <2>1 DEF Marks, NoLeftoverMarks
  <2> QED  BY <1>1, <2>1, <2>2, FrameMarks
<1> QED  BY <1>3, <1>4, <1>5, <1>6, Zenon DEF discardCommand, resetCommand, freeClient,
            execCommandAbort

\* A command is queued or refused while a transaction is being built
\* (queueMultiCommand(), rejectCommand()).
LEMMA QueueMarks ==
  ASSUME Safe, Marks, NEW c \in Client,
         rejectCommand(c) \/ \E cmd \in Commands : queueMultiCommand(c, cmd)
  PROVE  Marks'
<1>1. /\ multi[c]
      /\ UNCHANGED <<multi, dirty_cas, client_watched, in_exec, propagate_in_transaction>>
  BY DEF rejectCommand, queueMultiCommand, tables, exec
<1>2. /\ \A d \in Client : d # c => dirty_exec'[d] = dirty_exec[d]
      /\ dirty_exec[c] => dirty_exec'[c]
  BY DEF rejectCommand, queueMultiCommand, Safe, TypeOK
<1>3. NoLeftoverMarks' /\ StreamClosedWhenIdle'
  BY <1>1, <1>2 DEF Marks, NoLeftoverMarks, StreamClosedWhenIdle
<1>4. \A d \in Client : d # c => queue'[d] = queue[d] /\ sent'[d] = sent[d]
  BY DEF rejectCommand, queueMultiCommand, Safe, TypeOK
<1>5. ~dirty_exec'[c] /\ in_exec # c => Len(queue'[c]) = sent'[c]
  <2>1. CASE rejectCommand(c)
    BY <2>1 DEF rejectCommand, Safe, TypeOK
  <2>2. ASSUME NEW cmd \in Commands, queueMultiCommand(c, cmd), ~dirty_exec'[c], in_exec # c
        PROVE  Len(queue'[c]) = sent'[c]
    <3>1. ~dirty_exec[c] /\ queue[c] \in Seq(Commands)
      BY <2>2 DEF queueMultiCommand, Safe, TypeOK
    <3>2. queue'[c] = Append(queue[c], cmd) /\ sent'[c] = sent[c] + 1
      BY <2>2, <3>1 DEF queueMultiCommand, Safe, TypeOK
    <3>3. Len(queue[c]) = sent[c]
      BY <2>2, <3>1 DEF Marks, QueueComplete
    <3> QED  BY <3>1, <3>2, <3>3
  <2> QED  BY <2>1, <2>2
<1>6. QueueComplete'
  BY <1>1, <1>2, <1>4, <1>5 DEF Marks, QueueComplete
<1> QED  BY <1>3, <1>6 DEF Marks

\* EXEC starts or gives up, runs or skips a command, and ends (execCommand()).
LEMMA ExecMarks ==
  ASSUME Safe, Marks, NEW c \in Client,
         execCommand(c) \/ ExecCall(c) \/ ExecDenied(c) \/ ExecDone(c)
  PROVE  Marks'
<1>1. CASE execCommand(c) /\ discardTransaction(c) /\ UNCHANGED in_exec
  <2>1. in_exec \in {Nobody, c} /\ UNCHANGED propagate_in_transaction
    BY <1>1 DEF execCommand, Idle
  <2>2. StreamClosedWhenIdle'
    BY <1>1, <2>1 DEF Marks, StreamClosedWhenIdle
  <2> QED  BY <1>1, <2>1, <2>2, DiscardMarks DEF Marks
<1>2. CASE /\ execCommand(c) /\ ~dirty_cas[c] /\ unwatchAllKeys(c) /\ in_exec' = c
           /\ UNCHANGED <<dirty_cas, dirty_exec, multi, mstate>>
  <2>1. in_exec = Nobody
    BY <1>2 DEF execCommand, Idle
  <2>2. \A d \in Client : d # c => client_watched'[d] = client_watched[d]
    BY <1>2 DEF unwatchAllKeys, Safe, TypeOK
  <2>3. NoLeftoverMarks'
    BY <1>2, <2>2 DEF Marks, NoLeftoverMarks
  <2>4. QueueComplete' /\ StreamClosedWhenIdle'
    BY <1>2, <2>1, NobodyAssumption DEF Marks, QueueComplete, StreamClosedWhenIdle, mstate
  <2> QED  BY <2>3, <2>4 DEF Marks
<1>3. execCommand(c) => Marks'
  BY <1>1, <1>2, Zenon DEF execCommand, StartOrAbort
<1>4. CASE ExecCall(c) \/ ExecDenied(c)
  <2>1. /\ in_exec = c /\ in_exec' = c
        /\ UNCHANGED <<dirty_exec, sent>>
        /\ \A d \in Client : d # c => queue'[d] = queue[d]
    BY <1>4, Zenon DEF ExecCall, ExecDenied, Safe, TypeOK, exec
  <2>2. QueueComplete' /\ StreamClosedWhenIdle'
    BY <2>1, NobodyAssumption DEF Marks, QueueComplete, StreamClosedWhenIdle
  <2>3. NoLeftoverMarks'
    <3>1. CASE ExecDenied(c)
      BY <3>1 DEF ExecDenied, Marks, NoLeftoverMarks, tables
    <3>2. CASE ExecCall(c)
      <4> DEFINE s == Proc(Effect(dict, expires), db[c], Head(queue[c]),
                           Clock(mstime, now, FALSE))
      <4>1. ApplyEffect(s) /\ queue[c] # <<>> /\ UNCHANGED <<multi, dirty_exec, tables>>
        BY <3>2, Zenon DEF ExecCall
      <4>2. Faithful(s, dict, expires)
        BY <4>1, ExecCallFaithful, Zenon
      <4> HIDE DEF s
      <4>3. s.touched \subseteq Slot /\ touchWatchedKeys(s.touched)
        BY <4>1, <4>2 DEF ApplyEffect, Faithful, EffectType
      <4> QED  BY <4>1, <4>3, TouchMarks, Zenon
    <3> QED  BY <1>4, <3>1, <3>2
  <2> QED  BY <2>2, <2>3 DEF Marks
<1>5. CASE ExecDone(c)
  <2>1. in_exec \in {Nobody, c} /\ StreamClosedWhenIdle'
    BY <1>5 DEF ExecDone, StreamClosedWhenIdle
  <2> QED  BY <1>5, <2>1, DiscardMarks DEF ExecDone, Marks
<1> QED  BY <1>3, <1>4, <1>5

\* Every step keeps Marks.
LEMMA NextMarks == Safe /\ Marks /\ [Next]_vars => Marks'
<1> SUFFICES ASSUME Safe, Marks, [Next]_vars PROVE Marks'
  OBVIOUS
<1>1. ASSUME NEW c \in Client, ClientStep(c) PROVE Marks'
  <2>1. ASSUME NEW cmd \in Commands, call(c, cmd) PROVE Marks'
    BY <2>1, CallFaithful, EffectMarks, Zenon DEF call
  <2> QED  BY <1>1, <2>1, ClientMarks, QueueMarks, ExecMarks, Zenon DEF ClientStep
<1>2. ASSUME NEW p \in Slot, activeExpireCycleTryExpire(p) \/ performEvictions(p)
      PROVE  Marks'
  <2> DEFINE s == DeleteAndPropagate(Effect(dict, expires), p)
  <2>1. Faithful(s, dict, expires)
    BY EffectFaithful, DeleteFaithful, Zenon DEF Safe, TypeOK, ExpiresInDict
  <2>2. ApplyEffect(s) /\ UNCHANGED <<multi, dirty_exec, mstate, tables, exec>>
    BY <1>2, Zenon DEF activeExpireCycleTryExpire, performEvictions
  <2> QED  BY <2>1, <2>2, EffectMarks, Zenon
<1>3. CASE Tick
  <2>1. NoLeftoverMarks'
    BY <1>3 DEF Tick, Marks, NoLeftoverMarks, tables
  <2> QED  BY <1>3, <2>1, FrameMarks DEF Tick
<1>4. CASE UNCHANGED vars
  <2>1. NoLeftoverMarks'
    BY <1>4 DEF vars, Marks, NoLeftoverMarks, tables
  <2> QED  BY <1>4, <2>1, FrameMarks DEF vars
<1> QED  BY <1>1, <1>2, <1>3, <1>4 DEF Next, ServerStep

-----------------------------------------------------------------------------
\* The second inductive invariant, on top of Safe.
THEOREM MarksHold == Spec => []Marks
BY InitMarks, NextMarks, Safety, PTL DEF Spec

\* A client that watches nothing and is in no transaction carries no mark of an
\* earlier one (discardTransaction(), unwatchCommand()).
THEOREM MarksAreCleared == Spec => []NoLeftoverMarks
BY MarksHold, PTL DEF Marks

\* The stream that goes to the log and the replicas is inside a MULTI only while an
\* EXEC runs (propagate(), execCommand()).
THEOREM StreamCloses == Spec => []StreamClosedWhenIdle
BY MarksHold, PTL DEF Marks

\* A transaction that starts holds every command its client sent since MULTI, for any
\* number of clients and any length of the queue (queueMultiCommand(), execCommand()).
THEOREM TransactionsAreWhole == Spec => AllOrNothing
<1>1. Safe /\ Marks /\ [Next]_vars =>
        [\A c \in Client : in_exec' = c /\ in_exec # c => Len(queue[c]) = sent[c]]_vars
  <2> SUFFICES ASSUME Safe, Marks, Next, NEW c \in Client, in_exec' = c, in_exec # c
               PROVE  Len(queue[c]) = sent[c]
    OBVIOUS
  <2>1. execCommand(c)
    BY OnlyExecStarts
  <2>2. ~dirty_exec[c]
    BY <2>1, Zenon DEF execCommand, StartOrAbort
  <2> QED  BY <2>2 DEF Marks, QueueComplete
<1> QED  BY <1>1, MarksHold, Safety, PTL DEF Spec, AllOrNothing
=============================================================================
