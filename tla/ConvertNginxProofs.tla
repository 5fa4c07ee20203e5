------------------------- MODULE ConvertNginxProofs -------------------------
(***************************************************************************)
(* Proofs about convertNGINX.php for every set of concurrent runs and      *)
(* every log file.                                                         *)
(***************************************************************************)
EXTENDS ConvertNginx, TLAPS

\* json_encode and json_decode stay within the values the variables hold.
LEMMA CodecTypes ==
  ASSUME NEW n \in Nat
  PROVE  /\ Encode(n) \in Fields \cup {Blank}
         /\ Encode(n) # Null
         /\ Decode(Encode(n)) \in Fields \cup {Null}
         /\ n > Len(Log) => Decode(Encode(n)) = EmptyFields
  BY LogAssumption DEF Encode, Decode, Parse, Line, Fields, Null, Blank, EmptyFields

\* The type invariant of convertNGINX.php's loop (lines 15-83).
THEOREM TypeCorrect == Spec => []TypeOK
<1> USE DEF TypeOK, Location, local
<1>1. Init => TypeOK
  BY DEF Init, Null, Absent
<1>2. TypeOK /\ [Next]_vars => TypeOK'
  <2> SUFFICES ASSUME TypeOK, [Next]_vars PROVE TypeOK'
    OBVIOUS
  <2>1. ASSUME NEW r \in Run, Open(r) PROVE TypeOK'
    BY <2>1 DEF Open
  <2>2. ASSUME NEW r \in Run, SetJson(r) PROVE TypeOK'
    <3>1. line' \in [Run -> Nat] /\ line'[r] \in Nat
      BY <2>2, LogAssumption DEF SetJson
    <3>2. (fn[r] /\ MeetsEof(line'[r])) \in BOOLEAN
      BY DEF MeetsEof
    <3>3. json' \in Fields \cup {Blank}
      BY <2>2, <3>1, CodecTypes DEF SetJson
    <3>4. between' \in [Run -> SUBSET (Fields \cup {Null, Blank})]
      BY <2>2, <3>3 DEF SetJson, Notice
    <3> QED BY <2>2, <3>1, <3>2, <3>3, <3>4 DEF SetJson
  <2>3. ASSUME NEW r \in Run, GetJson(r) PROVE TypeOK'
    BY <2>3 DEF GetJson, Decode, Blank, Null
  <2>4. ASSUME NEW r \in Run, IndexDoc(r) PROVE TypeOK'
    BY <2>4 DEF IndexDoc
  <2>5. ASSUME NEW r \in Run, DelJson(r) PROVE TypeOK'
    <3>1. between' \in [Run -> SUBSET (Fields \cup {Null, Blank})]
      BY <2>5 DEF DelJson, Notice
    <3> QED BY <2>5, <3>1 DEF DelJson
  <2>6. ASSUME NEW r \in Run, Finish(r) PROVE TypeOK'
    BY <2>6 DEF Finish
  <2>7. ASSUME NEW r \in Run, Abort(r) PROVE TypeOK'
    BY <2>7 DEF Abort
  <2>8. CASE UNCHANGED vars
    BY <2>8 DEF vars
  <2> QED BY <2>1, <2>2, <2>3, <2>4, <2>5, <2>6, <2>7, <2>8 DEF Next, Step
<1> QED BY <1>1, <1>2, PTL DEF Spec

\* Runs that end normally leave no key behind (convertNGINX.php:82).
THEOREM KeyHeld == Spec => []KeyHeldByARun
<1> USE DEF KeyHeldByARun
<1>1. Init => KeyHeldByARun
  BY DEF Init
<1>2. TypeOK /\ KeyHeldByARun /\ [Next]_vars => KeyHeldByARun'
  <2> SUFFICES ASSUME TypeOK, KeyHeldByARun, [Next]_vars PROVE KeyHeldByARun'
    OBVIOUS
  <2>1. ASSUME NEW r \in Run, Open(r) PROVE KeyHeldByARun'
    BY <2>1 DEF Open, TypeOK
  <2>2. ASSUME NEW r \in Run, SetJson(r) PROVE KeyHeldByARun'
    BY <2>2 DEF SetJson, TypeOK
  <2>3. ASSUME NEW r \in Run, GetJson(r) PROVE KeyHeldByARun'
    BY <2>3 DEF GetJson, TypeOK
  <2>4. ASSUME NEW r \in Run, IndexDoc(r) PROVE KeyHeldByARun'
    BY <2>4 DEF IndexDoc, TypeOK
  <2>5. ASSUME NEW r \in Run, DelJson(r) PROVE KeyHeldByARun'
    BY <2>5 DEF DelJson
  <2>6. ASSUME NEW r \in Run, Finish(r) PROVE KeyHeldByARun'
    BY <2>6 DEF Finish, TypeOK
  <2>7. ASSUME NEW r \in Run, Abort(r) PROVE KeyHeldByARun'
    BY <2>7 DEF Abort, TypeOK
  <2>8. CASE UNCHANGED vars
    BY <2>8 DEF vars
  <2> QED BY <2>1, <2>2, <2>3, <2>4, <2>5, <2>6, <2>7, <2>8 DEF Next, Step
<1> QED BY <1>1, <1>2, TypeCorrect, PTL DEF Spec

-----------------------------------------------------------------------------
(* What a run reads back *)

\* What the key may hold when run r gets it: its own line, or what others have left
\* there since.
Held(r) == between[r] \cup {Encode(line[r])}

\* The key holds one of these while the run is about to get it, and $decode is one of
\* them decoded after that.  The second part alone is not inductive.
ReadsHeld ==
  /\ \A r \in Run : pc[r] = "get" => json \in Held(r)
  /\ \A r \in Decoded : \E v \in Held(r) : decode[r] = Decode(v)

\* Steps between SET and GET that leave the key to others (convertNGINX.php:36-82).
LEMMA ReadsHeldInvariant == Spec => []ReadsHeld
<1> USE DEF ReadsHeld, Decoded, Held
<1>1. Init => ReadsHeld
  BY DEF Init
<1>2. TypeOK /\ ReadsHeld /\ [Next]_vars => ReadsHeld'
  <2> SUFFICES ASSUME TypeOK, ReadsHeld, [Next]_vars PROVE ReadsHeld'
    OBVIOUS
  <2> USE DEF TypeOK, local
  <2>1. ASSUME NEW r \in Run, Open(r) PROVE ReadsHeld'
    BY <2>1 DEF Open
  <2>2. ASSUME NEW r \in Run, SetJson(r) PROVE ReadsHeld'
    <3>1. pc'[r] = "get" /\ json' = Encode(line'[r])
      BY <2>2 DEF SetJson
    <3>2. ASSUME NEW q \in Run, q # r
          PROVE  /\ pc'[q] = pc[q]
                 /\ line'[q] = line[q]
                 /\ decode'[q] = decode[q]
                 /\ between[q] \subseteq between'[q]
                 /\ pc[q] = "get" => json' \in between'[q]
      BY <2>2, <3>2 DEF SetJson, Notice
    <3>3. ASSUME NEW q \in Run, pc'[q] = "get" PROVE json' \in Held(q)'
      BY <3>1, <3>2, <3>3
    <3>4. ASSUME NEW q \in Run, pc'[q] \in {"index", "del"}
          PROVE  \E v \in Held(q)' : decode'[q] = Decode(v)
      BY <3>1, <3>2, <3>4
    <3> QED BY <3>3, <3>4
  <2>3. ASSUME NEW r \in Run, GetJson(r) PROVE ReadsHeld'
    BY <2>3 DEF GetJson
  <2>4. ASSUME NEW r \in Run, IndexDoc(r) PROVE ReadsHeld'
    BY <2>4 DEF IndexDoc
  <2>5. ASSUME NEW r \in Run, DelJson(r) PROVE ReadsHeld'
    <3>1. pc'[r] = "while"
      BY <2>5 DEF DelJson
    <3>2. ASSUME NEW q \in Run, q # r
          PROVE  /\ pc'[q] = pc[q]
                 /\ line'[q] = line[q]
                 /\ decode'[q] = decode[q]
                 /\ between[q] \subseteq between'[q]
                 /\ pc[q] = "get" => json' \in between'[q]
      BY <2>5, <3>2 DEF DelJson, Notice
    <3>3. ASSUME NEW q \in Run, pc'[q] = "get" PROVE json' \in Held(q)'
      BY <3>1, <3>2, <3>3
    <3>4. ASSUME NEW q \in Run, pc'[q] \in {"index", "del"}
          PROVE  \E v \in Held(q)' : decode'[q] = Decode(v)
      BY <3>1, <3>2, <3>4
    <3> QED BY <3>3, <3>4
  <2>6. ASSUME NEW r \in Run, Finish(r) PROVE ReadsHeld'
    BY <2>6 DEF Finish
  <2>7. ASSUME NEW r \in Run, Abort(r) PROVE ReadsHeld'
    BY <2>7 DEF Abort
  <2>8. CASE UNCHANGED vars
    BY <2>8 DEF vars
  <2> QED BY <2>1, <2>2, <2>3, <2>4, <2>5, <2>6, <2>7, <2>8 DEF Next, Step
<1> QED BY <1>1, <1>2, TypeCorrect, PTL DEF Spec

\* A run indexes its own line unless another run's SET or DEL came between its SET and
\* its GET (convertNGINX.php:36-40).
THEOREM KeepsItsLine == Spec => []UndisturbedKeepsItsLine
<1>1. ReadsHeld => UndisturbedKeepsItsLine
  BY DEF ReadsHeld, UndisturbedKeepsItsLine, Held
<1> QED BY <1>1, ReadsHeldInvariant, PTL

\* A run indexes nulls only after another run's DEL between its SET and its GET, or for
\* a line that json_encode refuses (convertNGINX.php:32,36-40,82).
THEOREM NullsAreExplained == Spec => []NullsHaveACause
<1>1. TypeOK /\ ReadsHeld => NullsHaveACause
  <2> SUFFICES ASSUME TypeOK, ReadsHeld, NEW r \in Decoded, decode[r] = Null
               PROVE  \/ Null \in between[r]
                      \/ Blank \in between[r] \cup {Encode(line[r])}
    BY DEF NullsHaveACause
  <2>1. PICK v \in Held(r) : Decode(v) = Null
    BY DEF ReadsHeld
  <2>2. v = Null \/ v = Blank
    BY <2>1 DEF Decode
  <2>3. Encode(line[r]) # Null
    BY CodecTypes DEF TypeOK, Decoded
  <2> QED BY <2>1, <2>2, <2>3 DEF Held
<1> QED BY <1>1, TypeCorrect, ReadsHeldInvariant, PTL
=============================================================================
