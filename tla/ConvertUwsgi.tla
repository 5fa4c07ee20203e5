---------------------------- MODULE ConvertUwsgi ----------------------------
(***************************************************************************)
(* convertUWSGI.php: a run of the script reads data_log/uwsgi.log whole,   *)
(* and in a loop whose condition never changes matches it again, sets and  *)
(* gets the Redis key 'uwsgi', and adds the record number $i to the        *)
(* Elasticsearch index 'index_uwsgi' under a new document id.  Past the    *)
(* last record the three fields are null.  Nothing ends a run but an       *)
(* uncaught exception or a kill.                                           *)
(***************************************************************************)
EXTENDS Integers, FiniteSets

CONSTANTS
  Run,       \* the executions of the script
  Records,   \* how many matches preg_match_all finds in the file
  Truthy     \* whether the content of the file is true for PHP

ASSUME RecordsAssumption ==
  /\ Records \in Nat
  /\ Truthy \in BOOLEAN
  /\ Records > 0 => Truthy
  /\ IsFiniteSet(Run)

Record == 1..Records
NullRecord == Records + 1     \* $i is past the last match: three nulls
Body == 1..NullRecord

\* $i + 1, and the number of documents with a given body.  Beyond these bounds
\* nothing the script does depends on them.
MaxCopies == Cardinality(Run) + 1
Saturate(n, max) == IF n > max THEN max ELSE n

VARIABLES
  pc,      \* the next statement of each run that others can observe
  i,       \* the body that $i selects
  uwsgi,   \* whether the Redis key 'uwsgi' exists
  docs     \* how many documents of index_uwsgi have each body

vars == <<pc, i, uwsgi, docs>>

Init ==
  /\ pc = [r \in Run |-> IF Truthy THEN "set" ELSE "done"]
  /\ i = [r \in Run |-> 1]
  /\ uwsgi = FALSE
  /\ docs = [b \in Body |-> 0]

\* The match, json_encode (its result is not used) and $redis->set('uwsgi', 'nama').
SetUwsgi(r) ==
  /\ pc[r] = "set"
  /\ uwsgi' = TRUE
  /\ pc' = [pc EXCEPT ![r] = "get"]
  /\ UNCHANGED <<i, docs>>

\* $redis->get('uwsgi') and json_decode: $decode is not used.
GetUwsgi(r) ==
  /\ pc[r] = "get"
  /\ pc' = [pc EXCEPT ![r] = "index"]
  /\ UNCHANGED <<i, uwsgi, docs>>

\* An index request with the constant id of convertNGINX.php.
IndexFixedId(r) ==
  /\ pc[r] = "index"
  /\ docs' = [b \in Body |-> IF b = i[r] THEN 1 ELSE 0]
  /\ pc' = [pc EXCEPT ![r] = "echo"]
  /\ UNCHANGED <<i, uwsgi>>

\* $client->index without an id: a new document.
IndexRecord(r) ==
  /\ pc[r] = "index"
  /\ docs' = [docs EXCEPT ![i[r]] = Saturate(@ + 1, MaxCopies)]
  /\ pc' = [pc EXCEPT ![r] = "echo"]
  /\ UNCHANGED <<i, uwsgi>>

\* The loop without its $i++.
EchoWithoutIncrement(r) ==
  /\ pc[r] = "echo"
  /\ pc' = [pc EXCEPT ![r] = "set"]
  /\ UNCHANGED <<i, uwsgi, docs>>

\* $i counted down, and $i advanced twice in one iteration.
EchoCountingDown(r) ==
  /\ pc[r] = "echo"
  /\ i' = [i EXCEPT ![r] = @ - 1]
  /\ pc' = [pc EXCEPT ![r] = "set"]
  /\ UNCHANGED <<uwsgi, docs>>

EchoSkipping(r) ==
  /\ pc[r] = "echo"
  /\ i' = [i EXCEPT ![r] = Saturate(@ + 2, NullRecord)]
  /\ pc' = [pc EXCEPT ![r] = "set"]
  /\ UNCHANGED <<uwsgi, docs>>

\* The DEL is commented out, the message that it succeeded is not; $i++.
EchoDeleted(r) ==
  /\ pc[r] = "echo"
  /\ i' = [i EXCEPT ![r] = Saturate(@ + 1, NullRecord)]
  /\ pc' = [pc EXCEPT ![r] = "set"]
  /\ UNCHANGED <<uwsgi, docs>>

\* An exception of one of the two clients, which nothing catches, or a kill.
Abort(r) ==
  /\ pc[r] \notin {"done", "dead"}
  /\ pc' = [pc EXCEPT ![r] = "dead"]
  /\ UNCHANGED <<i, uwsgi, docs>>

Step(r) == SetUwsgi(r) \/ GetUwsgi(r) \/ IndexRecord(r) \/ EchoDeleted(r)

Next == \E r \in Run : Step(r) \/ Abort(r)

Spec == Init /\ [][Next]_vars

\* PHP executes a script to its end unless it is killed.
FairSpec == Spec /\ \A r \in Run : WF_vars(Step(r))

-----------------------------------------------------------------------------
\* The type of every variable of the script.
TypeOK ==
  /\ pc \in [Run -> {"set", "get", "index", "echo", "done", "dead"}]
  /\ i \in [Run -> Body]
  /\ uwsgi \in BOOLEAN
  /\ docs \in [Body -> 0..MaxCopies]

\* The runs that have gone past record n for certain, and those that may have.
Past(n) == {r \in Run : i[r] > n \/ (i[r] = n /\ pc[r] = "echo")}
MaybePast(n) == Past(n) \cup {r \in Run : i[r] = n /\ pc[r] = "dead"}

\* Each run stores each record at most once, and has stored every record that it has
\* gone past: concurrent runs duplicate records, they never lose one
\* (convertUWSGI.php:48-64).
RecordsStored ==
  \A n \in Record : /\ docs[n] >= Cardinality(Past(n))
                    /\ docs[n] <= Cardinality(MaybePast(n))

\* A document of three nulls appears only after some run has stored every record.
NullsComeLast ==
  docs[NullRecord] > 0 => \A n \in Record : docs[n] > 0

\* A run whose file is not empty never ends by itself: unless it is killed it stores
\* the document of nulls again and again (convertUWSGI.php:16,64).
NullsForever ==
  \A r \in Run : Truthy => \/ <>(pc[r] = "dead")
                           \/ []<>(i[r] = NullRecord /\ pc[r] = "echo")
=============================================================================
