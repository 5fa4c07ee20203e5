---------------------------- MODULE ConvertNginx ----------------------------
(***************************************************************************)
(* convertNGINX.php: a run of the script reads data_log/nginx.log line by  *)
(* line, passes every parsed line through the Redis key 'json', and stores *)
(* it in Elasticsearch under the constant document id 3.  The script takes *)
(* no lock, so several runs may be active at once; each Redis command and  *)
(* each index request is one atomic step, everything between two of them   *)
(* is local to the run.  The result of fopen is not checked: a run that    *)
(* could not open the file goes through the same loop, without an end.     *)
(***************************************************************************)
EXTENDS Integers, Sequences

CONSTANTS
  Run,              \* the executions of the script
  Log,              \* data_log/nginx.log, as a sequence of line kinds
  TrailingNewline   \* whether the last line of the file ends with a newline

(***************************************************************************)
(* The regular expression tells two kinds of lines apart, and json_encode  *)
(* a third: a line it matches that is not valid UTF-8.                     *)
(***************************************************************************)
LineKind == {"match", "nomatch", "badutf8"}

ASSUME LogAssumption == /\ Log \in Seq(LineKind)
                        /\ TrailingNewline \in BOOLEAN

Line == 1..Len(Log)

(***************************************************************************)
(* The eleven captured fields are those of a line of the log, or eleven    *)
(* empty strings.  Null is PHP's null, and what GET replies for a missing  *)
(* key; Blank is the empty string SET stores for a PHP FALSE; Absent says *)
(* that the document does not exist.                                       *)
(***************************************************************************)
EmptyFields == 0
Fields == 0..Len(Log)
Null == -1
Blank == -2
Absent == -3

VARIABLES
  pc,      \* the next statement of each run that others can observe
  fn,      \* $fn: whether the run has the file open
  line,    \* the line a run has read last; past the end of the log for no line
  eof,     \* the end-of-file flag of the run's file handle
  decode,  \* $decode: the fields, or Null
  json,    \* the Redis key 'json': encoded fields, Blank, or Null if missing
  doc,     \* the body of document 3: fields, Null for eleven nulls, or Absent
  between  \* history: what other runs left in the key since the run's own SET

local == <<fn, line, eof>>
vars == <<pc, local, decode, json, doc, between>>

-----------------------------------------------------------------------------
(* Plausible mistakes in the code, against which the properties are tried. *)

\* The end-of-file flag already set by the read of the last line.
EagerEof(n) == n >= Len(Log)

\* The ?? "" defaults left out.
ParseWithoutDefault(n) == IF n \in Line /\ Log[n] # "nomatch" THEN n ELSE Null

\* json_decode handing an undecodable string back.
DecodeBlank(v) == v

\* The loop body without its fgets.
SetJsonWithoutRead(r) ==
  /\ pc[r] = "while"
  /\ ~eof[r]
  /\ pc' = [pc EXCEPT ![r] = "get"]
  /\ UNCHANGED <<local, json, decode, doc, between>>

\* The DEL commented out, as convertUWSGI.php has it.
DelNothing(r) ==
  /\ pc[r] = "del"
  /\ pc' = [pc EXCEPT ![r] = "while"]
  /\ UNCHANGED <<local, decode, json, doc, between>>

-----------------------------------------------------------------------------
(***************************************************************************)
(* fgets: the next line, or FALSE at the end of the file.  The end-of-file *)
(* flag is set by the read that meets the end, so a file that ends with a  *)
(* newline costs one more iteration, whose $result is FALSE.               *)
(***************************************************************************)
MeetsEof(n) == n > Len(Log) \/ (n = Len(Log) /\ ~TrailingNewline)

(***************************************************************************)
(* preg_match_all and the ?? "" defaults: a line the expression does not   *)
(* match, and the FALSE of the last iteration, give eleven empty strings.  *)
(***************************************************************************)
Parse(n) == IF n \in Line /\ Log[n] # "nomatch" THEN n ELSE EmptyFields

\* json_encode gives FALSE on malformed UTF-8, which SET stores as "".
Encode(n) == IF n \in Line /\ Log[n] = "badutf8" THEN Blank ELSE Parse(n)

\* json_decode: of "" and of the null GET returns for a missing key, null.
Decode(v) == IF v = Blank THEN Null ELSE v

(***************************************************************************)
(* The history variable: run r leaves v in the key, and the runs that are  *)
(* between their SET and their GET take note of it.                        *)
(***************************************************************************)
Notice(r, v) ==
  [q \in Run |-> IF q # r /\ pc[q] = "get" THEN between[q] \cup {v} ELSE between[q]]

Init ==
  /\ pc = [r \in Run |-> "fopen"]
  /\ fn = [r \in Run |-> FALSE]
  /\ line = [r \in Run |-> 0]
  /\ eof = [r \in Run |-> FALSE]
  /\ decode = [r \in Run |-> Null]
  /\ json = Null
  /\ doc = Absent
  /\ between = [r \in Run |-> {}]

\* fopen of a relative path: a handle, or FALSE, and the loop begins either way.
Open(r) ==
  /\ pc[r] = "fopen"
  /\ \E opened \in BOOLEAN : fn' = [fn EXCEPT ![r] = opened]
  /\ pc' = [pc EXCEPT ![r] = "while"]
  /\ UNCHANGED <<line, eof, decode, json, doc, between>>

\* SET with NX: what another run has left there stays.
SetJsonIfMissing(r) ==
  /\ pc[r] = "while"
  /\ ~eof[r]
  /\ line' = [line EXCEPT ![r] = IF fn[r] THEN @ + 1 ELSE Len(Log) + 1]
  /\ eof' = [eof EXCEPT ![r] = fn[r] /\ MeetsEof(line'[r])]
  /\ json' = IF json = Null THEN Encode(line'[r]) ELSE json
  /\ between' = [Notice(r, json') EXCEPT ![r] = {}]
  /\ pc' = [pc EXCEPT ![r] = "get"]
  /\ UNCHANGED <<fn, decode, doc>>

(***************************************************************************)
(* fgets, the parse, json_encode and $redis->set('json', $json).  Of a     *)
(* FALSE instead of a handle, feof and fgets make a warning and a null:    *)
(* the loop goes on, with no line.                                         *)
(***************************************************************************)
SetJson(r) ==
  /\ pc[r] = "while"
  /\ ~eof[r]
  /\ line' = [line EXCEPT ![r] = IF fn[r] THEN @ + 1 ELSE Len(Log) + 1]
  /\ eof' = [eof EXCEPT ![r] = fn[r] /\ MeetsEof(line'[r])]
  /\ json' = Encode(line'[r])
  /\ between' = [Notice(r, json') EXCEPT ![r] = {}]
  /\ pc' = [pc EXCEPT ![r] = "get"]
  /\ UNCHANGED <<fn, decode, doc>>

\* $redis->get('json') and json_decode.
GetJson(r) ==
  /\ pc[r] = "get"
  /\ decode' = [decode EXCEPT ![r] = Decode(json)]
  /\ pc' = [pc EXCEPT ![r] = "index"]
  /\ UNCHANGED <<local, json, doc, between>>

\* $client->index: id 3 is replaced; a null $decode gives eleven nulls.
IndexDoc(r) ==
  /\ pc[r] = "index"
  /\ doc' = decode[r]
  /\ pc' = [pc EXCEPT ![r] = "del"]
  /\ UNCHANGED <<local, decode, json, between>>

\* $redis->del('json').
DelJson(r) ==
  /\ pc[r] = "del"
  /\ json' = Null
  /\ between' = Notice(r, Null)
  /\ pc' = [pc EXCEPT ![r] = "while"]
  /\ UNCHANGED <<local, decode, doc>>

\* feof() taken to be true of a FALSE.
FinishWithoutFile(r) ==
  /\ pc[r] = "while"
  /\ eof[r] \/ ~fn[r]
  /\ pc' = [pc EXCEPT ![r] = "done"]
  /\ UNCHANGED <<local, decode, json, doc, between>>

\* feof() ends the loop; fclose.
Finish(r) ==
  /\ pc[r] = "while"
  /\ eof[r]
  /\ pc' = [pc EXCEPT ![r] = "done"]
  /\ UNCHANGED <<local, decode, json, doc, between>>

(***************************************************************************)
(* An exception of the Redis or the Elasticsearch client, or a kill: none  *)
(* is caught, and nothing cleans up.  A request whose effect took place    *)
(* but whose reply was lost is an Abort after that request.                *)
(***************************************************************************)
Abort(r) ==
  /\ pc[r] # "done"
  /\ pc[r] # "dead"
  /\ pc' = [pc EXCEPT ![r] = "dead"]
  /\ UNCHANGED <<local, decode, json, doc, between>>

Step(r) ==
  Open(r) \/ SetJson(r) \/ GetJson(r) \/ IndexDoc(r) \/ DelJson(r) \/ Finish(r)

Next == \E r \in Run : Step(r) \/ Abort(r)

Spec == Init /\ [][Next]_vars

(***************************************************************************)
(* PHP executes a script to its end unless it is killed: weak fairness of  *)
(* every run's own steps, none of Abort.                                   *)
(***************************************************************************)
FairSpec == Spec /\ \A r \in Run : WF_vars(Step(r))

-----------------------------------------------------------------------------
Location == {"fopen", "while", "get", "index", "del", "done", "dead"}

\* The type of every variable of the script, of the key and of the document.
TypeOK ==
  /\ pc \in [Run -> Location]
  /\ fn \in [Run -> BOOLEAN]
  /\ line \in [Run -> Nat]
  /\ eof \in [Run -> BOOLEAN]
  /\ decode \in [Run -> Fields \cup {Null}]
  /\ json \in Fields \cup {Null, Blank}
  /\ doc \in Fields \cup {Null, Absent}
  /\ between \in [Run -> SUBSET (Fields \cup {Null, Blank})]

(***************************************************************************)
(* The key 'json' is in Redis only while some run is between its SET and   *)
(* its DEL, or after a run died: the runs that end normally leave Redis    *)
(* empty, whatever the order of their commands (convertNGINX.php:82).      *)
(***************************************************************************)
KeyHeldByARun ==
  json # Null => \E r \in Run : pc[r] \in {"get", "index", "del", "dead"}

\* The runs whose $decode is that of the line they have read last.
Decoded == {r \in Run : pc[r] \in {"index", "del"}}

(***************************************************************************)
(* However the runs interleave, and whatever dead ones have left behind, a *)
(* run indexes the line it has read unless another run's SET or DEL came   *)
(* between its own SET and GET (convertNGINX.php:36-40).  The detour over  *)
(* Redis then loses nothing but lines that json_encode refuses, which      *)
(* become eleven nulls.                                                    *)
(***************************************************************************)
UndisturbedKeepsItsLine ==
  \A r \in Decoded : between[r] = {} => decode[r] = Decode(Encode(line[r]))

(***************************************************************************)
(* A run that indexes eleven nulls has been told nothing it could decode   *)
(* for one of two reasons: another run's DEL came between its SET and its  *)
(* GET, or the key held a line that json_encode refuses, its own or one    *)
(* that another run has set in between (convertNGINX.php:32,36-40,82).     *)
(***************************************************************************)
NullsHaveACause ==
  \A r \in Decoded : decode[r] = Null =>
    \/ Null \in between[r]
    \/ Blank \in between[r] \cup {Encode(line[r])}

\* Run r has had Redis and document 3 to itself.
Alone(r) == \A q \in Run \ {r} : line[q] = 0

(***************************************************************************)
(* feof() is checked before the read that would set it, so an undisturbed  *)
(* run over a file that ends with a newline does one iteration more than   *)
(* the file has lines and leaves the empty fields in document 3            *)
(* (convertNGINX.php:15-16,58).                                            *)
(***************************************************************************)
LastDocumentIsEmpty ==
  \A r \in Run : Alone(r) /\ TrailingNewline /\ pc[r] = "done"
                   => doc = EmptyFields /\ line[r] = Len(Log) + 1

(***************************************************************************)
(* A run that has opened the file ends: the loop consumes a line, or meets *)
(* the end, each time (convertNGINX.php:15-16).                            *)
(***************************************************************************)
EveryReaderEnds == \A r \in Run : fn[r] ~> pc[r] \in {"done", "dead"}

(***************************************************************************)
(* A run that has not opened it goes on indexing, without a line to index, *)
(* until it is killed: nothing between fopen and the condition of the loop *)
(* looks at $fn, and feof of a FALSE is not true (convertNGINX.php:13-15). *)
(***************************************************************************)
WithoutFileForever ==
  \A r \in Run : <>(pc[r] = "while" /\ ~fn[r])
                    => <>(pc[r] = "dead") \/ []<>(pc[r] = "index")
=============================================================================
