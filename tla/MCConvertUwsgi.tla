--------------------------- MODULE MCConvertUwsgi ---------------------------
(***************************************************************************)
(* An instance of ConvertUwsgi for TLC: two runs of the script.            *)
(***************************************************************************)
EXTENDS ConvertUwsgi

CONSTANTS r1, r2

TwoRuns == {r1, r2}
=============================================================================
