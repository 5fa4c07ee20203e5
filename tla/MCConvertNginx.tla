--------------------------- MODULE MCConvertNginx ---------------------------
(***************************************************************************)
(* Two runs over a file with a line of each kind.                          *)
(***************************************************************************)
EXTENDS ConvertNginx

CONSTANTS r1, r2

TwoRuns == {r1, r2}
MixedLog == <<"match", "nomatch", "badutf8">>
=============================================================================
