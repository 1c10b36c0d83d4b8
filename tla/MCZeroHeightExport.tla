------------------------- MODULE MCZeroHeightExport -------------------------
(* Small chains to export: two validators, one of which has all the         *)
(* delegations, and one of which is bonded.                                *)
EXTENDS ZeroHeightExport

MCDelegations == <<1, 1>>
MCHeights == {Latest, 1, 3}
MCAllowLists == {{}, {1}, {1, 2}, {2, BadAddress}}
=============================================================================
