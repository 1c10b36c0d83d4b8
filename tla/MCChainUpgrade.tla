--------------------------- MODULE MCChainUpgrade ---------------------------
(***************************************************************************)
(* Two nodes that form a quorum and a third one that may lag behind; the   *)
(* third one does not run under Cosmovisor.                                *)
(***************************************************************************)
EXTENDS ChainUpgrade, TLC

CONSTANTS n1, n2, n3

MCNodes == {n1, n2, n3}
MCPower == [n \in MCNodes |-> IF n = n3 THEN 1 ELSE 2]
MCSupervised == {n1, n2}
MCSymmetry == Permutations({n1, n2})

\* Plans for the next block, for a later one and for a height that passes by.
MCContents == [type : {"schedule"}, height : {2, 3}] \cup [type : {"none", "cancel"}]
=============================================================================
