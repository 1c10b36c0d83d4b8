---------------------------- MODULE MCDenomWalk -----------------------------
(* Model values and bounds for DenomWalk. *)
EXTENDS DenomWalk

MCDenoms == 1 .. 4
MCPageSizes == {1, 2}

\* The order of an iterator is the ascending one of the community modules.
ASSUME InOrderSorts == \A keys \in SUBSET MCDenoms : InOrder(keys) = SetToSortSeq(keys, <)
=============================================================================
