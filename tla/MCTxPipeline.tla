---------------------------- MODULE MCTxPipeline ----------------------------
(* A small set of transactions for TxPipeline: two owners, two denoms, honest *)
(* transactions for two sequence numbers each, and the ones that must not     *)
(* get through.                                                               *)
EXTENDS TxPipeline

CONSTANTS a, b, x

MCDenoms == {1, 2}

Creates(o, d) == [type |-> "CreateDenom", owner |-> o, denom |-> d, details |-> x]
Updates(o, d) == [type |-> "UpdateDenom", owner |-> o, denom |-> d, details |-> x]
Deletes(o, d) == [type |-> "DeleteDenom", owner |-> o, denom |-> d]
Params(o) == [type |-> "UpdateParams", owner |-> o]

MCTx(k, s, t, ms) == [key |-> k, seq |-> s, timeout |-> t, msgs |-> ms]

MCTxs ==
    \* both accounts want denom 1, and a gives it up again
    {MCTx(o, 0, 0, <<Creates(o, 1)>>) : o \in {a, b}}
    \cup {MCTx(a, 1, 0, <<Deletes(a, 1)>>)}
    \* two messages of which the second may fail
    \cup {MCTx(b, 0, 0, <<Creates(b, 2), Updates(b, 1)>>),
          MCTx(a, 1, 0, <<Deletes(a, 1), Params(a)>>)}
    \* an owner overwrites a denom while the other still waits for it
    \cup {MCTx(b, 1, 0, <<Params(b), Updates(b, 1)>>)}
    \* b signs for a; a transaction that must run in the first block
    \cup {MCTx(b, 1, 0, <<Deletes(a, 1)>>),
          MCTx(a, 1, 1, <<Updates(a, 1)>>)}
    \* a third transaction of a, which cannot pay for it
    \cup {MCTx(a, 2, 0, <<Params(a)>>)}

MCBlocks == {<<>>} \cup {<<t>> : t \in MCTxs} \cup (MCTxs \X MCTxs)
=============================================================================
