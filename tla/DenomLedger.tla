---------------------------- MODULE DenomLedger -----------------------------
(***************************************************************************)
(* What the execution of transactions promises, without branches,          *)
(* speculation or crashes: every decided block is applied once, in one     *)
(* step, transaction by transaction.  A transaction that the ante handler  *)
(* refuses leaves no trace; one whose messages fail leaves only its fee    *)
(* and its sequence number; one that succeeds leaves all its messages.     *)
(***************************************************************************)
EXTENDS AnteHandler

CONSTANTS Blocks

VARIABLES state, tip

\* The messages on a branch, with a flag that stays FALSE after the first error.
ApplyMsg(branch, m) ==
    IF branch.ok /\ HandlerOK(branch.denoms, m)
    THEN [branch EXCEPT !.denoms = Handle(@, m)]
    ELSE [branch EXCEPT !.ok = FALSE]

ApplyMsgs(store, msgs) ==
    LET end == FoldLeft(ApplyMsg, [denoms |-> store, ok |-> TRUE], msgs)
    IN  IF end.ok THEN end.denoms ELSE store

ApplyTx(st, tx, h) ==
    IF AnteOK(st, tx, h)
    THEN [AnteEffect(st, tx) EXCEPT !.denoms = ApplyMsgs(@, tx.msgs)]
    ELSE st

ApplyBlock(st, b, h) == FoldLeft(LAMBDA s, tx : ApplyTx(s, tx, h), st, b)

Init == state = GenesisState /\ tip = 0

CommitBlock(b) ==
    /\ tip' = tip + 1
    /\ state' = ApplyBlock(state, b, tip + 1)

Next == \E b \in Blocks : CommitBlock(b)

Spec == Init /\ [][Next]_<<state, tip>>
=============================================================================
