---------------------------- MODULE AnteHandler -----------------------------
(***************************************************************************)
(* The chain of ante decorators that app/ante.go puts in front of every    *)
(* transaction, as far as it reads or writes accounts.                     *)
(*                                                                         *)
(* The fee payer and the required signer are taken from the messages; the  *)
(* key that made the signature is only known to the signature check.  The  *)
(* fee is deducted before that check, on a branch that is dropped when a   *)
(* later decorator refuses the transaction.                                *)
(***************************************************************************)
EXTENDS TokenFactory

CONSTANTS
    Txs,           \* the transactions that exist
    InitialFunds   \* what every account owns at genesis, in units of one fee

(***************************************************************************)
(* A transaction has the key that signed it, the account sequence it was   *)
(* signed for, the last height it may run at (0: any) and its messages.    *)
(***************************************************************************)
ASSUME TxsAssumption ==
    \A tx \in Txs : /\ tx.key \in Accounts
                    /\ tx.seq \in Nat
                    /\ tx.timeout \in Nat
                    /\ tx.msgs \in Seq(Msg)
                    /\ tx.msgs # <<>>

ASSUME FundsAssumption == InitialFunds \in Nat

\* The part of the application state that a transaction touches.
AppState == [denoms : Store, seq : [Accounts -> Nat], funds : [Accounts -> Nat]]

GenesisState == [denoms |-> EmptyStore,
                 seq    |-> [a \in Accounts |-> 0],
                 funds  |-> [a \in Accounts |-> InitialFunds]]

\* GetSigners of the first message; also the fee payer.
Signer(tx) == tx.msgs[1].owner

TxTimeoutHeight(tx, h) == tx.timeout = 0 \/ h <= tx.timeout

\* Defect: the balance is not looked at.
AnyBalance(st, tx) == TRUE

CanPayFee(st, tx) == st.funds[Signer(tx)] >= 1

DeductFee(st, a) == [st EXCEPT !.funds[a] = @ - 1]

\* Defect: any key may sign.
SignatureOfAnyKey(st, tx) == tx.seq = st.seq[Signer(tx)]

\* Defect: old sequence numbers are accepted too.
SignatureOfAnySequence(st, tx) ==
    /\ \A i \in 1 .. Len(tx.msgs) : tx.msgs[i].owner = tx.key
    /\ tx.seq <= st.seq[Signer(tx)]

\* Every message is owned by the key that signed, for the current sequence.
SigVerification(st, tx) ==
    /\ \A i \in 1 .. Len(tx.msgs) : tx.msgs[i].owner = tx.key
    /\ tx.seq = st.seq[Signer(tx)]

IncrementSequence(st, a) == [st EXCEPT !.seq[a] = @ + 1]

\* Defect: the timeout is compared with the last committed height.
AnteOKAtLastHeight(st, tx, h) ==
    /\ TxTimeoutHeight(tx, h - 1)
    /\ CanPayFee(st, tx)
    /\ SigVerification(st, tx)

AnteOK(st, tx, h) ==
    /\ TxTimeoutHeight(tx, h)
    /\ CanPayFee(st, tx)
    /\ SigVerification(st, tx)

\* Defect: the sequence is incremented but the fee is not taken.
AnteWithoutFee(st, tx) == IncrementSequence(st, Signer(tx))

\* What the decorators leave when none of them refuses.
AnteEffect(st, tx) == IncrementSequence(DeductFee(st, Signer(tx)), Signer(tx))
=============================================================================
