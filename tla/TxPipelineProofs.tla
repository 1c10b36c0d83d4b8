-------------------------- MODULE TxPipelineProofs --------------------------
(***************************************************************************)
(* Proofs about TxPipeline for any accounts, denoms, transactions, blocks  *)
(* and numbers of crashes.  The safety properties of the committed state   *)
(* are not inductive: IInv adds what holds of the block in execution, on   *)
(* its two branches, before it is committed.                               *)
(***************************************************************************)
EXTENDS TxPipeline, FoldTheorems

(* A handler that returns no error leaves a well-formed store. *)
LEMMA HandleType ==
    ASSUME NEW store \in Store, NEW m \in Msg, HandlerOK(store, m)
    PROVE  Handle(store, m) \in Store
<1>1. CASE m.type = "CreateDenom"
  <2>1. m \in CreateMsg
    BY <1>1 DEF Msg, CreateMsg, UpdateMsg, DeleteMsg, ParamsMsg
  <2>2. RecordOf(m) \in Record
    BY <2>1 DEF RecordOf, Record, CreateMsg
  <2>3. Handle(store, m) = [store EXCEPT ![m.denom] = RecordOf(m)]
    BY <1>1 DEF Handle, CreateDenom, SetDenom, RecordOf
  <2>4. QED
    BY <2>1, <2>2, <2>3 DEF Store, CreateMsg
<1>2. CASE m.type = "UpdateDenom"
  <2>1. m \in UpdateMsg
    BY <1>2 DEF Msg, CreateMsg, UpdateMsg, DeleteMsg, ParamsMsg
  <2>2. RecordOf(m) \in Record
    BY <2>1 DEF RecordOf, Record, UpdateMsg
  <2>3. Handle(store, m) = [store EXCEPT ![m.denom] = RecordOf(m)]
    BY <1>2 DEF Handle, UpdateDenom, SetDenom, RecordOf
  <2>4. QED
    BY <2>1, <2>2, <2>3 DEF Store, UpdateMsg
<1>3. CASE m.type = "DeleteDenom"
  <2>1. Handle(store, m) = [store EXCEPT ![m.denom] = NoDenom]
    BY <1>3 DEF Handle, DeleteDenom, RemoveDenom
  <2>2. QED
    BY <2>1 DEF Store
<1>4. CASE m.type = "UpdateParams"
  BY <1>4 DEF Handle
<1>5. QED
  BY <1>1, <1>2, <1>3, <1>4 DEF HandlerOK

(* A handler changes the record of a set key only on a message of its owner *)
(* that names that key.                                                     *)
LEMMA HandleChanges ==
    ASSUME NEW store \in Store, NEW m \in Msg, HandlerOK(store, m),
           NEW d \in Denoms, Found(store, d), Handle(store, m)[d] # store[d]
    PROVE  m \notin ParamsMsg /\ m.denom = d /\ m.owner = store[d].owner
<1>1. CASE m.type = "CreateDenom"
  <2>1. m \in CreateMsg
    BY <1>1 DEF Msg, CreateMsg, UpdateMsg, DeleteMsg, ParamsMsg
  <2>2. Handle(store, m) = [store EXCEPT ![m.denom] = RecordOf(m)]
    BY <1>1 DEF Handle, CreateDenom, SetDenom, RecordOf
  <2>3. ~ Found(store, m.denom)
    BY <1>1 DEF HandlerOK, CreateDenomOK
  <2>4. QED
    BY <2>1, <2>2, <2>3 DEF Store, CreateMsg
<1>2. CASE m.type = "UpdateDenom"
  <2>1. m \notin ParamsMsg
    BY <1>2 DEF ParamsMsg
  <2>2. Handle(store, m) = [store EXCEPT ![m.denom] = RecordOf(m)]
    BY <1>2 DEF Handle, UpdateDenom, SetDenom, RecordOf
  <2>3. m.owner = store[m.denom].owner
    BY <1>2 DEF HandlerOK, UpdateDenomOK, GetDenom
  <2>4. QED
    BY <2>1, <2>2, <2>3 DEF Store
<1>3. CASE m.type = "DeleteDenom"
  <2>1. m \notin ParamsMsg
    BY <1>3 DEF ParamsMsg
  <2>2. Handle(store, m) = [store EXCEPT ![m.denom] = NoDenom]
    BY <1>3 DEF Handle, DeleteDenom, RemoveDenom
  <2>3. m.owner = store[m.denom].owner
    BY <1>3 DEF HandlerOK, DeleteDenomOK, GetDenom
  <2>4. QED
    BY <2>1, <2>2, <2>3 DEF Store
<1>4. CASE m.type = "UpdateParams"
  BY <1>4 DEF Handle
<1>5. QED
  BY <1>1, <1>2, <1>3, <1>4 DEF HandlerOK

-----------------------------------------------------------------------------
(* The inductive invariant.                                                *)

\* Committed entries used sequence numbers below the committed one, entries of
\* the block in execution those between the committed and the current one.
SequenceOrder ==
    /\ \A a \in Accounts : committed.seq[a] <= deliver.seq[a]
    /\ \A i \in 1 .. Len(ledger) :
          ledger[i].tx.seq < committed.seq[ledger[i].tx.key]
    /\ \A i \in 1 .. Len(passed) :
          /\ committed.seq[passed[i].tx.key] <= passed[i].tx.seq
          /\ passed[i].tx.seq < deliver.seq[passed[i].tx.key]

\* The same as NoReplay for the block in execution.
NoReplayInRun ==
    \A i, j \in 1 .. Len(passed) :
        /\ passed[i].tx.key = passed[j].tx.key
        /\ passed[i].tx.seq = passed[j].tx.seq
        => i = j

\* Nothing passed the ante handler too late.
PassedInTime ==
    \A i \in 1 .. Len(passed) :
        passed[i].tx.timeout = 0 \/ passed[i].height <= passed[i].tx.timeout

\* While the messages of a transaction run, it is the last one that passed
\* the ante handler, and the key that signed it owns all its messages.
RunningIsSigned ==
    Executing /\ msgIdx > 0 =>
        /\ Len(passed) > 0
        /\ passed[Len(passed)].tx = run[pos]
        /\ \A i \in 1 .. Len(run[pos].msgs) : run[pos].msgs[i].owner = run[pos].key

\* A branch differs from the committed store only where an owner has signed.
BranchSigned(store) ==
    \A d \in Denoms :
        Found(committed.denoms, d) /\ store[d] # committed.denoms[d]
            => SignedBy(committed.denoms[d].owner, d, passed)

BranchesSigned ==
    /\ BranchSigned(deliver.denoms)
    /\ Executing /\ msgIdx > 0 => BranchSigned(cache)

IInv ==
    /\ TypeOK
    /\ FeePerSequence
    /\ SequenceOrder
    /\ NoReplay
    /\ NoReplayInRun
    /\ TimeoutRespected
    /\ PassedInTime
    /\ RunningIsSigned
    /\ BranchesSigned

-----------------------------------------------------------------------------
(* The steps of Next, grouped by what they do to the observed variables.   *)

Restarts ==
    \E b \in Blocks \cup {NoBlock} : Execute(b) /\ UNCHANGED <<committed, height, ledger>>

Keeps == UNCHANGED <<committed, height, blockVars, ledger>>

(* Every step is of one of three sorts: it starts an execution from the       *)
(* committed state (a proposal, a decision, a replay, a crash), keeps what *)
(* the invariant speaks about, or is a step of the block in execution.     *)
LEMMA NextCases ==
    ASSUME [Next]_vars, TypeOK
    PROVE  \/ Restarts \/ Keeps
           \/ AntePasses \/ AnteRefuses \/ MsgSucceeds \/ MsgFails
           \/ WriteCache \/ Commit
<1>1. CASE \E b \in Blocks : ProcessProposal(b)
  BY <1>1 DEF ProcessProposal, Restarts
<1>2. CASE \E b \in Blocks : FinalizeBlock(b)
  BY <1>2 DEF FinalizeBlock, Restarts, Keeps
<1>3. CASE ReplayBlock
  BY <1>3 DEF ReplayBlock, Restarts, TypeOK
<1>4. CASE Crash
  BY <1>4 DEF Crash, Restarts
<1>5. CASE UNCHANGED vars
  BY <1>5 DEF vars, Keeps
<1>6. QED
  BY <1>1, <1>2, <1>3, <1>4, <1>5 DEF Next, ExecutionStep

(* What the ante handler writes: one sequence number and one fee of the signer. *)
LEMMA AnteWrites ==
    ASSUME NEW st \in AppState, NEW tx \in Txs, NEW h \in Nat, AnteOK(st, tx, h)
    PROVE  /\ Signer(tx) = tx.key
           /\ tx.key \in Accounts
           /\ tx.seq = st.seq[tx.key]
           /\ AnteEffect(st, tx) \in AppState
           /\ AnteEffect(st, tx).denoms = st.denoms
           /\ AnteEffect(st, tx).seq = [st.seq EXCEPT ![tx.key] = @ + 1]
           /\ AnteEffect(st, tx).funds = [st.funds EXCEPT ![tx.key] = @ - 1]
           /\ st.funds[tx.key] >= 1
           /\ \A i \in 1 .. Len(tx.msgs) : tx.msgs[i].owner = tx.key
<1>1. /\ tx.key \in Accounts
      /\ tx.msgs \in Seq(Msg)
      /\ Len(tx.msgs) \in Nat \ {0}
  BY TxsAssumption
<1>2. \A i \in 1 .. Len(tx.msgs) : tx.msgs[i].owner = tx.key
  BY DEF AnteOK, SigVerification
<1>3. Signer(tx) = tx.key
  BY <1>1, <1>2 DEF Signer
<1>4. tx.seq = st.seq[tx.key] /\ st.funds[tx.key] >= 1
  BY <1>3 DEF AnteOK, SigVerification, CanPayFee
<1>5. AnteEffect(st, tx) = [[st EXCEPT !.funds[tx.key] = @ - 1] EXCEPT !.seq[tx.key] = @ + 1]
  BY <1>3 DEF AnteEffect, IncrementSequence, DeductFee
<1>6. /\ AnteEffect(st, tx).denoms = st.denoms
      /\ AnteEffect(st, tx).seq = [st.seq EXCEPT ![tx.key] = @ + 1]
      /\ AnteEffect(st, tx).funds = [st.funds EXCEPT ![tx.key] = @ - 1]
  BY <1>5 DEF AppState
<1>7. AnteEffect(st, tx) \in AppState
  <2>1. AnteEffect(st, tx) = [denoms |-> st.denoms,
                              seq    |-> [st.seq EXCEPT ![tx.key] = @ + 1],
                              funds  |-> [st.funds EXCEPT ![tx.key] = @ - 1]]
    BY <1>5 DEF AppState
  <2>2. st.denoms \in Store /\ st.seq \in [Accounts -> Nat] /\ st.funds \in [Accounts -> Nat]
    BY DEF AppState
  <2>3. [st.seq EXCEPT ![tx.key] = @ + 1] \in [Accounts -> Nat]
    BY <1>1, <2>2
  <2>4. [st.funds EXCEPT ![tx.key] = @ - 1] \in [Accounts -> Nat]
    BY <1>1, <1>4, <2>2
  <2>5. QED
    BY <2>1, <2>2, <2>3, <2>4 DEF AppState
<1>8. QED
  BY <1>1, <1>2, <1>3, <1>4, <1>6, <1>7

(* The transaction that is executed next is one of Txs. *)
LEMMA RunningTx ==
    ASSUME TypeOK, Executing
    PROVE  /\ run[pos] \in Txs
           /\ run[pos].msgs \in Seq(Msg)
           /\ run[pos].key \in Accounts
           /\ Len(run[pos].msgs) \in Nat
           /\ \A i \in 1 .. Len(run[pos].msgs) : run[pos].msgs[i] \in Msg
<1>1. run \in Seq(Txs) /\ pos \in 1 .. Len(run)
  BY BlocksAssumption DEF TypeOK, Executing
<1>2. run[pos] \in Txs
  BY <1>1
<1>3. run[pos].msgs \in Seq(Msg) /\ run[pos].key \in Accounts
  BY <1>2, TxsAssumption
<1>4. QED
  BY <1>2, <1>3

(***************************************************************************)
(* Type correctness: every branch of the state stays a well-formed         *)
(* application state; in particular funds never become negative.           *)
(***************************************************************************)
LEMMA TypeStep == TypeOK /\ [Next]_vars => TypeOK'
<1> SUFFICES ASSUME TypeOK, [Next]_vars PROVE TypeOK'
  OBVIOUS
<1>0. EmptyStore \in Store
  BY DEF EmptyStore, Store
<1>1. ASSUME NEW b \in Blocks, ProcessProposal(b) PROVE TypeOK'
  BY <1>0, <1>1 DEF ProcessProposal, Execute, TypeOK
<1>2. ASSUME NEW b \in Blocks, FinalizeBlock(b) PROVE TypeOK'
  <2>1. CASE run = b
    BY <1>2, <2>1 DEF FinalizeBlock, TypeOK, blockVars
  <2>2. CASE run # b
    <3>1. Execute(b) /\ decided' = b /\ UNCHANGED <<committed, height, ledger, crashes>>
      BY <1>2, <2>2 DEF FinalizeBlock
    <3>2. QED
      BY <1>0, <3>1 DEF Execute, TypeOK
  <2>3. QED
    BY <2>1, <2>2
<1>3. CASE ReplayBlock
  BY <1>0, <1>3 DEF ReplayBlock, Execute, TypeOK
<1>4. CASE AntePasses
  <2>1. run[pos] \in Txs
    BY <1>4, RunningTx DEF AntePasses
  <2>2. height + 1 \in Nat /\ deliver \in AppState
    BY DEF TypeOK
  <2>3. AnteEffect(deliver, run[pos]) \in AppState
    BY <1>4, <2>1, <2>2, AnteWrites DEF AntePasses
  <2>4. [tx |-> run[pos], height |-> height + 1] \in Entry
    BY <2>1, <2>2 DEF Entry
  <2>5. Append(passed, [tx |-> run[pos], height |-> height + 1]) \in Seq(Entry)
    BY <2>4 DEF TypeOK
  <2>6. deliver.denoms \in Store
    BY <2>2 DEF AppState
  <2>7. QED
    BY <1>4, <2>3, <2>5, <2>6 DEF AntePasses, TypeOK
<1>5. CASE AnteRefuses
  BY <1>5 DEF AnteRefuses, NextTx, TypeOK
<1>6. CASE MsgSucceeds
  <2>1. RunningMsg \in Msg
    BY <1>6, RunningTx DEF MsgSucceeds, RunningMsg
  <2>2. Handle(cache, RunningMsg) \in Store
    BY <1>6, <2>1, HandleType DEF MsgSucceeds, TypeOK
  <2>3. QED
    BY <1>6, <2>2 DEF MsgSucceeds, TypeOK
<1>7. CASE MsgFails
  BY <1>7 DEF MsgFails, NextTx, TypeOK
<1>8. CASE WriteCache
  <2>1. [deliver EXCEPT !.denoms = cache] \in AppState
    BY DEF TypeOK, AppState
  <2>2. QED
    BY <1>8, <2>1 DEF WriteCache, NextTx, TypeOK
<1>9. CASE Commit
  <2>1. ledger \o passed \in Seq(Entry)
    BY DEF TypeOK
  <2>2. QED
    BY <1>9, <2>1 DEF Commit, TypeOK
<1>10. CASE Crash
  BY <1>0, <1>10, BoundsAssumption DEF Crash, Execute, TypeOK
<1>11. CASE UNCHANGED vars
  BY <1>11 DEF vars, blockVars, TypeOK
<1>12. QED
  BY <1>1, <1>2, <1>3, <1>4, <1>5, <1>6, <1>7, <1>8, <1>9, <1>10, <1>11 DEF Next, ExecutionStep

(* The genesis state is well formed.                                       *)
LEMMA InitType == Init => TypeOK
<1> SUFFICES ASSUME Init PROVE TypeOK
  OBVIOUS
<1>1. EmptyStore \in Store
  BY DEF EmptyStore, Store
<1>2. GenesisState \in AppState
  BY <1>1, FundsAssumption DEF GenesisState, AppState
<1>3. QED
  BY <1>1, <1>2, BoundsAssumption DEF Init, TypeOK

(***************************************************************************)
(* Type correctness for every set of transactions, blocks and accounts: no *)
(* abort, failed message or crash leaves a malformed branch or lets funds  *)
(* drop below zero.                                                        *)
(***************************************************************************)
THEOREM TypeCorrect == Spec => []TypeOK
  BY InitType, TypeStep, PTL DEF Spec

-----------------------------------------------------------------------------
(* Each part of the invariant is preserved.                                *)

(* A fee and a sequence number are always taken together, on any branch.   *)
LEMMA FeeStep ==
    ASSUME IInv, [Next]_vars
    PROVE  FeePerSequence'
<1> USE DEF FeePerSequence
<1>1. CASE Restarts
  BY <1>1 DEF IInv, Restarts, Execute
<1>2. CASE Keeps
  BY <1>2 DEF IInv, Keeps, blockVars
<1>3. CASE AntePasses
  <2> DEFINE k == run[pos].key
  <2>1. run[pos] \in Txs /\ deliver \in AppState /\ height + 1 \in Nat
    BY <1>3, RunningTx DEF AntePasses, IInv, TypeOK
  <2>2. /\ k \in Accounts
        /\ deliver'.seq = [deliver.seq EXCEPT ![k] = @ + 1]
        /\ deliver'.funds = [deliver.funds EXCEPT ![k] = @ - 1]
    BY <1>3, <2>1, AnteWrites DEF AntePasses
  <2>3. deliver.seq \in [Accounts -> Nat] /\ deliver.funds \in [Accounts -> Nat]
    BY <2>1 DEF AppState
  <2>4. \A a \in Accounts : deliver'.funds[a] + deliver'.seq[a] = InitialFunds
    BY <2>2, <2>3, FundsAssumption DEF IInv
  <2>5. QED
    BY <1>3, <2>4 DEF AntePasses, IInv
<1>4. CASE AnteRefuses \/ MsgSucceeds \/ MsgFails
  BY <1>4 DEF IInv, AnteRefuses, MsgSucceeds, MsgFails
<1>5. CASE WriteCache
  <2>1. deliver'.seq = deliver.seq /\ deliver'.funds = deliver.funds
    BY <1>5 DEF WriteCache, IInv, TypeOK, AppState
  <2>2. QED
    BY <1>5, <2>1 DEF WriteCache, IInv
<1>6. CASE Commit
  BY <1>6 DEF IInv, Commit
<1>7. QED
  BY <1>1, <1>2, <1>3, <1>4, <1>5, <1>6, NextCases DEF IInv

\* What the entries of the two logs are made of.
LEMMA EntryParts ==
    ASSUME NEW e \in Entry
    PROVE  e.tx.key \in Accounts /\ e.tx.seq \in Nat /\ e.tx.timeout \in Nat /\ e.height \in Nat
  BY TxsAssumption DEF Entry

(* What passed the ante handler used sequence numbers below the current    *)
(* one of its signer, each once, and in time.                              *)
LEMMA SequenceStep ==
    ASSUME IInv, [Next]_vars
    PROVE  SequenceOrder' /\ NoReplayInRun' /\ PassedInTime'
<1> USE DEF SequenceOrder, NoReplayInRun, PassedInTime
<1>0. /\ committed.seq \in [Accounts -> Nat]
      /\ deliver.seq \in [Accounts -> Nat]
      /\ passed \in Seq(Entry)
      /\ ledger \in Seq(Entry)
  BY DEF IInv, TypeOK, AppState
<1>1. CASE Restarts
  BY <1>0, <1>1 DEF IInv, Restarts, Execute
<1>2. CASE Keeps
  BY <1>2 DEF IInv, Keeps, blockVars
<1>3. CASE AntePasses
  <2> DEFINE t == run[pos]
  <2> DEFINE e == [tx |-> t, height |-> height + 1]
  <2>1. t \in Txs /\ deliver \in AppState /\ height + 1 \in Nat
    BY <1>3, RunningTx DEF AntePasses, IInv, TypeOK
  <2>2. /\ t.key \in Accounts
        /\ t.seq = deliver.seq[t.key]
        /\ deliver'.seq = [deliver.seq EXCEPT ![t.key] = @ + 1]
    BY <1>3, <2>1, AnteWrites DEF AntePasses
  <2>3. e \in Entry
    BY <2>1 DEF Entry
  <2>4. /\ Len(passed') = Len(passed) + 1
        /\ passed'[Len(passed) + 1] = e
        /\ \A i \in 1 .. Len(passed) : passed'[i] = passed[i] /\ passed[i] \in Entry
    BY <1>0, <1>3, <2>3 DEF AntePasses
  <2>5. \A a \in Accounts : deliver.seq[a] <= deliver'.seq[a] /\ deliver'.seq[a] \in Nat
    BY <1>0, <2>2
  <2>6. SequenceOrder'
    <3>1. \A a \in Accounts : committed'.seq[a] <= deliver'.seq[a]
      BY <1>0, <1>3, <2>5 DEF AntePasses, IInv
    <3>2. ASSUME NEW i \in 1 .. Len(passed')
          PROVE  /\ committed'.seq[passed'[i].tx.key] <= passed'[i].tx.seq
                 /\ passed'[i].tx.seq < deliver'.seq[passed'[i].tx.key]
      <4>1. CASE i \in 1 .. Len(passed)
        BY <1>0, <1>3, <2>4, <2>5, <4>1, EntryParts DEF AntePasses, IInv
      <4>2. CASE i = Len(passed) + 1
        BY <1>0, <1>3, <2>2, <2>4, <4>2 DEF AntePasses, IInv
      <4>3. QED
        BY <1>0, <2>4, <4>1, <4>2
    <3>3. QED
      BY <1>3, <3>1, <3>2 DEF AntePasses, IInv
  <2>7. NoReplayInRun'
    <3>1. \A i \in 1 .. Len(passed) : passed[i].tx.key = t.key => passed[i].tx.seq # t.seq
      BY <1>0, <2>2, <2>4, EntryParts DEF IInv
    <3>2. \A i \in 1 .. Len(passed') : i \in 1 .. Len(passed) \/ i = Len(passed) + 1
      BY <1>0, <2>4
    <3>3. SUFFICES ASSUME NEW i \in 1 .. Len(passed'), NEW j \in 1 .. Len(passed'),
                          passed'[i].tx.key = passed'[j].tx.key,
                          passed'[i].tx.seq = passed'[j].tx.seq
                   PROVE  i = j
      OBVIOUS
    <3>4. CASE i \in 1 .. Len(passed) /\ j \in 1 .. Len(passed)
      BY <2>4, <3>3, <3>4 DEF IInv
    <3>5. CASE i \in 1 .. Len(passed) /\ j = Len(passed) + 1
      BY <2>4, <3>1, <3>3, <3>5
    <3>6. CASE i = Len(passed) + 1 /\ j \in 1 .. Len(passed)
      BY <2>4, <3>1, <3>3, <3>6
    <3>7. QED
      BY <3>2, <3>4, <3>5, <3>6
  <2>8. PassedInTime'
    <3>1. t.timeout = 0 \/ height + 1 <= t.timeout
      BY <1>3 DEF AntePasses, AnteOK, TxTimeoutHeight
    <3>2. \A i \in 1 .. Len(passed') : i \in 1 .. Len(passed) \/ i = Len(passed) + 1
      BY <1>0, <2>4
    <3>3. height' = height
      BY <1>3 DEF AntePasses
    <3>4. QED
      BY <2>4, <3>1, <3>2, <3>3 DEF IInv
  <2>9. QED
    BY <2>6, <2>7, <2>8
<1>4. CASE AnteRefuses \/ MsgSucceeds \/ MsgFails
  BY <1>4 DEF IInv, AnteRefuses, MsgSucceeds, MsgFails
<1>5. CASE WriteCache
  <2>1. deliver'.seq = deliver.seq
    BY <1>5 DEF WriteCache, IInv, TypeOK, AppState
  <2>2. QED
    BY <1>5, <2>1 DEF WriteCache, IInv
<1>6. CASE Commit
  <2>1. /\ committed' = deliver /\ deliver' = deliver
        /\ ledger' = ledger \o passed /\ passed' = <<>>
    BY <1>6 DEF Commit
  <2>2. \A i \in 1 .. Len(ledger') : ledger'[i].tx.seq < deliver.seq[ledger'[i].tx.key]
    <3> SUFFICES ASSUME NEW i \in 1 .. Len(ledger')
                 PROVE  ledger'[i].tx.seq < deliver.seq[ledger'[i].tx.key]
      OBVIOUS
    <3>1. CASE i \in 1 .. Len(ledger)
      <4>1. ledger'[i] = ledger[i] /\ ledger[i] \in Entry
        BY <1>0, <2>1, <3>1
      <4>2. ledger[i].tx.seq < committed.seq[ledger[i].tx.key]
        BY <3>1 DEF IInv
      <4> DEFINE k == ledger[i].tx.key
                 s == ledger[i].tx.seq
      <4>3. k \in Accounts /\ s \in Nat
        BY <4>1, EntryParts
      <4> HIDE DEF k, s
      <4>4. committed.seq[k] \in Nat /\ deliver.seq[k] \in Nat
        BY <1>0, <4>3
      <4>5. committed.seq[k] <= deliver.seq[k]
        BY <4>3 DEF IInv
      <4>6. s < deliver.seq[k]
        BY <4>2, <4>3, <4>4, <4>5 DEF k, s
      <4>7. QED
        BY <4>1, <4>6 DEF k, s
    <3>2. CASE i \notin 1 .. Len(ledger)
      <4>1. /\ i - Len(ledger) \in 1 .. Len(passed)
            /\ ledger'[i] = passed[i - Len(ledger)]
        BY <1>0, <2>1, <3>2
      <4>2. QED
        BY <4>1 DEF IInv
    <3>3. QED
      BY <3>1, <3>2
  <2>3. QED
    BY <1>0, <2>1, <2>2
<1>7. QED
  BY <1>1, <1>2, <1>3, <1>4, <1>5, <1>6, NextCases DEF IInv

(* What is committed is what passed the ante handler, in order.            *)
LEMMA LedgerStep ==
    ASSUME IInv, [Next]_vars
    PROVE  NoReplay' /\ TimeoutRespected'
<1>1. CASE UNCHANGED ledger
  BY <1>1 DEF IInv, NoReplay, TimeoutRespected
<1>2. CASE Commit
  <2>1. /\ passed \in Seq(Entry)
        /\ ledger \in Seq(Entry)
        /\ committed.seq \in [Accounts -> Nat]
        /\ ledger' = ledger \o passed
    BY <1>2 DEF Commit, IInv, TypeOK, AppState
  <2> DEFINE n == Len(ledger)
  <2>2. \A i \in 1 .. Len(ledger') :
           \/ i \in 1 .. n /\ ledger'[i] = ledger[i] /\ ledger[i] \in Entry
           \/ /\ i \in Nat /\ i > n /\ i - n \in 1 .. Len(passed)
              /\ ledger'[i] = passed[i - n] /\ passed[i - n] \in Entry
    BY <2>1
  <2>3. ASSUME NEW i \in 1 .. n, NEW j \in 1 .. Len(passed),
               ledger[i].tx.key = passed[j].tx.key
        PROVE  ledger[i].tx.seq # passed[j].tx.seq
    <3>1. ledger[i] \in Entry /\ passed[j] \in Entry
      BY <2>1
    <3>2. /\ ledger[i].tx.seq < committed.seq[ledger[i].tx.key]
          /\ committed.seq[passed[j].tx.key] <= passed[j].tx.seq
      BY DEF IInv, SequenceOrder
    <3>3. QED
      BY <2>1, <2>3, <3>1, <3>2, EntryParts
  <2>4. NoReplay'
    <3> SUFFICES ASSUME NEW i \in 1 .. Len(ledger'), NEW j \in 1 .. Len(ledger'),
                        ledger'[i].tx.key = ledger'[j].tx.key,
                        ledger'[i].tx.seq = ledger'[j].tx.seq
                 PROVE  i = j
      BY DEF NoReplay
    <3>0. /\ \/ i \in 1 .. n /\ ledger'[i] = ledger[i]
             \/ i - n \in 1 .. Len(passed) /\ ledger'[i] = passed[i - n]
          /\ \/ j \in 1 .. n /\ ledger'[j] = ledger[j]
             \/ j - n \in 1 .. Len(passed) /\ ledger'[j] = passed[j - n]
      BY <2>2
    <3>1. CASE i \in 1 .. n /\ ledger'[i] = ledger[i] /\ j \in 1 .. n /\ ledger'[j] = ledger[j]
      BY <3>1 DEF IInv, NoReplay
    <3>2. CASE /\ i \in 1 .. n /\ ledger'[i] = ledger[i]
               /\ j - n \in 1 .. Len(passed) /\ ledger'[j] = passed[j - n]
      <4>1. ledger[i].tx.seq # passed[j - n].tx.seq
        BY <2>3, <3>2
      <4>2. QED
        BY <3>2, <4>1
    <3>3. CASE /\ i - n \in 1 .. Len(passed) /\ ledger'[i] = passed[i - n]
               /\ j \in 1 .. n /\ ledger'[j] = ledger[j]
      <4>1. ledger[j].tx.seq # passed[i - n].tx.seq
        BY <2>3, <3>3
      <4>2. QED
        BY <3>3, <4>1
    <3>4. CASE /\ i - n \in 1 .. Len(passed) /\ ledger'[i] = passed[i - n]
               /\ j - n \in 1 .. Len(passed) /\ ledger'[j] = passed[j - n]
      <4>1. i - n = j - n
        BY <3>4 DEF IInv, NoReplayInRun
      <4>2. n \in Nat /\ i \in Int /\ j \in Int
        BY <2>1
      <4>3. QED
        BY <4>1, <4>2
    <3>5. QED
      BY <3>0, <3>1, <3>2, <3>3, <3>4
  <2>5. TimeoutRespected'
    BY <2>2 DEF IInv, TimeoutRespected, PassedInTime
  <2>6. QED
    BY <2>4, <2>5
<1>3. QED
  BY <1>1, <1>2, NextCases
     DEF IInv, Restarts, Keeps, AntePasses, AnteRefuses, MsgSucceeds, MsgFails, WriteCache

(* The transaction whose messages run is the last one that passed.         *)
LEMMA RunningStep ==
    ASSUME IInv, [Next]_vars
    PROVE  RunningIsSigned'
<1> USE DEF RunningIsSigned, Executing
<1>1. CASE Restarts
  BY <1>1 DEF Restarts, Execute
<1>2. CASE Keeps
  BY <1>2 DEF IInv, Keeps, blockVars
<1>3. CASE AntePasses
  <2>1. run[pos] \in Txs /\ deliver \in AppState /\ height + 1 \in Nat /\ passed \in Seq(Entry)
    BY <1>3, RunningTx DEF AntePasses, IInv, TypeOK
  <2>2. \A i \in 1 .. Len(run[pos].msgs) : run[pos].msgs[i].owner = run[pos].key
    BY <1>3, <2>1, AnteWrites DEF AntePasses
  <2>3. [tx |-> run[pos], height |-> height + 1] \in Entry
    BY <2>1 DEF Entry
  <2>4. Len(passed') > 0 /\ passed'[Len(passed')].tx = run[pos]
    BY <1>3, <2>1, <2>3 DEF AntePasses
  <2>5. QED
    BY <1>3, <2>2, <2>4 DEF AntePasses
<1>4. CASE AnteRefuses \/ MsgFails \/ WriteCache
  BY <1>4 DEF AnteRefuses, MsgFails, WriteCache, NextTx
<1>5. CASE MsgSucceeds
  BY <1>5 DEF IInv, MsgSucceeds
<1>6. CASE Commit
  BY <1>6 DEF Commit
<1>7. QED
  BY <1>1, <1>2, <1>3, <1>4, <1>5, <1>6, NextCases DEF IInv

(* A signature that is in the log stays there.                             *)
LEMMA SignedByAppend ==
    ASSUME NEW a, NEW d, NEW log \in Seq(Entry), NEW e \in Entry, SignedBy(a, d, log)
    PROVE  SignedBy(a, d, Append(log, e))
<1>1. Len(Append(log, e)) = Len(log) + 1 /\ \A i \in 1 .. Len(log) : Append(log, e)[i] = log[i]
  OBVIOUS
<1>2. 1 .. Len(log) \subseteq 1 .. (Len(log) + 1)
  OBVIOUS
<1>3. QED
  BY <1>1, <1>2 DEF SignedBy

(* Each branch differs from the committed store only where an owner signed. *)
LEMMA BranchStep ==
    ASSUME IInv, [Next]_vars
    PROVE  BranchesSigned'
<1> USE DEF BranchesSigned, BranchSigned
<1>1. CASE Restarts
  BY <1>1 DEF Restarts, Execute, Executing
<1>2. CASE Keeps
  BY <1>2 DEF IInv, Keeps, blockVars, Executing
<1>3. CASE AntePasses
  <2>1. run[pos] \in Txs /\ deliver \in AppState /\ height + 1 \in Nat /\ passed \in Seq(Entry)
    BY <1>3, RunningTx DEF AntePasses, IInv, TypeOK
  <2>2. deliver'.denoms = deliver.denoms
    BY <1>3, <2>1, AnteWrites DEF AntePasses
  <2>3. [tx |-> run[pos], height |-> height + 1] \in Entry
    BY <2>1 DEF Entry
  <2>4. \A a, d : SignedBy(a, d, passed) => SignedBy(a, d, passed')
    BY <1>3, <2>1, <2>3, SignedByAppend DEF AntePasses
  <2>5. committed' = committed /\ cache' = deliver.denoms
    BY <1>3 DEF AntePasses
  <2>6. QED
    BY <2>2, <2>4, <2>5 DEF IInv
<1>4. CASE AnteRefuses \/ MsgFails
  BY <1>4 DEF IInv, AnteRefuses, MsgFails, NextTx, Executing
<1>5. CASE MsgSucceeds
  <2>1. /\ Executing /\ msgIdx > 0 /\ msgIdx \in 1 .. Len(run[pos].msgs)
        /\ cache' = Handle(cache, RunningMsg)
        /\ HandlerOK(cache, RunningMsg)
        /\ UNCHANGED <<committed, deliver, passed>>
    BY <1>5 DEF MsgSucceeds
  <2>2. cache \in Store /\ RunningMsg \in Msg /\ passed \in Seq(Entry)
    BY <2>1, RunningTx DEF IInv, TypeOK, RunningMsg
  <2>3. /\ Len(passed) \in 1 .. Len(passed)
        /\ passed[Len(passed)].tx = run[pos]
        /\ RunningMsg.owner = run[pos].key
    BY <2>1, <2>2 DEF IInv, RunningIsSigned, RunningMsg
  <2>4. ASSUME NEW d \in Denoms, Found(committed.denoms, d),
               Handle(cache, RunningMsg)[d] # committed.denoms[d]
        PROVE  SignedBy(committed.denoms[d].owner, d, passed)
    <3>1. CASE cache[d] # committed.denoms[d]
      BY <2>1, <2>4, <3>1 DEF IInv
    <3>2. CASE cache[d] = committed.denoms[d]
      <4>1. Found(cache, d) /\ Handle(cache, RunningMsg)[d] # cache[d]
        BY <2>4, <3>2 DEF Found, GetDenom
      <4>2. /\ RunningMsg \notin ParamsMsg /\ RunningMsg.denom = d
            /\ RunningMsg.owner = committed.denoms[d].owner
        BY <2>1, <2>2, <3>2, <4>1, HandleChanges
      <4>3. QED
        BY <2>1, <2>3, <4>2 DEF SignedBy, RunningMsg
    <3>3. QED
      BY <3>1, <3>2
  <2>5. QED
    BY <2>1, <2>4 DEF IInv
<1>6. CASE WriteCache
  <2>1. deliver'.denoms = cache
    BY <1>6 DEF WriteCache, IInv, TypeOK, AppState
  <2>2. Executing /\ msgIdx > 0
    BY <1>6, RunningTx DEF WriteCache, IInv
  <2>3. BranchSigned(cache)
    BY <2>2 DEF IInv
  <2>4. UNCHANGED <<committed, passed>> /\ msgIdx' = 0
    BY <1>6 DEF WriteCache, NextTx
  <2>5. QED
    BY <2>1, <2>3, <2>4
<1>7. CASE Commit
  BY <1>7 DEF Commit, Executing
<1>8. QED
  BY <1>1, <1>2, <1>3, <1>4, <1>5, <1>6, <1>7, NextCases DEF IInv

-----------------------------------------------------------------------------
(* The invariant holds initially and every step preserves it.              *)
LEMMA InitInv == Init => IInv
<1> SUFFICES ASSUME Init PROVE IInv
  OBVIOUS
<1>1. TypeOK
  BY InitType
<1>2. FeePerSequence
  BY FundsAssumption DEF Init, GenesisState, FeePerSequence
<1>3. SequenceOrder /\ NoReplayInRun /\ PassedInTime /\ NoReplay /\ TimeoutRespected
  BY DEF Init, GenesisState, SequenceOrder, NoReplayInRun, PassedInTime, NoReplay, TimeoutRespected
<1>4. RunningIsSigned /\ BranchesSigned
  BY DEF Init, RunningIsSigned, BranchesSigned, BranchSigned, Executing
<1>5. QED
  BY <1>1, <1>2, <1>3, <1>4 DEF IInv

(* Every step preserves the invariant.                                     *)
LEMMA InvStep == IInv /\ [Next]_vars => IInv'
<1> SUFFICES ASSUME IInv, [Next]_vars PROVE IInv'
  OBVIOUS
<1>1. TypeOK'
  BY TypeStep DEF IInv
<1>2. QED
  BY <1>1, FeeStep, SequenceStep, LedgerStep, RunningStep, BranchStep DEF IInv

(* The invariant holds in every behaviour.                                 *)
THEOREM InvCorrect == Spec => []IInv
  BY InitInv, InvStep, PTL DEF Spec

(***************************************************************************)
(* For any set of transactions and blocks, and any number of crashes:      *)
(* every account has paid one fee for each sequence number it has used, on *)
(* the committed state and on the branch of the block in execution.        *)
(***************************************************************************)
THEOREM FeePerSequenceHolds == Spec => []FeePerSequence
<1>1. IInv => FeePerSequence
  BY DEF IInv
<1>2. QED
  BY <1>1, InvCorrect, PTL

(***************************************************************************)
(* No two committed transactions that passed the ante handler have the     *)
(* same signer and sequence number.                                        *)
(***************************************************************************)
THEOREM NoReplayHolds == Spec => []NoReplay
<1>1. IInv => NoReplay
  BY DEF IInv
<1>2. QED
  BY <1>1, InvCorrect, PTL

(***************************************************************************)
(* No committed transaction ran at a height above its timeout height.      *)
(***************************************************************************)
THEOREM TimeoutRespectedHolds == Spec => []TimeoutRespected
<1>1. IInv => TimeoutRespected
  BY DEF IInv
<1>2. QED
  BY <1>1, InvCorrect, PTL

(***************************************************************************)
(* The committed record of a denom changes only in a step that commits a   *)
(* block in which its owner signed a transaction that names the denom.     *)
(***************************************************************************)
THEOREM OnlyOwnerChangesHolds == Spec => OnlyOwnerChanges
<1> DEFINE Signed ==
        \A d \in Denoms :
            Found(committed.denoms, d) /\ committed'.denoms[d] # committed.denoms[d]
                => SignedBy(committed.denoms[d].owner, d, passed)
<1>1. IInv /\ [Next]_vars => [Signed]_vars
  <2> SUFFICES ASSUME IInv, [Next]_vars PROVE Signed
    OBVIOUS
  <2>1. CASE committed' = committed
    BY <2>1
  <2>2. CASE Commit
    BY <2>2 DEF Commit, IInv, BranchesSigned, BranchSigned
  <2>3. QED
    BY <2>1, <2>2, NextCases
       DEF IInv, Restarts, Keeps, AntePasses, AnteRefuses, MsgSucceeds, MsgFails, WriteCache
<1>2. QED
  BY <1>1, InvCorrect, PTL DEF Spec, OnlyOwnerChanges

-----------------------------------------------------------------------------
(* The refinement of DenomLedger.  Its operators are those of AnteHandler   *)
(* and TokenFactory.                                                       *)

\* The ledger runs the same message handlers.
LEMMA SameHandlers ==
    ASSUME NEW store, NEW m
    PROVE  /\ Ledger!HandlerOK(store, m) <=> HandlerOK(store, m)
           /\ Ledger!Handle(store, m) = Handle(store, m)
<1>1. Ledger!HandlerOK(store, m) <=> HandlerOK(store, m)
  BY DEF Ledger!HandlerOK, HandlerOK, Ledger!CreateDenomOK, CreateDenomOK,
         Ledger!UpdateDenomOK, UpdateDenomOK, Ledger!DeleteDenomOK, DeleteDenomOK,
         Ledger!UpdateParamsOK, UpdateParamsOK, Ledger!Found, Found, Ledger!GetDenom, GetDenom
<1>2. Ledger!RecordOf(m) = RecordOf(m)
  BY DEF Ledger!RecordOf, RecordOf
<1>3. Ledger!Handle(store, m) = Handle(store, m)
  BY <1>2 DEF Ledger!Handle, Handle, Ledger!CreateDenom, CreateDenom, Ledger!UpdateDenom,
     UpdateDenom, Ledger!DeleteDenom, DeleteDenom, Ledger!SetDenom, SetDenom,
     Ledger!RemoveDenom, RemoveDenom
<1>4. QED
  BY <1>1, <1>3

\* The ledger runs the same ante handler.
LEMMA SameAnte ==
    ASSUME NEW st, NEW tx, NEW h
    PROVE  /\ Ledger!AnteOK(st, tx, h) <=> AnteOK(st, tx, h)
           /\ Ledger!AnteEffect(st, tx) = AnteEffect(st, tx)
<1>1. Ledger!Signer(tx) = Signer(tx)
  BY DEF Ledger!Signer, Signer
<1>2. Ledger!AnteOK(st, tx, h) <=> AnteOK(st, tx, h)
  BY <1>1 DEF Ledger!AnteOK, AnteOK, Ledger!TxTimeoutHeight, TxTimeoutHeight,
     Ledger!CanPayFee, CanPayFee, Ledger!SigVerification, SigVerification
<1>3. Ledger!AnteEffect(st, tx) = AnteEffect(st, tx)
  BY <1>1 DEF Ledger!AnteEffect, AnteEffect, Ledger!IncrementSequence, IncrementSequence,
     Ledger!DeductFee, DeductFee
<1>4. QED
  BY <1>2, <1>3

\* A branch on which messages run, and whether none of them has failed.
Branch == [denoms : Store, ok : BOOLEAN]

(***************************************************************************)
(* A message either writes to the branch or marks it as failed, for good.  *)
(***************************************************************************)
LEMMA ApplyMsgWrites ==
    ASSUME NEW br \in Branch, NEW m \in Msg
    PROVE  /\ Ledger!ApplyMsg(br, m) \in Branch
           /\ ~ br.ok => ~ Ledger!ApplyMsg(br, m).ok
           /\ br.ok /\ HandlerOK(br.denoms, m) =>
                Ledger!ApplyMsg(br, m) = [denoms |-> Handle(br.denoms, m), ok |-> TRUE]
           /\ br.ok /\ ~ HandlerOK(br.denoms, m) => ~ Ledger!ApplyMsg(br, m).ok
<1>1. br.denoms \in Store /\ br.ok \in BOOLEAN /\ br = [denoms |-> br.denoms, ok |-> br.ok]
  BY DEF Branch
<1>2. Ledger!ApplyMsg(br, m) = IF br.ok /\ HandlerOK(br.denoms, m)
                               THEN [br EXCEPT !.denoms = Handle(@, m)]
                               ELSE [br EXCEPT !.ok = FALSE]
  BY SameHandlers DEF Ledger!ApplyMsg
<1>3. CASE br.ok /\ HandlerOK(br.denoms, m)
  <2>1. Handle(br.denoms, m) \in Store
    BY <1>1, <1>3, HandleType
  <2>2. Ledger!ApplyMsg(br, m) = [denoms |-> Handle(br.denoms, m), ok |-> TRUE]
    BY <1>1, <1>2, <1>3
  <2>3. QED
    BY <1>3, <2>1, <2>2 DEF Branch
<1>4. CASE ~ (br.ok /\ HandlerOK(br.denoms, m))
  <2>1. Ledger!ApplyMsg(br, m) = [denoms |-> br.denoms, ok |-> FALSE]
    BY <1>1, <1>2, <1>4
  <2>2. QED
    BY <1>1, <1>4, <2>1 DEF Branch
<1>5. QED
  BY <1>3, <1>4

\* The messages of a transaction as steps on branches, and the branch before
\* the first of them.
MsgSteps(msgs) == [i \in 1 .. Len(msgs) |-> [br \in Branch |-> Ledger!ApplyMsg(br, msgs[i])]]

Fresh(store) == [denoms |-> store, ok |-> TRUE]

\* q holds the branch after every number of messages.
MsgPrefixes(q, store, msgs) == StepPrefixes(q, Len(msgs), Branch, Fresh(store), MsgSteps(msgs))

(***************************************************************************)
(* DenomLedger's ApplyMsgs goes through the messages one by one.           *)
(***************************************************************************)
LEMMA MsgsFold ==
    ASSUME NEW store \in Store, NEW msgs \in Seq(Msg)
    PROVE  \E q : /\ MsgPrefixes(q, store, msgs)
                  /\ Ledger!ApplyMsgs(store, msgs) =
                       IF q[Len(msgs)].ok THEN q[Len(msgs)].denoms ELSE store
<1> DEFINE n == Len(msgs)
           step == MsgSteps(msgs)
           base == Fresh(store)
           mx(s) == CHOOSE x \in s : \A y \in s : x >= y
           Eq(g) == g = [s \in SUBSET (DOMAIN msgs) |->
                           IF s = {} THEN base
                           ELSE Ledger!ApplyMsg(g[s \ {mx(s)}], msgs[mx(s)])]
           it == CHOOSE g : Eq(g)
<1>1. n \in Nat /\ DOMAIN msgs = 1 .. n /\ \A i \in 1 .. n : msgs[i] \in Msg
  OBVIOUS
<1>2. base \in Branch
  BY DEF Branch, Fresh
<1>3. step \in [1 .. n -> [Branch -> Branch]]
  BY <1>1, ApplyMsgWrites DEF MsgSteps
<1>4. Ledger!ApplyMsgs(store, msgs) = IF it[DOMAIN msgs].ok THEN it[DOMAIN msgs].denoms ELSE store
  BY DEF Ledger!ApplyMsgs, Ledger!FoldLeft, Ledger!MapThenFoldSet, Ledger!Max, Fresh
<1>5. ASSUME NEW s \in (SUBSET (1 .. n)) \ {{}}
      PROVE  mx(s) = Largest(n)[s] /\ Largest(n)[s] \in s
  BY <1>1, LargestPicks DEF Largest, Picks
<1>6. \A i \in 1 .. n : \A br \in Branch : step[i][br] = Ledger!ApplyMsg(br, msgs[i])
  BY DEF MsgSteps
<1> HIDE DEF step, base, mx
<1>7. \E g : Eq(g)
  <2>1. PICK g : FoldsSubsets(g, 1 .. n, Branch, base, Largest(n), step)
    BY <1>1, <1>2, <1>3, SequenceFold
  <2>2. ASSUME NEW s \in (SUBSET (1 .. n)) \ {{}}
        PROVE  g[s] = Ledger!ApplyMsg(g[s \ {mx(s)}], msgs[mx(s)])
    <3>1. mx(s) \in 1 .. n /\ s \ {mx(s)} \in SUBSET (1 .. n)
      BY <1>5
    <3>2. g[s \ {mx(s)}] \in Branch
      BY <2>1, <3>1 DEF FoldsSubsets
    <3>3. g[s] = step[mx(s)][g[s \ {mx(s)}]]
      BY <1>5, <2>1 DEF FoldsSubsets
    <3>4. QED
      BY <1>6, <3>1, <3>2, <3>3
  <2>3. g[{}] = base /\ g \in [SUBSET (1 .. n) -> Branch]
    BY <2>1 DEF FoldsSubsets
  <2>4. Eq(g)
    BY <1>1, <2>2, <2>3
  <2>5. QED
    BY <2>4
<1>8. Eq(it)
  <2> HIDE DEF Eq
  <2>1. QED
    BY <1>7, Zenon
<1> HIDE DEF it
<1>9. FollowsFold(it, 1 .. n, Branch, base, Largest(n), step)
  <2>1. it[{}] = base
    BY <1>8
  <2>2. ASSUME NEW s \in (SUBSET (1 .. n)) \ {{}}, it[s \ {Largest(n)[s]}] \in Branch
        PROVE  it[s] = step[Largest(n)[s]][it[s \ {Largest(n)[s]}]]
    <3>1. it[s] = Ledger!ApplyMsg(it[s \ {mx(s)}], msgs[mx(s)])
      BY <1>1, <1>8
    <3>2. mx(s) = Largest(n)[s] /\ mx(s) \in 1 .. n
      BY <1>5
    <3>3. QED
      BY <1>6, <2>2, <3>1, <3>2
  <2>3. QED
    BY <2>1, <2>2 DEF FollowsFold
<1>10. PICK q : StepPrefixes(q, n, Branch, base, step) /\ it[1 .. n] = q[n]
  BY <1>1, <1>2, <1>3, <1>9, SequenceFold
<1>11. QED
  BY <1>1, <1>4, <1>10 DEF MsgPrefixes, base, step

(***************************************************************************)
(* A transaction leaves nothing, its fee, or its fee and all its messages. *)
(***************************************************************************)
LEMMA ApplyTxWrites ==
    ASSUME NEW st \in AppState, NEW tx \in Txs, NEW h \in Nat
    PROVE  /\ Ledger!ApplyTx(st, tx, h) \in AppState
           /\ ~ AnteOK(st, tx, h) => Ledger!ApplyTx(st, tx, h) = st
           /\ AnteOK(st, tx, h) =>
                Ledger!ApplyTx(st, tx, h) =
                  [AnteEffect(st, tx) EXCEPT !.denoms = Ledger!ApplyMsgs(st.denoms, tx.msgs)]
<1>1. Ledger!ApplyTx(st, tx, h) =
         IF AnteOK(st, tx, h)
         THEN [AnteEffect(st, tx) EXCEPT !.denoms = Ledger!ApplyMsgs(@, tx.msgs)]
         ELSE st
  BY SameAnte DEF Ledger!ApplyTx
<1>2. CASE AnteOK(st, tx, h)
  <2> DEFINE e == AnteEffect(st, tx)
             sto == Ledger!ApplyMsgs(st.denoms, tx.msgs)
  <2>1. e \in AppState /\ e.denoms = st.denoms /\ st.denoms \in Store
    BY <1>2, AnteWrites DEF AppState
  <2>2. tx.msgs \in Seq(Msg)
    BY TxsAssumption
  <2>3. sto \in Store
    <3>1. PICK q : /\ MsgPrefixes(q, st.denoms, tx.msgs)
                   /\ sto = IF q[Len(tx.msgs)].ok THEN q[Len(tx.msgs)].denoms ELSE st.denoms
      BY <2>1, <2>2, MsgsFold
    <3>2. q \in [0 .. Len(tx.msgs) -> Branch] /\ Len(tx.msgs) \in 0 .. Len(tx.msgs)
      BY <2>2, <3>1 DEF MsgPrefixes, StepPrefixes
    <3>3. q[Len(tx.msgs)].denoms \in Store
      BY <3>2 DEF Branch
    <3>4. QED
      BY <2>1, <3>1, <3>3
  <2>4. Ledger!ApplyTx(st, tx, h) = [e EXCEPT !.denoms = sto]
    BY <1>1, <1>2, <2>1
  <2> HIDE DEF e, sto
  <2>5. [e EXCEPT !.denoms = sto] \in AppState
    BY <2>1, <2>3 DEF AppState
  <2>6. QED
    BY <1>2, <2>4, <2>5 DEF e, sto
<1>3. CASE ~ AnteOK(st, tx, h)
  BY <1>1, <1>3
<1>4. QED
  BY <1>2, <1>3

\* The transactions of a block at height h as steps on the state; r holds the
\* state after every number of them.
TxSteps(b, h) == [i \in 1 .. Len(b) |-> [st \in AppState |-> Ledger!ApplyTx(st, b[i], h)]]

TxPrefixes(r, st, b, h) == StepPrefixes(r, Len(b), AppState, st, TxSteps(b, h))

(***************************************************************************)
(* DenomLedger's ApplyBlock goes through the transactions one by one.      *)
(***************************************************************************)
LEMMA BlockFold ==
    ASSUME NEW st \in AppState, NEW b \in Seq(Txs), NEW h \in Nat
    PROVE  \E r : TxPrefixes(r, st, b, h) /\ Ledger!ApplyBlock(st, b, h) = r[Len(b)]
<1> DEFINE n == Len(b)
           step == TxSteps(b, h)
           mx(s) == CHOOSE x \in s : \A y \in s : x >= y
           Eq(g) == g = [s \in SUBSET (DOMAIN b) |->
                           IF s = {} THEN st
                           ELSE Ledger!ApplyTx(g[s \ {mx(s)}], b[mx(s)], h)]
           it == CHOOSE g : Eq(g)
<1>1. n \in Nat /\ DOMAIN b = 1 .. n /\ \A i \in 1 .. n : b[i] \in Txs
  OBVIOUS
<1>2. step \in [1 .. n -> [AppState -> AppState]]
  BY <1>1, ApplyTxWrites DEF TxSteps
<1>3. Ledger!ApplyBlock(st, b, h) = it[DOMAIN b]
  BY DEF Ledger!ApplyBlock, Ledger!FoldLeft, Ledger!MapThenFoldSet, Ledger!Max
<1>4. ASSUME NEW s \in (SUBSET (1 .. n)) \ {{}}
      PROVE  mx(s) = Largest(n)[s] /\ Largest(n)[s] \in s
  BY <1>1, LargestPicks DEF Largest, Picks
<1>5. \A i \in 1 .. n : \A x \in AppState : step[i][x] = Ledger!ApplyTx(x, b[i], h)
  BY DEF TxSteps
<1> HIDE DEF step, mx
<1>6. \E g : Eq(g)
  <2>1. PICK g : FoldsSubsets(g, 1 .. n, AppState, st, Largest(n), step)
    BY <1>1, <1>2, SequenceFold
  <2>2. ASSUME NEW s \in (SUBSET (1 .. n)) \ {{}}
        PROVE  g[s] = Ledger!ApplyTx(g[s \ {mx(s)}], b[mx(s)], h)
    <3>1. mx(s) \in 1 .. n /\ s \ {mx(s)} \in SUBSET (1 .. n)
      BY <1>4
    <3>2. g[s \ {mx(s)}] \in AppState
      BY <2>1, <3>1 DEF FoldsSubsets
    <3>3. g[s] = step[mx(s)][g[s \ {mx(s)}]]
      BY <1>4, <2>1 DEF FoldsSubsets
    <3>4. QED
      BY <1>5, <3>1, <3>2, <3>3
  <2>3. g[{}] = st /\ g \in [SUBSET (1 .. n) -> AppState]
    BY <2>1 DEF FoldsSubsets
  <2>4. Eq(g)
    BY <1>1, <2>2, <2>3
  <2>5. QED
    BY <2>4
<1>7. Eq(it)
  <2> HIDE DEF Eq
  <2>1. QED
    BY <1>6, Zenon
<1> HIDE DEF it
<1>8. FollowsFold(it, 1 .. n, AppState, st, Largest(n), step)
  <2>1. it[{}] = st
    BY <1>7
  <2>2. ASSUME NEW s \in (SUBSET (1 .. n)) \ {{}}, it[s \ {Largest(n)[s]}] \in AppState
        PROVE  it[s] = step[Largest(n)[s]][it[s \ {Largest(n)[s]}]]
    <3>1. it[s] = Ledger!ApplyTx(it[s \ {mx(s)}], b[mx(s)], h)
      BY <1>1, <1>7
    <3>2. mx(s) = Largest(n)[s] /\ mx(s) \in 1 .. n
      BY <1>4
    <3>3. QED
      BY <1>5, <2>2, <3>1, <3>2
  <2>3. QED
    BY <2>1, <2>2 DEF FollowsFold
<1>9. n \in Nat
  BY <1>1
<1> HIDE DEF n
<1>10. \A g : FollowsFold(g, 1 .. n, AppState, st, Largest(n), step) =>
          \E r : StepPrefixes(r, n, AppState, st, step) /\ g[1 .. n] = r[n]
  BY <1>2, <1>9, SequenceFold
<1>11. PICK r : StepPrefixes(r, n, AppState, st, step) /\ it[1 .. n] = r[n]
  BY <1>8, <1>10
<1>12. QED
  BY <1>1, <1>3, <1>11 DEF TxPrefixes, step, n

\* A prefix of a block is the shorter prefix and one transaction.
LEMMA TxPrefixStep ==
    ASSUME NEW r, NEW st, NEW b \in Seq(Txs), NEW h \in Nat, TxPrefixes(r, st, b, h),
           NEW k \in 1 .. Len(b)
    PROVE  r[k - 1] \in AppState /\ r[k] = Ledger!ApplyTx(r[k - 1], b[k], h)
<1>1. Len(b) \in Nat /\ k - 1 \in 0 .. Len(b)
  OBVIOUS
<1>2. r[k - 1] \in AppState /\ r[k] = TxSteps(b, h)[k][r[k - 1]]
  BY <1>1 DEF TxPrefixes, StepPrefixes
<1>3. QED
  BY <1>2 DEF TxSteps

\* A prefix of the messages is the shorter prefix and one message.
LEMMA MsgPrefixStep ==
    ASSUME NEW q, NEW store, NEW msgs \in Seq(Msg), MsgPrefixes(q, store, msgs),
           NEW k \in 1 .. Len(msgs)
    PROVE  /\ q[k - 1] \in Branch /\ msgs[k] \in Msg
           /\ q[k] = Ledger!ApplyMsg(q[k - 1], msgs[k])
<1>1. Len(msgs) \in Nat /\ k - 1 \in 0 .. Len(msgs) /\ msgs[k] \in Msg
  OBVIOUS
<1>2. q[k - 1] \in Branch /\ q[k] = MsgSteps(msgs)[k][q[k - 1]]
  BY <1>1 DEF MsgPrefixes, StepPrefixes
<1>3. QED
  BY <1>1, <1>2 DEF MsgSteps

(***************************************************************************)
(* No message after a failed one makes up for it.                          *)
(***************************************************************************)
LEMMA StaysFailed ==
    ASSUME NEW q, NEW store, NEW msgs \in Seq(Msg), MsgPrefixes(q, store, msgs),
           NEW k \in 0 .. Len(msgs), ~ q[k].ok
    PROVE  ~ q[Len(msgs)].ok
<1> DEFINE n == Len(msgs)
           Failed == {i \in Nat : k + i <= n => ~ q[k + i].ok}
<1>1. n \in Nat /\ k \in Nat /\ k <= n
  OBVIOUS
<1>2. 0 \in Failed
  BY <1>1
<1>3. ASSUME NEW i \in Nat, i \in Failed PROVE i + 1 \in Failed
  <2>1. SUFFICES ASSUME k + (i + 1) <= n PROVE ~ q[k + (i + 1)].ok
    OBVIOUS
  <2> DEFINE j == k + (i + 1)
  <2>2. j \in 1 .. n /\ j - 1 = k + i /\ k + i <= n
    BY <1>1, <2>1
  <2> HIDE DEF j
  <2>3. ~ q[j - 1].ok
    BY <1>3, <2>2
  <2>4. q[j - 1] \in Branch /\ msgs[j] \in Msg /\ q[j] = Ledger!ApplyMsg(q[j - 1], msgs[j])
    BY <2>2, MsgPrefixStep
  <2>5. ~ q[j].ok
    BY <2>3, <2>4, ApplyMsgWrites
  <2>6. QED
    BY <2>5 DEF j
<1> HIDE DEF Failed
<1>4. Nat \subseteq Failed
  BY <1>2, <1>3, NatSetInduction
<1>5. n - k \in Failed
  BY <1>1, <1>4
<1>6. k + (n - k) = n
  BY <1>1
<1>7. QED
  BY <1>1, <1>5, <1>6 DEF Failed

-----------------------------------------------------------------------------
(* The block in execution follows the ledger, one message at a time.       *)

InBounds ==
    run # NoBlock =>
        /\ pos <= Len(run) + 1
        /\ msgIdx > 0 => pos <= Len(run) /\ msgIdx <= Len(run[pos].msgs) + 1

\* The state of the block is that of the ledger after the transactions that
\* are done, with the fee of the one that runs.
DeliverFollows ==
    run # NoBlock =>
        \A r : TxPrefixes(r, committed, run, height + 1) =>
            IF msgIdx = 0 THEN deliver = r[pos - 1]
            ELSE /\ AnteOK(r[pos - 1], run[pos], height + 1)
                 /\ deliver = AnteEffect(r[pos - 1], run[pos])

\* The branch is that of the ledger after the messages that are done, none
\* of which has failed.
CacheFollows ==
    run # NoBlock /\ msgIdx > 0 =>
        \A q : MsgPrefixes(q, deliver.denoms, run[pos].msgs) => q[msgIdx - 1] = Fresh(cache)

Follows == InBounds /\ DeliverFollows /\ CacheFollows

(***************************************************************************)
(* The first message finds the store the ledger has.                       *)
(***************************************************************************)
LEMMA AnteFollows ==
    ASSUME TypeOK, Follows, AntePasses \/ AnteRefuses
    PROVE  Follows'
<1>1. /\ run \in Seq(Txs) /\ pos \in 1 .. Len(run) /\ Len(run) \in Nat /\ run # NoBlock
      /\ height + 1 \in Nat /\ msgIdx = 0 /\ deliver \in AppState
      /\ UNCHANGED <<run, committed, height>>
  BY BlocksAssumption DEF TypeOK, AntePasses, AnteRefuses, Executing
<1>2. /\ run[pos] \in Txs /\ run[pos].msgs \in Seq(Msg) /\ Len(run[pos].msgs) \in Nat \ {0}
  BY <1>1, TxsAssumption
<1>3. ASSUME NEW r, TxPrefixes(r, committed, run, height + 1)
      PROVE  /\ deliver = r[pos - 1] /\ r[pos - 1] \in AppState
             /\ r[pos] = Ledger!ApplyTx(r[pos - 1], run[pos], height + 1)
  <2>1. deliver = r[pos - 1]
    BY <1>1, <1>3 DEF Follows, DeliverFollows
  <2>2. r[pos - 1] \in AppState /\ r[pos] = Ledger!ApplyTx(r[pos - 1], run[pos], height + 1)
    BY <1>1, <1>3, TxPrefixStep
  <2>3. QED
    BY <2>1, <2>2
<1>4. CASE AntePasses
  <2>1. /\ AnteOK(deliver, run[pos], height + 1) /\ deliver' = AnteEffect(deliver, run[pos])
        /\ cache' = deliver.denoms /\ msgIdx' = 1 /\ pos' = pos
    BY <1>4 DEF AntePasses
  <2>2. deliver'.denoms = cache'
    BY <1>1, <1>2, <2>1, AnteWrites
  <2>3. InBounds'
    BY <1>1, <1>2, <2>1 DEF InBounds
  <2>4. DeliverFollows'
    BY <1>1, <1>3, <2>1 DEF DeliverFollows
  <2>5. CacheFollows'
    BY <1>1, <2>1, <2>2 DEF CacheFollows, MsgPrefixes, StepPrefixes
  <2>6. QED
    BY <2>3, <2>4, <2>5 DEF Follows
<1>5. CASE AnteRefuses
  <2>1. /\ ~ AnteOK(deliver, run[pos], height + 1) /\ deliver' = deliver
        /\ msgIdx' = 0 /\ pos' = pos + 1
    BY <1>5 DEF AnteRefuses, NextTx
  <2>2. InBounds'
    BY <1>1, <2>1 DEF InBounds
  <2>3. ASSUME NEW r, TxPrefixes(r, committed, run, height + 1) PROVE deliver' = r[pos' - 1]
    <3>1. pos' - 1 = pos
      BY <1>1, <2>1
    <3>2. r[pos] = r[pos - 1]
      BY <1>1, <1>2, <1>3, <2>1, <2>3, ApplyTxWrites
    <3>3. QED
      BY <1>3, <2>1, <2>3, <3>1, <3>2
  <2>4. DeliverFollows'
    BY <1>1, <2>1, <2>3 DEF DeliverFollows
  <2>5. CacheFollows'
    BY <2>1 DEF CacheFollows
  <2>6. QED
    BY <2>2, <2>4, <2>5 DEF Follows
<1>6. QED
  BY <1>4, <1>5

(***************************************************************************)
(* What is known of a transaction whose messages run.                      *)
(***************************************************************************)
LEMMA MessagesRun ==
    ASSUME TypeOK, Follows, Executing, msgIdx > 0
    PROVE  /\ run \in Seq(Txs) /\ pos \in 1 .. Len(run) /\ Len(run) \in Nat
           /\ run # NoBlock /\ height + 1 \in Nat /\ msgIdx \in Nat
           /\ run[pos] \in Txs /\ run[pos].msgs \in Seq(Msg)
           /\ deliver.denoms \in Store /\ cache \in Store
           /\ \A r : TxPrefixes(r, committed, run, height + 1) =>
                /\ deliver \in AppState /\ deliver.denoms = r[pos - 1].denoms
                /\ r[pos] = [deliver EXCEPT !.denoms =
                               Ledger!ApplyMsgs(deliver.denoms, run[pos].msgs)]
<1>1. /\ run \in Seq(Txs) /\ pos \in 1 .. Len(run) /\ Len(run) \in Nat
      /\ run # NoBlock /\ height + 1 \in Nat /\ msgIdx \in Nat
  BY BlocksAssumption DEF TypeOK, Executing
<1>2. run[pos] \in Txs /\ run[pos].msgs \in Seq(Msg)
  BY <1>1, TxsAssumption
<1>3. deliver \in AppState /\ deliver.denoms \in Store /\ cache \in Store
  BY DEF TypeOK, AppState
<1>4. ASSUME NEW r, TxPrefixes(r, committed, run, height + 1)
      PROVE  /\ deliver.denoms = r[pos - 1].denoms
             /\ r[pos] = [deliver EXCEPT !.denoms =
                            Ledger!ApplyMsgs(deliver.denoms, run[pos].msgs)]
  <2> DEFINE st == r[pos - 1]
             tx == run[pos]
             h == height + 1
  <2>1. st \in AppState /\ r[pos] = Ledger!ApplyTx(st, tx, h)
    BY <1>1, <1>4, TxPrefixStep
  <2>2. AnteOK(st, tx, h) /\ deliver = AnteEffect(st, tx)
    BY <1>1, <1>4 DEF Follows, DeliverFollows
  <2>3. tx \in Txs /\ h \in Nat
    BY <1>1, <1>2
  <2> HIDE DEF st, tx, h
  <2>4. deliver.denoms = st.denoms
    BY <2>1, <2>2, <2>3, AnteWrites
  <2>5. r[pos] = [AnteEffect(st, tx) EXCEPT !.denoms = Ledger!ApplyMsgs(st.denoms, tx.msgs)]
    BY <2>1, <2>2, <2>3, ApplyTxWrites
  <2>6. QED
    BY <2>2, <2>4, <2>5 DEF st, tx
<1>5. QED
  BY <1>1, <1>2, <1>3, <1>4

(***************************************************************************)
(* The messages follow the ledger; a failed one drops the branch, and the  *)
(* last one writes it back.                                                *)
(***************************************************************************)
LEMMA MsgsFollow ==
    ASSUME TypeOK, Follows, MsgSucceeds \/ MsgFails \/ WriteCache
    PROVE  Follows'
<1> DEFINE msgs == run[pos].msgs
           n == Len(msgs)
<1>0. Executing /\ msgIdx > 0 /\ UNCHANGED <<run, committed, height>>
  <2>1. Executing /\ UNCHANGED <<run, committed, height>>
    BY DEF MsgSucceeds, MsgFails, WriteCache
  <2>2. Len(run[pos].msgs) \in Nat
    BY <2>1, RunningTx
  <2>3. CASE MsgSucceeds
    BY <2>2, <2>3 DEF MsgSucceeds
  <2>4. CASE MsgFails
    BY <2>2, <2>4 DEF MsgFails
  <2>5. CASE WriteCache
    BY <2>2, <2>5 DEF WriteCache
  <2>6. QED
    BY <2>1, <2>3, <2>4, <2>5
<1>1. /\ run \in Seq(Txs) /\ pos \in 1 .. Len(run) /\ Len(run) \in Nat
      /\ run # NoBlock /\ height + 1 \in Nat /\ msgIdx \in Nat
      /\ msgs \in Seq(Msg) /\ n \in Nat /\ deliver.denoms \in Store /\ cache \in Store
      /\ deliver \in AppState
  BY <1>0, MessagesRun DEF TypeOK
<1>2. ASSUME NEW r, TxPrefixes(r, committed, run, height + 1)
      PROVE  r[pos] = [deliver EXCEPT !.denoms = Ledger!ApplyMsgs(deliver.denoms, msgs)]
  BY <1>0, <1>2, MessagesRun
<1>3. \A q : MsgPrefixes(q, deliver.denoms, msgs) => q[msgIdx - 1] = Fresh(cache)
  BY <1>0, <1>1 DEF Follows, CacheFollows
<1>4. PICK q : /\ MsgPrefixes(q, deliver.denoms, msgs)
               /\ Ledger!ApplyMsgs(deliver.denoms, msgs) =
                    IF q[n].ok THEN q[n].denoms ELSE deliver.denoms
  BY <1>1, MsgsFold
<1>5. Fresh(cache) \in Branch /\ Fresh(cache).ok = TRUE /\ Fresh(cache).denoms = cache
  BY <1>1 DEF Fresh, Branch
<1>6. CASE MsgSucceeds
  <2> DEFINE m == msgs[msgIdx]
  <2>1. /\ msgIdx \in 1 .. n /\ HandlerOK(cache, m) /\ cache' = Handle(cache, m)
        /\ msgIdx' = msgIdx + 1 /\ pos' = pos /\ deliver' = deliver
    BY <1>6 DEF MsgSucceeds, RunningMsg
  <2>2. InBounds'
    BY <1>0, <1>1, <2>1 DEF InBounds
  <2>3. DeliverFollows'
    BY <1>0, <1>1, <2>1 DEF Follows, DeliverFollows
  <2>4. ASSUME NEW p, MsgPrefixes(p, deliver.denoms, msgs) PROVE p[msgIdx] = Fresh(cache')
    <3>1. p[msgIdx - 1] = Fresh(cache)
      BY <1>3, <2>4
    <3>2. m \in Msg /\ p[msgIdx] = Ledger!ApplyMsg(p[msgIdx - 1], m)
      BY <1>1, <2>1, <2>4, MsgPrefixStep
    <3> HIDE DEF m
    <3>3. Ledger!ApplyMsg(Fresh(cache), m) = [denoms |-> Handle(Fresh(cache).denoms, m), ok |-> TRUE]
      BY <1>5, <2>1, <3>2, ApplyMsgWrites
    <3>4. QED
      BY <1>5, <2>1, <3>1, <3>2, <3>3 DEF Fresh
  <2>5. msgIdx' - 1 = msgIdx
    BY <1>1, <2>1
  <2>6. CacheFollows'
    BY <1>0, <2>1, <2>4, <2>5 DEF CacheFollows
  <2>7. QED
    BY <2>2, <2>3, <2>6 DEF Follows
<1>7. ASSUME pos' = pos + 1, msgIdx' = 0,
             deliver' = [deliver EXCEPT !.denoms = Ledger!ApplyMsgs(deliver.denoms, msgs)]
      PROVE  Follows'
  <2>1. pos' - 1 = pos
    BY <1>1, <1>7
  <2>2. InBounds'
    BY <1>0, <1>1, <1>7 DEF InBounds
  <2>3. DeliverFollows'
    BY <1>0, <1>2, <1>7, <2>1 DEF DeliverFollows
  <2>4. CacheFollows'
    BY <1>7 DEF CacheFollows
  <2>5. QED
    BY <2>2, <2>3, <2>4 DEF Follows
<1>8. CASE MsgFails
  <2> DEFINE m == msgs[msgIdx]
  <2>1. /\ msgIdx \in 1 .. n /\ ~ HandlerOK(cache, m)
        /\ msgIdx' = 0 /\ pos' = pos + 1 /\ deliver' = deliver
    BY <1>8 DEF MsgFails, RunningMsg, NextTx
  <2>2. q[msgIdx - 1] = Fresh(cache)
    BY <1>3, <1>4
  <2>3. m \in Msg /\ q[msgIdx] = Ledger!ApplyMsg(q[msgIdx - 1], m)
    BY <1>1, <1>4, <2>1, MsgPrefixStep
  <2> HIDE DEF m
  <2>4. ~ Ledger!ApplyMsg(Fresh(cache), m).ok
    BY <1>5, <2>1, <2>3, ApplyMsgWrites
  <2>5. ~ q[msgIdx].ok /\ msgIdx \in 0 .. n
    BY <1>1, <2>1, <2>2, <2>3, <2>4
  <2>6. ~ q[n].ok
    BY <1>1, <1>4, <2>5, StaysFailed
  <2>7. Ledger!ApplyMsgs(deliver.denoms, msgs) = deliver.denoms
    BY <1>4, <2>6
  <2>8. [deliver EXCEPT !.denoms = deliver.denoms] = deliver
    BY <1>1 DEF AppState
  <2>9. QED
    BY <1>7, <2>1, <2>7, <2>8
<1>9. CASE WriteCache
  <2>1. /\ msgIdx = n + 1 /\ deliver' = [deliver EXCEPT !.denoms = cache]
        /\ msgIdx' = 0 /\ pos' = pos + 1
    BY <1>9 DEF WriteCache, NextTx
  <2>2. q[n] = Fresh(cache)
    <3>1. msgIdx - 1 = n
      BY <1>1, <2>1
    <3>2. QED
      BY <1>3, <1>4, <3>1
  <2>3. Ledger!ApplyMsgs(deliver.denoms, msgs) = cache
    BY <1>4, <1>5, <2>2
  <2>4. QED
    BY <1>7, <2>1, <2>3
<1>10. QED
  BY <1>6, <1>8, <1>9

\* Every step keeps the running block on the ledger's course.
LEMMA FollowsStep == TypeOK /\ Follows /\ [Next]_vars => Follows'
<1> SUFFICES ASSUME TypeOK, Follows, [Next]_vars PROVE Follows'
  OBVIOUS
<1>1. CASE Restarts
  <2>1. PICK b \in Blocks \cup {NoBlock} : Execute(b) /\ UNCHANGED <<committed, height, ledger>>
    BY <1>1 DEF Restarts
  <2>2. /\ run' = b /\ deliver' = committed /\ pos' = 1 /\ msgIdx' = 0
        /\ committed' = committed /\ height' = height
    BY <2>1 DEF Execute
  <2>3. InBounds'
    <3>1. b # NoBlock => Len(b) \in Nat
      BY BlocksAssumption
    <3>2. QED
      BY <2>2, <3>1 DEF InBounds
  <2>4. DeliverFollows'
    BY <2>2 DEF DeliverFollows, TxPrefixes, StepPrefixes
  <2>5. CacheFollows'
    BY <2>2 DEF CacheFollows
  <2>6. QED
    BY <2>3, <2>4, <2>5 DEF Follows
<1>2. CASE Keeps
  BY <1>2 DEF Keeps, blockVars, Follows, InBounds, DeliverFollows, CacheFollows
<1>3. CASE AntePasses \/ AnteRefuses
  BY <1>3, AnteFollows
<1>4. CASE MsgSucceeds \/ MsgFails \/ WriteCache
  BY <1>4, MsgsFollow
<1>5. CASE Commit
  <2>1. run' = NoBlock
    BY <1>5 DEF Commit
  <2>2. QED
    BY <2>1 DEF Follows, InBounds, DeliverFollows, CacheFollows
<1>6. QED
  BY <1>1, <1>2, <1>3, <1>4, <1>5, NextCases

(***************************************************************************)
(* Blocks, branches, speculation, aborts and crashes implement the ledger: *)
(* the committed state moves only by applying a whole decided block once,  *)
(* whatever the transactions and blocks are and wherever the process       *)
(* stops and replays.                                                      *)
(***************************************************************************)
THEOREM LedgerImplemented == Spec => ImplementsLedger
<1> DEFINE Inv == TypeOK /\ Follows
<1>1. Init => Inv /\ Ledger!Init
  <2> SUFFICES ASSUME Init PROVE Inv /\ Ledger!Init
    OBVIOUS
  <2>1. run = NoBlock /\ committed = GenesisState /\ height = 0
    BY DEF Init
  <2>2. Follows
    BY <2>1 DEF Follows, InBounds, DeliverFollows, CacheFollows
  <2>3. Ledger!GenesisState = GenesisState
    BY DEF Ledger!GenesisState, GenesisState, Ledger!EmptyStore, EmptyStore
  <2>4. QED
    BY <2>1, <2>2, <2>3, InitType DEF Ledger!Init
<1>2. Inv /\ [Next]_vars => Inv'
  BY TypeStep, FollowsStep
<1>3. Inv /\ [Next]_vars => [Ledger!Next]_<<committed, height>>
  <2> SUFFICES ASSUME Inv, [Next]_vars PROVE [Ledger!Next]_<<committed, height>>
    OBVIOUS
  <2>1. CASE Commit
    <3>1. /\ run = decided /\ decided # NoBlock /\ ~ Executing
          /\ committed' = deliver /\ height' = height + 1
      BY <2>1 DEF Commit
    <3>2. /\ decided \in Blocks /\ decided \in Seq(Txs) /\ committed \in AppState
          /\ height + 1 \in Nat /\ pos \in Nat /\ msgIdx \in Nat /\ Len(decided) \in Nat
      BY <3>1, BlocksAssumption DEF TypeOK
    <3>3. pos = Len(decided) + 1 /\ msgIdx = 0
      BY <3>1, <3>2 DEF Executing, Follows, InBounds
    <3>4. PICK r : /\ TxPrefixes(r, committed, decided, height + 1)
                   /\ Ledger!ApplyBlock(committed, decided, height + 1) = r[Len(decided)]
      BY <3>2, BlockFold
    <3>5. deliver = r[pos - 1] /\ pos - 1 = Len(decided)
      BY <3>1, <3>2, <3>3, <3>4 DEF Follows, DeliverFollows
    <3>6. committed' = Ledger!ApplyBlock(committed, decided, height + 1)
      BY <3>1, <3>4, <3>5
    <3>7. Ledger!CommitBlock(decided)
      BY <3>1, <3>6 DEF Ledger!CommitBlock
    <3>8. QED
      BY <3>2, <3>7 DEF Ledger!Next
  <2>2. CASE committed' = committed /\ height' = height
    BY <2>2
  <2>3. QED
    BY <2>1, <2>2, NextCases
       DEF Restarts, Keeps, AntePasses, AnteRefuses, MsgSucceeds, MsgFails, WriteCache
<1>4. QED
  BY <1>1, <1>2, <1>3, PTL DEF Spec, ImplementsLedger, Ledger!Spec
=============================================================================
