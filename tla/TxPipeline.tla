----------------------------- MODULE TxPipeline -----------------------------
(***************************************************************************)
(* How the application executes blocks: the ante handler, the message      *)
(* handlers of x/tokenfactory and the block life cycle with the optimistic *)
(* execution that app.New turns on.                                        *)
(*                                                                         *)
(* Three branches of the state are kept apart, as the application does:    *)
(*   committed  the last committed version; queries and restarts use it    *)
(*   deliver    the state of the block that is being executed              *)
(*   cache      the branch the messages of one transaction write to        *)
(* A proposal is executed before it is decided; if another block is        *)
(* decided the work is thrown away.  A crash keeps only what is on disk:   *)
(* the committed version and the decided block.                            *)
(*                                                                         *)
(* The application keeps the no-op mempool and accepts every proposal, so  *)
(* a block is any sequence of transactions: stale ones, duplicates,        *)
(* replays and ones signed with a foreign key.                             *)
(***************************************************************************)
EXTENDS AnteHandler

CONSTANTS
    Blocks,        \* the blocks that may be proposed: sequences of Txs
    MaxHeight,     \* bound: number of decided blocks
    MaxCrashes,    \* bound: number of crashes
    NoBlock        \* no block at hand

ASSUME BlocksAssumption == Blocks \subseteq Seq(Txs)
ASSUME BoundsAssumption == MaxHeight \in Nat /\ MaxCrashes \in Nat
ASSUME NoBlockAssumption == NoBlock \notin Blocks

VARIABLES
    committed,  \* the committed version of the application state
    height,     \* its height
    decided,    \* the block decided for height + 1, or NoBlock
    run,        \* the block in execution, proposed or decided, or NoBlock
    deliver,    \* the state of that block
    pos,        \* its transaction that is executed next
    msgIdx,     \* the message of it that is executed next; 0 before the ante handler
    cache,      \* the branch its messages write to
    passed,     \* (observation) what passed the ante handler in run, in order
    ledger,     \* (observation) the same for all committed blocks
    crashes     \* number of crashes so far

blockVars == <<run, deliver, pos, msgIdx, cache, passed>>
vars == <<committed, height, decided, blockVars, ledger, crashes>>

\* An entry of passed and ledger: a transaction and the height it ran at.
Entry == [tx : Txs, height : Nat]

TypeOK ==
    /\ committed \in AppState
    /\ deliver \in AppState
    /\ height \in Nat
    /\ decided \in Blocks \cup {NoBlock}
    /\ run \in Blocks \cup {NoBlock}
    /\ pos \in Nat \ {0}
    /\ msgIdx \in Nat
    /\ cache \in Store
    /\ passed \in Seq(Entry)
    /\ ledger \in Seq(Entry)
    /\ crashes \in 0 .. MaxCrashes

Init ==
    /\ committed = GenesisState
    /\ height = 0
    /\ decided = NoBlock
    /\ run = NoBlock
    /\ deliver = GenesisState
    /\ pos = 1
    /\ msgIdx = 0
    /\ cache = EmptyStore
    /\ passed = <<>>
    /\ ledger = <<>>
    /\ crashes = 0

-----------------------------------------------------------------------------
(* Starting and dropping the execution of a block.                         *)

\* Defect: the speculative writes of an earlier proposal survive.
ExecuteOnTop(b) ==
    /\ run' = b
    /\ UNCHANGED <<deliver, passed>>
    /\ pos' = 1
    /\ msgIdx' = 0
    /\ cache' = EmptyStore

\* Block b is executed from the committed version on.
Execute(b) ==
    /\ run' = b
    /\ deliver' = committed
    /\ pos' = 1
    /\ msgIdx' = 0
    /\ cache' = EmptyStore
    /\ passed' = <<>>

\* A proposal arrives; any execution under way is aborted.
ProcessProposal(b) ==
    /\ decided = NoBlock
    /\ Execute(b)
    /\ UNCHANGED <<committed, height, decided, ledger, crashes>>

\* Defect: the execution of another proposal is not aborted.
FinalizeWithoutAbort(b) ==
    /\ decided = NoBlock
    /\ height < MaxHeight
    /\ decided' = b
    /\ UNCHANGED blockVars
    /\ UNCHANGED <<committed, height, ledger, crashes>>

\* A block is decided.  The optimistic execution is kept if it is of this block.
FinalizeBlock(b) ==
    /\ decided = NoBlock
    /\ height < MaxHeight
    /\ decided' = b
    /\ \/ run = b /\ UNCHANGED blockVars
       \/ run # b /\ Execute(b)
    /\ UNCHANGED <<committed, height, ledger, crashes>>

\* After a crash the decided block is replayed from the block store.
ReplayBlock ==
    /\ decided # NoBlock
    /\ run = NoBlock
    /\ Execute(decided)
    /\ UNCHANGED <<committed, height, decided, ledger, crashes>>

-----------------------------------------------------------------------------
(* Executing the transactions of a block.                                  *)

Executing == run # NoBlock /\ pos <= Len(run)

NextTx == pos' = pos + 1 /\ msgIdx' = 0

\* The ante handler accepts the transaction and the messages get a branch.
AntePasses ==
    /\ Executing
    /\ msgIdx = 0
    /\ AnteOK(deliver, run[pos], height + 1)
    /\ deliver' = AnteEffect(deliver, run[pos])
    /\ cache' = deliver.denoms
    /\ msgIdx' = 1
    /\ passed' = Append(passed, [tx |-> run[pos], height |-> height + 1])
    /\ UNCHANGED <<pos, run, committed, height, decided, ledger, crashes>>

\* A decorator refuses; what the ones before it wrote is dropped.
AnteRefuses ==
    /\ Executing
    /\ msgIdx = 0
    /\ ~ AnteOK(deliver, run[pos], height + 1)
    /\ NextTx
    /\ UNCHANGED <<deliver, cache, passed, run, committed, height, decided, ledger, crashes>>

RunningMsg == run[pos].msgs[msgIdx]

\* The handler of a message returns no error and has written to the branch.
MsgSucceeds ==
    /\ Executing
    /\ msgIdx \in 1 .. Len(run[pos].msgs)
    /\ HandlerOK(cache, RunningMsg)
    /\ cache' = Handle(cache, RunningMsg)
    /\ msgIdx' = msgIdx + 1
    /\ UNCHANGED <<pos, run, deliver, passed, committed, height, decided, ledger, crashes>>

\* A handler returns an error: the transaction ends and its branch is dropped.
MsgFails ==
    /\ Executing
    /\ msgIdx \in 1 .. Len(run[pos].msgs)
    /\ ~ HandlerOK(cache, RunningMsg)
    /\ NextTx
    /\ UNCHANGED <<cache, run, deliver, passed, committed, height, decided, ledger, crashes>>

\* All messages succeeded: the branch is written back.
WriteCache ==
    /\ Executing
    /\ msgIdx = Len(run[pos].msgs) + 1
    /\ deliver' = [deliver EXCEPT !.denoms = cache]
    /\ NextTx
    /\ UNCHANGED <<run, cache, passed, committed, height, decided, ledger, crashes>>

\* The state of the decided block becomes the committed version.
Commit ==
    /\ decided # NoBlock
    /\ run = decided
    /\ ~ Executing
    /\ committed' = deliver
    /\ height' = height + 1
    /\ ledger' = ledger \o passed
    /\ decided' = NoBlock
    /\ run' = NoBlock
    /\ passed' = <<>>
    /\ UNCHANGED <<deliver, pos, msgIdx, cache, crashes>>

\* The process stops and comes back with what is on disk.
Crash ==
    /\ crashes < MaxCrashes
    /\ crashes' = crashes + 1
    /\ Execute(NoBlock)
    /\ UNCHANGED <<committed, height, decided, ledger>>

ExecutionStep ==
    ReplayBlock \/ AntePasses \/ AnteRefuses \/ MsgSucceeds \/ MsgFails \/ WriteCache \/ Commit

Next ==
    \/ \E b \in Blocks : ProcessProposal(b) \/ FinalizeBlock(b)
    \/ ExecutionStep
    \/ Crash

Spec == Init /\ [][Next]_vars

\* The block executor is a loop: once a block is decided it works on.
FairSpec == Spec /\ WF_vars(ExecutionStep)

-----------------------------------------------------------------------------
(* Properties.                                                             *)

(***************************************************************************)
(* Speculation, branches, aborts and crashes do not show: the committed    *)
(* state moves exactly as if every decided block were applied once, in one *)
(* step, by the reference semantics of DenomLedger.                        *)
(***************************************************************************)
Ledger == INSTANCE DenomLedger WITH state <- committed, tip <- height

ImplementsLedger == Ledger!Spec

(***************************************************************************)
(* A denom changes hands, contents or existence only in a block in which   *)
(* its owner has signed a transaction that names it (the owner checks of   *)
(* UpdateDenom and DeleteDenom together with SigVerification): delayed,    *)
(* replayed or foreign transactions cannot touch it.                       *)
(***************************************************************************)
SignedBy(a, d, log) ==
    \E i \in 1 .. Len(log) :
        /\ log[i].tx.key = a
        /\ \E j \in 1 .. Len(log[i].tx.msgs) :
              log[i].tx.msgs[j] \notin ParamsMsg /\ log[i].tx.msgs[j].denom = d

OnlyOwnerChanges ==
    [][\A d \in Denoms :
          Found(committed.denoms, d) /\ committed'.denoms[d] # committed.denoms[d]
             => SignedBy(committed.denoms[d].owner, d, passed)]_vars

(***************************************************************************)
(* No signed transaction takes effect twice, in one block or in several,   *)
(* although proposers may repeat it and blocks are executed again after a  *)
(* crash (SigVerification and IncrementSequence).                          *)
(***************************************************************************)
NoReplay ==
    \A i, j \in 1 .. Len(ledger) :
        /\ ledger[i].tx.key = ledger[j].tx.key
        /\ ledger[i].tx.seq = ledger[j].tx.seq
        => i = j

(***************************************************************************)
(* On every branch an account has paid one fee for each sequence number it *)
(* has used, no more and no less: an aborted, failed or repeated execution *)
(* never costs a second fee and none is free (DeductFee before             *)
(* SigVerification, IncrementSequence after it).                           *)
(***************************************************************************)
FeePerSequence ==
    \A a \in Accounts :
        /\ committed.funds[a] + committed.seq[a] = InitialFunds
        /\ deliver.funds[a] + deliver.seq[a] = InitialFunds

(***************************************************************************)
(* A transaction with a timeout height never runs in a later block, even   *)
(* if it waited for long or its block was executed again                   *)
(* (TxTimeoutHeightDecorator).                                             *)
(***************************************************************************)
TimeoutRespected ==
    \A i \in 1 .. Len(ledger) :
        ledger[i].tx.timeout = 0 \/ ledger[i].height <= ledger[i].tx.timeout

(***************************************************************************)
(* A decided block is eventually committed, through crashes and replays    *)
(* and whatever was being executed speculatively when it was decided.      *)
(***************************************************************************)
DecidedIsCommitted == (decided # NoBlock) ~> (decided = NoBlock)
=============================================================================
