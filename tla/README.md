# A TLA+ model of medasdigital-2

This directory models the parts of the repository that carry its own logic:
the token factory module, the execution of transactions and blocks around it,
the coordinated software upgrade, the export of a new genesis, the randomized
simulation, the two generated codecs its messages go through, the node setup
script and the scripts that rehearse an upgrade on a local network. The modules
are checked with TLC on small instances (`tlc -config X.cfg M`). The safety
properties of all state machines, but for one of `WirePath`, and the refinement
of `DenomLedger` are proved with TLAPS for every value of the constants
(`tlapm M.tla`). Section 4 says along which arguments, and what is only
model-checked.
`PROJECT.json` lists the components, the runs, the source lines behind each
definition, the hazards and the theorems.

## 1. The system

| Part | State it keeps | Operations | Interacts with |
|---|---|---|---|
| x/tokenfactory (`x/tokenfactory/keeper`, `module`, `types`) | one key-value store of denom records, keyed by name | CreateDenom, UpdateDenom, DeleteDenom, UpdateParams; InitGenesis, ExportGenesis; queries Denom, DenomAll | called by the message router inside a transaction |
| Ante handler (`app/ante.go`) | account sequences and balances | one chain of decorators per transaction | runs before the messages, on its own branch of the state |
| Block life cycle (`app/app.go`, BaseApp) | committed version, state of the running block, branch of the running transaction | ProcessProposal, FinalizeBlock, Commit, restart; optimistic execution is on (`app.go:268`) | consensus, the ante handler, the handlers |
| Software upgrade (`app/upgrades*.go`) | plan and done height in x/upgrade; `upgrade-info.json`; the set of mounted stores | handler registration, store loader, halt at the upgrade height, migration | consensus, Cosmovisor, operators |
| Node setup (`medasdigital_setup.sh`) | files of a host, the systemd unit, the running processes | install, init, service, migrate, prepare-upgrade, status | network downloads, systemd, Cosmovisor, the operator |
| Simulation (`x/tokenfactory/simulation`) | none of its own | three weighted operations | the keeper and the message server |
| Genesis export (`app/export.go`, `cmd/commands.go`) | none of its own: it rewrites a copy of the staking, distribution and slashing records | appExport, prepForZeroHeightGenesis | the keepers of these modules, the operator's list of allowed addresses |
| Local network (`scripts/localnet.sh`) | pid file, home directory, background process | up, init, start, stop, smoke, status | the node, other processes of the host |
| Upgrade rehearsal (`scripts/upgrade-test.sh`) | the step it is at, heights and snapshots it has read | six steps from the old to the new binary | the local network, governance, the halt of x/upgrade |
| Message codecs (`x/*/types/*.pb.go`, `api/medasdigital/**/*.pulsar.go`) | none: two encodings of the messages as Go values, one as bytes | Size, Marshal, Unmarshal; Range, Has, Set, Clear, Mutable of the pulsar messages | the command line fills and reads pulsar messages, the signer lookup reads them, the handlers and the store use gogoproto ones |
| x/medasdigital | an empty parameter set | UpdateParams, Params, all its messages | the codecs, the parameter store |
| In-place testnet (`cmd/testnet.go`) | none of its own: it replaces the validators of a copied node | `initAppForTestnet` | library keepers |

What is hard here: a proposed block is executed before it is decided and may
be thrown away; a node may stop between any two steps and replay; transactions
are repeated, delayed and signed by the wrong key; a transaction writes to
three nested branches; the upgrade is a protocol between nodes that run
different binaries, restart and read a file that is never removed; the setup
script is interrupted half-way, repeated, rolled back and rebooted; a client
lists the denoms page by page while they change; the export is a long chain of
calls some of whose errors are dropped; the local scripts poll and signal
processes that go their own way; one decoder decides who must sign a message and
another one what is executed.

## 2. Modules

| Module | Kind | Models |
|---|---|---|
| `TokenFactory` | operators | keeper, message server, genesis of x/tokenfactory |
| `AnteHandler` | operators | the account-related decorators of `app/ante.go` |
| `TxPipeline` | state machine | blocks: proposal, decision, ante handler, messages, commit, crash, replay |
| `DenomLedger` | abstract specification | what executing blocks promises: one atomic step per decided block |
| `TxPipelineProofs` | proofs | about `TxPipeline` |
| `DenomWalk` | state machine | DenomAll over several pages, export and restart |
| `Simulation` | state machine | the simulation operations |
| `TokenFactoryProofs` | proofs | about the store, `DenomWalk` and `Simulation` |
| `FoldTheorems` | proofs | what the folds and sums of the community modules compute |
| `ChainUpgrade` | state machine | nodes, binaries, plan, halt, store loader, Cosmovisor, operators |
| `ChainUpgradeProofs` | proofs | about `ChainUpgrade` |
| `NodeSetup` | state machine | the setup script on one host |
| `ZeroHeightExport` | state machine | the export of a genesis, in particular for height zero |
| `ZeroHeightExportProofs` | proofs | about `ZeroHeightExport` |
| `LocalNet` | state machine | `localnet.sh`, its node and the pids of the host |
| `UpgradeTest` | state machine | `upgrade-test.sh` against a chain with one node |
| `ScriptProofs` | proofs | about the three scripts: `NodeSetup`, `LocalNet`, `UpgradeTest` |
| `ProtoFields` | vocabulary | the descriptor of one block of a generated function; the SDK's pagination messages |
| `PbTokenfactory`, `PbMedasdigital` | tables | the gogoproto functions of each message |
| `PulsarTokenfactory`, `PulsarMedasdigital` | tables | the pulsar functions of each message |
| `ProtoWire` | operators | what the blocks of size, marshal and unmarshal functions do |
| `WirePath` | state machine | a message from one program to another, the record it leaves and the answer to the query |
| `ProtoWireProofs` | proofs | about the tables and the decoders |
| `WirePathProofs` | proofs | about the encoders, both together, and `WirePath` |
| `MC...` | model values | instances for TLC |

`TxPipeline` composes `TokenFactory` (the message handlers) and `AnteHandler`;
it implements `DenomLedger` under the mapping `state <- committed`,
`tip <- height`. `WirePath` composes the four tables with `ProtoWire`.

`Simulation`, `LocalNet` and `UpgradeTest` share proof modules with other state
machines; their names that would clash there begin with `Sim`, `Net` and `Test`.

### TokenFactory

The store is a total function from names to records or `NoDenom`. Names are
numbers in the order of the store keys: `DenomKey` appends "/" to the name and
is injective, so only the order of the keys matters, and only to the
iteration. A record has an owner, a name and *details*: description, ticker,
precision, URL, supplies and `CanChangeMaxSupply`. No handler reads any of the
latter. `InOrder` is the order in which an iterator visits a set of keys: the
i-th key has i - 1 of them before it. `MCDenomWalk` checks that this is
`SetToSortSeq` of the community modules. A handler is a pair of operators: `XOK` is the condition under which it
returns no error, `X` the store it then leaves. Genesis is a list of records.

### AnteHandler and TxPipeline

A transaction has the key that signed it, the sequence it was signed for, a
timeout height and a sequence of messages. The fee is one unit. The required
signer and the fee payer come from the first message, as in `GetSigners`; the
signature check compares them with the key. A transaction has one signer:
messages of several owners in one transaction are refused by the key check.
Refusals by the other decorators (gas, memo, size, circuit breaker, redundant
relay) have the effect of `AnteRefuses` and are not told apart. A panic or
running out of gas in a message has the effect of `MsgFails`.

| Action | Code |
|---|---|
| `ProcessProposal` | optimistic execution of a proposal is started, an earlier one aborted |
| `FinalizeBlock` | a decision; the optimistic result is kept if it is of this block, else dropped |
| `AntePasses`, `AnteRefuses` | `NewAnteHandler`'s chain on a branch of the block state |
| `MsgSucceeds`, `MsgFails` | one handler of the message server on the branch of the transaction |
| `WriteCache` | the branch of the transaction is written to the block state |
| `Commit` | the block state becomes the committed version |
| `Crash`, `ReplayBlock` | the process restarts from the committed version and replays the decided block |

The application has the no-op mempool and the default proposal handlers, so a
proposed block is *any* sequence of transactions. `passed` and `ledger` are
observations (what passed the ante handler, in which height); no action reads
them.

### DenomWalk

A client walks by `NextKey` or by `Offset`; each page is served from the store
as it is then. `StoreBecomes` keeps two observations: the denoms that have been
stored since the walk began, and whether any key was set or removed.

### Simulation

Accounts are those the simulator has keys for and one it has not (the sampled
owners of the genesis). A delivery that the message server refuses ends the
simulation with an error, which is `failed`.

### ChainUpgrade

Consensus is external: a block is decided when nodes with more than 2/3 of the
power are up and have executed all earlier ones. The block of the upgrade
height is decided by v1 and executed by v2. Of a block only the governance
messages about the plan are kept. `CommitsBlock` and `PreBlocker` are x/upgrade
as this application uses it; `HasHandler`, `SetsStoreLoader`, `StoreLoader`,
`Mounted` and `Start` are `app/upgrades.go`, `app/upgrades/v2` and `app.New`.
v2 adds no stores; the code of the store loader is general, so `StoreUpgrades`
is a constant and the run `upgrade_stores` gives it a store. `SpeculateUpgrade`
is optimistic execution reaching the PreBlocker before the decision.
`OperatorSwaps` is a binary exchanged at a wrong moment, in both directions.
Skipped heights are the same on all nodes: with different ones nodes diverge by
design.

`docs/upgrades/v2.md:19` says that v2 refuses to run before the upgrade height.
The PreBlocker enforces that as soon as a plan is pending; before a plan exists
it accepts v2, which then computes the same states as v1. `RightBinary` states
what the code guarantees.

### NodeSetup

Each command is a sequence of steps in `Program`, one entry per call that reads
or changes the host. A command ends at its first failing step
(`set -Eeuo pipefail`) or when it is interrupted. Writing a file takes several
steps, in which `copying` is set: a binary is `"partial"` while it is written, a
unit `"torn"`. `service` truncates the unit before it is filled (line 420); the
`install` of `migrate` removes it, creates it and fills it (line 488); `cp -a`
creates the backup and fills it (line 487). What an interruption leaves there is
taken for a unit of the old style (line 137), so `install` and `service` refuse
it, and `migrate` finds no `ExecStart` in it (`OldStyle`, `CanMigrate`). The unit is
filled by one write: it is either without contents or whole. `init` sets `config`
through the states of `Configs`. The checks of a command are made in one step:
they only read. A reboot keeps what was written to the disk; losing pages that
were not yet on it is not modelled. The units are assumed to be enabled, so that
a reboot starts them. An operator never starts a second node on purpose, and a
node started by hand exactly between the last check and the start (lines
491-492) is excluded: the code has no protection there. `status`, `usage` and
`validator_report` only print.

### ZeroHeightExport

Validators are numbered in the order of their addresses, and amounts are
counted in fractions of a coin, because truncation is what the "scraps" of the
code come from. `pc` is the part of `prepForZeroHeightGenesis` that runs and
`at` the number of items its loop has done. The keepers are external:
a withdrawal pays whole coins or fails without an effect;
`AfterValidatorCreated` empties the records of a validator; ending a period
needs a historical record to refer to (`reference`); the pass over the power
index panics on a jailed validator. `Init` is a committed state: the bonded
validators are those with most power, jailed ones are not in the index, and the
distribution account holds what it owes.

Four errors are dropped by the code, and each is a choice of the model: those of
the withdrawals (lines 83 and 104); that of the second loop over the validators
(line 118), which may end after any of them (`ReinitValidatorsFails`); that of
`Close` (line 221), which ends the preparation; and that of each
`SetValidatorSigningInfo` (line 238), which leaves that info as it was
(`ResetSigningInfos`). Every error that is looked at ends the process
(`StoreFails`), at any item of its loop. `failed` and `closeFailed` are
observations.

One consequence of `Reached` is worth knowing: jailing a validator here leaves
it in the power index, so an export whose list excludes a validator that the
pass gets to does not write a wrong genesis but ends in the panic of the
staking module (`KeeperPanics`).

### LocalNet

`netProcs` says what runs under each pid. `"forked"` is the child of `start_node`
before it executes the binary: its command line does not name the home
directory yet. Between any two commands of the script the node may end, hang
or commit a block, and a free pid may be given to another process. A hung node
does not follow the signal, and it accepts connections and does not answer:
neither the `curl` of line 104 nor the queries of the binary have a time limit,
so the request does not return while the node hangs (`RequestReturns`). The
check of the pid and the request of one pass are one step, and so are the start
of the node and the writing of the pid file (lines 172 and 173): the script is
not interrupted in the model. One command of the script runs at a time (two
concurrent `start` commands are not modelled), and an operator
gives the next one after the child of the previous one has executed the binary.
`wipe_localnet` and `init_chain` are one step that may fail and leave a
directory behind. `status` only prints.

### UpgradeTest

A binary is described by what it does right: has the handler, needs the system
library, keeps module versions and state, runs the transactions. The chain
(blocks, halt, tally) runs beside the script. The races of starting and
stopping a process are those of `LocalNet` and are not repeated here. The node may
exit or stop answering at any time. The steps that send requests (`Asks`) wait
for the answer, since `app_height` (line 89) and `q` (line 71) have no time limit;
the wait for the halt reads the log and goes on.
`StatusHeight` is one above the application's height when the node has halted,
as the comment on `app_height` explains.

### The codecs and WirePath

The generated functions are straight lines with one block per field, and all
blocks of a kind are alike. A table lists the blocks of one function in their
order: `X_Struct` the fields, `X_Size` what the size function adds, `X_Marshal`
what is written with which tag byte, from the end of the buffer, `X_Unmarshal`
which field each case of the switch reads; pulsar messages also have `X_Range`,
the fields that reflection reports. Tables that the compilers could have made
different are kept apart, so a field that one function has and another has not
can be expressed. `ProtoWire` interprets the tables. A loop of the code is a
recursive function of the number of its rounds, a loop over a slice is a fold,
and a function that calls the one of an inner message calls the `Leaf` operator
of that name: no message of the repository is nested deeper. It models presence,
the size of a varint, the buffer allocated from the size and filled backwards (a
negative rest is the panic of the Go program), varints with overflow and end of
input, block lengths whose sum wraps to a negative index, groups, unknown fields
(kept by pulsar, dropped by gogoproto), and messages that are merged when a
field is repeated.

`WirePath` sends one message. The command line fills a pulsar message by
reflection, the node's code assigns the fields of a struct; the sender's
encoder writes the bytes; they may be cut, joined with a second encoding,
extended by a field of a later version or by an arbitrary field; both decoders
read them. A MsgCreateDenom and a MsgUpdateParams go on: handler, store, query,
answer. Of the handlers only what they take from the message is modelled here;
`TokenFactory` has the rest. The Cosmos SDK refuses transactions with unknown
critical fields before the messages are decoded; that is outside the
repository, and `DecodersAgree` does not rely on it.

Go's integers have 64 and 32 bits. Here they have `WordBits` and `IntBits`: TLC
cannot compute with 64-bit words, and what matters is how the widths lie to the
seven bits of a varint byte (the last byte of a full word has one bit left, a
negative int32 takes the full word). `WidthAssumption` asks for an int32 of at
least eight bits that is no wider than a word; the proofs hold for all of these
widths, 64 and 32 among them.

## 3. Runs

| Run | Configuration | Checks |
|---|---|---|
| `tx_pipeline` | `MCTxPipeline.cfg` | `TypeOK`, `NoReplay`, `FeePerSequence`, `TimeoutRespected`, `OnlyOwnerChanges`, refinement `ImplementsLedger`, `DecidedIsCommitted` |
| `denom_walk` | `MCDenomWalk.cfg` | `TypeOK`, `KeyWalkExact`, `OffsetWalkExact`, `ExportRoundTrips`, `WalkEnds` |
| `simulation` | `MCSimulation.cfg` | `SimTypeOK`, `NeverRefused` |
| `upgrade` | `MCChainUpgrade.cfg` | `TypeOK`, `Agreement`, `RightBinary` |
| `upgrade_stores` | `MCChainUpgradeStores.cfg` | `StoresMatchUpgrade`, `LoadsAfterHalt`, `ChainContinues` |
| `node_setup` | `NodeSetup.cfg` | `TypeOK`, `UnitStartable`, `OneNode`, `RollbackRestores` |
| `export` | `MCZeroHeightExport.cfg` | `TypeOK`, `NothingLost`, `OnlyFractionsDonated`, `FreshStart`, `OnlyAllowedBonded` |
| `localnet` | `LocalNet.cfg` | `NetOneNode`, `NodeIsTracked`, `ScriptEnds` |
| `upgrade_test` | `UpgradeTest.cfg` | `PassedMeansUpgraded`, `StartsOnHaltedChain`, `RehearsalEnds` |
| `wire` | `WirePath.cfg` | `DecodersAgree`, `Delivered`, `RelayedWhole`, `SetIsOnTheWire`, `ShownAsCreated` |
| `simulation_delete` | `MCSimulationDelete.cfg` | `DeleteOperationDeletes` is **violated** |
| `node_setup_init` | `NodeSetupInit.cfg` | `NothingHalfDone` is **violated** |

The type invariants of `LocalNet` and `UpgradeTest` are not among the runs'
properties: they are conjuncts of the invariants that are proved.

For each property of a passing run a definition marked *Defect* in the modules
describes a plausible mistake in the code; put in place of the definition it
follows, it makes TLC find that property violated.

### What the violated properties show

* `SimulateMsgDeleteDenom` (`x/tokenfactory/simulation/denom.go:112`) builds a
  `MsgUpdateDenom`. The operation registered with the weight of MsgDeleteDenom
  never deletes anything.
* `cmd_init` announces (`medasdigital_setup.sh:358`) that it collects
  everything from the network first, "so a failure leaves nothing half-done",
  but the genesis file is downloaded at line 384, after the configuration was
  created. If that download fails, `init` cannot be run again (line 355).

### Bounds

* `tx_pipeline`: two accounts, two denoms, nine transactions that include both
  owners competing for a denom, multi-message transactions that fail in their
  second message, a foreign signature, a timeout at the first height and a
  transaction that cannot be paid; all blocks of up to two of them, two
  heights, one crash at any step. Two heights are needed for a replay in a
  later block and for the timeout; two transactions per block for a replay in
  the same block and for state carried from one to the next. A crash leaves
  nothing but the committed version and the decided block, so a second one
  reaches no new state; the result is the same with two.
* `denom_walk`: four names and pages of one or two, so that a walk has up to
  four pages and the cursor can be deleted between two of them.
* `simulation`: the two names of the genesis and four others, two accounts.
* `upgrade*`: three nodes of power 2, 2, 1 (the third may lag behind and is not
  under Cosmovisor), three heights, plans for height 2 and 3, one crash and one
  wrong binary; height 3 is skipped in `upgrade`. Three heights allow a block
  before, at and after the upgrade height. In `upgrade` the first two nodes are
  symmetric; `upgrade_stores` has a liveness property and uses no symmetry. It
  has no wrong binary either: with a new store v2 does not load before the halt,
  and a node left with the wrong binary is a reason to stop that no code
  removes. The proofs cover wrong binaries for any set of stores.
* `export`: two validators of power 0 to 2 in all combinations, each jailed or
  not, and one place in the bonded set; one of them has two delegations;
  commissions of zero and one and a half coins, rewards of one and a half
  coins; lists that allow one, both or none, or hold an address that does not
  decode; every subset of withdrawals and of signing infos fails. The other
  validator has no delegation, so that it can be left without a record, and the
  first one panics where the loop over the validators did not reach it.
* `localnet`: two pids, so that a reused pid and a free one exist together; two
  passes per waiting loop, four blocks (the loops wait for the third). With
  three pids the run gives the same result.
* `upgrade_test`: a buffer of two blocks, so that a proposal can pass before, at
  and after the upgrade height; two passes per loop; eleven blocks, enough for
  the upgrade, the blocks after it and those after the last restart.
* `node_setup`: no bound other than one host, one upgrade and the file set.
  `node_setup_init` has no interruptions: the failed download alone breaks the
  promise of the script.
* `wire`: all messages of both packages, from both senders; up to two calls fill
  a message, or one call fills all its fields; strings of length 0, 1 and 128,
  the first whose length takes two bytes; the extreme and the smallest values of
  the integers; words of 15 bits and int32s of 8. Messages whose bytes are
  changed have at most one call: the decoders treat the fields one after the
  other, so a second call adds states and no new kind of step. The changed bytes
  are every proper prefix, a second empty or full encoding, a later field of
  every wire type before or after the message, and 288 fields of arbitrary
  number, wire type and content.

The chain of `ChainUpgrade` stops at `MaxHeight`, so its runs do not check
deadlock; neither do those of `ZeroHeightExport`, `UpgradeTest` and `WirePath`,
which end.
`tx_pipeline`, `denom_walk`, `simulation`, `node_setup` and `localnet` do.

### Fairness

* `TxPipeline`: weak fairness of the execution steps together. The block
  executor is one loop that works on as long as there is a decided block; a
  proposal, a decision or a crash is never assumed to happen.
* `DenomWalk`: weak fairness of `ReadPage`: the client asks for the next page.
  `WalkEnds` rests on the finite set of denoms as well: a client that reads more
  slowly than new names are created beyond its cursor would not come to an end.
* `ChainUpgrade`: weak fairness of each node's block loop and restart (the unit
  has `Restart=always`), of its switch (Cosmovisor polls; an operator follows
  `docs/upgrades/v2.md`), and of deciding a block while a quorum is up.
  Preparing a node is *not* assumed: `ChainContinues` has it as its premise.
* `LocalNet`, `UpgradeTest`: weak fairness of the script's steps together, since
  a shell goes on with its script; a process that was killed ends. Nothing is
  assumed of the node. A step that has to wait for an answer is not enabled
  while the node hangs, so no fairness makes it happen: `ScriptEnds` and
  `RehearsalEnds` say that a command ends *or* waits for such an answer
  (`HeldUp`, `~Answered`). With a node that answers or refuses, or is killed,
  every loop is bounded; and `stop` sends no request and ends in any case.

## 4. Proofs

The theorems hold for all constants that satisfy the named assumptions of the
modules (finite set of numbered denoms, typed transactions and blocks, page
sizes that are not zero, every delegation is to a validator, amounts that are
natural numbers, natural bounds).

**FoldTheorems.** Blocks, genesis lists and balances are folds of the community
modules: recursive functions on the subsets of a finite set of indices. The
induction theorems of the library take an operator and are out of the prover's
reach, so induction is stated with sets: a set of numbers that holds zero and
all successors of its members holds every number (`NatSetInduction`), and
likewise for the subsets of a finite set (`SubsetInduction`). `FoldExists` shows
that the recursion has a solution, `FoldUnique` that it has one only.
`SequenceFold` then says that a left fold goes through what its prefixes give,
`SumChanges` by how much a sum changes with one entry.

**TxPipeline.** `TypeCorrect` is inductive by itself; its interesting part is
that balances stay natural numbers because the fee is only taken when it can be
paid. The other properties speak about the committed state only, and a block is
built up over many steps before it is committed, so they need an invariant
about the block in execution, `IInv`:

* `SequenceOrder`: what is in the ledger used a sequence number below the
  committed one of its signer; what passed in the running block one between the
  committed and the current one. With `NoReplayInRun` this gives `NoReplay`
  when the block is committed.
* `PassedInTime`: the same for timeouts.
* `RunningIsSigned`: while messages run, their transaction is the last that
  passed, and its key owns all its messages.
* `BranchesSigned`: each branch differs from the committed store only at denoms
  whose owner has signed in this block. At the commit this is
  `OnlyOwnerChanges`.

`NextCases` groups the steps: those that restart the execution from the
committed version make the parts about the running block trivially true, and
only the ante handler, a message and the write-back need arguments about the
operators (`AnteWrites`, `HandleType`, `HandleChanges`).

`LedgerImplemented` is the refinement: every step of the pipeline is a step of
`DenomLedger` or leaves its state alone. Only `Commit` is not a stutter, and it
has to show that what many small steps have built, possibly begun before the
decision and begun again after a crash, is what the ledger computes in one.
Invariant `Follows` relates the two: the state of the running block is the
ledger's state after the transactions that are done (`DeliverFollows`), and the
branch of the running transaction is the ledger's branch after the messages that
are done (`CacheFollows`). `BlockFold` and `MsgsFold` give these prefixes from
the folds of `DenomLedger`; `AnteFollows` and `MsgsFollow` are its steps.

**DenomWalk.** `InOrderLists` says what an iterator visits: each key once, the
smaller ones first. The number of keys before a key grows with the key, hence is
an injection into as many numbers, hence hits all of them. From it follow the
shape of a page (`CutsPage`) and the round trip (`ImportExport`): the first k
records of the exported list, imported, are the store restricted to the first k
keys. That needs every record to be under its own name (`KeyMatches`), which the
handlers and a restart keep. The walks need to know where the client is:
`KeyCursor` says that all that was read is before the cursor, and that what was
stored all along has been read or lies ahead of it. Deleting the denom under the
cursor changes neither. `OffsetCursor` says that without changes the pages read
are the first keys in order; nothing of the kind holds once a key was set or
removed, and `OffsetWalkExact` claims nothing then.

**Simulation.** The same `KeyMatches`, for the genesis of the simulation and
along its operations: the record that the search by owner finds is stored under
the name it carries, so the message built from it is accepted. `SimulationTypeCorrect`
and `SimulationNeverRefused` are about the properties of the run; the assumptions
of `Simulation` on its constants are those of the module.

**ChainUpgrade.** `Agreement` compares two nodes and is not inductive. `IInv`
relates each node to the decided chain instead: whichever binary commits a
block, `BlockDeterministic` shows that the state it leaves is a function of the
previous state and the block alone. Two nodes with a common prefix therefore
agree. The rest of `IInv` relates the file `upgrade-info.json`, the plan, the
binary and the stores of one node, which gives `RightBinary`,
`StoresMatchUpgrade` and `LoadsAfterHalt`.

**NodeSetup.** `UnitStartable` is about the disk. A unit that is written to its
end can be started. A torn one, or none after a migrate, is what an interruption
of lines 420 and 488 leaves: nothing starts then, and a reboot does not bring the
node back. What holds even there is that everything the new unit needs is in
place, and that the old unit, if the host had one, is whole in its backup, so
that one `cp` of it, or a `service` after removing the torn file, repairs the host.

What a unit needs is put on the disk by steps long before the unit is written,
possibly by another command. `IInv` says for each command what holds from which
step on (`InstallProgress`, `ServiceProgress`, `MigrateProgress`) and for the host
what holds between commands: the old unit has its binary (`PlainHasBinary`),
`current` links to a whole binary except under the old unit, where migrate may be
writing it (`CurrentIsWhole`), the new unit has all it needs, also while it is
being written and after an interruption there (`CosmovisorIsReady`), the old unit
is replaced only after it was saved (`OldUnitKept`), and the rollback commands are
valid while the new unit is there (`PrintedAfterBackup`). That the backup is torn
for a while does no harm, because migrate runs again only while the old unit is
still there. That fetch_verified never replaces a file is what keeps
`CurrentIsWhole`; that checkStopped comes after everything else but the start is
what gives `OneNode`.

**ZeroHeightExport.** The invariant says what each loop has rewritten so far and
that complete loops stay complete up to the export (`PreparedUpTo`). Three parts
carry the argument: `ValidatorsRenewed`, that a validator which the second loop
left out has no reference, so the first delegation to it ends the export and no
genesis is written; `SigningReset`, that a signing info keeps its height only if
its write failed; and `BondedAreTop`, that jailing changes neither the power
index nor the powers, so the last pass unbonds nobody at the old height.
`FreshStart`, with exactly the three exceptions that the dropped errors make, and
`OnlyAllowedBonded` follow.

The amounts have an invariant of their own, `Books`. `NothingLost` compares the
balance with a sum over the validators, and the steps that empty a validator
move exactly what is outstanding for it, so it is kept by `SumChanges` alone.
`OnlyFractionsDonated` needs to know what is outstanding when the loops of
withdrawals are done: until the validators are given new records it is what is
owed as commission and to delegations (`OutstandingIsOwed`), and the loops leave
less than a coin of the commission and nothing of the rewards
(`FractionsLeft`). That amounts stay natural numbers,
a part of `TypeOK`, rests on the same sums.

**LocalNet.** `NetOneNode` and `NodeIsTracked` follow from `Tracked`: every process
on the home directory is the one in the pid file. It survives the removal of
the file and a new start because of `NoNode`, which says at which places of the
script there is no node, and it survives signals because of `SignalsNode`.
`TodoOK` is the order of the functions in the commands.

**UpgradeTest.** The last line of the rehearsal speaks about facts that were
checked several steps earlier, while the chain went on. `IInv` says what is
established at each step: that the message in the log means that the old binary
has no handler (`OldHasNoHandler`), that from then on the plan waits at the next
height until it is applied (`WaitsForUpgrade`), by a binary that has the handler
(`AppliedByHandler`), and what the verification has seen (`Verified`).

**The codecs.** The interpreter is proved about for *any* table with a few named
properties, and the tables of both packages are then evaluated, message by
message (`TokenfactoryTables`, `MedasdigitalTables`): that the functions
generated for a type are about the same fields (`Coded`: each field is sized and
written once, with the tag from which the switch reads it), and that the two
versions of a type have the same names, kinds and cases (`SameFields`). A
mistake in a table, of a compiler or of a later edit, breaks these two and
nothing else.

A loop is a recursive function of the number of its rounds; `IndexFold`,
`UnmarshalDef` and the like show that the recursion has a solution and that
enough rounds are allowed, and an invariant goes along the rounds by
`NatSetInduction`.

* `DecodersAlike`: on *any* bytes both decoders refuse, or read the same
  content. Round by round both stand at the same index (`MessageRoundsAgree`),
  with the same content seen through `AsStruct`, which forgets unknown fields
  and takes an absent pulsar message for an empty gogoproto one. They have
  different cases for an inner message: the struct holds it by value or behind a
  pointer that may be nil (`TargetsAgree`, `PlacedAgree`).
* `MarshalFits`: the size function counts what the marshal function writes, for
  every message without unknown fields. They follow the fields in different
  orders; `LengthsAddUp` is the reason why that does not matter. The buffer
  filled from its end therefore neither overflows nor keeps a gap.
* `ReadsVarint`, `SovCounts`: a varint has as many bytes as `Sov` says, at most
  `MaxVarint`, and is read back wherever it stands, the last byte of a full word
  included.
* `RoundTrip`: the decoder of the same version reads back what was written. The
  blocks of the encoding lie one after the other (`Laid`); the decoder gets from
  each to the next with one field more (`PartialNext`, `NextElement`), element by
  element in a list. Its premise is that the encoding is shorter than 2 to the
  power of `WordBits` - 1 (`Short`). That is what a Go slice can be: its length is an
  int. In the model strings of any length could be put into a message, and a
  length prefix would then wrap.
* `DecodesTyped`: whatever a gogoproto decoder accepts has the Go types of its
  fields, so that what a handler stores can be encoded.

**WirePath.** `PathInv` is inductive: what the sender holds has its Go types
after any calls of reflection or assignments (`DraftInv`), what it sent is the
encoding of that message while nobody has changed the bytes (`WireInv`), and
what each reader got is what its decoder makes of the bytes (`GotInv`).
`DecodersAgree` and `Delivered` are not inductive: they compare the result of a
step with the result of one long before. They follow from `PathInv` by
`DecodersAlike` and `RoundTrip`. `DecodersAlwaysAgree` has no premise at all;
`AlwaysDelivered` has `WireFits`, that the bytes are a slice.

`AlwaysSetOnTheWire` walks the same encoding a third time, without the tables:
every field, whatever its kind, ends where `Skip` says (`ScalarPassed`), a list
is met once per element and counted once (`SeveralCounted`), and so the numbers
met are those of the fields that are present (`SetAreWritten`). What reflection
reports is what `Range` and `Has` of each message list, and these tables are
evaluated too (`TokenfactoryRanges`, `MedasdigitalRanges`).

`LifeInv` continues it: a stored record is the encoding of the record that the
handler makes of what the node has read, and an answer the encoding of a message
that holds this record. It needs `DecodesTyped`, since the handler takes over
fields from bytes that anyone may have sent. `AlwaysShownAsCreated` then follows
the record from the node's encoder, which holds it by value, to the command
line's decoder, which has it behind a pointer (`AnswerReads`, by `RoundTrip` for
the record and `DecodersAlike` for the answer). Its premise `SlicesFit` says
that the bytes of the message, the record and the answer are slices.

**Only model-checked.** The liveness properties, which need fairness and
ENABLED. Of `WirePath`, `RelayedWhole`: it speaks about the kept bytes of
unknown fields, which have to be walked a second time when the message is read
again. It holds in the run `wire`.

## 5. Findings

The two violated runs of section 3, each quoted with its lines in
`PROJECT.json`.

## 6. Hazards without a property

* A plan whose name is not `v2` halts the chain, and no binary of the repository
  resolves that. Plans have no name in the model: there is no promise to check.
* `cmd_migrate`, interrupted after it has written the unit and before it has
  started the node (`medasdigital_setup.sh`, lines 488 to 492), and run again,
  says that the node already runs via cosmovisor (line 429): it looks at the
  unit file only.
* `init` chooses the binary from the version the network reports; the network
  may upgrade before the node starts.
* An error of `Close` (`app/export.go:221`) is only logged, one of
  `SetValidatorSigningInfo` (line 238) not even that, and the export goes on;
  the same holds for the second loop over the validators (line 118), if nobody
  delegates to those it leaves out. `FreshStart` has to except the three.
* An interruption while the unit is written (`medasdigital_setup.sh:420` and
  `488`) leaves a host on which nothing starts and whose unit every command of
  the script refuses; `UnitStartable` states what is left to repair it with.
* A hung node holds up a command of `localnet.sh` or the rehearsal for as long as
  it hangs (`scripts/localnet.sh:104`, `scripts/upgrade-test.sh:71` and `89`).
* A payment that `wait_tx` gave up on may be included during the next smoke
  test, whose comparison of balances then fails.
* `stop_node` signals a pid that `node_pid` checked up to 15 seconds earlier
  (`scripts/localnet.sh:93` and `98`); in `LocalNet` it may by then belong to
  another process. The comment at line 81 asks for the check, and the code makes
  it once.
* `wait_for_blocks` may say "node exited" (`scripts/localnet.sh:180`) before the
  child of `start_node` has executed the binary. The node then goes on running;
  `NodeIsTracked` shows that `stop` still finds it.
* `scripts/upgrade-test.sh:222` says that a proposal passed too late also when
  the chain has halted between two polls: a halted node reports the upgrade
  height already.

Supply, MaxSupply and Precision are 32-bit integers that no handler compares and
no text of the repository constrains: negative ones, and a supply above the
maximum, are stored. `ShownAsCreated` states what remains, that they are stored
and shown as they were entered.

One comment is inexact without a consequence: the loop at `app/export.go:203`
follows the validators' addresses where line 197 says power.

## 7. Not modelled

* The genesis code of x/medasdigital (an empty parameter set).
* The in-place testnet (`cmd/testnet.go`): one sequential rewrite of the records
  of library keepers on a copied node, for local tests; nothing runs beside it
  and nothing of it is resumed. What it leaves depends on those keepers.
* Command line, application, IBC and wasm wiring: declarations and calls of
  library constructors, without state of their own.
* Gas, memo, circuit breaker, extension options and the decorators of IBC and
  wasm, which only refuse a transaction or live in libraries.
* `GenesisAccount.Validate`, which nothing calls.
* gRPC stubs, the HTTP gateway and the embedded file descriptors; the fast paths
  of reflection that only answer with constants (descriptors, type names).
* The check of x/upgrade for a lost handler (the done height without a handler)
  is made in the first PreBlock of a process; `ChainUpgrade` makes it in every
  block, which differs only for a process that loses the handler while it runs,
  and none does. The error returns of `ReadUpgradeInfo` and of the upgrade
  handler, which end the start or the block, are left out.
* Genesis files, build files and documentation.

## 8. Plan

Done, in this order: `TokenFactory`, `AnteHandler`, `TxPipeline` with
`DenomLedger`; `DenomWalk`; `ChainUpgrade`; `NodeSetup`; `Simulation`; the
proofs of `TxPipeline` and `ChainUpgrade`; `ZeroHeightExport`, `LocalNet`,
`UpgradeTest`; the codecs and `WirePath`; the proofs of `UpgradeTest`,
`LocalNet`, `NodeSetup` and `ZeroHeightExport`; `FoldTheorems`, and with it the
sums of `ZeroHeightExport`, the refinement of `DenomLedger`, `DenomWalk` and
`Simulation`; the proofs of the codecs and of `WirePath`.

Left:

1. `ChainUpgrade` with named plans, and with skip heights that differ between
   nodes as a run that shows the split.
2. A theorem for `RelayedWhole`.
