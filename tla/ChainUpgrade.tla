---------------------------- MODULE ChainUpgrade ----------------------------
(***************************************************************************)
(* The coordinated upgrade from v1 to v2: the upgrade handler and store    *)
(* loader of app/upgrades.go, the PreBlocker of x/upgrade that calls them, *)
(* the nodes' Cosmovisor (set up by medasdigital_setup.sh) and the         *)
(* operators of docs/upgrades/v2.md, on nodes that lag, crash and restart. *)
(*                                                                         *)
(* Consensus is external: a block is decided when nodes with more than 2/3 *)
(* of the voting power have executed all earlier ones.  It is decided      *)
(* before it is executed, so the block of the upgrade height is decided by *)
(* v1 and executed by v2.  Of a block's contents only the governance       *)
(* messages about the upgrade plan are kept.                               *)
(***************************************************************************)
EXTENDS Naturals, Sequences, FiniteSetsExt

CONSTANTS
    Nodes,
    Power,          \* the voting power of each node
    Supervised,     \* the nodes that run under Cosmovisor
    Contents,       \* what the decided blocks may contain
    StoreUpgrades,  \* the stores the upgrade adds (none in v2)
    SkipHeights,    \* --unsafe-skip-upgrades, the same on every node
    MaxHeight,      \* bound: number of decided blocks
    MaxCrashes,     \* bound: number of crashes
    MaxSwaps        \* bound: number of binaries exchanged by hand at a wrong time

Schedule == [type : {"schedule"}, height : Nat \ {0}]
Other == [type : {"none", "cancel"}]

ASSUME NodesAssumption == Supervised \subseteq Nodes /\ Power \in [Nodes -> Nat]
ASSUME ContentsAssumption == Contents \subseteq Schedule \cup Other
ASSUME HeightsAssumption ==
    SkipHeights \subseteq Nat /\ MaxHeight \in Nat /\ MaxCrashes \in Nat /\ MaxSwaps \in Nat

VARIABLES
    chain,     \* the decided blocks
    results,   \* per node: what committing each block gave, and by which binary
    status,    \* per node: "down", "up", or "halted" (alive, consensus has failed)
    binary,    \* per node: the binary that is started
    prepared,  \* per node: is the v2 binary in cosmovisor/upgrades?
    info,      \* per node: the height in upgrade-info.json, 0 if there is none
    stores,    \* per node: which of StoreUpgrades the committed version has
    crashes, swaps

vars == <<chain, results, status, binary, prepared, info, stores, crashes, swaps>>

Binaries == {"v1", "v2"}

\* The state of x/upgrade: the pending plan and where v2 was applied (0: not).
AppState == [plan : Nat, done : Nat]

GenesisState == [plan |-> 0, done |-> 0]

\* A committed block: by which binary, and the state it left.
Result == [by : Binaries, app : AppState]

TypeOK ==
    /\ chain \in Seq(Contents)
    /\ results \in [Nodes -> Seq(Result)]
    /\ status \in [Nodes -> {"down", "up", "halted"}]
    /\ binary \in [Nodes -> Binaries]
    /\ prepared \in [Nodes -> BOOLEAN]
    /\ info \in [Nodes -> Nat]
    /\ stores \in [Nodes -> SUBSET StoreUpgrades]
    /\ crashes \in 0 .. MaxCrashes
    /\ swaps \in 0 .. MaxSwaps

Init ==
    /\ chain = <<>>
    /\ results = [n \in Nodes |-> <<>>]
    /\ status = [n \in Nodes |-> "up"]
    /\ binary = [n \in Nodes |-> "v1"]
    /\ prepared = [n \in Nodes |-> FALSE]
    /\ info = [n \in Nodes |-> 0]
    /\ stores = [n \in Nodes |-> {}]
    /\ crashes = 0
    /\ swaps = 0

-----------------------------------------------------------------------------
(* What a node has executed.                                               *)

Height(n) == Len(results[n])

\* The application state of node n after height h.
AppAt(n, h) == IF h = 0 THEN GenesisState ELSE results[n][h].app

App(n) == AppAt(n, Height(n))

-----------------------------------------------------------------------------
(* The application.                                                        *)

\* Defect: the handler is registered in both binaries.
HandlerInBoth(b) == TRUE

\* setUpgradeHandlers: v2 is the only upgrade, and only the v2 binary has it.
HasHandler(b) == b = "v2"

Due(st, h) == st.plan # 0 /\ st.plan <= h

\* The first start of v2 after the halt, with StoreUpgrades to apply.
SetsStoreLoader(n) ==
    /\ info[n] # 0
    /\ info[n] \notin SkipHeights
    /\ HasHandler(binary[n])

\* Defect: the store upgrades are applied on every start.
LoaderOnEveryStart(n) == IF SetsStoreLoader(n) THEN StoreUpgrades ELSE {}

\* Defect: the store loader is not set.
LoaderForgotten(n) == {}

\* The stores that are added while the last committed version is loaded.
StoreLoader(n) ==
    IF SetsStoreLoader(n) /\ info[n] = Height(n) + 1 THEN StoreUpgrades ELSE {}

\* The stores of the binary exist or are added now, and none of them both.
Mounted(b) == IF b = "v2" THEN StoreUpgrades ELSE {}

LoadOK(n) ==
    /\ StoreLoader(n) \cap stores[n] = {}
    /\ Mounted(binary[n]) \subseteq stores[n] \cup StoreLoader(n)

(***************************************************************************)
(* The PreBlocker: whether binary b goes on with a block at height h, and  *)
(* what it makes of the plan.  CommitsBlock fails for a binary that        *)
(* - lacks the handler of an upgrade that was applied before,              *)
(* - lacks the handler of the upgrade that is due, or                      *)
(* - has the handler of an upgrade that is pending but not due.            *)
(***************************************************************************)
CommitsBlock(b, st, h) ==
    /\ ~ Due(st, h) \/ h \in SkipHeights => (st.done # 0 => HasHandler(b))
    /\ Due(st, h) /\ h \notin SkipHeights => HasHandler(b)
    /\ ~ Due(st, h) /\ st.plan # 0 => ~ HasHandler(b)

\* Defect: a binary with the handler ignores the skipped height.
PreBlockerIgnoresSkip(b, st, h) ==
    IF ~ Due(st, h) THEN st
    ELSE IF HasHandler(b) THEN [plan |-> 0, done |-> h]
    ELSE [st EXCEPT !.plan = 0]

\* Defect: it is not recorded that the upgrade was applied.
PreBlockerForgetsDone(b, st, h) == IF Due(st, h) THEN [st EXCEPT !.plan = 0] ELSE st

\* The plan is cleared; unless it is skipped the handler has run.
PreBlocker(b, st, h) ==
    IF ~ Due(st, h) THEN st
    ELSE IF h \in SkipHeights THEN [st EXCEPT !.plan = 0]
    ELSE IF HasHandler(b) THEN [plan |-> 0, done |-> h]
    ELSE st

\* Defect: the plan keeps the number of blocks to go, whatever the height.
ScheduleRelative(st, h, c) ==
    CASE c.type = "schedule" -> [st EXCEPT !.plan = c.height - h]
      [] c.type = "cancel"   -> [st EXCEPT !.plan = 0]
      [] c.type = "none"     -> st

\* ScheduleUpgrade refuses a past height and an upgrade that is completed.
DeliverContent(st, h, c) ==
    CASE c.type = "schedule" -> IF c.height >= h /\ st.done = 0
                                THEN [st EXCEPT !.plan = c.height] ELSE st
      [] c.type = "cancel"   -> [st EXCEPT !.plan = 0]
      [] c.type = "none"     -> st

\* What a block with content c makes of the application state.
BlockResult(b, st, h, c) == DeliverContent(PreBlocker(b, st, h), h, c)

-----------------------------------------------------------------------------
(* Consensus.                                                              *)

PowerOf(Q) == MapThenSumSet(LAMBDA n : Power[n], Q)

Quorums == {Q \in SUBSET Nodes : 3 * PowerOf(Q) > 2 * PowerOf(Nodes)}

Decide(c) ==
    /\ Len(chain) < MaxHeight
    /\ \E Q \in Quorums : \A n \in Q : status[n] = "up" /\ Height(n) = Len(chain)
    /\ chain' = Append(chain, c)
    /\ UNCHANGED <<results, status, binary, prepared, info, stores, crashes, swaps>>

-----------------------------------------------------------------------------
(* A node.                                                                 *)

\* app.New: handlers, store loader, Load; the block loop starts if it loads.
Start(n) ==
    /\ status[n] = "down"
    /\ LoadOK(n)
    /\ status' = [status EXCEPT ![n] = "up"]
    /\ UNCHANGED <<chain, results, binary, prepared, info, stores, crashes, swaps>>

Executes(n) == status[n] = "up" /\ Height(n) < Len(chain)

CommitBlock(n) ==
    LET h == Height(n) + 1
    IN  /\ Executes(n)
        /\ CommitsBlock(binary[n], App(n), h)
        /\ results' = [results EXCEPT ![n] =
               Append(@, [by  |-> binary[n],
                          app |-> BlockResult(binary[n], App(n), h, chain[h])])]
        /\ stores' = [stores EXCEPT ![n] = @ \cup Mounted(binary[n])]
        /\ UNCHANGED <<chain, status, binary, prepared, info, crashes, swaps>>

\* The block of the upgrade height reaches a binary without the handler.
NeedsUpgrade(n) ==
    /\ status[n] = "up"
    /\ Due(App(n), Height(n) + 1)
    /\ Height(n) + 1 \notin SkipHeights
    /\ ~ HasHandler(binary[n])

\* upgrade-info.json is written and consensus fails; the process lives on.
HaltForUpgrade(n) ==
    /\ Executes(n)
    /\ NeedsUpgrade(n)
    /\ info' = [info EXCEPT ![n] = Height(n) + 1]
    /\ status' = [status EXCEPT ![n] = "halted"]
    /\ UNCHANGED <<chain, results, binary, prepared, stores, crashes, swaps>>

\* Optimistic execution writes it as soon as the block is proposed.
SpeculateUpgrade(n) ==
    /\ NeedsUpgrade(n)
    /\ Height(n) = Len(chain)
    /\ info' = [info EXCEPT ![n] = Height(n) + 1]
    /\ UNCHANGED <<chain, results, status, binary, prepared, stores, crashes, swaps>>

\* Too early or too late for this binary: consensus fails, nothing is written.
RefuseBlock(n) ==
    /\ Executes(n)
    /\ ~ NeedsUpgrade(n)
    /\ ~ CommitsBlock(binary[n], App(n), Height(n) + 1)
    /\ status' = [status EXCEPT ![n] = "halted"]
    /\ UNCHANGED <<chain, results, binary, prepared, info, stores, crashes, swaps>>

Crash(n) ==
    /\ crashes < MaxCrashes
    /\ status[n] # "down"
    /\ crashes' = crashes + 1
    /\ status' = [status EXCEPT ![n] = "down"]
    /\ UNCHANGED <<chain, results, binary, prepared, info, stores, swaps>>

-----------------------------------------------------------------------------
(* Cosmovisor and the operators.                                           *)

\* medasdigital_setup.sh prepare-upgrade v2
PrepareUpgrade(n) ==
    /\ n \in Supervised
    /\ ~ prepared[n]
    /\ prepared' = [prepared EXCEPT ![n] = TRUE]
    /\ UNCHANGED <<chain, results, status, binary, info, stores, crashes, swaps>>

SeesUpgrade(n) ==
    n \in Supervised /\ info[n] # 0 /\ binary[n] = "v1" /\ status[n] # "down"

CosmovisorSwitches(n) ==
    /\ SeesUpgrade(n)
    /\ prepared[n]
    /\ binary' = [binary EXCEPT ![n] = "v2"]
    /\ status' = [status EXCEPT ![n] = "down"]
    /\ UNCHANGED <<chain, results, prepared, info, stores, crashes, swaps>>

\* Nothing prepared and downloads disabled: it exits and systemd restarts it.
CosmovisorGivesUp(n) ==
    /\ SeesUpgrade(n)
    /\ ~ prepared[n]
    /\ status' = [status EXCEPT ![n] = "down"]
    /\ UNCHANGED <<chain, results, binary, prepared, info, stores, crashes, swaps>>

\* Without Cosmovisor the operator installs v2 after the halt.
OperatorSwitches(n) ==
    /\ n \notin Supervised
    /\ status[n] = "halted"
    /\ info[n] # 0
    /\ binary[n] = "v1"
    /\ binary' = [binary EXCEPT ![n] = "v2"]
    /\ status' = [status EXCEPT ![n] = "down"]
    /\ UNCHANGED <<chain, results, prepared, info, stores, crashes, swaps>>

\* v2 installed before the upgrade height, or v1 put back, at any moment.
OperatorSwaps(n, b) ==
    /\ swaps < MaxSwaps
    /\ swaps' = swaps + 1
    /\ binary[n] # b
    /\ binary' = [binary EXCEPT ![n] = b]
    /\ status' = [status EXCEPT ![n] = "down"]
    /\ UNCHANGED <<chain, results, prepared, info, stores, crashes>>

-----------------------------------------------------------------------------
NodeStep(n) ==
    Start(n) \/ CommitBlock(n) \/ HaltForUpgrade(n) \/ RefuseBlock(n)

SwitchStep(n) == CosmovisorSwitches(n) \/ CosmovisorGivesUp(n) \/ OperatorSwitches(n)

Next ==
    \/ \E c \in Contents : Decide(c)
    \/ \E n \in Nodes :
          \/ NodeStep(n) \/ SwitchStep(n)
          \/ SpeculateUpgrade(n) \/ Crash(n) \/ PrepareUpgrade(n)
          \/ \E b \in Binaries : OperatorSwaps(n, b)

Spec == Init /\ [][Next]_vars

(***************************************************************************)
(* The unit has Restart=always, the block loop and Cosmovisor are loops,   *)
(* and a connected quorum decides blocks.                                  *)
(***************************************************************************)
FairSpec ==
    /\ Spec
    /\ WF_vars(\E c \in Contents : Decide(c))
    /\ \A n \in Nodes : WF_vars(NodeStep(n)) /\ WF_vars(SwitchStep(n))

-----------------------------------------------------------------------------
(* Properties.                                                             *)

(***************************************************************************)
(* All nodes get the same application state from every block, whichever    *)
(* binary they run, however often they crash and whoever exchanges their   *)
(* binary: otherwise the app hashes would split the chain.                 *)
(***************************************************************************)
Agreement ==
    \A m, n \in Nodes : \A h \in 1 .. Height(m) :
        h <= Height(n) => results[m][h].app = results[n][h].app

(***************************************************************************)
(* docs/upgrades/v2.md: while the plan is pending no node commits a block  *)
(* with v2, and from the upgrade height on none commits with v1; only a    *)
(* skipped upgrade lets either of them pass.                               *)
(***************************************************************************)
RightBinary ==
    \A n \in Nodes : \A h \in 1 .. Height(n) :
        /\ results[n][h].app.done # 0 => results[n][h].by = "v2"
        /\ results[n][h].by = "v2" /\ AppAt(n, h - 1).plan # 0
              => results[n][h].app.done = h \/ h \in SkipHeights

(***************************************************************************)
(* The stores of the upgrade exist exactly on the nodes that have applied  *)
(* it: setUpgradeStoreLoader adds them in the block of the upgrade height, *)
(* not before, and again if the node crashes before that block is          *)
(* committed.                                                              *)
(***************************************************************************)
StoresMatchUpgrade ==
    \A n \in Nodes : stores[n] = IF App(n).done # 0 THEN StoreUpgrades ELSE {}

(***************************************************************************)
(* Once a node has halted for the upgrade, v2 loads its data on every      *)
(* start: on the first one, after a crash during it, and later, when       *)
(* upgrade-info.json is stale (it is never removed).                       *)
(***************************************************************************)
LoadsAfterHalt ==
    \A n \in Nodes : info[n] # 0 /\ binary[n] = "v2" => LoadOK(n)

(***************************************************************************)
(* docs/upgrades/v2.md, "The chain continues as soon as validators with    *)
(* more than 2/3 of the voting power run v2": the chain grows again once a *)
(* quorum is prepared for the switch or switches by hand.                  *)
(***************************************************************************)
QuorumReady == \E Q \in Quorums : \A n \in Q : prepared[n] \/ n \notin Supervised

ChainContinues ==
    \A h \in 0 .. MaxHeight - 1 : (QuorumReady /\ Len(chain) = h) ~> (Len(chain) > h)
=============================================================================
