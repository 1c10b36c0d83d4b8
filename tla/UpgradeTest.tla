---------------------------- MODULE UpgradeTest -----------------------------
(***************************************************************************)
(* The rehearsal of a software upgrade on the local network: start a chain *)
(* with the old binary, pass a proposal, wait for the halt, go on with the *)
(* new binary and verify.  The chain runs beside the script, and what is   *)
(* rehearsed may be wrong: each binary is described by what it does right. *)
(***************************************************************************)
EXTENDS Naturals

CONSTANTS
    Buffer,     \* UPGRADE_BUFFER: blocks from the proposal to the upgrade
    MaxTries,   \* (bound) passes of a waiting loop, 60 to 360 in the script
    MaxHeight   \* (bound) blocks of the chain

ASSUME BoundsAssumption ==
    Buffer \in Nat \ {0} /\ MaxTries \in Nat \ {0} /\ MaxHeight \in Nat

VARIABLES
    tested,     \* what the old and the new binary are like
    node,       \* the binary that runs, and whether it goes on and answers
    chain,      \* height, pending plan, and where and by whom it was applied
    proposal,   \* the status of the proposal
    log,        \* messages in the log since the node was started
    step,       \* where the script is
    tries,      \* passes of its waiting loop
    upgradeHeight, \* the height that the proposal names
    target,     \* the height it waits for after the last restart
    failure     \* the message it died with

testScript == <<step, tries, upgradeHeight, target, failure>>
testVars == <<tested, node, chain, proposal, log, testScript>>

\* Has the upgrade handler; needs the system library; has the module versions
\* of mainnet; leaves the state at earlier heights as it is; accepts and runs
\* the transactions of the verification.
Binary == [handles : BOOLEAN, library : BOOLEAN, versions : BOOLEAN,
           state : BOOLEAN, txs : BOOLEAN]

Steps == {"binaries", "first", "create", "propose", "submit", "poll", "late", "halt",
          "height", "restart", "blocks", "log", "verify", "export", "again", "more",
          "passed", "died"}

Messages == {"new binary", "old binary", "not running", "proposal", "late", "no halt",
             "app height", "log", "verification", "export"}

TestTypeOK ==
    /\ tested \in [old : Binary, new : Binary]
    /\ node \in [bin : {"none", "old", "new"}, status : {"up", "halted"},
                answers : BOOLEAN]
    /\ chain \in [height : 0 .. MaxHeight, plan : Nat, done : Nat,
                  by : {"none", "old", "new"}]
    /\ proposal \in {"none", "voting", "passed", "rejected", "failed"}
    /\ log \subseteq {"needed", "applying", "panic"}
    /\ step \in Steps
    /\ tries \in 0 .. MaxTries
    /\ upgradeHeight \in Nat /\ target \in Nat
    /\ failure \in {""} \cup Messages

Good == [handles |-> TRUE, library |-> FALSE, versions |-> TRUE,
         state |-> TRUE, txs |-> TRUE]

\* The old binary is as on mainnet, or has a handler that it should not have or
\* other module versions.
OldBinaries == {b \in Binary : b.library /\ b.state /\ b.txs}

TestInit ==
    /\ tested \in [old : OldBinaries, new : Binary]
    /\ node = [bin |-> "none", status |-> "up", answers |-> TRUE]
    /\ chain = [height |-> 0, plan |-> 0, done |-> 0, by |-> "none"]
    /\ proposal = "none"
    /\ log = {}
    /\ step = "binaries"
    /\ tries = 0
    /\ upgradeHeight = 0
    /\ target = 0
    /\ failure = ""

-----------------------------------------------------------------------------
(* The node.                                                               *)

Producing == node.bin # "none" /\ node.status = "up" /\ chain.height < MaxHeight

Due == chain.plan # 0 /\ chain.plan <= chain.height + 1

\* A block is committed; if the plan is due the binary's handler runs.
Block ==
    /\ Producing
    /\ IF Due THEN tested[node.bin].handles
              ELSE chain.plan = 0 \/ ~tested[node.bin].handles
    /\ chain' = IF Due THEN [height |-> chain.height + 1, plan |-> 0,
                             done |-> chain.height + 1, by |-> node.bin]
                ELSE [chain EXCEPT !.height = @ + 1]
    /\ log' = IF Due THEN log \cup {"applying"} ELSE log
    /\ UNCHANGED <<tested, node, proposal, testScript>>

\* The plan is due and the binary lacks its handler, or it is not due and the
\* binary has it.  The block is stored but not executed; the RPC still answers.
Halt ==
    /\ Producing
    /\ chain.plan # 0
    /\ Due # tested[node.bin].handles
    /\ node' = [node EXCEPT !.status = "halted"]
    /\ log' = log \cup {IF Due THEN "needed" ELSE "panic"}
    /\ UNCHANGED <<tested, chain, proposal, testScript>>

\* The voting period ends.  A plan for a height that is past is refused.
Tally ==
    /\ Producing
    /\ proposal = "voting"
    /\ \/ /\ proposal' = "rejected"
          /\ UNCHANGED chain
       \/ /\ upgradeHeight >= chain.height
          /\ proposal' = "passed"
          /\ chain' = [chain EXCEPT !.plan = upgradeHeight]
       \/ /\ upgradeHeight < chain.height
          /\ proposal' = "failed"
          /\ UNCHANGED chain
    /\ UNCHANGED <<tested, node, log, testScript>>

\* The node accepts connections and does not answer; blocks or not.
NodeStopsAnswering ==
    /\ node.bin # "none"
    /\ node' = [node EXCEPT !.answers = FALSE]
    /\ UNCHANGED <<tested, chain, proposal, log, testScript>>

NodeExits ==
    /\ node.bin # "none"
    /\ node' = [bin |-> "none", status |-> "up", answers |-> TRUE]
    /\ UNCHANGED <<tested, chain, proposal, log, testScript>>

-----------------------------------------------------------------------------
(* The script.                                                             *)

\* The steps that send requests, the waiting for a transaction among them.
Asks == {"first", "create", "propose", "submit", "poll", "late", "height", "blocks",
         "verify", "again", "more"}

\* A request comes back, with an answer or refused.  There is no time limit,
\* neither for curl nor for the queries of the binary.
Answered == step \in Asks => node.answers

\* What CometBFT's /status reports: a halted node has stored one block more.
StatusHeight == IF node.status = "halted" THEN chain.height + 1 ELSE chain.height

GoTo(next) == step' = next /\ tries' = 0 /\ UNCHANGED <<upgradeHeight, target, failure>>

Die(message) ==
    /\ step' = "died" /\ tries' = 0 /\ failure' = message
    /\ UNCHANGED <<upgradeHeight, target>>

\* The next step if the check holds, and otherwise the end.
TestCheck(here, condition, next, message) ==
    /\ step = here /\ Answered
    /\ IF condition THEN GoTo(next) ELSE Die(message)
    /\ UNCHANGED <<tested, node, chain, proposal, log>>

\* A loop that waits for a condition.  It dies after MaxTries passes, and at
\* once if what it needs in every pass does not hold.
WaitFor(here, needed, condition, next, message) ==
    /\ step = here /\ Answered
    /\ \/ needed /\ condition /\ GoTo(next)
       \/ needed /\ ~condition /\ tries < MaxTries
          /\ tries' = tries + 1 /\ UNCHANGED <<step, upgradeHeight, target, failure>>
       \/ (~needed \/ (~condition /\ tries = MaxTries)) /\ Die(message)
    /\ UNCHANGED <<tested, node, chain, proposal, log>>

\* start_node on the home directory, and the step that waits for it.
StartWith(binary, here, next) ==
    /\ step = here
    /\ GoTo(next)
    /\ node' = [bin |-> binary, status |-> "up", answers |-> TRUE]
    /\ log' = {}
    /\ UNCHANGED <<tested, chain, proposal>>

\* 0/6 and the start of the old binary.
Binaries ==
    \/ tested.new.library /\ TestCheck("binaries", FALSE, "died", "new binary")
    \/ ~tested.new.library /\ StartWith("old", "binaries", "first")

FirstBlocks ==
    WaitFor("first", node.bin = "old", StatusHeight >= 3, "create", "not running")

\* 1/6: the library, a payment, contracts, groups, a denom, module versions.
CreateState ==
    \E ran \in BOOLEAN :
        TestCheck("create", ran /\ node.bin = "old" /\ tested.old.versions,
              "propose", "old binary")

\* 2/6: the upgrade height is taken from the chain's height now.
Propose ==
    /\ step = "propose" /\ Answered
    /\ step' = "submit"
    /\ upgradeHeight' = StatusHeight + Buffer
    /\ UNCHANGED <<tested, node, chain, proposal, log, tries, target, failure>>

SubmitAndVote ==
    /\ step = "submit" /\ Answered
    /\ \/ node.status = "up" /\ node.bin = "old" /\ GoTo("poll") /\ proposal' = "voting"
       \/ Die("proposal") /\ UNCHANGED proposal
    /\ UNCHANGED <<tested, node, chain, log>>

PollProposal ==
    /\ proposal \notin {"rejected", "failed"}
    /\ WaitFor("poll", node.bin = "old", proposal = "passed", "late", "proposal")

ProposalRefused ==
    /\ proposal \in {"rejected", "failed"}
    /\ TestCheck("poll", FALSE, "died", "proposal")

BeforeUpgradeHeight ==
    TestCheck("late", StatusHeight < upgradeHeight, "halt", "late")

\* Defect: the wait for the halt ends without one.
WaitForHaltGivesUp ==
    WaitFor("halt", TRUE, tries = MaxTries \/ "needed" \in log, "height", "no halt")

\* Defect: there is no limit to the wait.
WaitForHaltForever ==
    /\ "needed" \in log
    /\ WaitFor("halt", TRUE, TRUE, "height", "no halt")

\* 3/6
WaitForHalt == WaitFor("halt", TRUE, "needed" \in log, "height", "no halt")

AppHeight ==
    TestCheck("height", node.bin = "old" /\ chain.height = upgradeHeight - 1,
          "restart", "app height")

\* 4/6: the old binary is stopped and the new one started.
Restart == StartWith("new", "restart", "blocks")

NewBlocks ==
    WaitFor("blocks", node.bin = "new", StatusHeight >= upgradeHeight + 3,
            "log", "not running")

CheckLog ==
    TestCheck("log", "applying" \in log /\ "panic" \notin log, "verify", "log")

\* Defect: the module versions are not compared again.
VerifyWithoutVersions ==
    \E ran \in BOOLEAN :
        TestCheck("verify", /\ ran /\ node.bin = "new"
                        /\ chain.done = upgradeHeight
                        /\ tested.new.state /\ tested.new.txs, "export", "verification")

\* 5/6: where the upgrade was applied, the state at the last height before
\* it, the module versions and transactions of every kind.
TestVerify ==
    \E ran \in BOOLEAN :
        TestCheck("verify", /\ ran /\ node.bin = "new"
                        /\ chain.done = upgradeHeight
                        /\ tested.new.state /\ tested.new.versions
                        /\ tested.new.txs, "export", "verification")

\* 6/6: the genesis is exported with the node stopped, and it starts again.
Export ==
    \/ StartWith("new", "export", "again")
    \/ TestCheck("export", FALSE, "died", "export")

\* wait_for_new_blocks 2
RpcAnswers ==
    /\ step = "again" /\ Answered
    /\ \/ /\ node.bin = "new"
          /\ step' = "more" /\ target' = StatusHeight + 2
          /\ UNCHANGED <<tries, upgradeHeight, failure>>
       \/ Die("not running")
    /\ UNCHANGED <<tested, node, chain, proposal, log>>

RunsAgain ==
    WaitFor("more", node.bin = "new", StatusHeight >= target, "passed", "not running")

TestScriptStep ==
    \/ Binaries \/ FirstBlocks \/ CreateState
    \/ Propose \/ SubmitAndVote \/ PollProposal \/ ProposalRefused \/ BeforeUpgradeHeight
    \/ WaitForHalt \/ AppHeight
    \/ Restart \/ NewBlocks \/ CheckLog \/ TestVerify \/ Export \/ RpcAnswers \/ RunsAgain

TestNext == Block \/ Halt \/ Tally \/ NodeStopsAnswering \/ NodeExits \/ TestScriptStep

TestSpec == TestInit /\ [][TestNext]_testVars

\* The shell goes on with its script, as long as no request holds it up.
FairSpec == TestSpec /\ WF_testVars(TestScriptStep)

-----------------------------------------------------------------------------
(* Properties.                                                             *)

\* A rehearsal that passes has shown the upgrade: the old binary left the
\* chain to the new one exactly at the height of the proposal, and nothing
\* that could be wrong with the new binary was.
PassedMeansUpgraded ==
    step = "passed" =>
        /\ tested.new = Good
        /\ ~tested.old.handles
        /\ chain.by = "new" /\ chain.done = upgradeHeight

\* The new binary is first started on a chain that the old one has halted just
\* before the upgrade height, as the validators will do it.
StartsOnHaltedChain ==
    [][node.bin' = "new" /\ chain.done = 0 =>
           /\ chain.height = upgradeHeight - 1
           /\ node.bin = "old" => node.status = "halted"]_testVars

\* The script ends, whatever the chain does: its loops are bounded.  Only a
\* request to a node that does not answer holds it up, for as long as that
\* lasts; the wait for the halt reads the log and sends none.
RehearsalEnds ==
    step \notin {"passed", "died"} ~> (step \in {"passed", "died"} \/ ~Answered)
=============================================================================
