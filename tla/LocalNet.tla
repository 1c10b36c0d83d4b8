------------------------------ MODULE LocalNet ------------------------------
(***************************************************************************)
(* The local test network: one node in the background, found again through *)
(* a pid file, and a script that starts it, waits for it, sends a payment  *)
(* and stops it.  The node, and other processes that may be given its pid  *)
(* after it has ended, run between any two commands of the script.         *)
(***************************************************************************)
EXTENDS Integers, Sequences, FiniteSets

CONSTANTS
    Pids,           \* process ids
    NoPid,          \* there is no pid file
    NetMaxTries,    \* (bound) passes of a waiting loop, 30 or 60 in the script
    NetMaxHeight    \* (bound) blocks of a chain

ASSUME NoPidAssumption == NoPid \notin Pids
ASSUME NetBoundsAssumption == NetMaxTries \in Nat \ {0} /\ NetMaxHeight \in Nat

VARIABLES
    netProcs,     \* what runs under each pid
    pidFile,      \* .localnet/node.pid
    home,         \* has .localnet/home been initialised
    netChain,     \* height, payments made and the payment in the mempool
    todo,         \* the functions the script has still to run
    pc,           \* where the function that runs now is
    local,        \* its variables: pid, tries, target height, payments before
    exit          \* how the last command ended

files == <<pidFile, home>>
netScript == <<todo, pc, local, exit>>
netVars == <<netProcs, files, netChain, netScript>>

\* "forked" is the child of start_node before it executes the binary; "term"
\* is a node that has been asked to end and "killed" one that has been killed;
\* a "hung" node accepts connections and does not answer.
ProcStates == {"free", "forked", "node", "hung", "term", "killed", "other"}

Locals == [pid : Pids \cup {NoPid}, tries : 0 .. NetMaxTries, target : Nat, before : Nat]
NoLocals == [pid |-> NoPid, tries |-> 0, target |-> 0, before |-> 0]

FreshChain == [height |-> 0, paid |-> 0, pending |-> FALSE]

Exits == {"none", "ok", "not initialised", "already running", "kill failed",
          "node exited", "no blocks", "stalled", "rejected", "not found", "balance"}

NetTypeOK ==
    /\ netProcs \in [Pids -> ProcStates]
    /\ pidFile \in Pids \cup {NoPid}
    /\ home \in BOOLEAN
    /\ netChain \in [height : 0 .. NetMaxHeight, paid : Nat, pending : BOOLEAN]
    /\ todo \in Seq({"stop", "init", "start", "blocks", "new", "smoke"})
    /\ pc \in {"idle", "next", "kill", "gone", "remove", "reach", "above", "send", "wait"}
    /\ local \in Locals
    /\ exit \in Exits

NetInit ==
    /\ netProcs = [p \in Pids |-> "free"]
    /\ pidFile = NoPid
    /\ home = FALSE
    /\ netChain = FreshChain
    /\ todo = <<>>
    /\ pc = "idle"
    /\ local = NoLocals
    /\ exit = "none"

-----------------------------------------------------------------------------
(* The other processes.                                                    *)

Becomes(p, state) ==
    /\ netProcs' = [netProcs EXCEPT ![p] = state]
    /\ UNCHANGED <<files, netChain, netScript>>

\* The child of start_node executes the binary.
NodeRuns(p) == netProcs[p] = "forked" /\ Becomes(p, "node")

NodeHangs(p) == netProcs[p] = "node" /\ Becomes(p, "hung")

\* A node ends: it crashes, cannot start, or follows the signal it was sent.
NodeEnds(p) ==
    netProcs[p] \in {"forked", "node", "hung", "term", "killed"} /\ Becomes(p, "free")

\* The operating system gives the pid to another process; it has more of them.
PidReused(p) ==
    /\ netProcs[p] = "free" /\ \E q \in Pids \ {p} : netProcs[q] = "free"
    /\ Becomes(p, "other")

OtherEnds(p) == netProcs[p] = "other" /\ Becomes(p, "free")

\* A running node commits a block, with the payment if there is one.
NetBlock(p) ==
    /\ netProcs[p] = "node" /\ home
    /\ netChain.height < NetMaxHeight
    /\ netChain' = [height |-> netChain.height + 1, pending |-> FALSE,
                    paid |-> netChain.paid + (IF netChain.pending THEN 1 ELSE 0)]
    /\ UNCHANGED <<netProcs, files, netScript>>

-----------------------------------------------------------------------------
(* The script.                                                             *)

\* The command line of the process that the pid file names holds the home.
NodePidOK == pidFile # NoPid /\ netProcs[pidFile] \in {"node", "hung", "term"}

\* A request to the RPC comes back, with an answer or refused because nobody
\* listens.  That of a hung node does not: neither curl nor the queries of the
\* binary have a time limit.
RequestReturns == \A p \in Pids : netProcs[p] # "hung"

\* The height that a request reports: none if no node answers.
HeightsSeen ==
    {0} \cup (IF \E p \in Pids : netProcs[p] = "node" THEN {netChain.height} ELSE {})

NetDie(message) ==
    /\ pc' = "idle" /\ todo' = <<>> /\ exit' = message /\ local' = NoLocals

Returns ==
    /\ local' = NoLocals
    /\ IF todo = <<>> THEN pc' = "idle" /\ exit' = "ok" ELSE pc' = "next" /\ UNCHANGED exit
    /\ UNCHANGED todo

At(place, l) == pc' = place /\ local' = l /\ UNCHANGED <<todo, exit>>

\* Another pass of a waiting loop, which gives up after MaxTries of them.
TryAgain(message) ==
    IF local.tries < NetMaxTries
    THEN At(pc, [local EXCEPT !.tries = @ + 1])
    ELSE NetDie(message)

Starts(function) == pc = "next" /\ todo # <<>> /\ Head(todo) = function

\* The function that runs now is the head of what was to be run.
Leaves(place, l) == todo' = Tail(todo) /\ pc' = place /\ local' = l /\ UNCHANGED exit

Programs ==
    [up |-> <<"stop", "init", "start", "blocks", "smoke">>,
     init |-> <<"stop", "init">>,
     start |-> <<"start", "new">>,
     stop |-> <<"stop">>,
     smoke |-> <<"smoke">>]

\* Defect: start does not look for a running node.
MainStartsAgain(cmd) ==
    /\ pc = "idle"
    /\ \A p \in Pids : netProcs[p] # "forked"
    /\ todo' = Programs[cmd] /\ pc' = "next" /\ exit' = "none" /\ local' = NoLocals
    /\ UNCHANGED <<netProcs, files, netChain>>

\* An operator's next command comes after the child of an earlier one has
\* executed the binary.
Main(cmd) ==
    /\ pc = "idle"
    /\ \A p \in Pids : netProcs[p] # "forked"
    /\ IF cmd = "start" /\ (~home \/ NodePidOK)
       THEN NetDie(IF home THEN "already running" ELSE "not initialised")
       ELSE /\ todo' = Programs[cmd] /\ pc' = "next" /\ exit' = "none" /\ local' = NoLocals
    /\ UNCHANGED <<netProcs, files, netChain>>

StopNode ==
    /\ Starts("stop")
    /\ IF NodePidOK THEN Leaves("kill", [NoLocals EXCEPT !.pid = pidFile])
                    ELSE Leaves("remove", NoLocals)
    /\ UNCHANGED <<netProcs, files, netChain>>

\* A signal to the pid that was read before.
Signal(state) ==
    netProcs' = [netProcs EXCEPT ![local.pid] = IF @ = "other" THEN @ ELSE state]

\* kill fails, and set -e ends the script, if there is no such process.
Kill ==
    /\ pc = "kill"
    /\ IF netProcs[local.pid] = "free"
       THEN NetDie("kill failed") /\ UNCHANGED netProcs
       ELSE At("gone", local) /\ Signal("term")
    /\ UNCHANGED <<files, netChain>>

\* Defect: a node that does not end is left alone.
WaitWithoutKill ==
    /\ pc = "gone"
    /\ IF netProcs[local.pid] # "free" /\ local.tries < NetMaxTries
       THEN At("gone", [local EXCEPT !.tries = @ + 1])
       ELSE At("remove", local)
    /\ UNCHANGED <<netProcs, files, netChain>>

\* Up to 30 looks whether the process is gone, and kill -9 if it is not.
WaitUntilGone ==
    /\ pc = "gone"
    /\ \/ /\ netProcs[local.pid] = "free"
          /\ At("remove", local)
          /\ UNCHANGED netProcs
       \/ /\ netProcs[local.pid] # "free" /\ local.tries < NetMaxTries
          /\ At("gone", [local EXCEPT !.tries = @ + 1])
          /\ UNCHANGED netProcs
       \/ /\ netProcs[local.pid] # "free" /\ local.tries = NetMaxTries
          /\ At("remove", local)
          /\ Signal("killed")
    /\ UNCHANGED <<files, netChain>>

RemovePidFile ==
    /\ pc = "remove"
    /\ Returns
    /\ pidFile' = NoPid
    /\ UNCHANGED <<netProcs, home, netChain>>

\* wipe_localnet and init_chain, which may die halfway.
WipeAndInit ==
    /\ Starts("init")
    /\ pidFile' = NoPid
    /\ netChain' = FreshChain
    /\ \/ /\ home' = TRUE
          /\ IF Len(todo) = 1 THEN NetDie("ok") ELSE Leaves("next", NoLocals)
       \/ home' \in BOOLEAN /\ NetDie("not initialised")
    /\ UNCHANGED netProcs

StartNode(p) ==
    /\ Starts("start")
    /\ netProcs[p] = "free"
    /\ netProcs' = [netProcs EXCEPT ![p] = "forked"]
    /\ pidFile' = p
    /\ Leaves("next", NoLocals)
    /\ UNCHANGED <<home, netChain>>

\* wait_for_blocks 3, and the first loop of wait_for_new_blocks.
WaitForBlocks ==
    /\ \/ Starts("blocks") /\ Leaves("reach", [NoLocals EXCEPT !.target = 3])
       \/ Starts("new") /\ Leaves("above", NoLocals)
    /\ UNCHANGED <<netProcs, files, netChain>>

NetRpcAnswers ==
    /\ pc = "above"
    /\ IF ~NodePidOK THEN NetDie("node exited")
       ELSE /\ RequestReturns
            /\ \E h \in HeightsSeen :
                  IF h > 0 THEN At("reach", [NoLocals EXCEPT !.target = h + 2])
                           ELSE TryAgain("no blocks")
    /\ UNCHANGED <<netProcs, files, netChain>>

\* Defect: the loop has no end.
HeightReachedWaits ==
    /\ pc = "reach"
    /\ IF ~NodePidOK THEN NetDie("node exited")
       ELSE /\ RequestReturns
            /\ \E h \in HeightsSeen : IF h >= local.target THEN Returns ELSE At(pc, local)
    /\ UNCHANGED <<netProcs, files, netChain>>

HeightReached ==
    /\ pc = "reach"
    /\ IF ~NodePidOK THEN NetDie("node exited")
       ELSE /\ RequestReturns
            /\ \E h \in HeightsSeen :
                  IF h >= local.target THEN Returns ELSE TryAgain("no blocks")
    /\ UNCHANGED <<netProcs, files, netChain>>

\* Blocks are being produced, and the balance before is known.
SmokeTest ==
    /\ Starts("smoke") /\ RequestReturns
    /\ \/ Leaves("send", [NoLocals EXCEPT !.before = netChain.paid])
          /\ \E p \in Pids : netProcs[p] = "node"
       \/ NetDie("stalled")
    /\ UNCHANGED <<netProcs, files, netChain>>

\* A payment of alice, which CheckTx refuses while another one of hers waits.
Send ==
    /\ pc = "send" /\ RequestReturns
    /\ \/ /\ ~netChain.pending /\ \E p \in Pids : netProcs[p] = "node"
          /\ netChain' = [netChain EXCEPT !.pending = TRUE]
          /\ At("wait", [local EXCEPT !.target = netChain.paid + 1])
       \/ NetDie("rejected") /\ UNCHANGED netChain
    /\ UNCHANGED <<netProcs, files>>

\* wait_tx asks for the transaction, and then the balance must have grown by
\* one payment.
WaitTx ==
    /\ pc = "wait" /\ RequestReturns
    /\ \/ /\ netChain.paid >= local.target /\ \E p \in Pids : netProcs[p] = "node"
          /\ IF netChain.paid = local.before + 1 THEN Returns ELSE NetDie("balance")
       \/ TryAgain("not found")
    /\ UNCHANGED <<netProcs, files, netChain>>

NetScriptStep ==
    \/ StopNode \/ Kill \/ WaitUntilGone \/ RemovePidFile
    \/ WipeAndInit
    \/ \E p \in Pids : StartNode(p)
    \/ WaitForBlocks \/ NetRpcAnswers \/ HeightReached
    \/ SmokeTest \/ Send \/ WaitTx

NetNext ==
    \/ \E p \in Pids : NodeRuns(p) \/ NodeHangs(p) \/ NodeEnds(p) \/ NetBlock(p)
    \/ \E p \in Pids : PidReused(p) \/ OtherEnds(p)
    \/ \E cmd \in DOMAIN Programs : Main(cmd)
    \/ NetScriptStep

NetSpec == NetInit /\ [][NetNext]_netVars

\* The shell goes on with its script, as long as no request holds it up, and a
\* killed process ends.
NetFairSpec ==
    /\ NetSpec
    /\ WF_netVars(NetScriptStep)
    /\ \A p \in Pids : WF_netVars(netProcs[p] = "killed" /\ NodeEnds(p))

-----------------------------------------------------------------------------
(* Properties.                                                             *)

Nodes == {p \in Pids : netProcs[p] \in {"forked", "node", "hung", "term"}}

\* Two nodes never run on the home directory: a node that is starting,
\* running or ending is stopped, or refused by start, before another starts.
NetOneNode == Cardinality(Nodes) <= 1

\* A node that runs when the script has ended is the one in the pid file, so
\* that stop finds it, also after a command that failed.
NodeIsTracked == pc = "idle" => \A p \in Nodes : p = pidFile

\* The script has sent a request that does not return.
HeldUp ==
    ~RequestReturns /\ (pc \in {"above", "reach", "send", "wait"} \/ Starts("smoke"))

\* Every command ends: no waiting loop depends on the node to make progress.
\* Only a request to a hung node holds one up, for as long as the node hangs;
\* stop sends none, and ends.
ScriptEnds == pc # "idle" ~> (pc = "idle" \/ HeldUp)
=============================================================================
