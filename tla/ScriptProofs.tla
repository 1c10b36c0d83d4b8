---------------------------- MODULE ScriptProofs -----------------------------
(***************************************************************************)
(* The three shell scripts: the local network, the rehearsal of an upgrade *)
(* and the setup of a host.  A script is a sequence of commands between    *)
(* any two of which the processes it manages, the chain they form and the  *)
(* operator act; it is trusted for what its last step says.  Each          *)
(* invariant says, step by step, what the script has established and why   *)
(* nothing that runs beside it can take it back.                           *)
(***************************************************************************)
EXTENDS LocalNet, UpgradeTest, NodeSetup, FiniteSetTheorems, TLAPS


-----------------------------------------------------------------------------
(***************************************************************************)
(* At most one node runs on the home directory of the local network, and   *)
(* the pid file names it, proved for any set of pids and any length of the *)
(* waiting loops.  The pid file is removed and written by several          *)
(* functions while processes end and pids are given away, so neither       *)
(* property is inductive: the invariant says where in the script there can *)
(* be no node, and whom the script is about to signal.                     *)
(***************************************************************************)

\* What is left of a command while it runs.
Suffixes ==
    {<<"stop", "init", "start", "blocks", "smoke">>, <<"init", "start", "blocks", "smoke">>,
     <<"start", "blocks", "smoke">>, <<"blocks", "smoke">>, <<"smoke">>,
     <<"stop", "init">>, <<"init">>, <<"start", "new">>, <<"new">>, <<"stop">>, <<>>}

\* The waiting loops after a start are followed by the smoke test or nothing.
TodoOK ==
    /\ todo \in Suffixes
    /\ pc \in {"reach", "above", "send", "wait"} => todo \in {<<>>, <<"smoke">>}

Tracked == \A p \in Nodes : p = pidFile

\* stop_node signals the process of the pid file.
SignalsNode == pc \in {"kill", "gone"} => local.pid = pidFile /\ pidFile \in Pids

\* The function that runs next.
Upcoming == IF pc = "next" /\ todo # <<>> THEN Head(todo) ELSE "none"

\* There is no node when the pid file is removed, the home directory wiped or
\* a node started, and none that stop_node would not recognise.
NoNode ==
    /\ pc = "remove" \/ Upcoming \in {"init", "start"} => Nodes = {}
    /\ Upcoming = "stop" => \A p \in Pids : netProcs[p] # "forked"

NetIInv == NetTypeOK /\ TodoOK /\ Tracked /\ SignalsNode /\ NoNode

-----------------------------------------------------------------------------
(***************************************************************************)
(* The order of the functions in the commands: what is left after one of   *)
(* them has started.                                                       *)
(***************************************************************************)
LEMMA TodoTail ==
  ASSUME NEW t \in Suffixes, t # <<>>
  PROVE  /\ Tail(t) \in Suffixes
         /\ Head(t) \in {"blocks", "new", "smoke"} => Tail(t) \in {<<>>, <<"smoke">>}
         /\ Head(t) = "start" => Tail(t) # <<>> /\ Head(Tail(t)) \in {"blocks", "new"}
<1>1. CASE t = <<"stop", "init", "start", "blocks", "smoke">>
  <2>1. Head(t) = "stop" /\ Tail(t) = <<"init", "start", "blocks", "smoke">>
    BY <1>1
  <2>2. QED
    BY <2>1 DEF Suffixes
<1>2. CASE t = <<"init", "start", "blocks", "smoke">>
  <2>1. Head(t) = "init" /\ Tail(t) = <<"start", "blocks", "smoke">>
    BY <1>2
  <2>2. QED
    BY <2>1 DEF Suffixes
<1>3. CASE t = <<"start", "blocks", "smoke">>
  <2>1. Head(t) = "start" /\ Tail(t) = <<"blocks", "smoke">>
    BY <1>3
  <2>2. QED
    BY <2>1 DEF Suffixes
<1>4. CASE t = <<"blocks", "smoke">>
  <2>1. Head(t) = "blocks" /\ Tail(t) = <<"smoke">>
    BY <1>4
  <2>2. QED
    BY <2>1 DEF Suffixes
<1>5. CASE t = <<"smoke">>
  <2>1. Head(t) = "smoke" /\ Tail(t) = <<>>
    BY <1>5
  <2>2. QED
    BY <2>1 DEF Suffixes
<1>6. CASE t = <<"stop", "init">>
  <2>1. Head(t) = "stop" /\ Tail(t) = <<"init">>
    BY <1>6
  <2>2. QED
    BY <2>1 DEF Suffixes
<1>7. CASE t = <<"init">>
  <2>1. Head(t) = "init" /\ Tail(t) = <<>>
    BY <1>7
  <2>2. QED
    BY <2>1 DEF Suffixes
<1>8. CASE t = <<"start", "new">>
  <2>1. Head(t) = "start" /\ Tail(t) = <<"new">>
    BY <1>8
  <2>2. QED
    BY <2>1 DEF Suffixes
<1>9. CASE t = <<"new">>
  <2>1. Head(t) = "new" /\ Tail(t) = <<>>
    BY <1>9
  <2>2. QED
    BY <2>1 DEF Suffixes
<1>10. CASE t = <<"stop">>
  <2>1. Head(t) = "stop" /\ Tail(t) = <<>>
    BY <1>10
  <2>2. QED
    BY <2>1 DEF Suffixes
<1>11. QED
  BY <1>1, <1>2, <1>3, <1>4, <1>5, <1>6, <1>7, <1>8, <1>9, <1>10 DEF Suffixes

LEMMA ProgramTodo ==
  ASSUME NEW command \in DOMAIN Programs
  PROVE  /\ Programs[command] \in Suffixes
         /\ Programs[command] # <<>>
         /\ \/ Head(Programs[command]) \in {"stop", "smoke"}
            \/ command = "start" /\ Head(Programs[command]) = "start"
BY DEF Programs, Suffixes

(***************************************************************************)
(* The variables of a function that waits.                                 *)
(***************************************************************************)
LEMMA LocalsType ==
  ASSUME NetTypeOK
  PROVE  /\ NoLocals \in Locals
         /\ \A n \in Nat : [NoLocals EXCEPT !.target = n] \in Locals
         /\ \A n \in Nat : [NoLocals EXCEPT !.before = n] \in Locals
         /\ \A n \in Nat : [local EXCEPT !.target = n] \in Locals
         /\ \A p \in Pids : [NoLocals EXCEPT !.pid = p] \in Locals
         /\ local.tries < NetMaxTries => [local EXCEPT !.tries = @ + 1] \in Locals
         /\ [local EXCEPT !.tries = @ + 1].pid = local.pid
<1>1. NetMaxTries \in Nat /\ 0 \in 0 .. NetMaxTries
  BY NetBoundsAssumption
<1>2. local \in Locals /\ local.tries \in 0 .. NetMaxTries
  BY DEF NetTypeOK, Locals
<1>3. local.tries < NetMaxTries => local.tries + 1 \in 0 .. NetMaxTries
  BY <1>1, <1>2
<1>4. QED
  BY <1>1, <1>2, <1>3 DEF Locals, NoLocals

(***************************************************************************)
(* The order of the functions and the types are preserved.                 *)
(***************************************************************************)
LEMMA TodoStep == TodoOK /\ [NetNext]_netVars => TodoOK'
<1> SUFFICES ASSUME TodoOK, [NetNext]_netVars PROVE TodoOK'
  OBVIOUS
<1>0. <<>> \in Suffixes
  BY DEF Suffixes
<1>1. CASE UNCHANGED netScript
  BY <1>1 DEF TodoOK, netScript
<1>2. CASE \E command \in DOMAIN Programs : Main(command)
  <2>1. PICK command \in DOMAIN Programs : Main(command)
    BY <1>2
  <2>2. todo' \in {<<>>, Programs[command]} /\ pc' \in {"idle", "next"}
    BY <2>1 DEF Main, NetDie
  <2>3. Programs[command] \in Suffixes
    BY ProgramTodo
  <2>4. QED
    BY <1>0, <2>2, <2>3 DEF TodoOK
<1>3. CASE StopNode \/ SmokeTest \/ WaitForBlocks
  BY <1>0, <1>3, TodoTail DEF TodoOK, StopNode, SmokeTest, WaitForBlocks, Starts, Leaves, NetDie
<1>4. CASE Kill \/ WaitUntilGone \/ RemovePidFile
  BY <1>0, <1>4 DEF TodoOK, Kill, WaitUntilGone, RemovePidFile, At, NetDie, Returns
<1>5. CASE WipeAndInit \/ \E p \in Pids : StartNode(p)
  BY <1>0, <1>5, TodoTail DEF TodoOK, WipeAndInit, StartNode, Starts, Leaves, NetDie
<1>6. CASE NetRpcAnswers \/ HeightReached
  BY <1>0, <1>6 DEF TodoOK, NetRpcAnswers, HeightReached, TryAgain, At, NetDie, Returns
<1>7. CASE Send \/ WaitTx
  BY <1>0, <1>7 DEF TodoOK, Send, WaitTx, TryAgain, At, NetDie, Returns
<1>8. QED
  BY <1>1, <1>2, <1>3, <1>4, <1>5, <1>6, <1>7
     DEF NetNext, NetScriptStep, NodeRuns, NodeHangs, NodeEnds, NetBlock, PidReused,
         OtherEnds, Becomes,
         netVars, netScript

LEMMA NetTypeStep == NetTypeOK /\ TodoOK /\ [NetNext]_netVars => NetTypeOK'
<1> SUFFICES ASSUME NetTypeOK, TodoOK, [NetNext]_netVars PROVE NetTypeOK'
  OBVIOUS
<1>1. todo' \in Seq({"stop", "init", "start", "blocks", "new", "smoke"})
  <2>1. todo' \in Suffixes
    BY TodoStep DEF TodoOK
  <2> DEFINE F == {"stop", "init", "start", "blocks", "new", "smoke"}
  <2>2. /\ <<"stop", "init", "start", "blocks", "smoke">> \in Seq(F)
        /\ <<"init", "start", "blocks", "smoke">> \in Seq(F)
        /\ <<"start", "blocks", "smoke">> \in Seq(F)
    OBVIOUS
  <2>3. /\ <<"blocks", "smoke">> \in Seq(F) /\ <<"smoke">> \in Seq(F)
        /\ <<"stop", "init">> \in Seq(F) /\ <<"init">> \in Seq(F)
        /\ <<"start", "new">> \in Seq(F) /\ <<"new">> \in Seq(F)
        /\ <<"stop">> \in Seq(F) /\ <<>> \in Seq(F)
    OBVIOUS
  <2> HIDE DEF F
  <2>4. todo' \in Seq(F)
    BY <2>1, <2>2, <2>3 DEF Suffixes
  <2>5. QED
    BY <2>4 DEF F
<1>2. /\ netChain.height \in 0 .. NetMaxHeight /\ netChain.paid \in Nat
      /\ NetMaxHeight \in Nat /\ 0 \in 0 .. NetMaxHeight
  <2>1. NetMaxHeight \in Nat /\ 0 \in 0 .. NetMaxHeight
    BY NetBoundsAssumption
  <2>2. QED
    BY <2>1 DEF NetTypeOK
<1>3. FreshChain \in [height : 0 .. NetMaxHeight, paid : Nat, pending : BOOLEAN]
  BY <1>2 DEF FreshChain
<1>4. CASE \E p \in Pids : NodeRuns(p) \/ NodeHangs(p) \/ NodeEnds(p) \/ PidReused(p)
           \/ OtherEnds(p)
  BY <1>4 DEF NetTypeOK, NodeRuns, NodeHangs, NodeEnds, PidReused, OtherEnds, Becomes,
              ProcStates, files,
              netScript
<1>5. CASE \E p \in Pids : NetBlock(p)
  <2>1. netChain.height < NetMaxHeight => netChain.height + 1 \in 0 .. NetMaxHeight
    BY <1>2
  <2>2. netChain.paid + 1 \in Nat /\ netChain.paid + 0 \in Nat
    BY <1>2
  <2>3. netChain' \in [height : 0 .. NetMaxHeight, paid : Nat, pending : BOOLEAN]
    BY <1>5, <2>1, <2>2 DEF NetBlock
  <2>4. QED
    BY <1>5, <2>3 DEF NetTypeOK, NetBlock, files, netScript
<1>6. CASE \E command \in DOMAIN Programs : Main(command)
  <2>1. UNCHANGED <<netProcs, pidFile, home, netChain>> /\ local' = NoLocals
    BY <1>6 DEF Main, NetDie, files
  <2>2. pc' \in {"idle", "next"} /\ exit' \in Exits
    BY <1>6 DEF Main, NetDie, Exits
  <2>3. QED
    BY <1>1, <2>1, <2>2, LocalsType DEF NetTypeOK
<1>7. CASE StopNode
  BY <1>1, <1>7, LocalsType DEF NetTypeOK, StopNode, NodePidOK, Leaves, files
<1>8. CASE Kill
  BY <1>1, <1>8, LocalsType DEF NetTypeOK, Kill, Signal, At, NetDie, files, ProcStates, Exits
<1>9. CASE WaitUntilGone
  BY <1>1, <1>9, LocalsType DEF NetTypeOK, WaitUntilGone, Signal, At, files, ProcStates
<1>10. CASE RemovePidFile
  BY <1>1, <1>10, LocalsType DEF NetTypeOK, RemovePidFile, Returns, Exits
<1>11. CASE WipeAndInit
  BY <1>1, <1>3, <1>11, LocalsType DEF NetTypeOK, WipeAndInit, Leaves, NetDie, Exits
<1>12. CASE \E p \in Pids : StartNode(p)
  BY <1>1, <1>12, LocalsType DEF NetTypeOK, StartNode, Leaves, ProcStates
<1>13. CASE WaitForBlocks
  <2>1. local' \in {NoLocals, [NoLocals EXCEPT !.target = 3]}
    BY <1>13 DEF WaitForBlocks, Leaves
  <2>0. local' \in Locals
    <3>1. 3 \in Nat
      OBVIOUS
    <3>2. [NoLocals EXCEPT !.target = 3] \in Locals
      BY <3>1, LocalsType, Zenon
    <3>3. QED
      BY <2>1, <3>2, LocalsType, Zenon
  <2>2. /\ pc' \in {"reach", "above"} /\ exit' = exit
        /\ UNCHANGED <<netProcs, pidFile, home, netChain>>
    BY <1>13 DEF WaitForBlocks, Leaves, files
  <2>3. QED
    BY <1>1, <2>0, <2>2 DEF NetTypeOK
<1>14. CASE NetRpcAnswers
  <2>1. \A h \in HeightsSeen : h + 2 \in Nat
    BY <1>2 DEF HeightsSeen
  <2>2. local' \in Locals
    BY <1>14, <2>1, LocalsType DEF NetTypeOK, NetRpcAnswers, TryAgain, At, NetDie
  <2>3. /\ pc' \in {"idle", "reach", pc} /\ exit' \in Exits
        /\ UNCHANGED <<netProcs, pidFile, home, netChain>>
    BY <1>14 DEF NetTypeOK, NetRpcAnswers, TryAgain, At, NetDie, files, Exits
  <2>4. QED
    BY <1>1, <2>2, <2>3 DEF NetTypeOK
<1>15. CASE HeightReached
  BY <1>1, <1>15, LocalsType
     DEF NetTypeOK, HeightReached, TryAgain, At, NetDie, Returns, files, Exits
<1>16. CASE SmokeTest
  BY <1>1, <1>2, <1>16, LocalsType DEF NetTypeOK, SmokeTest, Leaves, NetDie, files, Exits
<1>17. CASE Send
  <2>1. netChain.paid + 1 \in Nat
    BY <1>2
  <2>2. local' \in Locals
    BY <1>17, <2>1, LocalsType DEF NetTypeOK, Send, At, NetDie, Locals
  <2>3. /\ pc' \in {"idle", "wait"} /\ exit' \in Exits
        /\ UNCHANGED <<netProcs, pidFile, home>>
    BY <1>17 DEF NetTypeOK, Send, At, NetDie, files, Exits
  <2>4. netChain' \in [height : 0 .. NetMaxHeight, paid : Nat, pending : BOOLEAN]
    BY <1>17 DEF NetTypeOK, Send
  <2>5. QED
    BY <1>1, <2>2, <2>3, <2>4 DEF NetTypeOK
<1>18. CASE WaitTx
  BY <1>1, <1>18, LocalsType DEF NetTypeOK, WaitTx, TryAgain, At, NetDie, Returns, files, Exits
<1>19. CASE UNCHANGED netVars
  BY <1>19 DEF NetTypeOK, netVars, files, netScript
<1>20. QED
  BY <1>4, <1>5, <1>6, <1>7, <1>8, <1>9, <1>10, <1>11, <1>12, <1>13, <1>14, <1>15, <1>16,
     <1>17, <1>18, <1>19 DEF NetNext, NetScriptStep

-----------------------------------------------------------------------------
(***************************************************************************)
(* Other processes never make a node: they run on, end, or are given the   *)
(* pid of one that has ended.                                              *)
(***************************************************************************)
LEMMA NetWorldStep ==
  ASSUME NetIInv, NEW p \in Pids,
         NodeRuns(p) \/ NodeHangs(p) \/ NodeEnds(p) \/ NetBlock(p) \/ PidReused(p)
         \/ OtherEnds(p)
  PROVE  Tracked' /\ SignalsNode' /\ NoNode'
<1>1. /\ Nodes' \subseteq Nodes
      /\ \A q \in Pids : netProcs'[q] = "forked" => netProcs[q] = "forked"
  BY DEF NetIInv, NetTypeOK, NodeRuns, NodeHangs, NodeEnds, NetBlock, PidReused, OtherEnds,
         Becomes, Nodes
<1>2. UNCHANGED <<pidFile, todo, pc, local>>
  BY DEF NodeRuns, NodeHangs, NodeEnds, NetBlock, PidReused, OtherEnds, Becomes, files, netScript
<1>3. Tracked'
  BY <1>1, <1>2 DEF NetIInv, Tracked
<1>4. SignalsNode'
  BY <1>2 DEF NetIInv, SignalsNode
<1>5. NoNode'
  BY <1>1, <1>2 DEF NetIInv, NoNode, Upcoming
<1>6. QED
  BY <1>3, <1>4, <1>5

(***************************************************************************)
(* A command: start is refused while there is a node, and the others begin *)
(* with stop or do not touch the node.                                     *)
(***************************************************************************)
LEMMA MainStep ==
  ASSUME NetIInv, NEW command \in DOMAIN Programs, Main(command)
  PROVE  Tracked' /\ SignalsNode' /\ NoNode'
<1>1. /\ UNCHANGED <<netProcs, pidFile>>
      /\ \A p \in Pids : netProcs[p] # "forked"
      /\ pc' \in {"idle", "next"}
  BY DEF Main, NetDie, files
<1>2. Nodes' = Nodes
  BY <1>1 DEF Nodes
<1>3. Tracked' /\ SignalsNode'
  BY <1>1, <1>2 DEF NetIInv, Tracked, SignalsNode
<1>4. NoNode'
  <2>1. CASE pc' = "idle"
    BY <2>1 DEF NoNode, Upcoming
  <2>2. CASE pc' = "next"
    <3>1. todo' = Programs[command] /\ ~(command = "start" /\ NodePidOK)
      BY <2>2 DEF Main, NetDie
    <3>2. command = "start" => Nodes = {}
      <4>1. SUFFICES ASSUME ~NodePidOK, NEW p \in Nodes PROVE FALSE
        BY <3>1
      <4>2. p = pidFile /\ p \in Pids /\ p # NoPid
        BY NoPidAssumption DEF NetIInv, Tracked, Nodes
      <4>3. netProcs[p] \in {"node", "hung", "term"}
        BY <1>1, <4>2 DEF Nodes
      <4>4. QED
        BY <4>1, <4>2, <4>3 DEF NodePidOK
    <3>3. Upcoming' = Head(Programs[command])
      BY <2>2, <3>1, ProgramTodo DEF Upcoming
    <3>4. \/ Upcoming' \in {"stop", "smoke"}
          \/ command = "start" /\ Upcoming' = "start"
      BY <3>3, ProgramTodo
    <3>5. \A p \in Pids : netProcs'[p] # "forked"
      BY <1>1
    <3>6. QED
      BY <1>2, <2>2, <3>2, <3>4, <3>5 DEF NoNode
  <2>3. QED
    BY <1>1, <2>1, <2>2
<1>5. QED
  BY <1>3, <1>4

(***************************************************************************)
(* stop_node: the process that it reads, signals, waits for and at last    *)
(* kills is the only node there is.                                        *)
(***************************************************************************)
LEMMA StopStep ==
  ASSUME NetIInv, StopNode \/ Kill \/ WaitUntilGone \/ RemovePidFile
  PROVE  Tracked' /\ SignalsNode' /\ NoNode'
<1>0. \A p \in Nodes : p \in Pids /\ p = pidFile /\ p # NoPid
  BY NoPidAssumption DEF NetIInv, Tracked, Nodes
<1>1. CASE StopNode
  <2>1. UNCHANGED <<netProcs, pidFile>> /\ Nodes' = Nodes
    BY <1>1 DEF StopNode, files, Nodes
  <2>2. Upcoming = "stop"
    BY <1>1 DEF StopNode, Starts, Upcoming
  <2>3. CASE NodePidOK
    <3>1. pc' = "kill" /\ local'.pid = pidFile
      BY <1>1, <2>3 DEF StopNode, Leaves, NoLocals
    <3>2. pidFile \in Pids
      BY <2>3 DEF NodePidOK, NetIInv, NetTypeOK
    <3>3. QED
      BY <2>1, <3>1, <3>2 DEF NetIInv, Tracked, SignalsNode, NoNode, Upcoming
  <2>4. CASE ~NodePidOK
    <3>1. pc' = "remove"
      BY <1>1, <2>4 DEF StopNode, Leaves
    <3>2. Nodes = {}
      <4>1. SUFFICES ASSUME NEW p \in Nodes PROVE FALSE
        OBVIOUS
      <4>2. netProcs[p] \in {"node", "hung", "term"}
        BY <1>0, <2>2 DEF NetIInv, NoNode, Nodes
      <4>3. QED
        BY <1>0, <2>4, <4>2 DEF NodePidOK
    <3>3. QED
      BY <2>1, <3>1, <3>2 DEF NetIInv, Tracked, SignalsNode, NoNode, Upcoming
  <2>5. QED
    BY <2>3, <2>4
<1>2. CASE Kill
  <2>1. UNCHANGED pidFile /\ pc = "kill" /\ local.pid \in Pids /\ local.pid = pidFile
    BY <1>2 DEF Kill, files, NetIInv, SignalsNode
  <2>2. Nodes' \subseteq Nodes \cup {pidFile}
    BY <1>2, <2>1 DEF Kill, Signal, Nodes, NetIInv, NetTypeOK
  <2>3. pc' = "idle" \/ (pc' = "gone" /\ local' = local)
    BY <1>2 DEF Kill, At, NetDie
  <2>4. QED
    BY <2>1, <2>2, <2>3 DEF NetIInv, Tracked, SignalsNode, NoNode, Upcoming
<1>3. CASE WaitUntilGone
  <2>1. UNCHANGED pidFile /\ pc = "gone" /\ local.pid \in Pids /\ local.pid = pidFile
    BY <1>3 DEF WaitUntilGone, files, NetIInv, SignalsNode
  <2>2. CASE netProcs[local.pid] = "free" /\ At("remove", local) /\ UNCHANGED netProcs
    <3>1. Nodes' = {}
      BY <1>0, <2>1, <2>2 DEF Nodes
    <3>2. QED
      BY <2>2, <3>1 DEF At, Tracked, SignalsNode, NoNode, Upcoming
  <2>3. CASE At("gone", [local EXCEPT !.tries = @ + 1]) /\ UNCHANGED netProcs
    <3>1. Nodes' = Nodes
      BY <2>3 DEF Nodes
    <3>2. local'.pid = local.pid /\ pc' = "gone"
      BY <2>3, LocalsType DEF At, NetIInv
    <3>3. QED
      BY <2>1, <3>1, <3>2 DEF NetIInv, Tracked, SignalsNode, NoNode, Upcoming
  <2>4. CASE At("remove", local) /\ Signal("killed")
    <3>1. Nodes' = {}
      BY <1>0, <2>1, <2>4 DEF Signal, Nodes, NetIInv, NetTypeOK
    <3>2. QED
      BY <2>4, <3>1 DEF At, Tracked, SignalsNode, NoNode, Upcoming
  <2>5. QED
    BY <1>3, <2>2, <2>3, <2>4 DEF WaitUntilGone
<1>4. CASE RemovePidFile
  <2>1. Nodes' = {} /\ pc' \in {"idle", "next"}
    BY <1>4 DEF RemovePidFile, Returns, Nodes, NetIInv, NoNode
  <2>2. QED
    BY <2>1 DEF Tracked, SignalsNode, NoNode, Upcoming, Nodes
<1>5. QED
  BY <1>1, <1>2, <1>3, <1>4

(***************************************************************************)
(* A new chain and a new node only where no node is left; from then on the *)
(* pid file names the new one.                                             *)
(***************************************************************************)
LEMMA StartStep ==
  ASSUME NetIInv, WipeAndInit \/ \E p \in Pids : StartNode(p)
  PROVE  Tracked' /\ SignalsNode' /\ NoNode'
<1>1. CASE WipeAndInit
  <2>1. Nodes' = {}
    BY <1>1 DEF WipeAndInit, Starts, Nodes, NetIInv, NoNode, Upcoming
  <2>2. pc' \in {"idle", "next"}
    BY <1>1 DEF WipeAndInit, Leaves, NetDie
  <2>3. QED
    BY <2>1, <2>2 DEF Tracked, SignalsNode, NoNode, Upcoming, Nodes
<1>2. CASE \E p \in Pids : StartNode(p)
  <2>1. PICK p \in Pids : StartNode(p)
    BY <1>2
  <2>2. Nodes = {}
    BY <2>1 DEF StartNode, Starts, NetIInv, NoNode, Upcoming
  <2>3. Nodes' \subseteq {p} /\ pidFile' = p /\ pc' = "next"
    BY <2>1, <2>2 DEF StartNode, Leaves, Nodes, NetIInv, NetTypeOK
  <2>4. todo' # <<>> /\ Head(todo') \in {"blocks", "new"}
    BY <2>1, TodoTail DEF StartNode, Starts, Leaves, NetIInv, TodoOK
  <2>5. QED
    BY <2>3, <2>4 DEF Tracked, SignalsNode, NoNode, Upcoming
<1>3. QED
  BY <1>1, <1>2

(***************************************************************************)
(* The loops that wait and the smoke test leave processes and pid file     *)
(* alone, and no start or stop comes after them.                           *)
(***************************************************************************)
LEMMA WaitStep ==
  ASSUME NetIInv, WaitForBlocks \/ NetRpcAnswers \/ HeightReached \/ SmokeTest \/ Send \/ WaitTx
  PROVE  Tracked' /\ SignalsNode' /\ NoNode'
<1>1. UNCHANGED <<netProcs, pidFile>>
  BY DEF WaitForBlocks, NetRpcAnswers, HeightReached, SmokeTest, Send, WaitTx, files
<1>2. pc' \in {"idle", "next", "reach", "above", "send", "wait"}
  BY DEF WaitForBlocks, NetRpcAnswers, HeightReached, SmokeTest, Send, WaitTx,
         Starts, Leaves, At, Returns, TryAgain, NetDie
<1>3. pc' = "next" => todo' \in {<<>>, <<"smoke">>}
  <2>1. CASE WaitForBlocks \/ SmokeTest
    BY <2>1, TodoTail DEF WaitForBlocks, SmokeTest, Leaves, NetDie
  <2>2. CASE NetRpcAnswers \/ HeightReached
    BY <2>2 DEF NetRpcAnswers, HeightReached, At, Returns, TryAgain, NetDie, NetIInv, TodoOK
  <2>3. CASE Send \/ WaitTx
    BY <2>3 DEF Send, WaitTx, At, Returns, TryAgain, NetDie, NetIInv, TodoOK
  <2>4. QED
    BY <2>1, <2>2, <2>3
<1>4. Upcoming' \in {"none", "smoke"}
  BY <1>3 DEF Upcoming
<1>5. Nodes' = Nodes
  BY <1>1 DEF Nodes
<1>6. QED
  BY <1>1, <1>2, <1>4, <1>5 DEF NetIInv, Tracked, SignalsNode, NoNode

-----------------------------------------------------------------------------
(***************************************************************************)
(* The invariant holds of every sequence of commands, whatever the node    *)
(* and the other processes of the host do in between.                      *)
(***************************************************************************)
THEOREM NetInvCorrect == NetSpec => []NetIInv
<1>1. NetInit => NetIInv
  <2> SUFFICES ASSUME NetInit PROVE NetIInv
    OBVIOUS
  <2>1. 0 \in 0 .. NetMaxHeight /\ 0 \in 0 .. NetMaxTries
    BY NetBoundsAssumption
  <2>2. NetTypeOK
    <3>1. NoLocals \in Locals
      BY <2>1 DEF Locals, NoLocals
    <3>2. FreshChain \in [height : 0 .. NetMaxHeight, paid : Nat, pending : BOOLEAN]
      BY <2>1 DEF FreshChain
    <3>3. <<>> \in Seq({"stop", "init", "start", "blocks", "new", "smoke"})
      OBVIOUS
    <3>4. [p \in Pids |-> "free"] \in [Pids -> ProcStates]
      BY DEF ProcStates
    <3>5. QED
      BY <3>1, <3>2, <3>3, <3>4 DEF NetInit, NetTypeOK, Exits
  <2>3. Nodes = {}
    BY DEF NetInit, Nodes
  <2>4. TodoOK
    BY DEF NetInit, TodoOK, Suffixes
  <2>5. QED
    BY <2>2, <2>3, <2>4 DEF NetInit, NetIInv, Tracked, SignalsNode, NoNode, Upcoming
<1>2. NetIInv /\ [NetNext]_netVars => NetIInv'
  <2> SUFFICES ASSUME NetIInv, [NetNext]_netVars PROVE NetIInv'
    OBVIOUS
  <2>1. NetTypeOK' /\ TodoOK'
    BY NetTypeStep, TodoStep DEF NetIInv
  <2>2. CASE NetNext
    <3>1. Tracked' /\ SignalsNode' /\ NoNode'
      BY <2>2, NetWorldStep, MainStep, StopStep, StartStep, WaitStep DEF NetNext, NetScriptStep
    <3>2. QED
      BY <2>1, <3>1 DEF NetIInv
  <2>3. CASE UNCHANGED netVars
    <3>1. Nodes' = Nodes
      BY <2>3 DEF netVars, Nodes
    <3>2. Tracked' /\ SignalsNode' /\ NoNode'
      BY <2>3, <3>1 DEF netVars, files, netScript, NetIInv, Tracked, SignalsNode, NoNode,
                        Upcoming
    <3>3. QED
      BY <2>1, <3>2 DEF NetIInv
  <2>4. QED
    BY <2>2, <2>3
<1>3. QED
  BY <1>1, <1>2, PTL DEF NetSpec

(***************************************************************************)
(* Two nodes never run on the home directory at the same time.             *)
(***************************************************************************)
THEOREM NetOneNodeHolds == NetSpec => []NetOneNode
<1>1. NetIInv => NetOneNode
  <2> SUFFICES ASSUME NetIInv PROVE Cardinality(Nodes) <= 1
    BY DEF NetOneNode
  <2>1. Nodes \subseteq {pidFile}
    BY DEF NetIInv, Tracked
  <2>2. IsFiniteSet({pidFile}) /\ Cardinality({pidFile}) = 1
    BY FS_Singleton
  <2>3. QED
    BY <2>1, <2>2, FS_Subset
<1>2. QED
  BY <1>1, NetInvCorrect, PTL

(***************************************************************************)
(* When the script has ended, the node that runs is the one in the pid     *)
(* file: stop finds it.                                                    *)
(***************************************************************************)
THEOREM NodeIsTrackedHolds == NetSpec => []NodeIsTracked
<1>1. NetIInv => NodeIsTracked
  BY DEF NetIInv, Tracked, NodeIsTracked
<1>2. QED
  BY <1>1, NetInvCorrect, PTL

-----------------------------------------------------------------------------
(***************************************************************************)
(* What a passed rehearsal means, proved for every buffer and every length *)
(* of the waiting loops.  A rehearsal is trusted for what its last step    *)
(* says, but each check is made once, at its own step, while the chain     *)
(* goes on: the invariant says what the script has established at every    *)
(* step and why the chain cannot take it back.                             *)
(***************************************************************************)

\* The steps with the old binary, and those from the start of the new one on.
BeforeSwitch == {"binaries", "first", "create", "propose", "submit", "poll", "late",
                 "halt", "height", "restart"}
AfterSwitch == {"blocks", "log", "verify", "export", "again", "more", "passed"}

\* There is no proposal before it is submitted.
ProposedLater ==
    step \in {"binaries", "first", "create", "propose", "submit"} => proposal = "none"

\* The plan is the one of the proposal, and it is applied once.
PlanOfProposal ==
    /\ proposal # "passed" => chain.plan = 0 /\ chain.done = 0
    /\ chain.plan # 0 => chain.plan = upgradeHeight /\ chain.done = 0

\* The plan is applied by a binary with its handler.
AppliedByHandler ==
    /\ chain.done = 0 <=> chain.by = "none"
    /\ chain.by # "none" => tested[chain.by].handles

\* A node that printed UPGRADE NEEDED has stopped at consensus or altogether.
NeededMeansHalted == "needed" \in log => node.bin = "none" \/ node.status = "halted"

\* With the old binary the message means that it has no handler for the plan.
OldHasNoHandler ==
    /\ step \in BeforeSwitch => node.bin # "new" /\ chain.by # "new"
    /\ step \in BeforeSwitch /\ "needed" \in log => ~tested.old.handles /\ chain.plan # 0
    /\ step \in {"height", "restart"} => "needed" \in log
    /\ step \in AfterSwitch => ~tested.old.handles /\ node.bin # "old"

\* From the switch on, the plan waits at the next height until it is applied.
WaitsForUpgrade ==
    /\ step = "restart" \/ step \in AfterSwitch \/ node.bin = "new"
    /\ chain.done = 0
    => chain.plan = upgradeHeight /\ chain.height = upgradeHeight - 1

\* What the checks of the new binary have shown.
Verified ==
    /\ step \notin {"binaries", "died"} => ~tested.new.library
    /\ step \in {"export", "again", "more", "passed"} =>
          /\ chain.done = upgradeHeight
          /\ tested.new.state /\ tested.new.versions /\ tested.new.txs

TestIInv ==
    /\ TestTypeOK
    /\ ProposedLater /\ PlanOfProposal /\ AppliedByHandler
    /\ NeededMeansHalted /\ OldHasNoHandler
    /\ WaitsForUpgrade /\ Verified

-----------------------------------------------------------------------------
(***************************************************************************)
(* A check moves the script on or ends it, a waiting loop may also stay;   *)
(* neither touches the chain.                                              *)
(***************************************************************************)
LEMMA CheckMoves ==
  ASSUME NEW here, NEW condition, NEW next \in Steps, NEW message \in Messages,
         TestTypeOK, TestCheck(here, condition, next, message)
  PROVE  /\ TestTypeOK'
         /\ step = here
         /\ step' = "died" \/ (condition /\ step' = next)
         /\ UNCHANGED <<tested, node, chain, proposal, log, upgradeHeight, target>>
<1>1. "died" \in Steps /\ 0 \in 0 .. MaxTries
  BY BoundsAssumption DEF Steps
<1>2. QED
  BY <1>1 DEF TestCheck, GoTo, Die, TestTypeOK

LEMMA WaitForMoves ==
  ASSUME NEW here, NEW needed, NEW condition, NEW next \in Steps, NEW message \in Messages,
         TestTypeOK, WaitFor(here, needed, condition, next, message)
  PROVE  /\ TestTypeOK'
         /\ step = here
         /\ step' \in {here, "died"} \/ (condition /\ step' = next)
         /\ UNCHANGED <<tested, node, chain, proposal, log, upgradeHeight, target>>
<1>1. "died" \in Steps /\ 0 \in 0 .. MaxTries
  BY BoundsAssumption DEF Steps
<1>2. tries < MaxTries => tries + 1 \in 0 .. MaxTries
  <2>1. tries \in 0 .. MaxTries /\ MaxTries \in Nat
    BY BoundsAssumption DEF TestTypeOK
  <2>2. QED
    BY <2>1
<1>3. CASE condition /\ GoTo(next)
  BY <1>1, <1>3 DEF WaitFor, GoTo, TestTypeOK
<1>4. CASE tries < MaxTries /\ tries' = tries + 1 /\ UNCHANGED <<step, upgradeHeight, target, failure>>
  BY <1>2, <1>4 DEF WaitFor, TestTypeOK
<1>5. CASE Die(message)
  BY <1>1, <1>5 DEF WaitFor, Die, TestTypeOK
<1>6. QED
  BY <1>3, <1>4, <1>5 DEF WaitFor

(***************************************************************************)
(* start_node replaces the process, and its log begins anew.               *)
(***************************************************************************)
LEMMA StartMoves ==
  ASSUME NEW binary \in {"old", "new"}, NEW here, NEW next \in Steps,
         TestTypeOK, StartWith(binary, here, next)
  PROVE  /\ TestTypeOK'
         /\ step = here /\ step' = next
         /\ node' = [bin |-> binary, status |-> "up", answers |-> TRUE] /\ log' = {}
         /\ UNCHANGED <<tested, chain, proposal, upgradeHeight, target>>
<1>1. 0 \in 0 .. MaxTries
  BY BoundsAssumption
<1>2. QED
  BY <1>1 DEF StartWith, GoTo, TestTypeOK

(***************************************************************************)
(* The steps of the script, by what they establish.                        *)
(***************************************************************************)
ScriptEffect ==
    \/ step = "binaries" /\ step' = "first" /\ ~tested.new.library
       /\ node' = [bin |-> "old", status |-> "up", answers |-> TRUE] /\ log' = {}
       /\ UNCHANGED <<tested, chain, proposal, upgradeHeight>>
    \/ step' = "died" /\ UNCHANGED <<tested, node, chain, proposal, log, upgradeHeight>>
    \/ step = "propose" /\ step' = "submit" /\ upgradeHeight' \in Nat
       /\ UNCHANGED <<tested, node, chain, proposal, log>>
    \/ step = "submit" /\ step' = "poll" /\ proposal' = "voting"
       /\ UNCHANGED <<tested, node, chain, log, upgradeHeight>>
    \/ step = "restart" /\ step' = "blocks"
       /\ node' = [bin |-> "new", status |-> "up", answers |-> TRUE] /\ log' = {}
       /\ UNCHANGED <<tested, chain, proposal, upgradeHeight>>
    \/ step = "export" /\ step' = "again"
       /\ node' = [bin |-> "new", status |-> "up", answers |-> TRUE] /\ log' = {}
       /\ UNCHANGED <<tested, chain, proposal, upgradeHeight>>
    \/ /\ UNCHANGED <<tested, node, chain, proposal, log, upgradeHeight>>
       /\ \/ step' = step
          \/ step = "first" /\ step' = "create"
          \/ step = "create" /\ step' = "propose"
          \/ step = "poll" /\ step' = "late"
          \/ step = "late" /\ step' = "halt"
          \/ step = "halt" /\ step' = "height" /\ "needed" \in log
          \/ step = "height" /\ step' = "restart" /\ chain.height = upgradeHeight - 1
          \/ step = "blocks" /\ step' = "log"
          \/ step = "log" /\ step' = "verify"
          \/ step = "verify" /\ step' = "export" /\ chain.done = upgradeHeight
             /\ tested.new.state /\ tested.new.versions /\ tested.new.txs
          \/ step = "again" /\ step' = "more"
          \/ step = "more" /\ step' = "passed"

LEMMA ScriptMoves == ASSUME TestTypeOK, TestScriptStep PROVE ScriptEffect
<1>0. USE DEF Steps, Messages
<1>1. CASE Binaries
  <2>1. CASE tested.new.library /\ TestCheck("binaries", FALSE, "died", "new binary")
    BY <2>1, CheckMoves DEF ScriptEffect
  <2>2. CASE ~tested.new.library /\ StartWith("old", "binaries", "first")
    BY <2>2, StartMoves DEF ScriptEffect
  <2>3. QED
    BY <1>1, <2>1, <2>2 DEF Binaries
<1>2. CASE FirstBlocks
  <2> DEFINE Ready == StatusHeight >= 3
  <2>1. WaitFor("first", node.bin = "old", Ready, "create", "not running")
    BY <1>2 DEF FirstBlocks
  <2> HIDE DEF Ready
  <2>2. /\ step = "first" /\ (step' \in {"first", "died"} \/ step' = "create")
        /\ UNCHANGED <<tested, node, chain, proposal, log, upgradeHeight>>
    BY <2>1, WaitForMoves
  <2>3. QED
    BY <2>2 DEF ScriptEffect
<1>3. CASE CreateState
  <2>1. PICK ran \in BOOLEAN :
          TestCheck("create", ran /\ node.bin = "old" /\ tested.old.versions, "propose", "old binary")
    BY <1>3 DEF CreateState
  <2>2. /\ step = "create" /\ step' \in {"died", "propose"}
        /\ UNCHANGED <<tested, node, chain, proposal, log, upgradeHeight>>
    BY <2>1, CheckMoves
  <2>3. QED
    BY <2>2 DEF ScriptEffect
<1>4. CASE Propose
  <2>0. chain.height \in 0 .. MaxHeight
    BY DEF TestTypeOK
  <2>1. chain.height \in Nat /\ Buffer \in Nat
    BY <2>0, BoundsAssumption
  <2>2. upgradeHeight' \in Nat
    BY <1>4, <2>1 DEF Propose, StatusHeight
  <2>3. QED
    BY <1>4, <2>2 DEF Propose, ScriptEffect
<1>5. CASE SubmitAndVote
  BY <1>5 DEF SubmitAndVote, GoTo, Die, ScriptEffect
<1>6. CASE PollProposal
  <2>1. WaitFor("poll", node.bin = "old", proposal = "passed", "late", "proposal")
    BY <1>6 DEF PollProposal
  <2>2. /\ step = "poll" /\ (step' \in {"poll", "died"} \/ step' = "late")
        /\ UNCHANGED <<tested, node, chain, proposal, log, upgradeHeight>>
    BY <2>1, WaitForMoves
  <2>3. QED
    BY <2>2 DEF ScriptEffect
<1>7. CASE ProposalRefused
  <2>1. TestCheck("poll", FALSE, "died", "proposal")
    BY <1>7 DEF ProposalRefused
  <2>2. /\ step = "poll" /\ step' = "died"
        /\ UNCHANGED <<tested, node, chain, proposal, log, upgradeHeight>>
    BY <2>1, CheckMoves
  <2>3. QED
    BY <2>2 DEF ScriptEffect
<1>8. CASE BeforeUpgradeHeight
  <2>1. TestCheck("late", StatusHeight < upgradeHeight, "halt", "late")
    BY <1>8 DEF BeforeUpgradeHeight
  <2>2. /\ step = "late" /\ (step' = "died" \/ step' = "halt")
        /\ UNCHANGED <<tested, node, chain, proposal, log, upgradeHeight>>
    BY <2>1, CheckMoves
  <2>3. QED
    BY <2>2 DEF ScriptEffect
<1>9. CASE WaitForHalt
  <2>1. WaitFor("halt", TRUE, "needed" \in log, "height", "no halt")
    BY <1>9 DEF WaitForHalt
  <2>2. /\ step = "halt" /\ (step' \in {"halt", "died"} \/ ("needed" \in log /\ step' = "height"))
        /\ UNCHANGED <<tested, node, chain, proposal, log, upgradeHeight>>
    BY <2>1, WaitForMoves
  <2>3. QED
    BY <2>2 DEF ScriptEffect
<1>10. CASE AppHeight
  <2>1. TestCheck("height", node.bin = "old" /\ chain.height = upgradeHeight - 1,
              "restart", "app height")
    BY <1>10 DEF AppHeight
  <2>2. /\ step = "height" /\ (step' = "died" \/ (chain.height = upgradeHeight - 1 /\ step' = "restart"))
        /\ UNCHANGED <<tested, node, chain, proposal, log, upgradeHeight>>
    BY <2>1, CheckMoves
  <2>3. QED
    BY <2>2 DEF ScriptEffect
<1>11. CASE Restart
  BY <1>11, StartMoves DEF Restart, ScriptEffect
<1>12. CASE NewBlocks
  <2> DEFINE Ready == StatusHeight >= upgradeHeight + 3
  <2>1. WaitFor("blocks", node.bin = "new", Ready,
                "log", "not running")
    BY <1>12 DEF NewBlocks
  <2> HIDE DEF Ready
  <2>2. /\ step = "blocks" /\ (step' \in {"blocks", "died"} \/ step' = "log")
        /\ UNCHANGED <<tested, node, chain, proposal, log, upgradeHeight>>
    BY <2>1, WaitForMoves
  <2>3. QED
    BY <2>2 DEF ScriptEffect
<1>13. CASE CheckLog
  <2>1. TestCheck("log", "applying" \in log /\ "panic" \notin log, "verify", "log")
    BY <1>13 DEF CheckLog
  <2>2. /\ step = "log" /\ (step' = "died" \/ step' = "verify")
        /\ UNCHANGED <<tested, node, chain, proposal, log, upgradeHeight>>
    BY <2>1, CheckMoves
  <2>3. QED
    BY <2>2 DEF ScriptEffect
<1>14. CASE TestVerify
  <2> DEFINE Shown == /\ chain.done = upgradeHeight
                      /\ tested.new.state /\ tested.new.versions /\ tested.new.txs
  <2>1. PICK ran \in BOOLEAN :
          TestCheck("verify", /\ ran /\ node.bin = "new"
                          /\ chain.done = upgradeHeight
                          /\ tested.new.state /\ tested.new.versions
                          /\ tested.new.txs, "export", "verification")
    BY <1>14 DEF TestVerify
  <2>2. /\ step = "verify" /\ (step' = "died" \/ (Shown /\ step' = "export"))
        /\ UNCHANGED <<tested, node, chain, proposal, log, upgradeHeight>>
    BY <2>1, CheckMoves
  <2>3. QED
    BY <2>2 DEF ScriptEffect
<1>15. CASE Export
  <2>1. CASE StartWith("new", "export", "again")
    BY <2>1, StartMoves DEF ScriptEffect
  <2>2. CASE TestCheck("export", FALSE, "died", "export")
    BY <2>2, CheckMoves DEF ScriptEffect
  <2>3. QED
    BY <1>15, <2>1, <2>2 DEF Export
<1>16. CASE RpcAnswers
  BY <1>16 DEF RpcAnswers, Die, ScriptEffect
<1>17. CASE RunsAgain
  <2> DEFINE Ready == StatusHeight >= target
  <2>1. WaitFor("more", node.bin = "new", Ready, "passed", "not running")
    BY <1>17 DEF RunsAgain
  <2> HIDE DEF Ready
  <2>2. /\ step = "more" /\ (step' \in {"more", "died"} \/ step' = "passed")
        /\ UNCHANGED <<tested, node, chain, proposal, log, upgradeHeight>>
    BY <2>1, WaitForMoves
  <2>3. QED
    BY <2>2 DEF ScriptEffect
<1>18. QED
  BY <1>1, <1>2, <1>3, <1>4, <1>5, <1>6, <1>7, <1>8, <1>9, <1>10, <1>11, <1>12, <1>13,
     <1>14, <1>15, <1>16, <1>17 DEF TestScriptStep

(***************************************************************************)
(* Every step of the chain and of the script preserves the types.          *)
(***************************************************************************)
LEMMA TestTypeStep == TestTypeOK /\ [TestNext]_testVars => TestTypeOK'
<1> SUFFICES ASSUME TestTypeOK, [TestNext]_testVars PROVE TestTypeOK'
  OBVIOUS
<1>0. /\ chain.height \in 0 .. MaxHeight /\ MaxHeight \in Nat
      /\ 0 \in 0 .. MaxTries
  <2>1. MaxHeight \in Nat /\ 0 \in 0 .. MaxTries
    BY BoundsAssumption
  <2>2. QED
    BY <2>1 DEF TestTypeOK
<1>1. CASE Block
  <2>1. chain.height + 1 \in 0 .. MaxHeight
    BY <1>0, <1>1 DEF Block, Producing
  <2>2. chain' \in [height : 0 .. MaxHeight, plan : Nat, done : Nat, by : {"none", "old", "new"}]
    <3>0. chain.height + 1 \in Nat
      BY <2>1
    <3>1. node.bin \in {"none", "old", "new"} /\ chain.height + 1 \in Nat
      BY <3>0 DEF TestTypeOK
    <3>2. CASE Due
      BY <1>1, <2>1, <3>1, <3>2 DEF Block
    <3>3. CASE ~Due
      BY <1>1, <2>1, <3>3 DEF Block, TestTypeOK
    <3>4. QED
      BY <3>2, <3>3
  <2>3. QED
    BY <1>1, <2>2 DEF Block, TestTypeOK, testScript
<1>2. CASE Halt
  BY <1>2 DEF TestTypeOK, Halt, testScript
<1>3. CASE Tally
  BY <1>3 DEF TestTypeOK, Tally, testScript
<1>4. CASE NodeStopsAnswering \/ NodeExits
  <2>1. node' \in [bin : {"none", "old", "new"}, status : {"up", "halted"},
                   answers : BOOLEAN]
    <3>1. CASE NodeStopsAnswering
      <4>1. node' = [node EXCEPT !.answers = FALSE]
        BY <3>1 DEF NodeStopsAnswering
      <4>2. QED
        BY <4>1 DEF TestTypeOK
    <3>2. CASE NodeExits
      <4>1. node' = [bin |-> "none", status |-> "up", answers |-> TRUE]
        BY <3>2 DEF NodeExits
      <4>2. QED
        BY <4>1
    <3>3. QED
      BY <1>4, <3>1, <3>2
  <2>2. UNCHANGED <<tested, chain, proposal, log, testScript>>
    BY <1>4 DEF NodeStopsAnswering, NodeExits
  <2>3. QED
    BY <2>1, <2>2 DEF TestTypeOK, testScript
<1>5. CASE TestScriptStep
  <2>0. USE DEF Steps, Messages
  <2>1. CASE Binaries
    BY <2>1, CheckMoves, StartMoves DEF Binaries
  <2>2. CASE FirstBlocks \/ NewBlocks \/ RunsAgain
    BY <2>2, WaitForMoves DEF FirstBlocks, NewBlocks, RunsAgain
  <2>3. CASE CreateState \/ CheckLog \/ TestVerify
    BY <2>3, CheckMoves DEF CreateState, CheckLog, TestVerify
  <2>4. CASE Propose
    <3>1. upgradeHeight' \in Nat
      BY <1>0, <2>4, BoundsAssumption DEF Propose, StatusHeight
    <3>2. /\ step' = "submit" /\ UNCHANGED <<tested, node, chain, proposal, log>>
          /\ UNCHANGED <<tries, target, failure>>
      BY <2>4 DEF Propose
    <3>3. step' \in Steps
      BY <3>2
    <3>4. QED
      <4>1. HIDE DEF Steps, Messages
      <4>2. QED
        BY <3>1, <3>2, <3>3 DEF TestTypeOK
  <2>5. CASE SubmitAndVote
    BY <1>0, <2>5 DEF SubmitAndVote, GoTo, Die, TestTypeOK
  <2>6. CASE PollProposal \/ WaitForHalt
    BY <2>6, WaitForMoves DEF PollProposal, WaitForHalt
  <2>7. CASE ProposalRefused \/ BeforeUpgradeHeight \/ AppHeight
    BY <2>7, CheckMoves DEF ProposalRefused, BeforeUpgradeHeight, AppHeight
  <2>8. CASE Restart
    BY <2>8, StartMoves DEF Restart
  <2>9. CASE Export
    BY <2>9, CheckMoves, StartMoves DEF Export
  <2>10. CASE RpcAnswers
    <3>1. StatusHeight + 2 \in Nat
      BY <1>0 DEF StatusHeight
    <3>2. target' \in Nat
      BY <2>10, <3>1 DEF RpcAnswers, Die, TestTypeOK
    <3>3. step' \in Steps /\ tries' \in 0 .. MaxTries
      BY <1>0, <2>10 DEF RpcAnswers, Die, TestTypeOK
    <3>4. failure' \in {""} \cup Messages
      BY <2>10 DEF RpcAnswers, Die, TestTypeOK
    <3>5. UNCHANGED <<tested, node, chain, proposal, log, upgradeHeight>>
      BY <2>10 DEF RpcAnswers, Die
    <3>6. HIDE DEF Steps, Messages
    <3>7. QED
      BY <3>2, <3>3, <3>4, <3>5 DEF TestTypeOK
  <2>11. QED
    BY <1>5, <2>1, <2>2, <2>3, <2>4, <2>5, <2>6, <2>7, <2>8, <2>9, <2>10 DEF TestScriptStep
<1>6. CASE UNCHANGED testVars
  BY <1>6 DEF TestTypeOK, testVars, testScript
<1>7. QED
  BY <1>1, <1>2, <1>3, <1>4, <1>5, <1>6 DEF TestNext

(***************************************************************************)
(* The chain cannot take back what the script has established: a block, a  *)
(* halt, the end of the voting period or of the process.                   *)
(***************************************************************************)
LEMMA ChainStep ==
  ASSUME TestIInv, Block \/ Halt \/ Tally \/ NodeStopsAnswering \/ NodeExits
  PROVE  TestIInv'
<1>1. TestTypeOK /\ TestTypeOK'
  BY TestTypeStep DEF TestIInv, TestNext
<1>2. /\ chain.height \in Nat /\ chain.plan \in Nat /\ chain.done \in Nat
      /\ upgradeHeight \in Nat
      /\ node.bin \in {"none", "old", "new"} /\ chain.by \in {"none", "old", "new"}
  <2>1. chain.height \in 0 .. MaxHeight
    BY <1>1 DEF TestTypeOK
  <2>2. chain.height \in Nat
    BY <2>1
  <2>3. QED
    BY <1>1, <2>2 DEF TestTypeOK
<1>3. /\ ProposedLater /\ PlanOfProposal /\ AppliedByHandler /\ NeededMeansHalted
      /\ OldHasNoHandler /\ WaitsForUpgrade /\ Verified
  BY DEF TestIInv
<1>4. CASE Block
  <2>1. /\ node.bin # "none" /\ node.status = "up"
        /\ UNCHANGED <<tested, node, proposal, step, upgradeHeight>>
        /\ "needed" \in log' <=> "needed" \in log
    BY <1>4 DEF Block, Producing, testScript
  <2>2. "needed" \notin log
    BY <1>3, <2>1 DEF NeededMeansHalted
  <2>3. CASE Due
    <3>1. /\ chain'.plan = 0 /\ chain'.done = chain.height + 1 /\ chain'.by = node.bin
          /\ tested[node.bin].handles /\ chain.plan # 0
      BY <1>4, <2>3 DEF Block, Due
    <3>2. proposal = "passed" /\ chain.done = 0 /\ chain.plan = upgradeHeight
      BY <1>3, <3>1 DEF PlanOfProposal
    <3>3. chain.height + 1 \in Nat \ {0}
      BY <1>2
    <3>4. step \notin {"export", "again", "more", "passed"}
      <4>1. SUFFICES ASSUME step \in {"export", "again", "more", "passed"} PROVE FALSE
        OBVIOUS
      <4>2. chain.done = upgradeHeight
        BY <1>3, <4>1 DEF Verified
      <4>3. QED
        BY <3>1, <3>2, <4>2
    <3>5. ProposedLater' /\ PlanOfProposal' /\ NeededMeansHalted'
      BY <1>3, <2>1, <2>2, <3>1, <3>2 DEF ProposedLater, PlanOfProposal, NeededMeansHalted
    <3>6. AppliedByHandler'
      BY <2>1, <3>1, <3>3 DEF AppliedByHandler
    <3>7. OldHasNoHandler' /\ WaitsForUpgrade'
      BY <1>3, <2>1, <2>2, <3>1, <3>3 DEF OldHasNoHandler, WaitsForUpgrade
    <3>8. Verified'
      BY <1>3, <2>1, <3>4 DEF Verified
    <3>9. QED
      BY <1>1, <3>5, <3>6, <3>7, <3>8 DEF TestIInv
  <2>4. CASE ~Due
    <3>1. /\ chain'.plan = chain.plan /\ chain'.done = chain.done /\ chain'.by = chain.by
      BY <1>1, <1>4, <2>4 DEF Block, TestTypeOK
    <3>2. ProposedLater' /\ PlanOfProposal' /\ AppliedByHandler' /\ NeededMeansHalted'
      BY <1>3, <2>1, <2>2, <3>1
         DEF ProposedLater, PlanOfProposal, AppliedByHandler, NeededMeansHalted
    <3>3. OldHasNoHandler' /\ Verified'
      BY <1>3, <2>1, <2>2, <3>1 DEF OldHasNoHandler, Verified
    <3>4. WaitsForUpgrade'
      <4>1. CASE chain.done # 0
        BY <3>1, <4>1 DEF WaitsForUpgrade
      <4>2. CASE ~(step = "restart" \/ step \in AfterSwitch \/ node.bin = "new")
        BY <2>1, <4>2 DEF WaitsForUpgrade
      <4>3. CASE /\ step = "restart" \/ step \in AfterSwitch \/ node.bin = "new"
                 /\ chain.done = 0
        <5>1. chain.plan = upgradeHeight /\ chain.height = upgradeHeight - 1
          BY <1>3, <4>3 DEF WaitsForUpgrade
        <5>2. Due
          BY <1>2, <5>1 DEF Due
        <5>3. QED
          BY <2>4, <5>2
      <4>4. QED
        BY <4>1, <4>2, <4>3
    <3>5. QED
      BY <1>1, <3>2, <3>3, <3>4 DEF TestIInv
  <2>5. QED
    BY <2>3, <2>4
<1>5. CASE Halt
  <2>1. /\ UNCHANGED <<tested, chain, proposal, step, upgradeHeight>>
        /\ node'.bin = node.bin /\ node'.status = "halted"
        /\ chain.plan # 0 /\ node.bin # "none"
    BY <1>1, <1>5 DEF Halt, Producing, testScript, TestTypeOK
  <2>6. "needed" \in log' => "needed" \in log \/ ~tested[node.bin].handles
    <3>1. tested[node.bin].handles \in BOOLEAN
      BY <1>1, <1>2, <2>1 DEF TestTypeOK, Binary
    <3>2. CASE Due
      BY <1>5, <3>1, <3>2 DEF Halt
    <3>3. CASE ~Due
      BY <1>5, <3>3 DEF Halt
    <3>4. QED
      BY <3>2, <3>3
  <2>2. ProposedLater' /\ PlanOfProposal' /\ AppliedByHandler' /\ NeededMeansHalted'
    BY <1>3, <2>1 DEF ProposedLater, PlanOfProposal, AppliedByHandler, NeededMeansHalted
  <2>3. OldHasNoHandler'
    <3>1. "needed" \in log => "needed" \in log'
      BY <1>5 DEF Halt
    <3>2. QED
      BY <1>2, <1>3, <2>1, <2>6, <3>1 DEF OldHasNoHandler, BeforeSwitch, AfterSwitch
  <2>4. WaitsForUpgrade' /\ Verified'
    BY <1>3, <2>1 DEF WaitsForUpgrade, Verified
  <2>5. QED
    BY <1>1, <2>2, <2>3, <2>4 DEF TestIInv
<1>6. CASE Tally
  <2>1. /\ UNCHANGED <<tested, node, log, step, upgradeHeight>>
        /\ proposal = "voting" /\ proposal' # "none"
        /\ node.bin # "none" /\ node.status = "up"
        /\ chain'.height = chain.height /\ chain'.done = chain.done /\ chain'.by = chain.by
        /\ chain'.plan = chain.plan \/ (proposal' = "passed" /\ chain'.plan = upgradeHeight)
    BY <1>1, <1>6 DEF Tally, Producing, testScript, TestTypeOK
  <2>2. chain.plan = 0 /\ chain.done = 0
    BY <1>3, <2>1 DEF PlanOfProposal
  <2>3. "needed" \notin log
    BY <1>3, <2>1 DEF NeededMeansHalted
  <2>4. ~(step = "restart" \/ step \in AfterSwitch \/ node.bin = "new")
    <3>1. SUFFICES ASSUME step = "restart" \/ step \in AfterSwitch \/ node.bin = "new"
                   PROVE  FALSE
      OBVIOUS
    <3>2. upgradeHeight = 0 /\ chain.height = upgradeHeight - 1
      BY <1>3, <2>2, <3>1 DEF WaitsForUpgrade
    <3>3. QED
      BY <1>2, <3>2
  <2>5. ProposedLater' /\ PlanOfProposal' /\ AppliedByHandler' /\ NeededMeansHalted'
    BY <1>3, <2>1, <2>2 DEF ProposedLater, PlanOfProposal, AppliedByHandler, NeededMeansHalted
  <2>6. OldHasNoHandler'
    BY <1>3, <2>1, <2>3 DEF OldHasNoHandler
  <2>7. WaitsForUpgrade' /\ Verified'
    BY <1>3, <2>1, <2>4 DEF WaitsForUpgrade, Verified
  <2>8. QED
    BY <1>1, <2>5, <2>6, <2>7 DEF TestIInv
<1>7. CASE NodeExits
  <2>1. /\ UNCHANGED <<tested, chain, proposal, log, step, upgradeHeight>>
        /\ node'.bin = "none"
    BY <1>7 DEF NodeExits, testScript
  <2>2. ProposedLater' /\ PlanOfProposal' /\ AppliedByHandler' /\ NeededMeansHalted'
    BY <1>3, <2>1 DEF ProposedLater, PlanOfProposal, AppliedByHandler, NeededMeansHalted
  <2>3. OldHasNoHandler' /\ WaitsForUpgrade' /\ Verified'
    BY <1>3, <2>1 DEF OldHasNoHandler, WaitsForUpgrade, Verified
  <2>4. QED
    BY <1>1, <2>2, <2>3 DEF TestIInv
<1>8. CASE NodeStopsAnswering
  <2>1. /\ UNCHANGED <<tested, chain, proposal, log, step, upgradeHeight>>
        /\ node'.bin = node.bin /\ node'.status = node.status
    BY <1>1, <1>8 DEF NodeStopsAnswering, testScript, TestTypeOK
  <2>2. ProposedLater' /\ PlanOfProposal' /\ AppliedByHandler' /\ NeededMeansHalted'
    BY <1>3, <2>1 DEF ProposedLater, PlanOfProposal, AppliedByHandler, NeededMeansHalted
  <2>3. OldHasNoHandler' /\ WaitsForUpgrade' /\ Verified'
    BY <1>3, <2>1 DEF OldHasNoHandler, WaitsForUpgrade, Verified
  <2>4. QED
    BY <1>1, <2>2, <2>3 DEF TestIInv
<1>9. QED
  BY <1>4, <1>5, <1>6, <1>7, <1>8

(***************************************************************************)
(* Every step of the script keeps what the earlier ones have established   *)
(* and adds what it checks itself.                                         *)
(***************************************************************************)
LEMMA ScriptStepKeeps == TestIInv /\ TestScriptStep => TestIInv'
<1> SUFFICES ASSUME TestIInv, TestScriptStep PROVE TestIInv'
  OBVIOUS
<1>1. TestTypeOK /\ TestTypeOK'
  BY TestTypeStep DEF TestIInv, TestNext
<1>2. chain.height \in Nat /\ upgradeHeight \in Nat
  <2>1. chain.height \in 0 .. MaxHeight /\ upgradeHeight \in Nat
    BY <1>1 DEF TestTypeOK
  <2>2. QED
    BY <2>1
<1>3. /\ ProposedLater /\ PlanOfProposal /\ AppliedByHandler /\ NeededMeansHalted
      /\ OldHasNoHandler /\ WaitsForUpgrade /\ Verified
  BY DEF TestIInv
<1>4. tested' = tested /\ chain' = chain
  BY <1>1, ScriptMoves DEF ScriptEffect
<1>5. AppliedByHandler'
  BY <1>3, <1>4 DEF AppliedByHandler
<1>6. ProposedLater'
  BY <1>1, <1>3, ScriptMoves DEF ScriptEffect, ProposedLater
<1>7. PlanOfProposal'
  BY <1>1, <1>3, ScriptMoves DEF ScriptEffect, ProposedLater, PlanOfProposal
<1>8. NeededMeansHalted'
  BY <1>1, <1>3, ScriptMoves DEF ScriptEffect, NeededMeansHalted
<1>9. step = "restart" => ~tested.old.handles /\ chain.done = 0
  BY <1>1, <1>3 DEF OldHasNoHandler, BeforeSwitch, AppliedByHandler, PlanOfProposal
<1>10. OldHasNoHandler'
  BY <1>1, <1>3, <1>9, ScriptMoves DEF ScriptEffect, OldHasNoHandler, BeforeSwitch, AfterSwitch
<1>11. WaitsForUpgrade'
  <2>1. CASE step = "height" /\ step' = "restart"
    <3>1. /\ chain.height = upgradeHeight - 1 /\ upgradeHeight' = upgradeHeight
          /\ node' = node
      BY <1>1, <2>1, ScriptMoves DEF ScriptEffect
    <3>2. chain.plan = upgradeHeight
      BY <1>3, <2>1 DEF OldHasNoHandler, BeforeSwitch, PlanOfProposal
    <3>3. QED
      BY <1>4, <3>1, <3>2 DEF WaitsForUpgrade
  <2>2. CASE ~(step = "height" /\ step' = "restart")
    BY <1>1, <1>3, <1>4, <2>2, ScriptMoves
       DEF ScriptEffect, WaitsForUpgrade, OldHasNoHandler, BeforeSwitch, AfterSwitch
  <2>3. QED
    BY <2>1, <2>2
<1>12. Verified'
  BY <1>1, <1>3, ScriptMoves DEF ScriptEffect, Verified
<1>13. QED
  BY <1>1, <1>5, <1>6, <1>7, <1>8, <1>10, <1>11, <1>12 DEF TestIInv

-----------------------------------------------------------------------------
(***************************************************************************)
(* The invariant holds of every rehearsal, whatever the two binaries do.   *)
(***************************************************************************)
THEOREM TestInvCorrect == TestSpec => []TestIInv
<1>1. TestInit => TestIInv
  <2> SUFFICES ASSUME TestInit PROVE TestIInv
    OBVIOUS
  <2>1. tested \in [old : Binary, new : Binary]
    <3>1. OldBinaries \subseteq Binary
      BY DEF OldBinaries
    <3>2. QED
      BY <3>1 DEF TestInit
  <2>2. 0 \in 0 .. MaxHeight /\ 0 \in 0 .. MaxTries
    BY BoundsAssumption
  <2>3. TestTypeOK
    BY <2>1, <2>2 DEF TestInit, TestTypeOK, Steps
  <2>4. QED
    BY <2>3 DEF TestInit, TestIInv, ProposedLater, PlanOfProposal, AppliedByHandler,
                NeededMeansHalted, OldHasNoHandler, BeforeSwitch, AfterSwitch,
                WaitsForUpgrade, Verified
<1>2. TestIInv /\ [TestNext]_testVars => TestIInv'
  <2> SUFFICES ASSUME TestIInv, [TestNext]_testVars PROVE TestIInv'
    OBVIOUS
  <2>1. CASE TestNext
    BY <2>1, ChainStep, ScriptStepKeeps DEF TestNext
  <2>2. CASE UNCHANGED testVars
    <3>1. TestTypeOK'
      BY TestTypeStep DEF TestIInv
    <3>2. UNCHANGED <<tested, node, chain, proposal, log, step, upgradeHeight>>
      BY <2>2 DEF testVars, testScript
    <3>3. ProposedLater' /\ PlanOfProposal' /\ AppliedByHandler'
      BY <3>2 DEF TestIInv, ProposedLater, PlanOfProposal, AppliedByHandler
    <3>4. NeededMeansHalted' /\ OldHasNoHandler'
      BY <3>2 DEF TestIInv, NeededMeansHalted, OldHasNoHandler
    <3>5. WaitsForUpgrade' /\ Verified'
      BY <3>2 DEF TestIInv, WaitsForUpgrade, Verified
    <3>6. QED
      BY <3>1, <3>3, <3>4, <3>5 DEF TestIInv
  <2>3. QED
    BY <2>1, <2>2
<1>3. QED
  BY <1>1, <1>2, PTL DEF TestSpec

(***************************************************************************)
(* A rehearsal that passes has shown the upgrade: nothing is wrong with    *)
(* the new binary, the old one has no handler, and the new one applied the *)
(* plan at the height of the proposal.                                     *)
(***************************************************************************)
THEOREM PassedMeansUpgradedHolds == TestSpec => []PassedMeansUpgraded
<1>1. TestIInv => PassedMeansUpgraded
  <2> SUFFICES ASSUME TestIInv, step = "passed"
               PROVE  /\ tested.new = Good /\ ~tested.old.handles
                      /\ chain.by = "new" /\ chain.done = upgradeHeight
    BY DEF PassedMeansUpgraded
  <2>1. /\ chain.done = upgradeHeight /\ ~tested.old.handles /\ ~tested.new.library
        /\ tested.new.state /\ tested.new.versions /\ tested.new.txs
    BY DEF TestIInv, Verified, OldHasNoHandler, AfterSwitch
  <2>2. chain.done # 0
    <3>1. SUFFICES ASSUME chain.done = 0 PROVE FALSE
      OBVIOUS
    <3>2. chain.height = upgradeHeight - 1
      BY <3>1 DEF TestIInv, WaitsForUpgrade, AfterSwitch
    <3>3. chain.height \in 0 .. MaxHeight
      BY DEF TestIInv, TestTypeOK
    <3>4. chain.height \in Nat
      BY <3>3
    <3>5. upgradeHeight = 0
      BY <2>1, <3>1
    <3>6. QED
      BY <3>2, <3>4, <3>5
  <2>3. chain.by = "new" /\ tested.new.handles
    BY <2>1, <2>2 DEF TestIInv, TestTypeOK, AppliedByHandler
  <2>4. tested.new \in Binary
    BY DEF TestIInv, TestTypeOK
  <2>5. tested.new = Good
    BY <2>1, <2>3, <2>4 DEF Binary, Good
  <2>6. QED
    BY <2>1, <2>3, <2>5
<1>2. QED
  BY <1>1, TestInvCorrect, PTL

(***************************************************************************)
(* The new binary only ever runs on a chain that is past the upgrade or    *)
(* waits just before it, and it replaces the old one after its halt.       *)
(***************************************************************************)
THEOREM StartsOnHaltedChainHolds == TestSpec => StartsOnHaltedChain
<1> DEFINE Step ==
      node.bin' = "new" /\ chain.done = 0 =>
          /\ chain.height = upgradeHeight - 1
          /\ node.bin = "old" => node.status = "halted"
<1>1. TestIInv /\ [TestNext]_testVars => [Step]_testVars
  <2> SUFFICES ASSUME TestIInv, TestNext, node.bin' = "new", chain.done = 0
               PROVE  /\ chain.height = upgradeHeight - 1
                      /\ node.bin = "old" => node.status = "halted"
    OBVIOUS
  <2>1. node.bin = "new" \/ step \in {"restart", "export"}
    <3>1. CASE Block \/ Halt \/ Tally \/ NodeStopsAnswering \/ NodeExits
      <4>1. CASE Block \/ Tally
        BY <4>1 DEF Block, Tally
      <4>2. CASE Halt
        BY <4>2 DEF Halt, TestIInv, TestTypeOK
      <4>3. CASE NodeExits
        BY <4>3 DEF NodeExits
      <4>4. CASE NodeStopsAnswering
        BY <4>4 DEF NodeStopsAnswering, TestIInv, TestTypeOK
      <4>5. QED
        BY <3>1, <4>1, <4>2, <4>3, <4>4
    <3>2. CASE TestScriptStep
      BY <3>2, ScriptMoves DEF ScriptEffect, TestIInv
    <3>3. QED
      BY <3>1, <3>2 DEF TestNext
  <2>2. chain.height = upgradeHeight - 1
    BY <2>1 DEF TestIInv, WaitsForUpgrade, AfterSwitch
  <2>3. ASSUME node.bin = "old" PROVE node.status = "halted"
    BY <2>1, <2>3 DEF TestIInv, OldHasNoHandler, BeforeSwitch, AfterSwitch, NeededMeansHalted
  <2>4. QED
    BY <2>2, <2>3
<1>2. QED
  BY <1>1, TestInvCorrect, PTL DEF TestSpec, StartsOnHaltedChain

-----------------------------------------------------------------------------
(***************************************************************************)
(* The host that medasdigital_setup.sh leaves behind, proved for every     *)
(* sequence of commands, interruptions, reboots and acts of the operator.  *)
(* What the unit needs is established by earlier steps of the command that *)
(* writes it, and must survive all the commands after it: the invariant    *)
(* says, for each command, what holds from which of its steps on.          *)
(***************************************************************************)

\* The old unit starts the old binary, which is still in its place.
PlainHasBinary == disk.unit = "plain" => disk.cli = "file"

\* A link to a binary is a link to a whole one, except under the old unit,
\* where migrate may be writing it.
CurrentIsWhole == disk.unit # "plain" /\ disk.current # "none" => Executable(disk.current)

\* Also while the new unit is being written, and after an interruption there.
CosmovisorIsReady ==
    \/ disk.unit \in {"cosmovisor", "torn"}
    \/ disk.unit = "none" /\ disk.unitBackup # "none"
    => disk.cosmovisor /\ disk.current # "none"

\* The old unit is replaced only after it has been saved.
OldUnitKept == disk.unit # "plain" /\ HasOldBinary => disk.unitBackup = "plain"

\* The rollback commands are printed when the unit is the new one; a later
\* service can only write the same unit again.
PrintedAfterBackup ==
    printed => /\ disk.unit \in {"cosmovisor", "torn"}
               /\ disk.unitBackup = "plain" /\ disk.cliBackup

AtMostOneProc == \A p, q \in procs : p = q

\* What the steps of each command have established.
InstallProgress ==
    cmd = "install" =>
        /\ at > 1 => disk.unit # "plain"
        /\ at > 4 => Executable("genesis")

ServiceProgress ==
    cmd = "service" /\ at > 1 =>
        disk.unit # "plain" /\ disk.cosmovisor /\ disk.current # "none"

MigrateProgress ==
    cmd = "migrate" =>
        /\ at \in 2 .. 9 \/ (at = 10 /\ ~ copying) => disk.unit = "plain"
        /\ at = 10 /\ copying => disk.unit \in {"none", "torn"}
        /\ at > 10 => disk.unit = "cosmovisor"
        /\ at > 2 => disk.cosmovisor
        /\ at > 4 => disk.current # "none" /\ Executable(disk.current)
        /\ at > 9 => disk.unitBackup = "plain"
        /\ at \in 2 .. 11 => disk.cli = "file"
        /\ at > 11 => disk.cliBackup
        /\ at = 15 => procs = {}

IInv ==
    /\ TypeOK
    /\ PlainHasBinary /\ CurrentIsWhole /\ CosmovisorIsReady
    /\ OldUnitKept /\ PrintedAfterBackup
    /\ AtMostOneProc
    /\ InstallProgress /\ ServiceProgress /\ MigrateProgress

-----------------------------------------------------------------------------
(***************************************************************************)
(* The places of the steps in the commands.                                *)
(***************************************************************************)
LEMMA InstallSteps ==
  ASSUME TypeOK, cmd = "install"
  PROVE  /\ at \in 1 .. 8 /\ Len(Program[cmd]) = 8
         /\ \/ (at = 1 /\ Op = "checkInstall") \/ (at = 2 /\ Op = "cosmovisor")
            \/ (at = 3 /\ Op = "lib") \/ (at = 4 /\ Op = "genesis")
            \/ (at = 5 /\ Op = "upgrades") \/ (at = 6 /\ Op = "currentIfNone")
            \/ (at = 7 /\ Op = "mvCli") \/ (at = 8 /\ Op = "lnCli")
<1>1. Program["install"] = <<"checkInstall", "cosmovisor", "lib", "genesis", "upgrades",
                             "currentIfNone", "mvCli", "lnCli">>
  BY DEF Program
<1>2. at \in 1 .. 8 /\ Len(Program[cmd]) = 8 /\ Op = Program[cmd][at]
  BY <1>1 DEF TypeOK, Op
<1>3. QED
  BY <1>1, <1>2

LEMMA MigrateSteps ==
  ASSUME TypeOK, cmd = "migrate"
  PROVE  /\ at \in 1 .. 16 /\ Len(Program[cmd]) = 16
         /\ \/ (at = 1 /\ Op = "checkMigrate") \/ (at = 2 /\ Op = "cosmovisor")
            \/ (at = 3 /\ Op = "copyBinary") \/ (at = 4 /\ Op = "setCurrent")
            \/ (at = 5 /\ Op = "upgrades") \/ (at = 6 /\ Op = "confirm")
            \/ (at = 7 /\ Op = "stop") \/ (at = 8 /\ Op = "wait")
            \/ (at = 9 /\ Op = "backupUnit") \/ (at = 10 /\ Op = "writeUnit")
            \/ (at = 11 /\ Op = "mvCli") \/ (at = 12 /\ Op = "lnCli")
            \/ (at = 13 /\ Op = "reload") \/ (at = 14 /\ Op = "checkStopped")
            \/ (at = 15 /\ Op = "start") \/ (at = 16 /\ Op = "verify")
<1>1. Program["migrate"] = <<"checkMigrate", "cosmovisor", "copyBinary", "setCurrent",
                             "upgrades", "confirm", "stop", "wait", "backupUnit",
                             "writeUnit", "mvCli", "lnCli", "reload", "checkStopped",
                             "start", "verify">>
  BY DEF Program
<1>2. at \in 1 .. 16 /\ Len(Program[cmd]) = 16 /\ Op = Program[cmd][at]
  BY <1>1 DEF TypeOK, Op
<1>3. QED
  BY <1>1, <1>2

LEMMA ServiceSteps ==
  ASSUME TypeOK, cmd = "service"
  PROVE  /\ at \in 1 .. 3 /\ Len(Program[cmd]) = 3
         /\ \/ (at = 1 /\ Op = "checkService") \/ (at = 2 /\ Op = "writeUnit")
            \/ (at = 3 /\ Op = "reload")
<1>1. Program["service"] = <<"checkService", "writeUnit", "reload">>
  BY DEF Program
<1>2. at \in 1 .. 3 /\ Len(Program[cmd]) = 3 /\ Op = Program[cmd][at]
  BY <1>1 DEF TypeOK, Op
<1>3. QED
  BY <1>1, <1>2

LEMMA OtherSteps ==
  ASSUME TypeOK, cmd \notin {"install", "migrate", "service"}
  PROVE  /\ Op \in {"none", "checkInit", "askNetwork", "setCurrent", "init", "rmGenesis",
                     "fetchGenesis", "configure", "checkPrepare", "v2"}
<1>1. CASE cmd = "none"
  BY <1>1 DEF Op
<1>2. CASE cmd = "init"
  <2>1. Program["init"] = <<"checkInit", "askNetwork", "setCurrent", "init", "rmGenesis",
                            "fetchGenesis", "configure">>
    BY DEF Program
  <2>2. at \in 1 .. 7 /\ Op = Program["init"][at]
    BY <1>2, <2>1 DEF TypeOK, Op
  <2>3. QED
    BY <2>1, <2>2
<1>3. CASE cmd = "initGenesisSync"
  <2>1. Program["initGenesisSync"] = <<"checkInit", "setCurrent", "init", "rmGenesis",
                                       "fetchGenesis", "configure">>
    BY DEF Program
  <2>2. at \in 1 .. 6 /\ Op = Program["initGenesisSync"][at]
    BY <1>3, <2>1 DEF TypeOK, Op
  <2>3. QED
    BY <2>1, <2>2
<1>4. CASE cmd = "prepareUpgrade"
  <2>1. Program["prepareUpgrade"] = <<"checkPrepare", "v2">>
    BY DEF Program
  <2>2. at \in 1 .. 2 /\ Op = Program["prepareUpgrade"][at]
    BY <1>4, <2>1 DEF TypeOK, Op
  <2>3. QED
    BY <2>1, <2>2
<1>5. QED
  BY <1>1, <1>2, <1>3, <1>4 DEF TypeOK, Commands, Program

(***************************************************************************)
(* A command goes on to its next step or ends.                             *)
(***************************************************************************)
LEMMA AdvanceMoves ==
  ASSUME TypeOK, cmd # "none", Advance
  PROVE  /\ (cmd' = "none" /\ at' = 1) \/ (cmd' = cmd /\ at' = at + 1)
         /\ cmd' \in Commands \cup {"none"}
         /\ at' \in IF cmd' = "none" THEN {1} ELSE 1 .. Len(Program[cmd'])
<1>1. cmd \in Commands /\ at \in 1 .. Len(Program[cmd]) /\ Len(Program[cmd]) \in Nat
  <2>1. cmd \in Commands /\ at \in 1 .. Len(Program[cmd])
    BY DEF TypeOK
  <2>2. QED
    BY <2>1 DEF Commands, Program
<1>2. "none" \notin Commands
  BY DEF Commands, Program
<1>3. QED
  BY <1>1, <1>2 DEF Advance

-----------------------------------------------------------------------------
(***************************************************************************)
(* Every step preserves the types.                                         *)
(***************************************************************************)
LEMMA TypeStep == TypeOK /\ PrintedAfterBackup /\ [Next]_vars => TypeOK'
<1> SUFFICES ASSUME TypeOK, PrintedAfterBackup, [Next]_vars PROVE TypeOK'
  OBVIOUS
<1>0. Op # "none" => cmd # "none"
  BY DEF Op
<1>1. CASE \E c \in Commands : Run(c)
  <2>1. PICK c \in Commands : Run(c)
    BY <1>1
  <2>2. 1 \in 1 .. Len(Program[c]) /\ c # "none"
    <3>1. c \in {"install", "init", "initGenesisSync", "service", "migrate", "prepareUpgrade"}
      BY DEF Commands, Program
    <3>2. /\ Len(Program["install"]) = 8 /\ Len(Program["init"]) = 7
          /\ Len(Program["initGenesisSync"]) = 6 /\ Len(Program["service"]) = 3
      BY DEF Program
    <3>3. Len(Program["migrate"]) = 16
      BY DEF Program
    <3>4. Len(Program["prepareUpgrade"]) = 2
      BY DEF Program
    <3>5. Len(Program[c]) \in {2, 3, 6, 7, 8, 16}
      BY <3>1, <3>2, <3>3, <3>4
    <3>6. c # "none"
      BY <3>1
    <3>7. \A n \in {2, 3, 6, 7, 8, 16} : 1 \in 1 .. n
      OBVIOUS
    <3>8. 1 \in 1 .. Len(Program[c])
      BY <3>5, <3>7
    <3>9. QED
      BY <3>6, <3>8
  <2>3. QED
    BY <2>1, <2>2 DEF TypeOK, Run, Versions
<1>2. ASSUME NEW new \in Disk, Op # "none", WriteDisk(new) PROVE TypeOK'
  BY <1>0, <1>2, AdvanceMoves DEF TypeOK, WriteDisk
<1>3. CASE Exit /\ UNCHANGED <<disk, loaded, procs, run, net, printed>>
  BY <1>3 DEF Exit, TypeOK
<1>4. CASE Check \/ AlreadyFetched \/ SkipUpgrade \/ Confirm \/ NodeStopped
  BY <1>2, <1>4 DEF Check, AlreadyFetched, SkipUpgrade, Confirm, NodeStopped, TypeOK, Checks,
                    Fetches
<1>5. CASE InstallCosmovisor \/ CurrentIfNone \/ SetCurrent \/ MoveCli \/ LinkCli
  <2>1. /\ [disk EXCEPT !.cosmovisor = TRUE] \in Disk
        /\ [disk EXCEPT !.current = "genesis"] \in Disk
        /\ [disk EXCEPT !.current = run] \in Disk
        /\ [disk EXCEPT !.cli = "absent", !.cliBackup = TRUE] \in Disk
        /\ [disk EXCEPT !.cli = "link"] \in Disk
    BY DEF TypeOK, Disk, Versions
  <2>2. disk \in Disk
    BY DEF TypeOK
  <2>3. QED
    BY <1>2, <1>5, <2>1, <2>2
       DEF InstallCosmovisor, CurrentIfNone, SetCurrent, MoveCli, LinkCli
<1>6. CASE InitNode
  <2>1. \A c \in Configs : [disk EXCEPT !.config = c] \in Disk
    BY DEF TypeOK, Disk
  <2>2. QED
    BY <1>2, <1>6, <2>1 DEF InitNode, Configs
<1>18. ASSUME NEW new \in Disk, Op # "none", BeginWrite(new) \/ EndWrite(new) PROVE TypeOK'
  <2>1. CASE BeginWrite(new)
    BY <1>18, <2>1 DEF BeginWrite, TypeOK
  <2>2. CASE EndWrite(new)
    BY <1>0, <1>18, <2>2, AdvanceMoves DEF EndWrite, TypeOK
  <2>3. QED
    BY <1>18, <2>1, <2>2
<1>19. CASE WriteUnit \/ BackupUnit
  <2>1. \A u \in Units : /\ [disk EXCEPT !.unit = u] \in Disk
                          /\ [disk EXCEPT !.unitBackup = u] \in Disk
    BY DEF TypeOK, Disk
  <2>2. /\ disk.unit \in Units
        /\ (IF cmd = "migrate" THEN "none" ELSE "torn") \in Units
        /\ "torn" \in Units /\ "cosmovisor" \in Units
    BY DEF TypeOK, Disk, Units
  <2>3. Op # "none"
    BY <1>19 DEF WriteUnit, BackupUnit
  <2>4. CASE WriteUnit
    BY <1>18, <2>1, <2>2, <2>3, <2>4 DEF WriteUnit
  <2>5. CASE BackupUnit
    BY <1>18, <2>1, <2>2, <2>3, <2>5 DEF BackupUnit
  <2>6. QED
    BY <1>19, <2>4, <2>5
<1>7. CASE Fetch \/ CopyBinary
  <2>1. \A f \in Files : /\ [disk EXCEPT !.files[f] = "partial"] \in Disk
                          /\ [disk EXCEPT !.files[f] = "ok"] \in Disk
    BY DEF TypeOK, Disk
  <2>2. ASSUME NEW f \in Files, Op # "none", BeginCopy(f) PROVE TypeOK'
    BY <1>18, <2>1, <2>2 DEF BeginCopy
  <2>3. ASSUME NEW f \in Files, Op # "none", EndCopy(f) PROVE TypeOK'
    BY <1>18, <2>1, <2>3 DEF EndCopy
  <2>4. CASE CopyBinary
    BY <2>2, <2>3, <2>4 DEF CopyBinary, Files
  <2>5. CASE Fetch
    <3>1. Op # "none" /\ Fetches[Op] \in Files
      BY <2>5 DEF Fetch, Fetches, Files
    <3>2. QED
      BY <2>2, <2>3, <2>5, <3>1 DEF Fetch
  <2>6. QED
    BY <1>7, <2>4, <2>5
<1>8. CASE AskNetwork \/ Reload \/ Stop \/ Verify
  <2>1. Op # "none" /\ Advance
    BY <1>8 DEF AskNetwork, Reload, Stop, Verify
  <2>2. QED
    BY <1>0, <1>8, <2>1, AdvanceMoves DEF AskNetwork, Reload, Stop, Verify, TypeOK, Disk
<1>9. Started(loaded) \subseteq {"plain", "cosmovisor"} /\ Started(disk.unit) \subseteq {"plain", "cosmovisor"}
  BY DEF Started, Startable, TypeOK, Disk, Units
<1>10. CASE Start
  BY <1>0, <1>9, <1>10, AdvanceMoves DEF Start, TypeOK
<1>11. CASE CheckFails \/ NetworkFails \/ FetchRefuses \/ SetCurrentFails \/ Abort
            \/ NodeStillRuns \/ Interrupt
  BY <1>3, <1>11 DEF CheckFails, NetworkFails, FetchRefuses, SetCurrentFails, Abort,
                     NodeStillRuns, Interrupt
<1>12. CASE Reboot
  BY <1>9, <1>12 DEF Reboot, Exit, TypeOK, Disk
<1>13. CASE SystemctlStart \/ SystemctlStop \/ ManualStart \/ ManualStop \/ ChainUpgrades
  BY <1>9, <1>13 DEF SystemctlStart, SystemctlStop, ManualStart, ManualStop, ChainUpgrades,
                     TypeOK, script, Versions
<1>14. CASE CosmovisorSwitches
  <2>1. [disk EXCEPT !.current = "v2"] \in Disk
    BY DEF TypeOK, Disk, Versions
  <2>2. QED
    BY <1>14, <2>1 DEF CosmovisorSwitches, TypeOK, script
<1>15. CASE Rollback
  <2>1. disk.unitBackup = "plain"
    BY <1>15 DEF Rollback, PrintedAfterBackup
  <2>2. disk' \in Disk
    BY <1>15, <2>1 DEF Rollback, TypeOK, Disk, Units
  <2>3. QED
    BY <1>15, <2>1, <2>2 DEF Rollback, TypeOK, Units
<1>16. CASE UNCHANGED vars
  BY <1>16 DEF TypeOK, vars
<1>17. QED
  BY <1>1, <1>4, <1>5, <1>6, <1>7, <1>8, <1>10, <1>11, <1>12, <1>13, <1>14, <1>15, <1>16, <1>19
     DEF Next, ScriptStep, World

-----------------------------------------------------------------------------
(***************************************************************************)
(* A command that begins or ends has established nothing yet.              *)
(***************************************************************************)
LEMMA NoProgress ==
  ASSUME cmd' = "none" \/ at' = 1
  PROVE  InstallProgress' /\ ServiceProgress' /\ MigrateProgress'
<1>1. /\ ~(1 > 1) /\ ~(1 > 2) /\ ~(1 > 4) /\ ~(1 > 9) /\ ~(1 > 10) /\ ~(1 > 11)
      /\ 1 \notin 2 .. 9 /\ 1 \notin 2 .. 11 /\ 1 # 10 /\ 1 # 15
  OBVIOUS
<1>2. QED
  BY <1>1 DEF InstallProgress, ServiceProgress, MigrateProgress

(***************************************************************************)
(* Commands that begin or end, and the world around the script.            *)
(***************************************************************************)
LEMMA WorldStep ==
  ASSUME IInv, (\E c \in Commands : Run(c)) \/ World
  PROVE  /\ PlainHasBinary' /\ CurrentIsWhole' /\ CosmovisorIsReady'
         /\ OldUnitKept' /\ PrintedAfterBackup' /\ AtMostOneProc'
         /\ InstallProgress' /\ ServiceProgress' /\ MigrateProgress'
<1>1. CASE (\E c \in Commands : Run(c)) \/ Interrupt
  <2>1. UNCHANGED <<disk, procs, printed>> /\ (cmd' = "none" \/ at' = 1)
    BY <1>1 DEF Run, Interrupt, Exit
  <2>2. QED
    BY <2>1, NoProgress DEF IInv, PlainHasBinary, CurrentIsWhole, CosmovisorIsReady,
       OldUnitKept, HasOldBinary, PrintedAfterBackup, AtMostOneProc, Executable
<1>2. CASE Reboot
  <2>1. UNCHANGED <<disk, printed>> /\ procs' = Started(disk.unit) /\ cmd' = "none"
    BY <1>2 DEF Reboot, Exit
  <2>2. AtMostOneProc'
    BY <2>1 DEF Started, AtMostOneProc
  <2>3. QED
    BY <2>1, <2>2, NoProgress DEF IInv, PlainHasBinary, CurrentIsWhole, CosmovisorIsReady,
       OldUnitKept, HasOldBinary, PrintedAfterBackup, Executable
<1>3. CASE SystemctlStart \/ SystemctlStop \/ ManualStart \/ ManualStop \/ ChainUpgrades
  <2>1. UNCHANGED <<disk, cmd, at, copying, printed>>
    BY <1>3 DEF SystemctlStart, SystemctlStop, ManualStart, ManualStop, ChainUpgrades, script
  <2>2. AtMostOneProc'
    BY <1>3 DEF SystemctlStart, SystemctlStop, ManualStart, ManualStop, ChainUpgrades,
                IInv, AtMostOneProc, Started
  <2>3. cmd = "migrate" /\ at = 15 /\ procs = {} => procs' = {}
    <3> SUFFICES ASSUME cmd = "migrate", at = 15, procs = {} PROVE procs' = {}
      OBVIOUS
    <3>1. Op = "start"
      BY MigrateSteps DEF IInv
    <3>2. QED
      BY <1>3, <3>1 DEF SystemctlStart, SystemctlStop, ManualStart, ManualStop, ChainUpgrades
  <2>4. MigrateProgress'
    BY <2>1, <2>3 DEF IInv, MigrateProgress, Executable
  <2>5. QED
    BY <2>1, <2>2, <2>4 DEF IInv, PlainHasBinary, CurrentIsWhole, CosmovisorIsReady,
       OldUnitKept, HasOldBinary, PrintedAfterBackup, InstallProgress, ServiceProgress,
       Executable
<1>4. CASE CosmovisorSwitches
  <2>1. /\ disk'.current = "v2" /\ disk'.files = disk.files /\ disk.files["v2"] = "ok"
        /\ disk'.cli = disk.cli /\ disk'.cliBackup = disk.cliBackup
        /\ disk'.unit = disk.unit /\ disk'.unitBackup = disk.unitBackup
        /\ disk'.cosmovisor = disk.cosmovisor
        /\ UNCHANGED <<procs, cmd, at, copying, printed>>
    BY <1>4 DEF CosmovisorSwitches, Executable, script, IInv, TypeOK, Disk
  <2>2. MigrateProgress'
    BY <2>1 DEF IInv, MigrateProgress, Executable
  <2>3. QED
    BY <2>1, <2>2 DEF IInv, PlainHasBinary, CurrentIsWhole, CosmovisorIsReady,
       OldUnitKept, HasOldBinary, PrintedAfterBackup, AtMostOneProc, InstallProgress,
       ServiceProgress, Executable
<1>5. CASE Rollback
  <2>1. disk.unitBackup = "plain" /\ disk.cliBackup
    BY <1>5 DEF Rollback, IInv, PrintedAfterBackup
  <2>2. disk'.unit = "plain" /\ disk'.cli = "file"
    BY <1>5, <2>1 DEF Rollback, IInv, TypeOK, Disk
  <2>3. procs' = {"plain"} /\ printed' = FALSE /\ cmd' = "none"
    BY <1>5, <2>1 DEF Rollback
  <2>4. QED
    BY <2>2, <2>3, NoProgress DEF PlainHasBinary, CurrentIsWhole, CosmovisorIsReady,
       OldUnitKept, PrintedAfterBackup, AtMostOneProc
<1>6. QED
  BY <1>1, <1>2, <1>3, <1>4, <1>5 DEF World

(***************************************************************************)
(* The steps that look, ask or give up: the disk stays as it is.           *)
(***************************************************************************)
LEMMA LookStep ==
  ASSUME IInv, \/ Check \/ CheckFails \/ NetworkFails \/ AlreadyFetched \/ FetchRefuses
               \/ SkipUpgrade \/ SetCurrentFails \/ AskNetwork \/ Reload \/ Confirm \/ Abort
               \/ Stop \/ NodeStopped \/ NodeStillRuns \/ Start \/ Verify
  PROVE  /\ PlainHasBinary' /\ CurrentIsWhole' /\ CosmovisorIsReady'
         /\ OldUnitKept' /\ PrintedAfterBackup' /\ AtMostOneProc'
         /\ InstallProgress' /\ ServiceProgress' /\ MigrateProgress'
<1>1. disk' = disk
  BY DEF Check, CheckFails, NetworkFails, AlreadyFetched, FetchRefuses, SkipUpgrade,
         SetCurrentFails, AskNetwork, Reload, Confirm, Abort, Stop, NodeStopped,
         NodeStillRuns, Start, Verify, WriteDisk
<1>2. PlainHasBinary' /\ CurrentIsWhole' /\ CosmovisorIsReady' /\ OldUnitKept'
  BY <1>1 DEF IInv, PlainHasBinary, CurrentIsWhole, CosmovisorIsReady, OldUnitKept,
     HasOldBinary, Executable
<1>3. CASE CheckFails \/ NetworkFails \/ FetchRefuses \/ SetCurrentFails \/ Abort
           \/ NodeStillRuns
  <2>1. UNCHANGED <<procs, printed>> /\ cmd' = "none"
    BY <1>3 DEF CheckFails, NetworkFails, FetchRefuses, SetCurrentFails, Abort,
                NodeStillRuns, Exit
  <2>2. QED
    BY <1>1, <1>2, <2>1, NoProgress DEF IInv, PrintedAfterBackup, AtMostOneProc
<1>4. CASE \/ Check \/ AlreadyFetched \/ SkipUpgrade \/ AskNetwork \/ Reload \/ Confirm
           \/ Stop \/ NodeStopped \/ Start \/ Verify
  <2>1. Op # "none" /\ Advance
    BY <1>4 DEF Check, AlreadyFetched, SkipUpgrade, AskNetwork, Reload, Confirm,
                Stop, NodeStopped, Start, Verify, WriteDisk, Checks, Fetches
  <2>2. cmd # "none"
    BY <2>1 DEF Op
  <2>3. (cmd' = "none" /\ at' = 1) \/ (cmd' = cmd /\ at' = at + 1)
    BY <2>1, <2>2, AdvanceMoves DEF IInv
  <2>4. AtMostOneProc'
    <3>1. CASE Start
      <4>1. cmd = "migrate"
        BY <3>1, InstallSteps, ServiceSteps, OtherSteps DEF Start, IInv
      <4>2. at = 15
        BY <3>1, <4>1, MigrateSteps DEF Start, IInv
      <4>3. procs = {}
        BY <4>1, <4>2 DEF IInv, MigrateProgress
      <4>4. QED
        BY <3>1, <4>3 DEF Start, Started, AtMostOneProc
    <3>2. CASE ~ Start
      <4>1. procs' \subseteq procs
        BY <1>4, <3>2 DEF Check, AlreadyFetched, SkipUpgrade, AskNetwork, Reload, Confirm,
                Stop, NodeStopped, Verify, WriteDisk
      <4>2. QED
        BY <4>1 DEF IInv, AtMostOneProc
    <3>3. QED
      BY <3>1, <3>2
  <2>5. PrintedAfterBackup'
    <3>1. CASE Verify
      <4>1. cmd = "migrate"
        BY <3>1, InstallSteps, ServiceSteps, OtherSteps DEF Verify, IInv
      <4>2. at = 16
        BY <3>1, <4>1, MigrateSteps DEF Verify, IInv
      <4>3. 16 > 9 /\ 16 > 10 /\ 16 > 11
        OBVIOUS
      <4>4. disk.unit = "cosmovisor" /\ disk.unitBackup = "plain" /\ disk.cliBackup
        BY <4>1, <4>2, <4>3 DEF IInv, MigrateProgress
      <4>5. QED
        BY <1>1, <4>4 DEF PrintedAfterBackup
    <3>2. CASE ~ Verify
      <4>1. printed' = printed
        BY <1>4, <3>2 DEF Check, AlreadyFetched, SkipUpgrade, AskNetwork, Reload, Confirm,
                Stop, NodeStopped, Start, WriteDisk
      <4>2. QED
        BY <1>1, <4>1 DEF IInv, PrintedAfterBackup
    <3>3. QED
      BY <3>1, <3>2
  <2>6. InstallProgress' /\ ServiceProgress' /\ MigrateProgress'
    <3>1. CASE cmd' = "none"
      BY <3>1, NoProgress
    <3>2. CASE cmd' = cmd /\ at' = at + 1 /\ cmd = "install"
      <4>1. ServiceProgress' /\ MigrateProgress'
        BY <3>2 DEF ServiceProgress, MigrateProgress
      <4>2. \/ (at = 1 /\ disk.unit # "plain") \/ at \in {2, 3}
            \/ (at = 4 /\ Executable("genesis")) \/ at \in 5 .. 8
        <5>1. at = 1 => disk.unit # "plain"
          BY <1>4, <3>2, InstallSteps
             DEF IInv, Check, AlreadyFetched, SkipUpgrade, AskNetwork, Reload, Confirm, Stop,
                 NodeStopped, Start, Verify, ChecksOut, CanInstall, OldStyle, Fetches
        <5>2. at = 4 => Executable("genesis")
          BY <1>4, <3>2, InstallSteps
             DEF IInv, Check, AlreadyFetched, SkipUpgrade, AskNetwork, Reload, Confirm, Stop,
                 NodeStopped, Start, Verify, Checks, Fetches
        <5>3. at \in 1 .. 8
          BY <3>2, InstallSteps DEF IInv
        <5>4. QED
          BY <5>1, <5>2, <5>3
      <4>3. at' > 1 => disk.unit # "plain"
        BY <3>2, <4>2 DEF IInv, InstallProgress
      <4>4. at' > 4 => Executable("genesis")
        BY <3>2, <4>2 DEF IInv, InstallProgress
      <4>5. QED
        BY <1>1, <3>2, <4>1, <4>3, <4>4 DEF InstallProgress, Executable
    <3>3. CASE cmd' = cmd /\ at' = at + 1 /\ cmd = "service"
      <4>1. InstallProgress' /\ MigrateProgress'
        BY <3>3 DEF InstallProgress, MigrateProgress
      <4>2. (at = 1 /\ CanService) \/ at \in {2, 3}
        BY <1>4, <3>3, ServiceSteps
           DEF IInv, Check, AlreadyFetched, SkipUpgrade, AskNetwork, Reload, Confirm, Stop,
               NodeStopped, Start, Verify, ChecksOut, Fetches
      <4>3. disk.unit # "plain" /\ disk.cosmovisor /\ disk.current # "none"
        BY <3>3, <4>2 DEF IInv, ServiceProgress, CanService, OldStyle
      <4>4. QED
        BY <1>1, <4>1, <4>3 DEF ServiceProgress
    <3>4. CASE cmd' = cmd /\ at' = at + 1 /\ cmd = "migrate"
      <4>1. InstallProgress' /\ ServiceProgress'
        BY <3>4 DEF InstallProgress, ServiceProgress
      <4>2. \/ (at = 1 /\ disk.unit = "plain")
            \/ at \in {5, 6, 7, 8, 13, 15, 16}
            \/ (at = 14 /\ procs' = {})
        BY <1>4, <3>4, MigrateSteps
           DEF IInv, Check, AlreadyFetched, SkipUpgrade, AskNetwork, Reload, Confirm, Stop,
               NodeStopped, Start, Verify, ChecksOut, Fetches, CanMigrate, WriteDisk, Checks
      <4>3. CASE at = 1 /\ disk.unit = "plain"
        <5>1. at' = 2 /\ disk.cli = "file"
          BY <3>4, <4>3 DEF IInv, PlainHasBinary
        <5>2. QED
          BY <1>1, <3>4, <4>1, <4>3, <5>1 DEF MigrateProgress
      <4>4. CASE at \in {5, 6, 7, 8}
        <5>1. /\ disk.unit = "plain" /\ disk.cosmovisor /\ disk.current # "none"
              /\ Executable(disk.current) /\ disk.cli = "file"
          BY <3>4, <4>4 DEF IInv, MigrateProgress
        <5>2. at' \in {6, 7, 8, 9}
          BY <3>4, <4>4
        <5>3. QED
          BY <1>1, <3>4, <4>1, <5>1, <5>2 DEF MigrateProgress, Executable
      <4>5. CASE at \in {13, 15, 16} \/ (at = 14 /\ procs' = {})
        <5>1. /\ disk.unit = "cosmovisor" /\ disk.cosmovisor /\ disk.current # "none"
              /\ Executable(disk.current) /\ disk.unitBackup = "plain" /\ disk.cliBackup
          BY <3>4, <4>5 DEF IInv, MigrateProgress
        <5>2. at' \in {14, 16, 17} \/ (at' = 15 /\ procs' = {})
          BY <3>4, <4>5
        <5>3. QED
          BY <1>1, <3>4, <4>1, <5>1, <5>2 DEF MigrateProgress, Executable
      <4>6. QED
        BY <4>2, <4>3, <4>4, <4>5
    <3>5. CASE cmd' = cmd /\ cmd \notin {"install", "service", "migrate"}
      BY <3>5 DEF InstallProgress, ServiceProgress, MigrateProgress
    <3>6. QED
      BY <2>3, <3>1, <3>2, <3>3, <3>4, <3>5
  <2>7. QED
    BY <1>2, <2>4, <2>5, <2>6
<1>5. QED
  BY <1>3, <1>4

(***************************************************************************)
(* The steps that write to the disk.                                       *)
(***************************************************************************)
LEMMA FileStep ==
  ASSUME IInv, InstallCosmovisor \/ Fetch \/ CopyBinary \/ InitNode
  PROVE  /\ PlainHasBinary' /\ CurrentIsWhole' /\ CosmovisorIsReady'
         /\ OldUnitKept' /\ PrintedAfterBackup' /\ AtMostOneProc'
         /\ InstallProgress' /\ ServiceProgress' /\ MigrateProgress'
<1>1. /\ disk'.unit = disk.unit /\ disk'.unitBackup = disk.unitBackup
      /\ disk'.cli = disk.cli /\ disk'.cliBackup = disk.cliBackup
      /\ disk'.current = disk.current /\ (disk.cosmovisor => disk'.cosmovisor)
      /\ UNCHANGED <<procs, printed>>
  BY DEF InstallCosmovisor, Fetch, CopyBinary, InitNode, WriteDisk, BeginCopy, EndCopy,
         BeginWrite, EndWrite, IInv, TypeOK, Disk
<1>2. /\ PlainHasBinary' /\ CosmovisorIsReady' /\ OldUnitKept' /\ PrintedAfterBackup'
      /\ AtMostOneProc'
  BY <1>1 DEF IInv, PlainHasBinary, CosmovisorIsReady, OldUnitKept, HasOldBinary,
     PrintedAfterBackup, AtMostOneProc
<1>3. Op # "none" /\ cmd # "none"
  BY DEF InstallCosmovisor, Fetch, CopyBinary, InitNode, Fetches, Op
<1>4. disk.files \in [Files -> {"absent", "partial", "ok"}] /\ disk.current \in {"none"} \cup Versions
  BY DEF IInv, TypeOK, Disk
<1>5. CASE InstallCosmovisor
  <2>1. disk'.files = disk.files /\ disk'.cosmovisor = TRUE /\ Advance /\ Op = "cosmovisor"
    BY <1>5 DEF InstallCosmovisor, WriteDisk, IInv, TypeOK, Disk
  <2>2. CurrentIsWhole'
    BY <1>1, <2>1 DEF IInv, CurrentIsWhole, Executable
  <2>3. (cmd' = "none" /\ at' = 1) \/ (cmd' = cmd /\ at' = at + 1)
    BY <1>3, <2>1, AdvanceMoves DEF IInv
  <2>4. (cmd = "install" \/ cmd = "migrate") /\ at = 2
    BY <2>1, InstallSteps, MigrateSteps, ServiceSteps, OtherSteps DEF IInv
  <2>5. CASE cmd' = "none"
    BY <1>2, <2>2, <2>5, NoProgress
  <2>6. CASE cmd' = cmd /\ at' = 3 /\ cmd = "install"
    BY <1>1, <1>2, <2>2, <2>4, <2>6
       DEF IInv, InstallProgress, ServiceProgress, MigrateProgress
  <2>7. CASE cmd' = cmd /\ at' = 3 /\ cmd = "migrate"
    BY <1>1, <1>2, <2>1, <2>2, <2>4, <2>7
       DEF IInv, InstallProgress, ServiceProgress, MigrateProgress
  <2>8. QED
    BY <2>3, <2>4, <2>5, <2>6, <2>7
<1>6. CASE InitNode
  <2>1. disk'.files = disk.files /\ Advance
    BY <1>6 DEF InitNode, WriteDisk, IInv, TypeOK, Disk
  <2>2. CurrentIsWhole'
    BY <1>1, <2>1 DEF IInv, CurrentIsWhole, Executable
  <2>3. cmd' = "none" \/ cmd' = cmd
    BY <1>3, <2>1, AdvanceMoves DEF IInv
  <2>4. cmd \notin {"install", "service", "migrate"}
    BY <1>6, InstallSteps, MigrateSteps, ServiceSteps DEF IInv, InitNode
  <2>5. QED
    BY <1>2, <2>2, <2>3, <2>4 DEF InstallProgress, ServiceProgress, MigrateProgress
<1>7. CASE CopyBinary
  <2>1. cmd = "migrate"
    BY <1>7, InstallSteps, ServiceSteps, OtherSteps DEF CopyBinary, IInv
  <2>2. at = 3
    BY <1>7, <2>1, MigrateSteps DEF CopyBinary, IInv
  <2>3. disk.unit = "plain" /\ disk.cosmovisor /\ disk.cli = "file"
    BY <2>1, <2>2 DEF IInv, MigrateProgress
  <2>4. CurrentIsWhole'
    BY <1>1, <2>3 DEF CurrentIsWhole
  <2>5. (cmd' = cmd /\ at' \in {3, 4}) \/ cmd' = "none"
    <3>1. CASE Advance
      BY <1>3, <2>2, <3>1, AdvanceMoves DEF IInv
    <3>2. CASE UNCHANGED <<cmd, at>>
      BY <2>2, <3>2
    <3>3. QED
      BY <1>7, <3>1, <3>2 DEF CopyBinary, BeginCopy, EndCopy, BeginWrite, EndWrite
  <2>6. CASE cmd' = "none"
    BY <1>2, <2>4, <2>6, NoProgress
  <2>7. CASE cmd' = cmd /\ at' \in {3, 4}
    <3>1. InstallProgress' /\ ServiceProgress'
      BY <2>1, <2>7 DEF InstallProgress, ServiceProgress
    <3>2. MigrateProgress'
      BY <1>1, <2>3, <2>7 DEF MigrateProgress
    <3>3. QED
      BY <1>2, <2>4, <3>1, <3>2
  <2>8. QED
    BY <2>5, <2>6, <2>7
<1>8. CASE Fetch
  <2>1. Op \in {"lib", "genesis", "v2", "upgrades"} /\ Fetches[Op] \in Files
    BY <1>8 DEF Fetch, Fetches, Files
  <2>2. /\ \A f \in Files : disk.files[f] = "ok" => disk'.files[f] = "ok"
        /\ \/ UNCHANGED <<cmd, at>>
           \/ (Advance /\ disk'.files[Fetches[Op]] = "ok")
    <3>1. CASE disk.files[Fetches[Op]] = "absent" /\ BeginCopy(Fetches[Op])
      <4>1. disk'.files = [disk.files EXCEPT ![Fetches[Op]] = "partial"]
        BY <3>1 DEF BeginCopy, BeginWrite, IInv, TypeOK, Disk
      <4>2. QED
        BY <1>4, <2>1, <3>1, <4>1 DEF BeginCopy, BeginWrite
    <3>2. CASE EndCopy(Fetches[Op])
      <4>1. disk'.files = [disk.files EXCEPT ![Fetches[Op]] = "ok"]
        BY <3>2 DEF EndCopy, EndWrite, IInv, TypeOK, Disk
      <4>2. QED
        BY <1>4, <2>1, <3>2, <4>1 DEF EndCopy, EndWrite
    <3>3. QED
      BY <1>8, <3>1, <3>2 DEF Fetch
  <2>3. /\ disk.current # "none" /\ Executable(disk.current) => Executable(disk.current)'
        /\ Executable("genesis") => Executable("genesis")'
    BY <1>1, <1>4, <2>2 DEF Executable, Files, Versions
  <2>4. CurrentIsWhole'
    BY <1>1, <2>3 DEF IInv, CurrentIsWhole, Executable
  <2>5. CASE UNCHANGED <<cmd, at>>
    <3>1. InstallProgress' /\ ServiceProgress'
      BY <1>1, <2>3, <2>5 DEF IInv, InstallProgress, ServiceProgress
    <3>2. cmd = "migrate" => at = 5
      BY <2>1, MigrateSteps DEF IInv
    <3>3. MigrateProgress'
      BY <1>1, <2>3, <2>5, <3>2 DEF IInv, MigrateProgress, Executable
    <3>4. QED
      BY <1>2, <2>4, <3>1, <3>3
  <2>6. CASE Advance /\ disk'.files[Fetches[Op]] = "ok"
    <3>1. (cmd' = "none" /\ at' = 1) \/ (cmd' = cmd /\ at' = at + 1)
      BY <1>3, <2>6, AdvanceMoves DEF IInv
    <3>2. CASE cmd' = "none"
      BY <1>2, <2>4, <3>2, NoProgress
    <3>3. CASE cmd' = cmd /\ at' = at + 1 /\ cmd = "install"
      <4>1. at \in {3, 4, 5}
        BY <2>1, <3>3, InstallSteps DEF IInv
      <4>2. at = 4 => Executable("genesis")'
        <5>1. at = 4 => Fetches[Op] = "genesis"
          BY <3>3, InstallSteps DEF IInv, Fetches
        <5>2. QED
          BY <2>6, <5>1 DEF Executable
      <4>3. disk.unit # "plain" /\ (at = 5 => Executable("genesis"))
        BY <3>3, <4>1 DEF IInv, InstallProgress
      <4>4. at' > 4 => at \in {4, 5}
        BY <3>3, <4>1
      <4>5. InstallProgress'
        BY <1>1, <2>3, <4>2, <4>3, <4>4 DEF InstallProgress
      <4>6. QED
        BY <1>2, <2>4, <3>3, <4>5 DEF ServiceProgress, MigrateProgress
    <3>4. CASE cmd' = cmd /\ at' = at + 1 /\ cmd = "migrate"
      <4>1. at = 5 /\ at' = 6
        BY <2>1, <3>4, MigrateSteps DEF IInv
      <4>2. /\ disk.unit = "plain" /\ disk.cosmovisor /\ disk.current # "none"
            /\ Executable(disk.current) /\ disk.cli = "file"
        BY <3>4, <4>1 DEF IInv, MigrateProgress
      <4>3. MigrateProgress'
        BY <1>1, <2>3, <4>1, <4>2 DEF MigrateProgress, Executable
      <4>4. QED
        BY <1>2, <2>4, <3>4, <4>3 DEF ServiceProgress, InstallProgress
    <3>5. CASE cmd' = cmd /\ cmd \notin {"install", "service", "migrate"}
      BY <1>2, <2>4, <3>5 DEF InstallProgress, ServiceProgress, MigrateProgress
    <3>6. cmd # "service"
      BY <2>1, ServiceSteps DEF IInv
    <3>7. QED
      BY <3>1, <3>2, <3>3, <3>4, <3>5, <3>6
  <2>7. QED
    BY <2>2, <2>5, <2>6
<1>9. QED
  BY <1>5, <1>6, <1>7, <1>8

(***************************************************************************)
(* The steps that change the links.                                        *)
(***************************************************************************)
LEMMA LinkStep ==
  ASSUME IInv, CurrentIfNone \/ SetCurrent \/ MoveCli \/ LinkCli
  PROVE  /\ PlainHasBinary' /\ CurrentIsWhole' /\ CosmovisorIsReady'
         /\ OldUnitKept' /\ PrintedAfterBackup' /\ AtMostOneProc'
         /\ InstallProgress' /\ ServiceProgress' /\ MigrateProgress'
<1>1. /\ disk'.files = disk.files /\ disk'.cosmovisor = disk.cosmovisor
      /\ (disk.cliBackup => disk'.cliBackup)
      /\ UNCHANGED <<procs, printed>> /\ Advance /\ Op # "none"
  BY DEF CurrentIfNone, SetCurrent, MoveCli, LinkCli, WriteDisk, IInv, TypeOK, Disk
<1>2. AtMostOneProc'
  BY <1>1 DEF IInv, AtMostOneProc
<1>3. (cmd' = "none" /\ at' = 1) \/ (cmd' = cmd /\ at' = at + 1)
  <2>1. cmd # "none"
    BY <1>1 DEF Op
  <2>2. QED
    BY <1>1, <2>1, AdvanceMoves DEF IInv
<1>4. \A v \in Versions : v # "none"
  BY DEF Versions
<1>5. CASE CurrentIfNone
  <2>1. cmd = "install"
    BY <1>5, MigrateSteps, ServiceSteps, OtherSteps DEF CurrentIfNone, IInv
  <2>2. at = 6
    BY <1>5, <2>1, InstallSteps DEF CurrentIfNone, IInv
  <2>3. disk.unit # "plain" /\ Executable("genesis")
    BY <2>1, <2>2 DEF IInv, InstallProgress
  <2>4. /\ disk'.unit = disk.unit /\ disk'.unitBackup = disk.unitBackup
        /\ disk'.cli = disk.cli /\ disk'.cliBackup = disk.cliBackup
        /\ disk'.current = IF disk.current = "none" THEN "genesis" ELSE disk.current
    BY <1>5 DEF CurrentIfNone, WriteDisk, IInv, TypeOK, Disk
  <2>5. /\ PlainHasBinary' /\ CurrentIsWhole' /\ CosmovisorIsReady' /\ OldUnitKept'
        /\ PrintedAfterBackup'
    BY <1>1, <2>3, <2>4 DEF IInv, PlainHasBinary, CurrentIsWhole, CosmovisorIsReady,
       OldUnitKept, HasOldBinary, PrintedAfterBackup, Executable
  <2>6. InstallProgress' /\ ServiceProgress' /\ MigrateProgress'
    BY <1>1, <1>3, <2>1, <2>3, <2>4
       DEF InstallProgress, ServiceProgress, MigrateProgress, Executable
  <2>7. QED
    BY <1>2, <2>5, <2>6
<1>6. CASE SetCurrent
  <2>1. /\ disk'.unit = disk.unit /\ disk'.unitBackup = disk.unitBackup
        /\ disk'.cli = disk.cli /\ disk'.cliBackup = disk.cliBackup
        /\ disk'.current = run /\ Executable(run) /\ run # "none"
    BY <1>4, <1>6 DEF SetCurrent, WriteDisk, IInv, TypeOK, Disk
  <2>2. /\ PlainHasBinary' /\ CurrentIsWhole' /\ CosmovisorIsReady' /\ OldUnitKept'
        /\ PrintedAfterBackup'
    BY <1>1, <2>1 DEF IInv, PlainHasBinary, CurrentIsWhole, CosmovisorIsReady,
       OldUnitKept, HasOldBinary, PrintedAfterBackup, Executable
  <2>3. cmd \notin {"install", "service"}
    BY <1>6, InstallSteps, ServiceSteps DEF SetCurrent, IInv
  <2>4. CASE cmd' = cmd /\ at' = at + 1 /\ cmd = "migrate"
    <3>1. at = 4 /\ at' = 5
      BY <1>6, <2>4, MigrateSteps DEF SetCurrent, IInv
    <3>2. disk.unit = "plain" /\ disk.cosmovisor /\ disk.cli = "file"
      BY <2>4, <3>1 DEF IInv, MigrateProgress
    <3>3. MigrateProgress'
      BY <1>1, <2>1, <3>1, <3>2 DEF MigrateProgress, Executable
    <3>4. QED
      BY <1>2, <2>2, <2>4, <3>3 DEF InstallProgress, ServiceProgress
  <2>5. CASE cmd' # "migrate"
    BY <1>2, <1>3, <2>2, <2>3, <2>5 DEF InstallProgress, ServiceProgress, MigrateProgress
  <2>6. QED
    BY <1>3, <2>4, <2>5
<1>7. CASE MoveCli \/ LinkCli
  <2>1. /\ disk'.unit = disk.unit /\ disk'.unitBackup = disk.unitBackup
        /\ disk'.current = disk.current
        /\ MoveCli /\ disk.cli = "file" => disk'.cliBackup
        /\ disk'.cli = "file" \/ disk'.cliBackup => HasOldBinary
    BY <1>7 DEF HasOldBinary, MoveCli, LinkCli, WriteDisk, IInv, TypeOK, Disk
  <2>2. cmd \in {"install", "migrate"}
    BY <1>7, ServiceSteps, OtherSteps DEF MoveCli, LinkCli, IInv
  <2>3. cmd = "install" => at \in {7, 8}
    BY <1>7, InstallSteps DEF MoveCli, LinkCli, IInv
  <2>4. cmd = "migrate" => (at = 11 /\ MoveCli) \/ at = 12
    BY <1>7, MigrateSteps DEF MoveCli, LinkCli, IInv
  <2>5. disk.unit # "plain"
    <3>1. CASE cmd = "install"
      BY <2>3, <3>1 DEF IInv, InstallProgress
    <3>2. CASE cmd = "migrate"
      BY <2>4, <3>2 DEF IInv, MigrateProgress
    <3>3. QED
      BY <2>2, <3>1, <3>2
  <2>6. /\ PlainHasBinary' /\ CurrentIsWhole' /\ CosmovisorIsReady' /\ OldUnitKept'
        /\ PrintedAfterBackup'
    BY <1>1, <2>1, <2>5 DEF IInv, PlainHasBinary, CurrentIsWhole, CosmovisorIsReady,
       OldUnitKept, HasOldBinary, PrintedAfterBackup, Executable
  <2>7. CASE cmd' = cmd /\ at' = at + 1 /\ cmd = "migrate"
    <3>1. /\ disk.unit = "cosmovisor" /\ disk.cosmovisor /\ disk.current # "none"
          /\ Executable(disk.current) /\ disk.unitBackup = "plain"
      BY <2>4, <2>7 DEF IInv, MigrateProgress
    <3>2. disk'.cliBackup
      <4>1. at = 11 => disk.cli = "file"
        BY <2>7 DEF IInv, MigrateProgress
      <4>2. at = 12 => disk.cliBackup
        BY <2>7 DEF IInv, MigrateProgress
      <4>3. QED
        BY <1>1, <2>1, <2>4, <2>7, <4>1, <4>2
    <3>3. at' \in {12, 13}
      BY <2>4, <2>7
    <3>4. MigrateProgress'
      BY <1>1, <2>1, <3>1, <3>2, <3>3 DEF MigrateProgress, Executable
    <3>5. QED
      BY <1>2, <2>6, <2>7, <3>4 DEF InstallProgress, ServiceProgress
  <2>8. CASE cmd' = cmd /\ cmd = "install"
    <3>1. Executable("genesis")
      BY <2>3, <2>8 DEF IInv, InstallProgress
    <3>2. InstallProgress'
      BY <1>1, <2>1, <2>5, <3>1 DEF InstallProgress, Executable
    <3>3. QED
      BY <1>2, <2>6, <2>8, <3>2 DEF ServiceProgress, MigrateProgress
  <2>9. CASE cmd' = "none"
    BY <1>2, <2>6, <2>9, NoProgress
  <2>10. QED
    BY <1>3, <2>2, <2>7, <2>8, <2>9
<1>8. QED
  BY <1>5, <1>6, <1>7

(***************************************************************************)
(* The steps that write the unit and its backup, interrupted or not.       *)
(***************************************************************************)
LEMMA UnitStep ==
  ASSUME IInv, WriteUnit \/ BackupUnit
  PROVE  /\ PlainHasBinary' /\ CurrentIsWhole' /\ CosmovisorIsReady'
         /\ OldUnitKept' /\ PrintedAfterBackup' /\ AtMostOneProc'
         /\ InstallProgress' /\ ServiceProgress' /\ MigrateProgress'
<1>1. /\ disk'.files = disk.files /\ disk'.cosmovisor = disk.cosmovisor
      /\ disk'.cli = disk.cli /\ disk'.cliBackup = disk.cliBackup
      /\ disk'.current = disk.current
      /\ UNCHANGED <<procs, printed>> /\ Op # "none"
  BY DEF WriteUnit, BackupUnit, BeginWrite, EndWrite, IInv, TypeOK, Disk
<1>2. AtMostOneProc'
  BY <1>1 DEF IInv, AtMostOneProc
<1>3. ASSUME Advance PROVE (cmd' = "none" /\ at' = 1) \/ (cmd' = cmd /\ at' = at + 1)
  <2>1. cmd # "none"
    BY <1>1 DEF Op
  <2>2. QED
    BY <1>3, <2>1, AdvanceMoves DEF IInv
<1>4. CASE WriteUnit
  <2>1. (cmd = "service" /\ at = 2) \/ (cmd = "migrate" /\ at = 10)
    BY <1>4, InstallSteps, MigrateSteps, ServiceSteps, OtherSteps DEF WriteUnit, IInv
  <2>2. disk'.unitBackup = disk.unitBackup
    BY <1>4 DEF WriteUnit, BeginWrite, EndWrite, IInv, TypeOK, Disk
  <2>3. \/ /\ disk'.unit \in {"none", "torn"} /\ copying' = TRUE
           /\ UNCHANGED <<cmd, at>>
           /\ cmd = "service" => disk'.unit = "torn" \/ disk.unit = "none"
        \/ disk.unit = "torn" /\ disk'.unit = "cosmovisor" /\ Advance
    BY <1>4 DEF WriteUnit, BeginWrite, EndWrite, IInv, TypeOK, Disk
  <2>4. disk.cosmovisor /\ disk.current # "none" /\ Executable(disk.current)
    <3>1. CASE cmd = "service" /\ at = 2
      BY <3>1 DEF IInv, ServiceProgress, CurrentIsWhole
    <3>2. CASE cmd = "migrate" /\ at = 10
      BY <3>2 DEF IInv, MigrateProgress
    <3>3. QED
      BY <2>1, <3>1, <3>2
  <2>5. PlainHasBinary' /\ CurrentIsWhole' /\ CosmovisorIsReady'
    BY <1>1, <2>3, <2>4 DEF PlainHasBinary, CurrentIsWhole, CosmovisorIsReady, Executable
  <2>6. cmd = "migrate" => disk.unitBackup = "plain" /\ disk.cli = "file"
    BY <2>1 DEF IInv, MigrateProgress
  <2>7. cmd = "service" => disk.unit # "plain"
    BY <2>1 DEF IInv, ServiceProgress
  <2>8. OldUnitKept'
    BY <1>1, <2>1, <2>2, <2>6, <2>7 DEF IInv, OldUnitKept, HasOldBinary
  <2>9. PrintedAfterBackup'
    <3>1. CASE cmd = "service"
      BY <1>1, <2>2, <2>3, <3>1 DEF IInv, PrintedAfterBackup
    <3>2. CASE cmd = "migrate"
      <4>1. disk.unit = "plain" \/ (copying /\ disk.unit \in {"none", "torn"})
        BY <2>1, <3>2 DEF IInv, MigrateProgress
      <4>2. disk.unit = "torn" => disk'.unit = "cosmovisor"
        <5> SUFFICES ASSUME disk.unit = "torn" PROVE disk'.unit = "cosmovisor"
          OBVIOUS
        <5>1. copying
          BY <4>1
        <5>2. EndWrite([disk EXCEPT !.unit = "cosmovisor"])
          BY <1>4, <5>1 DEF WriteUnit
        <5>3. QED
          BY <5>2 DEF EndWrite, IInv, TypeOK, Disk
      <4>3. QED
        BY <1>1, <2>2, <4>1, <4>2 DEF IInv, PrintedAfterBackup
    <3>3. QED
      BY <2>1, <3>1, <3>2
  <2>10. InstallProgress' /\ ServiceProgress' /\ MigrateProgress'
    <3>1. CASE UNCHANGED <<cmd, at>> /\ copying' = TRUE /\ disk'.unit \in {"none", "torn"}
      <4>1. InstallProgress' /\ ServiceProgress'
        BY <1>1, <2>1, <2>4, <3>1 DEF InstallProgress, ServiceProgress
      <4>2. MigrateProgress'
        BY <1>1, <2>1, <2>2, <2>4, <2>6, <3>1 DEF MigrateProgress, Executable
      <4>3. QED
        BY <4>1, <4>2
    <3>2. CASE Advance /\ disk'.unit = "cosmovisor"
      <4>1. CASE cmd' = "none" /\ at' = 1
        BY <4>1, NoProgress
      <4>2. CASE cmd' = cmd /\ cmd = "service"
        BY <1>1, <2>4, <3>2, <4>2 DEF InstallProgress, ServiceProgress, MigrateProgress
      <4>3. CASE cmd' = cmd /\ at' = 11 /\ cmd = "migrate"
        <5>1. MigrateProgress'
          BY <1>1, <2>2, <2>4, <2>6, <3>2, <4>3 DEF MigrateProgress, Executable
        <5>2. QED
          BY <4>3, <5>1 DEF InstallProgress, ServiceProgress
      <4>4. QED
        BY <1>3, <2>1, <3>2, <4>1, <4>2, <4>3
    <3>3. QED
      BY <2>3, <3>1, <3>2
  <2>11. QED
    BY <1>2, <2>5, <2>8, <2>9, <2>10
<1>5. CASE BackupUnit
  <2>1. cmd = "migrate"
    BY <1>5, InstallSteps, ServiceSteps, OtherSteps DEF BackupUnit, IInv
  <2>2. at = 9
    BY <1>5, <2>1, MigrateSteps DEF BackupUnit, IInv
  <2>3. /\ disk.unit = "plain" /\ disk.cosmovisor /\ disk.current # "none"
        /\ Executable(disk.current) /\ disk.cli = "file"
    BY <2>1, <2>2 DEF IInv, MigrateProgress
  <2>4. /\ disk'.unit = disk.unit
        /\ UNCHANGED <<cmd, at>> \/ (Advance /\ disk'.unitBackup = "plain" /\ copying' = FALSE)
    BY <1>5, <2>3 DEF BackupUnit, BeginWrite, EndWrite, IInv, TypeOK, Disk
  <2>5. ~ printed
    BY <2>3 DEF IInv, PrintedAfterBackup
  <2>6. /\ PlainHasBinary' /\ CurrentIsWhole' /\ CosmovisorIsReady' /\ OldUnitKept'
        /\ PrintedAfterBackup'
    BY <1>1, <2>3, <2>4, <2>5 DEF PlainHasBinary, CurrentIsWhole, CosmovisorIsReady,
       OldUnitKept, PrintedAfterBackup, Executable
  <2>7. CASE UNCHANGED <<cmd, at>>
    <3>1. MigrateProgress'
      BY <1>1, <2>2, <2>3, <2>4, <2>7 DEF MigrateProgress, Executable
    <3>2. QED
      BY <1>2, <2>1, <2>6, <2>7, <3>1 DEF InstallProgress, ServiceProgress
  <2>8. CASE Advance /\ disk'.unitBackup = "plain" /\ copying' = FALSE
    <3>1. CASE cmd' = "none" /\ at' = 1
      BY <1>2, <2>6, <3>1, NoProgress
    <3>2. CASE cmd' = cmd /\ at' = 10
      <4>1. MigrateProgress'
        BY <1>1, <2>3, <2>4, <2>8, <3>2 DEF MigrateProgress, Executable
      <4>2. QED
        BY <1>2, <2>1, <2>6, <3>2, <4>1 DEF InstallProgress, ServiceProgress
    <3>3. QED
      BY <1>3, <2>2, <2>8, <3>1, <3>2
  <2>9. QED
    BY <2>4, <2>7, <2>8
<1>6. QED
  BY <1>4, <1>5

-----------------------------------------------------------------------------
(***************************************************************************)
(* The invariant holds on every host, whatever commands run in which       *)
(* order, wherever they are cut short.                                     *)
(***************************************************************************)
THEOREM InvCorrect == Spec => []IInv
<1>1. Init => IInv
  <2> SUFFICES ASSUME Init PROVE IInv
    OBVIOUS
  <2>1. FreshDisk \in Disk /\ ExistingDisk \in Disk
    BY DEF FreshDisk, ExistingDisk, Disk, Files, Units, Configs
  <2>2. disk \in Disk /\ loaded \in Units /\ procs \subseteq {"plain", "cosmovisor", "manual"}
    BY <2>1 DEF Init, Units
  <2>3. TypeOK
    BY <2>2 DEF Init, TypeOK, Versions
  <2>4. /\ disk.unit \in {"none", "plain"} /\ disk.current = "none"
        /\ disk.unitBackup = "none" /\ ~ disk.cliBackup
        /\ disk.unit = "plain" <=> disk.cli = "file"
    <3>1. /\ FreshDisk.unit = "none" /\ FreshDisk.current = "none"
          /\ FreshDisk.unitBackup = "none" /\ ~ FreshDisk.cliBackup
          /\ FreshDisk.cli = "absent"
      BY DEF FreshDisk
    <3>2. /\ ExistingDisk.unit = "plain" /\ ExistingDisk.current = "none"
          /\ ExistingDisk.cli = "file"
          /\ ExistingDisk.unitBackup = "none" /\ ~ ExistingDisk.cliBackup
      BY DEF FreshDisk, ExistingDisk
    <3>3. disk = FreshDisk \/ disk = ExistingDisk
      BY DEF Init
    <3>4. QED
      BY <3>1, <3>2, <3>3
  <2>5. AtMostOneProc /\ cmd = "none" /\ printed = FALSE
    BY DEF Init, AtMostOneProc
  <2>6. QED
    BY <2>3, <2>4, <2>5 DEF IInv, PlainHasBinary, CurrentIsWhole, CosmovisorIsReady,
       OldUnitKept, HasOldBinary, PrintedAfterBackup, InstallProgress, ServiceProgress,
       MigrateProgress
<1>2. IInv /\ [Next]_vars => IInv'
  <2> SUFFICES ASSUME IInv, [Next]_vars PROVE IInv'
    OBVIOUS
  <2>1. TypeOK'
    BY TypeStep DEF IInv
  <2>2. CASE Next
    BY <2>1, <2>2, WorldStep, LookStep, FileStep, LinkStep, UnitStep DEF Next, ScriptStep, IInv
  <2>3. CASE UNCHANGED vars
    <3>1. UNCHANGED <<disk, procs, cmd, at, copying, printed>>
      BY <2>3 DEF vars
    <3>2. InstallProgress' /\ ServiceProgress' /\ MigrateProgress'
      BY <3>1 DEF IInv, InstallProgress, ServiceProgress, MigrateProgress, Executable
    <3>3. QED
      BY <2>1, <3>1, <3>2 DEF IInv, PlainHasBinary, CurrentIsWhole, CosmovisorIsReady,
         OldUnitKept, HasOldBinary, PrintedAfterBackup, AtMostOneProc, Executable
  <2>4. QED
    BY <2>2, <2>3
<1>3. QED
  BY <1>1, <1>2, PTL DEF Spec

(***************************************************************************)
(* The variables of the host and of the script keep their types: a command *)
(* is always at one of its own steps.                                      *)
(***************************************************************************)
THEOREM TypeCorrect == Spec => []TypeOK
<1>1. IInv => TypeOK
  BY DEF IInv
<1>2. QED
  BY <1>1, InvCorrect, PTL

(***************************************************************************)
(* A whole unit on the disk can be started at every moment, also in the    *)
(* middle of cmd_install, cmd_service and cmd_migrate.  While the unit is  *)
(* written (lines 420 and 488), and after an interruption there, nothing   *)
(* starts; then the links and binaries of the new unit are in place, and   *)
(* the old unit is whole in its backup.                                    *)
(***************************************************************************)
THEOREM UnitStartableHolds == Spec => []UnitStartable
<1>1. IInv => UnitStartable
  <2> SUFFICES ASSUME IInv PROVE UnitStartable
    OBVIOUS
  <2>1. CASE disk.unit = "plain"
    BY <2>1 DEF IInv, PlainHasBinary, Startable, UnitStartable
  <2>2. CASE disk.unit = "cosmovisor"
    BY <2>2 DEF IInv, CurrentIsWhole, CosmovisorIsReady, Startable, UnitStartable
  <2>3. CASE disk.unit \in {"none", "torn"}
    <3>1. disk.unit # "plain" /\ disk.unit # "cosmovisor"
      BY <2>3
    <3>2. disk.unit = "torn" \/ disk.unitBackup # "none" => Startable("cosmovisor")
      BY <2>3 DEF IInv, CurrentIsWhole, CosmovisorIsReady, Startable
    <3>3. HasOldBinary => disk.unitBackup = "plain"
      BY <3>1 DEF IInv, OldUnitKept
    <3>4. QED
      BY <3>1, <3>2, <3>3 DEF UnitStartable
  <2>4. QED
    BY <2>1, <2>2, <2>3 DEF IInv, TypeOK, Disk, Units
<1>2. QED
  BY <1>1, InvCorrect, PTL

(***************************************************************************)
(* There are never two node processes: the last check of cmd_migrate       *)
(* before systemctl start is enough.                                       *)
(***************************************************************************)
THEOREM OneNodeHolds == Spec => []OneNode
<1>1. IInv => OneNode
  <2> SUFFICES ASSUME IInv PROVE Cardinality(procs) <= 1
    BY DEF OneNode
  <2>1. CASE procs = {}
    BY <2>1, FS_EmptySet
  <2>2. CASE procs # {}
    <3>1. PICK p \in procs : TRUE
      BY <2>2
    <3>2. procs = {p}
      BY <3>1 DEF IInv, AtMostOneProc
    <3>3. QED
      BY <3>2, FS_Singleton
  <2>3. QED
    BY <2>1, <2>2
<1>2. QED
  BY <1>1, InvCorrect, PTL

(***************************************************************************)
(* The rollback commands that cmd_migrate prints find the old unit and the *)
(* old binary.                                                             *)
(***************************************************************************)
THEOREM RollbackRestoresHolds == Spec => []RollbackRestores
<1>1. IInv => RollbackRestores
  BY DEF IInv, PrintedAfterBackup, RollbackRestores
<1>2. QED
  BY <1>1, InvCorrect, PTL
=============================================================================
