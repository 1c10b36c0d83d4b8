------------------------- MODULE ChainUpgradeProofs -------------------------
(***************************************************************************)
(* Proofs about ChainUpgrade for any nodes, voting powers, blocks, store   *)
(* upgrades, skipped heights and numbers of crashes and exchanged          *)
(* binaries.                                                               *)
(***************************************************************************)
EXTENDS ChainUpgrade, TLAPS

Heights == Nat \ {0}

-----------------------------------------------------------------------------
(* What one block does.                                                    *)

(***************************************************************************)
(* DeliverContent leaves the height at which v2 was applied alone, and     *)
(* schedules nothing after it.                                             *)
(***************************************************************************)
LEMMA ContentWrites ==
    ASSUME NEW st \in AppState, NEW h \in Heights, NEW c \in Contents
    PROVE  /\ DeliverContent(st, h, c) \in AppState
           /\ DeliverContent(st, h, c).done = st.done
           /\ st.done # 0 /\ st.plan = 0 => DeliverContent(st, h, c).plan = 0
<1>1. CASE c.type = "schedule"
  <2>1. DeliverContent(st, h, c) = IF c.height >= h /\ st.done = 0
                                   THEN [st EXCEPT !.plan = c.height] ELSE st
    BY <1>1 DEF DeliverContent
  <2>2. c.height \in Nat
    BY <1>1, ContentsAssumption DEF Schedule, Other
  <2>3. QED
    BY <2>1, <2>2 DEF AppState
<1>2. CASE c.type = "cancel"
  <2>1. DeliverContent(st, h, c) = [st EXCEPT !.plan = 0]
    BY <1>2 DEF DeliverContent
  <2>2. QED
    BY <2>1 DEF AppState
<1>3. CASE c.type = "none"
  <2>1. DeliverContent(st, h, c) = st
    BY <1>3 DEF DeliverContent
  <2>2. QED
    BY <2>1
<1>4. QED
  BY <1>1, <1>2, <1>3, ContentsAssumption DEF Schedule, Other

(***************************************************************************)
(* A block that is committed sets done exactly when the upgrade is due and *)
(* not skipped, and leaves no plan once the upgrade is applied.            *)
(***************************************************************************)
LEMMA BlockWrites ==
    ASSUME NEW b \in Binaries, NEW st \in AppState, NEW h \in Heights, NEW c \in Contents,
           CommitsBlock(b, st, h)
    PROVE  /\ BlockResult(b, st, h, c) \in AppState
           /\ BlockResult(b, st, h, c).done = IF Due(st, h) /\ h \notin SkipHeights
                                              THEN h ELSE st.done
           /\ (st.done # 0 => st.plan = 0) =>
              (BlockResult(b, st, h, c).done # 0 => BlockResult(b, st, h, c).plan = 0)
<1> DEFINE pre == PreBlocker(b, st, h)
<1>1. /\ pre \in AppState
      /\ pre.done = IF Due(st, h) /\ h \notin SkipHeights THEN h ELSE st.done
      /\ (st.done # 0 => st.plan = 0) => (pre.done # 0 => pre.plan = 0)
  BY DEF PreBlocker, CommitsBlock, AppState, Heights
<1>2. QED
  BY <1>1, ContentWrites DEF BlockResult

(***************************************************************************)
(* Two binaries that both commit a block get the same state from it.       *)
(***************************************************************************)
LEMMA BlockDeterministic ==
    ASSUME NEW a \in Binaries, NEW b \in Binaries, NEW st, NEW h, NEW c,
           CommitsBlock(a, st, h), CommitsBlock(b, st, h)
    PROVE  BlockResult(a, st, h, c) = BlockResult(b, st, h, c)
<1>1. PreBlocker(a, st, h) = PreBlocker(b, st, h)
  BY DEF PreBlocker, CommitsBlock
<1>2. QED
  BY <1>1 DEF BlockResult

-----------------------------------------------------------------------------
(* The inductive invariant.                                                *)

\* No node is ahead of the decided blocks.
NotAhead == \A n \in Nodes : Height(n) <= Len(chain)

\* Every committed block was one the binary could commit, with this result.
Replays ==
    \A n \in Nodes : \A h \in 1 .. Height(n) :
        /\ CommitsBlock(results[n][h].by, AppAt(n, h - 1), h)
        /\ results[n][h].app = BlockResult(results[n][h].by, AppAt(n, h - 1), h, chain[h])

\* There is no plan any more once the upgrade is applied.
DoneClearsPlan == \A n \in Nodes : App(n).done # 0 => App(n).plan = 0

\* upgrade-info.json names a height at which the upgrade was due.
InfoIsDue ==
    \A n \in Nodes : info[n] # 0 =>
        /\ info[n] <= Height(n) + 1
        /\ info[n] \notin SkipHeights
        /\ Due(AppAt(n, info[n] - 1), info[n])

\* A node that is past that height has applied the upgrade.
InfoIsDone == \A n \in Nodes : info[n] # 0 /\ info[n] <= Height(n) => App(n).done # 0

\* A running v2 has its stores: there are none, they exist, or it adds them now.
RunningIsLoaded ==
    \A n \in Nodes : status[n] = "up" /\ binary[n] = "v2" =>
        StoreUpgrades = {} \/ App(n).done # 0 \/ info[n] = Height(n) + 1

IInv ==
    /\ TypeOK
    /\ NotAhead
    /\ Replays
    /\ Agreement
    /\ RightBinary
    /\ DoneClearsPlan
    /\ InfoIsDue
    /\ InfoIsDone
    /\ RunningIsLoaded
    /\ StoresMatchUpgrade

-----------------------------------------------------------------------------
(* The steps of Next, grouped by what they do to the results.              *)

\* Nothing is committed, and what starts is loaded.
NoCommit ==
    /\ UNCHANGED <<results, stores>>
    /\ \/ chain' = chain
       \/ \E c \in Contents : chain' = Append(chain, c)
    /\ \A n \in Nodes :
          /\ info'[n] = info[n] \/ (NeedsUpgrade(n) /\ info'[n] = Height(n) + 1)
          /\ status'[n] = "up" =>
                \/ status[n] = "up" /\ binary'[n] = binary[n]
                \/ LoadOK(n) /\ binary'[n] = binary[n] /\ info'[n] = info[n]

(***************************************************************************)
(* The application state of a well-typed node.                             *)
(***************************************************************************)
LEMMA AppType ==
    ASSUME TypeOK, NEW n \in Nodes
    PROVE  /\ results[n] \in Seq(Result)
           /\ Height(n) \in Nat
           /\ \A h \in 0 .. Height(n) : AppAt(n, h) \in AppState
           /\ App(n) \in AppState
<1>1. results[n] \in Seq(Result)
  BY DEF TypeOK
<1>2. Height(n) \in Nat
  BY <1>1 DEF Height
<1>3. GenesisState \in AppState
  BY DEF GenesisState, AppState
<1>4. ASSUME NEW h \in 0 .. Height(n) PROVE AppAt(n, h) \in AppState
  <2>1. CASE h = 0
    BY <1>3, <2>1 DEF AppAt
  <2>2. CASE h # 0
    <3>0. h \in 1 .. Len(results[n])
      BY <1>2, <2>2 DEF Height
    <3>1. results[n][h] \in Result
      BY <1>1, <3>0
    <3>2. QED
      BY <2>2, <3>1 DEF AppAt, Result
  <2>3. QED
    BY <2>1, <2>2
<1>5. App(n) \in AppState
  BY <1>2, <1>4 DEF App
<1>6. QED
  BY <1>1, <1>2, <1>4, <1>5

(***************************************************************************)
(* Every step either commits a block of one node or commits nothing.       *)
(***************************************************************************)
LEMMA NextCases ==
    ASSUME TypeOK, [Next]_vars
    PROVE  NoCommit \/ \E n \in Nodes : CommitBlock(n)
<1>1. CASE \E c \in Contents : Decide(c)
  BY <1>1 DEF Decide, NoCommit
<1>2. ASSUME NEW n \in Nodes, Start(n) PROVE NoCommit
  BY <1>2 DEF Start, NoCommit, TypeOK
<1>3. ASSUME NEW n \in Nodes, HaltForUpgrade(n) PROVE NoCommit
  BY <1>3 DEF HaltForUpgrade, NoCommit, TypeOK
<1>4. ASSUME NEW n \in Nodes, RefuseBlock(n) PROVE NoCommit
  BY <1>4 DEF RefuseBlock, NoCommit, TypeOK
<1>5. ASSUME NEW n \in Nodes, SwitchStep(n) PROVE NoCommit
  BY <1>5 DEF SwitchStep, CosmovisorSwitches, CosmovisorGivesUp, OperatorSwitches, NoCommit, TypeOK
<1>6. ASSUME NEW n \in Nodes, SpeculateUpgrade(n) PROVE NoCommit
  BY <1>6 DEF SpeculateUpgrade, NoCommit, TypeOK
<1>7. ASSUME NEW n \in Nodes, Crash(n) \/ PrepareUpgrade(n) PROVE NoCommit
  BY <1>7 DEF Crash, PrepareUpgrade, NoCommit, TypeOK
<1>8. ASSUME NEW n \in Nodes, NEW b \in Binaries, OperatorSwaps(n, b) PROVE NoCommit
  BY <1>8 DEF OperatorSwaps, NoCommit, TypeOK
<1>9. CASE UNCHANGED vars
  BY <1>9 DEF vars, NoCommit
<1>10. QED
  BY <1>1, <1>2, <1>3, <1>4, <1>5, <1>6, <1>7, <1>8, <1>9 DEF Next, NodeStep

(***************************************************************************)
(* What CommitBlock appends, and that it leaves the earlier results alone. *)
(***************************************************************************)
LEMMA CommitWrites ==
    ASSUME TypeOK, NEW n \in Nodes, CommitBlock(n)
    PROVE  LET h == Height(n) + 1
               r == BlockResult(binary[n], App(n), h, chain[h])
           IN  /\ h \in Heights /\ h \in 1 .. Len(chain) /\ chain[h] \in Contents
               /\ binary[n] \in Binaries
               /\ CommitsBlock(binary[n], App(n), h)
               /\ r \in AppState
               /\ r.done = IF Due(App(n), h) /\ h \notin SkipHeights THEN h ELSE App(n).done
               /\ results' \in [Nodes -> Seq(Result)]
               /\ Len(results'[n]) = h
               /\ results'[n][h] = [by |-> binary[n], app |-> r]
               /\ \A k \in 1 .. Height(n) : results'[n][k] = results[n][k]
               /\ \A m \in Nodes \ {n} : results'[m] = results[m]
               /\ stores' = [stores EXCEPT ![n] = @ \cup Mounted(binary[n])]
               /\ UNCHANGED <<chain, status, binary, info>>
<1> DEFINE h == Height(n) + 1
<1> DEFINE r == BlockResult(binary[n], App(n), h, chain[h])
<1> DEFINE e == [by |-> binary[n], app |-> r]
<1>1. /\ Executes(n)
      /\ CommitsBlock(binary[n], App(n), h)
      /\ results' = [results EXCEPT ![n] = Append(@, e)]
      /\ stores' = [stores EXCEPT ![n] = @ \cup Mounted(binary[n])]
      /\ UNCHANGED <<chain, status, binary, info>>
  BY DEF CommitBlock
<1>2. /\ results[n] \in Seq(Result)
      /\ Height(n) \in Nat /\ App(n) \in AppState
  BY AppType
<1>3. h \in Heights /\ h \in 1 .. Len(chain) /\ chain[h] \in Contents
  BY <1>1, <1>2 DEF Executes, TypeOK, Heights
<1>4. binary[n] \in Binaries
  BY DEF TypeOK
<1>5. /\ r \in AppState
      /\ r.done = IF Due(App(n), h) /\ h \notin SkipHeights THEN h ELSE App(n).done
  BY <1>1, <1>2, <1>3, <1>4, BlockWrites
<1>6. e \in Result
  BY <1>4, <1>5 DEF Result
<1>7. results'[n] = Append(results[n], e)
  BY <1>1 DEF TypeOK
<1>8. /\ Append(results[n], e) \in Seq(Result)
      /\ Len(Append(results[n], e)) = Len(results[n]) + 1
      /\ Append(results[n], e)[Len(results[n]) + 1] = e
      /\ \A k \in 1 .. Len(results[n]) : Append(results[n], e)[k] = results[n][k]
  BY <1>2, <1>6
<1>9. /\ Len(results'[n]) = h /\ results'[n][h] = e
      /\ \A k \in 1 .. Height(n) : results'[n][k] = results[n][k]
  BY <1>7, <1>8 DEF Height
<1>10. \A m \in Nodes \ {n} : results'[m] = results[m]
  BY <1>1 DEF TypeOK
<1>11. results' \in [Nodes -> Seq(Result)]
  BY <1>1, <1>8 DEF TypeOK
<1>12. QED
  BY <1>1, <1>3, <1>4, <1>5, <1>9, <1>10, <1>11

-----------------------------------------------------------------------------
(* Each part of the invariant is preserved.                                *)

(***************************************************************************)
(* Every step keeps the types.                                             *)
(***************************************************************************)
LEMMA TypeStep == TypeOK /\ [Next]_vars => TypeOK'
<1> SUFFICES ASSUME TypeOK, [Next]_vars PROVE TypeOK'
  OBVIOUS
<1>1. ASSUME NEW c \in Contents, Decide(c) PROVE TypeOK'
  BY <1>1 DEF Decide, TypeOK
<1>2. ASSUME NEW n \in Nodes, CommitBlock(n) PROVE TypeOK'
  <2>1. results' \in [Nodes -> Seq(Result)]
    BY <1>2, CommitWrites
  <2>2. stores' \in [Nodes -> SUBSET StoreUpgrades]
    BY <1>2 DEF CommitBlock, TypeOK, Mounted
  <2>3. QED
    BY <1>2, <2>1, <2>2 DEF CommitBlock, TypeOK
<1>3. ASSUME NEW n \in Nodes, Start(n) \/ RefuseBlock(n) \/ CosmovisorGivesUp(n) PROVE TypeOK'
  BY <1>3 DEF Start, RefuseBlock, CosmovisorGivesUp, TypeOK
<1>4. ASSUME NEW n \in Nodes, HaltForUpgrade(n) \/ SpeculateUpgrade(n) PROVE TypeOK'
  <2>1. Height(n) + 1 \in Nat
    BY AppType
  <2>2. QED
    BY <1>4, <2>1 DEF HaltForUpgrade, SpeculateUpgrade, TypeOK
<1>5. ASSUME NEW n \in Nodes, CosmovisorSwitches(n) \/ OperatorSwitches(n) PROVE TypeOK'
  BY <1>5 DEF CosmovisorSwitches, OperatorSwitches, TypeOK, Binaries
<1>6. ASSUME NEW n \in Nodes, Crash(n) PROVE TypeOK'
  BY <1>6, HeightsAssumption DEF Crash, TypeOK
<1>7. ASSUME NEW n \in Nodes, PrepareUpgrade(n) PROVE TypeOK'
  BY <1>7 DEF PrepareUpgrade, TypeOK
<1>8. ASSUME NEW n \in Nodes, NEW b \in Binaries, OperatorSwaps(n, b) PROVE TypeOK'
  BY <1>8, HeightsAssumption DEF OperatorSwaps, TypeOK
<1>9. CASE UNCHANGED vars
  BY <1>9 DEF vars, TypeOK
<1>10. QED
  BY <1>1, <1>2, <1>3, <1>4, <1>5, <1>6, <1>7, <1>8, <1>9 DEF Next, NodeStep, SwitchStep

(***************************************************************************)
(* A step without a commit: only upgrade-info.json and what runs change.   *)
(***************************************************************************)
LEMMA NoCommitStep ==
    ASSUME IInv, TypeOK', NoCommit
    PROVE  IInv'
<1>1. /\ results' = results /\ stores' = stores
      /\ Len(chain') >= Len(chain)
      /\ \A h \in 1 .. Len(chain) : chain'[h] = chain[h]
  <2>1. chain \in Seq(Contents)
    BY DEF IInv, TypeOK
  <2>2. ASSUME NEW c \in Contents, chain' = Append(chain, c)
        PROVE  Len(chain') >= Len(chain) /\ \A h \in 1 .. Len(chain) : chain'[h] = chain[h]
    BY <2>1, <2>2
  <2>3. QED
    BY <2>1, <2>2 DEF NoCommit
<1>2. \A n \in Nodes : Height(n)' = Height(n) /\ App(n)' = App(n)
  BY <1>1 DEF Height, App, AppAt
<1>3. \A n \in Nodes : \A h \in Nat : AppAt(n, h)' = AppAt(n, h)
  BY <1>1 DEF AppAt
<1>4. \A n \in Nodes : Height(n) \in Nat /\ App(n) \in AppState
  BY AppType DEF IInv
<1>5. NotAhead'
  BY <1>1, <1>2, <1>4 DEF NotAhead, IInv, TypeOK
<1>6. Replays'
  <2> SUFFICES ASSUME NEW n \in Nodes, NEW h \in 1 .. Height(n)
               PROVE  /\ CommitsBlock(results[n][h].by, AppAt(n, h - 1), h)
                      /\ results[n][h].app
                           = BlockResult(results[n][h].by, AppAt(n, h - 1), h, chain'[h])
    BY <1>1, <1>2, <1>3, <1>4 DEF Replays
  <2>1. chain'[h] = chain[h]
    BY <1>1, <1>4 DEF IInv, NotAhead, TypeOK
  <2>2. QED
    BY <2>1 DEF IInv, Replays
<1>7. Agreement' /\ DoneClearsPlan' /\ StoresMatchUpgrade'
  BY <1>1, <1>2 DEF IInv, Agreement, DoneClearsPlan, StoresMatchUpgrade
<1>8. RightBinary'
  BY <1>1, <1>2, <1>3, <1>4 DEF IInv, RightBinary
<1>9. ASSUME NEW n \in Nodes, info'[n] # 0
      PROVE  /\ info'[n] <= Height(n) + 1
             /\ info'[n] \notin SkipHeights
             /\ Due(AppAt(n, info'[n] - 1), info'[n])
             /\ info'[n] <= Height(n) => App(n).done # 0
  <2>1. CASE info'[n] = info[n]
    BY <1>9, <2>1 DEF IInv, InfoIsDue, InfoIsDone
  <2>2. CASE NeedsUpgrade(n) /\ info'[n] = Height(n) + 1
    <3>1. info'[n] - 1 = Height(n) /\ ~ (info'[n] <= Height(n)) /\ info'[n] <= Height(n) + 1
      BY <1>4, <2>2
    <3>2. QED
      BY <2>2, <3>1 DEF NeedsUpgrade, App
  <2>3. QED
    BY <2>1, <2>2 DEF NoCommit
<1>10. InfoIsDue' /\ InfoIsDone'
  <2>1. \A n \in Nodes : info'[n] \in Nat
    BY DEF TypeOK
  <2>2. \A n \in Nodes : info'[n] # 0 => info'[n] - 1 \in Nat
    BY <2>1
  <2>3. QED
    BY <1>2, <1>3, <1>9, <2>2 DEF InfoIsDue, InfoIsDone, Due
<1>11. RunningIsLoaded'
  <2> SUFFICES ASSUME NEW n \in Nodes, status'[n] = "up", binary'[n] = "v2"
               PROVE  StoreUpgrades = {} \/ App(n).done # 0 \/ info'[n] = Height(n) + 1
    BY <1>2 DEF RunningIsLoaded
  <2>1. CASE status[n] = "up" /\ binary'[n] = binary[n]
    <3>1. ~ NeedsUpgrade(n)
      BY <2>1 DEF NeedsUpgrade, HasHandler
    <3>2. info'[n] = info[n]
      BY <3>1 DEF NoCommit
    <3>3. QED
      BY <2>1, <3>2 DEF IInv, RunningIsLoaded
  <2>2. CASE LoadOK(n) /\ binary'[n] = binary[n] /\ info'[n] = info[n]
    <3>1. StoreUpgrades \subseteq stores[n] \cup StoreLoader(n)
      BY <2>2 DEF LoadOK, Mounted
    <3>2. CASE info[n] = Height(n) + 1
      BY <2>2, <3>2
    <3>3. CASE info[n] # Height(n) + 1
      <4>1. StoreUpgrades \subseteq stores[n]
        BY <3>1, <3>3 DEF StoreLoader
      <4>2. QED
        BY <4>1 DEF IInv, StoresMatchUpgrade
    <3>4. QED
      BY <3>2, <3>3
  <2>3. QED
    BY <2>1, <2>2 DEF NoCommit
<1>12. QED
  BY <1>5, <1>6, <1>7, <1>8, <1>10, <1>11 DEF IInv

(***************************************************************************)
(* A commit extends the results of one node by the result of the next      *)
(* block; the other nodes and its earlier results stay.                    *)
(***************************************************************************)
LEMMA CommitStep ==
    ASSUME IInv, TypeOK', NEW n \in Nodes, CommitBlock(n)
    PROVE  IInv'
<1>0. PICK h \in Nat : h = Height(n) + 1
  BY AppType DEF IInv
<1> DEFINE b == binary[n]
<1> DEFINE r == BlockResult(b, App(n), h, chain[h])
<1>1. /\ h \in Heights /\ h \in 1 .. Len(chain) /\ chain[h] \in Contents
      /\ b \in Binaries
      /\ CommitsBlock(b, App(n), h)
      /\ r \in AppState
      /\ r.done = IF Due(App(n), h) /\ h \notin SkipHeights THEN h ELSE App(n).done
      /\ Len(results'[n]) = h
      /\ results'[n][h] = [by |-> b, app |-> r]
      /\ \A k \in 1 .. Height(n) : results'[n][k] = results[n][k]
      /\ \A m \in Nodes \ {n} : results'[m] = results[m]
      /\ stores' = [stores EXCEPT ![n] = @ \cup Mounted(b)]
      /\ UNCHANGED <<chain, status, binary, info>>
  BY <1>0, CommitWrites DEF IInv
<1>2. \A m \in Nodes : Height(m) \in Nat /\ App(m) \in AppState
  BY AppType DEF IInv
<1>3. /\ Height(n)' = h
      /\ App(n)' = r
      /\ \A k \in 0 .. Height(n) : AppAt(n, k)' = AppAt(n, k)
      /\ AppAt(n, Height(n)) = App(n)
  <2>1. Height(n)' = h
    BY <1>1 DEF Height
  <2>2. App(n)' = r
    BY <1>1, <2>1 DEF App, AppAt, Heights
  <2>3. \A k \in 0 .. Height(n) : AppAt(n, k)' = AppAt(n, k)
    BY <1>0, <1>1, <1>2 DEF AppAt
  <2>4. QED
    BY <2>1, <2>2, <2>3 DEF App
<1>4. \A m \in Nodes \ {n} :
         /\ Height(m)' = Height(m) /\ App(m)' = App(m)
         /\ \A k \in Nat : AppAt(m, k)' = AppAt(m, k)
  BY <1>1 DEF Height, App, AppAt
<1> HIDE DEF b, r
<1>5. h = Height(n) + 1 /\ h - 1 = Height(n) /\ ~ (h <= Height(n))
  BY <1>0, <1>2
<1>6. \A k \in 1 .. h : k = h \/ (k \in 1 .. Height(n) /\ k - 1 \in 0 .. Height(n) /\ k \in 0 .. Height(n))
  BY <1>2, <1>5
<1>7. NotAhead'
  BY <1>1, <1>2, <1>3, <1>4 DEF NotAhead, IInv
<1>8. Replays'
  <2> DEFINE R(m, k) == /\ CommitsBlock(results[m][k].by, AppAt(m, k - 1), k)
                        /\ results[m][k].app
                             = BlockResult(results[m][k].by, AppAt(m, k - 1), k, chain[k])
  <2>1. ASSUME NEW m \in Nodes \ {n}, NEW k \in 1 .. Height(m) PROVE R(m, k)'
    <3>1. R(m, k) /\ k - 1 \in Nat
      BY <1>2 DEF IInv, Replays
    <3>2. QED
      BY <1>1, <1>4, <3>1
  <2>2. ASSUME NEW k \in 1 .. Height(n) PROVE R(n, k)'
    <3>1. R(n, k) /\ k - 1 \in 0 .. Height(n)
      BY <1>2 DEF IInv, Replays
    <3>2. QED
      BY <1>1, <1>3, <3>1
  <2>3. R(n, h)'
    BY <1>1, <1>2, <1>3, <1>5 DEF r
  <2>4. QED
    BY <1>3, <1>4, <1>6, <2>1, <2>2, <2>3 DEF Replays
<1>9. Agreement'
  <2>1. ASSUME NEW m \in Nodes \ {n}, h <= Height(m) PROVE results[m][h].app = r
    <3>1. h \in 1 .. Height(m)
      BY <1>1, <1>2, <2>1 DEF Heights
    <3>2. /\ CommitsBlock(results[m][h].by, AppAt(m, h - 1), h)
          /\ results[m][h].app = BlockResult(results[m][h].by, AppAt(m, h - 1), h, chain[h])
      BY <3>1 DEF IInv, Replays
    <3>3. AppAt(m, h - 1) = App(n)
      <4>1. CASE Height(n) = 0
        BY <1>3, <1>5, <4>1 DEF AppAt
      <4>2. CASE Height(n) # 0
        <5>1. Height(n) \in 1 .. Height(n) /\ Height(n) <= Height(m)
          BY <1>2, <1>5, <2>1, <4>2
        <5>2. results[n][Height(n)].app = results[m][Height(n)].app
          BY <5>1 DEF IInv, Agreement
        <5>3. QED
          BY <1>3, <1>5, <4>2, <5>2 DEF AppAt
      <4>3. QED
        BY <4>1, <4>2
    <3>4. results[m][h].by \in Binaries
      <4>1. results[m] \in Seq(Result) /\ h \in 1 .. Len(results[m])
        BY <3>1 DEF IInv, TypeOK, Height
      <4>2. results[m][h] \in Result
        BY <4>1
      <4>3. QED
        BY <4>2 DEF Result
    <3>5. QED
      BY <1>1, <3>2, <3>3, <3>4, BlockDeterministic DEF r
  <2>2. SUFFICES ASSUME NEW l \in Nodes, NEW m \in Nodes, NEW k \in 1 .. Height(l)',
                        k <= Height(m)'
                 PROVE  results'[l][k].app = results'[m][k].app
    BY DEF Agreement
  <2>3. CASE l # n /\ m # n
    BY <1>1, <1>4, <2>2, <2>3 DEF IInv, Agreement
  <2>4. CASE l = n /\ m = n
    BY <2>4
  <2>5. CASE l = n /\ m # n
    <3>1. CASE k = h
      BY <1>1, <1>4, <2>1, <2>2, <2>5, <3>1
    <3>2. CASE k \in 1 .. Height(n)
      BY <1>1, <1>4, <2>2, <2>5, <3>2 DEF IInv, Agreement
    <3>3. QED
      BY <1>3, <1>6, <2>5, <3>1, <3>2
  <2>6. CASE l # n /\ m = n
    <3>1. k \in 1 .. Height(l) /\ k \in 1 .. h
      BY <1>1, <1>2, <1>3, <1>4, <2>2, <2>6
    <3>2. CASE k = h
      <4>1. h <= Height(l)
        BY <1>2, <3>1, <3>2
      <4>2. QED
        BY <1>1, <1>4, <2>1, <2>6, <3>2, <4>1
    <3>3. CASE k \in 1 .. Height(n)
      <4>1. k <= Height(n)
        BY <1>2, <3>3
      <4>2. QED
        BY <1>1, <1>4, <2>6, <3>1, <3>3, <4>1 DEF IInv, Agreement
    <3>4. QED
      BY <1>6, <3>1, <3>2, <3>3
  <2>7. QED
    BY <2>3, <2>4, <2>5, <2>6
<1>10. RightBinary'
  <2> DEFINE R(m, k) == /\ results[m][k].app.done # 0 => results[m][k].by = "v2"
                        /\ results[m][k].by = "v2" /\ AppAt(m, k - 1).plan # 0
                              => results[m][k].app.done = k \/ k \in SkipHeights
  <2>1. ASSUME NEW m \in Nodes \ {n}, NEW k \in 1 .. Height(m) PROVE R(m, k)'
    <3>1. R(m, k) /\ k - 1 \in Nat
      BY <1>2 DEF IInv, RightBinary
    <3>2. QED
      BY <1>1, <1>4, <3>1
  <2>2. ASSUME NEW k \in 1 .. Height(n) PROVE R(n, k)'
    <3>1. R(n, k) /\ k - 1 \in 0 .. Height(n)
      BY <1>2 DEF IInv, RightBinary
    <3>2. QED
      BY <1>1, <1>3, <3>1
  <2>3. R(n, h)'
    <3>1. r.done # 0 => b = "v2"
      BY <1>1 DEF CommitsBlock, HasHandler
    <3>2. b = "v2" /\ App(n).plan # 0 => r.done = h \/ h \in SkipHeights
      BY <1>1 DEF CommitsBlock, HasHandler
    <3>3. results'[n][h].app = r /\ results'[n][h].by = b /\ AppAt(n, h - 1)' = App(n)
      BY <1>1, <1>2, <1>3, <1>5
    <3>4. QED
      BY <3>1, <3>2, <3>3
  <2>4. QED
    BY <1>3, <1>4, <1>6, <2>1, <2>2, <2>3 DEF RightBinary
<1>11. DoneClearsPlan'
  <2>1. r.done # 0 => r.plan = 0
    BY <1>1, <1>2, BlockWrites DEF IInv, DoneClearsPlan, r
  <2>2. QED
    BY <1>3, <1>4, <2>1 DEF IInv, DoneClearsPlan
<1>12. info[n] = h => r.done # 0
  BY <1>1, <1>3, <1>5 DEF IInv, InfoIsDue, Heights
<1>13. App(n).done # 0 => r.done # 0
  BY <1>1 DEF Heights
<1>14. InfoIsDue'
  <2>1. ASSUME NEW m \in Nodes, info[m] # 0
        PROVE  /\ info[m] <= Height(m)' + 1
               /\ Due(AppAt(m, info[m] - 1)', info[m])
    <3>1. info[m] \in Nat /\ info[m] <= Height(m) + 1 /\ Due(AppAt(m, info[m] - 1), info[m])
      BY <2>1 DEF IInv, InfoIsDue, TypeOK
    <3>2. PICK k \in 0 .. Height(m) : k = info[m] - 1
      BY <1>2, <2>1, <3>1
    <3>3. AppAt(m, k)' = AppAt(m, k)
      BY <1>2, <1>3, <1>4
    <3>4. info' = info /\ Height(m) <= Height(m)' /\ Height(m)' \in Nat
      BY <1>1, <1>2, <1>3, <1>4, <1>5
    <3>5. AppAt(m, info[m] - 1)' = AppAt(m, info[m] - 1)
      BY <3>2, <3>3, <3>4
    <3>6. QED
      BY <1>2, <3>1, <3>4, <3>5
  <2>2. QED
    BY <1>1, <2>1 DEF IInv, InfoIsDue, Due
<1>15. InfoIsDone'
  <2>1. CASE info[n] # 0 /\ info[n] <= h
    <3>1. info[n] = h \/ info[n] <= Height(n)
      BY <1>2, <1>5, <2>1 DEF IInv, TypeOK
    <3>2. r.done # 0
      BY <1>12, <1>13, <2>1, <3>1 DEF IInv, InfoIsDone
    <3>3. QED
      BY <1>1, <1>3, <1>4, <3>2 DEF IInv, InfoIsDone
  <2>2. CASE ~ (info[n] # 0 /\ info[n] <= h)
    BY <1>1, <1>3, <1>4, <2>2 DEF IInv, InfoIsDone
  <2>3. QED
    BY <2>1, <2>2
<1>16. b = "v2" => StoreUpgrades = {} \/ r.done # 0
  <2>1. status[n] = "up"
    BY DEF CommitBlock, Executes
  <2>2. QED
    BY <1>5, <1>12, <1>13, <2>1 DEF IInv, RunningIsLoaded, b
<1>17. RunningIsLoaded'
  BY <1>1, <1>3, <1>4, <1>16 DEF IInv, RunningIsLoaded, b
<1>18. StoresMatchUpgrade'
  <2>1. \A m \in Nodes \ {n} : stores'[m] = stores[m]
    BY <1>1 DEF IInv, TypeOK
  <2>2. stores'[n] = stores[n] \cup Mounted(b)
    BY <1>1 DEF IInv, TypeOK
  <2>3. stores[n] = IF App(n).done # 0 THEN StoreUpgrades ELSE {}
    BY DEF IInv, StoresMatchUpgrade
  <2>4. r.done # 0 => b = "v2"
    BY <1>1 DEF CommitsBlock, HasHandler
  <2>5. stores'[n] = IF r.done # 0 THEN StoreUpgrades ELSE {}
    <3>1. CASE b = "v2"
      BY <1>13, <1>16, <2>2, <2>3, <3>1 DEF Mounted
    <3>2. CASE b # "v2"
      BY <1>13, <2>2, <2>3, <2>4, <3>2 DEF Mounted
    <3>3. QED
      BY <3>1, <3>2
  <2>6. QED
    BY <1>3, <1>4, <2>1, <2>5 DEF IInv, StoresMatchUpgrade
<1>19. QED
  BY <1>7, <1>8, <1>9, <1>10, <1>11, <1>14, <1>15, <1>17, <1>18 DEF IInv

-----------------------------------------------------------------------------
(***************************************************************************)
(* The invariant holds in every behaviour.                                 *)
(***************************************************************************)
THEOREM InvCorrect == Spec => []IInv
<1>1. Init => IInv
  <2> SUFFICES ASSUME Init PROVE IInv
    OBVIOUS
  <2>1. TypeOK
    BY HeightsAssumption DEF Init, TypeOK, Binaries
  <2>2. \A n \in Nodes : Height(n) = 0 /\ App(n) = GenesisState
    BY DEF Init, Height, App, AppAt
  <2>3. NotAhead /\ Replays /\ Agreement /\ RightBinary
    BY <2>2 DEF Init, NotAhead, Replays, Agreement, RightBinary
  <2>4. DoneClearsPlan /\ InfoIsDue /\ InfoIsDone /\ RunningIsLoaded /\ StoresMatchUpgrade
    BY <2>2 DEF Init, GenesisState, DoneClearsPlan, InfoIsDue, InfoIsDone, RunningIsLoaded,
                StoresMatchUpgrade
  <2>5. QED
    BY <2>1, <2>3, <2>4 DEF IInv
<1>2. IInv /\ [Next]_vars => IInv'
  <2> SUFFICES ASSUME IInv, [Next]_vars PROVE IInv'
    OBVIOUS
  <2>1. TypeOK'
    BY TypeStep DEF IInv
  <2>2. QED
    BY <2>1, NextCases, NoCommitStep, CommitStep DEF IInv
<1>3. QED
  BY <1>1, <1>2, PTL DEF Spec

(***************************************************************************)
(* The variables of the nodes and of the chain keep their types: a node    *)
(* mounts only stores of the upgrade, and the bounds on faults are kept.   *)
(***************************************************************************)
THEOREM TypeCorrect == Spec => []TypeOK
<1>1. IInv => TypeOK
  BY DEF IInv
<1>2. QED
  BY <1>1, InvCorrect, PTL

(***************************************************************************)
(* All nodes get the same application state from every block, for any mix  *)
(* of binaries, crashes and wrong switches.                                *)
(***************************************************************************)
THEOREM AgreementHolds == Spec => []Agreement
<1>1. IInv => Agreement
  BY DEF IInv
<1>2. QED
  BY <1>1, InvCorrect, PTL

(***************************************************************************)
(* No node commits with v2 while the plan is pending, nor with v1 from the *)
(* upgrade height on.                                                      *)
(***************************************************************************)
THEOREM RightBinaryHolds == Spec => []RightBinary
<1>1. IInv => RightBinary
  BY DEF IInv
<1>2. QED
  BY <1>1, InvCorrect, PTL

(***************************************************************************)
(* The stores of an upgrade exist exactly on the nodes that applied it.    *)
(***************************************************************************)
THEOREM StoresMatchHolds == Spec => []StoresMatchUpgrade
<1>1. IInv => StoresMatchUpgrade
  BY DEF IInv
<1>2. QED
  BY <1>1, InvCorrect, PTL

(***************************************************************************)
(* After the halt v2 loads the data of the node on every start, although   *)
(* upgrade-info.json stays on disk.                                        *)
(***************************************************************************)
THEOREM LoadsAfterHaltHolds == Spec => []LoadsAfterHalt
<1>1. IInv => LoadsAfterHalt
  <2> SUFFICES ASSUME IInv, NEW n \in Nodes, info[n] # 0, binary[n] = "v2" PROVE LoadOK(n)
    BY DEF LoadsAfterHalt
  <2>1. /\ info[n] \in Nat /\ Height(n) \in Nat
        /\ info[n] <= Height(n) + 1
        /\ info[n] \notin SkipHeights
        /\ Due(AppAt(n, info[n] - 1), info[n])
    BY AppType DEF IInv, InfoIsDue, TypeOK
  <2>2. stores[n] = IF App(n).done # 0 THEN StoreUpgrades ELSE {}
    BY DEF IInv, StoresMatchUpgrade
  <2>3. Mounted(binary[n]) = StoreUpgrades /\ SetsStoreLoader(n)
    BY <2>1 DEF Mounted, SetsStoreLoader, HasHandler
  <2>4. CASE info[n] = Height(n) + 1
    <3>1. StoreLoader(n) = StoreUpgrades
      BY <2>3, <2>4 DEF StoreLoader
    <3>2. info[n] - 1 = Height(n)
      BY <2>1, <2>4
    <3>3. App(n).plan # 0
      BY <2>1, <3>2 DEF Due, App
    <3>4. stores[n] = {}
      BY <2>2, <3>3 DEF IInv, DoneClearsPlan
    <3>5. QED
      BY <2>3, <3>1, <3>4 DEF LoadOK
  <2>5. CASE info[n] # Height(n) + 1
    <3>1. StoreLoader(n) = {}
      BY <2>5 DEF StoreLoader
    <3>2. info[n] <= Height(n)
      BY <2>1, <2>5
    <3>3. stores[n] = StoreUpgrades
      BY <2>2, <3>2 DEF IInv, InfoIsDone
    <3>4. QED
      BY <2>3, <3>1, <3>3 DEF LoadOK
  <2>6. QED
    BY <2>4, <2>5
<1>2. QED
  BY <1>1, InvCorrect, PTL
=============================================================================
