----------------------- MODULE ZeroHeightExportProofs -----------------------
(***************************************************************************)
(* What the genesis for height zero holds, proved for every number of      *)
(* validators, delegations and entries, every committed state and every    *)
(* list of allowed addresses.  prepForZeroHeightGenesis is one pass of     *)
(* loops, some of whose errors it drops: the invariant says what each loop *)
(* has rewritten so far, and which records a dropped error leaves behind.  *)
(***************************************************************************)
EXTENDS ZeroHeightExport, FoldTheorems

\* The types, except for the amounts, which are sums.
Shape ==
    /\ pc \in Parts
    /\ at \in Nat
    /\ ctxHeight \in 0 .. Last /\ savedHeight \in 0 .. Last
    /\ request \in [forZeroHeight : BOOLEAN, allowed : AllowLists]
    /\ staking \in [power : [Validators -> Powers], jailed : SUBSET Validators,
                    index : SUBSET Validators, bonded : SUBSET Validators]
    /\ heights \in [unbonding : [Validators -> 0 .. Last], signing : [Validators -> 0 .. Last],
                    entry : [Entries -> 0 .. Last], starting : [Delegations -> 0 .. Last],
                    slash : SUBSET (1 .. Last)]
    /\ "outstanding" \in DOMAIN distr /\ DOMAIN distr.outstanding = Validators
    /\ reference \in [Validators -> Nat]

\* The preparation for height zero runs one of these parts, or is complete.
PreparedUpTo(parts) ==
    \/ pc \in parts
    \/ pc \in {"write", "exported"} /\ request.forZeroHeight /\ ~closeFailed

HistoryCleared ==
    PreparedUpTo({"validators", "delegations", "entries", "jail", "close", "apply", "signing"})
        => heights.slash = {}

AtHeightZero == pc \in {"validators", "delegations"} => ctxHeight = 0

Renewed(v) == distr.outstanding[v] = 0 /\ reference[v] > 0

\* The iteration over the validators ended before it came to v.
LeftOut(v) == <<"reinit", v>> \in failed

\* A validator that was left out has no record to refer to, so the first
\* delegation to it ends the export.
ValidatorsRenewed ==
    /\ pc = "validators" =>
         \A v \in Validators : IF v <= at THEN Renewed(v) ELSE reference[v] = 0
    /\ pc = "delegations" =>
         /\ \A v \in Validators : Renewed(v) \/ (reference[v] = 0 /\ LeftOut(v))
         /\ \A d \in Delegations : d <= at => Renewed(ValidatorOf[d])
    /\ PreparedUpTo({"entries", "jail", "close", "apply", "signing"}) =>
         /\ \A v \in Validators : Renewed(v) \/ LeftOut(v)
         /\ \A d \in Delegations : Renewed(ValidatorOf[d])

DelegationsRenewed ==
    /\ pc = "delegations" => \A d \in Delegations : d <= at => heights.starting[d] = 0
    /\ PreparedUpTo({"entries", "jail", "close", "apply", "signing"}) =>
         \A d \in Delegations : heights.starting[d] = 0

EntriesReset ==
    PreparedUpTo({"jail", "close", "apply", "signing"}) =>
        \A e \in Entries : heights.entry[e] = 0

Visited(v) ==
    /\ heights.unbonding[v] = 0
    /\ request.allowed # {} /\ v \notin request.allowed => v \in staking.jailed

ValidatorsVisited ==
    /\ pc = "jail" => \A v \in Validators : v > N - at => Visited(v)
    /\ PreparedUpTo({"close", "apply", "signing"}) => \A v \in Validators : Visited(v)

\* Jailing leaves the power index alone, so the bonded validators stay those
\* of most power and none of them starts to unbond.
BondedAreTop == staking.bonded = TopValidators(staking)

ReachedAreFree == PreparedUpTo({"signing"}) => Reached(staking) \cap staking.jailed = {}

SigningReset ==
    PreparedUpTo({}) =>
        \A v \in Validators : heights.signing[v] # 0 => <<"signing", v>> \in failed

IInv ==
    /\ Shape
    /\ HistoryCleared /\ AtHeightZero /\ ValidatorsRenewed /\ DelegationsRenewed
    /\ EntriesReset /\ ValidatorsVisited /\ BondedAreTop /\ ReachedAreFree /\ SigningReset

\* The amounts, and what the loops that move them have done.
Amounts ==
    /\ owed \in [commission : [Validators -> Nat], reward : [Delegations -> Nat]]
    /\ distr \in [outstanding : [Validators -> Nat], pool : Nat, balance : Nat]

\* Until the validators are given new records, what is outstanding is what
\* the withdrawals have left of their commissions and rewards.
OutstandingIsOwed ==
    pc \in {"load", "prepare", "commission", "rewards", "clear"} =>
        \A v \in Validators : distr.outstanding[v] = TotalOwed(owed, v)

\* A withdrawal leaves less than a coin of a commission, nothing of a reward.
FractionsLeft ==
    failed = {} =>
        /\ pc = "commission" =>
             \A v \in Validators : v <= at => owed.commission[v] < Unit
        /\ pc \in {"rewards", "clear"} =>
             \A v \in Validators : owed.commission[v] < Unit
        /\ pc = "rewards" => \A d \in Delegations : d <= at => owed.reward[d] = 0
        /\ pc = "clear" => \A d \in Delegations : owed.reward[d] = 0
        /\ pc = "validators" => \A v \in Validators : distr.outstanding[v] < Unit

\* The counters of the loops and the observations.
Counted ==
    /\ at <= N + Len(ValidatorOf)
    /\ failed \subseteq Failures
    /\ closeFailed \in BOOLEAN

Books ==
    /\ Shape /\ Amounts /\ Counted
    /\ OutstandingIsOwed /\ NothingLost /\ FractionsLeft

-----------------------------------------------------------------------------
\* The power index is read the same way whatever is jailed or bonded.
LEMMA SameTop ==
  ASSUME NEW s, NEW t, s.index = t.index, s.power = t.power
  PROVE  Reached(s) = Reached(t) /\ TopValidators(s) = TopValidators(t)
<1>1. \A v : Rank(v, s) = Rank(v, t)
  BY DEF Rank
<1>2. Reached(s) = Reached(t)
  BY <1>1 DEF Reached
<1>3. QED
  BY <1>2 DEF TopValidators

\* The pass over the power index bonds validators of the index only.
LEMMA TopInIndex ==
  ASSUME NEW s
  PROVE  TopValidators(s) \subseteq Reached(s) /\ Reached(s) \subseteq s.index
BY DEF TopValidators, Reached

\* The loops have as many items as there are validators and delegations.
LEMMA Sizes ==
  /\ N \in Nat /\ N > 0 /\ Len(ValidatorOf) \in Nat /\ Len(ValidatorOf) > 0
  /\ Delegations = 1 .. Len(ValidatorOf)
  /\ \A d \in Delegations : ValidatorOf[d] \in Validators
<1>1. N \in Nat /\ N > 0
  BY NAssumption
<1>2. ValidatorOf \in Seq(Validators) /\ ValidatorOf # <<>>
  BY DelegationsAssumption DEF Validators
<1>3. QED
  BY <1>1, <1>2 DEF Delegations

\* Heights of the old chain are not the marker of the latest one.
LEMMA LastHeights ==
  /\ 0 \in 0 .. Last /\ 1 \in 0 .. Last /\ Last \in 0 .. Last
  /\ 1 .. 1 \subseteq 1 .. Last
  /\ \A h \in 1 .. Last : h \in 0 .. Last /\ h # Latest
<1>1. Last \in Nat \ {0}
  BY HeightAssumption
<1>2. Last \in Nat /\ Last >= 1
  BY <1>1
<1>3. QED
  BY <1>2 DEF Latest

(***************************************************************************)
(* A loop takes its next item or ends.                                     *)
(***************************************************************************)
LEMMA LoopMoves ==
  ASSUME at \in Nat, NEW n \in Nat, NEW following, NextItem(n, following)
  PROVE  /\ at + 1 \in 1 .. n /\ at' \in Nat
         /\ \/ (at + 1 = n /\ pc' = following /\ at' = 0)
            \/ (at + 1 # n /\ pc' = pc /\ at' = at + 1)
BY DEF NextItem

-----------------------------------------------------------------------------
(***************************************************************************)
(* Every step preserves the types.                                         *)
(***************************************************************************)
LEMMA ShapeStep == Shape /\ [Next]_vars => Shape'
<1> SUFFICES ASSUME Shape, [Next]_vars PROVE Shape'
  OBVIOUS
<1>1. ASSUME NEW how \in Parts, Stop(how) PROVE Shape'
  BY <1>1 DEF Stop, GoTo, Shape, context, money
<1>2. CASE \E h \in Heights : AppExport(h)
  <2>1. PICK h \in Heights : AppExport(h)
    BY <1>2
  <2>2. CASE Stop("error")
    BY <1>1, <2>2 DEF Parts
  <2>3. CASE ~ Stop("error")
    <3>1. /\ pc' \in {"prepare", "write"} /\ at' = 0
          /\ ctxHeight' = (IF h = Latest THEN Last ELSE h) /\ h \in {Latest} \cup 1 .. Last
          /\ UNCHANGED <<savedHeight, request, staking, heights, distr, reference>>
      BY <2>1, <2>3 DEF AppExport, GoTo, money
    <3>2. ctxHeight' \in 0 .. Last
      <4>1. CASE h = Latest
        BY <3>1, <4>1, LastHeights
      <4>2. CASE h # Latest
        BY <3>1, <4>2, LastHeights
      <4>3. QED
        BY <4>1, <4>2
    <3>3. QED
      BY <3>1, <3>2 DEF Shape, Parts
  <2>4. QED
    BY <2>2, <2>3
<1>3. CASE CheckInvariants \/ StoreFails \/ KeeperPanics \/ WriteGenesis
  BY <1>1, <1>3 DEF CheckInvariants, StoreFails, KeeperPanics, WriteGenesis, Parts
<1>4. CASE WithdrawValidatorCommission
  <2>1. /\ UNCHANGED <<ctxHeight, savedHeight, request, staking, heights, reference>>
        /\ "outstanding" \in DOMAIN distr' /\ DOMAIN distr'.outstanding = Validators
    BY <1>4 DEF WithdrawValidatorCommission, Pays, Shape, context
  <2>2. at' \in Nat /\ pc' \in Parts
    BY <1>4, Sizes, LoopMoves DEF WithdrawValidatorCommission, Shape, Parts
  <2>3. QED
    BY <2>1, <2>2 DEF Shape
<1>5. CASE WithdrawDelegationRewards
  <2>1. /\ UNCHANGED <<ctxHeight, savedHeight, request, staking, reference>>
        /\ "outstanding" \in DOMAIN distr' /\ DOMAIN distr'.outstanding = Validators
    BY <1>5 DEF WithdrawDelegationRewards, Pays, Shape, context
  <2>2. at' \in Nat /\ pc' \in Parts
    BY <1>5, Sizes, LoopMoves DEF WithdrawDelegationRewards, Shape, Parts
  <2>3. heights' = heights \/ heights' = [heights EXCEPT !.starting[at + 1] = ctxHeight]
    BY <1>5 DEF WithdrawDelegationRewards
  <2>4. QED
    BY <2>1, <2>2, <2>3 DEF Shape
<1>6. CASE ClearHistory
  BY <1>6, LastHeights DEF ClearHistory, SetHeightZero, GoTo, Shape, Parts
<1>7. CASE ReinitValidator
  <2>1. /\ UNCHANGED <<ctxHeight, savedHeight, request, staking, heights>>
        /\ "outstanding" \in DOMAIN distr' /\ DOMAIN distr'.outstanding = Validators
        /\ reference' = [reference EXCEPT ![at + 1] = 1]
    BY <1>7 DEF ReinitValidator, Donate, Shape, context
  <2>2. at' \in Nat /\ pc' \in Parts
    BY <1>7, Sizes, LoopMoves DEF ReinitValidator, Shape, Parts
  <2>3. QED
    BY <2>1, <2>2 DEF Shape
<1>8. CASE ReinitDelegation
  <2>1. /\ UNCHANGED <<savedHeight, request, staking, distr>>
        /\ ctxHeight' \in {savedHeight, ctxHeight}
        /\ heights' = [heights EXCEPT !.starting[at + 1] = ctxHeight]
        /\ reference' = [reference EXCEPT ![ValidatorOf[at + 1]] = 2]
    BY <1>8 DEF ReinitDelegation
  <2>2. at' \in Nat /\ pc' \in Parts
    BY <1>8, Sizes, LoopMoves DEF ReinitDelegation, Shape, Parts
  <2>3. QED
    BY <2>1, <2>2 DEF Shape
<1>9. CASE ResetEntries
  BY <1>9, LastHeights DEF ResetEntries, GoTo, Shape, Parts, context, money
<1>10. CASE ResetValidator
  <2>1. N - at \in Validators
    BY <1>10, Sizes DEF ResetValidator, NextItem, Shape, Validators
  <2>2. /\ UNCHANGED <<ctxHeight, savedHeight, request, distr, reference>>
        /\ heights' = [heights EXCEPT !.unbonding[N - at] = 0]
        /\ staking' \in {staking, [staking EXCEPT !.jailed = @ \cup {N - at}]}
    BY <1>10 DEF ResetValidator, Jail, context, money
  <2>3. at' \in Nat /\ pc' \in Parts
    BY <1>10, Sizes, LoopMoves DEF ResetValidator, Shape, Parts
  <2>4. QED
    BY <2>1, <2>2, <2>3, LastHeights DEF Shape
<1>11. CASE \E err \in BOOLEAN : CloseIterator(err)
  BY <1>11 DEF CloseIterator, GoTo, Shape, Parts, context, money
<1>12. CASE ApplyAndReturnValidatorSetUpdates
  <2>1. TopValidators(staking) \subseteq Validators
    BY TopInIndex DEF Shape
  <2>2. /\ pc' = "signing" /\ at' = 0
        /\ UNCHANGED <<ctxHeight, savedHeight, request, distr, reference>>
        /\ staking' = [staking EXCEPT !.bonded = TopValidators(staking)]
        /\ heights' = [heights EXCEPT !.unbonding =
                          [v \in Validators |-> IF v \in staking.bonded \ TopValidators(staking)
                                                THEN ctxHeight ELSE @[v]]]
    BY <1>12 DEF ApplyAndReturnValidatorSetUpdates, GoTo, context, money
  <2>3. QED
    BY <2>1, <2>2 DEF Shape, Parts
<1>13. CASE ResetSigningInfos
  <2>1. PICK kept \in SUBSET Validators :
            heights' = [heights EXCEPT !.signing =
                          [v \in Validators |-> IF v \in kept THEN @[v] ELSE 0]]
    BY <1>13 DEF ResetSigningInfos
  <2>2. /\ pc' = "write" /\ at' = 0
        /\ UNCHANGED <<ctxHeight, savedHeight, request, staking, distr, reference>>
    BY <1>13 DEF ResetSigningInfos, GoTo, context, money
  <2>3. QED
    BY <2>1, <2>2, LastHeights DEF Shape, Parts
<1>14. CASE UNCHANGED vars
  BY <1>14 DEF vars, context, money, Shape
<1>16. CASE ReinitValidatorsFails
  BY <1>16 DEF ReinitValidatorsFails, GoTo, Shape, Parts, context, money
<1>15. QED
  BY <1>2, <1>3, <1>4, <1>5, <1>6, <1>7, <1>8, <1>9, <1>10, <1>11, <1>12, <1>13, <1>14,
     <1>16 DEF Next

-----------------------------------------------------------------------------
(***************************************************************************)
(* The parts before the records are rewritten, and the ways to stop: the   *)
(* invariant asks nothing of them but the bonded validators.               *)
(***************************************************************************)
LEMMA EarlyStep ==
  ASSUME IInv, UNCHANGED staking,
         \/ pc' \in {"prepare", "commission", "rewards", "clear", "error", "fatal"}
         \/ pc' = "write" /\ ~ request'.forZeroHeight
  PROVE  /\ HistoryCleared' /\ AtHeightZero' /\ ValidatorsRenewed' /\ DelegationsRenewed'
         /\ EntriesReset' /\ ValidatorsVisited' /\ BondedAreTop' /\ ReachedAreFree'
         /\ SigningReset'
<1>1. /\ ~ PreparedUpTo({"validators", "delegations", "entries", "jail", "close", "apply",
                          "signing"})'
      /\ ~ PreparedUpTo({"entries", "jail", "close", "apply", "signing"})'
      /\ ~ PreparedUpTo({"jail", "close", "apply", "signing"})'
      /\ ~ PreparedUpTo({"close", "apply", "signing"})'
      /\ ~ PreparedUpTo({"signing"})'
      /\ ~ PreparedUpTo({})'
      /\ pc' \notin {"validators", "delegations", "jail"}
  BY DEF PreparedUpTo
<1>2. BondedAreTop'
  BY DEF IInv, BondedAreTop
<1>3. QED
  BY <1>1, <1>2 DEF HistoryCleared, AtHeightZero, ValidatorsRenewed, DelegationsRenewed,
     EntriesReset, ValidatorsVisited, ReachedAreFree, SigningReset

\* The steps before the records are cleared rewrite amounts only.
LEMMA BeforeClear ==
  ASSUME IInv, \/ \E h \in Heights : AppExport(h)
               \/ CheckInvariants \/ WithdrawValidatorCommission \/ WithdrawDelegationRewards
               \/ StoreFails \/ KeeperPanics
  PROVE  /\ UNCHANGED staking
         /\ \/ pc' \in {"prepare", "commission", "rewards", "clear", "error", "fatal"}
            \/ pc' = "write" /\ ~ request'.forZeroHeight
<1>1. CASE \E h \in Heights : AppExport(h)
  BY <1>1 DEF AppExport, GoTo, Stop, IInv, Shape
<1>2. CASE CheckInvariants \/ StoreFails \/ KeeperPanics
  BY <1>2 DEF CheckInvariants, StoreFails, KeeperPanics, Stop, GoTo
<1>3. CASE WithdrawValidatorCommission \/ WithdrawDelegationRewards
  BY <1>3 DEF WithdrawValidatorCommission, WithdrawDelegationRewards, NextItem
<1>4. QED
  BY <1>1, <1>2, <1>3

(***************************************************************************)
(* The distribution state.                                                 *)
(***************************************************************************)
LEMMA DistributionStep ==
  ASSUME IInv, ClearHistory \/ ReinitValidator \/ ReinitValidatorsFails \/ ReinitDelegation
  PROVE  /\ HistoryCleared' /\ AtHeightZero' /\ ValidatorsRenewed' /\ DelegationsRenewed'
         /\ EntriesReset' /\ ValidatorsVisited' /\ BondedAreTop' /\ ReachedAreFree'
         /\ SigningReset'
<1>1. staking' = staking /\ pc' \in {"validators", "delegations", "entries"}
  BY DEF ClearHistory, ReinitValidator, ReinitValidatorsFails, ReinitDelegation, GoTo,
         NextItem
<1>2. BondedAreTop'
  BY <1>1 DEF IInv, BondedAreTop
<1>3. EntriesReset' /\ ValidatorsVisited' /\ ReachedAreFree' /\ SigningReset'
  <2>1. /\ ~ PreparedUpTo({"jail", "close", "apply", "signing"})'
        /\ ~ PreparedUpTo({"close", "apply", "signing"})'
        /\ ~ PreparedUpTo({"signing"})' /\ ~ PreparedUpTo({})' /\ pc' # "jail"
    BY <1>1 DEF PreparedUpTo
  <2>2. QED
    BY <2>1 DEF EntriesReset, ValidatorsVisited, ReachedAreFree, SigningReset
<1>4. heights'.slash = {}
  <2>1. CASE ClearHistory
    BY <2>1 DEF ClearHistory, IInv, Shape
  <2>2. CASE ReinitValidator \/ ReinitValidatorsFails \/ ReinitDelegation
    <3>1. heights.slash = {}
      BY <2>2 DEF ReinitValidator, ReinitValidatorsFails, ReinitDelegation, IInv,
                  HistoryCleared, PreparedUpTo
    <3>2. QED
      BY <2>2, <3>1 DEF ReinitValidator, ReinitValidatorsFails, ReinitDelegation, IInv, Shape
  <2>3. QED
    BY <2>1, <2>2
<1>5. HistoryCleared'
  BY <1>4 DEF HistoryCleared
<1>6. pc' # "entries" => ~ PreparedUpTo({"entries", "jail", "close", "apply", "signing"})'
  BY <1>1 DEF PreparedUpTo
<1>7. CASE ClearHistory
  <2>1. pc' = "validators" /\ at' = 0 /\ ctxHeight' = 0 /\ reference' = [v \in Validators |-> 0]
    BY <1>7 DEF ClearHistory, GoTo, SetHeightZero
  <2>2. \A v \in Validators : ~(v <= 0)
    BY Sizes DEF Validators
  <2>3. ValidatorsRenewed' /\ DelegationsRenewed' /\ AtHeightZero'
    BY <1>6, <2>1, <2>2 DEF ValidatorsRenewed, DelegationsRenewed, AtHeightZero
  <2>4. QED
    BY <1>2, <1>3, <1>5, <2>3
<1>8. CASE ReinitValidatorsFails
  <2>1. /\ pc = "validators" /\ pc' = "delegations" /\ at' = 0
        /\ UNCHANGED <<ctxHeight, reference, distr>>
        /\ failed' = failed \cup {<<"reinit", v>> : v \in at + 1 .. N}
    BY <1>8 DEF ReinitValidatorsFails, GoTo, context, money
  <2>2. \A d \in Delegations : ~(d <= 0)
    BY Sizes
  <2>3. \A v \in Validators : IF v <= at THEN Renewed(v) ELSE reference[v] = 0
    BY <2>1 DEF IInv, ValidatorsRenewed
  <2>4. \A v \in Validators : Renewed(v)' \/ (reference'[v] = 0 /\ LeftOut(v)')
    <3> SUFFICES ASSUME NEW v \in Validators
                 PROVE  Renewed(v)' \/ (reference'[v] = 0 /\ LeftOut(v)')
      OBVIOUS
    <3>1. CASE v <= at
      BY <2>1, <2>3, <3>1 DEF Renewed
    <3>2. CASE ~(v <= at)
      <4>1. v \in at + 1 .. N
        BY <3>2, Sizes DEF Validators, IInv, Shape
      <4>2. LeftOut(v)'
        BY <2>1, <4>1 DEF LeftOut
      <4>3. QED
        BY <2>1, <2>3, <3>2, <4>2
    <3>3. QED
      BY <3>1, <3>2
  <2>5. ValidatorsRenewed' /\ DelegationsRenewed' /\ AtHeightZero'
    BY <1>6, <2>1, <2>2, <2>4 DEF IInv, ValidatorsRenewed, DelegationsRenewed, AtHeightZero
  <2>6. QED
    BY <1>2, <1>3, <1>5, <2>5
<1>9. CASE ReinitValidator
  <2>1. /\ pc = "validators" /\ ctxHeight' = ctxHeight /\ at + 1 \in 1 .. N
        /\ \/ (at + 1 = N /\ pc' = "delegations" /\ at' = 0)
           \/ (at + 1 # N /\ pc' = "validators" /\ at' = at + 1)
    BY <1>9, Sizes, LoopMoves DEF ReinitValidator, IInv, Shape, context
  <2>2. at \in Nat /\ at + 1 \in Validators
    BY <2>1 DEF IInv, Shape, Validators
  <2>3. /\ reference' = [reference EXCEPT ![at + 1] = 1]
        /\ distr'.outstanding = [distr.outstanding EXCEPT ![at + 1] = 0]
    BY <1>9 DEF ReinitValidator, Donate, IInv, Shape
  <2>4. reference \in [Validators -> Nat] /\ DOMAIN distr.outstanding = Validators
    BY DEF IInv, Shape
  <2>5. \A v \in Validators : IF v <= at THEN Renewed(v) ELSE reference[v] = 0
    BY <2>1 DEF IInv, ValidatorsRenewed
  <2>6. \A v \in Validators : IF v <= at + 1 THEN Renewed(v)' ELSE reference'[v] = 0
    <3> SUFFICES ASSUME NEW v \in Validators
                 PROVE  IF v <= at + 1 THEN Renewed(v)' ELSE reference'[v] = 0
      OBVIOUS
    <3>1. CASE v = at + 1
      BY <2>2, <2>3, <2>4, <3>1 DEF Renewed
    <3>2. CASE v # at + 1
      <4>1. reference'[v] = reference[v] /\ distr'.outstanding[v] = distr.outstanding[v]
        BY <2>3, <2>4, <3>2
      <4>2. v \in Nat /\ (v <= at <=> v <= at + 1)
        BY <2>2, <3>2 DEF Validators
      <4>3. QED
        BY <2>5, <4>1, <4>2 DEF Renewed
    <3>3. QED
      BY <3>1, <3>2
  <2>7. AtHeightZero'
    BY <2>1 DEF IInv, AtHeightZero
  <2>8. CASE at + 1 = N /\ pc' = "delegations" /\ at' = 0
    <3>1. \A v \in Validators : Renewed(v)'
      BY <2>6, <2>8 DEF Validators
    <3>2. \A d \in Delegations : ~(d <= 0)
      BY Sizes
    <3>3. ValidatorsRenewed' /\ DelegationsRenewed'
      BY <1>6, <2>8, <3>1, <3>2 DEF ValidatorsRenewed, DelegationsRenewed
    <3>4. QED
      BY <1>2, <1>3, <1>5, <2>7, <3>3
  <2>9. CASE at + 1 # N /\ pc' = "validators" /\ at' = at + 1
    <3>1. ValidatorsRenewed' /\ DelegationsRenewed'
      BY <1>6, <2>6, <2>9 DEF ValidatorsRenewed, DelegationsRenewed
    <3>2. QED
      BY <1>2, <1>3, <1>5, <2>7, <3>1
  <2>10. QED
    BY <2>1, <2>8, <2>9
<1>10. CASE ReinitDelegation
  <2> DEFINE L == Len(ValidatorOf)
  <2>1. /\ pc = "delegations" /\ at + 1 \in 1 .. L
        /\ \/ (at + 1 = L /\ pc' = "entries" /\ at' = 0)
           \/ (at + 1 # L /\ pc' = "delegations" /\ at' = at + 1)
    BY <1>10, Sizes, LoopMoves DEF ReinitDelegation, IInv, Shape
  <2>2. at \in Nat /\ at + 1 \in Delegations /\ ValidatorOf[at + 1] \in Validators
    BY <2>1, Sizes DEF IInv, Shape
  <2>3. /\ reference' = [reference EXCEPT ![ValidatorOf[at + 1]] = 2]
        /\ heights'.starting = [heights.starting EXCEPT ![at + 1] = ctxHeight]
        /\ distr' = distr /\ failed' = failed
        /\ reference[ValidatorOf[at + 1]] > 0
        /\ ctxHeight' = IF at + 1 = L THEN savedHeight ELSE ctxHeight
    BY <1>10 DEF ReinitDelegation, observed, IInv, Shape
  <2>4. ctxHeight = 0 /\ reference \in [Validators -> Nat]
        /\ heights.starting \in [Delegations -> Nat]
    BY <2>1 DEF IInv, Shape, AtHeightZero
  <2>10. \A v \in Validators : Renewed(v) => Renewed(v)'
    BY <2>2, <2>3, <2>4 DEF Renewed
  <2>5. \A v \in Validators : Renewed(v)' \/ (reference'[v] = 0 /\ LeftOut(v)')
    <3> SUFFICES ASSUME NEW v \in Validators, ~ Renewed(v)
                 PROVE  reference'[v] = 0 /\ LeftOut(v)'
      BY <2>10
    <3>1. reference[v] = 0 /\ LeftOut(v)
      BY <2>1 DEF IInv, ValidatorsRenewed
    <3>2. v # ValidatorOf[at + 1]
      BY <2>3, <3>1
    <3>3. QED
      BY <2>3, <2>4, <3>1, <3>2 DEF LeftOut
  <2>11. \A d \in Delegations : d <= at + 1 => Renewed(ValidatorOf[d])'
    <3> SUFFICES ASSUME NEW d \in Delegations, d <= at + 1 PROVE Renewed(ValidatorOf[d])'
      OBVIOUS
    <3>1. CASE d = at + 1
      <4>1. Renewed(ValidatorOf[d])
        BY <2>1, <2>2, <2>3, <3>1 DEF IInv, ValidatorsRenewed
      <4>2. QED
        BY <2>2, <2>10, <3>1, <4>1
    <3>2. CASE d # at + 1
      <4>1. d <= at
        BY <2>2, <3>2, Sizes
      <4>2. Renewed(ValidatorOf[d])
        BY <2>1, <4>1 DEF IInv, ValidatorsRenewed
      <4>3. QED
        BY <2>10, <4>2, Sizes
    <3>3. QED
      BY <3>1, <3>2
  <2>6. \A d \in Delegations : d <= at + 1 => heights'.starting[d] = 0
    <3> SUFFICES ASSUME NEW d \in Delegations, d <= at + 1 PROVE heights'.starting[d] = 0
      OBVIOUS
    <3>1. CASE d = at + 1
      BY <2>2, <2>3, <2>4, <3>1
    <3>2. CASE d # at + 1
      <4>1. d <= at
        BY <2>2, <3>2, Sizes
      <4>2. heights.starting[d] = 0
        BY <2>1, <4>1 DEF IInv, DelegationsRenewed
      <4>3. QED
        BY <2>3, <2>4, <3>2, <4>2
    <3>3. QED
      BY <3>1, <3>2
  <2>7. CASE at + 1 = L /\ pc' = "entries" /\ at' = 0
    <3>1. \A d \in Delegations : heights'.starting[d] = 0 /\ Renewed(ValidatorOf[d])'
      BY <2>6, <2>7, <2>11, Sizes
    <3>2. ValidatorsRenewed' /\ DelegationsRenewed' /\ AtHeightZero'
      BY <2>5, <2>7, <3>1 DEF ValidatorsRenewed, DelegationsRenewed, AtHeightZero
    <3>3. QED
      BY <1>2, <1>3, <1>5, <3>2
  <2>8. CASE at + 1 # L /\ pc' = "delegations" /\ at' = at + 1
    <3>1. ValidatorsRenewed' /\ DelegationsRenewed' /\ AtHeightZero'
      BY <1>6, <2>3, <2>4, <2>5, <2>6, <2>8, <2>11
         DEF ValidatorsRenewed, DelegationsRenewed, AtHeightZero
    <3>2. QED
      BY <1>2, <1>3, <1>5, <3>1
  <2>9. QED
    BY <2>1, <2>7, <2>8
<1>11. QED
  BY <1>7, <1>8, <1>9, <1>10

(***************************************************************************)
(* The staking and slashing state, and the genesis that is written.        *)
(***************************************************************************)
LEMMA StakingStep ==
  ASSUME IInv, \/ ResetEntries \/ ResetValidator \/ (\E err \in BOOLEAN : CloseIterator(err))
               \/ ApplyAndReturnValidatorSetUpdates \/ ResetSigningInfos \/ WriteGenesis
  PROVE  /\ HistoryCleared' /\ AtHeightZero' /\ ValidatorsRenewed' /\ DelegationsRenewed'
         /\ EntriesReset' /\ ValidatorsVisited' /\ BondedAreTop' /\ ReachedAreFree'
         /\ SigningReset'
<1> DEFINE Rewritten == PreparedUpTo({"entries", "jail", "close", "apply", "signing"})
<1>1. /\ UNCHANGED <<request, distr, reference>> /\ failed \subseteq failed'
      /\ heights'.slash = heights.slash /\ heights'.starting = heights.starting
  <2>1. UNCHANGED <<request, distr, reference>> /\ failed \subseteq failed'
    BY DEF ResetEntries, ResetValidator, CloseIterator, ApplyAndReturnValidatorSetUpdates,
           ResetSigningInfos, WriteGenesis, Stop, context, money, observed
  <2>2. heights'.slash = heights.slash /\ heights'.starting = heights.starting
    BY DEF ResetEntries, ResetValidator, CloseIterator, ApplyAndReturnValidatorSetUpdates,
           ResetSigningInfos, WriteGenesis, Stop, IInv, Shape
  <2>3. QED
    BY <2>1, <2>2
<1>2. /\ pc' \notin {"validators", "delegations", "entries"}
      /\ Rewritten' => Rewritten
  <2>1. CASE ResetEntries \/ ResetValidator \/ ApplyAndReturnValidatorSetUpdates \/ ResetSigningInfos
    BY <2>1 DEF ResetEntries, ResetValidator, ApplyAndReturnValidatorSetUpdates,
                ResetSigningInfos, GoTo, NextItem, PreparedUpTo
  <2>2. CASE (\E err \in BOOLEAN : CloseIterator(err)) \/ WriteGenesis
    BY <2>2 DEF CloseIterator, WriteGenesis, Stop, GoTo, context, observed, PreparedUpTo
  <2>3. QED
    BY <2>1, <2>2
<1>3. HistoryCleared' /\ AtHeightZero' /\ ValidatorsRenewed' /\ DelegationsRenewed'
  <2>1. PreparedUpTo({"validators", "delegations", "entries", "jail", "close", "apply",
                      "signing"})' => Rewritten'
    BY <1>2 DEF PreparedUpTo
  <2>2. Rewritten => heights.slash = {}
    BY DEF IInv, HistoryCleared, PreparedUpTo
  <2>3. HistoryCleared'
    BY <1>1, <1>2, <2>1, <2>2 DEF HistoryCleared
  <2>4. ValidatorsRenewed' /\ DelegationsRenewed' /\ AtHeightZero'
    BY <1>1, <1>2 DEF IInv, ValidatorsRenewed, DelegationsRenewed, AtHeightZero, Renewed,
                      LeftOut
  <2>5. QED
    BY <2>3, <2>4
<1>4. CASE ResetEntries
  <2>1. pc' = "jail" /\ at' = 0 /\ staking' = staking
    BY <1>4 DEF ResetEntries, GoTo
  <2>2. heights'.entry = [e \in Entries |-> 0]
    BY <1>4 DEF ResetEntries, IInv, Shape
  <2>3. EntriesReset'
    BY <2>2 DEF EntriesReset
  <2>4. /\ ~ PreparedUpTo({"close", "apply", "signing"})'
        /\ ~ PreparedUpTo({"signing"})' /\ ~ PreparedUpTo({})'
    BY <2>1 DEF PreparedUpTo
  <2>5. \A v \in Validators : ~(v > N - 0)
    BY Sizes DEF Validators
  <2>6. ValidatorsVisited' /\ BondedAreTop' /\ ReachedAreFree' /\ SigningReset'
    BY <2>1, <2>4, <2>5 DEF IInv, ValidatorsVisited, BondedAreTop, ReachedAreFree, SigningReset
  <2>7. QED
    BY <1>3, <2>3, <2>6
<1>5. CASE ResetValidator
  <2>1. /\ pc = "jail" /\ at + 1 \in 1 .. N
        /\ \/ (at + 1 = N /\ pc' = "close" /\ at' = 0)
           \/ (at + 1 # N /\ pc' = "jail" /\ at' = at + 1)
    BY <1>5, Sizes, LoopMoves DEF ResetValidator, IInv, Shape
  <2>2. at \in Nat /\ N \in Nat /\ N - at \in Validators
    BY <2>1, Sizes DEF IInv, Shape, Validators
  <2>3. /\ heights'.unbonding = [heights.unbonding EXCEPT ![N - at] = 0]
        /\ heights'.entry = heights.entry
        /\ staking' = IF request.allowed # {} /\ N - at \notin request.allowed
                      THEN Jail(staking, N - at) ELSE staking
    BY <1>5 DEF ResetValidator, IInv, Shape
  <2>4. /\ staking'.index = staking.index /\ staking'.power = staking.power
        /\ staking'.bonded = staking.bonded /\ staking.jailed \subseteq staking'.jailed
        /\ request.allowed # {} /\ N - at \notin request.allowed => N - at \in staking'.jailed
    BY <2>3 DEF Jail, IInv, Shape
  <2>5. BondedAreTop'
    BY <2>4, SameTop DEF IInv, BondedAreTop
  <2>6. EntriesReset'
    <3>1. PreparedUpTo({"jail", "close", "apply", "signing"})
      BY <2>1 DEF PreparedUpTo
    <3>2. QED
      BY <2>3, <3>1 DEF IInv, EntriesReset
  <2>7. \A v \in Validators : v > N - (at + 1) => Visited(v)'
    <3> SUFFICES ASSUME NEW v \in Validators, v > N - (at + 1) PROVE Visited(v)'
      OBVIOUS
    <3>1. heights.unbonding \in [Validators -> Nat]
      BY DEF IInv, Shape
    <3>2. CASE v = N - at
      BY <1>1, <2>2, <2>3, <2>4, <3>1, <3>2 DEF Visited
    <3>3. CASE v # N - at
      <4>1. v > N - at
        BY <2>2, <3>3 DEF Validators
      <4>2. Visited(v)
        BY <2>1, <4>1 DEF IInv, ValidatorsVisited
      <4>3. QED
        BY <1>1, <2>3, <2>4, <3>1, <3>3, <4>2 DEF Visited
    <3>4. QED
      BY <3>2, <3>3
  <2>8. ~ PreparedUpTo({"signing"})' /\ ~ PreparedUpTo({})'
    BY <2>1 DEF PreparedUpTo
  <2>9. ReachedAreFree' /\ SigningReset'
    BY <2>8 DEF ReachedAreFree, SigningReset
  <2>10. CASE at + 1 = N /\ pc' = "close" /\ at' = 0
    <3>1. \A v \in Validators : v > N - (at + 1)
      BY <2>2, <2>10 DEF Validators
    <3>2. ValidatorsVisited'
      BY <2>7, <2>10, <3>1 DEF ValidatorsVisited
    <3>3. QED
      BY <1>3, <2>5, <2>6, <2>9, <3>2
  <2>11. CASE at + 1 # N /\ pc' = "jail" /\ at' = at + 1
    <3>1. ~ PreparedUpTo({"close", "apply", "signing"})'
      BY <2>11 DEF PreparedUpTo
    <3>2. ValidatorsVisited'
      BY <2>7, <2>11, <3>1 DEF ValidatorsVisited
    <3>3. QED
      BY <1>3, <2>5, <2>6, <2>9, <3>2
  <2>12. QED
    BY <2>1, <2>10, <2>11
<1>6. CASE (\E err \in BOOLEAN : CloseIterator(err)) \/ WriteGenesis
  <2>1. UNCHANGED <<staking, heights>> /\ pc' # "jail"
    BY <1>6 DEF CloseIterator, WriteGenesis, Stop, GoTo
  <2>2. /\ PreparedUpTo({"jail", "close", "apply", "signing"})' =>
             PreparedUpTo({"jail", "close", "apply", "signing"})
        /\ PreparedUpTo({"close", "apply", "signing"})' =>
             PreparedUpTo({"close", "apply", "signing"})
        /\ PreparedUpTo({"signing"})' => PreparedUpTo({"signing"})
        /\ PreparedUpTo({})' => PreparedUpTo({})
    BY <1>6 DEF CloseIterator, WriteGenesis, Stop, GoTo, context, observed, PreparedUpTo
  <2>3. EntriesReset' /\ BondedAreTop' /\ ReachedAreFree' /\ SigningReset'
    BY <1>1, <2>1, <2>2 DEF IInv, EntriesReset, BondedAreTop, ReachedAreFree, SigningReset
  <2>4. ValidatorsVisited'
    BY <1>1, <2>1, <2>2 DEF IInv, ValidatorsVisited, Visited
  <2>5. QED
    BY <1>3, <2>3, <2>4
<1>7. CASE ApplyAndReturnValidatorSetUpdates
  <2>1. pc = "apply" /\ pc' = "signing" /\ Reached(staking) \cap staking.jailed = {}
    BY <1>7 DEF ApplyAndReturnValidatorSetUpdates, GoTo
  <2>2. /\ staking'.index = staking.index /\ staking'.power = staking.power
        /\ staking'.bonded = TopValidators(staking) /\ staking'.jailed = staking.jailed
    BY <1>7 DEF ApplyAndReturnValidatorSetUpdates, IInv, Shape
  <2>3. Reached(staking') = Reached(staking) /\ TopValidators(staking') = TopValidators(staking)
    BY <2>2, SameTop
  <2>4. BondedAreTop' /\ ReachedAreFree'
    BY <2>1, <2>2, <2>3 DEF BondedAreTop, ReachedAreFree
  <2>5. staking.bonded \ TopValidators(staking) = {}
    BY DEF IInv, BondedAreTop
  <2>6. \A v \in Validators : heights'.unbonding[v] = heights.unbonding[v]
    BY <1>7, <2>5 DEF ApplyAndReturnValidatorSetUpdates, IInv, Shape
  <2>7. heights'.entry = heights.entry
    BY <1>7 DEF ApplyAndReturnValidatorSetUpdates, IInv, Shape
  <2>8. ValidatorsVisited' /\ EntriesReset'
    <3>1. PreparedUpTo({"jail", "close", "apply", "signing"}) /\ PreparedUpTo({"close", "apply", "signing"})
      BY <2>1 DEF PreparedUpTo
    <3>2. QED
      BY <1>1, <2>1, <2>2, <2>6, <2>7, <3>1 DEF IInv, ValidatorsVisited, Visited, EntriesReset
  <2>9. SigningReset'
    BY <2>1 DEF SigningReset, PreparedUpTo
  <2>10. QED
    BY <1>3, <2>4, <2>8, <2>9
<1>8. CASE ResetSigningInfos
  <2>1. pc = "signing" /\ pc' = "write" /\ staking' = staking
    BY <1>8 DEF ResetSigningInfos, GoTo
  <2>7. PICK kept \in SUBSET Validators :
            /\ heights' = [heights EXCEPT !.signing =
                              [v \in Validators |-> IF v \in kept THEN @[v] ELSE 0]]
            /\ failed' = failed \cup {<<"signing", v>> : v \in kept}
    BY <1>8 DEF ResetSigningInfos
  <2>2. /\ \A v \in Validators : heights'.signing[v] # 0 => <<"signing", v>> \in failed'
        /\ heights'.unbonding = heights.unbonding /\ heights'.entry = heights.entry
    BY <2>7 DEF IInv, Shape
  <2>3. /\ PreparedUpTo({"jail", "close", "apply", "signing"})
        /\ PreparedUpTo({"close", "apply", "signing"}) /\ PreparedUpTo({"signing"})
    BY <2>1 DEF PreparedUpTo
  <2>4. EntriesReset' /\ BondedAreTop' /\ ReachedAreFree' /\ SigningReset'
    BY <2>1, <2>2, <2>3 DEF IInv, EntriesReset, BondedAreTop, ReachedAreFree, SigningReset
  <2>5. ValidatorsVisited'
    BY <1>1, <2>1, <2>2, <2>3 DEF IInv, ValidatorsVisited, Visited
  <2>6. QED
    BY <1>3, <2>4, <2>5
<1>9. QED
  BY <1>4, <1>5, <1>6, <1>7, <1>8

-----------------------------------------------------------------------------
(***************************************************************************)
(* The invariant holds in every step of every export.                      *)
(***************************************************************************)
THEOREM InvCorrect == Spec => []IInv
<1>1. Init => IInv
  <2> SUFFICES ASSUME Init PROVE IInv
    OBVIOUS
  <2>1. PICK power \in [Validators -> Powers], jailed \in SUBSET Validators :
            staking = CommittedStaking(power, jailed)
    BY DEF Init
  <2> DEFINE s == [power |-> power, jailed |-> jailed, index |-> Validators \ jailed,
                   bonded |-> {}]
  <2>2. TopValidators(s) \subseteq Validators
    <3>1. s.index \subseteq Validators
      OBVIOUS
    <3>2. QED
      BY <3>1, TopInIndex
  <2>3. staking = [s EXCEPT !.bonded = TopValidators(s)]
    BY <2>1 DEF CommittedStaking
  <2>4. /\ staking.index = s.index /\ staking.power = s.power
        /\ staking.bonded = TopValidators(s)
        /\ staking \in [power : [Validators -> Powers], jailed : SUBSET Validators,
                        index : SUBSET Validators, bonded : SUBSET Validators]
    BY <2>2, <2>3
  <2>5. BondedAreTop
    BY <2>4, SameTop DEF BondedAreTop
  <2>6. heights \in [unbonding : [Validators -> 0 .. Last],
                     signing : [Validators -> 0 .. Last],
                     entry : [Entries -> 0 .. Last], starting : [Delegations -> 0 .. Last],
                     slash : SUBSET (1 .. Last)]
    BY LastHeights DEF Init, AllHeights
  <2>7. "outstanding" \in DOMAIN distr /\ DOMAIN distr.outstanding = Validators
    BY DEF Init
  <2>8. Shape
    BY <2>4, <2>6, <2>7, LastHeights DEF Init, Shape, Parts
  <2>9. pc = "load"
    BY DEF Init
  <2>10. QED
    BY <2>5, <2>8, <2>9 DEF IInv, HistoryCleared, AtHeightZero, ValidatorsRenewed,
       DelegationsRenewed, EntriesReset, ValidatorsVisited, ReachedAreFree, SigningReset,
       PreparedUpTo
<1>2. IInv /\ [Next]_vars => IInv'
  <2> SUFFICES ASSUME IInv, [Next]_vars PROVE IInv'
    OBVIOUS
  <2>1. Shape'
    BY ShapeStep DEF IInv
  <2>2. CASE Next
    BY <2>1, <2>2, EarlyStep, BeforeClear, DistributionStep, StakingStep DEF Next, IInv
  <2>3. CASE UNCHANGED vars
    BY <2>1, <2>3 DEF vars, context, money, observed, IInv, HistoryCleared, AtHeightZero,
       ValidatorsRenewed, DelegationsRenewed, EntriesReset, ValidatorsVisited, BondedAreTop,
       ReachedAreFree, SigningReset, PreparedUpTo, Renewed, LeftOut, Visited
  <2>4. QED
    BY <2>2, <2>3
<1>3. QED
  BY <1>1, <1>2, PTL DEF Spec

(***************************************************************************)
(* The genesis that prepForZeroHeightGenesis leaves holds no height and no *)
(* outstanding reward of the old chain, whichever withdrawals fail, but    *)
(* for what its other dropped errors leave behind: the signing infos that  *)
(* could not be written, and the validators that the reinitialisation did  *)
(* not come to and nobody delegates to.                                    *)
(***************************************************************************)
THEOREM FreshStartHolds == Spec => []FreshStart
<1>1. IInv => FreshStart
  <2> SUFFICES ASSUME IInv, ExportedForZero, ~closeFailed
               PROVE  /\ heights = [AllHeights(0) EXCEPT !.signing = heights.signing]
                      /\ \A v \in Validators :
                             heights.signing[v] # 0 => <<"signing", v>> \in failed
                      /\ \A v \in Validators :
                             \/ <<"reinit", v>> \notin failed
                             \/ \E d \in Delegations : ValidatorOf[d] = v
                             => distr.outstanding[v] = 0 /\ reference[v] > 0
    BY DEF FreshStart
  <2>1. /\ heights.slash = {}
        /\ \A v \in Validators : Visited(v) /\ (Renewed(v) \/ LeftOut(v))
        /\ \A d \in Delegations : heights.starting[d] = 0 /\ Renewed(ValidatorOf[d])
        /\ \A e \in Entries : heights.entry[e] = 0
        /\ \A v \in Validators : heights.signing[v] # 0 => <<"signing", v>> \in failed
    BY DEF ExportedForZero, PreparedUpTo, IInv, HistoryCleared, ValidatorsRenewed,
           DelegationsRenewed, EntriesReset, ValidatorsVisited, SigningReset
  <2>2. heights \in [unbonding : [Validators -> 0 .. Last],
                     signing : [Validators -> 0 .. Last],
                     entry : [Entries -> 0 .. Last], starting : [Delegations -> 0 .. Last],
                     slash : SUBSET (1 .. Last)]
    BY DEF IInv, Shape
  <2>3. 1 .. 0 = {}
    OBVIOUS
  <2>4. /\ heights.unbonding = [v \in Validators |-> 0]
        /\ heights.entry = [e \in Entries |-> 0]
        /\ heights.starting = [d \in Delegations |-> 0]
    BY <2>1, <2>2 DEF Visited
  <2>5. heights = [AllHeights(0) EXCEPT !.signing = heights.signing]
    <3> DEFINE r == [unbonding |-> [v \in Validators |-> 0], signing |-> heights.signing,
                     entry |-> [e \in Entries |-> 0],
                     starting |-> [d \in Delegations |-> 0], slash |-> {}]
    <3>1. heights = r
      BY <2>1, <2>2, <2>4
    <3>2. [AllHeights(0) EXCEPT !.signing = heights.signing] = r
      BY <2>3 DEF AllHeights
    <3>3. QED
      BY <3>1, <3>2
  <2>6. ASSUME NEW v \in Validators,
               <<"reinit", v>> \notin failed \/ (\E d \in Delegations : ValidatorOf[d] = v)
        PROVE  distr.outstanding[v] = 0 /\ reference[v] > 0
    BY <2>1, <2>6 DEF Renewed, LeftOut
  <2>7. QED
    BY <2>1, <2>5, <2>6
<1>2. QED
  BY <1>1, InvCorrect, PTL

(***************************************************************************)
(* With a list of allowed addresses the genesis bonds no validator outside *)
(* it: either the last pass over the power index meets a jailed validator, *)
(* and there is no genesis, or all bonded validators are allowed.          *)
(***************************************************************************)
THEOREM OnlyAllowedBondedHolds == Spec => []OnlyAllowedBonded
<1>1. IInv => OnlyAllowedBonded
  <2> SUFFICES ASSUME IInv, ExportedForZero, ~closeFailed, request.allowed # {}
               PROVE  staking.bonded \subseteq request.allowed \ staking.jailed
    BY DEF OnlyAllowedBonded
  <2>1. /\ Reached(staking) \cap staking.jailed = {}
        /\ \A v \in Validators : Visited(v)
    BY DEF ExportedForZero, PreparedUpTo, IInv, ReachedAreFree, ValidatorsVisited
  <2>2. staking.bonded \subseteq Reached(staking) /\ staking.bonded \subseteq Validators
    BY TopInIndex DEF IInv, BondedAreTop, Shape
  <2>3. QED
    BY <2>1, <2>2 DEF Visited
<1>2. QED
  BY <1>1, InvCorrect, PTL

-----------------------------------------------------------------------------
(* The money.                                                              *)

\* A withdrawal pays whole coins: what is left of an amount is less than one.
LEMMA Division ==
  ASSUME NEW c \in Nat
  PROVE  /\ c % Unit \in Nat /\ c % Unit < Unit /\ c % Unit <= c
         /\ Whole(c) = c - (c % Unit) /\ Whole(c) \in Nat
<1>0. Unit \in Nat /\ Unit > 0
  BY UnitAssumption
<1>1. c % Unit \in 0 .. Unit - 1
  BY <1>0
<1>2. c = Unit * (c \div Unit) + (c % Unit)
  BY <1>0
<1>3. c \div Unit \in Int
  BY <1>0
<1>4. (c \div Unit) * Unit = Unit * (c \div Unit)
  BY <1>0, <1>3
<1>5. (c \div Unit) * Unit = c - (c % Unit)
  BY <1>0, <1>1, <1>2, <1>3, <1>4
<1>6. c % Unit <= c
  BY <1>0
<1>7. QED
  BY <1>0, <1>1, <1>5, <1>6 DEF Whole

\* The sums are over finite sets.
LEMMA Finite ==
  /\ IsFiniteSet(Validators)
  /\ \A v : IsFiniteSet({d \in Delegations : ValidatorOf[d] = v})
<1>1. IsFiniteSet(1 .. N) /\ IsFiniteSet(1 .. Len(ValidatorOf))
  BY Sizes, FS_Interval
<1>2. ASSUME NEW v PROVE IsFiniteSet({d \in Delegations : ValidatorOf[d] = v})
  <2>1. {d \in Delegations : ValidatorOf[d] = v} \in SUBSET (1 .. Len(ValidatorOf))
    BY Sizes
  <2>2. QED
    BY <1>1, <2>1, FS_Subset
<1>3. QED
  BY <1>1, <1>2 DEF Validators

Owed == [commission : [Validators -> Nat], reward : [Delegations -> Nat]]
Distr == [outstanding : [Validators -> Nat], pool : Nat, balance : Nat]

(***************************************************************************)
(* What a validator and its delegators are owed is a number of fractions,  *)
(* and no single reward is more than that.                                 *)
(***************************************************************************)
LEMMA TotalOwedType ==
  ASSUME NEW o \in Owed, NEW v \in Validators
  PROVE  /\ TotalOwed(o, v) \in Nat /\ o.commission[v] <= TotalOwed(o, v)
         /\ (\A d \in Delegations : o.reward[d] = 0) => TotalOwed(o, v) = o.commission[v]
         /\ \A d \in Delegations : ValidatorOf[d] = v =>
               o.commission[v] + o.reward[d] <= TotalOwed(o, v)
<1> DEFINE D == {d \in Delegations : ValidatorOf[d] = v}
           sum == SumFunctionOnSet(o.reward, D)
<1>1. IsFiniteSet(D) /\ \A d \in D : o.reward[d] \in Nat
  BY Finite DEF Owed
<1>2. o.commission[v] \in Nat
  BY DEF Owed
<1>3. TotalOwed(o, v) = o.commission[v] + sum
  BY DEF TotalOwed
<1> HIDE DEF D
<1>4. /\ sum \in Nat
      /\ (\A d \in D : o.reward[d] = 0) => sum = 0
      /\ \A d \in D : o.reward[d] <= sum
  BY <1>1, SumOfNaturals
<1> HIDE DEF sum
<1>5. TotalOwed(o, v) \in Nat /\ o.commission[v] <= TotalOwed(o, v)
  BY <1>2, <1>3, <1>4
<1>6. (\A d \in Delegations : o.reward[d] = 0) => TotalOwed(o, v) = o.commission[v]
  BY <1>2, <1>3, <1>4 DEF D
<1>7. ASSUME NEW d \in Delegations, ValidatorOf[d] = v
      PROVE  o.commission[v] + o.reward[d] <= TotalOwed(o, v)
  <2>1. d \in D /\ o.reward[d] \in Nat
    BY <1>1, <1>7 DEF D, Owed
  <2>2. QED
    BY <1>2, <1>3, <1>4, <2>1
<1>8. QED
  BY <1>5, <1>6, <1>7

(***************************************************************************)
(* A withdrawal changes what its own validator owes by what was withdrawn, *)
(* and nothing else.                                                       *)
(***************************************************************************)
LEMMA CommissionWithdrawn ==
  ASSUME NEW o \in Owed, NEW v \in Validators, NEW c \in Nat, NEW w \in Validators,
         NEW p, p = [o EXCEPT !.commission[v] = c]
  PROVE  /\ p \in Owed /\ p.commission[v] = c /\ p.reward = o.reward
         /\ \A u \in Validators : u # v => p.commission[u] = o.commission[u]
         /\ TotalOwed(p, w) = TotalOwed(o, w) + (IF w = v THEN c - o.commission[v] ELSE 0)
<1>1. /\ p \in Owed /\ p.commission[v] = c /\ p.reward = o.reward
      /\ \A u \in Validators : u # v => p.commission[u] = o.commission[u]
  BY DEF Owed
<1>2. o.commission[v] \in Nat /\ o.commission[w] \in Nat /\ TotalOwed(o, w) \in Nat
  BY TotalOwedType DEF Owed
<1> DEFINE sum == SumFunctionOnSet(o.reward, {d \in Delegations : ValidatorOf[d] = w})
<1>3. TotalOwed(p, w) = p.commission[w] + sum /\ TotalOwed(o, w) = o.commission[w] + sum
  BY <1>1 DEF TotalOwed
<1>4. sum \in Nat
  <2>1. \A d \in {d \in Delegations : ValidatorOf[d] = w} : o.reward[d] \in Nat
    BY DEF Owed
  <2>2. QED
    BY <2>1, Finite, SumOfNaturals
<1> HIDE DEF sum
<1>5. TotalOwed(p, w) = TotalOwed(o, w) + (IF w = v THEN c - o.commission[v] ELSE 0)
  BY <1>1, <1>2, <1>3, <1>4
<1>6. QED
  BY <1>1, <1>5

\* A sum of rewards changes with the reward of one delegation.
LEMMA RewardSumChanges ==
  ASSUME NEW f \in [Delegations -> Nat], NEW h \in [Delegations -> Nat],
         NEW D \in SUBSET Delegations, IsFiniteSet(D), NEW d \in Delegations,
         \A e \in Delegations : e # d => h[e] = f[e]
  PROVE  /\ SumFunctionOnSet(f, D) \in Int
         /\ SumFunctionOnSet(h, D) =
              SumFunctionOnSet(f, D) + (IF d \in D THEN h[d] - f[d] ELSE 0)
<1>1. \A e \in D : f[e] \in Int /\ h[e] \in Int
  OBVIOUS
<1>2. \A e \in D : e # d => h[e] = f[e]
  OBVIOUS
<1>3. /\ SumFunctionOnSet(f, D) \in Int
      /\ d \in D => SumFunctionOnSet(h, D) = SumFunctionOnSet(f, D) + (h[d] - f[d])
      /\ d \notin D => SumFunctionOnSet(h, D) = SumFunctionOnSet(f, D)
  BY <1>1, <1>2, SumChanges
<1>4. QED
  BY <1>3

\* The reward of delegation d has been taken out of o.
Withdrawn(o, d, p) == p = [o EXCEPT !.reward[d] = 0]

\* A withdrawn reward is no longer owed, everything else still is.
LEMMA RewardWithdrawn ==
  ASSUME NEW o \in Owed, NEW d \in Delegations, NEW w \in Validators,
         NEW p, Withdrawn(o, d, p)
  PROVE  /\ p \in Owed /\ p.reward[d] = 0 /\ p.commission = o.commission
         /\ \A e \in Delegations : e # d => p.reward[e] = o.reward[e]
         /\ TotalOwed(p, w) =
              TotalOwed(o, w) - (IF w = ValidatorOf[d] THEN o.reward[d] ELSE 0)
<1> DEFINE D == {e \in Delegations : ValidatorOf[e] = w}
<1>1. /\ p \in Owed /\ p.reward[d] = 0 /\ p.commission = o.commission
      /\ \A e \in Delegations : e # d => p.reward[e] = o.reward[e]
  BY DEF Owed, Withdrawn
<1>2. o.commission[w] \in Nat /\ o.reward[d] \in Nat
  BY DEF Owed
<1>3. o.reward \in [Delegations -> Nat] /\ p.reward \in [Delegations -> Nat]
  BY <1>1 DEF Owed
<1>4. /\ TotalOwed(p, w) = o.commission[w] + SumFunctionOnSet(p.reward, D)
      /\ TotalOwed(o, w) = o.commission[w] + SumFunctionOnSet(o.reward, D)
  BY <1>1 DEF TotalOwed
<1>5. /\ SumFunctionOnSet(o.reward, D) \in Int
      /\ SumFunctionOnSet(p.reward, D) =
           SumFunctionOnSet(o.reward, D)
           + (IF w = ValidatorOf[d] THEN p.reward[d] - o.reward[d] ELSE 0)
  <2> DEFINE f == o.reward
             h == p.reward
  <2>1. /\ f \in [Delegations -> Nat] /\ h \in [Delegations -> Nat]
        /\ \A e \in Delegations : e # d => h[e] = f[e]
    BY <1>1, <1>3
  <2>2. D \in SUBSET Delegations /\ IsFiniteSet(D) /\ (d \in D <=> w = ValidatorOf[d])
    BY Finite
  <2> HIDE DEF f, h, D
  <2>3. /\ SumFunctionOnSet(f, D) \in Int
        /\ SumFunctionOnSet(h, D) =
             SumFunctionOnSet(f, D) + (IF d \in D THEN h[d] - f[d] ELSE 0)
    BY <2>1, <2>2, RewardSumChanges
  <2>4. QED
    BY <2>2, <2>3 DEF f, h
<1> HIDE DEF D
<1>6. TotalOwed(p, w) = TotalOwed(o, w) - (IF w = ValidatorOf[d] THEN o.reward[d] ELSE 0)
  BY <1>1, <1>2, <1>4, <1>5
<1>7. QED
  BY <1>1, <1>6

\* The sum over the validators changes by what one of them changes.
LEMMA OneSumChanges ==
  ASSUME NEW f \in [Validators -> Nat], NEW h \in [Validators -> Nat], NEW v \in Validators,
         \A w \in Validators : w # v => h[w] = f[w]
  PROVE  SumFunctionOnSet(h, Validators) = SumFunctionOnSet(f, Validators) + (h[v] - f[v])
<1> DEFINE D == Validators
<1>1. /\ IsFiniteSet(D) /\ \A w \in D : f[w] \in Int /\ h[w] \in Int
      /\ \A w \in D : w # v => h[w] = f[w]
      /\ v \in D
  BY Finite
<1> HIDE DEF D
<1>2. /\ SumFunctionOnSet(f, D) \in Int
      /\ v \in D => SumFunctionOnSet(h, D) = SumFunctionOnSet(f, D) + (h[v] - f[v])
      /\ v \notin D => SumFunctionOnSet(h, D) = SumFunctionOnSet(f, D)
  BY <1>1, SumChanges
<1>3. QED
  BY <1>1, <1>2 DEF D

(***************************************************************************)
(* What the module account must hold follows every change of one           *)
(* validator's outstanding rewards.                                        *)
(***************************************************************************)
LEMMA ExpectedChanges ==
  ASSUME NEW d, d.outstanding \in [Validators -> Nat], d.pool \in Nat,
         NEW e, e.outstanding \in [Validators -> Nat], e.pool \in Nat,
         NEW v \in Validators,
         \A w \in Validators : w # v => e.outstanding[w] = d.outstanding[w]
  PROVE  /\ Expected(d) \in Nat
         /\ Expected(e) = Expected(d) + (e.pool - d.pool)
                                      + (e.outstanding[v] - d.outstanding[v])
<1>1. /\ DOMAIN d.outstanding = Validators /\ DOMAIN e.outstanding = Validators
      /\ \A w \in Validators : d.outstanding[w] \in Nat /\ e.outstanding[w] \in Nat
  OBVIOUS
<1>2. /\ Expected(d) = d.pool + SumFunctionOnSet(d.outstanding, Validators)
      /\ Expected(e) = e.pool + SumFunctionOnSet(e.outstanding, Validators)
  BY <1>1 DEF Expected, SumFunction
<1>3. SumFunctionOnSet(d.outstanding, Validators) \in Nat
  BY <1>1, Finite, SumOfNaturals
<1>4. \A w \in Validators : d.outstanding[w] \in Int /\ e.outstanding[w] \in Int
  BY <1>1
<1>5. SumFunctionOnSet(e.outstanding, Validators) =
         SumFunctionOnSet(d.outstanding, Validators) + (e.outstanding[v] - d.outstanding[v])
  BY OneSumChanges
<1>6. d.outstanding[v] \in Nat /\ e.outstanding[v] \in Nat
  BY <1>1
<1>7. QED
  BY <1>1, <1>2, <1>3, <1>5, <1>6

\* A payment is in whole coins and what is kept goes to the pool, so the
\* module account still holds what is expected of it.
LEMMA PaysKeepsBooks ==
  ASSUME distr \in Distr, NothingLost, NEW v \in Validators,
         NEW amount \in Nat, NEW kept \in Nat, amount <= distr.outstanding[v],
         kept <= amount, Pays(v, amount, kept)
  PROVE  /\ distr' \in Distr /\ NothingLost'
         /\ distr'.outstanding[v] = distr.outstanding[v] - amount
         /\ \A w \in Validators : w # v => distr'.outstanding[w] = distr.outstanding[w]
<1> DEFINE e == [distr EXCEPT !.outstanding[v] = @ - amount,
                              !.pool = @ + kept,
                              !.balance = @ - (amount - kept)]
<1>1. /\ distr.outstanding \in [Validators -> Nat] /\ distr.pool \in Nat
      /\ distr.balance \in Nat /\ distr.outstanding[v] \in Nat
  BY DEF Distr
<1>2. /\ e.outstanding = [distr.outstanding EXCEPT ![v] = @ - amount]
      /\ e.pool = distr.pool + kept /\ e.balance = distr.balance - (amount - kept)
  BY DEF Distr
<1> HIDE DEF e
<1>3. distr.outstanding[v] - amount \in Nat
  BY <1>1
<1>4. /\ e.outstanding \in [Validators -> Nat] /\ e.pool \in Nat
      /\ e.outstanding[v] = distr.outstanding[v] - amount
      /\ \A w \in Validators : w # v => e.outstanding[w] = distr.outstanding[w]
  BY <1>1, <1>2, <1>3
<1>5. /\ Expected(distr) \in Nat
      /\ Expected(e) = Expected(distr) + (e.pool - distr.pool)
                                       + (e.outstanding[v] - distr.outstanding[v])
  BY <1>1, <1>4, ExpectedChanges
<1>6. Expected(e) \in Nat
  BY <1>4, ExpectedChanges
<1>7. e.balance = Expected(e)
  BY <1>1, <1>2, <1>4, <1>5 DEF NothingLost
<1>8. e \in Distr
  <2>1. distr.pool + kept \in Nat /\ distr.balance - (amount - kept) \in Nat
    BY <1>1, <1>2, <1>6, <1>7
  <2>2. QED
    BY <1>1, <1>3, <2>1 DEF Distr, e
<1>9. distr' = e
  BY DEF Pays, e
<1>10. QED
  BY <1>4, <1>7, <1>8, <1>9 DEF NothingLost

\* What a validator has outstanding moves to the community pool.
LEMMA DonateKeepsBooks ==
  ASSUME distr \in Distr, NothingLost, NEW v \in Validators, distr' = Donate(distr, v)
  PROVE  /\ distr' \in Distr /\ NothingLost'
         /\ distr'.outstanding[v] = 0
         /\ \A w \in Validators : w # v => distr'.outstanding[w] = distr.outstanding[w]
<1> DEFINE e == Donate(distr, v)
<1>1. /\ distr.outstanding \in [Validators -> Nat] /\ distr.pool \in Nat
      /\ distr.balance \in Nat /\ distr.outstanding[v] \in Nat
  BY DEF Distr
<1>2. /\ e.outstanding = [distr.outstanding EXCEPT ![v] = 0]
      /\ e.pool = distr.pool + distr.outstanding[v] /\ e.balance = distr.balance
  BY DEF Distr, Donate
<1> HIDE DEF e
<1>3. /\ e.outstanding \in [Validators -> Nat] /\ e.pool \in Nat
      /\ e.outstanding[v] = 0
      /\ \A w \in Validators : w # v => e.outstanding[w] = distr.outstanding[w]
  BY <1>1, <1>2
<1>4. /\ Expected(distr) \in Nat
      /\ Expected(e) = Expected(distr) + (e.pool - distr.pool)
                                       + (e.outstanding[v] - distr.outstanding[v])
  BY <1>1, <1>3, ExpectedChanges
<1>5. e.balance = Expected(e)
  BY <1>1, <1>2, <1>3, <1>4 DEF NothingLost
<1>6. e \in Distr
  <2>1. distr.pool + distr.outstanding[v] \in Nat
    BY <1>1
  <2>2. QED
    BY <1>1, <2>1 DEF Distr, e, Donate
<1>7. distr' = e
  BY DEF e
<1>8. QED
  BY <1>3, <1>5, <1>6, <1>7 DEF NothingLost

\* The parts of the export in which money moves.
MoneyParts == {"load", "prepare", "commission", "rewards", "clear", "validators"}

(***************************************************************************)
(* A step that leaves the money alone keeps the books, except for the one  *)
(* that starts the loop over the validators.                               *)
(***************************************************************************)
LEMMA QuietStep ==
  ASSUME Books, owed' = owed, distr' = distr, failed \subseteq failed',
         \/ pc' \notin MoneyParts
         \/ pc' = pc /\ at' = at
         \/ pc = "load" /\ pc' = "prepare"
         \/ pc = "prepare" /\ pc' = "commission" /\ at' = 0
  PROVE  Amounts' /\ OutstandingIsOwed' /\ NothingLost' /\ FractionsLeft'
<1>1. Amounts' /\ NothingLost'
  BY DEF Books, Amounts, NothingLost
<1>2. \A v \in Validators : TotalOwed(owed', v) = TotalOwed(owed, v)
  OBVIOUS
<1>3. OutstandingIsOwed'
  BY DEF MoneyParts, Books, OutstandingIsOwed
<1>4. FractionsLeft'
  <2>6. failed' = {} => failed = {}
    OBVIOUS
  <2>1. CASE pc' \notin MoneyParts
    BY <2>1 DEF MoneyParts, FractionsLeft
  <2>2. CASE pc' = pc /\ at' = at
    BY <2>2, <2>6 DEF Books, FractionsLeft
  <2>3. CASE pc = "load" /\ pc' = "prepare"
    BY <2>3 DEF FractionsLeft
  <2>4. CASE pc = "prepare" /\ pc' = "commission" /\ at' = 0
    <3>1. \A v \in Validators : ~ (v <= 0)
      BY Sizes DEF Validators
    <3>2. QED
      BY <2>4, <3>1 DEF FractionsLeft
  <2>5. QED
    BY <2>1, <2>2, <2>3, <2>4
<1>5. QED
  BY <1>1, <1>3, <1>4

\* The remaining steps move no coin.
LEMMA QuietActions ==
  ASSUME Books, NEW h, NEW err \in BOOLEAN,
         \/ AppExport(h) \/ CheckInvariants \/ ReinitValidatorsFails \/ ResetEntries
         \/ ResetValidator \/ CloseIterator(err) \/ ApplyAndReturnValidatorSetUpdates
         \/ ResetSigningInfos \/ StoreFails \/ KeeperPanics \/ WriteGenesis \/ UNCHANGED vars
  PROVE  Amounts' /\ OutstandingIsOwed' /\ NothingLost' /\ FractionsLeft' /\ Counted'
<1>0. at \in Nat /\ N \in Nat /\ Len(ValidatorOf) \in Nat
  BY Sizes DEF Books, Shape
<1>1. /\ owed' = owed /\ distr' = distr
      /\ failed \subseteq failed' /\ (failed \subseteq Failures => failed' \subseteq Failures)
  <2>1. CASE AppExport(h) \/ CheckInvariants
    BY <2>1 DEF AppExport, CheckInvariants, Stop, money, observed
  <2>2. CASE \/ ResetEntries \/ ResetValidator \/ CloseIterator(err)
             \/ ApplyAndReturnValidatorSetUpdates
    BY <2>2 DEF ResetEntries, ResetValidator, CloseIterator,
       ApplyAndReturnValidatorSetUpdates, Stop, money, observed
  <2>3. CASE StoreFails \/ KeeperPanics \/ WriteGenesis \/ UNCHANGED vars
    BY <2>3 DEF StoreFails, KeeperPanics, WriteGenesis, Stop, money, observed, vars
  <2>4. CASE ReinitValidatorsFails
    <3>1. /\ owed' = owed /\ distr' = distr
          /\ failed' = failed \cup {<<"reinit", v>> : v \in at + 1 .. N}
      BY <2>4 DEF ReinitValidatorsFails, money
    <3>2. \A v \in at + 1 .. N : <<"reinit", v>> \in Failures
      BY <1>0 DEF Failures, Validators
    <3>3. QED
      BY <3>1, <3>2
  <2>5. CASE ResetSigningInfos
    <3>1. PICK kept \in SUBSET Validators :
              failed' = failed \cup {<<"signing", v>> : v \in kept}
      BY <2>5 DEF ResetSigningInfos
    <3>2. \A v \in kept : <<"signing", v>> \in Failures
      BY DEF Failures
    <3>3. owed' = owed /\ distr' = distr
      BY <2>5 DEF ResetSigningInfos, money
    <3>4. QED
      BY <3>1, <3>2, <3>3
  <2>6. QED
    BY <2>1, <2>2, <2>3, <2>4, <2>5
<1>2. \/ pc' \notin MoneyParts
      \/ pc' = pc /\ at' = at
      \/ pc = "load" /\ pc' = "prepare"
      \/ pc = "prepare" /\ pc' = "commission" /\ at' = 0
  <2>1. CASE AppExport(h) \/ CheckInvariants
    BY <2>1 DEF AppExport, CheckInvariants, Stop, GoTo, MoneyParts
  <2>2. CASE \/ ReinitValidatorsFails \/ ResetEntries \/ CloseIterator(err)
             \/ ApplyAndReturnValidatorSetUpdates
    BY <2>2 DEF ReinitValidatorsFails, ResetEntries, CloseIterator,
       ApplyAndReturnValidatorSetUpdates, Stop, GoTo, MoneyParts
  <2>3. CASE ResetValidator
    BY <2>3 DEF ResetValidator, NextItem, MoneyParts
  <2>4. CASE ResetSigningInfos \/ StoreFails \/ KeeperPanics \/ WriteGenesis \/ UNCHANGED vars
    BY <2>4 DEF ResetSigningInfos, StoreFails, KeeperPanics, WriteGenesis, Stop, GoTo,
       MoneyParts, vars
  <2>5. QED
    BY <2>1, <2>2, <2>3, <2>4
<1>3. at' = 0 \/ at' = at \/ (at + 1 < N /\ at' = at + 1)
  <2>1. CASE AppExport(h) \/ CheckInvariants
    BY <2>1 DEF AppExport, CheckInvariants, Stop, GoTo
  <2>2. CASE \/ ReinitValidatorsFails \/ ResetEntries \/ CloseIterator(err)
             \/ ApplyAndReturnValidatorSetUpdates
    BY <2>2 DEF ReinitValidatorsFails, ResetEntries, CloseIterator,
       ApplyAndReturnValidatorSetUpdates, Stop, GoTo
  <2>3. CASE ResetValidator
    BY <1>0, <2>3 DEF ResetValidator, NextItem
  <2>4. CASE ResetSigningInfos \/ StoreFails \/ KeeperPanics \/ WriteGenesis \/ UNCHANGED vars
    BY <2>4 DEF ResetSigningInfos, StoreFails, KeeperPanics, WriteGenesis, Stop, GoTo, vars
  <2>5. QED
    BY <2>1, <2>2, <2>3, <2>4
<1>4. closeFailed' = closeFailed \/ closeFailed' \in BOOLEAN
  <2>1. CASE AppExport(h) \/ CheckInvariants
    BY <2>1 DEF AppExport, CheckInvariants, Stop, observed
  <2>2. CASE \/ ReinitValidatorsFails \/ ResetEntries \/ ResetValidator \/ CloseIterator(err)
             \/ ApplyAndReturnValidatorSetUpdates
    BY <2>2 DEF ReinitValidatorsFails, ResetEntries, ResetValidator, CloseIterator,
       ApplyAndReturnValidatorSetUpdates, Stop, observed
  <2>3. CASE ResetSigningInfos \/ StoreFails \/ KeeperPanics \/ WriteGenesis \/ UNCHANGED vars
    BY <2>3 DEF ResetSigningInfos, StoreFails, KeeperPanics, WriteGenesis, Stop, observed, vars
  <2>4. QED
    BY <2>1, <2>2, <2>3
<1>5. Counted'
  <2>1. at <= N + Len(ValidatorOf)
    BY DEF Books, Counted
  <2>2. at' <= N + Len(ValidatorOf)
    BY <1>0, <1>3, <2>1
  <2>3. closeFailed' \in BOOLEAN
    BY <1>4 DEF Books, Counted
  <2>4. QED
    BY <1>1, <2>2, <2>3 DEF Books, Counted
<1>6. QED
  BY <1>1, <1>2, <1>5, QuietStep

(***************************************************************************)
(* WithdrawValidatorCommission, whether or not it succeeds.                *)
(***************************************************************************)
LEMMA CommissionStep ==
  ASSUME Books, WithdrawValidatorCommission
  PROVE  Amounts' /\ OutstandingIsOwed' /\ NothingLost' /\ FractionsLeft' /\ Counted'
<1> DEFINE v == at + 1
<1>1. /\ owed \in Owed /\ distr \in Distr /\ NothingLost /\ at \in Nat
  BY DEF Books, Shape, Amounts, Owed, Distr
<1>2. /\ v \in Validators
      /\ \/ (v = N /\ pc' = "rewards" /\ at' = 0)
         \/ (v # N /\ pc' = pc /\ at' = v)
      /\ pc = "commission" /\ closeFailed' = closeFailed
  <2>1. NextItem(N, "rewards") /\ pc = "commission" /\ closeFailed' = closeFailed
    BY DEF WithdrawValidatorCommission
  <2>2. QED
    BY <1>1, <2>1, LoopMoves, Sizes DEF Validators
<1>3. \A w \in Validators : w \in Nat /\ w <= N /\ (w <= v <=> w <= at \/ w = v)
  BY <1>1, Sizes DEF Validators
<1>4. \A w \in Validators : distr.outstanding[w] = TotalOwed(owed, w)
  BY <1>2 DEF Books, OutstandingIsOwed
<1>5. failed = {} => \A w \in Validators : w <= at => owed.commission[w] < Unit
  BY <1>2 DEF Books, FractionsLeft
<1>6. /\ failed \subseteq Failures
      /\ closeFailed \in BOOLEAN
  BY DEF Books, Counted
<1>7. at' <= N + Len(ValidatorOf)
  BY <1>1, <1>2, Sizes DEF Validators
<1> DEFINE c == owed.commission[v]
<1>8. c \in Nat
  BY <1>1, <1>2 DEF Owed
<1>9. \/ /\ c > 0 /\ Pays(v, Whole(c), 0)
         /\ owed' = [owed EXCEPT !.commission[v] = c % Unit] /\ failed' = failed
      \/ /\ failed' = IF c > 0 THEN failed \cup {<<"commission", v>>} ELSE failed
         /\ owed' = owed /\ distr' = distr
  BY DEF WithdrawValidatorCommission
<1> HIDE DEF v, c
<1>10. CASE /\ c > 0 /\ Pays(v, Whole(c), 0)
            /\ owed' = [owed EXCEPT !.commission[v] = c % Unit] /\ failed' = failed
  <2>1. /\ c % Unit \in Nat /\ c % Unit < Unit /\ c % Unit <= c
        /\ Whole(c) = c - (c % Unit) /\ Whole(c) \in Nat
    BY <1>8, Division
  <2>2. TotalOwed(owed, v) \in Nat /\ c <= TotalOwed(owed, v)
    BY <1>1, <1>2, TotalOwedType DEF c
  <2>3. Whole(c) <= distr.outstanding[v]
    BY <1>2, <1>4, <1>8, <2>1, <2>2
  <2>4. /\ distr' \in Distr /\ NothingLost'
        /\ distr'.outstanding[v] = distr.outstanding[v] - Whole(c)
        /\ \A w \in Validators : w # v => distr'.outstanding[w] = distr.outstanding[w]
    BY <1>1, <1>2, <1>10, <2>1, <2>3, PaysKeepsBooks
  <2>5. ASSUME NEW w \in Validators
        PROVE  /\ owed' \in Owed /\ owed'.commission[v] = c % Unit
               /\ owed'.reward = owed.reward
               /\ \A u \in Validators : u # v => owed'.commission[u] = owed.commission[u]
               /\ TotalOwed(owed', w) =
                    TotalOwed(owed, w) + (IF w = v THEN (c % Unit) - owed.commission[v] ELSE 0)
    <3> DEFINE m == c % Unit
    <3>1. m \in Nat /\ owed' = [owed EXCEPT !.commission[v] = m]
      BY <1>10, <2>1
    <3> HIDE DEF m
    <3>2. /\ owed' \in Owed /\ owed'.commission[v] = m /\ owed'.reward = owed.reward
          /\ \A u \in Validators : u # v => owed'.commission[u] = owed.commission[u]
          /\ TotalOwed(owed', w) =
               TotalOwed(owed, w) + (IF w = v THEN m - owed.commission[v] ELSE 0)
      <4> DEFINE p == [owed EXCEPT !.commission[v] = m]
      <4>1. p = [owed EXCEPT !.commission[v] = m]
        OBVIOUS
      <4> HIDE DEF p
      <4>2. /\ p \in Owed /\ p.commission[v] = m /\ p.reward = owed.reward
            /\ \A u \in Validators : u # v => p.commission[u] = owed.commission[u]
            /\ TotalOwed(p, w) = TotalOwed(owed, w) + (IF w = v THEN m - owed.commission[v] ELSE 0)
        BY <1>1, <1>2, <3>1, <4>1, CommissionWithdrawn
      <4>3. QED
        BY <3>1, <4>1, <4>2
    <3>3. QED
      BY <3>2 DEF m
  <2>6. owed' \in Owed
    BY <1>2, <2>5
  <2>7. Amounts'
    BY <2>4, <2>6 DEF Amounts, Owed, Distr
  <2>8. ASSUME NEW w \in Validators PROVE distr'.outstanding[w] = TotalOwed(owed', w)
    <3>1. TotalOwed(owed, w) \in Nat
      BY <1>1, TotalOwedType
    <3>2. QED
      BY <1>4, <1>8, <2>1, <2>2, <2>4, <2>5, <3>1 DEF c
  <2>9. OutstandingIsOwed'
    BY <2>8 DEF OutstandingIsOwed
  <2>10. ASSUME failed' = {}, NEW w \in Validators, w <= at \/ w = v
         PROVE  owed'.commission[w] < Unit
    BY <1>5, <1>10, <2>1, <2>5, <2>10
  <2>11. FractionsLeft'
    <3>1. CASE v = N /\ pc' = "rewards" /\ at' = 0
      <4>1. \A w \in Validators : w <= at \/ w = v
        BY <1>3, <3>1
      <4>2. \A d \in Delegations : ~ (d <= 0)
        BY Sizes
      <4>3. QED
        BY <2>10, <3>1, <4>1, <4>2 DEF FractionsLeft
    <3>2. CASE v # N /\ pc' = pc /\ at' = v
      BY <1>2, <1>3, <2>10, <3>2 DEF FractionsLeft
    <3>3. QED
      BY <1>2, <3>1, <3>2
  <2>12. Counted'
    BY <1>2, <1>6, <1>7, <1>10 DEF Counted, Failures
  <2>13. QED
    BY <2>4, <2>7, <2>9, <2>11, <2>12
<1>11. CASE /\ failed' = IF c > 0 THEN failed \cup {<<"commission", v>>} ELSE failed
            /\ owed' = owed /\ distr' = distr
  <2>1. Amounts' /\ NothingLost'
    BY <1>11 DEF Books, Amounts, NothingLost
  <2>2. OutstandingIsOwed'
    BY <1>4, <1>11 DEF OutstandingIsOwed
  <2>3. failed' = {} => failed = {} /\ c = 0
    <3>1. failed \cup {<<"commission", v>>} # {}
      OBVIOUS
    <3>2. c > 0 \/ c = 0
      BY <1>8
    <3>3. QED
      BY <1>11, <3>1, <3>2
  <2>4. ASSUME failed' = {}, NEW w \in Validators, w <= at \/ w = v
        PROVE  owed'.commission[w] < Unit
    <3>1. 0 < Unit
      BY UnitAssumption
    <3>2. QED
      BY <1>5, <1>11, <2>3, <2>4, <3>1 DEF c
  <2>5. FractionsLeft'
    <3>1. CASE v = N /\ pc' = "rewards" /\ at' = 0
      <4>1. \A w \in Validators : w <= at \/ w = v
        BY <1>3, <3>1
      <4>2. \A d \in Delegations : ~ (d <= 0)
        BY Sizes
      <4>3. QED
        BY <2>4, <3>1, <4>1, <4>2 DEF FractionsLeft
    <3>2. CASE v # N /\ pc' = pc /\ at' = v
      BY <1>2, <1>3, <2>4, <3>2 DEF FractionsLeft
    <3>3. QED
      BY <1>2, <3>1, <3>2
  <2>6. Counted'
    BY <1>2, <1>6, <1>7, <1>11 DEF Counted, Failures
  <2>7. QED
    BY <2>1, <2>2, <2>5, <2>6
<1>12. QED
  BY <1>9, <1>10, <1>11

(***************************************************************************)
(* WithdrawDelegationRewards: the fraction of a reward goes to the pool.   *)
(***************************************************************************)
LEMMA RewardStep ==
  ASSUME Books, WithdrawDelegationRewards
  PROVE  Amounts' /\ OutstandingIsOwed' /\ NothingLost' /\ FractionsLeft' /\ Counted'
<1> DEFINE d == at + 1
           n == Len(ValidatorOf)
<1>1. /\ owed \in Owed /\ distr \in Distr /\ NothingLost /\ at \in Nat /\ n \in Nat
  BY Sizes DEF Books, Shape, Amounts, Owed, Distr
<1>2. /\ d \in Delegations
      /\ \/ (d = n /\ pc' = "clear" /\ at' = 0)
         \/ (d # n /\ pc' = pc /\ at' = d)
      /\ pc = "rewards" /\ closeFailed' = closeFailed
  <2>1. NextItem(n, "clear") /\ pc = "rewards" /\ closeFailed' = closeFailed
    BY DEF WithdrawDelegationRewards
  <2>2. QED
    BY <1>1, <2>1, LoopMoves, Sizes
<1>3. \A e \in Delegations : e \in Nat /\ e <= n /\ (e <= d <=> e <= at \/ e = d)
  BY <1>1, Sizes
<1>4. \A w \in Validators : distr.outstanding[w] = TotalOwed(owed, w)
  BY <1>2 DEF Books, OutstandingIsOwed
<1>5. failed = {} => /\ \A w \in Validators : owed.commission[w] < Unit
                     /\ \A e \in Delegations : e <= at => owed.reward[e] = 0
  BY <1>2 DEF Books, FractionsLeft
<1>6. /\ failed \subseteq Failures
      /\ closeFailed \in BOOLEAN
  BY DEF Books, Counted
<1>7. at' <= N + n
  BY <1>1, <1>2, Sizes
<1> DEFINE r == owed.reward[d]
           v == ValidatorOf[d]
<1>8. r \in Nat /\ v \in Validators
  BY <1>1, <1>2, Sizes DEF Owed
<1>9. \/ /\ Pays(v, r, r % Unit) /\ owed' = [owed EXCEPT !.reward[d] = 0] /\ failed' = failed
      \/ failed' = failed \cup {<<"reward", d>>} /\ owed' = owed /\ distr' = distr
  BY DEF WithdrawDelegationRewards
<1> HIDE DEF d, r, v
<1>10. CASE /\ Pays(v, r, r % Unit) /\ owed' = [owed EXCEPT !.reward[d] = 0]
            /\ failed' = failed
  <2>1. r % Unit \in Nat /\ r % Unit <= r
    BY <1>8, Division
  <2>2. TotalOwed(owed, v) \in Nat /\ r <= TotalOwed(owed, v)
    <3>1. owed.commission[v] \in Nat
      BY <1>1, <1>8 DEF Owed
    <3>2. /\ TotalOwed(owed, v) \in Nat
          /\ \A e \in Delegations : ValidatorOf[e] = v =>
                owed.commission[v] + owed.reward[e] <= TotalOwed(owed, v)
      BY <1>1, <1>8, TotalOwedType
    <3>3. owed.commission[v] + r <= TotalOwed(owed, v)
      BY <1>2, <3>2 DEF r, v
    <3>4. QED
      BY <1>8, <3>1, <3>2, <3>3
  <2>3. r <= distr.outstanding[v]
    BY <1>4, <1>8, <2>2
  <2>4. /\ distr' \in Distr /\ NothingLost'
        /\ distr'.outstanding[v] = distr.outstanding[v] - r
        /\ \A w \in Validators : w # v => distr'.outstanding[w] = distr.outstanding[w]
    BY <1>1, <1>8, <1>10, <2>1, <2>3, PaysKeepsBooks
  <2> DEFINE p == [owed EXCEPT !.reward[d] = 0]
  <2>5. owed' = p
    BY <1>10
  <2>p. Withdrawn(owed, d, p)
    BY DEF Withdrawn
  <2> HIDE DEF p
  <2>6. ASSUME NEW w \in Validators
        PROVE  /\ p \in Owed /\ p.reward[d] = 0 /\ p.commission = owed.commission
               /\ \A e \in Delegations : e # d => p.reward[e] = owed.reward[e]
               /\ TotalOwed(p, w) =
                    TotalOwed(owed, w) - (IF w = ValidatorOf[d] THEN owed.reward[d] ELSE 0)
    <3>1. owed \in Owed /\ d \in Delegations
      BY <1>1, <1>2
    <3>2. QED
      BY <3>1, <2>p, RewardWithdrawn
  <2>7. Amounts'
    BY <1>8, <2>4, <2>5, <2>6 DEF Amounts, Owed, Distr
  <2>8. ASSUME NEW w \in Validators PROVE distr'.outstanding[w] = TotalOwed(owed', w)
    <3>1. TotalOwed(owed, w) \in Nat
      BY <1>1, TotalOwedType
    <3>2. TotalOwed(owed', w) = TotalOwed(owed, w) - (IF w = v THEN r ELSE 0)
      BY <2>5, <2>6 DEF r, v
    <3>3. QED
      BY <1>4, <1>8, <2>4, <3>1, <3>2
  <2>9. OutstandingIsOwed'
    BY <2>8 DEF OutstandingIsOwed
  <2>10. ASSUME failed' = {}
         PROVE  /\ \A w \in Validators : owed'.commission[w] < Unit
                /\ \A e \in Delegations : e <= at \/ e = d => owed'.reward[e] = 0
    <3>1. /\ owed'.commission = owed.commission /\ owed'.reward[d] = 0
          /\ \A e \in Delegations : e # d => owed'.reward[e] = owed.reward[e]
      BY <1>8, <2>5, <2>6
    <3>2. failed = {}
      BY <1>10, <2>10
    <3>3. QED
      BY <1>5, <3>1, <3>2
  <2>11. FractionsLeft'
    <3>1. CASE d = n /\ pc' = "clear" /\ at' = 0
      <4>1. \A e \in Delegations : e <= at \/ e = d
        BY <1>3, <3>1
      <4>2. QED
        BY <2>10, <3>1, <4>1 DEF FractionsLeft
    <3>2. CASE d # n /\ pc' = pc /\ at' = d
      BY <1>2, <1>3, <2>10, <3>2 DEF FractionsLeft
    <3>3. QED
      BY <1>2, <3>1, <3>2
  <2>12. Counted'
    BY <1>2, <1>6, <1>7, <1>10 DEF Counted, Failures
  <2>13. QED
    BY <2>4, <2>7, <2>9, <2>11, <2>12
<1>11. CASE failed' = failed \cup {<<"reward", d>>} /\ owed' = owed /\ distr' = distr
  <2>1. Amounts' /\ NothingLost'
    BY <1>11 DEF Books, Amounts, NothingLost
  <2>2. OutstandingIsOwed'
    BY <1>4, <1>11 DEF OutstandingIsOwed
  <2>3. failed' # {}
    <3>1. failed \cup {<<"reward", d>>} # {}
      OBVIOUS
    <3>2. QED
      BY <1>11, <3>1
  <2>4. FractionsLeft'
    BY <2>3 DEF FractionsLeft
  <2>5. Counted'
    BY <1>2, <1>6, <1>7, <1>11 DEF Counted, Failures
  <2>6. QED
    BY <2>1, <2>2, <2>4, <2>5
<1>12. QED
  BY <1>9, <1>10, <1>11

(***************************************************************************)
(* The loop over the validators donates what the withdrawals left.  Where  *)
(* they all succeeded that is only the fraction of each commission.        *)
(***************************************************************************)
LEMMA ReinitStep ==
  ASSUME Books, ClearHistory \/ ReinitValidator \/ ReinitDelegation
  PROVE  Amounts' /\ OutstandingIsOwed' /\ NothingLost' /\ FractionsLeft' /\ Counted'
<1>1. /\ owed \in Owed /\ distr \in Distr /\ NothingLost /\ at \in Nat
      /\ N \in Nat /\ Len(ValidatorOf) \in Nat
  BY Sizes DEF Books, Shape, Amounts, Owed, Distr
<1>2. /\ failed \subseteq Failures
      /\ closeFailed \in BOOLEAN
  BY DEF Books, Counted
<1>3. CASE ClearHistory
  <2>1. /\ pc = "clear" /\ pc' = "validators" /\ at' = 0 /\ owed' = owed /\ distr' = distr
        /\ failed' = failed /\ closeFailed' = closeFailed
    BY <1>3 DEF ClearHistory, GoTo, observed
  <2>2. ASSUME failed = {}, NEW v \in Validators PROVE distr.outstanding[v] < Unit
    <3>1. /\ owed.commission[v] < Unit /\ \A d \in Delegations : owed.reward[d] = 0
          /\ distr.outstanding[v] = TotalOwed(owed, v)
      BY <2>1, <2>2 DEF Books, FractionsLeft, OutstandingIsOwed
    <3>2. (\A d \in Delegations : owed.reward[d] = 0) =>
             TotalOwed(owed, v) = owed.commission[v]
      BY <1>1, TotalOwedType
    <3>3. QED
      BY <3>1, <3>2
  <2>3. Amounts' /\ NothingLost'
    BY <2>1 DEF Books, Amounts, NothingLost
  <2>4. OutstandingIsOwed'
    BY <2>1 DEF OutstandingIsOwed
  <2>5. FractionsLeft'
    BY <2>1, <2>2 DEF FractionsLeft
  <2>6. Counted'
    BY <1>1, <1>2, <2>1 DEF Counted
  <2>7. QED
    BY <2>3, <2>4, <2>5, <2>6
<1>4. CASE ReinitValidator
  <2> DEFINE v == at + 1
  <2>1. /\ NextItem(N, "delegations") /\ pc = "validators" /\ distr' = Donate(distr, v)
        /\ owed' = [owed EXCEPT !.commission[v] = 0]
        /\ failed' = failed /\ closeFailed' = closeFailed
    BY <1>4 DEF ReinitValidator, observed
  <2>2. /\ v \in Validators
        /\ \/ (v = N /\ pc' = "delegations" /\ at' = 0)
           \/ (v # N /\ pc' = pc /\ at' = v)
    BY <1>1, <2>1, LoopMoves DEF Validators
  <2>3. at' <= N + Len(ValidatorOf)
    BY <1>1, <2>2 DEF Validators
  <2> HIDE DEF v
  <2>4. /\ distr' \in Distr /\ NothingLost' /\ distr'.outstanding[v] = 0
        /\ \A w \in Validators : w # v => distr'.outstanding[w] = distr.outstanding[w]
    BY <1>1, <2>1, <2>2, DonateKeepsBooks
  <2>5. owed' \in Owed
    BY <1>1, <2>1, <2>2 DEF Owed
  <2>6. Amounts'
    BY <2>4, <2>5 DEF Amounts, Owed, Distr
  <2>7. OutstandingIsOwed'
    BY <2>1, <2>2 DEF OutstandingIsOwed
  <2>8. FractionsLeft'
    <3>1. failed = {} => \A w \in Validators : distr.outstanding[w] < Unit
      BY <2>1 DEF Books, FractionsLeft
    <3>2. 0 < Unit
      BY UnitAssumption
    <3>3. failed' = {} => \A w \in Validators : distr'.outstanding[w] < Unit
      BY <2>1, <2>4, <3>1, <3>2
    <3>4. pc' \in {"validators", "delegations"}
      BY <2>1, <2>2
    <3>5. QED
      BY <3>3, <3>4 DEF FractionsLeft
  <2>9. Counted'
    BY <1>2, <2>1, <2>3 DEF Counted
  <2>10. QED
    BY <2>4, <2>6, <2>7, <2>8, <2>9
<1>5. CASE ReinitDelegation
  <2> DEFINE d == at + 1
  <2>1. /\ NextItem(Len(ValidatorOf), "entries") /\ pc = "delegations" /\ distr' = distr
        /\ owed' = [owed EXCEPT !.reward[d] = 0]
        /\ failed' = failed /\ closeFailed' = closeFailed
    BY <1>5 DEF ReinitDelegation, observed
  <2>2. /\ d \in Delegations
        /\ \/ (d = Len(ValidatorOf) /\ pc' = "entries" /\ at' = 0)
           \/ (d # Len(ValidatorOf) /\ pc' = pc /\ at' = d)
    BY <1>1, <2>1, LoopMoves, Sizes
  <2>3. at' <= N + Len(ValidatorOf)
    BY <1>1, <2>2, Sizes
  <2> HIDE DEF d
  <2>4. owed' \in Owed
    BY <1>1, <2>1, <2>2 DEF Owed
  <2>5. Amounts' /\ NothingLost'
    BY <1>1, <2>1, <2>4 DEF Amounts, Owed, Distr, NothingLost
  <2>6. pc' \in {"entries", "delegations"}
    BY <2>1, <2>2
  <2>7. OutstandingIsOwed' /\ FractionsLeft'
    BY <2>6 DEF OutstandingIsOwed, FractionsLeft
  <2>8. Counted'
    BY <1>2, <2>1, <2>3 DEF Counted
  <2>9. QED
    BY <2>5, <2>7, <2>8
<1>6. QED
  BY <1>3, <1>4, <1>5

(***************************************************************************)
(* The books are kept by every step of every export.                       *)
(***************************************************************************)
THEOREM BooksKept == Spec => []Books
<1>1. Init => Books
  <2> SUFFICES ASSUME Init PROVE Books
    OBVIOUS
  <2>1. Shape
    <3>1. PICK power \in [Validators -> Powers], jailed \in SUBSET Validators :
              staking = CommittedStaking(power, jailed)
      BY DEF Init
    <3> DEFINE s == [power |-> power, jailed |-> jailed, index |-> Validators \ jailed,
                     bonded |-> {}]
    <3>2. TopValidators(s) \subseteq Validators
      <4>1. s.index \subseteq Validators
        OBVIOUS
      <4>2. QED
        BY <4>1, TopInIndex
    <3>3. staking = [s EXCEPT !.bonded = TopValidators(s)]
      BY <3>1 DEF CommittedStaking
    <3>4. staking \in [power : [Validators -> Powers], jailed : SUBSET Validators,
                       index : SUBSET Validators, bonded : SUBSET Validators]
      BY <3>2, <3>3
    <3>5. heights \in [unbonding : [Validators -> 0 .. Last],
                       signing : [Validators -> 0 .. Last],
                       entry : [Entries -> 0 .. Last], starting : [Delegations -> 0 .. Last],
                       slash : SUBSET (1 .. Last)]
      BY LastHeights DEF Init, AllHeights
    <3>6. "outstanding" \in DOMAIN distr /\ DOMAIN distr.outstanding = Validators
      BY DEF Init
    <3>7. QED
      BY <3>4, <3>5, <3>6, LastHeights DEF Init, Shape, Parts
  <2> DEFINE f == [v \in Validators |-> TotalOwed(owed, v)]
  <2>2. owed \in Owed
    BY AmountsAssumption DEF Init, Owed
  <2>3. \A v \in Validators : TotalOwed(owed, v) \in Nat
    BY <2>2, TotalOwedType
  <2>4. f \in [Validators -> Nat] /\ DOMAIN f = Validators
    BY <2>3
  <2>5. distr = [outstanding |-> f, pool |-> 0, balance |-> SumFunction(f)]
    BY DEF Init
  <2>6. \A v \in Validators : f[v] = TotalOwed(owed, v)
    OBVIOUS
  <2> HIDE DEF f
  <2>7. SumFunction(f) \in Nat
    <3>1. SumFunction(f) = SumFunctionOnSet(f, Validators)
      BY <2>4 DEF SumFunction
    <3>2. SumFunctionOnSet(f, Validators) \in Nat
      BY <2>4, Finite, SumOfNaturals
    <3>3. QED
      BY <3>1, <3>2
  <2>8. /\ distr.outstanding = f /\ distr.pool = 0 /\ distr.balance = SumFunction(f)
        /\ distr \in Distr
    BY <2>4, <2>5, <2>7 DEF Distr
  <2>9. NothingLost
    BY <2>7, <2>8 DEF NothingLost, Expected
  <2>10. Amounts
    BY <2>2, <2>8 DEF Amounts, Owed, Distr
  <2>11. OutstandingIsOwed
    BY <2>6, <2>8 DEF OutstandingIsOwed
  <2>12. pc = "load" /\ at = 0 /\ failed = {} /\ closeFailed = FALSE
    BY DEF Init
  <2>13. FractionsLeft
    BY <2>12 DEF FractionsLeft
  <2>14. Counted
    <3>1. at <= N + Len(ValidatorOf)
      BY <2>12, Sizes
    <3>2. QED
      BY <2>12, <3>1 DEF Counted
  <2>15. QED
    BY <2>1, <2>9, <2>10, <2>11, <2>13, <2>14 DEF Books
<1>2. Books /\ [Next]_vars => Books'
  <2> SUFFICES ASSUME Books, [Next]_vars PROVE Books'
    OBVIOUS
  <2>1. Shape'
    BY ShapeStep DEF Books
  <2>2. Amounts' /\ OutstandingIsOwed' /\ NothingLost' /\ FractionsLeft' /\ Counted'
    <3>1. CASE \E h \in Heights : AppExport(h)
      BY <3>1, QuietActions
    <3>2. CASE \E err \in BOOLEAN : CloseIterator(err)
      BY <3>2, QuietActions
    <3>3. CASE \/ CheckInvariants \/ ReinitValidatorsFails \/ ResetEntries \/ ResetValidator
               \/ ApplyAndReturnValidatorSetUpdates \/ ResetSigningInfos \/ StoreFails
               \/ KeeperPanics \/ WriteGenesis \/ UNCHANGED vars
      BY <3>3, QuietActions
    <3>4. CASE WithdrawValidatorCommission
      BY <3>4, CommissionStep
    <3>5. CASE WithdrawDelegationRewards
      BY <3>5, RewardStep
    <3>6. CASE ClearHistory \/ ReinitValidator \/ ReinitDelegation
      BY <3>6, ReinitStep
    <3>7. QED
      BY <3>1, <3>2, <3>3, <3>4, <3>5, <3>6 DEF Next
  <2>3. QED
    BY <2>1, <2>2 DEF Books
<1>3. QED
  BY <1>1, <1>2, PTL DEF Spec

(***************************************************************************)
(* Every variable of the export keeps its type; the amounts of the         *)
(* distribution module, which the withdrawals subtract from, stay natural  *)
(* numbers.                                                                *)
(***************************************************************************)
THEOREM TypeCorrect == Spec => []TypeOK
<1>1. Books => TypeOK
  <2> SUFFICES ASSUME Books PROVE TypeOK
    OBVIOUS
  <2>1. at \in 0 .. N + Len(ValidatorOf)
    BY Sizes DEF Books, Shape, Counted
  <2>2. /\ staking.power \in [Validators -> Powers]
        /\ \A f \in {"jailed", "index", "bonded"} : staking[f] \subseteq Validators
    BY DEF Books, Shape
  <2>3. QED
    BY <2>1, <2>2 DEF Books, Shape, Amounts, Counted, TypeOK
<1>2. QED
  BY <1>1, BooksKept, PTL

(***************************************************************************)
(* The invariant that prepForZeroHeightGenesis asserts before it rewrites  *)
(* the distribution records still holds of the records it leaves, with any *)
(* number of validators and delegations and whichever withdrawals fail.    *)
(***************************************************************************)
THEOREM NothingLostHolds == Spec => []NothingLost
<1>1. Books => NothingLost
  BY DEF Books
<1>2. QED
  BY <1>1, BooksKept, PTL

(***************************************************************************)
(* Where all withdrawals succeed no whole coin of a validator or of a      *)
(* delegator goes to the community pool.                                   *)
(***************************************************************************)
THEOREM OnlyFractionsDonatedHolds == Spec => []OnlyFractionsDonated
<1>1. Books => OnlyFractionsDonated
  <2> SUFFICES ASSUME Books, pc \in {"clear", "validators"}, failed = {},
                      NEW v \in Validators
               PROVE  distr.outstanding[v] < Unit
    BY DEF OnlyFractionsDonated
  <2>1. CASE pc = "validators"
    BY <2>1 DEF Books, FractionsLeft
  <2>2. CASE pc = "clear"
    <3>1. /\ owed.commission[v] < Unit /\ \A d \in Delegations : owed.reward[d] = 0
          /\ distr.outstanding[v] = TotalOwed(owed, v)
      BY <2>2 DEF Books, FractionsLeft, OutstandingIsOwed
    <3>2. owed \in Owed
      BY DEF Books, Amounts, Owed
    <3>3. (\A d \in Delegations : owed.reward[d] = 0) =>
             TotalOwed(owed, v) = owed.commission[v]
      BY <3>2, TotalOwedType
    <3>4. QED
      BY <3>1, <3>3
  <2>3. QED
    BY <2>1, <2>2
<1>2. QED
  BY <1>1, BooksKept, PTL
=============================================================================
