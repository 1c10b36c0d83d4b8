-------------------------- MODULE ZeroHeightExport --------------------------
(***************************************************************************)
(* The export command: load the state of some height and turn it into the  *)
(* genesis of a chain that starts again, optionally from height zero.  For *)
(* height zero the distribution, staking and slashing records are rewritten *)
(* one after the other.  The errors of four of the calls are dropped, with *)
(* the record as it was; one more is logged and ends the preparation, not  *)
(* the export; every other one ends the process.                           *)
(*                                                                         *)
(* Validators are numbered in the order of their operator addresses.       *)
(* Amounts are counted in fractions of a coin, Unit of them to a coin.     *)
(***************************************************************************)
EXTENDS Integers, Sequences, FiniteSets, Functions

CONSTANTS
    N,              \* how many validators there are
    Unit,           \* fractions of a coin in a coin
    ValidatorOf,    \* the sequence of delegations: the validator of each
    Entries,        \* entries of redelegations and of unbonding delegations
    MaxValidators,  \* the staking parameter
    Commissions,    \* commission a validator may have accumulated
    Rewards,        \* rewards a delegation may have accumulated
    Powers,         \* consensus powers a validator may have
    Last,           \* the last height of the chain
    Heights,        \* heights the operator may ask for
    AllowLists      \* lists of addresses that may not be jailed

Latest == -1        \* --height was not given
BadAddress == 0     \* an address that does not decode

ASSUME NAssumption == N \in Nat \ {0} /\ MaxValidators \in Nat \ {0}
ASSUME UnitAssumption == Unit \in Nat \ {0}
ASSUME DelegationsAssumption == ValidatorOf \in Seq(1 .. N) \ {<<>>}
ASSUME AmountsAssumption == Commissions \subseteq Nat /\ Rewards \subseteq Nat
ASSUME HeightAssumption == Last \in Nat \ {0} /\ Heights \subseteq Nat \cup {Latest}

Validators == 1 .. N
Delegations == DOMAIN ValidatorOf

VARIABLES
    pc,             \* the part of the export that runs
    at,             \* how many items of its loop are done
    ctxHeight,      \* the block height of the context
    savedHeight,    \* the height to which the context is set back
    request,        \* forZeroHeight and jailAllowedAddrs
    staking,        \* validators, their power index and the last validators
    heights,        \* the heights recorded by staking, slashing, distribution
    owed,           \* rewards that have not been withdrawn
    distr,          \* outstanding rewards, community pool, module account
    reference,      \* reference count of the newest historical rewards record
    failed,         \* (observation) calls that failed and whose error was dropped
    closeFailed     \* (observation) the iterator's Close reported an error

context == <<ctxHeight, savedHeight, request>>
money == <<owed, distr, reference>>
observed == <<failed, closeFailed>>

vars == <<pc, at, context, staking, heights, money, observed>>

Parts == {"load", "prepare", "commission", "rewards", "clear", "validators",
          "delegations", "entries", "jail", "close", "apply", "signing", "write",
          "exported", "error", "fatal"}

\* Withdrawals, the reinitialisation of a validator, the reset of a signing info.
Failures == ({"commission", "reinit", "signing"} \X Validators)
            \cup ({"reward"} \X Delegations)

TypeOK ==
    /\ pc \in Parts
    /\ at \in 0 .. N + Len(ValidatorOf)
    /\ {ctxHeight, savedHeight} \subseteq 0 .. Last
    /\ request \in [forZeroHeight : BOOLEAN, allowed : AllowLists]
    /\ staking.power \in [Validators -> Powers]
    /\ \A f \in {"jailed", "index", "bonded"} : staking[f] \subseteq Validators
    /\ heights \in [unbonding : [Validators -> 0 .. Last],
                    signing : [Validators -> 0 .. Last],
                    entry : [Entries -> 0 .. Last],
                    starting : [Delegations -> 0 .. Last],
                    slash : SUBSET (1 .. Last)]
    /\ owed \in [commission : [Validators -> Nat], reward : [Delegations -> Nat]]
    /\ distr \in [outstanding : [Validators -> Nat], pool : Nat, balance : Nat]
    /\ reference \in [Validators -> Nat]
    /\ failed \subseteq Failures
    /\ closeFailed \in BOOLEAN

-----------------------------------------------------------------------------
(* The staking module: the validators by power.                            *)

\* How many validators of the index come before v when they are read by power.
Rank(v, s) ==
    Cardinality({w \in s.index : \/ s.power[w] > s.power[v]
                                 \/ s.power[w] = s.power[v] /\ w > v})

\* The validators that a pass over the power index gets to: at most
\* MaxValidators of them, and none after one without power.
Reached(s) ==
    {v \in s.index : /\ Rank(v, s) < MaxValidators
                     /\ \A w \in s.index : Rank(w, s) < Rank(v, s) => s.power[w] > 0}

TopValidators(s) == {v \in Reached(s) : s.power[v] > 0}

\* Defect: the list of allowed addresses is not looked at.
JailsNobody(s, v) == s

\* The record only: the validator stays in the power index.
Jail(s, v) == [s EXCEPT !.jailed = @ \cup {v}]

-----------------------------------------------------------------------------
(* A committed state: the bonded validators are those of most power, the   *)
(* jailed ones are not in the power index, and the module account of the   *)
(* distribution module holds what it owes.                                 *)

TotalOwed(o, v) ==
    o.commission[v]
    + SumFunctionOnSet(o.reward, {d \in Delegations : ValidatorOf[d] = v})

\* Every record is from height h, and there were slashes after height zero.
AllHeights(h) ==
    [unbonding |-> [v \in Validators |-> h],
     signing |-> [v \in Validators |-> h],
     entry |-> [e \in Entries |-> h],
     starting |-> [d \in Delegations |-> h],
     slash |-> 1 .. h]

CommittedStaking(power, jailed) ==
    LET s == [power |-> power, jailed |-> jailed,
              index |-> Validators \ jailed, bonded |-> {}]
    IN [s EXCEPT !.bonded = TopValidators(s)]

Init ==
    /\ pc = "load"
    /\ at = 0
    /\ ctxHeight = 0
    /\ savedHeight = 0
    /\ request \in [forZeroHeight : BOOLEAN, allowed : AllowLists]
    /\ \E power \in [Validators -> Powers], jailed \in SUBSET Validators :
           staking = CommittedStaking(power, jailed)
    /\ heights = AllHeights(1)
    /\ owed \in [commission : [Validators -> Commissions],
                 reward : [Delegations -> Rewards]]
    /\ LET outstanding == [v \in Validators |-> TotalOwed(owed, v)] IN
       distr = [outstanding |-> outstanding, pool |-> 0,
                balance |-> SumFunction(outstanding)]
    /\ reference = [v \in Validators |-> 2]
    /\ failed = {}
    /\ closeFailed = FALSE

-----------------------------------------------------------------------------
(* appExport and the start of ExportAppStateAndValidators.                 *)

GoTo(part) == pc' = part /\ at' = 0

\* A panic, a log.Fatal or an error that is returned: nothing is written.
Stop(how) == /\ GoTo(how)
             /\ UNCHANGED <<context, staking, heights, money, observed>>

\* The height is loaded, or --home is not set or there is no such height.
AppExport(h) ==
    /\ pc = "load"
    /\ \/ /\ h \in {Latest} \cup 1 .. Last
          /\ GoTo(IF request.forZeroHeight THEN "prepare" ELSE "write")
          /\ ctxHeight' = IF h = Latest THEN Last ELSE h
          /\ UNCHANGED <<savedHeight, request, staking, heights, money, observed>>
       \/ Stop("error")

Expected(d) == d.pool + SumFunction(d.outstanding)

\* prepForZeroHeightGenesis decodes the list and asserts the invariants.
CheckInvariants ==
    /\ pc = "prepare"
    /\ Stop(IF BadAddress \in request.allowed \/ distr.balance # Expected(distr)
            THEN "fatal" ELSE "commission")

-----------------------------------------------------------------------------
(* The distribution state.                                                 *)

\* Defect: the last item is forgotten.
NextItemOneShort(n, following) ==
    /\ at < n
    /\ at' = IF at + 2 >= n THEN 0 ELSE at + 1
    /\ pc' = IF at + 2 >= n THEN following ELSE pc

\* The next item of a loop with n of them, after which the part that follows runs.
NextItem(n, following) ==
    /\ at < n
    /\ at' = IF at + 1 = n THEN 0 ELSE at + 1
    /\ pc' = IF at + 1 = n THEN following ELSE pc

\* Defect: amounts are rounded up.
RoundedUp(amount) == ((amount + Unit - 1) \div Unit) * Unit

Whole(amount) == (amount \div Unit) * Unit

\* Whole coins leave the module account; less stays outstanding.
Pays(v, amount, kept) ==
    distr' = [distr EXCEPT !.outstanding[v] = @ - amount,
                           !.pool = @ + kept,
                           !.balance = @ - (amount - kept)]

\* The fraction of the commission stays with the validator.  An error is ignored.
WithdrawValidatorCommission ==
    LET v == at + 1 IN
    /\ pc = "commission"
    /\ NextItem(N, "rewards")
    /\ \/ /\ owed.commission[v] > 0
          /\ Pays(v, Whole(owed.commission[v]), 0)
          /\ owed' = [owed EXCEPT !.commission[v] = @ % Unit]
          /\ UNCHANGED failed
       \/ /\ failed' = IF owed.commission[v] > 0
                       THEN failed \cup {<<"commission", v>>} ELSE failed
          /\ UNCHANGED <<owed, distr>>
    /\ UNCHANGED <<context, staking, heights, reference, closeFailed>>

\* The fraction of a reward goes to the community pool.  An error is ignored.
WithdrawDelegationRewards ==
    LET d == at + 1 IN
    /\ pc = "rewards"
    /\ NextItem(Len(ValidatorOf), "clear")
    /\ \/ /\ Pays(ValidatorOf[d], owed.reward[d], owed.reward[d] % Unit)
          /\ owed' = [owed EXCEPT !.reward[d] = 0]
          /\ heights' = [heights EXCEPT !.starting[d] = ctxHeight]
          /\ UNCHANGED failed
       \/ /\ failed' = failed \cup {<<"reward", d>>}
          /\ UNCHANGED <<owed, distr, heights>>
    /\ UNCHANGED <<context, staking, reference, closeFailed>>

\* Defect: the context keeps its height.
SetHeightKept == savedHeight' = ctxHeight /\ UNCHANGED ctxHeight

SetHeightZero == savedHeight' = ctxHeight /\ ctxHeight' = 0

\* Slash events and historical rewards are deleted.
ClearHistory ==
    /\ pc = "clear"
    /\ GoTo("validators")
    /\ heights' = [heights EXCEPT !.slash = {}]
    /\ reference' = [v \in Validators |-> 0]
    /\ SetHeightZero
    /\ UNCHANGED <<request, staking, owed, distr, observed>>

\* Defect: what is outstanding is dropped.
DonateNothing(d, v) == [d EXCEPT !.outstanding[v] = 0]

Donate(d, v) == [d EXCEPT !.pool = @ + d.outstanding[v], !.outstanding[v] = 0]

\* What is still outstanding goes to the community pool, and
\* AfterValidatorCreated gives the validator new, empty records.
ReinitValidator ==
    LET v == at + 1 IN
    /\ pc = "validators"
    /\ NextItem(N, "delegations")
    /\ distr' = Donate(distr, v)
    /\ owed' = [owed EXCEPT !.commission[v] = 0]
    /\ reference' = [reference EXCEPT ![v] = 1]
    /\ UNCHANGED <<context, staking, heights, observed>>

\* The iteration over the validators ends early, and its error is not looked
\* at: the validators that it has not come to stay without records.
ReinitValidatorsFails ==
    /\ pc = "validators"
    /\ GoTo("delegations")
    /\ failed' = failed \cup {<<"reinit", v>> : v \in at + 1 .. N}
    /\ UNCHANGED <<context, staking, heights, money, closeFailed>>

\* BeforeDelegationCreated ends a period, which takes a reference from the
\* record before it, and AfterDelegationModified refers to the new record.
\* After the last delegation the context is at the old height again.
ReinitDelegation ==
    LET d == at + 1
        v == ValidatorOf[d] IN
    /\ pc = "delegations"
    /\ reference[v] > 0
    /\ NextItem(Len(ValidatorOf), "entries")
    /\ reference' = [reference EXCEPT ![v] = 2]
    /\ heights' = [heights EXCEPT !.starting[d] = ctxHeight]
    /\ owed' = [owed EXCEPT !.reward[d] = 0]
    /\ ctxHeight' = IF d = Len(ValidatorOf) THEN savedHeight ELSE ctxHeight
    /\ UNCHANGED <<savedHeight, request, staking, distr, observed>>

-----------------------------------------------------------------------------
(* The staking and slashing state.                                         *)

\* The entries of redelegations and of unbonding delegations.
ResetEntries ==
    /\ pc = "entries"
    /\ GoTo("jail")
    /\ heights' = [heights EXCEPT !.entry = [e \in Entries |-> 0]]
    /\ UNCHANGED <<context, staking, money, observed>>

\* The validators in descending order of their keys, that is of their addresses.
ResetValidator ==
    LET v == N - at IN
    /\ pc = "jail"
    /\ NextItem(N, "close")
    /\ heights' = [heights EXCEPT !.unbonding[v] = 0]
    /\ staking' = IF request.allowed # {} /\ v \notin request.allowed
                  THEN Jail(staking, v) ELSE staking
    /\ UNCHANGED <<context, money, observed>>

\* An error of Close is logged and ends the preparation, not the export.
CloseIterator(err) ==
    /\ pc = "close"
    /\ GoTo(IF err THEN "write" ELSE "apply")
    /\ closeFailed' = err
    /\ UNCHANGED <<context, staking, heights, money, failed>>

\* The pass over the power index panics on a jailed validator; a bonded
\* validator that it does not get to starts to unbond at the context's height.
ApplyAndReturnValidatorSetUpdates ==
    /\ pc = "apply"
    /\ Reached(staking) \cap staking.jailed = {}
    /\ GoTo("signing")
    /\ staking' = [staking EXCEPT !.bonded = TopValidators(staking)]
    /\ heights' = [heights EXCEPT !.unbonding =
                      [v \in Validators |-> IF v \in staking.bonded \ TopValidators(staking)
                                            THEN ctxHeight ELSE @[v]]]
    /\ UNCHANGED <<context, money, observed>>

\* The error of writing an info is dropped: that info keeps its old height.
ResetSigningInfos ==
    /\ pc = "signing"
    /\ GoTo("write")
    /\ \E kept \in SUBSET Validators :
           /\ heights' = [heights EXCEPT !.signing =
                             [v \in Validators |-> IF v \in kept THEN @[v] ELSE 0]]
           /\ failed' = failed \cup {<<"signing", v>> : v \in kept}
    /\ UNCHANGED <<context, staking, money, closeFailed>>

\* Every error of a store that is looked at ends the process.
StoreFails ==
    /\ pc \in {"commission", "rewards", "validators", "delegations", "entries", "jail",
               "apply", "signing"}
    /\ Stop("fatal")

\* There is no record to take a reference from, or a validator of the power
\* index is jailed.
KeeperPanics ==
    /\ \/ pc = "delegations" /\ reference[ValidatorOf[at + 1]] = 0
       \/ pc = "apply" /\ Reached(staking) \cap staking.jailed # {}
    /\ Stop("fatal")

\* ExportGenesisForModules and WriteValidators.
WriteGenesis ==
    /\ pc = "write"
    /\ \E how \in {"exported", "error"} : Stop(how)

Next ==
    \/ \E h \in Heights : AppExport(h)
    \/ CheckInvariants
    \/ WithdrawValidatorCommission \/ WithdrawDelegationRewards
    \/ ClearHistory
    \/ ReinitValidator \/ ReinitValidatorsFails
    \/ ReinitDelegation
    \/ ResetEntries
    \/ ResetValidator
    \/ \E err \in BOOLEAN : CloseIterator(err)
    \/ ApplyAndReturnValidatorSetUpdates
    \/ ResetSigningInfos
    \/ StoreFails \/ KeeperPanics
    \/ WriteGenesis

Spec == Init /\ [][Next]_vars

-----------------------------------------------------------------------------
(* Properties.                                                             *)

\* No coin is lost or made on the way, whichever withdrawals fail: the module
\* account of the distribution module holds the community pool and all
\* outstanding rewards after every step, so the exported genesis passes the
\* invariant the export started from.
NothingLost == distr.balance = Expected(distr)

ExportedForZero == pc = "exported" /\ request.forZeroHeight

\* A genesis for height zero holds no height of the old chain and no reward
\* of it: delegations start at zero, there are no slash events, nothing is
\* outstanding, and every validator's record is referred to.  There are three
\* ways out, and no others: the error of Close cuts the preparation short; a
\* signing info whose write failed keeps its height; and a validator that the
\* reinitialisation did not come to has no record, if nobody delegates to it
\* (with a delegation the process panics instead).
FreshStart ==
    ExportedForZero /\ ~closeFailed =>
        /\ heights = [AllHeights(0) EXCEPT !.signing = heights.signing]
        /\ \A v \in Validators : heights.signing[v] # 0 => <<"signing", v>> \in failed
        /\ \A v \in Validators :
               <<"reinit", v>> \notin failed \/ (\E d \in Delegations : ValidatorOf[d] = v)
               => distr.outstanding[v] = 0 /\ reference[v] > 0

\* Only fractions of a coin are left for the community pool where every
\* withdrawal succeeds: nobody's whole coins are donated.
OnlyFractionsDonated ==
    pc \in {"clear", "validators"} /\ failed = {} =>
        \A v \in Validators : distr.outstanding[v] < Unit

\* With a list of allowed addresses no other validator is bonded in the
\* exported genesis, although jailing one leaves it in the power index.
OnlyAllowedBonded ==
    ExportedForZero /\ ~closeFailed /\ request.allowed # {} =>
        staking.bonded \subseteq request.allowed \ staking.jailed
=============================================================================
