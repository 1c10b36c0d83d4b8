----------------------------- MODULE Simulation -----------------------------
(***************************************************************************)
(* The randomized simulation of x/tokenfactory: its genesis and its three  *)
(* weighted operations.  The simulator picks operations, accounts and      *)
(* denom names at random; a delivery that fails ends the simulation with   *)
(* an error.                                                               *)
(***************************************************************************)
EXTENDS TokenFactory, FiniteSetsExt

CONSTANTS
    SimAccounts,   \* the accounts whose keys the simulator has
    Unset          \* the details of a message that fills in none of them

\* One of Accounts is not the simulator's: it owns the denoms of the genesis.
ASSUME SimAccountsAssumption == SimAccounts \subseteq Accounts /\ SimAccounts # Accounts
ASSUME UnsetAssumption == Unset \in Details
ASSUME GenesisDenomsAssumption == {0, 1} \subseteq Denoms

VARIABLES
    simDenoms,   \* the store of the module
    failed,      \* has a delivery failed?
    last         \* (observation) the last operation and the message it delivered

simVars == <<simDenoms, failed, last>>

SimTypeOK ==
    /\ simDenoms \in Store
    /\ failed \in BOOLEAN
    /\ last.op \in {"none", "create", "update", "delete"}
    /\ last.op # "none" => last.msg \in Msg

\* GenerateGenesisState: "0" and "1", each owned by a freshly sampled account.
GenerateGenesisState ==
    [i \in {1, 2} |-> [owner   |-> CHOOSE a \in Accounts : a \notin SimAccounts,
                       denom   |-> i - 1,
                       details |-> Unset]]

SimInit ==
    /\ simDenoms = InitGenesis(GenerateGenesisState)
    /\ failed = FALSE
    /\ last = [op |-> "none"]

-----------------------------------------------------------------------------
\* GenAndDeliverTxWithRandFees, signed by the owner in the message.
Deliver(op, m) ==
    /\ last' = [op |-> op, msg |-> m]
    /\ simDenoms' = IF HandlerOK(simDenoms, m) THEN Handle(simDenoms, m) ELSE simDenoms
    /\ failed' = ~ HandlerOK(simDenoms, m)

\* A NoOpMsg is returned, nothing is delivered.
NoOp == last' = [op |-> "none"] /\ UNCHANGED <<simDenoms, failed>>

\* Defect: the owner of the message is not filled in.
UpdateOfNobody(rec) == [type |-> "UpdateDenom", owner |-> NoDenom, denom |-> rec.denom,
                        details |-> Unset]

\* A MsgUpdateDenom with only its owner and its denom set.
UpdateOf(rec) == [type |-> "UpdateDenom", owner |-> rec.owner, denom |-> rec.denom,
                  details |-> Unset]

\* Where the denoms of known owners are in the list of all denoms.
KnownOwners == {i \in 1 .. Len(GetAllDenom(simDenoms)) :
                    GetAllDenom(simDenoms)[i].owner \in SimAccounts}

\* Defect: the found account, but the first denom of the list.
FirstInList ==
    [GetAllDenom(simDenoms)[Min(KnownOwners)] EXCEPT !.denom = GetAllDenom(simDenoms)[1].denom]

\* The loop over GetAllDenom stops at the first owner that FindAccount knows.
FirstKnown == GetAllDenom(simDenoms)[Min(KnownOwners)]

SimulateMsgCreateDenom(acc, d) ==
    IF Found(simDenoms, d) THEN NoOp
    ELSE Deliver("create", [type |-> "CreateDenom", owner |-> acc, denom |-> d,
                            details |-> Unset])

SimulateMsgUpdateDenom ==
    IF KnownOwners = {} THEN NoOp ELSE Deliver("update", UpdateOf(FirstKnown))

\* The message it builds is a MsgUpdateDenom too.
SimulateMsgDeleteDenom ==
    IF KnownOwners = {} THEN NoOp ELSE Deliver("delete", UpdateOf(FirstKnown))

WeightedOperations ==
    \/ \E acc \in SimAccounts, d \in Denoms : SimulateMsgCreateDenom(acc, d)
    \/ SimulateMsgUpdateDenom
    \/ SimulateMsgDeleteDenom

\* A failed delivery ends the run.
SimNext == ~ failed /\ WeightedOperations

SimSpec == SimInit /\ [][SimNext]_simVars

-----------------------------------------------------------------------------
(* Properties.                                                             *)

(***************************************************************************)
(* No operation delivers a message that its handler refuses, after any     *)
(* sequence of operations: the look-ups of the operations (GetDenom,       *)
(* FindAccount over GetAllDenom) agree with the checks of the message      *)
(* server, so the simulation never ends with a false alarm.                *)
(***************************************************************************)
NeverRefused == ~ failed

(***************************************************************************)
(* SimulateMsgDeleteDenom is registered with the weight of MsgDeleteDenom: *)
(* when it has delivered a message, the denom it chose is gone.            *)
(***************************************************************************)
DeleteOperationDeletes == last.op = "delete" => ~ Found(simDenoms, last.msg.denom)
=============================================================================
