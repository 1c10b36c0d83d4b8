---------------------------- MODULE TokenFactory ----------------------------
(***************************************************************************)
(* The x/tokenfactory module of the chain: its keeper (one key-value       *)
(* store of Denom records), its message server and its genesis code.       *)
(*                                                                         *)
(* The store is a total function on denom names; NoDenom marks a key that  *)
(* is not set.  The module has no variables: a handler is a pair of        *)
(* operators, the condition under which it returns no error and the store  *)
(* it then leaves.  TxPipeline runs the handlers inside transactions and   *)
(* blocks, DenomWalk reads the store through the paginated query, and      *)
(* Simulation drives the handlers from the simulation operations.          *)
(***************************************************************************)
EXTENDS Naturals, FiniteSets, Sequences, SequencesExt

CONSTANTS
    Accounts,    \* account addresses
    Denoms,      \* denom names, numbered in the order of their store keys
    Details,     \* everything else a user writes into a Denom record:
                 \* Description, Ticker, Precision, Url, MaxSupply, Supply and
                 \* CanChangeMaxSupply, none of which a handler ever reads
    Authority,   \* the x/gov module account
    NoDenom      \* what the store holds under a key that is not set

Record == [owner : Accounts, denom : Denoms, details : Details]

ASSUME DenomsAssumption == Denoms \subseteq Nat /\ IsFiniteSet(Denoms)
ASSUME NoDenomAssumption == NoDenom \notin Record
ASSUME AuthorityAssumption == Authority \in Accounts

Store == [Denoms -> Record \cup {NoDenom}]

EmptyStore == [d \in Denoms |-> NoDenom]

-----------------------------------------------------------------------------
(* The keeper.                                                             *)

SetDenom(store, rec) == [store EXCEPT ![rec.denom] = rec]

GetDenom(store, d) == store[d]

Found(store, d) == GetDenom(store, d) # NoDenom

RemoveDenom(store, d) == [store EXCEPT ![d] = NoDenom]

\* An iterator over a set of keys visits them in ascending order: the i-th
\* has i - 1 of them before it.
InOrder(keys) ==
    [i \in 1 .. Cardinality(keys) |->
        CHOOSE d \in keys : Cardinality({e \in keys : e < d}) = i - 1]

\* The keys that are set, and the iteration over them.
StoredKeys(store) == {d \in Denoms : Found(store, d)}

KeysInOrder(store) == InOrder(StoredKeys(store))

\* Defect: the iteration ends before the last key.
GetAllButLast(store) ==
    [i \in 1 .. Cardinality(StoredKeys(store)) - 1 |-> store[KeysInOrder(store)[i]]]

GetAllDenom(store) ==
    [i \in 1 .. Cardinality(StoredKeys(store)) |-> store[KeysInOrder(store)[i]]]

-----------------------------------------------------------------------------
(* The messages.  "owner" is the signer field of each message; for         *)
(* UpdateParams that field is called authority.                            *)

CreateMsg == [type : {"CreateDenom"}, owner : Accounts, denom : Denoms, details : Details]
UpdateMsg == [type : {"UpdateDenom"}, owner : Accounts, denom : Denoms, details : Details]
DeleteMsg == [type : {"DeleteDenom"}, owner : Accounts, denom : Denoms]
ParamsMsg == [type : {"UpdateParams"}, owner : Accounts]

Msg == CreateMsg \cup UpdateMsg \cup DeleteMsg \cup ParamsMsg

\* Defect: the owner is not copied into the record.
RecordWithoutOwner(m) == [owner |-> NoDenom, denom |-> m.denom, details |-> m.details]

\* The handlers copy the fields of the message one by one.
RecordOf(m) == [owner |-> m.owner, denom |-> m.denom, details |-> m.details]

CreateDenomOK(store, m) == ~ Found(store, m.denom)
CreateDenom(store, m) == SetDenom(store, RecordOf(m))

UpdateDenomOK(store, m) ==
    /\ Found(store, m.denom)
    /\ m.owner = GetDenom(store, m.denom).owner
UpdateDenom(store, m) == SetDenom(store, RecordOf(m))

DeleteDenomOK(store, m) ==
    /\ Found(store, m.denom)
    /\ m.owner = GetDenom(store, m.denom).owner
DeleteDenom(store, m) == RemoveDenom(store, m.denom)

\* Params is an empty message, so writing it changes nothing a reader can see.
UpdateParamsOK(m) == m.owner = Authority

HandlerOK(store, m) ==
    \/ m.type = "CreateDenom" /\ CreateDenomOK(store, m)
    \/ m.type = "UpdateDenom" /\ UpdateDenomOK(store, m)
    \/ m.type = "DeleteDenom" /\ DeleteDenomOK(store, m)
    \/ m.type = "UpdateParams" /\ UpdateParamsOK(m)

Handle(store, m) ==
    CASE m.type = "CreateDenom"  -> CreateDenom(store, m)
      [] m.type = "UpdateDenom"  -> UpdateDenom(store, m)
      [] m.type = "DeleteDenom"  -> DeleteDenom(store, m)
      [] m.type = "UpdateParams" -> store

-----------------------------------------------------------------------------
(* Genesis: a list of records.                                             *)

Validate(list) ==
    \A i, j \in 1 .. Len(list) : list[i].denom = list[j].denom => i = j

InitGenesis(list) == FoldLeft(SetDenom, EmptyStore, list)

ExportGenesis(store) == GetAllDenom(store)
=============================================================================
