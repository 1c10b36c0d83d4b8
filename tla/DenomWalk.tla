----------------------------- MODULE DenomWalk ------------------------------
(***************************************************************************)
(* A client that lists all denoms through the paginated DenomAll query,    *)
(* page by page, while committed messages keep changing the store and the  *)
(* chain may be restarted from an exported genesis.  Every page is served  *)
(* from the state that is current when it is asked for, so one walk reads  *)
(* several versions of the store.                                          *)
(***************************************************************************)
EXTENDS TokenFactory

CONSTANTS
    PageSizes,   \* the page limits a client may ask for
    NoKey        \* the empty NextKey

ASSUME PageSizesAssumption == PageSizes \subseteq Nat \ {0}
ASSUME NoKeyAssumption == NoKey \notin Denoms

VARIABLES
    denoms,      \* the committed store of the module
    walk,        \* the client: how it pages, where it is, what it has read
    stable,      \* (observation) denoms stored ever since the walk began
    changed      \* (observation) the set of keys changed since then

vars == <<denoms, walk, stable, changed>>

Walk == [by : {"key", "offset"}, limit : PageSizes, key : Denoms \cup {NoKey},
         offset : Nat, got : Seq(Denoms), status : {"idle", "reading", "done"}]

TypeOK ==
    /\ denoms \in Store
    /\ walk \in Walk
    /\ stable \subseteq Denoms
    /\ changed \in BOOLEAN

Init ==
    /\ denoms = EmptyStore
    /\ walk \in [by : {"key", "offset"}, limit : PageSizes, key : {NoKey},
                 offset : {0}, got : {<<>>}, status : {"idle"}]
    /\ stable = {}
    /\ changed = FALSE

-----------------------------------------------------------------------------
(* The query.                                                              *)

\* The keys a request has still to cover: from its key on, or after its offset.
Rest(store, key, offset) ==
    IF key # NoKey
    THEN InOrder({d \in StoredKeys(store) : d >= key})
    ELSE SubSeq(KeysInOrder(store), offset + 1, Len(KeysInOrder(store)))

\* Defect: NextKey is the last key of the page.
DenomAllOverlaps(store, key, offset, limit) ==
    LET rest == Rest(store, key, offset) IN
    IF Len(rest) <= limit
    THEN [page |-> rest, next |-> NoKey]
    ELSE [page |-> SubSeq(rest, 1, limit), next |-> rest[limit]]

\* Defect: the offset is counted from one.
DenomAllOffsetFromOne(store, key, offset, limit) ==
    LET rest == Rest(store, key, offset + 1) IN
    IF Len(rest) <= limit
    THEN [page |-> rest, next |-> NoKey]
    ELSE [page |-> SubSeq(rest, 1, limit), next |-> rest[limit + 1]]

\* Defect: a page that starts at a key is one entry short.
DenomAllShortPage(store, key, offset, limit) ==
    LET rest == Rest(store, key, offset)
        n    == IF key # NoKey THEN limit - 1 ELSE limit
    IN  IF Len(rest) <= limit
        THEN [page |-> rest, next |-> NoKey]
        ELSE [page |-> SubSeq(rest, 1, n), next |-> rest[n + 1]]

\* The page and the NextKey that DenomAll returns.
DenomAll(store, key, offset, limit) ==
    LET rest == Rest(store, key, offset) IN
    IF Len(rest) <= limit
    THEN [page |-> rest, next |-> NoKey]
    ELSE [page |-> SubSeq(rest, 1, limit), next |-> rest[limit + 1]]

ReadPage ==
    /\ walk.status = "reading"
    /\ LET res == DenomAll(denoms, walk.key, walk.offset, walk.limit) IN
       walk' = [walk EXCEPT
                  !.got = @ \o res.page,
                  !.key = IF walk.by = "key" THEN res.next ELSE NoKey,
                  !.offset = IF walk.by = "offset" THEN @ + walk.limit ELSE 0,
                  !.status = IF res.next = NoKey THEN "done" ELSE "reading"]
    /\ UNCHANGED <<denoms, stable, changed>>

StartWalk ==
    /\ walk.status = "idle"
    /\ walk' = [walk EXCEPT !.status = "reading"]
    /\ stable' = StoredKeys(denoms)
    /\ changed' = FALSE
    /\ UNCHANGED denoms

-----------------------------------------------------------------------------
(* What may happen to the store between two pages.                         *)

StoreBecomes(store) ==
    /\ denoms' = store
    /\ stable' = stable \cap StoredKeys(store)
    /\ changed' = (changed \/ StoredKeys(store) # StoredKeys(denoms))
    /\ UNCHANGED walk

Create(m) == CreateDenomOK(denoms, m) /\ StoreBecomes(CreateDenom(denoms, m))

Update(m) == UpdateDenomOK(denoms, m) /\ StoreBecomes(UpdateDenom(denoms, m))

Delete(m) == DeleteDenomOK(denoms, m) /\ StoreBecomes(DeleteDenom(denoms, m))

\* A new chain is started from the exported state of this one.
RestartFromExport ==
    /\ Validate(ExportGenesis(denoms))
    /\ StoreBecomes(InitGenesis(ExportGenesis(denoms)))

Next ==
    \/ \E m \in CreateMsg : Create(m)
    \/ \E m \in UpdateMsg : Update(m)
    \/ \E m \in DeleteMsg : Delete(m)
    \/ RestartFromExport
    \/ StartWalk
    \/ ReadPage

Spec == Init /\ [][Next]_vars

\* The client asks for the next page until there is none.
FairSpec == Spec /\ WF_vars(ReadPage)

-----------------------------------------------------------------------------
(* Properties.                                                             *)

(***************************************************************************)
(* A walk by NextKey (DenomAll over query.Paginate) misses no denom that   *)
(* was stored all along and returns no denom twice, whatever was created   *)
(* or deleted between its pages, the denom under the cursor included.      *)
(***************************************************************************)
KeyWalkExact ==
    walk.by = "key" =>
        /\ \A i, j \in DOMAIN walk.got : i < j => walk.got[i] < walk.got[j]
        /\ walk.status = "done" => stable \subseteq {walk.got[i] : i \in DOMAIN walk.got}

(***************************************************************************)
(* A walk by offset (DenomAll with Pagination.Offset) is exact as long as  *)
(* no key was set or removed during it; records may be overwritten.        *)
(***************************************************************************)
OffsetWalkExact ==
    walk.by = "offset" /\ walk.status = "done" /\ ~changed =>
        walk.got = InOrder(stable)

(***************************************************************************)
(* The exported genesis always passes the module's own Validate, and       *)
(* importing it gives back the very same store (ExportGenesis, Validate,   *)
(* InitGenesis): a chain restarted from an export loses no denom.          *)
(***************************************************************************)
ExportRoundTrips ==
    /\ Validate(ExportGenesis(denoms))
    /\ InitGenesis(ExportGenesis(denoms)) = denoms

(***************************************************************************)
(* A walk that was started comes to its end although denoms keep being     *)
(* created: NextKey moves strictly up through a finite set of keys.        *)
(***************************************************************************)
WalkEnds == (walk.status = "reading") ~> (walk.status = "done")
=============================================================================
