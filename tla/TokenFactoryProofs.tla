------------------------- MODULE TokenFactoryProofs -------------------------
(***************************************************************************)
(* Proofs about the store of x/tokenfactory: the order of its iterators,   *)
(* the genesis round trip, the paginated walk over the denoms (DenomWalk)  *)
(* and the operations of the simulation (Simulation), for every finite set *)
(* of denoms and all page sizes.                                           *)
(***************************************************************************)
EXTENDS DenomWalk, Simulation, FoldTheorems, SequenceTheorems

-----------------------------------------------------------------------------
(* Iteration in key order.                                                 *)

Rank(keys) == [d \in keys |-> Cardinality({e \in keys : e < d})]

Ascending(s) == \A i, j \in 1 .. Len(s) : i < j => s[i] < s[j]

Covers(s, keys) == \A d \in keys : \E i \in 1 .. Len(s) : s[i] = d

\* s lists the keys: each of them once, the smaller ones first.
Listing(s, keys) ==
    /\ s \in Seq(keys)
    /\ Len(s) = Cardinality(keys)
    /\ Ascending(s)
    /\ Covers(s, keys)

(***************************************************************************)
(* The number of keys before a key is smaller than their number and grows  *)
(* with the key; so every smaller number is the rank of some key.          *)
(***************************************************************************)
LEMMA RankRises ==
  ASSUME NEW S \in SUBSET Nat, IsFiniteSet(S)
  PROVE  /\ Cardinality(S) \in Nat
         /\ Rank(S) \in [S -> 0 .. (Cardinality(S) - 1)]
         /\ \A d, e \in S : d < e => Rank(S)[d] < Rank(S)[e]
         /\ \A k \in 0 .. (Cardinality(S) - 1) : \E d \in S : Rank(S)[d] = k
<1> DEFINE n == Cardinality(S)
           Below(d) == {e \in S : e < d}
<1>1. n \in Nat
  BY FS_CardinalityType
<1>2. ASSUME NEW d \in S
      PROVE  /\ IsFiniteSet(Below(d)) /\ Cardinality(Below(d)) \in Nat
             /\ Rank(S)[d] = Cardinality(Below(d))
  <2>1. IsFiniteSet(Below(d))
    BY FS_Subset
  <2>2. QED
    BY <2>1, FS_CardinalityType DEF Rank
<1>3. ASSUME NEW d \in S PROVE Rank(S)[d] \in 0 .. (n - 1)
  <2>1. IsFiniteSet(S \ {d}) /\ Cardinality(S \ {d}) = n - 1
    BY FS_RemoveElement
  <2>2. Below(d) \in SUBSET (S \ {d})
    OBVIOUS
  <2>3. Cardinality(Below(d)) <= n - 1
    BY <2>1, <2>2, FS_Subset
  <2> HIDE DEF n, Below
  <2>4. QED
    BY <1>1, <1>2, <2>3
<1>4. ASSUME NEW d \in S, NEW e \in S, d < e PROVE Rank(S)[d] < Rank(S)[e]
  <2>1. /\ IsFiniteSet(Below(d) \cup {d})
        /\ Cardinality(Below(d) \cup {d}) = Cardinality(Below(d)) + 1
    <3>1. d \notin Below(d) /\ IsFiniteSet(Below(d))
      BY <1>2
    <3> HIDE DEF Below
    <3>2. QED
      BY <3>1, FS_AddElement
  <2>2. Below(d) \cup {d} \in SUBSET Below(e)
    <3>1. ASSUME NEW x \in Below(d) PROVE x < e
      <4>1. x \in Nat /\ d \in Nat /\ e \in Nat /\ x < d
        OBVIOUS
      <4>2. QED
        BY <1>4, <4>1
    <3>2. QED
      BY <1>4, <3>1
  <2>3. Cardinality(Below(d) \cup {d}) <= Cardinality(Below(e))
    BY <1>2, <2>2, FS_Subset
  <2> HIDE DEF Below
  <2>4. QED
    BY <1>2, <2>1, <2>3
<1>5. Rank(S) \in [S -> 0 .. (n - 1)]
  BY <1>3 DEF Rank
<1>6. ASSUME NEW k \in 0 .. (n - 1) PROVE \E d \in S : Rank(S)[d] = k
  <2> DEFINE T == 0 .. (n - 1)
  <2>1. IsFiniteSet(T) /\ Cardinality(T) = n
    BY <1>1, FS_Interval
  <2>2. Rank(S) \in Injection(S, T)
    <3>1. ASSUME NEW d \in S, NEW e \in S, d # e PROVE Rank(S)[d] # Rank(S)[e]
      <4>1. d \in Nat /\ e \in Nat
        OBVIOUS
      <4>2. d < e \/ e < d
        BY <3>1, <4>1
      <4>3. Rank(S)[d] \in 0 .. (n - 1) /\ Rank(S)[e] \in 0 .. (n - 1)
        BY <1>3
      <4> HIDE DEF n
      <4>4. QED
        BY <1>1, <1>4, <4>2, <4>3
    <3> HIDE DEF n
    <3>2. QED
      BY <1>5, <3>1 DEF Injection, IsInjective
  <2>3. T = 0 .. (n - 1)
    OBVIOUS
  <2>4. Rank(S) \in Surjection(S, T)
    <3> DEFINE f == Rank(S)
    <3>1. f \in Injection(S, T) /\ IsFiniteSet(T) /\ Cardinality(S) = Cardinality(T)
      BY <2>1, <2>2
    <3> HIDE DEF T, f
    <3>2. f \in Surjection(S, T)
      BY <3>1, FS_Injection
    <3>3. QED
      BY <3>2 DEF f
  <2>5. QED
    BY <2>4 DEF Surjection
<1>7. QED
  BY <1>1, <1>4, <1>5, <1>6

(***************************************************************************)
(* What an iterator over a finite set of keys visits.                      *)
(***************************************************************************)
LEMMA InOrderLists ==
  ASSUME NEW S \in SUBSET Nat, IsFiniteSet(S)
  PROVE  Listing(InOrder(S), S)
<1> DEFINE n == Cardinality(S)
           q == InOrder(S)
<1>1. n \in Nat
  BY RankRises
<1>2. ASSUME NEW i \in 1 .. n PROVE q[i] \in S /\ Rank(S)[q[i]] = i - 1
  <2>1. i - 1 \in 0 .. (n - 1)
    BY <1>1
  <2>2. \E d \in S : Cardinality({e \in S : e < d}) = i - 1
    BY <2>1, RankRises DEF Rank
  <2>3. q[i] = CHOOSE d \in S : Cardinality({e \in S : e < d}) = i - 1
    BY DEF InOrder
  <2>4. q[i] \in S /\ Cardinality({e \in S : e < q[i]}) = i - 1
    <3> HIDE DEF q
    <3>1. QED
      BY <2>2, <2>3
  <2> HIDE DEF q
  <2>5. QED
    BY <2>4 DEF Rank
<1>3. q \in [1 .. n -> S]
  <2> DEFINE D == 1 .. n
             visit(i) == CHOOSE d \in S : Cardinality({e \in S : e < d}) = i - 1
  <2>1. q = [i \in D |-> visit(i)]
    BY DEF InOrder
  <2>2. \A i \in D : q[i] \in S
    BY <1>2
  <2> HIDE DEF q, D, visit
  <2>3. q \in [D -> S]
    BY <2>1, <2>2
  <2>4. QED
    BY <2>3 DEF D
<1>4. q \in Seq(S) /\ Len(q) = n
  <2> HIDE DEF q, n
  <2>1. QED
    BY <1>1, <1>3
<1> HIDE DEF q
<1>5. \A d \in S : Rank(S)[d] \in 0 .. (n - 1)
  BY RankRises
<1>6. \A d, e \in S : d < e => Rank(S)[d] < Rank(S)[e]
  BY RankRises
<1> HIDE DEF n
<1>7. ASSUME NEW i \in 1 .. n, NEW j \in 1 .. n, i < j PROVE q[i] < q[j]
  <2>1. q[i] \in S /\ q[j] \in S /\ Rank(S)[q[i]] = i - 1 /\ Rank(S)[q[j]] = j - 1
    BY <1>2
  <2>2. i - 1 < j - 1 /\ i - 1 \in Int /\ j - 1 \in Int
    BY <1>1, <1>7
  <2>3. ~ (q[j] < q[i])
    <3>1. SUFFICES ASSUME q[j] < q[i] PROVE FALSE
      OBVIOUS
    <3>2. Rank(S)[q[j]] < Rank(S)[q[i]]
      BY <1>6, <2>1, <3>1
    <3>3. QED
      BY <2>1, <2>2, <3>2
  <2>4. q[i] # q[j]
    BY <2>1, <2>2
  <2>5. q[i] \in Nat /\ q[j] \in Nat
    BY <2>1
  <2>6. QED
    BY <2>3, <2>4, <2>5
<1>8. ASSUME NEW d \in S PROVE \E i \in 1 .. n : q[i] = d
  <2> DEFINE i == Rank(S)[d] + 1
  <2>1. i \in 1 .. n /\ i - 1 = Rank(S)[d]
    BY <1>1, <1>5
  <2> HIDE DEF i
  <2>2. q[i] \in S /\ Rank(S)[q[i]] = Rank(S)[d]
    BY <1>2, <2>1
  <2>3. ~ (q[i] < d) /\ ~ (d < q[i])
    <3>1. Rank(S)[d] \in 0 .. (n - 1)
      BY <1>5
    <3>2. ~ (Rank(S)[d] < Rank(S)[d])
      BY <1>1, <3>1
    <3>3. QED
      BY <1>6, <2>2, <3>2
  <2>4. q[i] \in Nat /\ d \in Nat
    BY <2>2
  <2>5. q[i] = d
    BY <2>3, <2>4
  <2>6. QED
    BY <2>1, <2>5
<1>9. QED
  BY <1>4, <1>7, <1>8 DEF Listing, Ascending, Covers, n, q

-----------------------------------------------------------------------------
(* Genesis.                                                                *)

\* Every record is stored under its own name.
KeyMatches(store) == \A d \in Denoms : Found(store, d) => store[d].denom = d

GenesisSteps(list) == [i \in 1 .. Len(list) |-> [x \in Store |-> SetDenom(x, list[i])]]

(***************************************************************************)
(* InitGenesis sets the records of a list one after the other.             *)
(***************************************************************************)
LEMMA GenesisFold ==
  ASSUME NEW list \in Seq(Record)
  PROVE  \E r : /\ StepPrefixes(r, Len(list), Store, EmptyStore, GenesisSteps(list))
                /\ InitGenesis(list) = r[Len(list)]
<1> DEFINE n == Len(list)
           step == GenesisSteps(list)
           mx(s) == CHOOSE x \in s : \A y \in s : x >= y
           Eq(g) == g = [s \in SUBSET (DOMAIN list) |->
                           IF s = {} THEN EmptyStore
                           ELSE SetDenom(g[s \ {mx(s)}], list[mx(s)])]
           it == CHOOSE g : Eq(g)
<1>1. n \in Nat /\ DOMAIN list = 1 .. n /\ \A i \in 1 .. n : list[i] \in Record
  OBVIOUS
<1>2. EmptyStore \in Store
  BY DEF EmptyStore, Store
<1>3. step \in [1 .. n -> [Store -> Store]]
  <2>1. ASSUME NEW i \in 1 .. n, NEW x \in Store PROVE SetDenom(x, list[i]) \in Store
    BY <1>1 DEF SetDenom, Store
  <2>2. QED
    BY <2>1 DEF GenesisSteps
<1>4. InitGenesis(list) = it[DOMAIN list]
  BY DEF InitGenesis, FoldLeft, MapThenFoldSet, Max
<1>5. ASSUME NEW s \in (SUBSET (1 .. n)) \ {{}}
      PROVE  mx(s) = Largest(n)[s] /\ Largest(n)[s] \in s
  <2>1. mx(s) = Largest(n)[s]
    BY DEF Largest
  <2>2. Picks(Largest(n), 1 .. n)
    BY <1>1, LargestPicks
  <2> HIDE DEF mx, n
  <2>3. QED
    BY <2>1, <2>2 DEF Picks
<1>6. \A i \in 1 .. n : \A x \in Store : step[i][x] = SetDenom(x, list[i])
  BY DEF GenesisSteps
<1> HIDE DEF step, mx
<1>7. \E g : Eq(g)
  <2>1. PICK g : FoldsSubsets(g, 1 .. n, Store, EmptyStore, Largest(n), step)
    BY <1>1, <1>2, <1>3, SequenceFold
  <2>2. ASSUME NEW s \in (SUBSET (1 .. n)) \ {{}}
        PROVE  g[s] = SetDenom(g[s \ {mx(s)}], list[mx(s)])
    <3>1. mx(s) \in 1 .. n /\ s \ {mx(s)} \in SUBSET (1 .. n)
      BY <1>5
    <3>2. g[s \ {mx(s)}] \in Store
      BY <2>1, <3>1 DEF FoldsSubsets
    <3>3. g[s] = step[mx(s)][g[s \ {mx(s)}]]
      BY <1>5, <2>1 DEF FoldsSubsets
    <3>4. QED
      BY <1>6, <3>1, <3>2, <3>3
  <2>3. g[{}] = EmptyStore /\ g \in [SUBSET (1 .. n) -> Store]
    BY <2>1 DEF FoldsSubsets
  <2>4. Eq(g)
    BY <1>1, <2>2, <2>3
  <2>5. QED
    BY <2>4
<1>8. Eq(it)
  <2> HIDE DEF Eq
  <2>1. QED
    BY <1>7, Zenon
<1> HIDE DEF it
<1>9. FollowsFold(it, 1 .. n, Store, EmptyStore, Largest(n), step)
  <2>1. it[{}] = EmptyStore
    BY <1>8
  <2>2. ASSUME NEW s \in (SUBSET (1 .. n)) \ {{}}, it[s \ {Largest(n)[s]}] \in Store
        PROVE  it[s] = step[Largest(n)[s]][it[s \ {Largest(n)[s]}]]
    <3>1. it[s] = SetDenom(it[s \ {mx(s)}], list[mx(s)])
      BY <1>1, <1>8
    <3>2. mx(s) = Largest(n)[s] /\ mx(s) \in 1 .. n
      BY <1>5
    <3>3. QED
      BY <1>6, <2>2, <3>1, <3>2
  <2>3. QED
    BY <2>1, <2>2 DEF FollowsFold
<1>10. n \in Nat
  BY <1>1
<1> HIDE DEF n
<1>11. \A g : FollowsFold(g, 1 .. n, Store, EmptyStore, Largest(n), step) =>
          \E r : StepPrefixes(r, n, Store, EmptyStore, step) /\ g[1 .. n] = r[n]
  BY <1>2, <1>3, <1>10, SequenceFold
<1>12. PICK r : StepPrefixes(r, n, Store, EmptyStore, step) /\ it[1 .. n] = r[n]
  BY <1>9, <1>11
<1>13. QED
  BY <1>1, <1>4, <1>12 DEF step, n

(***************************************************************************)
(* The keys that are set, as the iterator visits them, and the exported    *)
(* list of their records.                                                  *)
(***************************************************************************)
LEMMA ExportedList ==
  ASSUME NEW store \in Store
  PROVE  /\ StoredKeys(store) \in SUBSET Nat /\ IsFiniteSet(StoredKeys(store))
         /\ Listing(KeysInOrder(store), StoredKeys(store))
         /\ ExportGenesis(store) \in Seq(Record)
         /\ Len(ExportGenesis(store)) = Len(KeysInOrder(store))
         /\ \A i \in 1 .. Len(KeysInOrder(store)) :
              ExportGenesis(store)[i] = store[KeysInOrder(store)[i]]
<1> DEFINE keys == StoredKeys(store)
           q == KeysInOrder(store)
           n == Cardinality(keys)
<1>1. keys \in SUBSET Nat /\ IsFiniteSet(keys) /\ keys \in SUBSET Denoms
  BY DenomsAssumption, FS_Subset DEF StoredKeys
<1>2. Listing(q, keys)
  BY <1>1, InOrderLists DEF KeysInOrder
<1>3. n \in Nat /\ Len(q) = n
  BY <1>1, <1>2, FS_CardinalityType DEF Listing
<1>4. ASSUME NEW i \in 1 .. n PROVE store[q[i]] \in Record
  <2>1. q[i] \in keys
    BY <1>2, <1>3 DEF Listing
  <2>2. QED
    BY <2>1 DEF StoredKeys, Found, GetDenom, Store
<1>5. ExportGenesis(store) = [i \in 1 .. n |-> store[q[i]]]
  BY DEF ExportGenesis, GetAllDenom
<1> HIDE DEF q, n, keys
<1>6. ExportGenesis(store) \in [1 .. n -> Record]
  BY <1>4, <1>5
<1>7. ExportGenesis(store) \in Seq(Record) /\ Len(ExportGenesis(store)) = n
  BY <1>3, <1>6
<1>8. QED
  BY <1>1, <1>2, <1>3, <1>5, <1>7 DEF q, n, keys

(***************************************************************************)
(* A store in which every record is under its own name is exported to a    *)
(* list that passes Validate and from which InitGenesis makes it again.    *)
(***************************************************************************)
LEMMA ImportExport ==
  ASSUME NEW store \in Store, KeyMatches(store)
  PROVE  /\ Validate(ExportGenesis(store))
         /\ InitGenesis(ExportGenesis(store)) = store
<1> DEFINE keys == StoredKeys(store)
           q == KeysInOrder(store)
           list == ExportGenesis(store)
           n == Len(q)
           Visited(k) == {q[i] : i \in 1 .. k}
           Part(k) == [d \in Denoms |-> IF d \in Visited(k) THEN store[d] ELSE NoDenom]
<1>1. /\ keys \in SUBSET Nat /\ IsFiniteSet(keys) /\ Listing(q, keys)
      /\ list \in Seq(Record) /\ Len(list) = n
      /\ \A i \in 1 .. n : list[i] = store[q[i]]
  BY ExportedList
<1>2. n \in Nat /\ \A i \in 1 .. n : q[i] \in keys
  BY <1>1 DEF Listing
<1>3. \A d \in Denoms : d \in keys <=> store[d] # NoDenom
  BY DEF StoredKeys, Found, GetDenom
<1>4. keys \subseteq Denoms
  BY DEF StoredKeys
<1> HIDE DEF keys, q, list, n
<1>5. ASSUME NEW i \in 1 .. n PROVE q[i] \in Denoms /\ q[i] \in Nat /\ list[i].denom = q[i]
  <2>1. q[i] \in Denoms /\ store[q[i]] # NoDenom
    BY <1>2, <1>3, <1>4
  <2>2. store[q[i]].denom = q[i]
    BY <2>1 DEF KeyMatches, Found, GetDenom
  <2>3. QED
    BY <1>1, <1>2, <2>1, <2>2
<1>6. Validate(list)
  <2>1. ASSUME NEW i \in 1 .. n, NEW j \in 1 .. n, q[i] = q[j], i < j PROVE FALSE
    <3>1. q[i] < q[j]
      BY <1>1, <2>1 DEF Listing, Ascending, n
    <3>2. QED
      BY <1>5, <2>1, <3>1
  <2>2. ASSUME NEW i \in 1 .. n, NEW j \in 1 .. n, list[i].denom = list[j].denom PROVE i = j
    <3>1. q[i] = q[j]
      BY <1>5, <2>2
    <3>2. i \in Nat /\ j \in Nat
      OBVIOUS
    <3>3. ~ (i < j) /\ ~ (j < i)
      BY <2>1, <3>1
    <3>4. QED
      BY <3>2, <3>3
  <2>3. QED
    BY <1>1, <2>2 DEF Validate
<1>7. PICK r : StepPrefixes(r, n, Store, EmptyStore, GenesisSteps(list)) /\ InitGenesis(list) = r[n]
  BY <1>1, GenesisFold
<1>8. r[0] = Part(0)
  <2>1. Visited(0) = {}
    OBVIOUS
  <2> HIDE DEF Visited
  <2>2. QED
    BY <1>7, <2>1 DEF StepPrefixes, EmptyStore
<1>9. ASSUME NEW k \in 1 .. n, r[k - 1] = Part(k - 1) PROVE r[k] = Part(k)
  <2>1. k - 1 \in 0 .. n /\ k \in Nat
    BY <1>2
  <2>2. r[k - 1] \in Store
    BY <1>7, <2>1 DEF StepPrefixes
  <2>3. r[k] = SetDenom(r[k - 1], list[k])
    BY <1>1, <1>7, <2>2 DEF StepPrefixes, GenesisSteps
  <2>4. r[k] = [r[k - 1] EXCEPT ![q[k]] = store[q[k]]]
    BY <1>1, <1>5, <2>3 DEF SetDenom
  <2>5. Visited(k) = Visited(k - 1) \cup {q[k]}
    <3>1. \A i : i \in 1 .. k <=> i \in 1 .. (k - 1) \/ i = k
      BY <2>1
    <3>2. QED
      BY <3>1
  <2>6. q[k] \in Denoms
    BY <1>5
  <2> HIDE DEF Visited
  <2>7. QED
    BY <1>9, <2>4, <2>5, <2>6
<1>10. r[n] = Part(n)
  <2> DEFINE Good == {k \in Nat : k \in 0 .. n => r[k] = Part(k)}
  <2> HIDE DEF Part
  <2>1. 0 \in Good
    BY <1>8
  <2>2. ASSUME NEW k \in Nat, k \in Good PROVE k + 1 \in Good
    <3>1. SUFFICES ASSUME k + 1 \in 0 .. n PROVE r[k + 1] = Part(k + 1)
      OBVIOUS
    <3>2. k + 1 \in 1 .. n /\ k \in 0 .. n /\ (k + 1) - 1 = k
      BY <1>2, <3>1
    <3>3. r[(k + 1) - 1] = Part((k + 1) - 1)
      BY <2>2, <3>2
    <3>4. QED
      BY <1>9, <3>2, <3>3
  <2> HIDE DEF Good
  <2>3. n \in Good
    BY <1>2, <2>1, <2>2, NatSetInduction
  <2>4. QED
    BY <1>2, <2>3 DEF Good
<1>11. Part(n) = store
  <2>1. ASSUME NEW d \in Denoms PROVE Part(n)[d] = store[d]
    <3>1. CASE d \in keys
      <4>1. \E i \in 1 .. n : q[i] = d
        BY <1>1, <3>1 DEF Listing, Covers, n
      <4>2. d \in Visited(n)
        BY <4>1
      <4> HIDE DEF Visited
      <4>3. QED
        BY <4>2
    <3>2. CASE d \notin keys
      <4>1. d \notin Visited(n)
        BY <1>2, <3>2
      <4>2. store[d] = NoDenom
        BY <1>3, <3>2
      <4> HIDE DEF Visited
      <4>3. QED
        BY <4>1, <4>2
    <3>3. QED
      BY <3>1, <3>2
  <2>2. store = [d \in Denoms |-> store[d]] /\ Part(n) = [d \in Denoms |-> Part(n)[d]]
    BY DEF Store
  <2> HIDE DEF Part
  <2>3. QED
    BY <2>1, <2>2
<1>12. QED
  BY <1>6, <1>7, <1>10, <1>11 DEF list

-----------------------------------------------------------------------------
(* The inductive invariant.                                                *)

Read(d) == \E i \in 1 .. Len(walk.got) : walk.got[i] = d

\* A walk by NextKey: everything read is before the cursor, and what was
\* stored all along has been read or is still ahead.
KeyCursor ==
    walk.by = "key" =>
        /\ walk.offset = 0
        /\ Ascending(walk.got)
        /\ walk.status = "idle" => walk.key = NoKey
        /\ walk.status # "done" /\ walk.key = NoKey => walk.got = <<>>
        /\ walk.key # NoKey => \A i \in 1 .. Len(walk.got) : walk.got[i] < walk.key
        /\ \A d \in stable :
             \/ Read(d)
             \/ walk.status # "done" /\ (walk.key = NoKey \/ walk.key <= d)

\* A walk by offset over a set of keys that nobody changed: the pages read so
\* far are the first keys of that set.
OffsetCursor ==
    walk.by = "offset" =>
        /\ walk.key = NoKey
        /\ walk.status = "idle" => walk.offset = 0 /\ walk.got = <<>>
        /\ walk.status # "idle" /\ ~changed => stable = StoredKeys(denoms)
        /\ walk.status = "reading" /\ ~changed =>
             /\ walk.offset <= Len(InOrder(stable))
             /\ walk.got = SubSeq(InOrder(stable), 1, walk.offset)
        /\ walk.status = "done" /\ ~changed => walk.got = InOrder(stable)

IInv ==
    /\ TypeOK
    /\ KeyMatches(denoms)
    /\ stable \subseteq StoredKeys(denoms)
    /\ KeyCursor
    /\ OffsetCursor

-----------------------------------------------------------------------------
(* Pages.                                                                  *)

\* A page of at most limit keys out of the rest that a request has to cover.
Cut(rest, limit) ==
    IF Len(rest) <= limit
    THEN [page |-> rest, next |-> NoKey]
    ELSE [page |-> SubSeq(rest, 1, limit), next |-> rest[limit + 1]]

\* A page is the first part of the keys, and next is the first key after it.
PageOf(page, next, keys) ==
    /\ page \in Seq(keys)
    /\ Ascending(page)
    /\ next = NoKey => Covers(page, keys)
    /\ next # NoKey =>
         /\ next \in keys
         /\ \A i \in 1 .. Len(page) : page[i] < next
         /\ \A d \in keys : d < next => \E i \in 1 .. Len(page) : page[i] = d

\* The keys that a request by key has still to cover.
From(store, key) == {d \in StoredKeys(store) : key = NoKey \/ key <= d}

(***************************************************************************)
(* The page and the NextKey that query.Paginate cuts from a list of keys.  *)
(***************************************************************************)
LEMMA CutsPage ==
  ASSUME NEW keys \in SUBSET Denoms, NEW rest, Listing(rest, keys), NEW limit \in Nat
  PROVE  PageOf(Cut(rest, limit).page, Cut(rest, limit).next, keys)
<1>1. rest \in Seq(keys) /\ Len(rest) \in Nat /\ \A i \in 1 .. Len(rest) : rest[i] \in keys
  BY DEF Listing
<1>2. \A d \in keys : d \in Nat /\ d # NoKey
  BY DenomsAssumption, NoKeyAssumption
<1>3. \A i, j \in 1 .. Len(rest) : i < j => rest[i] < rest[j]
  BY DEF Listing, Ascending
<1>4. \A d \in keys : \E i \in 1 .. Len(rest) : rest[i] = d
  BY DEF Listing, Covers
<1>5. CASE Len(rest) <= limit
  <2>1. Cut(rest, limit).page = rest /\ Cut(rest, limit).next = NoKey
    BY <1>5 DEF Cut
  <2>2. PageOf(rest, NoKey, keys)
    BY DEF PageOf, Listing
  <2>3. QED
    BY <2>1, <2>2
<1>6. CASE ~ (Len(rest) <= limit)
  <2> DEFINE p == SubSeq(rest, 1, limit)
             x == rest[limit + 1]
  <2>1. Cut(rest, limit).page = p /\ Cut(rest, limit).next = x
    BY <1>6 DEF Cut
  <2>2. limit + 1 \in 1 .. Len(rest) /\ \A i \in 1 .. limit : i \in 1 .. Len(rest)
    BY <1>1, <1>6
  <2>3. x \in keys /\ x \in Nat /\ x # NoKey
    BY <1>1, <1>2, <2>2
  <2>4. p \in Seq(keys) /\ Len(p) = limit /\ \A i \in 1 .. limit : p[i] = rest[i]
    <3>1. \A i \in 1 .. limit : rest[i] \in keys
      BY <1>1, <2>2
    <3>2. /\ p \in Seq(keys)
          /\ Len(p) = IF 1 <= limit THEN limit - 1 + 1 ELSE 0
          /\ \A i \in 1 .. limit - 1 + 1 : p[i] = rest[1 + i - 1]
      BY <3>1, SubSeqProperties, 1 \in Int, limit \in Int
    <3> HIDE DEF p
    <3>3. QED
      BY <3>2
  <2> HIDE DEF p
  <2>5. Ascending(p)
    BY <1>3, <2>2, <2>4 DEF Ascending
  <2>6. \A i \in 1 .. limit : p[i] < x
    <3>1. \A i \in 1 .. limit : i < limit + 1
      OBVIOUS
    <3>2. QED
      BY <1>3, <2>2, <2>4, <3>1
  <2> HIDE DEF x
  <2>7. ASSUME NEW d \in keys, d < x PROVE \E i \in 1 .. limit : p[i] = d
    <3>1. PICK i \in 1 .. Len(rest) : rest[i] = d
      BY <1>4
    <3>2. i \in Nat /\ d \in Nat
      BY <1>2
    <3>3. ~ (limit + 1 < i)
      <4>1. SUFFICES ASSUME limit + 1 < i PROVE FALSE
        OBVIOUS
      <4>2. x < d
        BY <1>3, <2>2, <3>1, <4>1 DEF x
      <4>3. QED
        BY <2>3, <2>7, <3>2, <4>2
    <3>4. i # limit + 1
      BY <2>3, <2>7, <3>1, <3>2 DEF x
    <3>5. i \in 1 .. limit
      BY <3>2, <3>3, <3>4
    <3>6. QED
      BY <2>4, <3>1, <3>5
  <2>8. PageOf(p, x, keys)
    BY <2>3, <2>4, <2>5, <2>6, <2>7 DEF PageOf
  <2>9. QED
    BY <2>1, <2>8
<1>7. QED
  BY <1>5, <1>6

(***************************************************************************)
(* What a request by key has still to cover, in order.                     *)
(***************************************************************************)
LEMMA RestByKey ==
  ASSUME NEW store \in Store, NEW key \in Denoms \cup {NoKey}
  PROVE  /\ From(store, key) \in SUBSET Denoms
         /\ Listing(Rest(store, key, 0), From(store, key))
<1>1. From(store, key) \in SUBSET StoredKeys(store) /\ StoredKeys(store) \in SUBSET Denoms
  BY DEF From, StoredKeys
<1>2. CASE key = NoKey
  <2>1. From(store, key) = StoredKeys(store)
    BY <1>2 DEF From
  <2>2. KeysInOrder(store) \in Seq(StoredKeys(store)) /\ Listing(KeysInOrder(store), StoredKeys(store))
    BY ExportedList DEF Listing
  <2>3. SubSeq(KeysInOrder(store), 1, Len(KeysInOrder(store))) = KeysInOrder(store)
    BY <2>2, SubSeqFull
  <2>4. Rest(store, key, 0) = KeysInOrder(store)
    BY <1>2, <2>3 DEF Rest
  <2>5. QED
    BY <1>1, <2>1, <2>2, <2>4
<1>3. CASE key # NoKey
  <2>1. \A d \in StoredKeys(store) : d \in Nat
    BY <1>1, DenomsAssumption
  <2>2. key \in Nat
    BY <1>3, DenomsAssumption
  <2>3. From(store, key) = {d \in StoredKeys(store) : d >= key}
    BY <1>3, <2>1, <2>2 DEF From
  <2>4. From(store, key) \in SUBSET Nat /\ IsFiniteSet(From(store, key))
    BY <1>1, DenomsAssumption, FS_Subset
  <2>5. Rest(store, key, 0) = InOrder(From(store, key))
    BY <1>3, <2>3 DEF Rest
  <2>6. QED
    BY <1>1, <2>4, <2>5, InOrderLists
<1>4. QED
  BY <1>2, <1>3

-----------------------------------------------------------------------------
(* The steps keep the invariant.                                           *)

(***************************************************************************)
(* A step that changes the store, to one in which every record is under    *)
(* its own name.                                                           *)
(***************************************************************************)
LEMMA StoreStep ==
  ASSUME IInv, NEW store \in Store, KeyMatches(store), StoreBecomes(store)
  PROVE  IInv'
<1>1. /\ denoms' = store /\ stable' = stable \cap StoredKeys(store) /\ walk' = walk
      /\ changed' = (changed \/ StoredKeys(store) # StoredKeys(denoms))
  BY DEF StoreBecomes
<1>2. TypeOK'
  BY <1>1 DEF IInv, TypeOK
<1>3. KeyMatches(denoms')
  BY <1>1
<1>4. stable' \subseteq StoredKeys(denoms')
  BY <1>1
<1>5. KeyCursor'
  BY <1>1 DEF IInv, KeyCursor, Read
<1>6. OffsetCursor'
  <2>1. CASE changed'
    BY <1>1, <2>1 DEF IInv, OffsetCursor
  <2>2. CASE ~ changed'
    <3>1. ~ changed /\ StoredKeys(store) = StoredKeys(denoms)
      BY <1>1, <2>2
    <3>2. stable' = stable
      BY <1>1, <3>1 DEF IInv
    <3>3. QED
      BY <1>1, <3>1, <3>2 DEF IInv, OffsetCursor
  <2>3. QED
    BY <2>1, <2>2
<1>7. QED
  BY <1>2, <1>3, <1>4, <1>5, <1>6 DEF IInv

(***************************************************************************)
(* Messages and restarts change the store in such a way.                   *)
(***************************************************************************)
LEMMA HandlerStep ==
  ASSUME IInv,
         \/ \E m \in CreateMsg : Create(m)
         \/ \E m \in UpdateMsg : Update(m)
         \/ \E m \in DeleteMsg : Delete(m)
         \/ RestartFromExport
  PROVE  IInv'
<1>1. denoms \in Store /\ KeyMatches(denoms)
  BY DEF IInv, TypeOK
<1>2. ASSUME NEW m \in CreateMsg \cup UpdateMsg, StoreBecomes(SetDenom(denoms, RecordOf(m)))
      PROVE  IInv'
  <2> DEFINE rec == RecordOf(m)
             store == SetDenom(denoms, rec)
  <2>1. rec \in Record
    BY DEF CreateMsg, UpdateMsg, RecordOf, Record
  <2> HIDE DEF rec
  <2>2. rec.denom \in Denoms
    BY <2>1 DEF Record
  <2>3. store = [denoms EXCEPT ![rec.denom] = rec]
    BY DEF SetDenom
  <2> HIDE DEF store
  <2>4. store \in Store
    BY <1>1, <2>1, <2>3 DEF Store
  <2>5. \A d \in Denoms : store[d] = IF d = rec.denom THEN rec ELSE denoms[d]
    BY <1>1, <2>2, <2>3 DEF Store
  <2>6. KeyMatches(store)
    BY <1>1, <2>5 DEF KeyMatches, Found, GetDenom
  <2>7. QED
    BY <1>2, <2>4, <2>6, StoreStep DEF store, rec
<1>3. ASSUME NEW m \in CreateMsg, Create(m) PROVE IInv'
  BY <1>2, <1>3 DEF Create, CreateDenom
<1>4. ASSUME NEW m \in UpdateMsg, Update(m) PROVE IInv'
  BY <1>2, <1>4 DEF Update, UpdateDenom
<1>5. ASSUME NEW m \in DeleteMsg, Delete(m) PROVE IInv'
  <2> DEFINE store == DeleteDenom(denoms, m)
  <2>1. m.denom \in Denoms
    BY DEF DeleteMsg
  <2>2. store = [denoms EXCEPT ![m.denom] = NoDenom]
    BY DEF DeleteDenom, RemoveDenom
  <2> HIDE DEF store
  <2>3. store \in Store
    BY <1>1, <2>2 DEF Store
  <2>4. \A d \in Denoms : store[d] = IF d = m.denom THEN NoDenom ELSE denoms[d]
    BY <1>1, <2>1, <2>2 DEF Store
  <2>5. KeyMatches(store)
    BY <1>1, <2>4 DEF KeyMatches, Found, GetDenom
  <2>6. StoreBecomes(store)
    BY <1>5 DEF Delete, store
  <2>7. QED
    BY <2>3, <2>5, <2>6, StoreStep
<1>6. ASSUME RestartFromExport PROVE IInv'
  <2>1. StoreBecomes(denoms)
    BY <1>1, <1>6, ImportExport DEF RestartFromExport
  <2>2. QED
    BY <1>1, <2>1, StoreStep
<1>7. QED
  BY <1>3, <1>4, <1>5, <1>6

\* StartWalk puts the client before the first key.
LEMMA StartStep ==
  ASSUME IInv, StartWalk
  PROVE  IInv'
<1>1. /\ walk.status = "idle" /\ walk' = [walk EXCEPT !.status = "reading"]
      /\ stable' = StoredKeys(denoms) /\ ~ changed' /\ changed' \in BOOLEAN /\ denoms' = denoms
  BY DEF StartWalk
<1>2. walk \in Walk /\ denoms \in Store
  BY DEF IInv, TypeOK
<1>3. /\ walk' \in Walk /\ walk'.status = "reading" /\ walk'.by = walk.by
      /\ walk'.key = walk.key /\ walk'.offset = walk.offset /\ walk'.got = walk.got
  BY <1>1, <1>2 DEF Walk
<1>4. TypeOK'
  <2>1. StoredKeys(denoms) \subseteq Denoms
    BY DEF StoredKeys
  <2>2. QED
    BY <1>1, <1>2, <1>3, <2>1 DEF TypeOK
<1>5. KeyMatches(denoms') /\ stable' \subseteq StoredKeys(denoms')
  BY <1>1 DEF IInv
<1>6. KeyCursor'
  BY <1>1, <1>3 DEF IInv, KeyCursor, Read
<1>7. OffsetCursor'
  <2>1. SUFFICES ASSUME walk.by = "offset"
                 PROVE  /\ walk.key = NoKey
                        /\ 0 <= Len(InOrder(stable'))
                        /\ walk.offset = 0
                        /\ <<>> = SubSeq(InOrder(stable'), 1, 0)
                        /\ walk.got = <<>>
    BY <1>1, <1>3 DEF OffsetCursor
  <2>2. walk.key = NoKey /\ walk.offset = 0 /\ walk.got = <<>>
    BY <1>1, <2>1 DEF IInv, OffsetCursor
  <2>3. 0 <= Len(InOrder(stable'))
    BY <1>1, <1>2, ExportedList DEF Listing, KeysInOrder
  <2>4. SubSeq(InOrder(stable'), 1, 0) = <<>>
    BY SubSeqEmpty, 1 \in Int, 0 \in Int, 0 < 1
  <2>5. QED
    BY <2>2, <2>3, <2>4
<1>8. QED
  BY <1>4, <1>5, <1>6, <1>7 DEF IInv

(***************************************************************************)
(* The rest after an offset, and the page cut from it.                     *)
(***************************************************************************)
LEMMA RestByOffset ==
  ASSUME NEW store \in Store, NEW offset \in Nat, NEW limit \in Nat
  PROVE  LET q    == KeysInOrder(store)
             rest == Rest(store, NoKey, offset)
         IN  /\ q \in Seq(Denoms) /\ rest = SubSeq(q, offset + 1, Len(q))
             /\ rest \in Seq(Denoms)
             /\ Len(rest) = IF offset + 1 <= Len(q) THEN Len(q) - offset ELSE 0
             /\ \A i \in 1 .. Len(q) - offset : rest[i] = q[offset + i]
             /\ Cut(rest, limit).page \in Seq(Denoms)
             /\ Cut(rest, limit).next \in Denoms \cup {NoKey}
<1> DEFINE q == KeysInOrder(store)
           n == Len(q)
           rest == Rest(store, NoKey, offset)
<1>1. q \in Seq(Denoms) /\ n \in Nat /\ \A i \in 1 .. n : q[i] \in Denoms
  <2>1. q \in Seq(StoredKeys(store)) /\ StoredKeys(store) \subseteq Denoms
    BY ExportedList DEF Listing, StoredKeys
  <2> HIDE DEF q
  <2>2. QED
    BY <2>1
<1>2. rest = SubSeq(q, offset + 1, n)
  BY DEF Rest
<1> HIDE DEF q, n, rest
<1>3. /\ rest \in Seq(Denoms)
      /\ Len(rest) = IF offset + 1 <= n THEN n - (offset + 1) + 1 ELSE 0
      /\ \A i \in 1 .. n - (offset + 1) + 1 : rest[i] = q[(offset + 1) + i - 1]
  <2>1. \A i \in offset + 1 .. n : q[i] \in Denoms
    BY <1>1
  <2>2. offset + 1 \in Int /\ n \in Int
    BY <1>1
  <2>3. QED
    BY <1>2, <2>1, <2>2, SubSeqProperties
<1>4. /\ Len(rest) = IF offset + 1 <= n THEN n - offset ELSE 0
      /\ \A i \in 1 .. n - offset : rest[i] = q[offset + i]
  <2>1. n - (offset + 1) + 1 = n - offset /\ \A i \in Int : (offset + 1) + i - 1 = offset + i
    BY <1>1
  <2>2. QED
    BY <1>3, <2>1
<1>5. Cut(rest, limit).page \in Seq(Denoms) /\ Cut(rest, limit).next \in Denoms \cup {NoKey}
  <2>1. CASE Len(rest) <= limit
    BY <1>3, <2>1 DEF Cut
  <2>2. CASE ~ (Len(rest) <= limit)
    <3>1. Len(rest) \in Nat /\ \A i \in 1 .. Len(rest) : rest[i] \in Denoms
      BY <1>3
    <3>2. limit + 1 \in 1 .. Len(rest) /\ \A i \in 1 .. limit : rest[i] \in Denoms
      BY <2>2, <3>1
    <3>3. SubSeq(rest, 1, limit) \in Seq(Denoms)
      BY <3>2, SubSeqProperties, 1 \in Int, limit \in Int
    <3>4. QED
      BY <2>2, <3>1, <3>2, <3>3 DEF Cut
  <2>3. QED
    BY <2>1, <2>2
<1>6. QED
  BY <1>1, <1>2, <1>3, <1>4, <1>5 DEF q, n, rest

(***************************************************************************)
(* A page read by key carries the cursor on.                               *)
(***************************************************************************)
LEMMA KeyPage ==
  ASSUME NEW keys \in SUBSET Nat, NEW p, NEW x, PageOf(p, x, keys),
         NEW got \in Seq(Nat), NEW key, Ascending(got),
         key = NoKey => got = <<>>,
         key # NoKey => /\ key \in Nat /\ \A i \in 1 .. Len(got) : got[i] < key
                        /\ \A d \in keys : key <= d
  PROVE  /\ Ascending(got \o p)
         /\ x # NoKey => \A i \in 1 .. Len(got \o p) : (got \o p)[i] < x
<1> DEFINE n == Len(got)
           m == Len(p)
           s == got \o p
<1>1. /\ p \in Seq(keys) /\ m \in Nat /\ \A i \in 1 .. m : p[i] \in keys /\ p[i] \in Nat
  <2>1. p \in Seq(keys)
    BY DEF PageOf
  <2>2. m \in Nat /\ \A i \in 1 .. m : p[i] \in keys
    BY <2>1
  <2>3. QED
    BY <2>1, <2>2
<1>2. n \in Nat /\ \A i \in 1 .. n : got[i] \in Nat
  OBVIOUS
<1>3. p \in Seq(Nat)
  BY <1>1
<1>4. /\ Len(s) = n + m
      /\ \A i \in 1 .. (n + m) : s[i] = IF i <= n THEN got[i] ELSE p[i - n]
  BY <1>3
<1>5. ASSUME NEW i \in 1 .. (n + m) PROVE i \in 1 .. n \/ i - n \in 1 .. m
  BY <1>1, <1>2
<1>6. ASSUME NEW i \in 1 .. n, NEW y \in keys PROVE got[i] < y
  <2>1. key # NoKey
    BY <1>2
  <2>2. got[i] \in Nat /\ y \in Nat /\ key \in Nat /\ got[i] < key /\ key <= y
    BY <1>2, <2>1
  <2>3. QED
    BY <2>2
<1> HIDE DEF n, m, s
<1>7. ASSUME NEW i \in 1 .. (n + m), NEW j \in 1 .. (n + m), i < j PROVE s[i] < s[j]
  <2>0. i \in Nat /\ j \in Nat
    BY <1>1, <1>2
  <2>1. CASE j <= n
    <3>1. i \in 1 .. n /\ j \in 1 .. n
      BY <1>2, <1>7, <2>0, <2>1
    <3>2. s[i] = got[i] /\ s[j] = got[j]
      BY <1>4, <3>1, <1>2
    <3>3. QED
      BY <1>7, <3>1, <3>2 DEF Ascending, n
  <2>2. CASE i <= n /\ ~ (j <= n)
    <3>1. i \in 1 .. n /\ j - n \in 1 .. m
      BY <1>1, <1>2, <1>7, <2>0, <2>2
    <3>2. s[i] = got[i] /\ s[j] = p[j - n] /\ p[j - n] \in keys
      BY <1>1, <1>4, <2>2, <3>1
    <3>3. QED
      BY <1>6, <3>1, <3>2
  <2>3. CASE ~ (i <= n)
    <3>1. i - n \in 1 .. m /\ j - n \in 1 .. m /\ i - n < j - n /\ ~ (j <= n)
      BY <1>1, <1>2, <1>7, <2>0, <2>3
    <3>2. s[i] = p[i - n] /\ s[j] = p[j - n]
      BY <1>4, <2>3, <3>1
    <3>3. Ascending(p)
      BY DEF PageOf
    <3>4. QED
      BY <3>1, <3>2, <3>3 DEF Ascending, m
  <2>4. QED
    BY <2>1, <2>2, <2>3
<1>8. ASSUME x # NoKey, NEW i \in 1 .. (n + m) PROVE s[i] < x
  <2>1. x \in keys /\ \A j \in 1 .. m : p[j] < x
    BY <1>8 DEF PageOf, m
  <2>2. CASE i <= n
    <3>1. i \in 1 .. n /\ s[i] = got[i]
      BY <1>1, <1>2, <1>4, <2>2
    <3>2. QED
      BY <1>6, <2>1, <3>1
  <2>3. CASE ~ (i <= n)
    <3>1. i - n \in 1 .. m /\ s[i] = p[i - n]
      BY <1>1, <1>2, <1>4, <2>3
    <3>2. QED
      BY <2>1, <3>1
  <2>4. QED
    BY <2>2, <2>3
<1>9. QED
  BY <1>4, <1>7, <1>8 DEF Ascending, s

\* A page read by key or by offset carries the client's position on.
LEMMA ReadStep ==
  ASSUME IInv, ReadPage
  PROVE  IInv'
<1> DEFINE res == DenomAll(denoms, walk.key, walk.offset, walk.limit)
           p == res.page
           x == res.next
<1>1. /\ walk.status = "reading" /\ denoms' = denoms /\ stable' = stable /\ changed' = changed
      /\ walk' = [walk EXCEPT !.got = walk.got \o p,
                              !.key = IF walk.by = "key" THEN x ELSE NoKey,
                              !.offset = IF walk.by = "offset" THEN walk.offset + walk.limit ELSE 0,
                              !.status = IF x = NoKey THEN "done" ELSE "reading"]
  BY DEF ReadPage
<1>2. /\ res = Cut(Rest(denoms, walk.key, walk.offset), walk.limit)
  BY DEF DenomAll, Cut
<1> HIDE DEF res
<1>3. /\ denoms \in Store /\ walk \in Walk /\ stable \subseteq Denoms /\ changed \in BOOLEAN
      /\ KeyMatches(denoms) /\ stable \subseteq StoredKeys(denoms)
  BY DEF IInv, TypeOK
<1>4. /\ walk.by \in {"key", "offset"} /\ walk.limit \in Nat /\ walk.limit # 0
      /\ walk.key \in Denoms \cup {NoKey} /\ walk.offset \in Nat /\ walk.got \in Seq(Denoms)
  BY <1>3, PageSizesAssumption DEF Walk
<1>5. /\ walk'.by = walk.by /\ walk'.limit = walk.limit
      /\ walk'.got = walk.got \o p
      /\ walk'.key = (IF walk.by = "key" THEN x ELSE NoKey)
      /\ walk'.offset = (IF walk.by = "offset" THEN walk.offset + walk.limit ELSE 0)
      /\ walk'.status = (IF x = NoKey THEN "done" ELSE "reading")
  BY <1>1, <1>3 DEF Walk
<1> HIDE DEF p, x
<1>6. ASSUME p \in Seq(Denoms), x \in Denoms \cup {NoKey} PROVE TypeOK'
  <2> DEFINE g == walk.got \o p
             o == IF walk.by = "offset" THEN walk.offset + walk.limit ELSE 0
  <2>1. g \in Seq(Denoms) /\ o \in Nat
    BY <1>4, <1>6
  <2>2. walk' = [walk EXCEPT !.got = g, !.key = IF walk.by = "key" THEN x ELSE NoKey,
                             !.offset = o, !.status = IF x = NoKey THEN "done" ELSE "reading"]
    BY <1>1
  <2> HIDE DEF g, o
  <2>3. walk' \in Walk
    BY <1>3, <1>6, <2>1, <2>2 DEF Walk
  <2>4. QED
    BY <1>1, <1>3, <2>3 DEF TypeOK
<1>7. CASE walk.by = "key"
  <2> DEFINE keys == From(denoms, walk.key)
             got == walk.got
             key == walk.key
             g == got \o p
  <2>1. /\ walk.offset = 0 /\ Ascending(got) /\ (key = NoKey => got = <<>>)
        /\ key # NoKey => \A i \in 1 .. Len(got) : got[i] < key
        /\ \A d \in stable : Read(d) \/ key = NoKey \/ key <= d
    BY <1>1, <1>7 DEF IInv, KeyCursor
  <2>2. PageOf(p, x, keys) /\ keys \in SUBSET Denoms
    BY <1>2, <1>3, <1>4, <2>1, RestByKey, CutsPage DEF p, x
  <2>3. \A d \in keys : key # NoKey => key <= d
    BY DEF From
  <2>4. p \in Seq(keys) /\ x \in Denoms \cup {NoKey}
    BY <2>2 DEF PageOf
  <2>5. ASSUME NEW d \in stable, ~ Read(d) PROVE d \in keys
    BY <1>3, <2>1, <2>5 DEF From
  <2>6. got \in Seq(Denoms) /\ key \in Denoms \cup {NoKey}
    BY <1>4
  <2>7. \A d \in stable : Read(d) <=> \E i \in 1 .. Len(got) : got[i] = d
    BY DEF Read
  <2> HIDE DEF keys, got, key
  <2>8. p \in Seq(Denoms)
    BY <2>2, <2>4
  <2>9. /\ Ascending(g)
        /\ x # NoKey => \A i \in 1 .. Len(g) : g[i] < x
    <3>1. keys \in SUBSET Nat
      BY <2>2, DenomsAssumption
    <3>2. key # NoKey => key \in Nat
      BY <2>6, DenomsAssumption
    <3>3. got \in Seq(Nat)
      BY <2>6, DenomsAssumption, SeqMonotonic
    <3>4. QED
      BY <2>1, <2>2, <2>3, <3>1, <3>2, <3>3, KeyPage
  <2>10. /\ Len(g) = Len(got) + Len(p) /\ Len(got) \in Nat /\ Len(p) \in Nat
         /\ \A i \in 1 .. Len(got) : i \in 1 .. Len(g) /\ g[i] = got[i]
         /\ \A i \in 1 .. Len(p) : Len(got) + i \in 1 .. Len(g) /\ g[Len(got) + i] = p[i]
    BY <2>6, <2>8
  <2> HIDE DEF g
  <2>11. ASSUME NEW d \in stable
         PROVE  (\E i \in 1 .. Len(g) : g[i] = d) \/ (x # NoKey /\ x <= d)
    <3>1. CASE Read(d)
      <4>1. PICK i \in 1 .. Len(got) : got[i] = d
        BY <2>7, <3>1
      <4>2. i \in 1 .. Len(g) /\ g[i] = d
        BY <2>10, <4>1
      <4>3. QED
        BY <4>2
    <3>2. CASE ~ Read(d)
      <4>1. d \in keys
        BY <2>5, <3>2
      <4>2. CASE x = NoKey \/ d < x
        <5>1. PICK i \in 1 .. Len(p) : p[i] = d
          BY <2>2, <4>1, <4>2 DEF PageOf, Covers
        <5>2. Len(got) + i \in 1 .. Len(g) /\ g[Len(got) + i] = d
          BY <2>10, <5>1
        <5>3. QED
          BY <5>2
      <4>3. CASE x # NoKey /\ ~ (d < x)
        <5>1. d \in Nat /\ x \in Nat
          BY <1>3, <2>4, <4>3, DenomsAssumption
        <5>2. QED
          BY <4>3, <5>1
      <4>4. QED
        BY <4>2, <4>3
    <3>3. QED
      BY <3>1, <3>2
  <2>12. /\ walk'.by = "key" /\ walk'.got = g /\ walk'.key = x /\ walk'.offset = 0
         /\ walk'.status = (IF x = NoKey THEN "done" ELSE "reading")
    BY <1>5, <1>7 DEF g, got
  <2>13. KeyCursor'
    <3>1. \A d \in stable' : Read(d)' \/ (walk'.status # "done" /\ walk'.key <= d)
      BY <1>1, <2>11, <2>12 DEF Read
    <3>2. walk'.status # "done" => walk'.status = "reading" /\ walk'.key # NoKey
      BY <2>12
    <3>3. Ascending(walk'.got) /\ walk'.offset = 0
      BY <2>9, <2>12
    <3>4. walk'.key # NoKey => \A i \in 1 .. Len(walk'.got) : walk'.got[i] < walk'.key
      BY <2>9, <2>12
    <3>5. walk'.status # "idle"
      BY <2>12
    <3>6. QED
      BY <3>1, <3>2, <3>3, <3>4, <3>5 DEF KeyCursor
  <2>14. OffsetCursor'
    BY <2>12 DEF OffsetCursor
  <2>15. QED
    BY <1>1, <1>3, <1>6, <2>4, <2>8, <2>13, <2>14 DEF IInv
<1>8. CASE walk.by = "offset"
  <2> DEFINE q == KeysInOrder(denoms)
             off == walk.offset
             lim == walk.limit
             rest == Rest(denoms, NoKey, off)
  <2>1. walk.key = NoKey
    BY <1>8 DEF IInv, OffsetCursor
  <2>2. /\ q \in Seq(Denoms) /\ rest = SubSeq(q, off + 1, Len(q))
        /\ rest \in Seq(Denoms)
        /\ Len(rest) = IF off + 1 <= Len(q) THEN Len(q) - off ELSE 0
        /\ \A i \in 1 .. Len(q) - off : rest[i] = q[off + i]
        /\ Cut(rest, lim).page \in Seq(Denoms)
        /\ Cut(rest, lim).next \in Denoms \cup {NoKey}
    BY <1>3, <1>4, RestByOffset
  <2>3. p = Cut(rest, lim).page /\ x = Cut(rest, lim).next
    BY <1>2, <2>1 DEF p, x
  <2>4. off \in Nat /\ lim \in Nat /\ walk.got \in Seq(Denoms)
    BY <1>4
  <2>5. q = InOrder(StoredKeys(denoms))
    BY DEF KeysInOrder
  <2>6. p \in Seq(Denoms) /\ x \in Denoms \cup {NoKey}
    BY <2>2, <2>3
  <2>7. ASSUME ~ changed
        PROVE  stable = StoredKeys(denoms) /\ off <= Len(q) /\ walk.got = SubSeq(q, 1, off)
    BY <1>1, <1>8, <2>5, <2>7 DEF IInv, OffsetCursor
  <2>8. /\ walk'.by = "offset" /\ walk'.got = walk.got \o p /\ walk'.key = NoKey
        /\ walk'.offset = off + lim
        /\ walk'.status = (IF x = NoKey THEN "done" ELSE "reading")
    BY <1>5, <1>8
  <2> HIDE DEF q, off, lim, rest
  <2>9. Len(q) \in Nat
    BY <2>2
  <2>10. ASSUME ~ changed, Len(rest) <= lim PROVE x = NoKey /\ walk'.got = q
    <3>1. p = rest /\ x = NoKey
      BY <2>3, <2>10 DEF Cut
    <3>2. /\ 1 \in 1 .. Len(q) + 1 /\ off \in 1 - 1 .. Len(q) /\ Len(q) \in off .. Len(q)
      BY <2>4, <2>7, <2>9, <2>10
    <3>3. SubSeq(q, 1, off) \o SubSeq(q, off + 1, Len(q)) = SubSeq(q, 1, Len(q))
      BY <2>2, <3>2, ConcatAdjacentSubSeq
    <3>4. SubSeq(q, 1, Len(q)) = q
      BY <2>2, SubSeqFull
    <3>5. QED
      BY <2>2, <2>7, <2>8, <2>10, <3>1, <3>3, <3>4
  <2>11. ASSUME ~ changed, ~ (Len(rest) <= lim)
         PROVE  x # NoKey /\ off + lim <= Len(q) /\ walk'.got = SubSeq(q, 1, off + lim)
    <3>1. p = SubSeq(rest, 1, lim) /\ x = rest[lim + 1]
      BY <2>3, <2>11 DEF Cut
    <3>2. off + lim < Len(q) /\ lim + 1 \in 1 .. Len(rest)
      BY <2>2, <2>4, <2>9, <2>11
    <3>3. x # NoKey
      <4>1. rest[lim + 1] \in Denoms
        BY <2>2, <3>2, ElementOfSeq
      <4>2. QED
        BY <3>1, <4>1, NoKeyAssumption
    <3>4. p = SubSeq(q, off + 1, off + lim)
      <4>1. \A i \in 1 .. lim : rest[i] \in Denoms
        BY <2>2, <2>4, <3>2
      <4>2. \A i \in off + 1 .. off + lim : q[i] \in Denoms
        BY <2>2, <2>4, <2>9, <3>2
      <4>3. /\ p \in Seq(Denoms)
            /\ Len(p) = IF 1 <= lim THEN lim - 1 + 1 ELSE 0
            /\ \A i \in 1 .. lim - 1 + 1 : p[i] = rest[1 + i - 1]
        BY <2>4, <3>1, <4>1, SubSeqProperties, 1 \in Int, lim \in Int
      <4> DEFINE w == SubSeq(q, off + 1, off + lim)
      <4>4. /\ w \in Seq(Denoms)
            /\ Len(w) = IF off + 1 <= off + lim THEN off + lim - (off + 1) + 1 ELSE 0
            /\ \A i \in 1 .. off + lim - (off + 1) + 1 : w[i] = q[(off + 1) + i - 1]
        BY <2>4, <4>2, SubSeqProperties, off + 1 \in Int, off + lim \in Int
      <4> HIDE DEF w
      <4>5. Len(p) = lim /\ \A i \in 1 .. lim : p[i] = rest[i]
        BY <2>4, <4>3
      <4>6. Len(w) = lim /\ \A i \in 1 .. lim : w[i] = q[off + i]
        <5>1. off + lim - (off + 1) + 1 = lim /\ \A i \in Int : (off + 1) + i - 1 = off + i
          BY <2>4
        <5>2. \A i \in 1 .. lim : w[i] = q[(off + 1) + i - 1]
          BY <4>4, <5>1
        <5>3. \A i \in 1 .. lim : w[i] = q[off + i]
          BY <5>1, <5>2
        <5>4. Len(w) = lim
          BY <2>4, <4>4
        <5>5. QED
          BY <5>3, <5>4
      <4>7. \A i \in 1 .. lim : rest[i] = q[off + i]
        <5>1. \A i \in 1 .. lim : i \in 1 .. Len(q) - off
          BY <2>4, <2>9, <3>2
        <5>2. QED
          BY <2>2, <5>1
      <4>8. p = w
        <5>1. \A i \in 1 .. lim : p[i] = w[i]
          BY <4>5, <4>6, <4>7
        <5>2. QED
          BY <4>3, <4>4, <4>5, <4>6, <5>1
      <4>9. QED
        BY <4>8 DEF w
    <3>5. /\ 1 \in 1 .. Len(q) + 1 /\ off \in 1 - 1 .. Len(q) /\ off + lim \in off .. Len(q)
      BY <2>4, <2>9, <3>2
    <3>6. SubSeq(q, 1, off) \o SubSeq(q, off + 1, off + lim) = SubSeq(q, 1, off + lim)
      BY <2>2, <3>5, ConcatAdjacentSubSeq
    <3>7. off + lim <= Len(q)
      BY <2>4, <2>9, <3>2
    <3>8. walk'.got = SubSeq(q, 1, off + lim)
      BY <2>7, <2>8, <2>11, <3>4, <3>6
    <3>9. QED
      BY <3>3, <3>7, <3>8
  <2>12. OffsetCursor'
    <3>1. changed' = changed /\ stable' = stable /\ denoms' = denoms
      BY <1>1
    <3>2. CASE changed
      BY <2>8, <3>1, <3>2 DEF OffsetCursor
    <3>3. CASE ~ changed /\ Len(rest) <= lim
      BY <2>5, <2>7, <2>8, <2>10, <3>1, <3>3 DEF OffsetCursor
    <3>4. CASE ~ changed /\ ~ (Len(rest) <= lim)
      BY <2>5, <2>7, <2>8, <2>11, <3>1, <3>4 DEF OffsetCursor
    <3>5. QED
      BY <3>2, <3>3, <3>4
  <2>13. KeyCursor'
    BY <2>8 DEF KeyCursor
  <2>14. QED
    BY <1>1, <1>3, <1>6, <2>6, <2>12, <2>13 DEF IInv
<1>9. QED
  BY <1>4, <1>7, <1>8

-----------------------------------------------------------------------------
(* The results.                                                            *)

\* Every reachable state of the walk satisfies the invariant.
LEMMA IInvHolds == Spec => []IInv
<1>1. Init => IInv
  <2>1. SUFFICES ASSUME Init PROVE IInv
    OBVIOUS
  <2>2. /\ denoms = EmptyStore /\ stable = {} /\ changed = FALSE
        /\ walk \in Walk /\ walk.key = NoKey /\ walk.offset = 0
        /\ walk.got = <<>> /\ walk.status = "idle"
    <3> DEFINE none == <<>>
    <3>1. none \in Seq(Denoms)
      OBVIOUS
    <3>2. walk \in [by : {"key", "offset"}, limit : PageSizes, key : {NoKey},
                    offset : {0}, got : {none}, status : {"idle"}]
      BY <2>1 DEF Init
    <3> HIDE DEF none
    <3>3. /\ walk.key = NoKey /\ walk.offset = 0
          /\ walk.got = none /\ walk.status = "idle"
      BY <3>2
    <3>4. walk \in Walk
      BY <3>1, <3>2 DEF Walk
    <3>5. QED
      BY <2>1, <3>3, <3>4 DEF Init, none
  <2>3. denoms \in Store
    BY <2>2 DEF EmptyStore, Store
  <2>4. TypeOK
    BY <2>2, <2>3 DEF TypeOK
  <2>5. KeyMatches(denoms)
    BY <2>2 DEF KeyMatches, Found, GetDenom, EmptyStore
  <2>6. Ascending(<<>>)
    BY DEF Ascending
  <2>7. KeyCursor
    BY <2>2, <2>6 DEF KeyCursor
  <2>8. OffsetCursor
    BY <2>2 DEF OffsetCursor
  <2>9. QED
    BY <2>2, <2>4, <2>5, <2>7, <2>8 DEF IInv
<1>2. IInv /\ [Next]_vars => IInv'
  <2>1. SUFFICES ASSUME IInv, [Next]_vars PROVE IInv'
    OBVIOUS
  <2>2. CASE UNCHANGED vars
    BY <2>1, <2>2 DEF vars, IInv, TypeOK, KeyCursor, OffsetCursor, Read
  <2>3. CASE Next
    BY <2>1, <2>3, HandlerStep, StartStep, ReadStep DEF Next
  <2>4. QED
    BY <2>1, <2>2, <2>3
<1>3. QED
  BY <1>1, <1>2, PTL DEF Spec

(***************************************************************************)
(* The store and the client stay of their types, whatever is created,      *)
(* updated, deleted, exported and read (x/tokenfactory keeper, DenomAll).  *)
(***************************************************************************)
THEOREM TypeCorrect == Spec => []TypeOK
<1>1. IInv => TypeOK
  BY DEF IInv
<1>2. QED
  BY <1>1, IInvHolds, PTL

(***************************************************************************)
(* A client that follows NextKey through DenomAll reads every denom that   *)
(* was stored all along, and none twice, for every set of denoms, every    *)
(* page size and every change of the store between two pages.              *)
(***************************************************************************)
THEOREM KeyWalkExactHolds == Spec => []KeyWalkExact
<1>1. IInv => KeyWalkExact
  <2>1. SUFFICES ASSUME IInv, walk.by = "key"
                 PROVE  /\ \A i, j \in DOMAIN walk.got : i < j => walk.got[i] < walk.got[j]
                        /\ walk.status = "done" =>
                             stable \subseteq {walk.got[i] : i \in DOMAIN walk.got}
    BY DEF KeyWalkExact
  <2>2. walk.got \in Seq(Denoms)
    BY <2>1 DEF IInv, TypeOK, Walk
  <2>3. DOMAIN walk.got = 1 .. Len(walk.got)
    BY <2>2
  <2>4. Ascending(walk.got)
    BY <2>1 DEF IInv, KeyCursor
  <2>5. ASSUME walk.status = "done", NEW d \in stable
        PROVE  \E i \in 1 .. Len(walk.got) : walk.got[i] = d
    BY <2>1, <2>5 DEF IInv, KeyCursor, Read
  <2>6. QED
    BY <2>3, <2>4, <2>5 DEF Ascending
<1>2. QED
  BY <1>1, IInvHolds, PTL

(***************************************************************************)
(* A client that pages through DenomAll by offset reads exactly the stored *)
(* denoms, in key order, if no key is set or removed during its walk.      *)
(***************************************************************************)
THEOREM OffsetWalkExactHolds == Spec => []OffsetWalkExact
<1>1. IInv => OffsetWalkExact
  BY DEF IInv, OffsetCursor, OffsetWalkExact
<1>2. QED
  BY <1>1, IInvHolds, PTL

(***************************************************************************)
(* In every reachable state ExportGenesis gives a list that Validate       *)
(* accepts and that InitGenesis turns into the same store.                 *)
(***************************************************************************)
THEOREM ExportRoundTripsHolds == Spec => []ExportRoundTrips
<1>1. IInv => ExportRoundTrips
  BY ImportExport DEF IInv, TypeOK, ExportRoundTrips
<1>2. QED
  BY <1>1, IInvHolds, PTL

-----------------------------------------------------------------------------
(* The simulation.                                                         *)

(***************************************************************************)
(* InitGenesis stores every record under its own name.                     *)
(***************************************************************************)
LEMMA GenesisKeyed ==
  ASSUME NEW list \in Seq(Record)
  PROVE  InitGenesis(list) \in Store /\ KeyMatches(InitGenesis(list))
<1> DEFINE n == Len(list)
<1>1. n \in Nat /\ \A i \in 1 .. n : list[i] \in Record
  OBVIOUS
<1>2. PICK r : /\ StepPrefixes(r, n, Store, EmptyStore, GenesisSteps(list))
               /\ InitGenesis(list) = r[n]
  BY GenesisFold
<1>3. \A k \in 0 .. n : r[k] \in Store
  BY <1>2 DEF StepPrefixes
<1>4. KeyMatches(r[0])
  BY <1>2 DEF StepPrefixes, KeyMatches, EmptyStore, Found, GetDenom
<1>5. ASSUME NEW k \in 1 .. n, KeyMatches(r[k - 1]) PROVE KeyMatches(r[k])
  <2> DEFINE rec == list[k]
             old == r[k - 1]
             new == r[k]
  <2>1. old \in Store
    <3>1. k - 1 \in 0 .. n
      BY <1>1
    <3>2. QED
      BY <1>3, <3>1
  <2>2. rec \in Record /\ rec.denom \in Denoms
    BY <1>1 DEF Record
  <2>3. new = SetDenom(old, rec)
    BY <1>2, <2>1 DEF StepPrefixes, GenesisSteps
  <2>4. KeyMatches(old)
    BY <1>5
  <2> HIDE DEF rec, old, new
  <2>5. \A d \in Denoms : new[d] = IF d = rec.denom THEN rec ELSE old[d]
    BY <2>1, <2>2, <2>3 DEF SetDenom, Store
  <2>6. KeyMatches(new)
    BY <2>4, <2>5 DEF KeyMatches, Found, GetDenom
  <2>7. QED
    BY <2>6 DEF new
<1> DEFINE Good == {k \in Nat : k \in 0 .. n => KeyMatches(r[k])}
<1> HIDE DEF n
<1>6. 0 \in Good
  BY <1>4
<1>7. ASSUME NEW k \in Nat, k \in Good PROVE k + 1 \in Good
  <2>1. SUFFICES ASSUME k + 1 \in 0 .. n PROVE KeyMatches(r[k + 1])
    OBVIOUS
  <2>2. k + 1 \in 1 .. n /\ k \in 0 .. n /\ (k + 1) - 1 = k
    BY <1>1, <2>1
  <2>3. KeyMatches(r[(k + 1) - 1])
    BY <1>7, <2>2
  <2>4. QED
    BY <1>5, <2>2, <2>3
<1> HIDE DEF Good
<1>8. n \in Good
  BY <1>1, <1>6, <1>7, NatSetInduction
<1>9. n \in 0 .. n
  BY <1>1
<1>10. QED
  BY <1>2, <1>3, <1>8, <1>9 DEF Good

(***************************************************************************)
(* The first denom of a known owner is stored, under its own name.         *)
(***************************************************************************)
LEMMA FirstKnownStored ==
  ASSUME simDenoms \in Store, KeyMatches(simDenoms), KnownOwners # {}
  PROVE  /\ FirstKnown \in Record
         /\ Found(simDenoms, FirstKnown.denom)
         /\ simDenoms[FirstKnown.denom] = FirstKnown
<1> DEFINE list == ExportGenesis(simDenoms)
           q == KeysInOrder(simDenoms)
           K == KnownOwners
           i == Min(K)
           rec == FirstKnown
<1>1. /\ Listing(q, StoredKeys(simDenoms)) /\ list \in Seq(Record) /\ Len(list) = Len(q)
      /\ \A j \in 1 .. Len(q) : list[j] = simDenoms[q[j]]
  BY ExportedList
<1>2. K \subseteq 1 .. Len(list) /\ rec = list[i]
  BY DEF KnownOwners, FirstKnown, ExportGenesis
<1>3. i \in K
  <2>1. K \subseteq Nat /\ K # {}
    BY <1>2
  <2>2. i = CHOOSE x \in K : \A y \in K : x =< y
    BY DEF Min
  <2> HIDE DEF K, i
  <2>3. PICK x \in K : \A y \in K : ~ (<<y, x>> \in OpToRel(<, Nat))
    BY <2>1, WFMin, NatLessThanWellFounded, Zenon
  <2>4. \A y \in K : x =< y
    <3>1. ASSUME NEW y \in K PROVE x =< y
      <4>1. ~ (y < x)
        BY <2>1, <2>3 DEF OpToRel
      <4>2. x \in Nat /\ y \in Nat
        BY <2>1
      <4>3. QED
        BY <4>1, <4>2
    <3>2. QED
      BY <3>1
  <2>5. QED
    BY <2>2, <2>4
<1> HIDE DEF K, i, rec, list
<1>4. i \in 1 .. Len(q) /\ rec = simDenoms[q[i]]
  BY <1>1, <1>2, <1>3
<1>5. q[i] \in StoredKeys(simDenoms)
  BY <1>1, <1>4 DEF Listing
<1> HIDE DEF q
<1>6. q[i] \in Denoms /\ rec # NoDenom /\ Found(simDenoms, q[i])
  BY <1>4, <1>5 DEF StoredKeys, Found, GetDenom
<1>7. rec \in Record
  BY <1>4, <1>6 DEF Store
<1>8. rec.denom = q[i]
  BY <1>4, <1>6 DEF KeyMatches
<1>9. QED
  BY <1>4, <1>6, <1>7, <1>8 DEF rec

SimInv ==
    /\ simDenoms \in Store
    /\ KeyMatches(simDenoms)
    /\ failed = FALSE
    /\ last.op \in {"none", "create", "update", "delete"}
    /\ last.op # "none" => last.msg \in Msg

\* GenerateGenesisState leaves a store that the operations can work on.
LEMMA SimStarts ==
  ASSUME SimInit
  PROVE  SimInv
<1> DEFINE owner == CHOOSE a \in Accounts : a \notin SimAccounts
           list == GenerateGenesisState
<1>1. owner \in Accounts
  BY SimAccountsAssumption
<1> HIDE DEF owner
<1>2. list = [i \in {1, 2} |-> [owner |-> owner, denom |-> i - 1, details |-> Unset]]
  BY DEF GenerateGenesisState, owner
<1> HIDE DEF list
<1>3. \A i \in {1, 2} : [owner |-> owner, denom |-> i - 1, details |-> Unset] \in Record
  BY <1>1, UnsetAssumption, GenesisDenomsAssumption DEF Record
<1>4. list \in [1 .. 2 -> Record]
  <2>1. {1, 2} = 1 .. 2
    OBVIOUS
  <2>2. QED
    BY <1>2, <1>3, <2>1
<1>5. list \in Seq(Record)
  <2>1. 2 \in Nat
    OBVIOUS
  <2>2. QED
    BY <1>4, <2>1, SeqDef
<1>6. simDenoms = InitGenesis(list) /\ failed = FALSE /\ last = [op |-> "none"]
  BY DEF SimInit, list
<1>7. simDenoms \in Store /\ KeyMatches(simDenoms)
  BY <1>5, <1>6, GenesisKeyed
<1>8. QED
  BY <1>6, <1>7 DEF SimInv

(***************************************************************************)
(* A delivery of a create or an update that the handler accepts.           *)
(***************************************************************************)
LEMMA DeliverStep ==
  ASSUME SimInv, NEW op \in {"create", "update", "delete"},
         NEW m \in CreateMsg \cup UpdateMsg, Deliver(op, m),
         m.type = "CreateDenom" => ~ Found(simDenoms, m.denom),
         m.type = "UpdateDenom" => /\ Found(simDenoms, m.denom)
                                   /\ m.owner = simDenoms[m.denom].owner
  PROVE  SimInv'
<1>1. m.type \in {"CreateDenom", "UpdateDenom"}
  BY DEF CreateMsg, UpdateMsg
<1>2. HandlerOK(simDenoms, m)
  BY <1>1 DEF HandlerOK, CreateDenomOK, UpdateDenomOK, Found, GetDenom
<1>3. Handle(simDenoms, m) = SetDenom(simDenoms, RecordOf(m))
  BY <1>1 DEF Handle, CreateDenom, UpdateDenom, SetDenom, RecordOf
<1>4. /\ last' = [op |-> op, msg |-> m] /\ failed' = FALSE
      /\ simDenoms' = SetDenom(simDenoms, RecordOf(m))
  BY <1>2, <1>3 DEF Deliver
<1> DEFINE rec == RecordOf(m)
<1>5. rec \in Record
  BY DEF CreateMsg, UpdateMsg, RecordOf, Record
<1> HIDE DEF rec
<1>6. rec.denom \in Denoms
  BY <1>5 DEF Record
<1>7. simDenoms' = [simDenoms EXCEPT ![rec.denom] = rec]
  BY <1>4 DEF SetDenom, rec
<1>8. simDenoms' \in Store
  BY <1>5, <1>7 DEF SimInv, Store
<1>9. \A d \in Denoms : simDenoms'[d] = IF d = rec.denom THEN rec ELSE simDenoms[d]
  BY <1>6, <1>7 DEF SimInv, Store
<1>10. KeyMatches(simDenoms')
  BY <1>9 DEF SimInv, KeyMatches, Found, GetDenom
<1>11. last'.op = op /\ last'.msg = m /\ m \in Msg
  BY <1>4 DEF Msg
<1>12. QED
  BY <1>4, <1>8, <1>10, <1>11 DEF SimInv

\* Every operation delivers nothing, or a message that is accepted.
LEMMA SimSteps ==
  ASSUME SimInv, [SimNext]_simVars
  PROVE  SimInv'
<1>1. CASE UNCHANGED simVars
  BY <1>1 DEF simVars, SimInv
<1>2. CASE NoOp
  BY <1>2 DEF NoOp, SimInv
<1>3. ASSUME NEW acc \in SimAccounts, NEW d \in Denoms, SimulateMsgCreateDenom(acc, d),
             ~ NoOp
      PROVE  SimInv'
  <2> DEFINE m == [type |-> "CreateDenom", owner |-> acc, denom |-> d, details |-> Unset]
  <2>1. ~ Found(simDenoms, d) /\ Deliver("create", m)
    BY <1>3 DEF SimulateMsgCreateDenom
  <2>2. m \in CreateMsg /\ m.type = "CreateDenom" /\ m.denom = d
    BY SimAccountsAssumption, UnsetAssumption DEF CreateMsg
  <2> HIDE DEF m
  <2>3. QED
    BY <2>1, <2>2, DeliverStep
<1>4. ASSUME NEW op \in {"update", "delete"}, KnownOwners # {},
             Deliver(op, UpdateOf(FirstKnown))
      PROVE  SimInv'
  <2> DEFINE rec == FirstKnown
             m == UpdateOf(rec)
  <2>1. rec \in Record /\ Found(simDenoms, rec.denom) /\ simDenoms[rec.denom] = rec
    BY <1>4, FirstKnownStored DEF SimInv
  <2>2. Deliver(op, m)
    BY <1>4
  <2> HIDE DEF rec
  <2>3. m = [type |-> "UpdateDenom", owner |-> rec.owner, denom |-> rec.denom, details |-> Unset]
    BY DEF UpdateOf
  <2> HIDE DEF m
  <2>4. m \in UpdateMsg /\ m.type = "UpdateDenom" /\ m.denom = rec.denom /\ m.owner = rec.owner
    BY <2>1, <2>3, UnsetAssumption DEF UpdateMsg, Record
  <2>5. QED
    BY <2>1, <2>2, <2>4, DeliverStep
<1>5. QED
  BY <1>1, <1>2, <1>3, <1>4
     DEF SimNext, WeightedOperations, SimulateMsgUpdateDenom, SimulateMsgDeleteDenom

\* Every reachable state of the simulation satisfies its invariant.
LEMMA SimInvHolds == SimSpec => []SimInv
<1>1. SimInit => SimInv
  BY SimStarts
<1>2. SimInv /\ [SimNext]_simVars => SimInv'
  BY SimSteps
<1>3. QED
  BY <1>1, <1>2, PTL DEF SimSpec

(***************************************************************************)
(* The store and the last delivery of the simulation stay of their types   *)
(* (GenerateGenesisState and the weighted operations).                     *)
(***************************************************************************)
THEOREM SimulationTypeCorrect == SimSpec => []SimTypeOK
<1>1. SimInv => SimTypeOK
  BY DEF SimInv, SimTypeOK
<1>2. QED
  BY <1>1, SimInvHolds, PTL

(***************************************************************************)
(* No operation of the simulation delivers a message that its handler      *)
(* refuses, whatever the accounts and the denom names: what the operations *)
(* look up in the store (GetDenom, FindAccount over GetAllDenom) agrees    *)
(* with what the message server checks.                                    *)
(***************************************************************************)
THEOREM SimulationNeverRefused == SimSpec => []NeverRefused
<1>1. SimInv => NeverRefused
  BY DEF SimInv, NeverRefused
<1>2. QED
  BY <1>1, SimInvHolds, PTL
=============================================================================
