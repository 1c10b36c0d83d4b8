---------------------------- MODULE FoldTheorems ----------------------------
(***************************************************************************)
(* What the folds of the community modules compute, for every finite       *)
(* input.  The store of a block is FoldLeft over its transactions and its  *)
(* messages, and the balance of the distribution module is SumFunction of  *)
(* what it owes; both unfold to MapThenFoldSet, a recursive function on    *)
(* the subsets of a finite set.  Induction is stated with a set of good    *)
(* numbers or of good subsets in place of a predicate.                     *)
(***************************************************************************)
EXTENDS FiniteSetTheorems, TLAPS

(***************************************************************************)
(* A set that holds zero and with every number its successor holds all.    *)
(***************************************************************************)
LEMMA NatSetInduction ==
  ASSUME NEW G, 0 \in G, \A n \in Nat : n \in G => n + 1 \in G
  PROVE  Nat \subseteq G
<1> DEFINE Bad == Nat \ G
<1>1. SUFFICES ASSUME Bad # {} PROVE FALSE
  OBVIOUS
<1>2. PICK n \in Bad : \A m \in Bad : ~ (<<m, n>> \in OpToRel(<, Nat))
  BY <1>1, WFMin, NatLessThanWellFounded, Zenon
<1>3. \A m \in Bad : ~ (m < n)
  BY <1>2 DEF OpToRel
<1>4. n \in Nat /\ n # 0
  OBVIOUS
<1>5. n - 1 \in Nat /\ n - 1 < n /\ (n - 1) + 1 = n
  BY <1>4
<1>6. QED
  BY <1>3, <1>5

(***************************************************************************)
(* A family of subsets of a finite set that holds the empty one, and every *)
(* one from which any removal of an element leads into the family, holds   *)
(* the set itself and all its subsets.                                     *)
(***************************************************************************)
LEMMA SubsetInduction ==
  ASSUME NEW S, IsFiniteSet(S), NEW G, {} \in G,
         \A s \in (SUBSET S) \ {{}} : (\A x \in s : s \ {x} \in G) => s \in G
  PROVE  SUBSET S \subseteq G
<1> DEFINE Upto == {n \in Nat : \A s \in SUBSET S : Cardinality(s) = n => s \in G}
<1>1. \A s \in SUBSET S : IsFiniteSet(s) /\ Cardinality(s) \in Nat
  BY FS_Subset, FS_CardinalityType
<1>2. 0 \in Upto
  <2>1. \A s \in SUBSET S : Cardinality(s) = 0 => s = {}
    BY <1>1, FS_EmptySet
  <2>2. QED
    BY <2>1
<1>3. ASSUME NEW n \in Nat, n \in Upto PROVE n + 1 \in Upto
  <2>1. SUFFICES ASSUME NEW s \in SUBSET S, Cardinality(s) = n + 1 PROVE s \in G
    OBVIOUS
  <2>2. s # {}
    BY <1>1, <2>1, FS_EmptySet
  <2>3. ASSUME NEW x \in s PROVE s \ {x} \in G
    <3>1. Cardinality(s \ {x}) = n
      BY <1>1, <2>1, FS_RemoveElement
    <3>2. QED
      BY <1>3, <3>1
  <2>4. QED
    BY <2>2, <2>3
<1> HIDE DEF Upto
<1>4. Nat \subseteq Upto
  BY <1>2, <1>3, NatSetInduction
<1>5. QED
  BY <1>1, <1>4 DEF Upto

-----------------------------------------------------------------------------
\* g folds the subsets of S: it starts at base, and a set that is not empty
\* applies the step of the element that pick takes out of it.
FoldsSubsets(g, S, T, base, pick, step) ==
    /\ g \in [SUBSET S -> T]
    /\ \A s \in SUBSET S :
         g[s] = IF s = {} THEN base ELSE step[pick[s]][g[s \ {pick[s]}]]

Picks(pick, S) ==
    /\ pick \in [(SUBSET S) \ {{}} -> S]
    /\ \A s \in (SUBSET S) \ {{}} : pick[s] \in s

(***************************************************************************)
(* The recursion that defines a fold has a solution.                       *)
(***************************************************************************)
LEMMA FoldExists ==
  ASSUME NEW S, IsFiniteSet(S), NEW T, NEW base \in T,
         NEW pick, Picks(pick, S), NEW step \in [S -> [T -> T]]
  PROVE  \E g : FoldsSubsets(g, S, T, base, pick, step)
<1> DEFINE Small(n) == {s \in SUBSET S : Cardinality(s) <= n}
           Body(g, s) == IF s = {} THEN base ELSE step[pick[s]][g[s \ {pick[s]}]]
           Solved == {n \in Nat : \E g \in [Small(n) -> T] : \A s \in Small(n) : g[s] = Body(g, s)}
<1>1. \A s \in SUBSET S : IsFiniteSet(s) /\ Cardinality(s) \in Nat
  BY FS_Subset, FS_CardinalityType
<1>2. \A s \in SUBSET S : Cardinality(s) = 0 <=> s = {}
  BY <1>1, FS_EmptySet
<1>3. 0 \in Solved
  <2> DEFINE g == [s \in Small(0) |-> base]
  <2>1. \A s \in Small(0) : s = {}
    BY <1>1, <1>2
  <2>2. g \in [Small(0) -> T] /\ \A s \in Small(0) : g[s] = Body(g, s)
    BY <2>1
  <2>3. QED
    BY <2>2
<1>4. ASSUME NEW n \in Nat, n \in Solved PROVE n + 1 \in Solved
  <2>1. PICK g \in [Small(n) -> T] : \A s \in Small(n) : g[s] = Body(g, s)
    BY <1>4
  <2> DEFINE h == [s \in Small(n + 1) |-> Body(g, s)]
  <2>2. ASSUME NEW s \in Small(n + 1), s # {}
        PROVE  /\ pick[s] \in s /\ pick[s] \in S
               /\ s \ {pick[s]} \in Small(n) /\ s \ {pick[s]} \in Small(n + 1)
    <3>1. pick[s] \in s /\ s \in SUBSET S
      BY <2>2 DEF Picks
    <3>2. Cardinality(s \ {pick[s]}) = Cardinality(s) - 1
      BY <1>1, <3>1, FS_RemoveElement
    <3>3. Cardinality(s) \in Nat /\ Cardinality(s) <= n + 1
      BY <1>1, <3>1
    <3>4. Cardinality(s \ {pick[s]}) <= n /\ Cardinality(s \ {pick[s]}) <= n + 1
      BY <3>2, <3>3
    <3>5. QED
      BY <3>1, <3>4
  <2>3. ASSUME NEW s \in Small(n + 1) PROVE Body(g, s) \in T
    BY <2>2
  <2>4. h \in [Small(n + 1) -> T]
    BY <2>3
  <2>5. ASSUME NEW s \in Small(n) PROVE s \in Small(n + 1) /\ h[s] = g[s]
    <3>1. s \in Small(n + 1)
      <4>1. Cardinality(s) \in Nat /\ Cardinality(s) <= n
        BY <1>1
      <4>2. Cardinality(s) <= n + 1
        BY <4>1
      <4>3. QED
        BY <4>2
    <3>2. QED
      BY <2>1, <3>1
  <2>6. ASSUME NEW s \in Small(n + 1) PROVE h[s] = Body(h, s)
    <3>1. h[s] = Body(g, s)
      OBVIOUS
    <3>2. s # {} => h[s \ {pick[s]}] = g[s \ {pick[s]}]
      BY <2>2, <2>5
    <3> HIDE DEF h
    <3>3. QED
      BY <3>1, <3>2
  <2> HIDE DEF h
  <2>7. \E f \in [Small(n + 1) -> T] : \A s \in Small(n + 1) : f[s] = Body(f, s)
    BY <2>4, <2>6
  <2> HIDE DEF Small, Body
  <2>8. QED
    BY <2>7
<1> HIDE DEF Solved
<1>5. Cardinality(S) \in Solved
  BY <1>1, <1>3, <1>4, NatSetInduction
<1>6. Small(Cardinality(S)) = SUBSET S
  BY FS_Subset
<1> USE DEF Solved
<1>7. PICK g \in [SUBSET S -> T] : \A s \in SUBSET S : g[s] = Body(g, s)
  BY <1>5, <1>6
<1>8. QED
  BY <1>7 DEF FoldsSubsets

-----------------------------------------------------------------------------
(* Sums.                                                                   *)

AnyOf(S) == [s \in (SUBSET S) \ {{}} |-> CHOOSE x \in s : TRUE]

Adding(f, S) == [x \in S |-> [y \in Int |-> f[x] + y]]

SumsSubsets(g, f, S) == FoldsSubsets(g, S, Int, 0, AnyOf(S), Adding(f, S))

\* A sum may take the entries in any order.
LEMMA AnyOfPicks == ASSUME NEW S PROVE Picks(AnyOf(S), S)
<1>1. \A s \in (SUBSET S) \ {{}} : (CHOOSE x \in s : TRUE) \in s
  OBVIOUS
<1>2. QED
  BY <1>1 DEF Picks, AnyOf

(***************************************************************************)
(* The sum of a function over a finite set is such a fold.                 *)
(***************************************************************************)
LEMMA SumIsFold ==
  ASSUME NEW S, IsFiniteSet(S), NEW f, \A x \in S : f[x] \in Int
  PROVE  \E g : SumsSubsets(g, f, S) /\ SumFunctionOnSet(f, S) = g[S]
<1> DEFINE Eq(g) == g = [s \in SUBSET S |->
                           IF s = {} THEN 0
                           ELSE f[CHOOSE x \in s : TRUE] + g[s \ {CHOOSE x \in s : TRUE}]]
<1>1. Adding(f, S) \in [S -> [Int -> Int]]
  BY DEF Adding
<1>2. PICK g : SumsSubsets(g, f, S)
  <2>1. 0 \in Int /\ Picks(AnyOf(S), S)
    BY AnyOfPicks
  <2>2. \E g : FoldsSubsets(g, S, Int, 0, AnyOf(S), Adding(f, S))
    BY <1>1, <2>1, FoldExists, Zenon
  <2>3. QED
    BY <2>2 DEF SumsSubsets
<1>3. \A s \in SUBSET S : s # {} => (CHOOSE x \in s : TRUE) \in s
  OBVIOUS
<1>4. Eq(g)
  BY <1>2, <1>3 DEF SumsSubsets, FoldsSubsets, AnyOf, Adding
<1>5. SumFunctionOnSet(f, S) = (CHOOSE g0 : Eq(g0))[S]
  BY DEF SumFunctionOnSet, FoldFunctionOnSet, MapThenFoldSet
<1> DEFINE h == CHOOSE g0 : Eq(g0)
<1> HIDE DEF Eq
<1>6. Eq(h)
  BY <1>4, Zenon
<1> HIDE DEF h
<1>7. h = g
  <2> DEFINE Same == {s \in SUBSET S : h[s] = g[s]}
  <2>1. {} \in Same
    BY <1>4, <1>6 DEF Eq
  <2>2. ASSUME NEW s \in (SUBSET S) \ {{}}, \A x \in s : s \ {x} \in Same PROVE s \in Same
    BY <1>3, <1>4, <1>6, <2>2 DEF Eq
  <2> HIDE DEF Same
  <2>3. SUBSET S \subseteq Same
    BY <2>1, <2>2, SubsetInduction
  <2>4. \A s \in SUBSET S : h[s] = g[s]
    BY <2>3 DEF Same
  <2>5. QED
    BY <1>4, <1>6, <2>4 DEF Eq
<1>8. QED
  BY <1>2, <1>5, <1>7 DEF h

(***************************************************************************)
(* One entry of a function changes: so does its sum, by the difference.    *)
(* An entry outside the set does not count.                                *)
(***************************************************************************)
THEOREM SumChanges ==
  ASSUME NEW S, IsFiniteSet(S), NEW f, NEW h, NEW a,
         \A x \in S : f[x] \in Int /\ h[x] \in Int,
         \A x \in S : x # a => h[x] = f[x]
  PROVE  /\ SumFunctionOnSet(f, S) \in Int
         /\ a \in S => SumFunctionOnSet(h, S) = SumFunctionOnSet(f, S) + (h[a] - f[a])
         /\ a \notin S => SumFunctionOnSet(h, S) = SumFunctionOnSet(f, S)
<1>1. PICK g : SumsSubsets(g, f, S) /\ SumFunctionOnSet(f, S) = g[S]
  BY SumIsFold
<1>2. PICK k : SumsSubsets(k, h, S) /\ SumFunctionOnSet(h, S) = k[S]
  BY SumIsFold
<1> DEFINE Moved == {s \in SUBSET S : k[s] = g[s] + (IF a \in s THEN h[a] - f[a] ELSE 0)}
           any(s) == CHOOSE x \in s : TRUE
<1>3. ASSUME NEW s \in (SUBSET S) \ {{}}
      PROVE  /\ any(s) \in s
             /\ g[s] = f[any(s)] + g[s \ {any(s)}]
             /\ k[s] = h[any(s)] + k[s \ {any(s)}]
  <2>1. any(s) \in s
    OBVIOUS
  <2>2. s \ {any(s)} \in SUBSET S
    OBVIOUS
  <2>3. g[s \ {any(s)}] \in Int /\ k[s \ {any(s)}] \in Int
    BY <1>1, <1>2, <2>2 DEF SumsSubsets, FoldsSubsets
  <2>4. QED
    BY <1>1, <1>2, <2>1, <2>3 DEF SumsSubsets, FoldsSubsets, AnyOf, Adding
<1>4. g[{}] = 0 /\ k[{}] = 0
  BY <1>1, <1>2 DEF SumsSubsets, FoldsSubsets
<1>5. \A s \in SUBSET S : g[s] \in Int /\ k[s] \in Int
  BY <1>1, <1>2 DEF SumsSubsets, FoldsSubsets
<1>6. {} \in Moved
  BY <1>4
<1> HIDE DEF any
<1>7. ASSUME NEW s \in (SUBSET S) \ {{}}, \A x \in s : s \ {x} \in Moved PROVE s \in Moved
  <2> DEFINE t == s \ {any(s)}
  <2>1. k[t] = g[t] + (IF a \in t THEN h[a] - f[a] ELSE 0)
    BY <1>3, <1>7
  <2>2. g[s] = f[any(s)] + g[t] /\ k[s] = h[any(s)] + k[t] /\ any(s) \in s
    BY <1>3
  <2>3. t \in SUBSET S /\ (a \in t <=> a \in s /\ a # any(s))
    OBVIOUS
  <2> HIDE DEF t
  <2>4. k[s] = g[s] + (IF a \in s THEN h[a] - f[a] ELSE 0)
    <3>1. g[t] \in Int /\ k[t] \in Int /\ f[any(s)] \in Int /\ h[any(s)] \in Int
      BY <1>5, <2>2, <2>3
    <3>2. CASE a = any(s)
      BY <2>1, <2>2, <2>3, <3>1, <3>2
    <3>3. CASE a # any(s) /\ a \in s
      <4>1. h[any(s)] = f[any(s)] /\ f[a] \in Int /\ h[a] \in Int
        BY <2>2, <3>3
      <4>2. QED
        BY <2>1, <2>2, <2>3, <3>1, <3>3, <4>1
    <3>4. CASE a \notin s
      <4>1. h[any(s)] = f[any(s)]
        BY <2>2, <3>4
      <4>2. QED
        BY <2>1, <2>2, <2>3, <3>1, <3>4, <4>1
    <3>5. QED
      BY <3>2, <3>3, <3>4
  <2>5. QED
    BY <2>4
<1> HIDE DEF Moved
<1>8. SUBSET S \subseteq Moved
  BY <1>6, <1>7, SubsetInduction
<1>9. S \in Moved
  BY <1>8
<1>10. QED
  BY <1>1, <1>2, <1>5, <1>9 DEF Moved

(***************************************************************************)
(* A sum of natural numbers is one, and it is zero if they all are.        *)
(***************************************************************************)
THEOREM SumOfNaturals ==
  ASSUME NEW S, IsFiniteSet(S), NEW f, \A x \in S : f[x] \in Nat
  PROVE  /\ SumFunctionOnSet(f, S) \in Nat
         /\ (\A x \in S : f[x] = 0) => SumFunctionOnSet(f, S) = 0
         /\ \A x \in S : f[x] <= SumFunctionOnSet(f, S)
<1>1. PICK g : SumsSubsets(g, f, S) /\ SumFunctionOnSet(f, S) = g[S]
  BY SumIsFold
<1> DEFINE any(s) == CHOOSE x \in s : TRUE
           Fine == {s \in SUBSET S : /\ g[s] \in Nat
                                     /\ (\A x \in s : f[x] = 0) => g[s] = 0
                                     /\ \A x \in s : f[x] <= g[s]}
<1>2. ASSUME NEW s \in (SUBSET S) \ {{}}
      PROVE  any(s) \in s /\ g[s] = f[any(s)] + g[s \ {any(s)}]
  <2>1. any(s) \in s
    OBVIOUS
  <2>2. s \ {any(s)} \in SUBSET S
    OBVIOUS
  <2>3. g[s \ {any(s)}] \in Int
    BY <1>1, <2>2 DEF SumsSubsets, FoldsSubsets
  <2>4. QED
    BY <1>1, <2>1, <2>3 DEF SumsSubsets, FoldsSubsets, AnyOf, Adding
<1>3. {} \in Fine
  <2>1. g[{}] = 0
    BY <1>1 DEF SumsSubsets, FoldsSubsets
  <2>2. QED
    BY <2>1
<1> HIDE DEF any
<1>4. ASSUME NEW s \in (SUBSET S) \ {{}}, \A x \in s : s \ {x} \in Fine PROVE s \in Fine
  <2> DEFINE t == s \ {any(s)}
  <2>1. g[s] = f[any(s)] + g[t] /\ any(s) \in s /\ f[any(s)] \in Nat
    BY <1>2
  <2>2. g[t] \in Nat /\ ((\A x \in t : f[x] = 0) => g[t] = 0) /\ \A x \in t : f[x] <= g[t]
    BY <1>4, <2>1
  <2>3. g[s] \in Nat
    BY <2>1, <2>2
  <2>4. (\A x \in s : f[x] = 0) => g[s] = 0
    BY <2>1, <2>2
  <2>5. ASSUME NEW x \in s PROVE f[x] <= g[s]
    <3>1. f[x] \in Nat
      OBVIOUS
    <3>2. CASE x = any(s)
      BY <2>1, <2>2, <3>1, <3>2
    <3>3. CASE x # any(s)
      <4>1. x \in t
        BY <3>3
      <4> HIDE DEF t
      <4>2. f[x] <= g[t]
        BY <2>2, <4>1
      <4>3. QED
        BY <2>1, <2>2, <3>1, <4>2
    <3>4. QED
      BY <3>2, <3>3
  <2>6. QED
    BY <2>3, <2>4, <2>5
<1> HIDE DEF Fine
<1>5. SUBSET S \subseteq Fine
  BY <1>3, <1>4, SubsetInduction
<1>6. S \in Fine
  BY <1>5
<1>7. QED
  BY <1>1, <1>6 DEF Fine

-----------------------------------------------------------------------------
(* Folding a sequence from left to right: FoldLeft takes the largest index  *)
(* out of a set of indices.                                                *)

Largest(n) == [s \in (SUBSET (1 .. n)) \ {{}} |-> CHOOSE x \in s : \A y \in s : x >= y]

\* The largest index of 1 .. k is k: FoldLeft ends with the last element.
LEMMA LargestPicks ==
  ASSUME NEW n \in Nat
  PROVE  /\ Picks(Largest(n), 1 .. n)
         /\ \A k \in 1 .. n : Largest(n)[1 .. k] = k
<1>1. ASSUME NEW s \in (SUBSET (1 .. n)) \ {{}} PROVE \E x \in s : \A y \in s : x >= y
  <2> DEFINE Rest == {m \in Nat : \E x \in s : m = n - x}
  <2>1. Rest # {}
    <3>1. PICK x \in s : TRUE
      OBVIOUS
    <3>2. x \in 1 .. n
      OBVIOUS
    <3>3. n - x \in Nat
      BY <3>2
    <3>4. QED
      BY <3>3
  <2>2. PICK m \in Rest : \A k \in Rest : ~ (<<k, m>> \in OpToRel(<, Nat))
    BY <2>1, WFMin, NatLessThanWellFounded, Zenon
  <2>3. \A k \in Rest : ~ (k < m)
    BY <2>2 DEF OpToRel
  <2>4. PICK x \in s : m = n - x
    OBVIOUS
  <2>5. ASSUME NEW y \in s PROVE x >= y
    <3>1. x \in 1 .. n /\ y \in 1 .. n
      OBVIOUS
    <3>2. n - y \in Rest
      BY <3>1
    <3>3. ~ (n - y < n - x)
      BY <2>3, <2>4, <3>2
    <3>4. QED
      BY <3>1, <3>3
  <2>6. QED
    BY <2>5
<1>2. ASSUME NEW s \in (SUBSET (1 .. n)) \ {{}}
      PROVE  /\ Largest(n)[s] = CHOOSE x \in s : \A y \in s : x >= y
             /\ Largest(n)[s] \in s /\ \A y \in s : Largest(n)[s] >= y
  BY <1>1 DEF Largest
<1>3. Picks(Largest(n), 1 .. n)
  BY <1>2 DEF Picks, Largest
<1>4. ASSUME NEW k \in 1 .. n PROVE Largest(n)[1 .. k] = k
  <2>1. 1 .. k \in (SUBSET (1 .. n)) \ {{}}
    OBVIOUS
  <2>2. k \in 1 .. k
    OBVIOUS
  <2>3. Largest(n)[1 .. k] \in 1 .. k /\ Largest(n)[1 .. k] >= k
    BY <1>2, <2>1, <2>2
  <2>4. QED
    BY <2>3
<1>5. QED
  BY <1>3, <1>4

\* A fold over the subsets of a finite set.
Folding(S, T, base, pick, step) ==
    /\ IsFiniteSet(S)
    /\ base \in T
    /\ Picks(pick, S)
    /\ step \in [S -> [T -> T]]

\* h follows the recursion as long as its values stay in T.
FollowsFold(h, S, T, base, pick, step) ==
    /\ h[{}] = base
    /\ \A s \in (SUBSET S) \ {{}} : h[s \ {pick[s]}] \in T =>
           h[s] = step[pick[s]][h[s \ {pick[s]}]]

(***************************************************************************)
(* A function that follows the recursion as long as its values stay in T   *)
(* is the fold.                                                            *)
(***************************************************************************)
LEMMA FoldUnique ==
  ASSUME NEW S, NEW T, NEW base, NEW pick, NEW step, Folding(S, T, base, pick, step),
         NEW g, FoldsSubsets(g, S, T, base, pick, step),
         NEW h, FollowsFold(h, S, T, base, pick, step)
  PROVE  h[S] = g[S]
<1> USE DEF Folding
<1> DEFINE Same == {s \in SUBSET S : h[s] = g[s]}
<1>1. {} \in Same
  BY DEF FoldsSubsets, FollowsFold
<1>2. ASSUME NEW s \in (SUBSET S) \ {{}}, \A x \in s : s \ {x} \in Same PROVE s \in Same
  <2>1. pick[s] \in s
    BY DEF Picks
  <2>2. s \ {pick[s]} \in SUBSET S /\ h[s \ {pick[s]}] = g[s \ {pick[s]}]
    BY <1>2, <2>1
  <2>3. g[s \ {pick[s]}] \in T
    BY <2>2 DEF FoldsSubsets
  <2>4. h[s] = step[pick[s]][h[s \ {pick[s]}]]
    BY <2>2, <2>3 DEF FollowsFold
  <2>5. g[s] = step[pick[s]][g[s \ {pick[s]}]]
    BY DEF FoldsSubsets
  <2>6. QED
    BY <2>2, <2>4, <2>5
<1> HIDE DEF Same
<1>3. SUBSET S \subseteq Same
  BY <1>1, <1>2, SubsetInduction
<1>4. S \in Same
  BY <1>3
<1>5. QED
  BY <1>4 DEF Same

\* r holds what the first k steps make of base, for every k.
StepPrefixes(r, n, T, base, step) ==
    /\ r \in [0 .. n -> T]
    /\ r[0] = base
    /\ \A k \in 1 .. n : r[k] = step[k][r[k - 1]]

(***************************************************************************)
(* The fold over the indices of a sequence goes through its prefixes.      *)
(***************************************************************************)
LEMMA FoldPrefixes ==
  ASSUME NEW n \in Nat, NEW T, NEW base \in T, NEW step \in [1 .. n -> [T -> T]],
         NEW g, FoldsSubsets(g, 1 .. n, T, base, Largest(n), step)
  PROVE  \E r : StepPrefixes(r, n, T, base, step) /\ g[1 .. n] = r[n]
<1> DEFINE r == [k \in 0 .. n |-> g[1 .. k]]
<1>1. \A k \in 0 .. n : 1 .. k \in SUBSET (1 .. n)
  OBVIOUS
<1>2. r \in [0 .. n -> T]
  BY <1>1 DEF FoldsSubsets
<1>3. r[0] = base
  <2>1. 1 .. 0 = {}
    OBVIOUS
  <2>2. r[0] = g[{}]
    BY <2>1
  <2>3. QED
    BY <2>2 DEF FoldsSubsets
<1>4. ASSUME NEW k \in 1 .. n PROVE r[k] = step[k][r[k - 1]]
  <2>1. 1 .. k \in SUBSET (1 .. n) /\ k \in 1 .. k
    OBVIOUS
  <2>2. Largest(n)[1 .. k] = k
    BY LargestPicks
  <2>3. (1 .. k) \ {k} = 1 .. (k - 1)
    <3>1. k \in Nat
      OBVIOUS
    <3>2. \A i : i \in (1 .. k) \ {k} <=> i \in 1 .. (k - 1)
      BY <3>1
    <3>3. QED
      BY <3>2
  <2>4. g[1 .. k] = step[k][g[1 .. (k - 1)]]
    BY <2>1, <2>2, <2>3 DEF FoldsSubsets
  <2>5. k \in 0 .. n /\ k - 1 \in 0 .. n
    OBVIOUS
  <2>6. QED
    BY <2>4, <2>5
<1>5. g[1 .. n] = r[n]
  OBVIOUS
<1> HIDE DEF r
<1>6. QED
  BY <1>2, <1>3, <1>4, <1>5 DEF StepPrefixes

(***************************************************************************)
(* What a recursive function computes that follows the steps of a sequence *)
(* on the sets of its indices, as FoldLeft does.                           *)
(***************************************************************************)
THEOREM SequenceFold ==
  ASSUME NEW n \in Nat, NEW T, NEW base \in T, NEW step \in [1 .. n -> [T -> T]]
  PROVE  /\ \E g : FoldsSubsets(g, 1 .. n, T, base, Largest(n), step)
         /\ \A h : FollowsFold(h, 1 .. n, T, base, Largest(n), step) =>
                \E r : StepPrefixes(r, n, T, base, step) /\ h[1 .. n] = r[n]
<1>1. IsFiniteSet(1 .. n)
  BY FS_Interval
<1>2. Picks(Largest(n), 1 .. n)
  BY LargestPicks
<1>3. PICK g : FoldsSubsets(g, 1 .. n, T, base, Largest(n), step)
  BY <1>1, <1>2, FoldExists
<1>4. PICK r : StepPrefixes(r, n, T, base, step) /\ g[1 .. n] = r[n]
  BY <1>3, FoldPrefixes
<1>5. ASSUME NEW h, FollowsFold(h, 1 .. n, T, base, Largest(n), step)
      PROVE  h[1 .. n] = r[n]
  <2> DEFINE pick == Largest(n)
             S == 1 .. n
  <2>1. Folding(S, T, base, pick, step)
    BY <1>1, <1>2 DEF Folding
  <2>2. /\ FoldsSubsets(g, S, T, base, pick, step)
        /\ FollowsFold(h, S, T, base, pick, step)
    BY <1>3, <1>5
  <2> HIDE DEF S, pick
  <2>3. h[S] = g[S]
    BY <2>1, <2>2, FoldUnique
  <2>4. QED
    BY <1>4, <2>3 DEF S
<1>6. QED
  BY <1>3, <1>4, <1>5

-----------------------------------------------------------------------------
(* Recursion on the natural numbers.                                       *)

\* A recursion: init gives the values at the small numbers, and step the value
\* at any other number from the one at its predecessor.
Recursion(T, small, init, pred, step) ==
    /\ small \in SUBSET Nat /\ init \in [Nat -> T] /\ pred \in [Nat -> Nat]
    /\ step \in [Nat -> [T -> T]]
    /\ \A x \in Nat \ small : pred[x] < x

Recurs(f, T, small, init, pred, step) ==
    /\ f \in [Nat -> T]
    /\ \A x \in Nat : f[x] = IF x \in small THEN init[x] ELSE step[x][f[pred[x]]]

(***************************************************************************)
(* A function on the natural numbers may be defined by recursion.          *)
(***************************************************************************)
LEMMA NatRecursion ==
  ASSUME NEW T, NEW small, NEW init, NEW pred, NEW step, Recursion(T, small, init, pred, step)
  PROVE  \E f : Recurs(f, T, small, init, pred, step)
<1>0. /\ small \in SUBSET Nat /\ init \in [Nat -> T] /\ pred \in [Nat -> Nat]
      /\ step \in [Nat -> [T -> T]] /\ \A x \in Nat \ small : pred[x] < x
  BY DEF Recursion
<1> USE <1>0
<1> DEFINE Body(g, x) == IF x \in small THEN init[x] ELSE step[x][g[pred[x]]]
           Solves(g, n) == g \in [0 .. n -> T] /\ \A x \in 0 .. n : g[x] = Body(g, x)
           Solved == {n \in Nat : \E g : Solves(g, n)}
<1>1. 0 \in Solved
  <2> DEFINE g == [x \in 0 .. 0 |-> init[x]]
  <2>1. 0 \in small
    OBVIOUS
  <2>2. \A x \in 0 .. 0 : x = 0
    OBVIOUS
  <2>3. Solves(g, 0)
    BY <2>1, <2>2
  <2> HIDE DEF Solves
  <2>4. QED
    BY <2>3
<1>2. ASSUME NEW n \in Nat, n \in Solved PROVE n + 1 \in Solved
  <2>1. PICK g : Solves(g, n)
    BY <1>2
  <2> DEFINE h == [x \in 0 .. n + 1 |-> Body(g, x)]
  <2>2. ASSUME NEW x \in 0 .. n + 1, x \notin small PROVE pred[x] \in 0 .. n
    <3>1. x \in Nat /\ x <= n + 1
      OBVIOUS
    <3>2. pred[x] \in Nat /\ pred[x] < x
      BY <2>2, <3>1
    <3>3. QED
      BY <3>1, <3>2
  <2>3. ASSUME NEW x \in 0 .. n + 1 PROVE Body(g, x) \in T
    <3>1. x \in Nat
      OBVIOUS
    <3>2. CASE x \in small
      BY <3>1, <3>2
    <3>3. CASE x \notin small
      <4>1. g[pred[x]] \in T
        BY <2>1, <2>2, <3>3
      <4>2. QED
        BY <3>1, <3>3, <4>1
    <3>4. QED
      BY <3>2, <3>3
  <2>4. ASSUME NEW x \in 0 .. n PROVE h[x] = g[x]
    <3>1. x \in 0 .. n + 1
      OBVIOUS
    <3>2. h[x] = Body(g, x)
      BY <3>1
    <3>3. g[x] = Body(g, x)
      BY <2>1
    <3> HIDE DEF h, Body
    <3>4. QED
      BY <3>2, <3>3
  <2>5. ASSUME NEW x \in 0 .. n + 1 PROVE h[x] = Body(h, x)
    <3>1. h[x] = Body(g, x)
      OBVIOUS
    <3>2. x \notin small => h[pred[x]] = g[pred[x]]
      BY <2>2, <2>4
    <3> HIDE DEF h
    <3>3. QED
      BY <3>1, <3>2
  <2>6. h \in [0 .. n + 1 -> T]
    BY <2>3
  <2> HIDE DEF h
  <2>7. Solves(h, n + 1)
    BY <2>5, <2>6
  <2> HIDE DEF Solves
  <2>8. QED
    BY <2>7
<1> HIDE DEF Solved
<1>3. Nat \subseteq Solved
  BY <1>1, <1>2, NatSetInduction
<1> USE DEF Solved
<1>4. ASSUME NEW n \in Nat, NEW m \in Nat, n <= m, NEW g, NEW h, Solves(g, n), Solves(h, m)
      PROVE  g[n] = h[n]
  <2> DEFINE Same == {k \in Nat : \A x \in 0 .. k : x <= n => g[x] = h[x]}
  <2>1. ASSUME NEW k \in Nat, \A x \in Nat : x < k /\ x <= n => g[x] = h[x], k <= n
        PROVE  g[k] = h[k]
    <3>1. k \in 0 .. n /\ k \in 0 .. m
      BY <1>4, <2>1
    <3>2. g[k] = Body(g, k) /\ h[k] = Body(h, k)
      BY <1>4, <3>1
    <3>3. k \notin small => pred[k] \in Nat /\ pred[k] < k /\ pred[k] <= n
      BY <2>1
    <3>4. k \notin small => g[pred[k]] = h[pred[k]]
      BY <2>1, <3>3
    <3>5. QED
      BY <3>2, <3>4
  <2> HIDE DEF Solves
  <2>2. 0 \in Same
    <3>1. \A x \in Nat : x < 0 /\ x <= n => g[x] = h[x]
      OBVIOUS
    <3>2. g[0] = h[0]
      BY <2>1, <3>1
    <3>3. \A x \in 0 .. 0 : x = 0
      OBVIOUS
    <3>4. QED
      BY <3>2, <3>3
  <2>3. ASSUME NEW k \in Nat, k \in Same PROVE k + 1 \in Same
    <3>1. \A x \in Nat : x < k + 1 /\ x <= n => g[x] = h[x]
      <4>1. \A x \in Nat : x < k + 1 => x \in 0 .. k
        OBVIOUS
      <4>2. QED
        BY <2>3, <4>1
    <3>2. k + 1 \in Nat /\ (k + 1 <= n => g[k + 1] = h[k + 1])
      BY <2>1, <3>1
    <3>3. \A x \in 0 .. k + 1 : x \in 0 .. k \/ x = k + 1
      OBVIOUS
    <3>4. QED
      BY <2>3, <3>2, <3>3
  <2> HIDE DEF Same
  <2>4. n \in Same
    BY <2>2, <2>3, NatSetInduction
  <2>5. QED
    BY <2>4 DEF Same
<1> DEFINE sol == [n \in Nat |-> CHOOSE g : Solves(g, n)]
           f == [n \in Nat |-> sol[n][n]]
<1>5. ASSUME NEW n \in Nat PROVE Solves(sol[n], n)
  <2> HIDE DEF Solves
  <2>1. \E g : Solves(g, n)
    BY <1>3
  <2>2. QED
    BY <2>1
<1> HIDE DEF sol
<1>6. ASSUME NEW x \in Nat PROVE f[x] \in T /\ f[x] = Body(f, x)
  <2>1. f[x] = sol[x][x] /\ sol[x][x] \in T /\ sol[x][x] = Body(sol[x], x)
    BY <1>5
  <2>2. CASE x \in small
    BY <2>1, <2>2
  <2>3. CASE x \notin small
    <3>1. pred[x] \in Nat /\ pred[x] <= x
      BY <2>3
    <3>2. Solves(sol[pred[x]], pred[x]) /\ Solves(sol[x], x)
      BY <1>5, <3>1
    <3> HIDE DEF Solves
    <3>3. sol[pred[x]][pred[x]] = sol[x][pred[x]]
      BY <1>4, <3>1, <3>2
    <3>4. f[pred[x]] = sol[x][pred[x]]
      BY <3>1, <3>3
    <3> HIDE DEF f
    <3>5. QED
      BY <2>1, <2>3, <3>4
  <2>4. QED
    BY <2>2, <2>3
<1>7. f \in [Nat -> T]
  BY <1>6
<1> HIDE DEF f
<1>8. QED
  BY <1>6, <1>7 DEF Recurs

(***************************************************************************)
(* A set that holds a number as soon as it holds all the smaller ones.     *)
(***************************************************************************)
LEMMA NatSetStrongInduction ==
  ASSUME NEW G, \A n \in Nat : (\A m \in Nat : m < n => m \in G) => n \in G
  PROVE  Nat \subseteq G
<1> DEFINE H == {n \in Nat : \A m \in Nat : m < n => m \in G}
<1>1. 0 \in H
  OBVIOUS
<1>2. ASSUME NEW n \in Nat, n \in H PROVE n + 1 \in H
  <2>1. n \in G
    BY <1>2
  <2>2. \A m \in Nat : m < n + 1 => m < n \/ m = n
    OBVIOUS
  <2>3. QED
    BY <1>2, <2>1, <2>2
<1> HIDE DEF H
<1>3. Nat \subseteq H
  BY <1>1, <1>2, NatSetInduction
<1>4. QED
  BY <1>3 DEF H
=============================================================================
