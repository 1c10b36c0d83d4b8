--------------------------- MODULE WirePathProofs ---------------------------
(***************************************************************************)
(* The path of a message. The buffer of an encoder is filled from its end  *)
(* and must have been allocated with the right size by another function:   *)
(* every loop of the encoders is followed block by block. The decoder is   *)
(* then followed along the same blocks, and reads back what was written.   *)
(* With the decoders of ProtoWireProofs this gives what holds on every     *)
(* path.                                                                   *)
(*                                                                         *)
(* Then the life of a record: made by a handler, stored, put into the      *)
(* answer to a query and read by the command line, into other structs than *)
(* those that wrote it.                                                    *)
(*                                                                         *)
(* At last what reflection reports as set: the encoding is walked from     *)
(* field to field, each passed over without being read, and the numbers    *)
(* met are those of the fields that are present.                           *)
(***************************************************************************)
EXTENDS ProtoWireProofs

Top(s) == CHOOSE x \in s : \A y \in s : x >= y

\* g folds the indices of a sequence, the largest one last.
FoldsIndices(g, n, T, base, step) ==
    /\ g \in [SUBSET (1 .. n) -> T] /\ g[{}] = base
    /\ \A s \in (SUBSET (1 .. n)) \ {{}} :
          /\ Top(s) \in 1 .. n /\ g[s \ {Top(s)}] \in T
          /\ g[s] = step[Top(s)][g[s \ {Top(s)}]]

FollowsIndices(h, n, T, base, step) ==
    /\ h[{}] = base
    /\ \A s \in (SUBSET (1 .. n)) \ {{}} :
          (Top(s) \in 1 .. n /\ h[s \ {Top(s)}] \in T) => h[s] = step[Top(s)][h[s \ {Top(s)}]]

\* A fold over the indices of a sequence exists, and goes through the steps of the
\* prefixes.
LEMMA IndexFold ==
  ASSUME NEW n \in Nat, NEW T, NEW base \in T, NEW step \in [1 .. n -> [T -> T]]
  PROVE  /\ \E g : FoldsIndices(g, n, T, base, step)
         /\ \A h : FollowsIndices(h, n, T, base, step) =>
                \E r : StepPrefixes(r, n, T, base, step) /\ h[1 .. n] = r[n]
<1>1. ASSUME NEW s \in (SUBSET (1 .. n)) \ {{}}
      PROVE  Top(s) = Largest(n)[s] /\ Top(s) \in s /\ Top(s) \in 1 .. n
  <2>1. Largest(n)[s] = Top(s)
    BY DEF Largest, Top
  <2>2. Largest(n)[s] \in s
    BY LargestPicks DEF Picks
  <2>3. QED
    BY <2>1, <2>2
<1>2. PICK g : FoldsSubsets(g, 1 .. n, T, base, Largest(n), step)
  BY SequenceFold
<1>3. FoldsIndices(g, n, T, base, step)
  <2>1. ASSUME NEW s \in (SUBSET (1 .. n)) \ {{}}
        PROVE  /\ Top(s) \in 1 .. n /\ g[s \ {Top(s)}] \in T
               /\ g[s] = step[Top(s)][g[s \ {Top(s)}]]
    <3>1. s \ {Top(s)} \in SUBSET (1 .. n)
      OBVIOUS
    <3>2. QED
      BY <1>1, <1>2, <3>1 DEF FoldsSubsets
  <2>2. QED
    BY <1>2, <2>1 DEF FoldsSubsets, FoldsIndices
<1>4. ASSUME NEW h, FollowsIndices(h, n, T, base, step)
      PROVE  \E r : StepPrefixes(r, n, T, base, step) /\ h[1 .. n] = r[n]
  <2>1. FollowsFold(h, 1 .. n, T, base, Largest(n), step)
    BY <1>1, <1>4 DEF FollowsFold, FollowsIndices
  <2>2. QED
    BY <2>1, SequenceFold
<1>5. QED
  BY <1>3, <1>4

IndexSteps(n, T, base, step) == n \in Nat /\ base \in T /\ step \in [1 .. n -> [T -> T]]

HasPrefixes(h, n, T, base, step) ==
    \E r : StepPrefixes(r, n, T, base, step) /\ h[1 .. n] = r[n]

\* What a fold over the indices computes is the step of the last prefix.
LEMMA IndexPrefixes ==
  ASSUME NEW n, NEW T, NEW base, NEW step, IndexSteps(n, T, base, step),
         NEW h, FollowsIndices(h, n, T, base, step)
  PROVE  HasPrefixes(h, n, T, base, step)
BY IndexFold DEF IndexSteps, HasPrefixes

\* A fold over the indices exists.
LEMMA IndexExists ==
  ASSUME NEW n, NEW T, NEW base, NEW step, IndexSteps(n, T, base, step)
  PROVE  \E g : FoldsIndices(g, n, T, base, step)
BY IndexFold DEF IndexSteps

\* What the rounds of a loop over n blocks leave.
Prepended(r, n, part) ==
    /\ r \in [0 .. n -> Seq(Byte)] /\ r[0] = <<>>
    /\ \A k \in 1 .. n : r[k] = part[k] \o r[k - 1]

Appended(r, n, part) ==
    /\ r \in [0 .. n -> Seq(Byte)] /\ r[0] = <<>>
    /\ \A k \in 1 .. n : r[k] = r[k - 1] \o part[k]

Added(r, n, part) ==
    /\ r \in [0 .. n -> Nat] /\ r[0] = 0
    /\ \A k \in 1 .. n : r[k] = r[k - 1] + part[k]

\* The blocks of LeafWritten.
LeafWrittenParts(codec, t, m, n, part) ==
    /\ n \in Nat /\ DOMAIN codec.types[t].marshal = 1 .. n /\ Unknown(codec, m) = <<>>
    /\ part \in [1 .. n -> Seq(Byte)]
    /\ \A i \in 1 .. n :
          part[i] = ScalarBytes(codec.types[t].marshal[i], m[codec.types[t].marshal[i].name])

\* The loop that writes a message inside another one puts each block in front of what
\* is there.
LEMMA LeafWrittenFold ==
  ASSUME NEW codec, NEW t, NEW m, NEW n, NEW part, LeafWrittenParts(codec, t, m, n, part)
  PROVE  \E r : Prepended(r, n, part) /\ LeafWritten(codec, t, m) = r[n]
<1>0. /\ n \in Nat /\ DOMAIN codec.types[t].marshal = 1 .. n /\ Unknown(codec, m) = <<>>
      /\ part \in [1 .. n -> Seq(Byte)]
      /\ \A i \in 1 .. n :
            part[i] = ScalarBytes(codec.types[t].marshal[i], m[codec.types[t].marshal[i].name])
  BY DEF LeafWrittenParts
<1> USE <1>0
<1> DEFINE Part(i) == ScalarBytes(codec.types[t].marshal[i], m[codec.types[t].marshal[i].name])
           base == Unknown(codec, m)
           step == [i \in 1 .. n |-> [x \in Seq(Byte) |-> Part(i) \o x]]
           Eq(g) == g = [s \in SUBSET (1 .. n) |->
                           IF s = {} THEN base ELSE Part(Top(s)) \o g[s \ {Top(s)}]]
           it == CHOOSE g : Eq(g)
<1>1. LeafWritten(codec, t, m) = it[1 .. n]
  BY DEF LeafWritten, FoldLeft, MapThenFoldSet, Max, Top
<1>a. \A i \in 1 .. n : part[i] = Part(i)
  OBVIOUS
<1>b. base = <<>>
  BY Zenon
<1> HIDE DEF base, Part
<1>2. \A i \in 1 .. n : \A x \in Seq(Byte) : Part(i) \o x \in Seq(Byte)
  BY <1>a
<1>3. IndexSteps(n, Seq(Byte), base, step)
  BY <1>2, <1>b DEF IndexSteps
<1>4. \A i \in 1 .. n : \A x \in Seq(Byte) : step[i][x] = Part(i) \o x
  OBVIOUS
<1> HIDE DEF step
<1>5. PICK g : FoldsIndices(g, n, Seq(Byte), base, step)
  BY <1>3, IndexExists
<1>6. Eq(g)
  BY <1>4, <1>5 DEF FoldsIndices
<1>7. Eq(it)
  <2> HIDE DEF Eq
  <2>1. QED
    BY <1>6, Zenon
<1> HIDE DEF it
<1>8. FollowsIndices(it, n, Seq(Byte), base, step)
  <2>1. it[{}] = base
    BY <1>7
  <2>2. ASSUME NEW s \in (SUBSET (1 .. n)) \ {{}}, Top(s) \in 1 .. n,
               it[s \ {Top(s)}] \in Seq(Byte)
        PROVE  it[s] = step[Top(s)][it[s \ {Top(s)}]]
    <3>1. it[s] = Part(Top(s)) \o it[s \ {Top(s)}]
      BY <1>7
    <3>2. QED
      BY <1>4, <2>2, <3>1
  <2>3. QED
    BY <2>1, <2>2 DEF FollowsIndices
<1>9. PICK r : StepPrefixes(r, n, Seq(Byte), base, step) /\ it[1 .. n] = r[n]
  BY <1>3, <1>8, IndexPrefixes DEF HasPrefixes
<1>10. ASSUME NEW k \in 1 .. n PROVE r[k] = Part(k) \o r[k - 1]
  <2>1. k - 1 \in 0 .. n
    OBVIOUS
  <2>2. QED
    BY <1>4, <1>9, <2>1 DEF StepPrefixes
<1>11. r \in [0 .. n -> Seq(Byte)] /\ r[0] = base
  BY <1>9 DEF StepPrefixes
<1>12. Prepended(r, n, part)
  BY <1>a, <1>b, <1>10, <1>11 DEF Prepended
<1>13. QED
  BY <1>1, <1>9, <1>12

\* The blocks of Written.
WrittenParts(codec, t, m, n, part) ==
    /\ n \in Nat /\ DOMAIN codec.types[t].marshal = 1 .. n /\ Unknown(codec, m) = <<>>
    /\ part \in [1 .. n -> Seq(Byte)]
    /\ \A i \in 1 .. n :
          part[i] = FieldBytes(codec, codec.types[t].marshal[i], m[codec.types[t].marshal[i].name])

\* The loop that writes a message puts each block in front of what is there.
LEMMA WrittenFold ==
  ASSUME NEW codec, NEW t, NEW m, NEW n, NEW part, WrittenParts(codec, t, m, n, part)
  PROVE  \E r : Prepended(r, n, part) /\ Written(codec, t, m) = r[n]
<1>0. /\ n \in Nat /\ DOMAIN codec.types[t].marshal = 1 .. n /\ Unknown(codec, m) = <<>>
      /\ part \in [1 .. n -> Seq(Byte)]
      /\ \A i \in 1 .. n :
            part[i] = FieldBytes(codec, codec.types[t].marshal[i], m[codec.types[t].marshal[i].name])
  BY DEF WrittenParts
<1> USE <1>0
<1> DEFINE Part(i) == FieldBytes(codec, codec.types[t].marshal[i], m[codec.types[t].marshal[i].name])
           base == Unknown(codec, m)
           step == [i \in 1 .. n |-> [x \in Seq(Byte) |-> Part(i) \o x]]
           Eq(g) == g = [s \in SUBSET (1 .. n) |->
                           IF s = {} THEN base ELSE Part(Top(s)) \o g[s \ {Top(s)}]]
           it == CHOOSE g : Eq(g)
<1>1. Written(codec, t, m) = it[1 .. n]
  BY DEF Written, FoldLeft, MapThenFoldSet, Max, Top
<1>a. \A i \in 1 .. n : part[i] = Part(i)
  OBVIOUS
<1>b. base = <<>>
  BY Zenon
<1> HIDE DEF base, Part
<1>2. \A i \in 1 .. n : \A x \in Seq(Byte) : Part(i) \o x \in Seq(Byte)
  BY <1>a
<1>3. IndexSteps(n, Seq(Byte), base, step)
  BY <1>2, <1>b DEF IndexSteps
<1>4. \A i \in 1 .. n : \A x \in Seq(Byte) : step[i][x] = Part(i) \o x
  OBVIOUS
<1> HIDE DEF step
<1>5. PICK g : FoldsIndices(g, n, Seq(Byte), base, step)
  BY <1>3, IndexExists
<1>6. Eq(g)
  BY <1>4, <1>5 DEF FoldsIndices
<1>7. Eq(it)
  <2> HIDE DEF Eq
  <2>1. QED
    BY <1>6, Zenon
<1> HIDE DEF it
<1>8. FollowsIndices(it, n, Seq(Byte), base, step)
  <2>1. it[{}] = base
    BY <1>7
  <2>2. ASSUME NEW s \in (SUBSET (1 .. n)) \ {{}}, Top(s) \in 1 .. n,
               it[s \ {Top(s)}] \in Seq(Byte)
        PROVE  it[s] = step[Top(s)][it[s \ {Top(s)}]]
    <3>1. it[s] = Part(Top(s)) \o it[s \ {Top(s)}]
      BY <1>7
    <3>2. QED
      BY <1>4, <2>2, <3>1
  <2>3. QED
    BY <2>1, <2>2 DEF FollowsIndices
<1>9. PICK r : StepPrefixes(r, n, Seq(Byte), base, step) /\ it[1 .. n] = r[n]
  BY <1>3, <1>8, IndexPrefixes DEF HasPrefixes
<1>10. ASSUME NEW k \in 1 .. n PROVE r[k] = Part(k) \o r[k - 1]
  <2>1. k - 1 \in 0 .. n
    OBVIOUS
  <2>2. QED
    BY <1>4, <1>9, <2>1 DEF StepPrefixes
<1>11. r \in [0 .. n -> Seq(Byte)] /\ r[0] = base
  BY <1>9 DEF StepPrefixes
<1>12. Prepended(r, n, part)
  BY <1>a, <1>b, <1>10, <1>11 DEF Prepended
<1>13. QED
  BY <1>1, <1>9, <1>12

\* The blocks of LeafSize.
LeafSizeParts(codec, t, m, n, part) ==
    /\ n \in Nat /\ DOMAIN codec.types[t].size = 1 .. n /\ Len(Unknown(codec, m)) = 0
    /\ part \in [1 .. n -> Nat]
    /\ \A i \in 1 .. n :
          part[i] = ScalarSize(codec.types[t].size[i], m[codec.types[t].size[i].name])

\* The size of a message inside another one is the sum over its blocks.
LEMMA LeafSizeFold ==
  ASSUME NEW codec, NEW t, NEW m, NEW n, NEW part, LeafSizeParts(codec, t, m, n, part)
  PROVE  \E r : Added(r, n, part) /\ LeafSize(codec, t, m) = r[n]
<1>0. /\ n \in Nat /\ DOMAIN codec.types[t].size = 1 .. n /\ Len(Unknown(codec, m)) = 0
      /\ part \in [1 .. n -> Nat]
      /\ \A i \in 1 .. n :
            part[i] = ScalarSize(codec.types[t].size[i], m[codec.types[t].size[i].name])
  BY DEF LeafSizeParts
<1> USE <1>0
<1> DEFINE Part(i) == ScalarSize(codec.types[t].size[i], m[codec.types[t].size[i].name])
           base == Len(Unknown(codec, m))
           step == [i \in 1 .. n |-> [x \in Nat |-> x + Part(i)]]
           Eq(g) == g = [s \in SUBSET (1 .. n) |->
                           IF s = {} THEN base ELSE g[s \ {Top(s)}] + Part(Top(s))]
           it == CHOOSE g : Eq(g)
<1>1. LeafSize(codec, t, m) = it[1 .. n]
  BY DEF LeafSize, FoldLeft, MapThenFoldSet, Max, Top
<1>a. \A i \in 1 .. n : part[i] = Part(i)
  OBVIOUS
<1>b. base = 0
  BY Zenon
<1> HIDE DEF base, Part
<1>2. \A i \in 1 .. n : \A x \in Nat : x + Part(i) \in Nat
  BY <1>a
<1>3. IndexSteps(n, Nat, base, step)
  BY <1>2, <1>b DEF IndexSteps
<1>4. \A i \in 1 .. n : \A x \in Nat : step[i][x] = x + Part(i)
  OBVIOUS
<1> HIDE DEF step
<1>5. PICK g : FoldsIndices(g, n, Nat, base, step)
  BY <1>3, IndexExists
<1>6. Eq(g)
  BY <1>4, <1>5 DEF FoldsIndices
<1>7. Eq(it)
  <2> HIDE DEF Eq
  <2>1. QED
    BY <1>6, Zenon
<1> HIDE DEF it
<1>8. FollowsIndices(it, n, Nat, base, step)
  <2>1. it[{}] = base
    BY <1>7
  <2>2. ASSUME NEW s \in (SUBSET (1 .. n)) \ {{}}, Top(s) \in 1 .. n,
               it[s \ {Top(s)}] \in Nat
        PROVE  it[s] = step[Top(s)][it[s \ {Top(s)}]]
    <3>1. it[s] = it[s \ {Top(s)}] + Part(Top(s))
      BY <1>7
    <3>2. QED
      BY <1>4, <2>2, <3>1
  <2>3. QED
    BY <2>1, <2>2 DEF FollowsIndices
<1>9. PICK r : StepPrefixes(r, n, Nat, base, step) /\ it[1 .. n] = r[n]
  BY <1>3, <1>8, IndexPrefixes DEF HasPrefixes
<1>10. ASSUME NEW k \in 1 .. n PROVE r[k] = r[k - 1] + Part(k)
  <2>1. k - 1 \in 0 .. n
    OBVIOUS
  <2>2. QED
    BY <1>4, <1>9, <2>1 DEF StepPrefixes
<1>11. r \in [0 .. n -> Nat] /\ r[0] = base
  BY <1>9 DEF StepPrefixes
<1>12. Added(r, n, part)
  BY <1>a, <1>b, <1>10, <1>11 DEF Added
<1>13. QED
  BY <1>1, <1>9, <1>12

\* The blocks of Size.
SizeParts(codec, t, m, n, part) ==
    /\ n \in Nat /\ DOMAIN codec.types[t].size = 1 .. n /\ Len(Unknown(codec, m)) = 0
    /\ part \in [1 .. n -> Nat]
    /\ \A i \in 1 .. n :
          part[i] = FieldSize(codec, codec.types[t].size[i], m[codec.types[t].size[i].name])

\* The size of a message is the sum over its blocks.
LEMMA SizeFold ==
  ASSUME NEW codec, NEW t, NEW m, NEW n, NEW part, SizeParts(codec, t, m, n, part)
  PROVE  \E r : Added(r, n, part) /\ Size(codec, t, m) = r[n]
<1>0. /\ n \in Nat /\ DOMAIN codec.types[t].size = 1 .. n /\ Len(Unknown(codec, m)) = 0
      /\ part \in [1 .. n -> Nat]
      /\ \A i \in 1 .. n :
            part[i] = FieldSize(codec, codec.types[t].size[i], m[codec.types[t].size[i].name])
  BY DEF SizeParts
<1> USE <1>0
<1> DEFINE Part(i) == FieldSize(codec, codec.types[t].size[i], m[codec.types[t].size[i].name])
           base == Len(Unknown(codec, m))
           step == [i \in 1 .. n |-> [x \in Nat |-> x + Part(i)]]
           Eq(g) == g = [s \in SUBSET (1 .. n) |->
                           IF s = {} THEN base ELSE g[s \ {Top(s)}] + Part(Top(s))]
           it == CHOOSE g : Eq(g)
<1>1. Size(codec, t, m) = it[1 .. n]
  BY DEF Size, FoldLeft, MapThenFoldSet, Max, Top
<1>a. \A i \in 1 .. n : part[i] = Part(i)
  OBVIOUS
<1>b. base = 0
  BY Zenon
<1> HIDE DEF base, Part
<1>2. \A i \in 1 .. n : \A x \in Nat : x + Part(i) \in Nat
  BY <1>a
<1>3. IndexSteps(n, Nat, base, step)
  BY <1>2, <1>b DEF IndexSteps
<1>4. \A i \in 1 .. n : \A x \in Nat : step[i][x] = x + Part(i)
  OBVIOUS
<1> HIDE DEF step
<1>5. PICK g : FoldsIndices(g, n, Nat, base, step)
  BY <1>3, IndexExists
<1>6. Eq(g)
  BY <1>4, <1>5 DEF FoldsIndices
<1>7. Eq(it)
  <2> HIDE DEF Eq
  <2>1. QED
    BY <1>6, Zenon
<1> HIDE DEF it
<1>8. FollowsIndices(it, n, Nat, base, step)
  <2>1. it[{}] = base
    BY <1>7
  <2>2. ASSUME NEW s \in (SUBSET (1 .. n)) \ {{}}, Top(s) \in 1 .. n,
               it[s \ {Top(s)}] \in Nat
        PROVE  it[s] = step[Top(s)][it[s \ {Top(s)}]]
    <3>1. it[s] = it[s \ {Top(s)}] + Part(Top(s))
      BY <1>7
    <3>2. QED
      BY <1>4, <2>2, <3>1
  <2>3. QED
    BY <2>1, <2>2 DEF FollowsIndices
<1>9. PICK r : StepPrefixes(r, n, Nat, base, step) /\ it[1 .. n] = r[n]
  BY <1>3, <1>8, IndexPrefixes DEF HasPrefixes
<1>10. ASSUME NEW k \in 1 .. n PROVE r[k] = r[k - 1] + Part(k)
  <2>1. k - 1 \in 0 .. n
    OBVIOUS
  <2>2. QED
    BY <1>4, <1>9, <2>1 DEF StepPrefixes
<1>11. r \in [0 .. n -> Nat] /\ r[0] = base
  BY <1>9 DEF StepPrefixes
<1>12. Added(r, n, part)
  BY <1>a, <1>b, <1>10, <1>11 DEF Added
<1>13. QED
  BY <1>1, <1>9, <1>12

\* The elements of a field, written one after the other.
ElementsParts(codec, f, v, n, part) ==
    /\ n \in Nat /\ DOMAIN v = 1 .. n
    /\ part \in [1 .. n -> Seq(Byte)]
    /\ \A i \in 1 .. n :
          part[i] = Delimited(f.tag, Body(codec, f.sub, v[i]))

\* The elements of a list are written one after the other.
LEMMA ElementsFold ==
  ASSUME NEW codec, NEW f, f.kind \in {"pointer", "list"}, NEW v, NEW n, NEW part,
         ElementsParts(codec, f, v, n, part)
  PROVE  \E r : Appended(r, n, part) /\ FieldBytes(codec, f, v) = r[n]
<1>0. /\ n \in Nat /\ DOMAIN v = 1 .. n
      /\ part \in [1 .. n -> Seq(Byte)]
      /\ \A i \in 1 .. n :
            part[i] = Delimited(f.tag, Body(codec, f.sub, v[i]))
  BY DEF ElementsParts
<1> USE <1>0
<1> DEFINE Part(i) == Delimited(f.tag, Body(codec, f.sub, v[i]))
           base == <<>>
           step == [i \in 1 .. n |-> [x \in Seq(Byte) |-> x \o Part(i)]]
           Eq(g) == g = [s \in SUBSET (1 .. n) |->
                           IF s = {} THEN base ELSE g[s \ {Top(s)}] \o Part(Top(s))]
           it == CHOOSE g : Eq(g)
<1>1. FieldBytes(codec, f, v) = it[1 .. n]
  BY DEF FieldBytes, FoldLeft, MapThenFoldSet, Max, Top
<1>a. \A i \in 1 .. n : part[i] = Part(i)
  OBVIOUS
<1>b. base = <<>>
  BY Zenon
<1> HIDE DEF base, Part
<1>2. \A i \in 1 .. n : \A x \in Seq(Byte) : x \o Part(i) \in Seq(Byte)
  BY <1>a
<1>3. IndexSteps(n, Seq(Byte), base, step)
  BY <1>2, <1>b DEF IndexSteps
<1>4. \A i \in 1 .. n : \A x \in Seq(Byte) : step[i][x] = x \o Part(i)
  OBVIOUS
<1> HIDE DEF step
<1>5. PICK g : FoldsIndices(g, n, Seq(Byte), base, step)
  BY <1>3, IndexExists
<1>6. Eq(g)
  BY <1>4, <1>5 DEF FoldsIndices
<1>7. Eq(it)
  <2> HIDE DEF Eq
  <2>1. QED
    BY <1>6, Zenon
<1> HIDE DEF it
<1>8. FollowsIndices(it, n, Seq(Byte), base, step)
  <2>1. it[{}] = base
    BY <1>7
  <2>2. ASSUME NEW s \in (SUBSET (1 .. n)) \ {{}}, Top(s) \in 1 .. n,
               it[s \ {Top(s)}] \in Seq(Byte)
        PROVE  it[s] = step[Top(s)][it[s \ {Top(s)}]]
    <3>1. it[s] = it[s \ {Top(s)}] \o Part(Top(s))
      BY <1>7
    <3>2. QED
      BY <1>4, <2>2, <3>1
  <2>3. QED
    BY <2>1, <2>2 DEF FollowsIndices
<1>9. PICK r : StepPrefixes(r, n, Seq(Byte), base, step) /\ it[1 .. n] = r[n]
  BY <1>3, <1>8, IndexPrefixes DEF HasPrefixes
<1>10. ASSUME NEW k \in 1 .. n PROVE r[k] = r[k - 1] \o Part(k)
  <2>1. k - 1 \in 0 .. n
    OBVIOUS
  <2>2. QED
    BY <1>4, <1>9, <2>1 DEF StepPrefixes
<1>11. r \in [0 .. n -> Seq(Byte)] /\ r[0] = base
  BY <1>9 DEF StepPrefixes
<1>12. Appended(r, n, part)
  BY <1>a, <1>b, <1>10, <1>11 DEF Appended
<1>13. QED
  BY <1>1, <1>9, <1>12

\* The sizes of the elements of a field.
ElementSizesParts(codec, f, v, n, part) ==
    /\ n \in Nat /\ DOMAIN v = 1 .. n
    /\ part \in [1 .. n -> Nat]
    /\ \A i \in 1 .. n :
          part[i] = DelimitedSize(LeafSize(codec, f.sub, v[i]))

\* The size of a list is the sum over its elements.
LEMMA ElementSizesFold ==
  ASSUME NEW codec, NEW f, f.kind \in {"pointer", "list"}, NEW v, NEW n, NEW part,
         ElementSizesParts(codec, f, v, n, part)
  PROVE  \E r : Added(r, n, part) /\ FieldSize(codec, f, v) = r[n]
<1>0. /\ n \in Nat /\ DOMAIN v = 1 .. n
      /\ part \in [1 .. n -> Nat]
      /\ \A i \in 1 .. n :
            part[i] = DelimitedSize(LeafSize(codec, f.sub, v[i]))
  BY DEF ElementSizesParts
<1> USE <1>0
<1> DEFINE Part(i) == DelimitedSize(LeafSize(codec, f.sub, v[i]))
           base == 0
           step == [i \in 1 .. n |-> [x \in Nat |-> x + Part(i)]]
           Eq(g) == g = [s \in SUBSET (1 .. n) |->
                           IF s = {} THEN base ELSE g[s \ {Top(s)}] + Part(Top(s))]
           it == CHOOSE g : Eq(g)
<1>1. FieldSize(codec, f, v) = it[1 .. n]
  BY DEF FieldSize, FoldLeft, MapThenFoldSet, Max, Top
<1>a. \A i \in 1 .. n : part[i] = Part(i)
  OBVIOUS
<1>b. base = 0
  BY Zenon
<1> HIDE DEF base, Part
<1>2. \A i \in 1 .. n : \A x \in Nat : x + Part(i) \in Nat
  BY <1>a
<1>3. IndexSteps(n, Nat, base, step)
  BY <1>2, <1>b DEF IndexSteps
<1>4. \A i \in 1 .. n : \A x \in Nat : step[i][x] = x + Part(i)
  OBVIOUS
<1> HIDE DEF step
<1>5. PICK g : FoldsIndices(g, n, Nat, base, step)
  BY <1>3, IndexExists
<1>6. Eq(g)
  BY <1>4, <1>5 DEF FoldsIndices
<1>7. Eq(it)
  <2> HIDE DEF Eq
  <2>1. QED
    BY <1>6, Zenon
<1> HIDE DEF it
<1>8. FollowsIndices(it, n, Nat, base, step)
  <2>1. it[{}] = base
    BY <1>7
  <2>2. ASSUME NEW s \in (SUBSET (1 .. n)) \ {{}}, Top(s) \in 1 .. n,
               it[s \ {Top(s)}] \in Nat
        PROVE  it[s] = step[Top(s)][it[s \ {Top(s)}]]
    <3>1. it[s] = it[s \ {Top(s)}] + Part(Top(s))
      BY <1>7
    <3>2. QED
      BY <1>4, <2>2, <3>1
  <2>3. QED
    BY <2>1, <2>2 DEF FollowsIndices
<1>9. PICK r : StepPrefixes(r, n, Nat, base, step) /\ it[1 .. n] = r[n]
  BY <1>3, <1>8, IndexPrefixes DEF HasPrefixes
<1>10. ASSUME NEW k \in 1 .. n PROVE r[k] = r[k - 1] + Part(k)
  <2>1. k - 1 \in 0 .. n
    OBVIOUS
  <2>2. QED
    BY <1>4, <1>9, <2>1 DEF StepPrefixes
<1>11. r \in [0 .. n -> Nat] /\ r[0] = base
  BY <1>9 DEF StepPrefixes
<1>12. Added(r, n, part)
  BY <1>a, <1>b, <1>10, <1>11 DEF Added
<1>13. QED
  BY <1>1, <1>9, <1>12

-----------------------------------------------------------------------------
(* What the encoders write.                                                *)

\* The Go type of a field that is no message.
ScalarTyped(f, v) ==
    /\ f.kind \in {"string", "bytes"} => v \in Seq(Byte)
    /\ f.kind = "int32" => v \in -(IntSize \div 2) .. (IntSize \div 2) - 1
    /\ f.kind = "uint64" => v \in 0 .. WordSize - 1
    /\ f.kind = "bool" => v \in BOOLEAN

\* A value for every name.
Whole(codec, t, m) == m = [x \in AllNames(codec, t) |-> m[x]]

\* A message that holds no messages and no fields that it does not know.
LeafTyped(codec, t, m) ==
    /\ Whole(codec, t, m)
    /\ \A f \in Fields(codec, t) : ScalarTyped(f, m[f.name])
    /\ Unknown(codec, m) = <<>>

LeavesTyped(codec, t, v) == \E S : v \in Seq(S) /\ \A x \in S : LeafTyped(codec, t, x)

FieldTyped(codec, f, v) ==
    /\ f.kind \in ScalarKinds => ScalarTyped(f, v)
    /\ f.kind = "nested" => LeafTyped(codec, f.sub, v)
    /\ f.kind \in {"pointer", "list"} => LeavesTyped(codec, f.sub, v)
    /\ f.kind = "pointer" => Len(v) <= 1

Typed(codec, t, m) ==
    /\ Whole(codec, t, m)
    /\ \A f \in Fields(codec, t) : FieldTyped(codec, f, m[f.name])
    /\ Unknown(codec, m) = <<>>

\* The blocks b, one after the other: w[i] are the bytes from block i on.
Laid(w, n, b) ==
    /\ w \in [1 .. n + 1 -> Seq(Byte)] /\ w[n + 1] = <<>>
    /\ \A i \in 1 .. n : w[i] = b[i] \o w[i + 1]

Reversed(n, part, b) == n \in Nat /\ \A k \in 1 .. n : part[k] = b[(n + 1) - k]

\* part holds the lengths of the blocks b.
Measured(n, part, b) ==
    n \in Nat /\ \A i \in 1 .. n : b[i] \in Seq(Byte) /\ part[i] = Len(b[i])

\* Marshal writes its blocks from the last to the first.
LEMMA Backwards ==
  ASSUME NEW n, NEW r, NEW part, Prepended(r, n, part), NEW b, Reversed(n, part, b)
  PROVE  \E w : Laid(w, n, b) /\ w[1] = r[n]
<1> USE DEF Reversed
<1>a. /\ r \in [0 .. n -> Seq(Byte)] /\ r[0] = <<>>
      /\ \A k \in 1 .. n : r[k] = b[(n + 1) - k] \o r[k - 1]
  BY DEF Prepended
<1> DEFINE w == [i \in 1 .. n + 1 |-> r[(n + 1) - i]]
<1>1. \A i \in 1 .. n + 1 : (n + 1) - i \in 0 .. n
  OBVIOUS
<1>2. w \in [1 .. n + 1 -> Seq(Byte)]
  BY <1>a, <1>1
<1>3. w[n + 1] = r[0] /\ w[1] = r[n]
  <2>1. n + 1 \in 1 .. n + 1 /\ 1 \in 1 .. n + 1 /\ (n + 1) - (n + 1) = 0 /\ (n + 1) - 1 = n
    OBVIOUS
  <2>2. QED
    BY <2>1
<1>4. ASSUME NEW i \in 1 .. n PROVE w[i] = b[i] \o w[i + 1]
  <2> DEFINE k == (n + 1) - i
  <2>1. k \in 1 .. n /\ (n + 1) - k = i /\ k - 1 = (n + 1) - (i + 1)
        /\ i \in 1 .. n + 1 /\ i + 1 \in 1 .. n + 1
    OBVIOUS
  <2>2. w[i] = r[k] /\ w[i + 1] = r[k - 1]
    BY <2>1
  <2> HIDE DEF k, w
  <2>3. r[k] = b[(n + 1) - k] \o r[k - 1]
    BY <1>a, <2>1
  <2>4. QED
    BY <2>1, <2>2, <2>3
<1> HIDE DEF w
<1>5. Laid(w, n, b)
  BY <1>a, <1>2, <1>3, <1>4 DEF Laid
<1>6. QED
  BY <1>3, <1>5

\* Size adds up what Marshal writes, in the other order.
LEMMA LengthsAddUp ==
  ASSUME NEW n, NEW b, NEW w, Laid(w, n, b), NEW r, NEW part, Added(r, n, part),
         Measured(n, part, b)
  PROVE  r[n] = Len(w[1])
<1> USE DEF Measured
<1>a. r \in [0 .. n -> Nat] /\ r[0] = 0 /\ \A k \in 1 .. n : r[k] = r[k - 1] + Len(b[k])
  BY DEF Added
<1> DEFINE Good == {k \in Nat : k <= n => r[k] + Len(w[k + 1]) = Len(w[1])}
<1>1. \A i \in 1 .. n + 1 : w[i] \in Seq(Byte) /\ Len(w[i]) \in Nat
  BY DEF Laid
<1>2. ASSUME NEW i \in 1 .. n PROVE Len(w[i]) = Len(b[i]) + Len(w[i + 1])
  <2>1. i + 1 \in 1 .. n + 1
    OBVIOUS
  <2>2. w[i] = b[i] \o w[i + 1] /\ b[i] \in Seq(Byte) /\ w[i + 1] \in Seq(Byte)
    BY <1>1, <2>1 DEF Laid
  <2>3. QED
    BY <2>2
<1>3. 0 \in Good
  <2>1. 0 + 1 = 1 /\ 1 \in 1 .. n + 1
    OBVIOUS
  <2>2. r[0] + Len(w[0 + 1]) = Len(w[1])
    BY <1>a, <1>1, <2>1
  <2>3. QED
    BY <2>2
<1>4. ASSUME NEW k \in Nat, k \in Good PROVE k + 1 \in Good
  <2>1. SUFFICES ASSUME k + 1 <= n PROVE r[k + 1] + Len(w[(k + 1) + 1]) = Len(w[1])
    OBVIOUS
  <2>2. k + 1 \in 1 .. n /\ (k + 1) - 1 = k /\ k <= n /\ k \in 0 .. n /\ (k + 1) + 1 \in 1 .. n + 1
        /\ 1 \in 1 .. n + 1
    BY <2>1
  <2>3. r[k] + Len(w[k + 1]) = Len(w[1])
    BY <1>4, <2>2
  <2>4. r[k + 1] = r[k] + Len(b[k + 1])
    BY <1>a, <2>2
  <2>5. Len(w[k + 1]) = Len(b[k + 1]) + Len(w[(k + 1) + 1])
    BY <1>2, <2>2
  <2>6. r[k] \in Nat /\ Len(b[k + 1]) \in Nat /\ Len(w[(k + 1) + 1]) \in Nat /\ Len(w[1]) \in Nat
    BY <1>a, <1>1, <2>2
  <2> DEFINE a == r[k]
             c == Len(b[k + 1])
             d == Len(w[(k + 1) + 1])
             e == Len(w[k + 1])
             l == Len(w[1])
  <2>7. a \in Nat /\ c \in Nat /\ d \in Nat /\ a + e = l /\ e = c + d
    BY <2>3, <2>5, <2>6
  <2>8. r[k + 1] = a + c
    BY <2>4
  <2> HIDE DEF a, c, d, e, l
  <2>9. r[k + 1] + d = l
    BY <2>7, <2>8
  <2>10. QED
    BY <2>9 DEF d, l
<1> HIDE DEF Good
<1>5. n \in Good
  BY <1>3, <1>4, NatSetInduction
<1>6. r[n] + Len(w[n + 1]) = Len(w[1])
  BY <1>5 DEF Good
<1>7. w[n + 1] = <<>> /\ n \in 0 .. n /\ 1 \in 1 .. n + 1
  BY DEF Laid
<1>8. Len(w[n + 1]) = 0 /\ r[n] \in Nat
  BY <1>a, <1>7
<1>9. QED
  BY <1>6, <1>8

\* A delimited block has the length that Size counts for it.
LEMMA DelimitedParts ==
  ASSUME NEW tag \in Byte, NEW s \in Seq(Byte)
  PROVE  /\ Delimited(tag, s) \in Seq(Byte) /\ Len(Delimited(tag, s)) = DelimitedSize(Len(s))
         /\ DelimitedSize(Len(s)) \in Nat
<1>1. Len(s) \in Nat
  OBVIOUS
<1>2. EncodeVarint[Len(s)] \in Seq(Byte)
  BY <1>1, EncodeVarintDef
<1>3. Len(EncodeVarint[Len(s)]) = Sov(Len(s)) /\ Sov(Len(s)) \in Nat
  BY <1>1, SovCounts
<1> DEFINE e == EncodeVarint[Len(s)]
           l == Len(s)
<1>4. Delimited(tag, s) = <<tag>> \o e \o s /\ DelimitedSize(Len(s)) = 1 + l + Sov(l)
  BY DEF Delimited, DelimitedSize
<1> HIDE DEF e
<1>5. e \in Seq(Byte) /\ Len(e) = Sov(l)
  BY <1>2, <1>3 DEF e
<1>6. <<tag>> \in Seq(Byte) /\ Len(<<tag>>) = 1
  OBVIOUS
<1>7. <<tag>> \o e \o s \in Seq(Byte) /\ Len(<<tag>> \o e \o s) = 1 + Len(e) + Len(s)
  BY <1>5, <1>6
<1>8. QED
  BY <1>1, <1>3, <1>4, <1>5, <1>7

\* The conversion of an integer to uint64 fits in a word.
LEMMA WordOfInt ==
  ASSUME NEW v \in Int
  PROVE  Word(v) \in 0 .. WordSize - 1 /\ Word(v) \in Nat
BY Sizes DEF Word

\* The numbers of values of a word and of an int32, and their halves.
LEMMA IntSizeInt ==
  /\ IntSize \in Nat /\ IntSize \div 2 \in Nat
  /\ WordSize \in Nat /\ WordSize \div 2 \in Nat
BY Sizes

\* A field that is no message takes as many bytes as Size counts.
LEMMA ScalarParts ==
  ASSUME NEW f, f.kind \in ScalarKinds, NEW v, ScalarTyped(f, v), NEW tag \in Byte
  PROVE  /\ ScalarBytes(At(tag, f), v) \in Seq(Byte) /\ ScalarSize(f, v) \in Nat
         /\ Len(ScalarBytes(At(tag, f), v)) = ScalarSize(f, v)
<1> DEFINE a == At(tag, f)
<1>1. a.kind = f.kind /\ a.tag = tag
  BY DEF At
<1>2. Present(a, v) = Present(f, v)
  BY <1>1 DEF Present
<1> HIDE DEF a
<1>3. CASE ~Present(f, v)
  <2>1. ScalarBytes(a, v) = <<>> /\ ScalarSize(f, v) = 0
    BY <1>2, <1>3 DEF ScalarBytes, ScalarSize
  <2>2. <<>> \in Seq(Byte) /\ Len(<<>>) = 0
    OBVIOUS
  <2>3. QED
    BY <2>1, <2>2 DEF a
<1>4. CASE Present(f, v)
  <2>1. CASE f.kind \in {"string", "bytes"}
    <3>1. ScalarBytes(a, v) = Delimited(tag, v) /\ ScalarSize(f, v) = DelimitedSize(Len(v))
      BY <1>1, <1>2, <1>4, <2>1 DEF ScalarBytes, ScalarSize
    <3>2. v \in Seq(Byte)
      BY <2>1 DEF ScalarTyped
    <3>3. QED
      BY <3>1, <3>2, DelimitedParts DEF a
  <2>2. CASE f.kind \in {"int32", "uint64"}
    <3> DEFINE e == EncodeVarint[Word(v)]
    <3>1. ScalarBytes(a, v) = <<tag>> \o e /\ ScalarSize(f, v) = 1 + Sov(Word(v))
      BY <1>1, <1>2, <1>4, <2>2 DEF ScalarBytes, ScalarSize
    <3>2. v \in Int
      BY <2>2, IntSizeInt DEF ScalarTyped
    <3>3. Word(v) \in Nat
      BY <3>2, WordOfInt
    <3>4. e \in Seq(Byte) /\ Len(e) = Sov(Word(v)) /\ Sov(Word(v)) \in Nat
      BY <3>3, EncodeVarintDef, SovCounts
    <3> HIDE DEF e
    <3>5. <<tag>> \in Seq(Byte) /\ Len(<<tag>>) = 1
      OBVIOUS
    <3>6. <<tag>> \o e \in Seq(Byte) /\ Len(<<tag>> \o e) = 1 + Len(e)
      BY <3>4, <3>5
    <3>7. QED
      BY <3>1, <3>4, <3>6 DEF a
  <2>3. CASE f.kind = "bool"
    <3>1. ScalarBytes(a, v) = <<tag, 1>> /\ ScalarSize(f, v) = 2
      BY <1>1, <1>2, <1>4, <2>3 DEF ScalarBytes, ScalarSize
    <3>2. <<tag, 1>> \in Seq(Byte) /\ Len(<<tag, 1>>) = 2
      BY DEF Byte
    <3>3. QED
      BY <3>1, <3>2 DEF a
  <2>4. QED
    BY <2>1, <2>2, <2>3 DEF ScalarKinds
<1>5. QED
  BY <1>3, <1>4

\* The tag of field i.
Tag(f, i) == 8 * i + WireType(f.kind)

\* A tag is one byte, from which the number of the field and its wire type come back.
LEMMA TagByte ==
  ASSUME NEW f, NEW i \in 1 .. 9
  PROVE  Tag(f, i) \in Byte /\ Tag(f, i) \in 1 .. 127 /\ Tag(f, i) \div 8 = i
         /\ Tag(f, i) % 8 = WireType(f.kind)
<1>1. WireType(f.kind) \in {0, 2}
  BY DEF WireType
<1> DEFINE w == WireType(f.kind)
<1> HIDE DEF w
<1>2. w = 0 \/ w = 2
  BY <1>1 DEF w
<1>3. /\ 8 * i + w \in 1 .. 127 /\ (8 * i + w) \div 8 = i /\ (8 * i + w) % 8 = w
  BY <1>2
<1>4. QED
  BY <1>3 DEF w, Tag, Byte

\* A buffer of the right size is what was written.
LEMMA BufferFits ==
  ASSUME NEW codec, codec.pulsar \in BOOLEAN, NEW s \in Seq(Byte)
  PROVE  Buffer(codec, Len(s), s) = s
<1> DEFINE slack == Len(s) - Len(s)
           none == [i \in 1 .. slack |-> 0]
<1>1. slack = 0
  OBVIOUS
<1>2. none = <<>>
  BY <1>1
<1>3. none \o s = s
  BY <1>2
<1>4. SubSeq(s, 1, Len(s)) = s
  OBVIOUS
<1>5. Buffer(codec, Len(s), s) =
        CASE slack < 0 -> Panicked
          [] slack >= 0 /\ codec.pulsar -> none \o s
          [] slack >= 0 /\ ~codec.pulsar -> SubSeq(none \o s, 1, Len(s))
  BY DEF Buffer
<1> HIDE DEF slack, none
<1>6. ~(slack < 0) /\ slack >= 0
  BY <1>1
<1>7. CASE codec.pulsar
  BY <1>3, <1>5, <1>6, <1>7
<1>8. CASE ~codec.pulsar
  BY <1>3, <1>4, <1>5, <1>6, <1>8
<1>9. QED
  BY <1>7, <1>8

LeafBlocks(codec, t, m) ==
    LET fields == codec.types[t].struct
    IN  [i \in 1 .. Len(fields) |->
            ScalarBytes(At(Tag(fields[i], i), fields[i]), m[fields[i].name])]

\* Block i of a message without messages has the bytes that Size counts.
LeafBlockFits(codec, t, m, i) ==
  LET f == codec.types[t].struct[i]
  IN  /\ i \in 1 .. 9 /\ f.kind \in ScalarKinds /\ ScalarTyped(f, m[f.name])
      /\ Tag(f, i) \in Byte
      /\ LeafBlocks(codec, t, m)[i] = ScalarBytes(At(Tag(f, i), f), m[f.name])
      /\ LeafBlocks(codec, t, m)[i] \in Seq(Byte)
      /\ ScalarSize(f, m[f.name]) = Len(LeafBlocks(codec, t, m)[i])
      /\ ScalarSize(f, m[f.name]) \in Nat

\* Every block of a message without messages is written as Size counts it.
LEMMA LeafBlocksFit ==
  ASSUME NEW codec, NEW t, Coded(codec.types[t], {}), NEW m, LeafTyped(codec, t, m),
         NEW i \in 1 .. Len(codec.types[t].struct)
  PROVE  LeafBlockFits(codec, t, m, i)
<1> DEFINE T == codec.types[t]
           f == T.struct[i]
           n == Len(T.struct)
<1>1. n \in 0 .. 9 /\ Block(f, {}) /\ f \in Fields(codec, t)
  <2>1. ByName(codec, t)
    BY FieldsByName
  <2>2. f \in Fields(codec, t)
    BY <2>1 DEF ByName
  <2>3. n \in 0 .. 9
    BY DEF Coded
  <2>4. Block(f, {})
    BY DEF Coded
  <2>5. QED
    BY <2>2, <2>3, <2>4
<1>2. i \in 1 .. 9
  <2>1. i \in 1 .. n /\ n \in 0 .. 9
    BY <1>1
  <2> HIDE DEF n
  <2>2. QED
    BY <2>1
<1>3. f.kind \in ScalarKinds
  BY <1>1 DEF Block
<1>4. ScalarTyped(f, m[f.name])
  BY <1>1 DEF LeafTyped
<1>5. Tag(f, i) \in Byte
  BY <1>2, TagByte
<1>6. LeafBlocks(codec, t, m)[i] = ScalarBytes(At(Tag(f, i), f), m[f.name])
  BY DEF LeafBlocks
<1> DEFINE v == m[f.name]
<1> HIDE DEF f, v
<1>7. /\ ScalarBytes(At(Tag(f, i), f), v) \in Seq(Byte) /\ ScalarSize(f, v) \in Nat
      /\ Len(ScalarBytes(At(Tag(f, i), f), v)) = ScalarSize(f, v)
  BY <1>3, <1>4, <1>5, ScalarParts DEF v
<1>8. QED
  BY <1>2, <1>3, <1>4, <1>5, <1>6, <1>7 DEF f, v, LeafBlockFits

\* A message inside another one is written as its blocks one after the other, and its
\* size is their length.
LEMMA LeafLaid ==
  ASSUME NEW codec, NEW t, Coded(codec.types[t], {}), NEW m, LeafTyped(codec, t, m)
  PROVE  \E w : /\ Laid(w, Len(codec.types[t].struct), LeafBlocks(codec, t, m))
                /\ LeafWritten(codec, t, m) = w[1] /\ LeafSize(codec, t, m) = Len(w[1])
<1> DEFINE T == codec.types[t]
           n == Len(T.struct)
           b == LeafBlocks(codec, t, m)
<1>1. /\ n \in Nat /\ n \in 0 .. 9 /\ DOMAIN T.struct = 1 .. n /\ DOMAIN T.marshal = 1 .. n
      /\ T.size = T.struct
      /\ \A i \in 1 .. n : T.marshal[(n + 1) - i] = At(Tag(T.struct[i], i), T.struct[i])
  BY DEF Coded, Tag
<1>2. Unknown(codec, m) = <<>> /\ <<>> \in Seq(Byte) /\ Len(<<>>) = 0
  BY DEF LeafTyped
<1>3. ASSUME NEW i \in 1 .. n
      PROVE  /\ b[i] = ScalarBytes(At(Tag(T.struct[i], i), T.struct[i]), m[T.struct[i].name])
             /\ b[i] \in Seq(Byte)
             /\ ScalarSize(T.struct[i], m[T.struct[i].name]) = Len(b[i])
             /\ ScalarSize(T.struct[i], m[T.struct[i].name]) \in Nat
  <2>1. LeafBlockFits(codec, t, m, i)
    BY LeafBlocksFit
  <2>2. QED
    BY <2>1 DEF LeafBlockFits
<1> DEFINE part == [k \in 1 .. n |-> ScalarBytes(T.marshal[k], m[T.marshal[k].name])]
           count == [k \in 1 .. n |-> ScalarSize(T.size[k], m[T.size[k].name])]
<1>4. ASSUME NEW k \in 1 .. n PROVE part[k] = b[(n + 1) - k] /\ part[k] \in Seq(Byte)
  <2> DEFINE i == (n + 1) - k
  <2>1. i \in 1 .. n /\ (n + 1) - i = k
    BY <1>1
  <2> HIDE DEF i, b
  <2>2. T.marshal[k] = At(Tag(T.struct[i], i), T.struct[i])
    BY <1>1, <2>1
  <2>3. T.marshal[k].name = T.struct[i].name
    BY <2>2 DEF At
  <2>4. part[k] = b[i] /\ b[i] \in Seq(Byte)
    BY <1>3, <2>1, <2>2, <2>3
  <2>5. QED
    BY <2>4 DEF i
<1>5. PICK r : Prepended(r, n, part) /\ LeafWritten(codec, t, m) = r[n]
  <2>1. part \in [1 .. n -> Seq(Byte)]
    BY <1>4
  <2>2. \A k \in 1 .. n : part[k] = ScalarBytes(T.marshal[k], m[T.marshal[k].name])
    OBVIOUS
  <2> HIDE DEF part
  <2>3. LeafWrittenParts(codec, t, m, n, part)
    BY <1>1, <1>2, <2>1, <2>2 DEF LeafWrittenParts
  <2>4. QED
    BY <2>3, LeafWrittenFold
<1>6. \A k \in 1 .. n : count[k] = Len(b[k]) /\ count[k] \in Nat
  BY <1>1, <1>3
<1>7. PICK q : Added(q, n, count) /\ LeafSize(codec, t, m) = q[n]
  <2>1. count \in [1 .. n -> Nat]
    BY <1>6
  <2>2. \A k \in 1 .. n : count[k] = ScalarSize(T.size[k], m[T.size[k].name])
    OBVIOUS
  <2>3. DOMAIN T.size = 1 .. n /\ Len(Unknown(codec, m)) = 0
    BY <1>1, <1>2
  <2> HIDE DEF count
  <2>4. LeafSizeParts(codec, t, m, n, count)
    BY <1>1, <2>1, <2>2, <2>3 DEF LeafSizeParts
  <2>5. QED
    BY <2>4, LeafSizeFold
<1> HIDE DEF b, part, count, n
<1>8. PICK w : Laid(w, n, b) /\ w[1] = r[n]
  <2>1. Reversed(n, part, b)
    BY <1>1, <1>4 DEF Reversed
  <2>2. QED
    BY <1>5, <2>1, Backwards
<1>9. q[n] = Len(w[1])
  <2>1. Measured(n, count, b)
    BY <1>1, <1>3, <1>6 DEF Measured
  <2>2. QED
    BY <1>7, <1>8, <2>1, LengthsAddUp
<1>10. QED
  BY <1>5, <1>7, <1>8, <1>9 DEF n, b

\* The tables of a codec.
Sound(codec, leaves) ==
    /\ codec.pulsar \in BOOLEAN
    /\ \A t \in DOMAIN codec.types : Coded(codec.types[t], leaves)
    /\ \A t \in leaves : t \in DOMAIN codec.types /\ Coded(codec.types[t], {})

\* The tables of both versions of both packages are sound.
LEMMA CodecsSound ==
  ASSUME NEW p
  PROVE  Sound(Pb(p), Leaves(p)) /\ Sound(Pulsar(p), Leaves(p))
<1>1. Tables(Pb(p).types, Pulsar(p).types, Leaves(p))
  BY PackageTables
<1>2. Pb(p).pulsar \in BOOLEAN /\ Pulsar(p).pulsar \in BOOLEAN
  BY DEF Pb, Pulsar
<1> DEFINE a == Pb(p).types
           b == Pulsar(p).types
<1>3. /\ DOMAIN a \subseteq DOMAIN b
      /\ \A t \in DOMAIN a : Coded(a[t], Leaves(p))
      /\ \A t \in DOMAIN b : Coded(b[t], Leaves(p))
      /\ \A t \in Leaves(p) : t \in DOMAIN a /\ b[t] = a[t] /\ Coded(a[t], {})
  BY <1>1 DEF Tables
<1> HIDE DEF a, b
<1>4. \A t \in Leaves(p) : t \in DOMAIN b /\ Coded(b[t], {})
  BY <1>3
<1>5. QED
  BY <1>2, <1>3, <1>4 DEF Sound, a, b

\* The message behind a field is written as LeafSize counts it.
LEMMA BodyParts ==
  ASSUME NEW codec, NEW leaves, Sound(codec, leaves), NEW t \in leaves,
         NEW m, LeafTyped(codec, t, m)
  PROVE  /\ Body(codec, t, m) = LeafWritten(codec, t, m)
         /\ Body(codec, t, m) \in Seq(Byte) /\ LeafSize(codec, t, m) = Len(Body(codec, t, m))
<1>1. Coded(codec.types[t], {}) /\ codec.pulsar \in BOOLEAN
  BY DEF Sound
<1>2. PICK w : /\ Laid(w, Len(codec.types[t].struct), LeafBlocks(codec, t, m))
               /\ LeafWritten(codec, t, m) = w[1] /\ LeafSize(codec, t, m) = Len(w[1])
  BY <1>1, LeafLaid
<1> DEFINE n == Len(codec.types[t].struct)
<1>3. n \in Nat
  BY <1>1 DEF Coded
<1> HIDE DEF n
<1>4. w[1] \in Seq(Byte)
  <2>1. 1 \in 1 .. n + 1
    BY <1>3
  <2>2. Laid(w, n, LeafBlocks(codec, t, m))
    BY <1>2 DEF n
  <2>3. QED
    BY <2>1, <2>2 DEF Laid
<1>5. Buffer(codec, Len(w[1]), w[1]) = w[1]
  BY <1>1, <1>4, BufferFits
<1>6. Body(codec, t, m) = w[1]
  BY <1>2, <1>5 DEF Body
<1>7. QED
  BY <1>2, <1>4, <1>6

\* The elements of a field, one after the other, take as many bytes as Size counts.
LEMMA ElementsAddUp ==
  ASSUME NEW n \in Nat, NEW r, NEW part \in [1 .. n -> Seq(Byte)], Appended(r, n, part),
         NEW q, NEW count, Added(q, n, count), \A i \in 1 .. n : count[i] = Len(part[i])
  PROVE  r[n] \in Seq(Byte) /\ q[n] = Len(r[n])
<1>1. /\ r \in [0 .. n -> Seq(Byte)] /\ r[0] = <<>>
      /\ \A k \in 1 .. n : r[k] = r[k - 1] \o part[k]
      /\ q \in [0 .. n -> Nat] /\ q[0] = 0 /\ \A k \in 1 .. n : q[k] = q[k - 1] + Len(part[k])
  BY DEF Appended, Added
<1> DEFINE Good == {k \in Nat : k <= n => q[k] = Len(r[k])}
<1>2. 0 \in Good
  <2>1. Len(<<>>) = 0
    OBVIOUS
  <2>2. QED
    BY <1>1, <2>1
<1>3. ASSUME NEW k \in Nat, k \in Good PROVE k + 1 \in Good
  <2>1. SUFFICES ASSUME k + 1 <= n PROVE q[k + 1] = Len(r[k + 1])
    OBVIOUS
  <2>2. k + 1 \in 1 .. n /\ (k + 1) - 1 = k /\ k <= n /\ k \in 0 .. n
    BY <2>1
  <2>3. q[k] = Len(r[k]) /\ r[k] \in Seq(Byte) /\ part[k + 1] \in Seq(Byte)
    BY <1>1, <1>3, <2>2
  <2>4. r[k + 1] = r[k] \o part[k + 1] /\ q[k + 1] = q[k] + Len(part[k + 1])
    BY <1>1, <2>2
  <2>5. QED
    BY <2>3, <2>4
<1> HIDE DEF Good
<1>4. n \in Good
  BY <1>2, <1>3, NatSetInduction
<1>5. QED
  BY <1>1, <1>4 DEF Good

\* The block of a field that is no message.
LEMMA FieldPartsOfScalar ==
  ASSUME NEW codec, NEW f, f.kind \in ScalarKinds, NEW v, ScalarTyped(f, v), NEW tag \in Byte
  PROVE  /\ FieldBytes(codec, At(tag, f), v) = ScalarBytes(At(tag, f), v)
         /\ FieldSize(codec, f, v) = ScalarSize(f, v)
         /\ FieldBytes(codec, At(tag, f), v) \in Seq(Byte)
         /\ FieldSize(codec, f, v) = Len(FieldBytes(codec, At(tag, f), v))
<1> DEFINE a == At(tag, f)
<1>1. a.kind = f.kind
  BY DEF At
<1>2. f.kind # "nested" /\ f.kind \notin {"pointer", "list"}
  BY DEF ScalarKinds
<1> HIDE DEF a
<1>3. FieldBytes(codec, a, v) = ScalarBytes(a, v)
  BY <1>1, <1>2 DEF FieldBytes
<1>4. FieldSize(codec, f, v) = ScalarSize(f, v)
  BY <1>2 DEF FieldSize
<1>5. ScalarBytes(a, v) \in Seq(Byte) /\ Len(ScalarBytes(a, v)) = ScalarSize(f, v)
  BY ScalarParts DEF a
<1>6. QED
  BY <1>3, <1>4, <1>5 DEF a

\* A message behind a field, with its tag and its length.
LEMMA ElementParts ==
  ASSUME NEW codec, NEW leaves, Sound(codec, leaves), NEW t \in leaves,
         NEW m, LeafTyped(codec, t, m), NEW tag \in Byte
  PROVE  /\ Delimited(tag, Body(codec, t, m)) \in Seq(Byte)
         /\ DelimitedSize(LeafSize(codec, t, m)) = Len(Delimited(tag, Body(codec, t, m)))
         /\ DelimitedSize(LeafSize(codec, t, m)) \in Nat
<1> DEFINE s == Body(codec, t, m)
<1>1. s \in Seq(Byte) /\ LeafSize(codec, t, m) = Len(s)
  BY BodyParts
<1> HIDE DEF s
<1>2. Delimited(tag, s) \in Seq(Byte) /\ Len(Delimited(tag, s)) = DelimitedSize(Len(s))
      /\ DelimitedSize(Len(s)) \in Nat
  BY <1>1, DelimitedParts
<1>3. QED
  BY <1>1, <1>2 DEF s

\* The bytes of a list: r[k] are those of its first k elements.
Elements(codec, tag, t, v, r) ==
    /\ \A k \in 1 .. Len(v) : Delimited(tag, Body(codec, t, v[k])) \in Seq(Byte)
    /\ r \in [0 .. Len(v) -> Seq(Byte)] /\ r[0] = <<>>
    /\ \A k \in 1 .. Len(v) : r[k] = r[k - 1] \o Delimited(tag, Body(codec, t, v[k]))

\* The block of a list or a pointer has the length that Size counts, and is the
\* elements one after the other.
LEMMA FieldPartsOfSeveral ==
  ASSUME NEW codec, NEW leaves, Sound(codec, leaves),
         NEW f, f.kind \in {"pointer", "list"}, f.sub \in leaves,
         NEW v, LeavesTyped(codec, f.sub, v), NEW tag \in Byte
  PROVE  /\ FieldBytes(codec, At(tag, f), v) \in Seq(Byte)
         /\ FieldSize(codec, f, v) = Len(FieldBytes(codec, At(tag, f), v))
         /\ \E r : /\ Elements(codec, tag, f.sub, v, r)
                   /\ FieldBytes(codec, At(tag, f), v) = r[Len(v)]
<1> DEFINE a == At(tag, f)
           n == Len(v)
<1>1. a.kind = f.kind /\ a.tag = tag /\ a.sub = f.sub
  BY DEF At
<1>2. PICK S : v \in Seq(S) /\ \A x \in S : LeafTyped(codec, f.sub, x)
  BY DEF LeavesTyped
<1>3. n \in Nat /\ DOMAIN v = 1 .. n /\ \A i \in 1 .. n : LeafTyped(codec, f.sub, v[i])
  BY <1>2
<1> HIDE DEF a, n
<1>4. ASSUME NEW i \in 1 .. n
      PROVE  /\ Delimited(tag, Body(codec, f.sub, v[i])) \in Seq(Byte)
             /\ DelimitedSize(LeafSize(codec, f.sub, v[i]))
                   = Len(Delimited(tag, Body(codec, f.sub, v[i])))
             /\ DelimitedSize(LeafSize(codec, f.sub, v[i])) \in Nat
  BY <1>3, ElementParts
<1> DEFINE part == [i \in 1 .. n |-> Delimited(tag, Body(codec, f.sub, v[i]))]
           count == [i \in 1 .. n |-> DelimitedSize(LeafSize(codec, f.sub, v[i]))]
<1>5. part \in [1 .. n -> Seq(Byte)] /\ count \in [1 .. n -> Nat]
  BY <1>4
<1>6. \A i \in 1 .. n : /\ part[i] = Delimited(tag, Body(codec, f.sub, v[i]))
                        /\ count[i] = DelimitedSize(LeafSize(codec, f.sub, v[i]))
                        /\ count[i] = Len(part[i])
  BY <1>4
<1> HIDE DEF part, count
<1>7. PICK r : Appended(r, n, part) /\ FieldBytes(codec, a, v) = r[n]
  <2>1. ElementsParts(codec, a, v, n, part)
    BY <1>1, <1>3, <1>5, <1>6 DEF ElementsParts
  <2>2. QED
    BY <1>1, <2>1, ElementsFold
<1>8. PICK q : Added(q, n, count) /\ FieldSize(codec, f, v) = q[n]
  <2>1. ElementSizesParts(codec, f, v, n, count)
    BY <1>3, <1>5, <1>6 DEF ElementSizesParts
  <2>2. QED
    BY <2>1, ElementSizesFold
<1>9. r[n] \in Seq(Byte) /\ q[n] = Len(r[n])
  BY <1>3, <1>5, <1>6, <1>7, <1>8, ElementsAddUp
<1>10. Elements(codec, tag, f.sub, v, r)
  BY <1>4, <1>6, <1>7 DEF Appended, Elements, n
<1>11. QED
  BY <1>7, <1>8, <1>9, <1>10 DEF a, n

\* The block of a message that the struct holds by value has the length that Size
\* counts.
LEMMA FieldPartsOfNested ==
  ASSUME NEW codec, NEW leaves, Sound(codec, leaves),
         NEW f, f.kind = "nested", f.sub \in leaves,
         NEW v, LeafTyped(codec, f.sub, v), NEW tag \in Byte
  PROVE  /\ FieldBytes(codec, At(tag, f), v) = Delimited(tag, Body(codec, f.sub, v))
         /\ FieldBytes(codec, At(tag, f), v) \in Seq(Byte)
         /\ FieldSize(codec, f, v) = Len(FieldBytes(codec, At(tag, f), v))
<1> DEFINE a == At(tag, f)
<1>1. a.kind = f.kind /\ a.tag = tag /\ a.sub = f.sub
  BY DEF At
<1> HIDE DEF a
<1>2. FieldBytes(codec, a, v) = Delimited(tag, Body(codec, f.sub, v))
  BY <1>1 DEF FieldBytes
<1>3. FieldSize(codec, f, v) = DelimitedSize(LeafSize(codec, f.sub, v))
  BY DEF FieldSize
<1>4. /\ Delimited(tag, Body(codec, f.sub, v)) \in Seq(Byte)
      /\ DelimitedSize(LeafSize(codec, f.sub, v)) = Len(Delimited(tag, Body(codec, f.sub, v)))
  BY ElementParts
<1>5. QED
  BY <1>2, <1>3, <1>4 DEF a

\* A field of any kind takes as many bytes as Size counts.
LEMMA FieldParts ==
  ASSUME NEW codec, NEW leaves, Sound(codec, leaves), NEW f, Block(f, leaves),
         NEW v, FieldTyped(codec, f, v), NEW tag \in Byte
  PROVE  /\ FieldBytes(codec, At(tag, f), v) \in Seq(Byte)
         /\ FieldSize(codec, f, v) = Len(FieldBytes(codec, At(tag, f), v))
<1>1. CASE f.kind \in ScalarKinds
  <2>1. ScalarTyped(f, v)
    BY <1>1 DEF FieldTyped
  <2>2. QED
    BY <1>1, <2>1, FieldPartsOfScalar
<1>2. CASE f.kind = "nested"
  <2>1. LeafTyped(codec, f.sub, v) /\ f.sub \in leaves
    BY <1>2 DEF FieldTyped, Block, ScalarKinds
  <2>2. QED
    BY <1>2, <2>1, FieldPartsOfNested
<1>3. CASE f.kind \in {"pointer", "list"}
  <2>1. LeavesTyped(codec, f.sub, v) /\ f.sub \in leaves
    BY <1>3 DEF FieldTyped, Block, ScalarKinds
  <2>2. QED
    BY <1>3, <2>1, FieldPartsOfSeveral
<1>4. f.kind \in ScalarKinds \/ f.kind = "nested" \/ f.kind \in {"pointer", "list"}
  BY DEF Block, MessageKinds
<1>5. QED
  BY <1>1, <1>2, <1>3, <1>4

Blocks(codec, t, m) ==
    LET fields == codec.types[t].struct
    IN  [i \in 1 .. Len(fields) |->
            FieldBytes(codec, At(Tag(fields[i], i), fields[i]), m[fields[i].name])]

\* Block i of a message.
BlockFits(codec, leaves, t, m, i) ==
    LET f == codec.types[t].struct[i]
    IN  /\ i \in 1 .. 9 /\ Block(f, leaves) /\ FieldTyped(codec, f, m[f.name])
        /\ Tag(f, i) \in Byte
        /\ Blocks(codec, t, m)[i] = FieldBytes(codec, At(Tag(f, i), f), m[f.name])
        /\ Blocks(codec, t, m)[i] \in Seq(Byte)
        /\ FieldSize(codec, f, m[f.name]) = Len(Blocks(codec, t, m)[i])
        /\ FieldSize(codec, f, m[f.name]) \in Nat

\* Every block of a message is written as Size counts it.
LEMMA BlocksFit ==
  ASSUME NEW codec, NEW leaves, Sound(codec, leaves), NEW t, Coded(codec.types[t], leaves),
         NEW m, Typed(codec, t, m), NEW i \in 1 .. Len(codec.types[t].struct)
  PROVE  BlockFits(codec, leaves, t, m, i)
<1> DEFINE T == codec.types[t]
           f == T.struct[i]
           n == Len(T.struct)
<1>1. n \in 0 .. 9 /\ Block(f, leaves) /\ f \in Fields(codec, t)
  <2>1. ByName(codec, t)
    BY FieldsByName
  <2>2. f \in Fields(codec, t)
    BY <2>1 DEF ByName
  <2>3. n \in 0 .. 9
    BY DEF Coded
  <2>4. Block(f, leaves)
    BY DEF Coded
  <2>5. QED
    BY <2>2, <2>3, <2>4
<1>2. i \in 1 .. 9
  <2>1. i \in 1 .. n /\ n \in 0 .. 9
    BY <1>1
  <2> HIDE DEF n
  <2>2. QED
    BY <2>1
<1>3. FieldTyped(codec, f, m[f.name])
  BY <1>1 DEF Typed
<1>4. Tag(f, i) \in Byte
  BY <1>2, TagByte
<1>5. Blocks(codec, t, m)[i] = FieldBytes(codec, At(Tag(f, i), f), m[f.name])
  BY DEF Blocks
<1> DEFINE v == m[f.name]
<1> HIDE DEF f, v
<1>6. /\ FieldBytes(codec, At(Tag(f, i), f), v) \in Seq(Byte)
      /\ FieldSize(codec, f, v) = Len(FieldBytes(codec, At(Tag(f, i), f), v))
  BY <1>1, <1>3, <1>4, FieldParts DEF v
<1>7. Len(FieldBytes(codec, At(Tag(f, i), f), v)) \in Nat
  BY <1>6
<1>8. QED
  BY <1>1, <1>2, <1>3, <1>4, <1>5, <1>6, <1>7 DEF f, v, BlockFits
\* A message is written as its blocks one after the other, and its size is their
\* length.
LEMMA MessageLaid ==
  ASSUME NEW codec, NEW leaves, Sound(codec, leaves), NEW t, Coded(codec.types[t], leaves),
         NEW m, Typed(codec, t, m)
  PROVE  \E w : /\ Laid(w, Len(codec.types[t].struct), Blocks(codec, t, m))
                /\ Written(codec, t, m) = w[1] /\ Size(codec, t, m) = Len(w[1])
<1> DEFINE T == codec.types[t]
           n == Len(T.struct)
           b == Blocks(codec, t, m)
<1>1. /\ n \in Nat /\ n \in 0 .. 9 /\ DOMAIN T.struct = 1 .. n /\ DOMAIN T.marshal = 1 .. n
      /\ T.size = T.struct
      /\ \A i \in 1 .. n : T.marshal[(n + 1) - i] = At(Tag(T.struct[i], i), T.struct[i])
  BY DEF Coded, Tag
<1>2. Unknown(codec, m) = <<>> /\ <<>> \in Seq(Byte) /\ Len(<<>>) = 0
  BY DEF Typed
<1>3. ASSUME NEW i \in 1 .. n
      PROVE  /\ b[i] = FieldBytes(codec, At(Tag(T.struct[i], i), T.struct[i]), m[T.struct[i].name])
             /\ b[i] \in Seq(Byte)
             /\ FieldSize(codec, T.struct[i], m[T.struct[i].name]) = Len(b[i])
             /\ FieldSize(codec, T.struct[i], m[T.struct[i].name]) \in Nat
  <2>1. BlockFits(codec, leaves, t, m, i)
    BY BlocksFit
  <2>2. QED
    BY <2>1 DEF BlockFits
<1> DEFINE part == [k \in 1 .. n |-> FieldBytes(codec, T.marshal[k], m[T.marshal[k].name])]
           count == [k \in 1 .. n |-> FieldSize(codec, T.size[k], m[T.size[k].name])]
<1>4. ASSUME NEW k \in 1 .. n PROVE part[k] = b[(n + 1) - k] /\ part[k] \in Seq(Byte)
  <2> DEFINE i == (n + 1) - k
  <2>1. i \in 1 .. n /\ (n + 1) - i = k
    BY <1>1
  <2> HIDE DEF i, b
  <2>2. T.marshal[k] = At(Tag(T.struct[i], i), T.struct[i])
    BY <1>1, <2>1
  <2>3. T.marshal[k].name = T.struct[i].name
    BY <2>2 DEF At
  <2>4. part[k] = b[i] /\ b[i] \in Seq(Byte)
    BY <1>3, <2>1, <2>2, <2>3
  <2>5. QED
    BY <2>4 DEF i
<1>5. PICK r : Prepended(r, n, part) /\ Written(codec, t, m) = r[n]
  <2>1. part \in [1 .. n -> Seq(Byte)]
    BY <1>4
  <2>2. \A k \in 1 .. n : part[k] = FieldBytes(codec, T.marshal[k], m[T.marshal[k].name])
    OBVIOUS
  <2> HIDE DEF part
  <2>3. WrittenParts(codec, t, m, n, part)
    BY <1>1, <1>2, <2>1, <2>2 DEF WrittenParts
  <2>4. QED
    BY <2>3, WrittenFold
<1>6. \A k \in 1 .. n : count[k] = Len(b[k]) /\ count[k] \in Nat
  BY <1>1, <1>3
<1>7. PICK q : Added(q, n, count) /\ Size(codec, t, m) = q[n]
  <2>1. count \in [1 .. n -> Nat]
    BY <1>6
  <2>2. \A k \in 1 .. n : count[k] = FieldSize(codec, T.size[k], m[T.size[k].name])
    OBVIOUS
  <2>3. DOMAIN T.size = 1 .. n /\ Len(Unknown(codec, m)) = 0
    BY <1>1, <1>2
  <2> HIDE DEF count
  <2>4. SizeParts(codec, t, m, n, count)
    BY <1>1, <2>1, <2>2, <2>3 DEF SizeParts
  <2>5. QED
    BY <2>4, SizeFold
<1> HIDE DEF b, part, count, n
<1>8. PICK w : Laid(w, n, b) /\ w[1] = r[n]
  <2>1. Reversed(n, part, b)
    BY <1>1, <1>4 DEF Reversed
  <2>2. QED
    BY <1>5, <2>1, Backwards
<1>9. q[n] = Len(w[1])
  <2>1. Measured(n, count, b)
    BY <1>1, <1>3, <1>6 DEF Measured
  <2>2. QED
    BY <1>7, <1>8, <2>1, LengthsAddUp
<1>10. QED
  BY <1>5, <1>7, <1>8, <1>9 DEF n, b

(***************************************************************************)
(* Marshal never runs out of its buffer: it returns the blocks of all      *)
(* fields, one after the other.                                            *)
(***************************************************************************)
THEOREM MarshalFits ==
  ASSUME NEW codec, NEW leaves, Sound(codec, leaves), NEW t \in DOMAIN codec.types,
         NEW m, Typed(codec, t, m)
  PROVE  /\ Marshal(codec, t, m) \in Seq(Byte)
         /\ Size(codec, t, m) = Len(Marshal(codec, t, m))
         /\ \E w : /\ Laid(w, Len(codec.types[t].struct), Blocks(codec, t, m))
                   /\ Marshal(codec, t, m) = w[1]
<1>1. Coded(codec.types[t], leaves) /\ codec.pulsar \in BOOLEAN
  BY DEF Sound
<1>2. PICK w : /\ Laid(w, Len(codec.types[t].struct), Blocks(codec, t, m))
               /\ Written(codec, t, m) = w[1] /\ Size(codec, t, m) = Len(w[1])
  BY <1>1, MessageLaid
<1> DEFINE n == Len(codec.types[t].struct)
<1>3. n \in Nat
  BY <1>1 DEF Coded
<1> HIDE DEF n
<1>4. w[1] \in Seq(Byte)
  <2>1. 1 \in 1 .. n + 1
    BY <1>3
  <2>2. Laid(w, n, Blocks(codec, t, m))
    BY <1>2 DEF n
  <2>3. QED
    BY <2>1, <2>2 DEF Laid
<1>5. Buffer(codec, Len(w[1]), w[1]) = w[1]
  BY <1>1, <1>4, BufferFits
<1>6. Marshal(codec, t, m) = w[1]
  BY <1>2, <1>5 DEF Marshal
<1>7. QED
  BY <1>2, <1>4, <1>6

-----------------------------------------------------------------------------
(* What the senders put into their messages.                               *)

\* The sample values fit into their types.
LEMMA SizeRoom == WordSize \div 2 \in 0 .. WordSize - 1 /\ IntSize \div 2 >= 2
<1>1. WordSize \in Nat \ {0} /\ IntSize \in Nat /\ IntBits \in Nat /\ IntBits >= 2
  BY Sizes, WidthAssumption
<1>2. IntSize >= 4
  <2> DEFINE Good == {n \in Nat : Pow2[n + 2] >= 4}
  <2>1. 0 \in Good
    <3>1. Pow2[0] = 1 /\ Pow2[0 + 1] = 2 * Pow2[0] /\ Pow2[1 + 1] = 2 * Pow2[1]
      BY Pow2Def, Pow2Positive
    <3>2. QED
      BY <3>1
  <2>2. ASSUME NEW n \in Nat, n \in Good PROVE n + 1 \in Good
    <3>1. Pow2[(n + 2) + 1] = 2 * Pow2[n + 2] /\ Pow2[n + 2] \in Nat /\ Pow2[n + 2] >= 4
      BY <2>2, Pow2Positive
    <3>2. (n + 1) + 2 = (n + 2) + 1
      OBVIOUS
    <3>3. Pow2[(n + 1) + 2] >= 4
      BY <3>1, <3>2
    <3>4. QED
      BY <3>3
  <2> HIDE DEF Good
  <2>3. IntBits - 2 \in Good
    <3>1. IntBits - 2 \in Nat
      BY <1>1
    <3>2. QED
      BY <2>1, <2>2, <3>1, NatSetInduction
  <2>4. (IntBits - 2) + 2 = IntBits
    BY <1>1
  <2>5. QED
    BY <2>3, <2>4 DEF Good, IntSize
<1>3. QED
  BY <1>1, <1>2

\* The zero value has the type of its field.
LEMMA ZeroTyped == ASSUME NEW f PROVE ScalarTyped(f, ZeroValue(f))
<1>1. CASE f.kind \in {"string", "bytes"}
  <2>1. ZeroValue(f) = <<>>
    BY <1>1 DEF ZeroValue
  <2>2. <<>> \in Seq(Byte)
    OBVIOUS
  <2>3. QED
    BY <1>1, <2>1, <2>2 DEF ScalarTyped
<1>2. CASE f.kind \in {"int32", "uint64"}
  <2>1. ZeroValue(f) = 0
    BY <1>2 DEF ZeroValue
  <2>2. 0 \in -(IntSize \div 2) .. (IntSize \div 2) - 1 /\ 0 \in 0 .. WordSize - 1
    BY SizeRoom, Sizes
  <2>3. QED
    BY <1>2, <2>1, <2>2 DEF ScalarTyped
<1>3. CASE f.kind = "bool"
  BY <1>3 DEF ZeroValue, ScalarTyped
<1>4. CASE f.kind \notin {"string", "bytes", "int32", "uint64", "bool"}
  BY <1>4 DEF ScalarTyped
<1>5. QED
  BY <1>1, <1>2, <1>3, <1>4

\* The sample strings are bytes.
LEMMA TextTyped == Text \in Seq(Byte) /\ LongText \in Seq(Byte)
<1>1. LongText \in Seq(Byte)
  <2> DEFINE n == LongString
  <2>1. n \in Nat
    BY LongStringAssumption
  <2> HIDE DEF n
  <2>2. [i \in 1 .. n |-> 97] \in [1 .. n -> Byte]
    BY DEF Byte
  <2>3. [i \in 1 .. n |-> 97] \in Seq(Byte)
    BY <2>1, <2>2
  <2>4. QED
    BY <2>3 DEF LongText, n
<1>2. <<97>> \in Seq(Byte)
  BY DEF Byte
<1>3. QED
  BY <1>1, <1>2 DEF Text

\* A sample value has the type of its field.
LEMMA SampleTyped == ASSUME NEW f PROVE ScalarTyped(f, SampleScalar(f))
<1>1. CASE f.kind \in {"string", "bytes"}
  BY <1>1, TextTyped DEF SampleScalar, ScalarTyped
<1>2. CASE f.kind = "int32"
  <2>1. -1 \in -(IntSize \div 2) .. (IntSize \div 2) - 1
    BY SizeRoom, IntSizeInt
  <2>2. SampleScalar(f) = -1
    BY <1>2 DEF SampleScalar
  <2>3. QED
    BY <1>2, <2>1, <2>2 DEF ScalarTyped
<1>3. CASE f.kind = "uint64"
  <2>1. SampleScalar(f) = WordSize \div 2
    BY <1>3 DEF SampleScalar
  <2>2. QED
    BY <1>3, <2>1, SizeRoom DEF ScalarTyped
<1>4. CASE f.kind = "bool"
  BY <1>4 DEF SampleScalar, ScalarTyped
<1>5. CASE f.kind \notin {"string", "bytes", "int32", "uint64", "bool"}
  BY <1>5 DEF ScalarTyped
<1>6. QED
  BY <1>1, <1>2, <1>3, <1>4, <1>5

\* A message whose fields have been given values one by one.
Made(codec, t, value) ==
    [n \in AllNames(codec, t) |-> IF n \in Names(codec, t) THEN value[n] ELSE <<>>]

\* A message that is made field by field has the fields it was given.
LEMMA MadeFields ==
  ASSUME NEW codec, NEW t, ByName(codec, t), NEW value
  PROVE  /\ Whole(codec, t, Made(codec, t, value))
         /\ \A f \in Fields(codec, t) : /\ Made(codec, t, value)[f.name] = value[f.name]
                                        /\ FieldNamed(codec, t, f.name) = f
                                        /\ f.name \in Names(codec, t)
         /\ Unknown(codec, Made(codec, t, value)) = <<>>
<1> DEFINE m == Made(codec, t, value)
           A == AllNames(codec, t)
           N == Names(codec, t)
<1>1. \A f \in Fields(codec, t) : f.name \in N /\ FieldNamed(codec, t, f.name) = f
  BY DEF ByName
<1>2. N \subseteq A /\ (codec.pulsar => "unknownFields" \in A)
  BY DEF AllNames
<1>3. "unknownFields" \notin N
  BY DEF ByName
<1> HIDE DEF A, N
<1>4. m = [n \in A |-> IF n \in N THEN value[n] ELSE <<>>]
  BY DEF Made, A, N
<1> HIDE DEF m
<1>5. DOMAIN m = A /\ \A n \in N : m[n] = value[n]
  BY <1>2, <1>4
<1>6. codec.pulsar => m["unknownFields"] = <<>>
  BY <1>2, <1>3, <1>4
<1>7. Unknown(codec, m) = <<>>
  BY <1>6 DEF Unknown
<1>8. \A f \in Fields(codec, t) : m[f.name] = value[f.name]
  BY <1>1, <1>5
<1>w. m = [n \in A |-> m[n]]
  BY <1>4
<1>9. QED
  BY <1>1, <1>5, <1>7, <1>8, <1>w DEF Whole, m, A, N

\* An empty message inside another one is well typed.
LEMMA LeafNewTyped ==
  ASSUME NEW codec, NEW t, Coded(codec.types[t], {})
  PROVE  LeafTyped(codec, t, LeafNew(codec, t))
<1> DEFINE N == Names(codec, t)
           value == [n \in N |-> ZeroValue(FieldNamed(codec, t, n))]
           m == Made(codec, t, value)
<1>1. ByName(codec, t)
  BY FieldsByName
<1>2. LeafNew(codec, t) = m
  BY DEF LeafNew, Made
<1>3. \A n \in N : value[n] = ZeroValue(FieldNamed(codec, t, n))
  OBVIOUS
<1> HIDE DEF value, N
<1>4. /\ Whole(codec, t, m) /\ Unknown(codec, m) = <<>>
      /\ \A f \in Fields(codec, t) : /\ m[f.name] = value[f.name]
                                      /\ FieldNamed(codec, t, f.name) = f /\ f.name \in N
  BY <1>1, MadeFields DEF N
<1> HIDE DEF m
<1>5. ASSUME NEW f \in Fields(codec, t) PROVE ScalarTyped(f, m[f.name])
  <2>1. m[f.name] = ZeroValue(f)
    BY <1>3, <1>4
  <2>2. QED
    BY <2>1, ZeroTyped
<1>6. QED
  BY <1>2, <1>4, <1>5 DEF LeafTyped

\* A filled message inside another one is well typed.
LEMMA LeafFilledTyped ==
  ASSUME NEW codec, NEW t, Coded(codec.types[t], {})
  PROVE  LeafTyped(codec, t, LeafFilled(codec, t))
<1> DEFINE N == Names(codec, t)
           value == [n \in N |-> SampleScalar(FieldNamed(codec, t, n))]
           m == Made(codec, t, value)
<1>1. ByName(codec, t)
  BY FieldsByName
<1>2. LeafFilled(codec, t) = m
  BY DEF LeafFilled, Made
<1>3. \A n \in N : value[n] = SampleScalar(FieldNamed(codec, t, n))
  OBVIOUS
<1> HIDE DEF value, N
<1>4. /\ Whole(codec, t, m) /\ Unknown(codec, m) = <<>>
      /\ \A f \in Fields(codec, t) : /\ m[f.name] = value[f.name]
                                      /\ FieldNamed(codec, t, f.name) = f /\ f.name \in N
  BY <1>1, MadeFields DEF N
<1> HIDE DEF m
<1>5. ASSUME NEW f \in Fields(codec, t) PROVE ScalarTyped(f, m[f.name])
  <2>1. m[f.name] = SampleScalar(f)
    BY <1>3, <1>4
  <2>2. QED
    BY <2>1, SampleTyped
<1>6. QED
  BY <1>2, <1>4, <1>5 DEF LeafTyped

\* A field of a sound codec is a scalar or one of its messages.
LEMMA FieldsAreBlocks ==
  ASSUME NEW codec, NEW leaves, Sound(codec, leaves), NEW t \in DOMAIN codec.types,
         NEW f \in Fields(codec, t)
  PROVE  Block(f, leaves)
<1>1. Coded(codec.types[t], leaves)
  BY DEF Sound
<1>2. ByName(codec, t)
  BY <1>1, FieldsByName
<1>3. PICK i \in 1 .. Len(codec.types[t].struct) : f = codec.types[t].struct[i]
  BY <1>2 DEF ByName
<1>4. QED
  BY <1>1, <1>3 DEF Coded

\* The empty list is well typed.
LEMMA NoLeaves == ASSUME NEW codec, NEW t PROVE LeavesTyped(codec, t, <<>>) /\ Len(<<>>) = 0
<1> DEFINE S == {}
<1>1. <<>> \in Seq(S)
  OBVIOUS
<1>2. \A x \in S : LeafTyped(codec, t, x)
  OBVIOUS
<1> HIDE DEF S
<1>3. LeavesTyped(codec, t, <<>>)
  BY <1>1, <1>2, Zenon DEF LeavesTyped
<1>4. QED
  BY <1>3

\* A list of one message is well typed.
LEMMA OneLeaf ==
  ASSUME NEW codec, NEW t, NEW m, LeafTyped(codec, t, m)
  PROVE  LeavesTyped(codec, t, <<m>>) /\ Len(<<m>>) = 1
<1> DEFINE S == {m}
<1>1. <<m>> \in Seq(S)
  OBVIOUS
<1>2. \A x \in S : LeafTyped(codec, t, x)
  BY Zenon
<1> HIDE DEF S
<1>3. LeavesTyped(codec, t, <<m>>)
  BY <1>1, <1>2, Zenon DEF LeavesTyped
<1>4. QED
  BY <1>3

\* Appending a message keeps a list well typed.
LEMMA OneMoreLeaf ==
  ASSUME NEW codec, NEW t, NEW v, LeavesTyped(codec, t, v), NEW m, LeafTyped(codec, t, m)
  PROVE  LeavesTyped(codec, t, Append(v, m))
<1>1. PICK S : v \in Seq(S) /\ \A x \in S : LeafTyped(codec, t, x)
  BY DEF LeavesTyped
<1> DEFINE T == S \cup {m}
<1>2. v \in Seq(T) /\ m \in T
  <2>1. S \subseteq T
    OBVIOUS
  <2>2. QED
    BY <1>1, <2>1, SeqMonotonic
<1>3. Append(v, m) \in Seq(T) /\ \A x \in T : LeafTyped(codec, t, x)
  BY <1>1, <1>2
<1>4. QED
  BY <1>3 DEF LeavesTyped

\* What the value of a field must be, by its kind.
LEMMA FieldTypes ==
  ASSUME NEW codec, NEW f, NEW v
  PROVE  /\ f.kind \in ScalarKinds /\ ScalarTyped(f, v) => FieldTyped(codec, f, v)
         /\ f.kind = "nested" /\ LeafTyped(codec, f.sub, v) => FieldTyped(codec, f, v)
         /\ f.kind = "pointer" /\ LeavesTyped(codec, f.sub, v) /\ Len(v) <= 1
                => FieldTyped(codec, f, v)
         /\ f.kind = "list" /\ LeavesTyped(codec, f.sub, v) => FieldTyped(codec, f, v)
BY DEF FieldTyped, ScalarKinds

\* The zero value of any field is well typed.
LEMMA ZeroFieldTyped ==
  ASSUME NEW codec, NEW leaves, Sound(codec, leaves), NEW f, Block(f, leaves)
  PROVE  FieldTyped(codec, f, Zero(codec, f))
<1>1. CASE f.kind \in ScalarKinds
  <2>1. Zero(codec, f) = ZeroValue(f)
    BY <1>1 DEF Zero, ScalarKinds
  <2>2. QED
    BY <1>1, <2>1, ZeroTyped, FieldTypes
<1>2. CASE f.kind = "nested"
  <2>1. f.sub \in leaves
    BY <1>2 DEF Block, ScalarKinds
  <2>2. LeafTyped(codec, f.sub, LeafNew(codec, f.sub))
    BY <2>1, LeafNewTyped DEF Sound
  <2>3. Zero(codec, f) = LeafNew(codec, f.sub)
    BY <1>2 DEF Zero
  <2>4. QED
    BY <1>2, <2>2, <2>3, FieldTypes
<1>3. CASE f.kind \in {"pointer", "list"}
  <2>1. Zero(codec, f) = <<>>
    BY <1>3 DEF Zero, ZeroValue
  <2>2. LeavesTyped(codec, f.sub, <<>>) /\ Len(<<>>) <= 1
    BY NoLeaves
  <2>3. QED
    BY <1>3, <2>1, <2>2, FieldTypes
<1>4. QED
  BY <1>1, <1>2, <1>3 DEF Block, MessageKinds

\* What a list or a pointer is filled with.
LEMMA LeavesOfField ==
  ASSUME NEW codec, NEW leaves, Sound(codec, leaves), NEW t \in leaves
  PROVE  /\ LeafTyped(codec, t, LeafNew(codec, t)) /\ LeafTyped(codec, t, LeafFilled(codec, t))
         /\ LeavesTyped(codec, t, <<>>) /\ LeavesTyped(codec, t, <<LeafNew(codec, t)>>)
         /\ LeavesTyped(codec, t, <<LeafFilled(codec, t)>>)
         /\ LeavesTyped(codec, t, <<LeafFilled(codec, t), LeafNew(codec, t)>>)
<1> DEFINE a == LeafFilled(codec, t)
           b == LeafNew(codec, t)
<1>1. LeafTyped(codec, t, a) /\ LeafTyped(codec, t, b)
  BY LeafNewTyped, LeafFilledTyped DEF Sound
<1> HIDE DEF a, b
<1>2. LeavesTyped(codec, t, <<a>>) /\ LeavesTyped(codec, t, <<b>>) /\ LeavesTyped(codec, t, <<>>)
  BY <1>1, OneLeaf, NoLeaves
<1> DEFINE S == {a, b}
<1>3. <<a, b>> \in Seq(S)
  OBVIOUS
<1>a. \A x \in S : LeafTyped(codec, t, x)
  BY <1>1, Zenon
<1> HIDE DEF S
<1>4. LeavesTyped(codec, t, <<a, b>>)
  BY <1>3, <1>a, Zenon DEF LeavesTyped
<1>5. QED
  BY <1>1, <1>2, <1>4 DEF a, b

\* The sample value of any field is well typed.
LEMMA SampleFieldTyped ==
  ASSUME NEW codec, NEW leaves, Sound(codec, leaves), NEW f, Block(f, leaves)
  PROVE  FieldTyped(codec, f, Sample(codec, f))
<1>1. CASE f.kind \in ScalarKinds
  <2>1. Sample(codec, f) = SampleScalar(f)
    BY <1>1 DEF Sample, ScalarKinds
  <2>2. QED
    BY <1>1, <2>1, SampleTyped, FieldTypes
<1>2. CASE f.kind \in MessageKinds
  <2> DEFINE a == LeafFilled(codec, f.sub)
             b == LeafNew(codec, f.sub)
  <2>1. f.sub \in leaves
    BY <1>2 DEF Block, ScalarKinds, MessageKinds
  <2>2. /\ LeafTyped(codec, f.sub, a) /\ LeavesTyped(codec, f.sub, <<a>>)
        /\ LeavesTyped(codec, f.sub, <<a, b>>)
    BY <2>1, LeavesOfField
  <2>3. /\ f.kind = "nested" => Sample(codec, f) = a
        /\ f.kind = "pointer" => Sample(codec, f) = <<a>>
        /\ f.kind = "list" => Sample(codec, f) = <<a, b>>
    BY DEF Sample
  <2> HIDE DEF a, b
  <2>4. Len(<<a>>) <= 1
    OBVIOUS
  <2>5. CASE f.kind = "nested"
    BY <2>2, <2>3, <2>5, FieldTypes
  <2>6. CASE f.kind = "pointer"
    BY <2>2, <2>3, <2>4, <2>6, FieldTypes
  <2>7. CASE f.kind = "list"
    BY <2>2, <2>3, <2>7, FieldTypes
  <2>8. QED
    BY <1>2, <2>5, <2>6, <2>7 DEF MessageKinds
<1>3. QED
  BY <1>1, <1>2 DEF Block

\* A new message is well typed.
LEMMA NewTyped ==
  ASSUME NEW codec, NEW leaves, Sound(codec, leaves), NEW t \in DOMAIN codec.types
  PROVE  Typed(codec, t, New(codec, t))
<1> DEFINE N == Names(codec, t)
           value == [n \in N |-> Zero(codec, FieldNamed(codec, t, n))]
           m == Made(codec, t, value)
<1>1. ByName(codec, t)
  BY FieldsByName DEF Sound
<1>2. New(codec, t) = m
  BY DEF New, Made
<1>3. \A n \in N : value[n] = Zero(codec, FieldNamed(codec, t, n))
  OBVIOUS
<1> HIDE DEF value, N
<1>4. /\ Whole(codec, t, m) /\ Unknown(codec, m) = <<>>
      /\ \A f \in Fields(codec, t) : /\ m[f.name] = value[f.name]
                                      /\ FieldNamed(codec, t, f.name) = f /\ f.name \in N
  BY <1>1, MadeFields DEF N
<1> HIDE DEF m
<1>5. ASSUME NEW f \in Fields(codec, t) PROVE FieldTyped(codec, f, m[f.name])
  <2>1. m[f.name] = Zero(codec, f)
    BY <1>3, <1>4
  <2>2. Block(f, leaves)
    BY FieldsAreBlocks
  <2>3. QED
    BY <2>1, <2>2, ZeroFieldTyped
<1>6. QED
  BY <1>2, <1>4, <1>5 DEF Typed

\* A message with every field set is well typed.
LEMMA FilledTyped ==
  ASSUME NEW codec, NEW leaves, Sound(codec, leaves), NEW t \in DOMAIN codec.types
  PROVE  Typed(codec, t, Filled(codec, t))
<1> DEFINE N == Names(codec, t)
           value == [n \in N |-> Sample(codec, FieldNamed(codec, t, n))]
           m == Made(codec, t, value)
<1>1. ByName(codec, t)
  BY FieldsByName DEF Sound
<1>2. Filled(codec, t) = m
  BY DEF Filled, Made
<1>3. \A n \in N : value[n] = Sample(codec, FieldNamed(codec, t, n))
  OBVIOUS
<1> HIDE DEF value, N
<1>4. /\ Whole(codec, t, m) /\ Unknown(codec, m) = <<>>
      /\ \A f \in Fields(codec, t) : /\ m[f.name] = value[f.name]
                                      /\ FieldNamed(codec, t, f.name) = f /\ f.name \in N
  BY <1>1, MadeFields DEF N
<1> HIDE DEF m
<1>5. ASSUME NEW f \in Fields(codec, t) PROVE FieldTyped(codec, f, m[f.name])
  <2>1. m[f.name] = Sample(codec, f)
    BY <1>3, <1>4
  <2>2. Block(f, leaves)
    BY FieldsAreBlocks
  <2>3. QED
    BY <2>1, <2>2, SampleFieldTyped
<1>6. QED
  BY <1>2, <1>4, <1>5 DEF Typed

\* A word has at least two values.
LEMMA WordLarge == WordSize >= 2
<1>1. PICK n \in Nat : WordBits = n + 1
  <2>1. WordBits - 1 \in Nat /\ WordBits = (WordBits - 1) + 1
    BY Sizes
  <2>2. QED
    BY <2>1
<1>2. Pow2[n + 1] = 2 * Pow2[n] /\ Pow2[n] \in Nat \ {0}
  BY Pow2Positive
<1>3. QED
  BY <1>1, <1>2 DEF WordSize

\* What reflection or an assignment gives to a field is of its type.
LEMMA ValuesTyped ==
  ASSUME NEW codec, NEW leaves, Sound(codec, leaves), NEW f, Block(f, leaves),
         NEW v \in Values(codec, f)
  PROVE  FieldTyped(codec, f, v)
<1>1. CASE f.kind \in ScalarKinds
  <2>1. ScalarTyped(f, v)
    <3>1. CASE f.kind \in {"string", "bytes"}
      <4>1. v \in {Text, LongText}
        BY <3>1 DEF Values
      <4>2. v \in Seq(Byte)
        BY <4>1, TextTyped
      <4>3. QED
        BY <3>1, <4>2 DEF ScalarTyped
    <3>2. CASE f.kind = "int32"
      <4>1. v \in {1, (IntSize \div 2) - 1, -1, -(IntSize \div 2)}
        BY <3>2 DEF Values
      <4>2. v \in -(IntSize \div 2) .. (IntSize \div 2) - 1
        BY <4>1, SizeRoom, IntSizeInt
      <4>3. QED
        BY <3>2, <4>2 DEF ScalarTyped
    <3>3. CASE f.kind = "uint64"
      <4>1. v \in {1, WordSize - 1}
        BY <3>3 DEF Values
      <4>2. WordSize >= 2
        BY WordLarge
      <4>3. v \in 0 .. WordSize - 1
        BY <4>1, <4>2, Sizes
      <4>4. QED
        BY <3>3, <4>3 DEF ScalarTyped
    <3>4. CASE f.kind = "bool"
      BY <3>4 DEF Values, ScalarTyped
    <3>5. QED
      BY <1>1, <3>1, <3>2, <3>3, <3>4 DEF ScalarKinds
  <2>2. QED
    BY <1>1, <2>1, FieldTypes
<1>2. CASE f.kind \in MessageKinds
  <2> DEFINE a == LeafFilled(codec, f.sub)
             b == LeafNew(codec, f.sub)
  <2>1. f.sub \in leaves
    BY <1>2 DEF Block, ScalarKinds, MessageKinds
  <2>2. /\ LeafTyped(codec, f.sub, a) /\ LeafTyped(codec, f.sub, b)
        /\ LeavesTyped(codec, f.sub, <<a>>) /\ LeavesTyped(codec, f.sub, <<b>>)
        /\ LeavesTyped(codec, f.sub, <<>>)
    BY <2>1, LeavesOfField
  <2>3. /\ f.kind = "nested" => v \in {b, a}
        /\ f.kind = "pointer" => v \in {<<b>>, <<a>>}
        /\ f.kind = "list" => v \in {<<>>, <<a>>}
    BY DEF Values
  <2> HIDE DEF a, b
  <2>4. Len(<<a>>) <= 1 /\ Len(<<b>>) <= 1
    OBVIOUS
  <2>5. CASE f.kind = "nested"
    <3>1. LeafTyped(codec, f.sub, v)
      BY <2>2, <2>3, <2>5, Zenon
    <3>2. QED
      BY <2>5, <3>1, FieldTypes
  <2>6. CASE f.kind = "pointer"
    <3>1. v = <<a>> \/ v = <<b>>
      BY <2>3, <2>6, Zenon
    <3>2. LeavesTyped(codec, f.sub, v) /\ Len(v) <= 1
      BY <2>2, <2>4, <3>1, Zenon
    <3>3. QED
      BY <2>6, <3>2, FieldTypes
  <2>7. CASE f.kind = "list"
    <3>1. v = <<>> \/ v = <<a>>
      BY <2>3, <2>7, Zenon
    <3>2. LeavesTyped(codec, f.sub, v)
      BY <2>2, <3>1, Zenon
    <3>3. QED
      BY <2>7, <3>2, FieldTypes
  <2>8. QED
    BY <1>2, <2>5, <2>6, <2>7 DEF MessageKinds
<1>3. QED
  BY <1>1, <1>2 DEF Block

\* One field gets another value.
LEMMA PutTyped ==
  ASSUME NEW codec, NEW leaves, Sound(codec, leaves), NEW t \in DOMAIN codec.types,
         NEW m, Typed(codec, t, m), NEW f \in Fields(codec, t),
         NEW v, FieldTyped(codec, f, v)
  PROVE  Typed(codec, t, Put(m, f.name, v))
<1> DEFINE q == Put(m, f.name, v)
<1>1. ByName(codec, t)
  BY FieldsByName DEF Sound
<1>2. \A g \in Fields(codec, t) : g.name \in Names(codec, t) /\ FieldNamed(codec, t, g.name) = g
  BY <1>1 DEF ByName
<1>3. "unknownFields" \notin Names(codec, t) /\ Names(codec, t) \subseteq AllNames(codec, t)
  BY <1>1 DEF ByName, AllNames
<1>4. m = [x \in AllNames(codec, t) |-> m[x]] /\ DOMAIN m = AllNames(codec, t)
  BY DEF Typed, Whole
<1>5. DOMAIN q = AllNames(codec, t) /\ \A x \in DOMAIN m : q[x] = IF x = f.name THEN v ELSE m[x]
  BY <1>4 DEF Put
<1>w. Whole(codec, t, q)
  BY <1>4 DEF Put, Whole
<1> HIDE DEF q
<1>6. Unknown(codec, q) = <<>>
  <2>1. codec.pulsar => q["unknownFields"] = m["unknownFields"]
    <3>1. codec.pulsar => "unknownFields" \in DOMAIN m
      BY <1>4 DEF AllNames
    <3>2. "unknownFields" # f.name
      BY <1>2, <1>3
    <3>3. QED
      BY <1>5, <3>1, <3>2
  <2>2. Unknown(codec, q) = Unknown(codec, m)
    BY <2>1 DEF Unknown
  <2>3. QED
    BY <2>2 DEF Typed
<1>7. ASSUME NEW g \in Fields(codec, t) PROVE FieldTyped(codec, g, q[g.name])
  <2>1. g.name \in DOMAIN m
    BY <1>2, <1>3, <1>4
  <2>2. CASE g.name = f.name
    <3>1. g = f
      BY <1>2, <2>2
    <3>2. q[g.name] = v
      BY <1>5, <2>1, <2>2
    <3>3. QED
      BY <3>1, <3>2
  <2>3. CASE g.name # f.name
    <3>1. q[g.name] = m[g.name]
      BY <1>5, <2>1, <2>3
    <3>2. QED
      BY <3>1 DEF Typed
  <2>4. QED
    BY <2>2, <2>3
<1>8. Typed(codec, t, q)
  BY <1>6, <1>7, <1>w DEF Typed
<1>9. QED
  BY <1>8 DEF q

-----------------------------------------------------------------------------
(* The path of a message.                                                  *)

SenderCodec == Codec(package, sender)

\* The message of the sender, as long as it fills it and after.
DraftInv ==
    /\ type \in DOMAIN Pulsar(package).types
    /\ sender \in {"client", "node"}
    /\ sender = "node" => type \in DOMAIN Pb(package).types
    /\ Typed(SenderCodec, type, draft)

WireInv ==
    /\ wire # Nil => wire \in Seq(Byte)
    /\ wire # Nil /\ source = "sender" => wire = Marshal(SenderCodec, type, draft)

GotInv ==
    got # Nil =>
        /\ wire # Nil
        /\ got = [r \in Readers(package, type) |-> Unmarshal(Codec(package, r), type, wire)]

PathInv == DraftInv /\ WireInv /\ GotInv

\* The codec of the sender is sound and has the type of the message.
LEMMA SenderSound ==
  ASSUME DraftInv
  PROVE  Sound(SenderCodec, Leaves(package)) /\ type \in DOMAIN SenderCodec.types
<1>1. SenderCodec = Pulsar(package) \/ (sender = "node" /\ SenderCodec = Pb(package))
  BY DEF DraftInv, SenderCodec, Codec
<1>2. Sound(Pulsar(package), Leaves(package)) /\ Sound(Pb(package), Leaves(package))
  BY CodecsSound
<1>3. CASE SenderCodec = Pulsar(package)
  BY <1>2, <1>3 DEF DraftInv
<1>4. CASE sender = "node" /\ SenderCodec = Pb(package)
  BY <1>2, <1>4 DEF DraftInv
<1>5. QED
  BY <1>1, <1>3, <1>4

\* The bytes of a message are bytes.
LEMMA MarshalBytes ==
  ASSUME NEW codec, NEW leaves, Sound(codec, leaves), NEW t \in DOMAIN codec.types,
         NEW m, Typed(codec, t, m)
  PROVE  Marshal(codec, t, m) \in Seq(Byte)
BY MarshalFits

\* What the node sends has a gogoproto version.
LEMMA NodeTypesKnown ==
  ASSUME NEW p, NEW t \in DOMAIN Pulsar(p).types, t \in NodeTypes
  PROVE  t \in DOMAIN Pb(p).types
<1>1. t # "Module"
  BY DEF NodeTypes
<1>2. CASE p = "tokenfactory"
  <2>1. Pb(p).types = PbT!Types /\ Pulsar(p).types = PulsarT!Types
    BY <1>2 DEF Pb, Pulsar
  <2>2. QED
    BY <1>1, <2>1, TypeNames
<1>3. CASE p # "tokenfactory"
  <2>1. Pb(p).types = PbM!Types /\ Pulsar(p).types = PulsarM!Types
    BY <1>3 DEF Pb, Pulsar
  <2>2. QED
    BY <1>1, <2>1, TypeNames
<1>4. QED
  BY <1>2, <1>3

\* The path begins with a new message, nothing sent and nothing read.
LEMMA PathStart == Init => PathInv
<1> SUFFICES ASSUME Init PROVE PathInv
  OBVIOUS
<1>1. type \in DOMAIN Pulsar(package).types
  BY DEF Init
<1>2. sender \in {"client", "node"} /\ (sender = "node" => type \in NodeTypes)
  BY DEF Init
<1>3. sender = "node" => type \in DOMAIN Pb(package).types
  BY <1>1, <1>2, NodeTypesKnown
<1>4. draft = New(SenderCodec, type)
  BY DEF Init, SenderCodec
<1>5. Typed(SenderCodec, type, draft)
  <2>1. Sound(SenderCodec, Leaves(package)) /\ type \in DOMAIN SenderCodec.types
    <3>1. SenderCodec = Pulsar(package) \/ (sender = "node" /\ SenderCodec = Pb(package))
      BY <1>2 DEF SenderCodec, Codec
    <3>2. Sound(Pulsar(package), Leaves(package)) /\ Sound(Pb(package), Leaves(package))
      BY CodecsSound
    <3>3. CASE SenderCodec = Pulsar(package)
      BY <1>1, <3>2, <3>3
    <3>4. CASE sender = "node" /\ SenderCodec = Pb(package)
      BY <1>3, <3>2, <3>4
    <3>5. QED
      BY <3>1, <3>3, <3>4
  <2>2. QED
    BY <1>4, <2>1, NewTyped
<1>6. wire = Nil /\ got = Nil
  BY DEF Init
<1>7. QED
  BY <1>1, <1>2, <1>3, <1>5, <1>6 DEF PathInv, DraftInv, WireInv, GotInv

\* The sender fills its message with anything of the right type.
LEMMA FillStep ==
  ASSUME PathInv, wire = Nil, NEW m, Typed(SenderCodec, type, m), Fill(m)
  PROVE  PathInv'
<1>1. UNCHANGED <<package, type, sender, wire, source, got>> /\ draft' = m
  BY DEF Fill
<1>2. SenderCodec' = SenderCodec
  BY <1>1 DEF SenderCodec
<1>3. DraftInv'
  BY <1>1, <1>2 DEF PathInv, DraftInv
<1>4. got = Nil
  BY DEF PathInv, GotInv
<1>5. QED
  BY <1>1, <1>3, <1>4 DEF PathInv, WireInv, GotInv

\* The bytes arrive as they are or changed; the message stays.
LEMMA WireStep ==
  ASSUME PathInv, got = Nil, UNCHANGED <<package, type, sender, draft, got>>,
         wire' \in Seq(Byte), source' = "sender" => wire' = Marshal(SenderCodec, type, draft)
  PROVE  PathInv'
<1>1. SenderCodec' = SenderCodec
  BY DEF SenderCodec
<1>2. DraftInv'
  BY <1>1 DEF PathInv, DraftInv
<1>3. WireInv'
  BY <1>1 DEF WireInv
<1>4. QED
  BY <1>2, <1>3 DEF PathInv, GotInv

\* Six members of a set.
LEMMA SixMembers ==
  ASSUME NEW S, NEW a \in S, NEW b \in S, NEW c \in S, NEW d \in S, NEW e \in S, NEW h \in S
  PROVE  {a, b, c, d, e, h} \subseteq S
OBVIOUS

\* The contents of arbitrary fields are bytes.
LEMMA ContentBytes ==
  {<<>>, <<1, 97>>, <<127>>, <<128, 128, 1>>, <<255, 255, 127>>, <<128, 128, 128, 1>>}
    \subseteq Seq(Byte)
<1>1. <<>> \in Seq(Byte) /\ <<1, 97>> \in Seq(Byte) /\ <<127>> \in Seq(Byte)
  BY DEF Byte
<1>2. <<128, 128, 1>> \in Seq(Byte)
  BY DEF Byte
<1>3. <<255, 255, 127>> \in Seq(Byte)
  BY DEF Byte
<1>4. <<128, 128, 128, 1>> \in Seq(Byte)
  BY DEF Byte
<1>5. QED
  BY <1>1, <1>2, <1>3, <1>4, SixMembers

\* Fields of later versions and arbitrary fields are bytes.
LEMMA OtherBytes ==
  /\ LaterFields \subseteq Seq(Byte)
  /\ ForeignFields \subseteq Seq(Byte)
<1>1. ASSUME NEW s \in LaterFields PROVE s \in Seq(Byte)
  <2>1. CASE s = <<\h79>> \o [i \in 1 .. 8 |-> 0]
    <3>1. <<\h79>> \in Seq(Byte) /\ [i \in 1 .. 8 |-> 0] \in Seq(Byte)
      BY DEF Byte
    <3>2. QED
      BY <2>1, <3>1
  <2>2. CASE s = <<\h7D>> \o [i \in 1 .. 4 |-> 0]
    <3>1. <<\h7D>> \in Seq(Byte) /\ [i \in 1 .. 4 |-> 0] \in Seq(Byte)
      BY DEF Byte
    <3>2. QED
      BY <2>2, <3>1
  <2>3. CASE s = <<\h78, 1>>
    BY <2>3 DEF Byte
  <2>4. CASE s = <<\h7A, 1, 97>>
    BY <2>4 DEF Byte
  <2>5. CASE s = <<\h7B, \h08, 1, \h7C>>
    BY <2>5 DEF Byte
  <2>6. QED
    BY <2>1, <2>2, <2>3, <2>4, <2>5 DEF LaterFields
<1>2. ASSUME NEW s \in ForeignFields PROVE s \in Seq(Byte)
  <2> DEFINE C == {<<>>, <<1, 97>>, <<127>>, <<128, 128, 1>>, <<255, 255, 127>>,
                   <<128, 128, 128, 1>>}
  <2>1. ASSUME NEW c \in C PROVE c \in Seq(Byte)
    <3> HIDE DEF C
    <3>1. C \subseteq Seq(Byte)
      BY ContentBytes DEF C
    <3>2. QED
      BY <3>1
  <2> DEFINE D == {0, 1, 2, 5, 8, 10}
  <2>2. PICK number \in D, w \in 0 .. 7, c \in C : s = ForeignField(number, w, c)
    BY DEF ForeignFields
  <2>b. \A k \in D : k \in 0 .. 10
    OBVIOUS
  <2> HIDE DEF C, D
  <2>c. 8 * number + w \in Byte
    <3>1. number \in 0 .. 10
      BY <2>b
    <3>2. QED
      BY <3>1 DEF Byte
  <2>3. <<8 * number + w>> \in Seq(Byte) /\ c \in Seq(Byte)
    BY <2>1, <2>c
  <2>4. QED
    BY <2>2, <2>3 DEF ForeignField
<1>3. QED
  BY <1>1, <1>2

\* The life of a record changes nothing of the message and its bytes.
LEMMA SentStays ==
  ASSUME PathInv, UNCHANGED <<package, type, sender, draft, wire, source, got>>
  PROVE  PathInv'
<1>1. SenderCodec' = SenderCodec
  BY DEF SenderCodec
<1>2. QED
  BY <1>1 DEF PathInv, DraftInv, WireInv, GotInv

\* A call of reflection or an assignment.
FillOnce ==
    \/ \E f \in DraftFields :
          \/ \E v \in Values(Codec(package, sender), f) : Set(f, v) \/ Assign(f, v)
          \/ Clear(f)
          \/ Mutable(f)
          \/ AppendMutable(f)
    \/ SetAll
    \/ AssignAll

\* Reflection and assignments keep the message well typed, and happen before it is
\* sent.
LEMMA FillOnceStep ==
  ASSUME PathInv, MayFill, FillOnce
  PROVE  PathInv'
<1> DEFINE C == SenderCodec
           L == Leaves(package)
           Known(m) == Typed(C, type, m)
<1>1. Sound(C, L) /\ type \in DOMAIN C.types /\ Known(draft) /\ sender \in {"client", "node"}
  BY SenderSound DEF PathInv, DraftInv
<1>2. wire = Nil
  BY DEF MayFill
<1>3. (sender = "client" => C = Pulsar(package)) /\ (sender = "node" => C = Pb(package))
  BY DEF SenderCodec, Codec
<1>4. ASSUME NEW m, Known(m), Fill(m) PROVE PathInv'
  BY <1>2, <1>4, FillStep
<1>5. ASSUME NEW f \in Fields(C, type), NEW v, FieldTyped(C, f, v)
      PROVE  Known([draft EXCEPT ![f.name] = v])
  <2>1. Known(Put(draft, f.name, v))
    BY <1>1, <1>5, PutTyped
  <2>2. Put(draft, f.name, v) = [draft EXCEPT ![f.name] = v]
    BY DEF Put
  <2> HIDE DEF Known
  <2>3. QED
    BY <2>1, <2>2
<1> HIDE DEF C, L, Known
<1>6. DraftFields = Fields(C, type) /\ Codec(package, sender) = C
  BY DEF C, SenderCodec, DraftFields
<1>7. ASSUME NEW f \in Fields(C, type)
      PROVE  Block(f, L) /\ FieldTyped(C, f, draft[f.name])
  <2>1. Block(f, L)
    BY <1>1, FieldsAreBlocks
  <2>2. QED
    BY <1>1, <2>1 DEF Known, Typed
<1>8. ASSUME NEW f \in DraftFields, NEW v \in Values(Codec(package, sender), f),
             Set(f, v) \/ Assign(f, v)
      PROVE  PathInv'
  <2>1. FieldTyped(C, f, v)
    BY <1>1, <1>6, <1>7, ValuesTyped
  <2>2. Known([draft EXCEPT ![f.name] = v])
    BY <1>5, <1>6, <2>1
  <2>3. Fill([draft EXCEPT ![f.name] = v])
    BY <1>8 DEF Set, Assign
  <2>4. QED
    BY <1>4, <2>2, <2>3
<1>9. ASSUME NEW f \in DraftFields, Clear(f) PROVE PathInv'
  <2>1. Fill([draft EXCEPT ![f.name] = Zero(C, f)])
    BY <1>3, <1>9 DEF Clear
  <2>2. FieldTyped(C, f, Zero(C, f))
    BY <1>1, <1>6, <1>7, ZeroFieldTyped
  <2>3. Known([draft EXCEPT ![f.name] = Zero(C, f)])
    BY <1>5, <1>6, <2>2
  <2>4. QED
    BY <1>4, <2>1, <2>3
<1>10. ASSUME NEW f \in DraftFields, f.kind \in {"pointer", "list"}
       PROVE  /\ f.sub \in L /\ LeafTyped(C, f.sub, LeafNew(C, f.sub))
              /\ LeavesTyped(C, f.sub, draft[f.name])
              /\ LeavesTyped(C, f.sub, <<LeafNew(C, f.sub)>>)
  <2>1. f.sub \in L
    BY <1>6, <1>7, <1>10 DEF Block, ScalarKinds
  <2>2. LeavesTyped(C, f.sub, draft[f.name])
    BY <1>6, <1>7, <1>10 DEF FieldTyped
  <2>3. QED
    BY <1>1, <2>1, <2>2, LeavesOfField
<1>11. ASSUME NEW f \in DraftFields, Mutable(f) PROVE PathInv'
  <2> DEFINE zero == LeafNew(C, f.sub)
             new == [draft EXCEPT ![f.name] = <<zero>>]
  <2>1. sender = "client" /\ f.kind \in {"pointer", "list"}
    BY <1>11 DEF Mutable
  <2>2. Fill(IF f.kind = "pointer" /\ Len(draft[f.name]) = 0 THEN new ELSE draft)
    BY <1>3, <1>11, <2>1 DEF Mutable
  <2>3. f.kind = "pointer" => Known(new)
    <3>1. SUFFICES ASSUME f.kind = "pointer" PROVE Known(new)
      OBVIOUS
    <3>2. LeavesTyped(C, f.sub, <<zero>>)
      BY <1>10, <2>1
    <3> HIDE DEF zero
    <3>3. Len(<<zero>>) <= 1
      OBVIOUS
    <3>4. FieldTyped(C, f, <<zero>>)
      BY <3>1, <3>2, <3>3, FieldTypes
    <3>5. QED
      BY <1>5, <1>6, <3>4
  <2> HIDE DEF new
  <2>4. CASE f.kind = "pointer" /\ Len(draft[f.name]) = 0
    <3>1. Fill(new)
      BY <2>2, <2>4
    <3>2. QED
      BY <1>4, <2>3, <2>4, <3>1
  <2>5. CASE ~(f.kind = "pointer" /\ Len(draft[f.name]) = 0)
    <3>1. Fill(draft)
      BY <2>2, <2>5
    <3>2. QED
      BY <1>1, <1>4, <3>1
  <2>6. QED
    BY <2>4, <2>5
<1>12. ASSUME NEW f \in DraftFields, AppendMutable(f) PROVE PathInv'
  <2> DEFINE zero == LeafNew(C, f.sub)
             v == Append(draft[f.name], zero)
  <2>1. sender = "client" /\ f.kind = "list"
    BY <1>12 DEF AppendMutable
  <2>2. Fill([draft EXCEPT ![f.name] = v])
    BY <1>3, <1>12, <2>1 DEF AppendMutable
  <2>3. LeafTyped(C, f.sub, zero) /\ LeavesTyped(C, f.sub, draft[f.name])
    BY <1>10, <2>1
  <2> HIDE DEF zero
  <2>4. LeavesTyped(C, f.sub, v)
    BY <2>3, OneMoreLeaf
  <2> HIDE DEF v
  <2>5. FieldTyped(C, f, v)
    BY <2>1, <2>4, FieldTypes
  <2>6. Known([draft EXCEPT ![f.name] = v])
    BY <1>5, <1>6, <2>5
  <2>7. QED
    BY <1>4, <2>2, <2>6
<1>13. Known(Filled(C, type))
  BY <1>1, FilledTyped DEF Known
<1>14. CASE SetAll
  <2>1. Fill(Filled(C, type))
    BY <1>3, <1>14 DEF SetAll
  <2>2. QED
    BY <1>4, <1>13, <2>1
<1>15. CASE AssignAll
  <2>1. Fill(Filled(C, type))
    BY <1>3, <1>15 DEF AssignAll
  <2>2. QED
    BY <1>4, <1>13, <2>1
<1>16. QED
  BY <1>8, <1>9, <1>11, <1>12, <1>14, <1>15 DEF FillOnce

\* The bytes are changed on the way.
ChangeOnce ==
    \/ \E n \in 0 .. Len(wire) - 1 : Cut(n)
    \/ \E m \in {New(Codec(package, sender), type), Filled(Codec(package, sender), type)} :
          Join(m)
    \/ \E bytes \in LaterFields, front \in BOOLEAN : Later(bytes, front)
    \/ \E bytes \in ForeignFields, front \in BOOLEAN : Foreign(bytes, front)

\* Bytes that are changed on the way are not the sender's any more.
LEMMA ChangeOnceStep ==
  ASSUME PathInv, MayChange, ChangeOnce
  PROVE  PathInv'
<1>1. wire # Nil /\ got = Nil /\ wire \in Seq(Byte)
  BY DEF MayChange, OnTheWay, PathInv, WireInv
<1>2. ASSUME NEW how, how # "sender", NEW s \in Seq(Byte), Change(how, s) PROVE PathInv'
  <2>1. /\ UNCHANGED <<package, type, sender, draft, got>>
        /\ source' = how /\ wire' = s
    BY <1>2 DEF Change
  <2>2. wire' \in Seq(Byte) /\ source' # "sender"
    BY <1>2, <2>1
  <2>3. QED
    BY <1>1, <2>1, <2>2, WireStep
<1>3. ASSUME NEW n \in 0 .. Len(wire) - 1, Cut(n) PROVE PathInv'
  <2>1. SubSeq(wire, 1, n) \in Seq(Byte)
    BY <1>1
  <2>2. Change("cut", SubSeq(wire, 1, n))
    BY <1>3 DEF Cut
  <2>3. "cut" # "sender"
    OBVIOUS
  <2>4. QED
    BY <1>2, <2>1, <2>2, <2>3
<1>4. ASSUME NEW m \in {New(Codec(package, sender), type), Filled(Codec(package, sender), type)},
             Join(m)
      PROVE  PathInv'
  <2> DEFINE s == Marshal(SenderCodec, type, m)
  <2>1. Sound(SenderCodec, Leaves(package)) /\ type \in DOMAIN SenderCodec.types
    BY SenderSound DEF PathInv
  <2>2. Typed(SenderCodec, type, m)
    BY <2>1, NewTyped, FilledTyped DEF SenderCodec
  <2>3. s \in Seq(Byte)
    BY <2>1, <2>2, MarshalBytes
  <2>4. Change("joined", wire \o s)
    BY <1>4 DEF Join, SenderCodec
  <2> HIDE DEF s
  <2>5. wire \o s \in Seq(Byte) /\ "joined" # "sender"
    BY <1>1, <2>3
  <2>6. QED
    BY <1>2, <2>4, <2>5
<1>5. ASSUME NEW s \in Seq(Byte), NEW front \in BOOLEAN, Later(s, front) \/ Foreign(s, front)
      PROVE  PathInv'
  <2> DEFINE u == IF front THEN s \o wire ELSE wire \o s
  <2>1. u \in Seq(Byte)
    <3>1. s \o wire \in Seq(Byte) /\ wire \o s \in Seq(Byte)
      BY <1>1
    <3>2. CASE front
      BY <3>1, <3>2
    <3>3. CASE ~front
      BY <3>1, <3>3
    <3>4. QED
      BY <3>2, <3>3
  <2>2. Change("later", u) \/ Change("foreign", u)
    BY <1>5 DEF Later, Foreign
  <2>3. "later" # "sender" /\ "foreign" # "sender"
    OBVIOUS
  <2> HIDE DEF u
  <2>4. QED
    BY <1>2, <2>1, <2>2, <2>3
<1>6. QED
  BY <1>3, <1>4, <1>5, OtherBytes DEF ChangeOnce

\* Every step keeps the invariant of the path.
LEMMA PathStep == PathInv /\ [Next]_vars => PathInv'
<1> SUFFICES ASSUME PathInv, [Next]_vars PROVE PathInv'
  OBVIOUS
<1>1. CASE MayFill /\ FillOnce
  BY <1>1, FillOnceStep
<1>2. CASE Send
  <2>1. /\ wire = Nil /\ wire' = Marshal(SenderCodec, type, draft)
        /\ UNCHANGED <<package, type, sender, draft, source, got>>
    BY <1>2 DEF Send, SenderCodec
  <2>2. got = Nil
    BY <2>1 DEF PathInv, GotInv
  <2>3. wire' \in Seq(Byte)
    BY <2>1, SenderSound, MarshalBytes DEF PathInv, DraftInv
  <2>4. QED
    BY <2>1, <2>2, <2>3, WireStep
<1>3. CASE MayChange /\ ChangeOnce
  BY <1>3, ChangeOnceStep
<1>4. CASE Receive
  <2>1. /\ wire # Nil
        /\ got' = [r \in Readers(package, type) |-> Unmarshal(Codec(package, r), type, wire)]
        /\ UNCHANGED <<package, type, sender, draft, wire, source>>
    BY <1>4 DEF Receive, OnTheWay
  <2>2. SenderCodec' = SenderCodec
    BY <2>1 DEF SenderCodec
  <2>3. DraftInv' /\ WireInv'
    BY <2>1, <2>2 DEF PathInv, DraftInv, WireInv
  <2>4. GotInv'
    BY <2>1 DEF GotInv
  <2>5. QED
    BY <2>3, <2>4 DEF PathInv
<1>5. CASE CreateDenom \/ QueryDenom \/ UpdateParams \/ QueryParams
  <2>1. UNCHANGED <<package, type, sender, draft, wire, source, got>>
    BY <1>5 DEF CreateDenom, QueryDenom, UpdateParams, QueryParams, Store, Answer
  <2>2. QED
    BY <2>1, SentStays
<1>6. CASE UNCHANGED vars
  <2>1. UNCHANGED <<package, type, sender, draft, wire, source, got>>
    BY <1>6 DEF vars
  <2>2. QED
    BY <2>1, SentStays
<1>7. Next => \/ MayFill /\ FillOnce
              \/ Send
              \/ MayChange /\ ChangeOnce
              \/ Receive
              \/ CreateDenom \/ QueryDenom \/ UpdateParams \/ QueryParams
  BY DEF Next, FillOnce, ChangeOnce
<1>8. QED
  BY <1>1, <1>2, <1>3, <1>4, <1>5, <1>6, <1>7

(***************************************************************************)
(* The inductive invariant of the path: the fields of what the sender      *)
(* holds have their Go types, the bytes that it sent are the encoding of   *)
(* this message (other bytes are any bytes), and whoever has read them     *)
(* found what their decoder finds there.                                   *)
(***************************************************************************)
THEOREM PathInvariant == Spec => []PathInv
<1>1. QED
  BY PathStart, PathStep, PTL DEF Spec

\* Both decoders read the bytes that arrived, so they agree.
LEMMA PathInvAgrees == PathInv => DecodersAgree
<1> SUFFICES ASSUME PathInv, got # Nil, "node" \in DOMAIN got
             PROVE  /\ Accepted("client") <=> Accepted("node")
                    /\ Accepted("node") => got["node"].msg = AsStruct(package, type, got["client"].msg)
  BY DEF DecodersAgree
<1>1. got = [r \in Readers(package, type) |-> Unmarshal(Codec(package, r), type, wire)]
  BY DEF PathInv, GotInv
<1>2. wire \in Seq(Int)
  <2>1. wire \in Seq(Byte) /\ Byte \subseteq Int
    BY DEF PathInv, GotInv, WireInv, Byte
  <2>2. QED
    BY <2>1, SeqMonotonic
<1>3. "node" \in Readers(package, type)
  BY <1>1
<1>4. type \in DOMAIN Pb(package).types /\ "client" \in Readers(package, type)
  BY <1>3 DEF Readers
<1> DEFINE a == Unmarshal(Pb(package), type, wire)
           b == Unmarshal(Pulsar(package), type, wire)
<1>5. Agree(package, type, a, b)
  BY <1>2, <1>4, DecodersAlike
<1>6. got["node"] = a /\ got["client"] = b
  BY <1>1, <1>3, <1>4 DEF Codec
<1> HIDE DEF a, b
<1>7. /\ Accepted("node") <=> a.ok
      /\ Accepted("client") <=> b.ok
  BY <1>1, <1>3, <1>4, <1>6 DEF Accepted
<1>8. CASE a = Refused /\ b = Refused
  BY <1>7, <1>8, RefusedFails
<1>9. CASE a.ok = TRUE /\ b.ok = TRUE /\ a.msg = AsStruct(package, type, b.msg)
  BY <1>6, <1>7, <1>9
<1>10. QED
  BY <1>5, <1>8, <1>9 DEF Agree

(***************************************************************************)
(* DecodersAgree in every reachable state: whatever bytes arrive, for      *)
(* words and int32s of any width, strings and packages of any kind, the    *)
(* gogoproto decoder of the handler and the pulsar decoder of the signer   *)
(* lookup both refuse or read the same content.                            *)
(***************************************************************************)
THEOREM DecodersAlwaysAgree == Spec => []DecodersAgree
<1>1. QED
  BY PathInvariant, PathInvAgrees, PTL

\* Multiplication by a power of two.
LEMMA Pow2Sum ==
  ASSUME NEW a \in Nat, NEW b \in Nat
  PROVE  Pow2[a + b] = Pow2[a] * Pow2[b]
<1> DEFINE Good == {n \in Nat : Pow2[a + n] = Pow2[a] * Pow2[n]}
<1>1. 0 \in Good
  <2>1. Pow2[a] \in Nat /\ Pow2[0] = 1 /\ a + 0 = a
    BY Pow2Def, Pow2Positive
  <2>2. QED
    BY <2>1
<1>2. ASSUME NEW n \in Nat, n \in Good PROVE n + 1 \in Good
  <2> DEFINE x == Pow2[a]
             y == Pow2[n]
  <2>1. x \in Nat /\ y \in Nat
    BY Pow2Positive
  <2>2. Pow2[a + n] = x * y
    BY <1>2
  <2>3. a + n \in Nat /\ (a + n) + 1 = a + (n + 1)
    OBVIOUS
  <2>4. Pow2[a + (n + 1)] = 2 * Pow2[a + n] /\ Pow2[n + 1] = 2 * y
    BY <2>3, Pow2Positive
  <2>5. Pow2[a + (n + 1)] = 2 * (x * y)
    BY <2>2, <2>4
  <2> HIDE DEF x, y
  <2>6. 2 * (x * y) = x * (2 * y)
    BY <2>1
  <2>7. Pow2[a + (n + 1)] = x * Pow2[n + 1]
    BY <2>4, <2>5, <2>6
  <2>8. QED
    BY <2>7 DEF x
<1> HIDE DEF Good
<1>3. b \in Good
  BY <1>1, <1>2, NatSetInduction
<1>4. QED
  BY <1>3 DEF Good

\* The sizes of the integer types: there is room for every tag.
LEMMA SizesDivide ==
  /\ \E k \in Nat \ {0} : WordSize = IntSize * k
  /\ \E k \in Nat : IntSize = 256 * k
  /\ IntSize \in Nat /\ WordSize \in Nat /\ IntSize >= 256 /\ WordSize >= IntSize
<1>1. IntBits \in Nat /\ WordBits \in Nat /\ IntBits >= 8 /\ WordBits >= IntBits
  BY WidthAssumption
<1> DEFINE k == Pow2[WordBits - IntBits]
           h == Pow2[IntBits - 8]
<1>2. WordBits - IntBits \in Nat /\ IntBits - 8 \in Nat
  BY <1>1
<1>3. k \in Nat \ {0} /\ h \in Nat \ {0}
  BY <1>2, Pow2Positive
<1>4. IntBits + (WordBits - IntBits) = WordBits /\ 8 + (IntBits - 8) = IntBits
  BY <1>1
<1>5. WordSize = IntSize * k
  BY <1>1, <1>2, <1>4, Pow2Sum DEF WordSize, IntSize
<1>6. IntSize = Pow2[8] * h
  BY <1>2, <1>4, Pow2Sum DEF IntSize
<1>7. Pow2[8] = 256
  <2>1. /\ Pow2[0] = 1 /\ Pow2[0 + 1] = 2 * Pow2[0] /\ Pow2[1 + 1] = 2 * Pow2[1]
        /\ Pow2[2 + 1] = 2 * Pow2[2] /\ Pow2[3 + 1] = 2 * Pow2[3] /\ Pow2[4 + 1] = 2 * Pow2[4]
        /\ Pow2[5 + 1] = 2 * Pow2[5] /\ Pow2[6 + 1] = 2 * Pow2[6] /\ Pow2[7 + 1] = 2 * Pow2[7]
    BY Pow2Def, Pow2Positive
  <2>2. QED
    BY <2>1
<1> HIDE DEF k, h
<1>8. IntSize \in Nat /\ WordSize \in Nat
  BY Sizes
<1>9. IntSize >= 256
  BY <1>3, <1>6, <1>7
<1>10. IntSize * k >= IntSize
  BY <1>3, <1>8
<1>11. QED
  BY <1>3, <1>5, <1>6, <1>7, <1>8, <1>9, <1>10

\* There are at least 256 values of an int32 and of a word, and both numbers are even.
LEMMA SizesLarge ==
  IntSize \in Nat /\ WordSize \in Nat /\ IntSize >= 256 /\ WordSize >= IntSize
BY SizesDivide

\* A small number is its own two's complement.
LEMMA SmallSigned ==
  ASSUME NEW size \in Nat, size >= 2, NEW x \in Nat, x < size \div 2
  PROVE  Signed(x, size) = x
<1>1. size \div 2 \in Nat /\ size \div 2 <= size
  OBVIOUS
<1>2. x % size = x
  BY <1>1
<1>3. QED
  BY <1>1, <1>2 DEF Signed

\* The remainder of a number is what is left when the multiples are taken away.
LEMMA Remainder ==
  ASSUME NEW d \in Nat \ {0}, NEW q \in Int, NEW x \in 0 .. d - 1
  PROVE  (d * q + x) % d = x
<1> DEFINE y == d * q + x
           u == y \div d
           z == y % d
<1>1. y \in Int
  OBVIOUS
<1> HIDE DEF y
<1>2. u \in Int /\ z \in 0 .. d - 1 /\ y = d * u + z
  BY <1>1
<1>3. d * q + x = d * u + z
  BY <1>2 DEF y
<1> HIDE DEF u, z
<1>4. CASE q >= u + 1
  <2>1. d * q >= d * (u + 1)
    BY <1>2, <1>4
  <2>2. d * (u + 1) = d * u + d
    BY <1>2
  <2>3. QED
    BY <1>2, <1>3, <2>1, <2>2
<1>5. CASE u >= q + 1
  <2>1. d * u >= d * (q + 1)
    BY <1>2, <1>5
  <2>2. d * (q + 1) = d * q + d
    OBVIOUS
  <2>3. QED
    BY <1>2, <1>3, <2>1, <2>2
<1>6. CASE q = u
  BY <1>2, <1>3, <1>6 DEF y, z
<1>7. QED
  BY <1>2, <1>4, <1>5, <1>6

\* An int32 comes back from the word that stands for it.
LEMMA IntBack ==
  ASSUME NEW v \in -(IntSize \div 2) .. (IntSize \div 2) - 1
  PROVE  Signed(Word(v), IntSize) = v
<1> DEFINE d == IntSize
           h == d \div 2
<1>1. PICK k \in Nat \ {0} : WordSize = d * k
  BY SizesDivide
<1>2. PICK j \in Nat : d = 256 * j
  BY SizesDivide
<1>3. d \in Nat /\ d >= 256 /\ WordSize \in Nat /\ WordSize >= d
  BY SizesLarge
<1>4. h \in Nat /\ d = 2 * h
  BY <1>2, <1>3
<1>5. v \in Int /\ v >= -h /\ v < h
  <2> HIDE DEF d
  <2>1. v \in -h .. h - 1
    BY DEF d
  <2> HIDE DEF h
  <2>2. QED
    BY <1>4, <2>1
<1> DEFINE W == WordSize
<1> HIDE DEF d, h, W
<1>6. CASE v >= 0
  <2>1. v \in 0 .. W - 1
    BY <1>3, <1>4, <1>5, <1>6 DEF W
  <2>2. (W * 0 + v) % W = v
    BY <1>3, <2>1, Remainder DEF W
  <2>3. Word(v) = v
    BY <1>5, <2>2, <1>3 DEF Word, W
  <2>4. Signed(v, d) = v
    BY <1>3, <1>4, <1>5, <1>6, SmallSigned
  <2>5. QED
    BY <2>3, <2>4 DEF d
<1>7. CASE v < 0
  <2>1. W + v \in 0 .. W - 1
    BY <1>3, <1>4, <1>5, <1>7 DEF W
  <2>2. (W * (-1) + (W + v)) % W = W + v
    BY <1>3, <2>1, Remainder DEF W
  <2>3. W * (-1) + (W + v) = v
    BY <1>3, <1>5 DEF W
  <2>4. Word(v) = W + v
    BY <2>2, <2>3 DEF Word, W
  <2>5. d + v \in 0 .. d - 1 /\ d + v >= h
    BY <1>3, <1>4, <1>5, <1>7
  <2>6. W + v = d * (k - 1) + (d + v)
    BY <1>1, <1>3, <1>5 DEF W
  <2>7. (d * (k - 1) + (d + v)) % d = d + v
    <3> DEFINE q == k - 1
               x == d + v
    <3>1. d \in Nat \ {0} /\ q \in Int /\ x \in 0 .. d - 1
      BY <1>1, <1>3, <2>5
    <3> HIDE DEF q, x
    <3>2. (d * q + x) % d = x
      BY <3>1, Remainder
    <3>3. QED
      BY <3>2 DEF q, x
  <2>8. (W + v) % d = d + v
    BY <2>6, <2>7
  <2>9. Signed(W + v, d) = (d + v) - d
    BY <2>5, <2>8 DEF Signed, h
  <2>10. QED
    BY <1>3, <1>5, <2>4, <2>9 DEF d
<1>8. QED
  BY <1>5, <1>6, <1>7

\* The bytes of a message are numbers.
LEMMA BytesAreInts == Seq(Byte) \subseteq Seq(Int) /\ Byte \subseteq Int
<1>1. Byte \subseteq Int
  BY DEF Byte
<1>2. QED
  BY <1>1, SeqMonotonic

\* What ReadTag makes of the tag of field i.
TagOf(f, i, x) ==
    [ok |-> TRUE, fieldNum |-> i, wireType |-> WireType(f.kind), next |-> x + 1]

\* The tag of a field is read as its number and its wire type.
LEMMA TagReads ==
  ASSUME NEW s \in Seq(Int), NEW x \in Nat, NEW f, NEW i \in 1 .. 9,
         StandsAt(s, x, <<Tag(f, i)>>)
  PROVE  ReadTag(s, x) = TagOf(f, i, x)
<1> DEFINE g == Tag(f, i)
           kind == WireType(f.kind)
           varint == ReadVarint(s, x)
<1>1. g \in 1 .. 127 /\ g \div 8 = i /\ g % 8 = kind
  BY TagByte
<1>a. i \in Int /\ i > 0
  OBVIOUS
<1>2. kind = 0 \/ kind = 2
  BY DEF WireType
<1>3. StandsAt(s, x, <<g>>)
  OBVIOUS
<1> HIDE DEF g, kind
<1>b. g \in Nat /\ g < 128
  BY <1>1
<1>4. EncodeVarint[g] = <<g>>
  BY <1>b, EncodeVarintDef, Zenon
<1>5. g \in 0 .. WordSize - 1
  BY <1>b, SizesLarge
<1>6. varint = [ok |-> TRUE, value |-> g, next |-> x + Sov(g)]
  BY <1>3, <1>4, <1>5, ReadsVarint
<1>7. Sov(g) = 1
  <2>1. Len(EncodeVarint[g]) = 1
    BY <1>4
  <2>2. QED
    BY <1>b, <2>1, SovCounts
<1>8. varint.ok = TRUE /\ varint.value = g /\ varint.next = x + 1
  BY <1>6, <1>7
<1> HIDE DEF varint
<1>9. Signed(i, IntSize) = i
  <2>1. IntSize \in Nat /\ IntSize >= 2 /\ i < IntSize \div 2 /\ i \in Nat
    BY SizesLarge
  <2>2. QED
    BY <2>1, SmallSigned
<1>10. ReadTag(s, x) = IF ~varint.ok \/ varint.value % 8 = 4
                          \/ Signed(varint.value \div 8, IntSize) <= 0 THEN Refused
                       ELSE [ok |-> TRUE, fieldNum |-> Signed(varint.value \div 8, IntSize),
                             wireType |-> varint.value % 8, next |-> varint.next]
  BY DEF ReadTag, TagFrom, varint
<1>11. /\ varint.value % 8 = kind /\ kind # 4
       /\ Signed(varint.value \div 8, IntSize) = i /\ ~ (i <= 0)
  BY <1>1, <1>2, <1>8, <1>9, <1>a
<1>12. ReadTag(s, x) = [ok |-> TRUE, fieldNum |-> i, wireType |-> kind, next |-> x + 1]
  BY <1>8, <1>10, <1>11
<1>13. QED
  BY <1>12 DEF TagOf, kind

\* A length and as many bytes are read back.
LEMMA BlockReads ==
  ASSUME NEW s \in Seq(Int), NEW x \in Nat, NEW c \in Seq(Byte),
         StandsAt(s, x, EncodeVarint[Len(c)] \o c), Len(s) < WordSize \div 2
  PROVE  ReadBlock(s, x) = [ok |-> TRUE, bytes |-> c, next |-> x + Sov(Len(c)) + Len(c)]
<1> DEFINE l == Len(c)
           a == EncodeVarint[l]
           len == ReadVarint(s, x)
           y == x + Sov(l)
           z == y + l
<1>1. l \in Nat /\ a \in Seq(Byte) /\ Len(a) = Sov(l) /\ Sov(l) \in Nat
  BY EncodeVarintDef, SovCounts
<1>2. a \in Seq(Int) /\ c \in Seq(Int)
  BY <1>1, BytesAreInts
<1>3. StandsAt(s, x, a) /\ StandsAt(s, x + Len(a), c)
  <2> HIDE DEF a, l
  <2>1. StandsAt(s, x, a \o c)
    BY DEF a, l
  <2>2. QED
    BY <1>2, <2>1, StandsConcat
<1>4. StandsAt(s, y, c)
  BY <1>1, <1>3
<1>5. y \in Nat /\ z \in Nat /\ z <= Len(s) /\ Len(s) \in Nat
  BY <1>1, <1>4 DEF StandsAt
<1>6. WordSize \in Nat /\ WordSize >= 2
  BY SizesLarge
<1>7. l \in 0 .. WordSize - 1 /\ l < WordSize \div 2 /\ z < WordSize \div 2
  BY <1>1, <1>5, <1>6
<1>8. len = [ok |-> TRUE, value |-> l, next |-> y]
  BY <1>3, <1>7, ReadsVarint
<1>9. len.ok = TRUE /\ len.value = l /\ len.next = y
  BY <1>8
<1>10. Signed(l, WordSize) = l /\ Signed(z, WordSize) = z
  BY <1>1, <1>5, <1>6, <1>7, SmallSigned
<1> HIDE DEF len
<1>11. ReadBlock(s, x) =
         LET size == Signed(len.value, WordSize)
             postIndex == Signed(len.next + size, WordSize)
         IN  IF ~len.ok \/ size < 0 \/ postIndex < 0 \/ postIndex > Len(s) THEN Refused
             ELSE [ok |-> TRUE, bytes |-> SubSeq(s, len.next + 1, postIndex), next |-> postIndex]
  BY DEF ReadBlock, BlockFrom, len
<1>12. Signed(len.value, WordSize) = l /\ Signed(len.next + l, WordSize) = z
  BY <1>9, <1>10
<1>13. ~ (l < 0 \/ z < 0 \/ z > Len(s))
  BY <1>1, <1>5
<1> DEFINE b == SubSeq(s, y + 1, z)
<1>14. ReadBlock(s, x) = [ok |-> TRUE, bytes |-> b, next |-> z]
  <2> HIDE DEF l, y, z
  <2>1. QED
    BY <1>9, <1>11, <1>12, <1>13
<1>15. b = c
  <2>1. \A k \in y + 1 .. z : s[k] \in Int
    BY <1>5
  <2>2. b \in Seq(Int) /\ Len(b) = l /\ \A k \in 1 .. l : b[k] = s[y + k]
    <3>1. y + 1 \in Int /\ z \in Int /\ y + 1 <= z + 1
      BY <1>1, <1>5
    <3> DEFINE from == y + 1
    <3>2. from \in Int /\ z - from + 1 = l /\ \A k \in 1 .. l : from + k - 1 = y + k
      <4> HIDE DEF l, y
      <4>1. from \in Int /\ z - from + 1 = l
        BY <1>5, <1>7
      <4> HIDE DEF z
      <4>2. \A k \in 1 .. l : from + k - 1 = y + k
        BY <1>5, <1>7
      <4>3. QED
        BY <4>1, <4>2
    <3> HIDE DEF from, l, y, z
    <3>3. SubSeq(s, from, z) \in Seq(Int)
      BY <1>5, <2>1, <3>2, SubSeqProperties DEF from
    <3>4. Len(SubSeq(s, from, z)) = l /\ \A k \in 1 .. l : SubSeq(s, from, z)[k] = s[from + k - 1]
      BY <1>1, <1>5, <3>1, <3>2, SubSeqProperties DEF from
    <3>5. QED
      BY <3>2, <3>3, <3>4 DEF from
  <2>3. \A k \in 1 .. l : s[y + k] = c[k]
    BY <1>4 DEF StandsAt
  <2> HIDE DEF b
  <2>4. QED
    BY <1>2, <2>2, <2>3, SeqEqual
<1>16. QED
  BY <1>14, <1>15

\* A message is short enough for the lengths inside it to be positive.
Short(s) == Len(s) < WordSize \div 2

\* The bytes of one field and its tag, at x.
Tagged(tag, c) == <<tag>> \o c

\* A byte and what follows stand in s: so does the byte, and the rest behind it.
LEMMA FirstByte ==
  ASSUME NEW s \in Seq(Int), NEW x \in Nat, NEW tag \in Byte, NEW c \in Seq(Byte),
         StandsAt(s, x, Tagged(tag, c))
  PROVE  /\ StandsAt(s, x, <<tag>>) /\ StandsAt(s, x + 1, c)
         /\ Len(Tagged(tag, c)) = 1 + Len(c)
<1> DEFINE one == <<tag>>
<1>1. one \in Seq(Int) /\ Len(one) = 1
  <2>1. tag \in Int
    BY DEF Byte
  <2>2. QED
    BY <2>1
<1>2. c \in Seq(Int)
  BY BytesAreInts
<1> HIDE DEF one
<1>3. StandsAt(s, x, one \o c)
  BY DEF Tagged, one
<1>4. StandsAt(s, x, one) /\ StandsAt(s, x + 1, c)
  BY <1>1, <1>2, <1>3, StandsConcat
<1>5. Len(one \o c) = 1 + Len(c)
  <2>1. Len(one \o c) = Len(one) + Len(c)
    BY <1>1, <1>2, ConcatProperties
  <2>2. QED
    BY <1>1, <2>1
<1>6. QED
  BY <1>4, <1>5 DEF Tagged, one

\* A tag, a length and as many bytes.
DelimitedRead(s, x, tag, c) ==
    /\ StandsAt(s, x, <<tag>>) /\ Len(Delimited(tag, c)) \in Nat \ {0}
    /\ ReadBlock(s, x + 1) =
         [ok |-> TRUE, bytes |-> c, next |-> x + Len(Delimited(tag, c))]

\* A length and as many bytes behind a tag are read back.
LEMMA DelimitedReads ==
  ASSUME NEW s \in Seq(Int), NEW x \in Nat, NEW tag \in Byte, NEW c \in Seq(Byte),
         StandsAt(s, x, Delimited(tag, c)), Short(s)
  PROVE  DelimitedRead(s, x, tag, c)
<1> DEFINE a == EncodeVarint[Len(c)]
<1>1. a \in Seq(Byte) /\ Len(a) = Sov(Len(c)) /\ Sov(Len(c)) \in Nat
  <2>1. Len(c) \in Nat
    OBVIOUS
  <2>2. QED
    BY <2>1, EncodeVarintDef, SovCounts
<1>2. Delimited(tag, c) = (<<tag>> \o a) \o c
  BY DEF Delimited
<1> HIDE DEF a
<1> DEFINE b == a \o c
<1>3. b \in Seq(Byte) /\ Len(b) = Len(a) + Len(c)
  BY <1>1, ConcatProperties
<1>4. (<<tag>> \o a) \o c = Tagged(tag, b)
  <2>1. <<tag>> \in Seq(Byte)
    OBVIOUS
  <2>2. QED
    BY <1>1, <2>1, ConcatAssociative DEF Tagged
<1> HIDE DEF b
<1>a. StandsAt(s, x, Tagged(tag, b))
  BY <1>2, <1>4, Zenon
<1>5. StandsAt(s, x, <<tag>>) /\ StandsAt(s, x + 1, b) /\ Len(Tagged(tag, b)) = 1 + Len(b)
  BY <1>3, <1>a, FirstByte
<1>6. ReadBlock(s, x + 1)
        = [ok |-> TRUE, bytes |-> c, next |-> (x + 1) + Sov(Len(c)) + Len(c)]
  <2>1. StandsAt(s, x + 1, EncodeVarint[Len(c)] \o c)
    BY <1>5 DEF a, b
  <2>2. x + 1 \in Nat
    OBVIOUS
  <2>3. QED
    BY <2>1, <2>2, BlockReads DEF Short
<1>7. (x + 1) + Sov(Len(c)) + Len(c) = x + Len(Delimited(tag, c))
  <2> DEFINE n == Len(Delimited(tag, c))
  <2>1. n = 1 + Len(b)
    BY <1>2, <1>4, <1>5, Zenon
  <2> HIDE DEF n
  <2>2. QED
    BY <1>1, <1>3, <2>1 DEF n
<1>8. Len(Delimited(tag, c)) \in Nat \ {0}
  <2> DEFINE n == Len(Delimited(tag, c))
  <2>1. n = 1 + Len(b)
    BY <1>2, <1>4, <1>5, Zenon
  <2>2. Len(b) \in Nat
    BY <1>3
  <2> HIDE DEF n
  <2>3. n \in Nat \ {0}
    BY <2>1, <2>2
  <2>4. QED
    BY <2>3 DEF n
<1>9. QED
  BY <1>5, <1>6, <1>7, <1>8 DEF DelimitedRead

\* A number behind its tag.
NumberRead(s, x, tag, w) ==
    /\ StandsAt(s, x, <<tag>>) /\ Len(Tagged(tag, EncodeVarint[w])) \in Nat \ {0}
    /\ ReadVarint(s, x + 1) =
         [ok |-> TRUE, value |-> w, next |-> x + Len(Tagged(tag, EncodeVarint[w]))]

\* A number behind a tag is read back.
LEMMA NumberReads ==
  ASSUME NEW s \in Seq(Int), NEW x \in Nat, NEW tag \in Byte, NEW w \in 0 .. WordSize - 1,
         StandsAt(s, x, Tagged(tag, EncodeVarint[w]))
  PROVE  NumberRead(s, x, tag, w)
<1> DEFINE a == EncodeVarint[w]
<1>1. w \in Nat /\ a \in Seq(Byte) /\ Len(a) = Sov(w) /\ Sov(w) \in Nat
  <2>1. w \in Nat
    OBVIOUS
  <2>2. QED
    BY <2>1, EncodeVarintDef, SovCounts
<1> HIDE DEF a
<1>2. StandsAt(s, x, Tagged(tag, a))
  BY DEF a
<1>3. StandsAt(s, x, <<tag>>) /\ StandsAt(s, x + 1, a) /\ Len(Tagged(tag, a)) = 1 + Len(a)
  BY <1>1, <1>2, FirstByte
<1>4. ReadVarint(s, x + 1) = [ok |-> TRUE, value |-> w, next |-> (x + 1) + Sov(w)]
  <2>1. x + 1 \in Nat /\ StandsAt(s, x + 1, EncodeVarint[w])
    BY <1>3 DEF a
  <2>2. QED
    BY <2>1, ReadsVarint
<1>5. (x + 1) + Sov(w) = x + Len(Tagged(tag, a))
  <2> DEFINE n == Len(Tagged(tag, a))
  <2>1. n = 1 + Len(a)
    BY <1>3
  <2> HIDE DEF n
  <2>2. QED
    BY <1>1, <2>1 DEF n
<1>6. Len(Tagged(tag, a)) \in Nat \ {0}
  BY <1>1, <1>3
<1>7. QED
  BY <1>3, <1>4, <1>5, <1>6 DEF NumberRead, a

\* Two bytes, one after the other.
LEMMA TwoBytes ==
  ASSUME NEW tag \in Byte
  PROVE  <<tag>> \o <<1>> = <<tag, 1>>
<1> DEFINE a == <<tag>>
           b == <<1>>
           c == <<tag, 1>>
           d == a \o b
<1>1. a \in Seq(Byte) /\ Len(a) = 1 /\ a[1] = tag
  OBVIOUS
<1>2. b \in Seq(Byte) /\ Len(b) = 1 /\ b[1] = 1
  BY DEF Byte
<1>3. c \in Seq(Byte) /\ Len(c) = 2 /\ c[1] = tag /\ c[2] = 1
  BY DEF Byte
<1> HIDE DEF a, b, c
<1>4. d \in Seq(Byte) /\ Len(d) = 2 /\ d[1] = tag /\ d[2] = 1
  BY <1>1, <1>2, ConcatProperties
<1> HIDE DEF d
<1>5. d = c
  <2>1. \A i \in 1 .. 2 : d[i] = c[i]
    BY <1>3, <1>4
  <2>2. QED
    BY <1>3, <1>4, <2>1, SeqEqual
<1>6. QED
  BY <1>5 DEF a, b, c, d

\* The case of a field that is no message gives its value back.
ScalarTaken(f, i, s, x, v) ==
    /\ StandsAt(s, x, <<Tag(f, i)>>) /\ Len(ScalarBytes(At(Tag(f, i), f), v)) \in Nat \ {0}
    /\ ReadScalar(f, WireType(f.kind), s, x + 1) =
         [ok |-> TRUE, next |-> x + Len(ScalarBytes(At(Tag(f, i), f), v)), value |-> v]

\* The value of a field for the number that was read.
NumberOf(f, w) ==
    CASE f.kind = "int32" -> Signed(w, IntSize)
      [] f.kind = "uint64" -> w
      [] f.kind = "bool" -> w # 0

\* A field that is no message, and is present, is read back.
LEMMA ScalarReads ==
  ASSUME NEW f, f.kind \in ScalarKinds, NEW v, ScalarTyped(f, v), Present(f, v),
         NEW i \in 1 .. 9, NEW s \in Seq(Int), NEW x \in Nat,
         StandsAt(s, x, ScalarBytes(At(Tag(f, i), f), v)), Short(s)
  PROVE  ScalarTaken(f, i, s, x, v)
<1> DEFINE tag == Tag(f, i)
           a == At(tag, f)
           k == f.kind
           c == ScalarBytes(a, v)
           read == ReadScalar(f, WireType(k), s, x + 1)
           varint == ReadVarint(s, x + 1)
           block == ReadBlock(s, x + 1)
<1>1. tag \in Byte
  BY TagByte
<1>2. a.kind = k /\ a.tag = tag
  BY DEF At
<1>3. Present(a, v)
  BY <1>2 DEF Present
<1>4. StandsAt(s, x, c)
  OBVIOUS
<1> HIDE DEF tag, a
<1>5. c = CASE k \in {"string", "bytes"} -> Delimited(tag, v)
            [] k \in {"int32", "uint64"} -> <<tag>> \o EncodeVarint[Word(v)]
            [] k = "bool" -> <<tag, 1>>
  BY <1>2, <1>3 DEF ScalarBytes
<1>6. read = IF k \in {"string", "bytes"}
             THEN IF WireType(k) # 2 \/ ~block.ok THEN Refused
                  ELSE [ok |-> TRUE, next |-> block.next, value |-> block.bytes]
             ELSE IF WireType(k) # 0 \/ ~varint.ok THEN Refused
                  ELSE [ok |-> TRUE, next |-> varint.next,
                        value |-> NumberOf(f, varint.value)]
  BY DEF ReadScalar, BytesCase, NumberCase, NumberOf
<1> DEFINE Done == StandsAt(s, x, <<tag>>) /\ Len(c) \in Nat \ {0}
                   /\ read = [ok |-> TRUE, next |-> x + Len(c), value |-> v]
<1>7. ASSUME k \in {"string", "bytes"} PROVE Done
  <2>1. c = Delimited(tag, v) /\ WireType(k) = 2 /\ v \in Seq(Byte)
    BY <1>5, <1>7 DEF WireType, ScalarTyped
  <2> HIDE DEF c
  <2>2. DelimitedRead(s, x, tag, v)
    BY <1>1, <1>4, <2>1, DelimitedReads
  <2>3. /\ StandsAt(s, x, <<tag>>) /\ Len(c) \in Nat \ {0}
        /\ block = [ok |-> TRUE, bytes |-> v, next |-> x + Len(c)]
    BY <2>1, <2>2 DEF DelimitedRead
  <2>4. block.ok = TRUE /\ block.bytes = v /\ block.next = x + Len(c)
    BY <2>3
  <2>5. read = [ok |-> TRUE, next |-> block.next, value |-> block.bytes]
    BY <1>6, <1>7, <2>1, <2>4
  <2>6. QED
    BY <2>3, <2>4, <2>5
<1>8. ASSUME k \in {"int32", "uint64", "bool"}, NEW w \in 0 .. WordSize - 1,
             c = Tagged(tag, EncodeVarint[w]),
             v = NumberOf(f, w)
      PROVE  Done
  <2>1. WireType(k) = 0 /\ k \notin {"string", "bytes"}
    BY <1>8 DEF WireType
  <2> HIDE DEF c
  <2>2. NumberRead(s, x, tag, w)
    BY <1>1, <1>4, <1>8, NumberReads
  <2>3. /\ StandsAt(s, x, <<tag>>) /\ Len(c) \in Nat \ {0}
        /\ varint = [ok |-> TRUE, value |-> w, next |-> x + Len(c)]
    BY <1>8, <2>2 DEF NumberRead
  <2>4. varint.ok = TRUE /\ varint.value = w /\ varint.next = x + Len(c)
    BY <2>3
  <2> HIDE DEF read, varint, block
  <2>5. read = [ok |-> TRUE, next |-> varint.next,
                value |-> NumberOf(f, varint.value)]
    BY <1>6, <2>1, <2>4
  <2>6. read = [ok |-> TRUE, next |-> x + Len(c),
                value |-> NumberOf(f, w)]
    BY <2>4, <2>5
  <2>7. QED
    BY <1>8, <2>3, <2>6
<1>9. ASSUME k \in {"int32", "uint64"} PROVE Done
  <2> DEFINE w == Word(v)
  <2>1. v \in Int
    BY <1>9, SizesLarge DEF ScalarTyped
  <2>2. w \in 0 .. WordSize - 1
    BY <2>1, WordOfInt
  <2>3. c = Tagged(tag, EncodeVarint[w])
    BY <1>5, <1>9 DEF Tagged
  <2>4. k = "int32" => v = Signed(w, IntSize)
    BY IntBack DEF ScalarTyped
  <2>5. k = "uint64" => v = w
    <3>1. ASSUME v \in 0 .. WordSize - 1 PROVE v = Word(v)
      <4>1. WordSize \in Nat \ {0}
        BY SizesLarge
      <4>2. QED
        BY <3>1, <4>1 DEF Word
    <3>2. k = "uint64" => v \in 0 .. WordSize - 1
      BY DEF ScalarTyped
    <3>3. QED
      BY <3>1, <3>2
  <2> HIDE DEF w, c, Done
  <2>6. v = NumberOf(f, w)
    BY <1>9, <2>4, <2>5 DEF NumberOf
  <2>7. QED
    BY <1>8, <1>9, <2>2, <2>3, <2>6
<1>10. ASSUME k = "bool" PROVE Done
  <2>1. v = TRUE
    BY <1>3, <1>2, <1>10 DEF Present, ScalarTyped
  <2>2. 1 \in 0 .. WordSize - 1
    BY SizesLarge
  <2>3. EncodeVarint[1] = <<1>>
    BY EncodeVarintDef
  <2>4. c = <<tag, 1>>
    BY <1>5, <1>10
  <2>5. Tagged(tag, EncodeVarint[1]) = <<tag, 1>>
    BY <1>1, <2>3, TwoBytes DEF Tagged
  <2> HIDE DEF c, Done
  <2>6. v = NumberOf(f, 1)
    <3>1. NumberOf(f, 1) = (1 # 0)
      BY <1>10 DEF NumberOf
    <3>2. (1 # 0) = TRUE
      OBVIOUS
    <3>3. NumberOf(f, 1) = TRUE
      BY <3>1, <3>2
    <3>4. QED
      BY <2>1, <3>3
  <2>7. QED
    BY <1>8, <1>10, <2>2, <2>4, <2>5, <2>6
<1>11. Done
  <2> HIDE DEF Done
  <2>1. QED
    BY <1>7, <1>9, <1>10 DEF ScalarKinds
<1>12. QED
  BY <1>11 DEF ScalarTaken, Done, tag, a

\* A field that is not written has its zero value.
LEMMA ScalarAbsent ==
  ASSUME NEW f, f.kind \in ScalarKinds, NEW v, ScalarTyped(f, v), ~Present(f, v), NEW tag
  PROVE  v = ZeroValue(f) /\ ScalarBytes(At(tag, f), v) = <<>>
<1>1. ScalarBytes(At(tag, f), v) = <<>>
  <2>1. ~Present(At(tag, f), v)
    BY DEF Present, At
  <2>2. QED
    BY <2>1 DEF ScalarBytes
<1>2. CASE f.kind \in {"string", "bytes"}
  <2>1. v \in Seq(Byte) /\ ~(Len(v) > 0)
    BY <1>2 DEF ScalarTyped, Present
  <2>2. v = <<>>
    BY <2>1
  <2>3. ZeroValue(f) = <<>>
    BY <1>2 DEF ZeroValue
  <2>4. QED
    BY <1>1, <2>2, <2>3
<1>3. CASE f.kind \in {"int32", "uint64"}
  <2>1. v = 0
    BY <1>3 DEF Present
  <2>2. QED
    BY <1>1, <1>3, <2>1 DEF ZeroValue
<1>4. CASE f.kind = "bool"
  <2>1. v = FALSE
    BY <1>4 DEF ScalarTyped, Present
  <2>2. QED
    BY <1>1, <1>4, <2>1 DEF ZeroValue
<1>5. QED
  BY <1>2, <1>3, <1>4 DEF ScalarKinds

(***************************************************************************)
(* A message is read back block by block.                                  *)
(***************************************************************************)

\* Where block i begins.
Place(w, i) == Len(w[1]) - Len(w[i])

\* Block i stands where it begins, and the next one behind it.
BlockStands(w, i, c) ==
    /\ Place(w, i) \in Nat /\ StandsAt(w[1], Place(w, i), c)
    /\ Place(w, i + 1) = Place(w, i) + Len(c)

\* Where blocks were laid one after the other, every one of them stands behind the ones
\* before it.
LEMMA LaidStands ==
  ASSUME NEW n \in Nat, NEW b, NEW w, Laid(w, n, b), \A i \in 1 .. n : b[i] \in Seq(Byte)
  PROVE  /\ Place(w, 1) = 0 /\ Place(w, n + 1) = Len(w[1]) /\ w[1] \in Seq(Int)
         /\ \A i \in 1 .. n : BlockStands(w, i, b[i])
<1> DEFINE s == w[1]
           Good == {k \in Nat : k + 1 \in 1 .. n + 1 =>
                      /\ Place(w, k + 1) \in Nat
                      /\ StandsAt(s, Place(w, k + 1), w[k + 1])}
<1>1. /\ w \in [1 .. n + 1 -> Seq(Byte)] /\ w[n + 1] = <<>>
      /\ \A i \in 1 .. n : w[i] = b[i] \o w[i + 1]
  BY DEF Laid
<1>2. \A i \in 1 .. n + 1 : w[i] \in Seq(Int) /\ Len(w[i]) \in Nat
  BY <1>1, BytesAreInts
<1>3. s \in Seq(Int) /\ Len(s) \in Nat
  BY <1>2
<1> HIDE DEF s
<1>4. Place(w, 1) = 0 /\ Place(w, n + 1) = Len(s)
  BY <1>1, <1>3 DEF Place, s
<1>5. ASSUME NEW i \in 1 .. n, Place(w, i) \in Nat, StandsAt(s, Place(w, i), w[i])
      PROVE  /\ StandsAt(s, Place(w, i), b[i]) /\ Place(w, i + 1) = Place(w, i) + Len(b[i])
             /\ StandsAt(s, Place(w, i + 1), w[i + 1])
  <2> DEFINE x == Place(w, i)
             h == b[i]
             z == w[i + 1]
  <2>1. h \in Seq(Int) /\ z \in Seq(Int) /\ Len(h) \in Nat /\ Len(z) \in Nat
    BY <1>2, BytesAreInts
  <2>2. w[i] = h \o z
    BY <1>1
  <2>3. x = Len(s) - Len(w[i]) /\ Place(w, i + 1) = Len(s) - Len(z)
    BY DEF Place, s
  <2>4. x \in Nat /\ StandsAt(s, x, h \o z)
    BY <1>5, <2>2
  <2> HIDE DEF x, h, z
  <2>5. Len(w[i]) = Len(h) + Len(z)
    BY <2>1, <2>2, ConcatProperties
  <2>6. Place(w, i + 1) = x + Len(h)
    BY <1>3, <2>1, <2>3, <2>5
  <2>7. StandsAt(s, x, h) /\ StandsAt(s, x + Len(h), z)
    BY <1>3, <2>1, <2>4, StandsConcat
  <2>8. QED
    BY <2>6, <2>7 DEF x, h, z
<1>6. 0 \in Good
  <2>1. StandsAt(s, 0, w[1])
    BY <1>3 DEF StandsAt, s
  <2>2. QED
    BY <1>4, <2>1
<1>7. ASSUME NEW k \in Nat, k \in Good PROVE k + 1 \in Good
  <2>1. SUFFICES ASSUME (k + 1) + 1 \in 1 .. n + 1
                 PROVE  /\ Place(w, (k + 1) + 1) \in Nat
                        /\ StandsAt(s, Place(w, (k + 1) + 1), w[(k + 1) + 1])
    OBVIOUS
  <2>2. k + 1 \in 1 .. n /\ k + 1 \in 1 .. n + 1
    BY <2>1
  <2>3. Place(w, k + 1) \in Nat /\ StandsAt(s, Place(w, k + 1), w[k + 1])
    BY <1>7, <2>2
  <2>4. /\ Place(w, (k + 1) + 1) = Place(w, k + 1) + Len(b[k + 1])
        /\ StandsAt(s, Place(w, (k + 1) + 1), w[(k + 1) + 1])
    BY <1>5, <2>2, <2>3
  <2>5. Len(b[k + 1]) \in Nat
    BY <2>2
  <2>6. QED
    BY <2>3, <2>4, <2>5
<1> HIDE DEF Good
<1>8. \A k \in Nat : k \in Good
  BY <1>6, <1>7, NatSetInduction
<1>9. ASSUME NEW i \in 1 .. n PROVE BlockStands(w, i, b[i])
  <2>1. i - 1 \in Nat /\ (i - 1) + 1 = i /\ i \in 1 .. n + 1
    OBVIOUS
  <2>2. Place(w, i) \in Nat /\ StandsAt(s, Place(w, i), w[i])
    BY <1>8, <2>1 DEF Good
  <2>3. QED
    BY <1>5, <2>2 DEF BlockStands, s
<1>10. QED
  BY <1>3, <1>4, <1>9 DEF s

\* The state of a loop that has read as far as y and has the message m.
Stand(y, m) == [ok |-> TRUE, next |-> y, msg |-> m]

\* Within the first y rounds the loop r has read as far as y.
Reached(r, y, m) == \E k \in 0 .. y : r[k] = Stand(y, m)

\* Block after block, the message is q[1], q[2], and so on.
Walked(r, w, q, i) == Reached(r, Place(w, i), q[i])

\* A walk that gets from every block to the next one gets to the end.
LEMMA WalkToEnd ==
  ASSUME NEW n \in Nat, NEW r, NEW w, NEW q, Walked(r, w, q, 1),
         \A i \in 1 .. n : Walked(r, w, q, i) => Walked(r, w, q, i + 1)
  PROVE  Walked(r, w, q, n + 1)
<1> DEFINE Good == {k \in Nat : k + 1 \in 1 .. n + 1 => Walked(r, w, q, k + 1)}
<1>1. 0 \in Good
  OBVIOUS
<1>2. ASSUME NEW k \in Nat, k \in Good PROVE k + 1 \in Good
  <2>1. SUFFICES ASSUME (k + 1) + 1 \in 1 .. n + 1 PROVE Walked(r, w, q, (k + 1) + 1)
    OBVIOUS
  <2>2. k + 1 \in 1 .. n /\ k + 1 \in 1 .. n + 1
    BY <2>1
  <2>3. QED
    BY <1>2, <2>2
<1> HIDE DEF Good
<1>3. n \in Good
  BY <1>1, <1>2, NatSetInduction
<1>4. QED
  BY <1>3 DEF Good

\* A loop that has ended stays where it is.
Stays(r, s) == \A k \in 0 .. Len(s) - 1 : Ended(s, r[k]) => r[k + 1] = r[k]

\* A loop that has read everything keeps what it has read.
LEMMA EndStays ==
  ASSUME NEW s \in Seq(Int), NEW r, Stays(r, s), NEW m, Reached(r, Len(s), m)
  PROVE  r[Len(s)] = Stand(Len(s), m)
<1> DEFINE l == Len(s)
<1>1. l \in Nat
  OBVIOUS
<1>2. PICK k \in 0 .. l : r[k] = Stand(l, m)
  BY DEF Reached
<1>3. Ended(s, Stand(l, m))
  BY DEF Ended, Stand
<1> HIDE DEF l
<1> DEFINE Good == {n \in Nat : k + n \in 0 .. l => r[k + n] = Stand(l, m)}
<1>4. 0 \in Good
  BY <1>1, <1>2
<1>5. ASSUME NEW n \in Nat, n \in Good PROVE n + 1 \in Good
  <2>1. SUFFICES ASSUME k + (n + 1) \in 0 .. l PROVE r[k + (n + 1)] = Stand(l, m)
    OBVIOUS
  <2>2. k + n \in 0 .. l - 1 /\ k + n \in 0 .. l /\ k + (n + 1) = (k + n) + 1
    BY <1>1, <2>1
  <2>3. r[k + n] = Stand(l, m)
    BY <1>5, <2>2
  <2>4. r[(k + n) + 1] = r[k + n]
    BY <1>3, <2>2, <2>3 DEF Stays, l
  <2>5. QED
    BY <2>2, <2>3, <2>4
<1> HIDE DEF Good
<1>6. \A n \in Nat : n \in Good
  BY <1>4, <1>5, NatSetInduction
<1>7. l - k \in Nat /\ k + (l - k) = l /\ k + (l - k) \in 0 .. l
  BY <1>1
<1>8. r[k + (l - k)] = Stand(l, m)
  BY <1>6, <1>7 DEF Good
<1>9. QED
  BY <1>7, <1>8 DEF l

\* The fields of a type, by their numbers.
FieldAt(codec, t, i) == codec.types[t].struct[i]

NameAt(codec, t, i) == FieldAt(codec, t, i).name

Count(codec, t) == Len(codec.types[t].struct)

CodedAs(codec, t, subs) == Coded(codec.types[t], subs)

\* The message when the blocks before block i of m have been read into z.
Partial(codec, t, m, z, i) ==
    [x \in AllNames(codec, t) |->
        IF \E j \in 1 .. i - 1 : codec.types[t].struct[j].name = x THEN m[x] ELSE z[x]]

\* A message without fields that it does not know.
AllKnown(codec, t, m) == Whole(codec, t, m) /\ Unknown(codec, m) = <<>>

\* Before the first block the message is z, after the last one it is m.
LEMMA PartialEnds ==
  ASSUME NEW codec, NEW t, NEW subs, NEW m, NEW z, CodedAs(codec, t, subs),
         AllKnown(codec, t, m), AllKnown(codec, t, z)
  PROVE  /\ Partial(codec, t, m, z, 1) = z
         /\ Partial(codec, t, m, z, Count(codec, t) + 1) = m
<1> DEFINE fields == codec.types[t].struct
           n == Len(fields)
           A == AllNames(codec, t)
           N == Names(codec, t)
<1>1. /\ n \in Nat /\ \A x \in N : \E j \in 1 .. n : fields[j].name = x
  <2>1. ByName(codec, t)
    BY FieldsByName DEF CodedAs
  <2>2. QED
    BY <2>1 DEF ByName
<1>2. m = [x \in A |-> m[x]] /\ z = [x \in A |-> z[x]]
  BY DEF AllKnown, Whole
<1>3. \A x \in A : x \notin N => m[x] = z[x]
  BY DEF AllKnown, AllNames, Unknown
<1> HIDE DEF A, N, n, fields
<1>4. Partial(codec, t, m, z, 1) = [x \in A |-> z[x]]
  <2>1. \A j : j \notin 1 .. 1 - 1
    OBVIOUS
  <2>2. QED
    BY <2>1 DEF Partial, A
<1>5. Partial(codec, t, m, z, n + 1) = [x \in A |-> m[x]]
  <2>1. (n + 1) - 1 = n
    BY <1>1
  <2>2. Partial(codec, t, m, z, n + 1)
          = [x \in A |-> IF \E j \in 1 .. n : fields[j].name = x THEN m[x] ELSE z[x]]
    BY <2>1 DEF Partial, A, fields
  <2>3. \A x \in A : (IF \E j \in 1 .. n : fields[j].name = x THEN m[x] ELSE z[x]) = m[x]
    BY <1>1, <1>3
  <2>4. QED
    BY <2>2, <2>3
<1>6. QED
  BY <1>2, <1>4, <1>5 DEF n, fields, Count

\* Block i gives its field the value of m.
PartialStep(codec, t, m, z, i) ==
    LET name == NameAt(codec, t, i)
    IN  /\ Partial(codec, t, m, z, i)[name] = z[name]
        /\ DOMAIN Partial(codec, t, m, z, i) = AllNames(codec, t)
        /\ name \in AllNames(codec, t)
        /\ Partial(codec, t, m, z, i + 1) = Put(Partial(codec, t, m, z, i), name, m[name])
        /\ m[name] = z[name] => Partial(codec, t, m, z, i + 1) = Partial(codec, t, m, z, i)

\* A block changes one field, or none when the field has its value already.
LEMMA PartialNext ==
  ASSUME NEW codec, NEW t, NEW subs, NEW m, NEW z,
         NEW i \in 1 .. Count(codec, t), CodedAs(codec, t, subs)
  PROVE  PartialStep(codec, t, m, z, i)
<1> DEFINE fields == codec.types[t].struct
           n == Len(fields)
           A == AllNames(codec, t)
           name == fields[i].name
           p == Partial(codec, t, m, z, i)
           q == Partial(codec, t, m, z, i + 1)
<1>1. n \in Nat /\ name \in Names(codec, t)
  <2>1. ByName(codec, t)
    BY FieldsByName DEF CodedAs
  <2>2. QED
    BY <2>1 DEF ByName, Count
<1>2. \A j, k \in 1 .. n : fields[j].name = fields[k].name => j = k
  BY DEF CodedAs, Coded
<1>3. name \in A
  BY <1>1 DEF AllNames
<1>a. i \in 1 .. n
  BY DEF Count
<1>4. p = [x \in A |-> IF \E j \in 1 .. i - 1 : fields[j].name = x THEN m[x] ELSE z[x]]
  BY DEF Partial
<1>5. q = [x \in A |-> IF \E j \in 1 .. i : fields[j].name = x THEN m[x] ELSE z[x]]
  <2>1. (i + 1) - 1 = i
    BY <1>1, <1>a
  <2>2. QED
    BY <2>1 DEF Partial
<1> HIDE DEF p, q, A, n, fields
<1>6. ~ \E j \in 1 .. i - 1 : fields[j].name = name
  <2>1. SUFFICES ASSUME NEW j \in 1 .. i - 1, fields[j].name = name PROVE FALSE
    OBVIOUS
  <2>2. j \in 1 .. n /\ j # i
    BY <1>1, <1>a
  <2>3. QED
    BY <1>2, <1>a, <2>1, <2>2
<1>7. p[name] = z[name]
  BY <1>3, <1>4, <1>6
<1>8. \A x \in A : q[x] = IF x = name THEN m[name] ELSE p[x]
  <2>1. SUFFICES ASSUME NEW x \in A PROVE q[x] = IF x = name THEN m[name] ELSE p[x]
    OBVIOUS
  <2>2. (\E j \in 1 .. i : fields[j].name = x)
          <=> (\E j \in 1 .. i - 1 : fields[j].name = x) \/ x = name
    <3>1. \A j : j \in 1 .. i <=> j \in 1 .. i - 1 \/ j = i
      BY <1>1, <1>a
    <3>2. QED
      BY <3>1
  <2>3. QED
    BY <1>4, <1>5, <2>2
<1>9. q = Put(p, name, m[name])
  BY <1>3, <1>4, <1>5, <1>8 DEF Put
<1>10. m[name] = z[name] => q = p
  BY <1>4, <1>5, <1>7, <1>8
<1>11. DOMAIN p = A
  BY <1>4
<1>12. QED
  BY <1>3, <1>7, <1>9, <1>10, <1>11 DEF PartialStep, NameAt, FieldAt, p, q, A, fields

\* The tag of field i, and what its case returns.
TagIs(tag, i) == tag.ok = TRUE /\ tag.fieldNum = i

ReadIs(read, y, v) == read = [ok |-> TRUE, next |-> y, value |-> v]

\* The round that reads a field writes its value.
LEMMA RoundTakes ==
  ASSUME NEW codec, NEW t, ByName(codec, t), NEW i \in 1 .. Count(codec, t),
         NEW s \in Seq(Int), NEW x \in Nat, x < Len(s), NEW m, NEW y, NEW v,
         NEW tag, TagIs(tag, i), NEW read, ReadIs(read, y, v)
  PROVE  Round(codec, t, s, Stand(x, m), tag, read)
           = Stand(y, Put(m, NameAt(codec, t, i), v))
<1> DEFINE cases == codec.types[t].unmarshal
           st == Stand(x, m)
<1>1. i \in DOMAIN cases /\ cases[i] = FieldAt(codec, t, i)
  BY DEF ByName, Count, FieldAt
<1>2. st.ok = TRUE /\ st.next = x /\ st.msg = m
  BY DEF Stand
<1>3. ~Ended(s, st)
  BY <1>2 DEF Ended
<1>4. read.ok = TRUE /\ read.next = y /\ read.value = v
  BY DEF ReadIs
<1>t. tag.ok = TRUE /\ tag.fieldNum = i
  BY DEF TagIs
<1> HIDE DEF st, cases
<1>5. Round(codec, t, s, st, tag, read) = Moved(codec, t, s, st, tag, read)
  BY <1>3, RoundMoves
<1>6. Moved(codec, t, s, st, tag, read)
        = [ok |-> TRUE, next |-> read.next,
           msg |-> [st.msg EXCEPT ![cases[tag.fieldNum].name] = read.value]]
  BY <1>1, <1>4, <1>t DEF Moved, cases
<1>7. Moved(codec, t, s, st, tag, read) = Stand(y, Put(m, NameAt(codec, t, i), v))
  BY <1>1, <1>2, <1>4, <1>6, <1>t DEF Put, Stand, NameAt
<1>8. QED
  BY <1>5, <1>7 DEF st

\* A field stands at x, and its case returns v and the place behind it.
LeafCase(f, i, s, x, y, v) ==
    /\ i \in 1 .. 9 /\ StandsAt(s, x, <<Tag(f, i)>>)
    /\ ReadScalar(f, WireType(f.kind), s, x + 1) = [ok |-> TRUE, next |-> y, value |-> v]

MessageCase(codec, f, i, s, x, m, y, v) ==
    /\ i \in 1 .. 9 /\ StandsAt(s, x, <<Tag(f, i)>>)
    /\ CaseRead(codec, f, TagOf(f, i, x), m[f.name], s) = [ok |-> TRUE, next |-> y, value |-> v]

\* Where the tag of a field stands, it is read.
LEMMA TagStands ==
  ASSUME NEW s \in Seq(Int), NEW x \in Nat, NEW f, NEW i \in 1 .. 9,
         StandsAt(s, x, <<Tag(f, i)>>)
  PROVE  /\ x < Len(s) /\ ReadTag(s, x) = TagOf(f, i, x)
         /\ TagOf(f, i, x).ok = TRUE /\ TagOf(f, i, x).fieldNum = i
         /\ TagOf(f, i, x).wireType = WireType(f.kind) /\ TagOf(f, i, x).next = x + 1
<1>1. x < Len(s)
  BY DEF StandsAt
<1>2. ReadTag(s, x) = TagOf(f, i, x)
  BY TagReads
<1>3. QED
  BY <1>1, <1>2 DEF TagOf

\* A round of the loop over a message without messages takes the case of the field that
\* stands there.
LEMMA LeafTakes ==
  ASSUME NEW codec, NEW t, NEW i \in 1 .. Count(codec, t),
         NEW s \in Seq(Int), NEW x \in Nat, NEW m, NEW y, NEW v, ByName(codec, t),
         LeafCase(FieldAt(codec, t, i), i, s, x, y, v)
  PROVE  LeafRound(codec, t, s, Stand(x, m))
           = Stand(y, Put(m, NameAt(codec, t, i), v))
<1> DEFINE f == FieldAt(codec, t, i)
           tag == ReadTag(s, x)
           read == ReadScalar(f, WireType(f.kind), s, x + 1)
<1>1. /\ StandsAt(s, x, <<Tag(f, i)>>) /\ read = [ok |-> TRUE, next |-> y, value |-> v]
  BY DEF LeafCase
<1>2. i \in 1 .. 9
  BY DEF LeafCase
<1>3. /\ x < Len(s) /\ tag.ok = TRUE /\ tag.fieldNum = i
      /\ tag.wireType = WireType(f.kind) /\ tag.next = x + 1
  <2> HIDE DEF f, read
  <2>1. x < Len(s) /\ tag = TagOf(f, i, x)
    BY <1>1, <1>2, TagStands
  <2> HIDE DEF tag
  <2>2. QED
    BY <2>1 DEF TagOf
<1>4. Stand(x, m).next = x
  BY DEF Stand
<1>5. codec.types[t].unmarshal[i] = f
  BY DEF ByName, Count, FieldAt
<1> HIDE DEF f, tag
<1>6. LeafRound(codec, t, s, Stand(x, m)) = Round(codec, t, s, Stand(x, m), tag, read)
  BY <1>3, <1>4, <1>5 DEF LeafRound, tag
<1> HIDE DEF read
<1>7. Round(codec, t, s, Stand(x, m), tag, read)
        = Stand(y, Put(m, NameAt(codec, t, i), v))
  <2>1. TagIs(tag, i) /\ ReadIs(read, y, v)
    BY <1>1, <1>3 DEF TagIs, ReadIs
  <2>2. QED
    BY <1>3, <2>1, RoundTakes
<1>8. QED
  BY <1>6, <1>7

\* A round of the loop takes the case of the field that stands there.
LEMMA MessageTakes ==
  ASSUME NEW codec, NEW t, NEW i \in 1 .. Count(codec, t),
         NEW s \in Seq(Int), NEW x \in Nat, NEW m, NEW y, NEW v, ByName(codec, t),
         MessageCase(codec, FieldAt(codec, t, i), i, s, x, m, y, v)
  PROVE  MessageRound(codec, t, s, Stand(x, m))
           = Stand(y, Put(m, NameAt(codec, t, i), v))
<1> DEFINE f == FieldAt(codec, t, i)
           tag == ReadTag(s, x)
           read == CaseRead(codec, f, tag, m[f.name], s)
<1>1. i \in 1 .. 9 /\ StandsAt(s, x, <<Tag(f, i)>>)
  BY DEF MessageCase
<1>2. x < Len(s) /\ tag = TagOf(f, i, x) /\ tag.ok = TRUE /\ tag.fieldNum = i
  <2> HIDE DEF f, read
  <2>1. x < Len(s) /\ tag = TagOf(f, i, x)
    BY <1>1, TagStands
  <2> HIDE DEF tag
  <2>2. QED
    BY <2>1 DEF TagOf
<1>3. read = [ok |-> TRUE, next |-> y, value |-> v]
  BY <1>2 DEF MessageCase
<1>4. Stand(x, m).next = x /\ Stand(x, m).msg = m
  BY DEF Stand
<1>5. codec.types[t].unmarshal[i] = f
  BY DEF ByName, Count, FieldAt
<1> HIDE DEF f, tag
<1>6. MessageRound(codec, t, s, Stand(x, m)) = Round(codec, t, s, Stand(x, m), tag, read)
  BY <1>2, <1>4, <1>5 DEF MessageRound, CaseRead, tag
<1> HIDE DEF read
<1>7. Round(codec, t, s, Stand(x, m), tag, read)
        = Stand(y, Put(m, NameAt(codec, t, i), v))
  <2>1. TagIs(tag, i) /\ ReadIs(read, y, v)
    BY <1>2, <1>3 DEF TagIs, ReadIs
  <2>2. QED
    BY <1>2, <2>1, RoundTakes
<1>8. QED
  BY <1>6, <1>7

\* One more round, and the loop stands behind the field.
Follows(r, s, x, m, y, q) ==
    \A k \in 0 .. Len(s) - 1 : r[k] = Stand(x, m) => r[k + 1] = Stand(y, q)

\* A loop that is somewhere within as many rounds as bytes gets behind the next field
\* within as many rounds as bytes.
LEMMA OneMore ==
  ASSUME NEW s \in Seq(Int), NEW r, NEW x \in Nat, NEW y \in Nat, x < y, y <= Len(s),
         NEW m, NEW q, Reached(r, x, m), Follows(r, s, x, m, y, q)
  PROVE  Reached(r, y, q)
<1>1. PICK k \in 0 .. x : r[k] = Stand(x, m)
  BY DEF Reached
<1>2. Len(s) \in Nat
  OBVIOUS
<1>3. k \in 0 .. Len(s) - 1 /\ k + 1 \in 0 .. y
  BY <1>1, <1>2
<1>4. r[k + 1] = Stand(y, q)
  BY <1>1, <1>3 DEF Follows
<1>5. QED
  BY <1>3, <1>4 DEF Reached

\* A field of an empty message is zero.
LEMMA LeafNewField ==
  ASSUME NEW codec, NEW t, ByName(codec, t), NEW f \in Fields(codec, t)
  PROVE  LeafNew(codec, t)[f.name] = ZeroValue(f)
<1> DEFINE N == Names(codec, t)
           value == [n \in N |-> ZeroValue(FieldNamed(codec, t, n))]
<1>1. LeafNew(codec, t) = Made(codec, t, value)
  BY DEF LeafNew, Made
<1>2. \A n \in N : value[n] = ZeroValue(FieldNamed(codec, t, n))
  OBVIOUS
<1> HIDE DEF value, N
<1>3. /\ Made(codec, t, value)[f.name] = value[f.name]
      /\ FieldNamed(codec, t, f.name) = f /\ f.name \in N
  BY MadeFields DEF N
<1>4. QED
  BY <1>1, <1>2, <1>3

\* A field of a new message has the zero value of its kind.
LEMMA NewField ==
  ASSUME NEW codec, NEW t, ByName(codec, t), NEW f \in Fields(codec, t)
  PROVE  New(codec, t)[f.name] = Zero(codec, f)
<1> DEFINE N == Names(codec, t)
           value == [n \in N |-> Zero(codec, FieldNamed(codec, t, n))]
<1>1. New(codec, t) = Made(codec, t, value)
  BY DEF New, Made
<1>2. \A n \in N : value[n] = Zero(codec, FieldNamed(codec, t, n))
  OBVIOUS
<1> HIDE DEF value, N
<1>3. /\ Made(codec, t, value)[f.name] = value[f.name]
      /\ FieldNamed(codec, t, f.name) = f /\ f.name \in N
  BY MadeFields DEF N
<1>4. QED
  BY <1>1, <1>2, <1>3

(***************************************************************************)
(* A message without messages is read back as it was written.              *)
(***************************************************************************)
LeafReadBack(codec, t, m) ==
    LET s == LeafWritten(codec, t, m)
    IN  LeafUnmarshal(codec, t, LeafNew(codec, t), s) = Stand(Len(s), m)

\* A message without messages is read back from what was written.
LEMMA LeafReads ==
  ASSUME NEW codec, NEW leaves, Sound(codec, leaves), NEW t \in leaves,
         NEW m, LeafTyped(codec, t, m), Short(LeafWritten(codec, t, m))
  PROVE  LeafReadBack(codec, t, m)
<1> DEFINE n == Count(codec, t)
           b == LeafBlocks(codec, t, m)
           z == LeafNew(codec, t)
<1>a. Coded(codec.types[t], {})
  BY DEF Sound
<1>1. CodedAs(codec, t, {}) /\ ByName(codec, t) /\ n \in Nat
  <2>1. ByName(codec, t)
    BY <1>a, FieldsByName
  <2>2. QED
    BY <1>a, <2>1 DEF ByName, Count, CodedAs
<1>2. PICK w : Laid(w, n, b) /\ LeafWritten(codec, t, m) = w[1]
  BY <1>a, LeafLaid DEF Count
<1> DEFINE s == w[1]
<1>3. \A i \in 1 .. n : LeafBlockFits(codec, t, m, i)
  BY <1>a, LeafBlocksFit DEF Count
<1>4. \A i \in 1 .. n : b[i] \in Seq(Byte)
  BY <1>3 DEF LeafBlockFits
<1>5. /\ Place(w, 1) = 0 /\ Place(w, n + 1) = Len(s) /\ s \in Seq(Int)
      /\ \A i \in 1 .. n : BlockStands(w, i, b[i])
  <2> HIDE DEF b, n
  <2>1. QED
    BY <1>1, <1>2, <1>4, LaidStands
<1>6. Short(s)
  BY <1>2, Zenon
<1>7. PICK r : /\ LeafRuns(r, Len(s), codec, t, z, s)
               /\ LeafUnmarshal(codec, t, z, s) = r[Len(s)]
  BY <1>5, LeafUnmarshalDef
<1>8. \A k \in 0 .. Len(s) : r[k] = IF k = 0 THEN [ok |-> TRUE, next |-> 0, msg |-> z]
                                    ELSE LeafRound(codec, t, s, r[k - 1])
  BY <1>7 DEF LeafRuns
<1>9. Len(s) \in Nat
  BY <1>5
<1> HIDE DEF s, z, b, n
<1>10. r[0] = Stand(0, z)
  <2>1. 0 \in 0 .. Len(s)
    BY <1>9
  <2>2. QED
    BY <1>8, <2>1 DEF Stand
<1>11. \A k \in 0 .. Len(s) - 1 : r[k + 1] = LeafRound(codec, t, s, r[k])
  <2>1. SUFFICES ASSUME NEW k \in 0 .. Len(s) - 1 PROVE r[k + 1] = LeafRound(codec, t, s, r[k])
    OBVIOUS
  <2>2. k + 1 \in 0 .. Len(s) /\ k + 1 # 0 /\ (k + 1) - 1 = k
    BY <1>9
  <2>3. QED
    BY <1>8, <2>2
<1>12. Stays(r, s)
  <2>1. \A k \in 0 .. Len(s) - 1 : Ended(s, r[k]) => LeafRound(codec, t, s, r[k]) = r[k]
    BY LeafRoundStays
  <2>2. QED
    BY <1>11, <2>1 DEF Stays
<1> DEFINE q == [i \in 1 .. n + 1 |-> Partial(codec, t, m, z, i)]
<1>13. LeafTyped(codec, t, z)
  BY <1>a, LeafNewTyped DEF z
<1>14. q[1] = z /\ q[n + 1] = m
  <2>1. AllKnown(codec, t, m) /\ AllKnown(codec, t, z)
    BY <1>13 DEF LeafTyped, AllKnown
  <2>2. Partial(codec, t, m, z, 1) = z /\ Partial(codec, t, m, z, n + 1) = m
    BY <1>1, <2>1, PartialEnds DEF n
  <2>3. 1 \in 1 .. n + 1 /\ n + 1 \in 1 .. n + 1
    BY <1>1
  <2>4. QED
    BY <2>2, <2>3
<1>15. Walked(r, w, q, 1)
  <2>1. 0 \in 0 .. 0
    OBVIOUS
  <2>2. QED
    BY <1>5, <1>10, <1>14, <2>1 DEF Walked, Reached
<1>16. ASSUME NEW i \in 1 .. n, Walked(r, w, q, i) PROVE Walked(r, w, q, i + 1)
  <2> DEFINE f == FieldAt(codec, t, i)
             x == Place(w, i)
             y == Place(w, i + 1)
             v == m[f.name]
  <2>1. /\ i \in 1 .. 9 /\ f.kind \in ScalarKinds /\ ScalarTyped(f, v)
        /\ b[i] = ScalarBytes(At(Tag(f, i), f), v)
    BY <1>3 DEF LeafBlockFits, b, FieldAt
  <2>2. x \in Nat /\ StandsAt(s, x, b[i]) /\ y = x + Len(b[i]) /\ Len(b[i]) \in Nat
    BY <1>4, <1>5 DEF BlockStands, s
  <2>3. PartialStep(codec, t, m, z, i)
    BY <1>1, PartialNext DEF n
  <2>4. q[i] = Partial(codec, t, m, z, i) /\ q[i + 1] = Partial(codec, t, m, z, i + 1)
    BY <1>1
  <2> HIDE DEF q
  <2>5. /\ q[i + 1] = Put(q[i], f.name, v)
        /\ v = z[f.name] => q[i + 1] = q[i]
    BY <2>3, <2>4 DEF PartialStep, NameAt
  <2>6. f \in Fields(codec, t)
    BY <1>1 DEF ByName, FieldAt, Count, n
  <2>7. Reached(r, x, q[i])
    BY <1>16 DEF Walked
  <2> HIDE DEF f, v, x, y
  <2>8. CASE Present(f, v)
    <3>1. ScalarTaken(f, i, s, x, v)
      BY <1>5, <1>6, <2>1, <2>2, <2>8, ScalarReads DEF s
    <3>2. LeafCase(f, i, s, x, y, v) /\ x < y
      BY <2>1, <2>2, <3>1 DEF ScalarTaken, LeafCase
    <3>3. y \in Nat /\ y <= Len(s)
      BY <2>2 DEF StandsAt
    <3>4. LeafRound(codec, t, s, Stand(x, q[i])) = Stand(y, q[i + 1])
      <4>1. LeafCase(FieldAt(codec, t, i), i, s, x, y, v) /\ i \in 1 .. Count(codec, t)
        BY <3>2 DEF f, n
      <4>2. s \in Seq(Int) /\ x \in Nat
        BY <1>5, <2>2 DEF s
      <4>3. LeafRound(codec, t, s, Stand(x, q[i])) = Stand(y, Put(q[i], NameAt(codec, t, i), v))
        BY <1>1, <4>1, <4>2, LeafTakes
      <4>4. QED
        BY <2>5, <4>3 DEF NameAt, f
    <3>5. Follows(r, s, x, q[i], y, q[i + 1])
      BY <1>11, <3>4 DEF Follows
    <3>6. Reached(r, y, q[i + 1])
      <4>1. s \in Seq(Int) /\ x \in Nat
        BY <1>5, <2>2 DEF s
      <4>2. QED
        BY <2>7, <3>2, <3>3, <3>5, <4>1, OneMore
    <3>7. QED
      BY <3>6 DEF Walked, y
  <2>9. CASE ~Present(f, v)
    <3>1. v = ZeroValue(f) /\ b[i] = <<>>
      BY <2>1, <2>9, ScalarAbsent
    <3>2. v = z[f.name]
      BY <1>1, <2>6, <3>1, LeafNewField DEF z
    <3>3. y = x
      BY <2>2, <3>1
    <3>4. QED
      BY <2>5, <2>7, <3>2, <3>3 DEF Walked, y
  <2>10. QED
    BY <2>8, <2>9
<1> HIDE DEF q
<1>17. Walked(r, w, q, n + 1)
  BY <1>1, <1>15, <1>16, WalkToEnd
<1>18. Reached(r, Len(s), m)
  BY <1>5, <1>14, <1>17 DEF Walked, s
<1>19. r[Len(s)] = Stand(Len(s), m)
  BY <1>5, <1>12, <1>18, EndStays DEF s
<1>20. QED
  BY <1>2, <1>7, <1>19 DEF LeafReadBack, s, z

(***************************************************************************)
(* A message behind a field is read back.                                  *)
(***************************************************************************)
\* The bytes of e under field i stand behind the first x, and are read as e.
ElementTaken(codec, f, i, s, x, old, e) ==
    LET c == Delimited(Tag(f, i), Body(codec, f.sub, e))
    IN  /\ StandsAt(s, x, <<Tag(f, i)>>) /\ Len(c) \in Nat \ {0}
        /\ ReadMessage(codec, f, 2, old, s, x + 1)
             = [ok |-> TRUE, next |-> x + Len(c), value |-> Placed(f, old, e)]

\* A length and a content stand in s: the content is shorter than s.
LEMMA ContentShort ==
  ASSUME NEW s \in Seq(Int), NEW x \in Nat, NEW tag \in Byte, NEW c \in Seq(Byte),
         StandsAt(s, x, Delimited(tag, c)), Short(s)
  PROVE  Short(c)
<1>1. Len(Delimited(tag, c)) = DelimitedSize(Len(c))
  BY DelimitedParts
<1>2. Len(c) \in Nat /\ Len(s) \in Nat /\ Sov(Len(c)) \in Nat
  <2>1. Len(c) \in Nat /\ Len(s) \in Nat
    OBVIOUS
  <2>2. QED
    BY <2>1, SovCounts
<1>3. x + DelimitedSize(Len(c)) <= Len(s)
  BY <1>1 DEF StandsAt
<1>4. WordSize \div 2 \in Nat
  BY SizesLarge
<1>5. QED
  BY <1>2, <1>3, <1>4 DEF Short, DelimitedSize

\* A message behind a field is read back: in the place of an absent one, or appended.
LEMMA ElementReads ==
  ASSUME NEW codec, NEW leaves, NEW f, NEW i \in 1 .. 9, NEW s \in Seq(Int), NEW x \in Nat,
         NEW old, NEW e, Sound(codec, leaves), f.kind \in MessageKinds, f.sub \in leaves,
         LeafTyped(codec, f.sub, e), Target(codec, f, old) = LeafNew(codec, f.sub),
         StandsAt(s, x, Delimited(Tag(f, i), Body(codec, f.sub, e))), Short(s)
  PROVE  ElementTaken(codec, f, i, s, x, old, e)
<1> DEFINE t == f.sub
           c == Body(codec, t, e)
           tag == Tag(f, i)
           new == LeafNew(codec, t)
<1>1. tag \in Byte
  BY TagByte
<1>2. c \in Seq(Byte) /\ c = LeafWritten(codec, t, e)
  BY BodyParts
<1>3. StandsAt(s, x, Delimited(tag, c)) /\ Target(codec, f, old) = new
  OBVIOUS
<1>4. t \in leaves /\ LeafTyped(codec, t, e)
  OBVIOUS
<1> HIDE DEF c, tag, t, new
<1>5. Short(LeafWritten(codec, t, e))
  BY <1>1, <1>2, <1>3, ContentShort
<1>6. DelimitedRead(s, x, tag, c)
  BY <1>1, <1>2, <1>3, DelimitedReads
<1>7. LeafReadBack(codec, t, e)
  BY <1>4, <1>5, LeafReads
<1> DEFINE inner == LeafUnmarshal(codec, t, new, c)
           block == ReadBlock(s, x + 1)
<1>8. inner.ok = TRUE /\ inner.msg = e
  BY <1>2, <1>7 DEF LeafReadBack, Stand, new
<1>9. block.ok = TRUE /\ block.bytes = c /\ block.next = x + Len(Delimited(tag, c))
  BY <1>6 DEF DelimitedRead
<1> HIDE DEF block
<1>10. inner = LeafUnmarshal(codec, f.sub, Target(codec, f, old), block.bytes)
  BY <1>3, <1>9 DEF t
<1> HIDE DEF inner
<1>11. ReadMessage(codec, f, 2, old, s, x + 1) =
         [ok |-> TRUE, next |-> block.next, value |-> Placed(f, old, inner.msg)]
  BY <1>8, <1>9, <1>10, ReadMessageParts DEF block
<1>12. QED
  BY <1>6, <1>8, <1>9, <1>11 DEF ElementTaken, DelimitedRead, tag, c, t

-----------------------------------------------------------------------------
(* A message is read back as it was written.                               *)

\* Every step of r is a round of the loop.
Rounds(r, s, codec, t) ==
    \A k \in 0 .. Len(s) - 1 : r[k + 1] = MessageRound(codec, t, s, r[k])

\* The loop takes the case of field i.
LEMMA CaseTaken ==
  ASSUME NEW codec, NEW t, NEW i \in 1 .. Count(codec, t), NEW s \in Seq(Int),
         NEW r, NEW x \in Nat, NEW y \in Nat, NEW m, NEW v,
         ByName(codec, t), Rounds(r, s, codec, t), x < y, y <= Len(s), Reached(r, x, m),
         MessageCase(codec, FieldAt(codec, t, i), i, s, x, m, y, v)
  PROVE  Reached(r, y, Put(m, NameAt(codec, t, i), v))
<1> DEFINE q == Put(m, NameAt(codec, t, i), v)
<1>1. MessageRound(codec, t, s, Stand(x, m)) = Stand(y, q)
  BY MessageTakes
<1> HIDE DEF q
<1>2. Follows(r, s, x, m, y, q)
  BY <1>1 DEF Follows, Rounds
<1>3. Reached(r, y, q)
  BY <1>2, OneMore
<1>4. QED
  BY <1>3 DEF q

\* Writing the value that a field has changes nothing.
LEMMA PutSame ==
  ASSUME NEW codec, NEW t, NEW m, Whole(codec, t, m), NEW name
  PROVE  Put(m, name, m[name]) = m
<1> DEFINE N == AllNames(codec, t)
<1>1. m = [x \in N |-> m[x]]
  BY DEF Whole
<1> HIDE DEF N
<1>2. DOMAIN m = N
  BY <1>1
<1>3. Put(m, name, m[name]) = [x \in N |-> IF x = name THEN m[name] ELSE m[x]]
  BY <1>2 DEF Put
<1>4. \A x \in N : (IF x = name THEN m[name] ELSE m[x]) = m[x]
  OBVIOUS
<1>5. QED
  BY <1>1, <1>3, <1>4

\* Of two values written to a field the second one stays.
LEMMA PutTwice ==
  ASSUME NEW m, NEW name, NEW a, NEW b, name \in DOMAIN m
  PROVE  /\ Put(Put(m, name, a), name, b) = Put(m, name, b)
         /\ Put(m, name, a)[name] = a
BY DEF Put

\* The bytes of a list stand behind the first x, and so do those of its first elements.
ElementStands(codec, f, i, s, x, v, e, k) ==
    LET c == Delimited(Tag(f, i), Body(codec, f.sub, v[k]))
    IN  /\ x + Len(e[k - 1]) \in Nat /\ StandsAt(s, x + Len(e[k - 1]), c)
        /\ x + Len(e[k]) = x + Len(e[k - 1]) + Len(c) /\ x + Len(e[k]) <= Len(s)

\* Where a list stands, every element stands behind the ones before it.
LEMMA ElementsStand ==
  ASSUME NEW codec, NEW f, NEW i, NEW s \in Seq(Int), NEW x \in Nat, NEW v, NEW e,
         Len(v) \in Nat, Elements(codec, Tag(f, i), f.sub, v, e), StandsAt(s, x, e[Len(v)])
  PROVE  \A k \in 1 .. Len(v) : ElementStands(codec, f, i, s, x, v, e, k)
<1> DEFINE n == Len(v)
           c(k) == Delimited(Tag(f, i), Body(codec, f.sub, v[k]))
<1>1. /\ \A k \in 1 .. n : c(k) \in Seq(Byte) /\ e[k] = e[k - 1] \o c(k)
      /\ e \in [0 .. n -> Seq(Byte)]
  BY DEF Elements
<1>2. n \in Nat /\ StandsAt(s, x, e[n])
  OBVIOUS
<1> HIDE DEF n, c
<1>3. ASSUME NEW k \in 1 .. n, StandsAt(s, x, e[k])
      PROVE  /\ StandsAt(s, x, e[k - 1]) /\ StandsAt(s, x + Len(e[k - 1]), c(k))
             /\ Len(e[k]) = Len(e[k - 1]) + Len(c(k))
  <2>1. k \in 0 .. n /\ k - 1 \in 0 .. n
    BY <1>2
  <2>2. e[k - 1] \in Seq(Int) /\ c(k) \in Seq(Int) /\ e[k] = e[k - 1] \o c(k)
    BY <1>1, <2>1, BytesAreInts
  <2>3. StandsAt(s, x, e[k - 1]) /\ StandsAt(s, x + Len(e[k - 1]), c(k))
    BY <1>3, <2>2, StandsConcat
  <2>4. QED
    BY <2>2, <2>3
<1> DEFINE Good == {d \in Nat : d <= n => StandsAt(s, x, e[n - d])}
<1>4. 0 \in Good
  BY <1>2
<1>5. ASSUME NEW d \in Nat, d \in Good PROVE d + 1 \in Good
  <2>1. SUFFICES ASSUME d + 1 <= n PROVE StandsAt(s, x, e[n - (d + 1)])
    OBVIOUS
  <2>2. n - d \in 1 .. n /\ (n - d) - 1 = n - (d + 1) /\ d <= n
    BY <1>2, <2>1
  <2>3. StandsAt(s, x, e[n - d])
    BY <1>5, <2>2
  <2>4. QED
    BY <1>3, <2>2, <2>3
<1>6. ASSUME NEW k \in 1 .. n PROVE StandsAt(s, x, e[k])
  <2> HIDE DEF Good
  <2>1. n - k \in Nat /\ n - k <= n /\ n - (n - k) = k
    BY <1>2
  <2>3. n - k \in Good
    BY <1>4, <1>5, <2>1, NatSetInduction
  <2>4. QED
    BY <2>1, <2>3 DEF Good
<1>7. ASSUME NEW k \in 1 .. n PROVE ElementStands(codec, f, i, s, x, v, e, k)
  <2>1. StandsAt(s, x, e[k])
    BY <1>6
  <2>2. /\ StandsAt(s, x + Len(e[k - 1]), c(k)) /\ Len(e[k]) = Len(e[k - 1]) + Len(c(k))
    BY <1>3, <2>1
  <2>3. k - 1 \in 0 .. n
    BY <1>2
  <2>4. Len(e[k - 1]) \in Nat /\ Len(c(k)) \in Nat
    BY <1>1, <2>3
  <2>5. x + Len(e[k]) <= Len(s)
    BY <2>1 DEF StandsAt
  <2>6. /\ x + Len(e[k - 1]) \in Nat
        /\ x + Len(e[k]) = x + Len(e[k - 1]) + Len(c(k))
    BY <2>2, <2>4
  <2>7. QED
    BY <2>2, <2>5, <2>6 DEF ElementStands, c
<1>8. QED
  BY <1>7 DEF n

\* The first elements of a sequence, one by one.
LEMMA Heads ==
  ASSUME NEW S, NEW v \in Seq(S)
  PROVE  /\ SubSeq(v, 1, 0) = <<>> /\ SubSeq(v, 1, Len(v)) = v
         /\ \A k \in 1 .. Len(v) :
               /\ Append(SubSeq(v, 1, k - 1), v[k]) = SubSeq(v, 1, k)
               /\ Len(SubSeq(v, 1, k - 1)) = k - 1
               /\ k = 1 => <<v[k]>> = SubSeq(v, 1, k)
<1>1. SubSeq(v, 1, 0) = <<>> /\ SubSeq(v, 1, Len(v)) = v
  OBVIOUS
<1>2. ASSUME NEW k \in 1 .. Len(v)
      PROVE  /\ Append(SubSeq(v, 1, k - 1), v[k]) = SubSeq(v, 1, k)
             /\ Len(SubSeq(v, 1, k - 1)) = k - 1
  OBVIOUS
<1>3. ASSUME NEW k \in 1 .. Len(v), k = 1 PROVE <<v[k]>> = SubSeq(v, 1, k)
  <2>1. /\ <<v[1]>> \in Seq(S) /\ SubSeq(v, 1, 1) \in Seq(S)
        /\ Len(<<v[1]>>) = 1 /\ Len(SubSeq(v, 1, 1)) = 1
        /\ <<v[1]>>[1] = v[1] /\ SubSeq(v, 1, 1)[1] = v[1]
    BY <1>3
  <2>2. \A j \in 1 .. 1 : <<v[1]>>[j] = SubSeq(v, 1, 1)[j]
    BY <2>1
  <2>3. <<v[1]>> = SubSeq(v, 1, 1)
    BY <2>1, <2>2, SeqEqual
  <2>4. QED
    BY <1>3, <2>3
<1>4. QED
  BY <1>1, <1>2, <1>3

\* The bytes of field i stand behind the first x: the loop puts v into the message.
SeveralStand(codec, leaves, f, i, s, x, v, e) ==
    /\ i \in 1 .. 9 /\ f.kind \in {"pointer", "list"} /\ f.sub \in leaves
    /\ LeavesTyped(codec, f.sub, v) /\ (f.kind = "pointer" => Len(v) <= 1)
    /\ Elements(codec, Tag(f, i), f.sub, v, e) /\ StandsAt(s, x, e[Len(v)])

\* Element k of v is read behind the first k - 1.
NextTaken(codec, f, i, s, x, v, e, k) ==
    /\ ElementTaken(codec, f, i, s, x + Len(e[k - 1]), SubSeq(v, 1, k - 1), v[k])
    /\ Placed(f, SubSeq(v, 1, k - 1), v[k]) = SubSeq(v, 1, k)

\* The next element of a list is read behind the ones before it.
LEMMA NextElement ==
  ASSUME NEW codec, NEW leaves, NEW f, NEW i, NEW s \in Seq(Int), NEW x \in Nat,
         NEW v, NEW e, NEW k \in 1 .. Len(v), Sound(codec, leaves), Short(s),
         SeveralStand(codec, leaves, f, i, s, x, v, e)
  PROVE  NextTaken(codec, f, i, s, x, v, e, k)
<1> DEFINE old == SubSeq(v, 1, k - 1)
           a == x + Len(e[k - 1])
<1>1. PICK S : v \in Seq(S) /\ \A q \in S : LeafTyped(codec, f.sub, q)
  BY DEF SeveralStand, LeavesTyped
<1>2. LeafTyped(codec, f.sub, v[k]) /\ Len(v) \in Nat
  BY <1>1
<1>3. /\ Append(old, v[k]) = SubSeq(v, 1, k) /\ Len(old) = k - 1
      /\ k = 1 => <<v[k]>> = SubSeq(v, 1, k)
  BY <1>1, Heads
<1>4. f.kind \in {"pointer", "list"} /\ f.kind \in MessageKinds /\ f.sub \in leaves /\ i \in 1 .. 9
  BY DEF SeveralStand, MessageKinds
<1>5. f.kind = "pointer" => k = 1
  BY <1>2 DEF SeveralStand
<1>6. ElementStands(codec, f, i, s, x, v, e, k)
  BY <1>2, ElementsStand DEF SeveralStand
<1>7. a \in Nat /\ StandsAt(s, a, Delimited(Tag(f, i), Body(codec, f.sub, v[k])))
  BY <1>6 DEF ElementStands
<1> HIDE DEF old
<1>8. Target(codec, f, old) = LeafNew(codec, f.sub)
  <2>1. CASE f.kind = "list"
    BY <2>1 DEF Target
  <2>2. CASE f.kind = "pointer"
    <3>1. ~(Len(old) > 0)
      BY <1>3, <1>5, <2>2
    <3>2. QED
      BY <2>2, <3>1 DEF Target
  <2>3. QED
    BY <1>4, <2>1, <2>2
<1>9. Placed(f, old, v[k]) = SubSeq(v, 1, k)
  <2>1. CASE f.kind = "list"
    BY <1>3, <2>1 DEF Placed
  <2>2. CASE f.kind = "pointer"
    BY <1>3, <1>5, <2>2 DEF Placed
  <2>3. QED
    BY <1>4, <2>1, <2>2
<1> HIDE DEF a
<1>10. ElementTaken(codec, f, i, s, a, old, v[k])
  BY <1>2, <1>4, <1>7, <1>8, ElementReads
<1>11. QED
  BY <1>9, <1>10 DEF NextTaken, a, old

\* The loop reads what it finds in front of it into an empty field of m.
EmptyField(m, name, none) ==
    name \in DOMAIN m /\ m[name] = none /\ Put(m, name, none) = m

\* A list or a pointer is read back element by element.
LEMMA SeveralTaken ==
  ASSUME NEW codec, NEW leaves, NEW t, NEW i \in 1 .. Count(codec, t), NEW s \in Seq(Int),
         NEW x \in Nat, NEW r, NEW m, NEW v, NEW e,
         Sound(codec, leaves), ByName(codec, t), Short(s), Rounds(r, s, codec, t),
         SeveralStand(codec, leaves, FieldAt(codec, t, i), i, s, x, v, e),
         EmptyField(m, NameAt(codec, t, i), <<>>), Reached(r, x, m)
  PROVE  Reached(r, x + Len(e[Len(v)]), Put(m, NameAt(codec, t, i), v))
<1> DEFINE f == FieldAt(codec, t, i)
           name == NameAt(codec, t, i)
           n == Len(v)
           At0(k) == x + Len(e[k])
           Mid(k) == Put(m, name, SubSeq(v, 1, k))
<1>1. f.name = name
  BY DEF NameAt
<1>2. PICK S : v \in Seq(S)
  BY DEF SeveralStand, LeavesTyped
<1>3. n \in Nat /\ SubSeq(v, 1, 0) = <<>> /\ SubSeq(v, 1, n) = v
  BY <1>2, Heads
<1>4. i \in 1 .. 9 /\ f.kind \in {"pointer", "list"} /\ WireType(f.kind) = 2
      /\ Elements(codec, Tag(f, i), f.sub, v, e) /\ StandsAt(s, x, e[n])
  BY DEF SeveralStand, WireType
<1>5. SeveralStand(codec, leaves, f, i, s, x, v, e)
  OBVIOUS
<1>6. EmptyField(m, name, <<>>)
  OBVIOUS
<1> HIDE DEF f, name, n
<1>7. At0(0) = x /\ Mid(0) = m
  <2>1. e[0] = <<>>
    BY <1>4 DEF Elements
  <2>2. Len(e[0]) = 0
    BY <2>1
  <2>3. At0(0) = x
    BY <2>2
  <2>4. Mid(0) = Put(m, name, <<>>)
    BY <1>3
  <2>5. QED
    BY <1>6, <2>3, <2>4 DEF EmptyField
<1>8. ASSUME NEW k \in 1 .. n, Reached(r, At0(k - 1), Mid(k - 1))
      PROVE  Reached(r, At0(k), Mid(k))
  <2> DEFINE a == At0(k - 1)
             b == At0(k)
             old == SubSeq(v, 1, k - 1)
             new == SubSeq(v, 1, k)
             mm == Mid(k - 1)
  <2>1. ElementTaken(codec, f, i, s, a, old, v[k]) /\ Placed(f, old, v[k]) = new
    <3>1. k \in 1 .. Len(v)
      BY DEF n
    <3>2. NextTaken(codec, f, i, s, x, v, e, k)
      BY <1>5, <3>1, NextElement
    <3>3. QED
      BY <3>2 DEF NextTaken
  <2>2. ElementStands(codec, f, i, s, x, v, e, k)
    BY <1>3, <1>4, ElementsStand DEF n
  <2>3. a \in Nat /\ b = a + Len(Delimited(Tag(f, i), Body(codec, f.sub, v[k]))) /\ b <= Len(s)
    BY <2>2 DEF ElementStands
  <2>4. mm[name] = old /\ Put(mm, name, new) = Mid(k)
    <3>1. name \in DOMAIN m
      BY <1>6 DEF EmptyField
    <3>2. \A p, q : Put(Put(m, name, p), name, q) = Put(m, name, q) /\ Put(m, name, p)[name] = p
      BY <3>1, PutTwice
    <3>3. QED
      BY <3>2
  <2>5. Reached(r, a, mm)
    BY <1>8
  <2> HIDE DEF a, b, old, new, mm, Mid
  <2>6. /\ a < b /\ b \in Nat /\ StandsAt(s, a, <<Tag(f, i)>>)
        /\ ReadMessage(codec, f, 2, old, s, a + 1) = [ok |-> TRUE, next |-> b, value |-> new]
    BY <2>1, <2>3 DEF ElementTaken
  <2>7. CaseRead(codec, f, TagOf(f, i, a), mm[f.name], s) = ReadMessage(codec, f, 2, old, s, a + 1)
    BY <1>1, <1>4, <2>4 DEF CaseRead, TagOf
  <2>8. MessageCase(codec, FieldAt(codec, t, i), i, s, a, mm, b, new)
    BY <1>4, <2>6, <2>7 DEF MessageCase, f
  <2>9. Reached(r, b, Put(mm, NameAt(codec, t, i), new))
    BY <2>3, <2>5, <2>6, <2>8, CaseTaken
  <2>10. QED
    BY <2>4, <2>9 DEF b, name
<1> DEFINE Good == {k \in Nat : k <= n => Reached(r, At0(k), Mid(k))}
<1>9. 0 \in Good
  BY <1>7
<1> HIDE DEF At0, Mid
<1>10. ASSUME NEW k \in Nat, k \in Good PROVE k + 1 \in Good
  <2>1. SUFFICES ASSUME k + 1 <= n PROVE Reached(r, At0(k + 1), Mid(k + 1))
    OBVIOUS
  <2>2. k <= n /\ k + 1 \in 1 .. n /\ (k + 1) - 1 = k
    BY <1>3, <2>1
  <2>3. Reached(r, At0((k + 1) - 1), Mid((k + 1) - 1))
    BY <1>10, <2>2
  <2>4. QED
    BY <1>8, <2>2, <2>3
<1> HIDE DEF Good
<1>11. n \in Good
  BY <1>3, <1>9, <1>10, NatSetInduction
<1>12. Reached(r, At0(n), Mid(n))
  BY <1>3, <1>11 DEF Good
<1>13. QED
  BY <1>3, <1>12 DEF At0, Mid, n, name

\* A message that the struct holds by value is read back.
LEMMA NestedTaken ==
  ASSUME NEW codec, NEW leaves, NEW t, NEW i \in 1 .. Count(codec, t), NEW s \in Seq(Int),
         NEW x \in Nat, NEW r, NEW m, NEW v,
         Sound(codec, leaves), ByName(codec, t), Short(s), Rounds(r, s, codec, t),
         FieldAt(codec, t, i).kind = "nested", FieldAt(codec, t, i).sub \in leaves, i \in 1 .. 9,
         LeafTyped(codec, FieldAt(codec, t, i).sub, v),
         StandsAt(s, x, Delimited(Tag(FieldAt(codec, t, i), i),
                                  Body(codec, FieldAt(codec, t, i).sub, v))),
         EmptyField(m, NameAt(codec, t, i), LeafNew(codec, FieldAt(codec, t, i).sub)),
         Reached(r, x, m)
  PROVE  Reached(r, x + Len(Delimited(Tag(FieldAt(codec, t, i), i),
                                      Body(codec, FieldAt(codec, t, i).sub, v))),
                 Put(m, NameAt(codec, t, i), v))
<1> DEFINE f == FieldAt(codec, t, i)
           name == NameAt(codec, t, i)
           old == LeafNew(codec, f.sub)
           c == Delimited(Tag(f, i), Body(codec, f.sub, v))
           y == x + Len(c)
<1>1. f.name = name /\ f.kind = "nested" /\ WireType(f.kind) = 2 /\ f.kind \in MessageKinds
      /\ f.sub \in leaves /\ i \in 1 .. 9 /\ LeafTyped(codec, f.sub, v) /\ StandsAt(s, x, c)
  BY DEF NameAt, WireType, MessageKinds
<1>2. m[name] = old
  BY DEF EmptyField
<1> HIDE DEF f, name
<1>3. Target(codec, f, old) = old /\ Placed(f, old, v) = v
  BY <1>1 DEF Target, Placed
<1>4. ElementTaken(codec, f, i, s, x, old, v)
  BY <1>1, <1>3, ElementReads
<1> HIDE DEF old, c
<1>5. /\ Len(c) \in Nat \ {0} /\ StandsAt(s, x, <<Tag(f, i)>>)
      /\ ReadMessage(codec, f, 2, old, s, x + 1) = [ok |-> TRUE, next |-> y, value |-> v]
  BY <1>3, <1>4 DEF ElementTaken, c
<1>6. x < y /\ y \in Nat /\ y <= Len(s)
  BY <1>1, <1>5 DEF StandsAt
<1> HIDE DEF y
<1>7. CaseRead(codec, f, TagOf(f, i, x), m[f.name], s) = ReadMessage(codec, f, 2, old, s, x + 1)
  BY <1>1, <1>2 DEF CaseRead, TagOf
<1>8. MessageCase(codec, FieldAt(codec, t, i), i, s, x, m, y, v)
  BY <1>1, <1>5, <1>7 DEF MessageCase, f
<1>9. Reached(r, y, Put(m, NameAt(codec, t, i), v))
  BY <1>6, <1>8, CaseTaken
<1>10. QED
  BY <1>9 DEF y, c, f

\* The bytes of field i with value v stand behind the first x.
FieldStands(codec, leaves, f, i, s, x, v) ==
    /\ i \in 1 .. 9 /\ Block(f, leaves) /\ FieldTyped(codec, f, v)
    /\ StandsAt(s, x, FieldBytes(codec, At(Tag(f, i), f), v))

(***************************************************************************)
(* Whatever its kind, a field is read as it was written.                   *)
(***************************************************************************)
LEMMA FieldTaken ==
  ASSUME NEW codec, NEW leaves, NEW t, NEW i \in 1 .. Count(codec, t), NEW s \in Seq(Int),
         NEW x \in Nat, NEW r, NEW m, NEW v, NEW f, f = FieldAt(codec, t, i),
         Sound(codec, leaves), ByName(codec, t), Short(s), Rounds(r, s, codec, t),
         FieldStands(codec, leaves, f, i, s, x, v),
         EmptyField(m, NameAt(codec, t, i), Zero(codec, f)), Reached(r, x, m)
  PROVE  Reached(r, x + Len(FieldBytes(codec, At(Tag(f, i), f), v)), Put(m, NameAt(codec, t, i), v))
<1> DEFINE name == NameAt(codec, t, i)
           tag == Tag(f, i)
           c == FieldBytes(codec, At(tag, f), v)
<1>1. /\ i \in 1 .. 9 /\ Block(f, leaves) /\ FieldTyped(codec, f, v) /\ StandsAt(s, x, c)
      /\ f.name = name
  BY DEF FieldStands, NameAt
<1>2. tag \in Byte
  BY <1>1, TagByte
<1>3. EmptyField(m, name, Zero(codec, f))
  OBVIOUS
<1> HIDE DEF name, tag
<1>4. CASE f.kind \in ScalarKinds
  <2>1. ScalarTyped(f, v)
    BY <1>1, <1>4 DEF FieldTyped
  <2>2. c = ScalarBytes(At(tag, f), v)
    BY <1>2, <1>4, <2>1, FieldPartsOfScalar
  <2>3. Zero(codec, f) = ZeroValue(f)
    BY <1>4 DEF Zero, ScalarKinds
  <2>4. CASE Present(f, v)
    <3>1. StandsAt(s, x, ScalarBytes(At(Tag(f, i), f), v))
      BY <1>1, <2>2 DEF tag
    <3>2. ScalarTaken(f, i, s, x, v)
      BY <1>1, <1>4, <2>1, <2>4, <3>1, ScalarReads
    <3> DEFINE y == x + Len(c)
    <3>3. /\ Len(c) \in Nat \ {0} /\ StandsAt(s, x, <<Tag(f, i)>>)
          /\ ReadScalar(f, WireType(f.kind), s, x + 1) = [ok |-> TRUE, next |-> y, value |-> v]
      BY <2>2, <3>2 DEF ScalarTaken, tag
    <3> HIDE DEF c
    <3>4. x < y /\ y \in Nat /\ y <= Len(s)
      BY <1>1, <3>3 DEF StandsAt
    <3> HIDE DEF y
    <3>5. CaseRead(codec, f, TagOf(f, i, x), m[f.name], s) = ReadScalar(f, WireType(f.kind), s, x + 1)
      BY <1>4 DEF CaseRead, TagOf, ScalarKinds
    <3>6. MessageCase(codec, FieldAt(codec, t, i), i, s, x, m, y, v)
      BY <1>1, <3>3, <3>5 DEF MessageCase
    <3>7. Reached(r, y, Put(m, NameAt(codec, t, i), v))
      BY <3>4, <3>6, CaseTaken
    <3>8. QED
      BY <3>7 DEF y, c, tag
  <2>5. CASE ~Present(f, v)
    <3>1. v = ZeroValue(f) /\ ScalarBytes(At(tag, f), v) = <<>>
      BY <1>4, <2>1, <2>5, ScalarAbsent
    <3>2. c = <<>> /\ Put(m, name, v) = m
      BY <1>3, <2>2, <2>3, <3>1 DEF EmptyField
    <3> HIDE DEF c
    <3>3. x + Len(c) = x
      BY <3>2
    <3>4. Reached(r, x + Len(c), Put(m, name, v))
      BY <3>2, <3>3
    <3>5. QED
      BY <3>4 DEF c, name, tag
  <2>6. QED
    BY <2>4, <2>5
<1>5. CASE f.kind = "nested"
  <2>1. LeafTyped(codec, f.sub, v) /\ f.sub \in leaves
    BY <1>1, <1>5 DEF FieldTyped, Block, ScalarKinds
  <2>2. c = Delimited(tag, Body(codec, f.sub, v))
    BY <1>2, <1>5, <2>1, FieldPartsOfNested
  <2>3. Zero(codec, f) = LeafNew(codec, f.sub)
    BY <1>5 DEF Zero
  <2>4. /\ StandsAt(s, x, Delimited(Tag(f, i), Body(codec, f.sub, v)))
        /\ EmptyField(m, NameAt(codec, t, i), LeafNew(codec, f.sub))
    BY <1>1, <1>3, <2>2, <2>3 DEF tag, name
  <2> HIDE DEF c
  <2>5. Reached(r, x + Len(Delimited(Tag(f, i), Body(codec, f.sub, v))),
                Put(m, NameAt(codec, t, i), v))
    BY <1>1, <1>5, <2>1, <2>4, NestedTaken
  <2>6. QED
    BY <2>2, <2>5 DEF c, tag
<1>6. CASE f.kind \in {"pointer", "list"}
  <2>1. LeavesTyped(codec, f.sub, v) /\ f.sub \in leaves /\ (f.kind = "pointer" => Len(v) <= 1)
    BY <1>1, <1>6 DEF FieldTyped, Block, ScalarKinds
  <2>2. PICK e : Elements(codec, tag, f.sub, v, e) /\ c = e[Len(v)]
    BY <1>2, <1>6, <2>1, FieldPartsOfSeveral
  <2>3. Zero(codec, f) = <<>>
    BY <1>6 DEF Zero, ZeroValue
  <2>4. SeveralStand(codec, leaves, FieldAt(codec, t, i), i, s, x, v, e)
    BY <1>1, <1>6, <2>1, <2>2 DEF SeveralStand, tag
  <2>5. EmptyField(m, NameAt(codec, t, i), <<>>)
    BY <1>3, <2>3 DEF name
  <2> HIDE DEF c
  <2>6. Reached(r, x + Len(e[Len(v)]), Put(m, NameAt(codec, t, i), v))
    BY <2>4, <2>5, SeveralTaken
  <2>7. QED
    BY <2>2, <2>6 DEF c, tag
<1>7. f.kind \in ScalarKinds \/ f.kind = "nested" \/ f.kind \in {"pointer", "list"}
  BY <1>1 DEF Block, MessageKinds
<1>8. QED
  BY <1>4, <1>5, <1>6, <1>7

(***************************************************************************)
(* What Marshal wrote is read back exactly, by the decoder of the same     *)
(* codec, if its length fits into an int.                                  *)
(***************************************************************************)
ReadBack(codec, t, m) ==
    LET s == Marshal(codec, t, m)
    IN  Unmarshal(codec, t, s) = Stand(Len(s), m)

(***************************************************************************)
(* What an encoder of the generated code writes, the decoder of the same   *)
(* version reads back: a message whose fields have their Go types comes    *)
(* out as it went in, if its encoding is no longer than a slice can be.    *)
(***************************************************************************)
THEOREM RoundTrip ==
  ASSUME NEW codec, NEW leaves, Sound(codec, leaves), NEW t \in DOMAIN codec.types,
         NEW m, Typed(codec, t, m), Short(Marshal(codec, t, m))
  PROVE  ReadBack(codec, t, m)
<1> DEFINE n == Count(codec, t)
           b == Blocks(codec, t, m)
           z == New(codec, t)
<1>a. Coded(codec.types[t], leaves)
  BY DEF Sound
<1>1. CodedAs(codec, t, leaves) /\ ByName(codec, t) /\ n \in Nat
  <2>1. ByName(codec, t)
    BY <1>a, FieldsByName
  <2>2. QED
    BY <1>a, <2>1 DEF ByName, Count, CodedAs
<1>2. PICK w : Laid(w, n, b) /\ Marshal(codec, t, m) = w[1]
  BY MarshalFits DEF Count
<1> DEFINE s == w[1]
<1>3. \A i \in 1 .. n : BlockFits(codec, leaves, t, m, i)
  BY <1>a, BlocksFit DEF Count
<1>4. \A i \in 1 .. n : b[i] \in Seq(Byte)
  BY <1>3 DEF BlockFits
<1>5. /\ Place(w, 1) = 0 /\ Place(w, n + 1) = Len(s) /\ s \in Seq(Int)
      /\ \A i \in 1 .. n : BlockStands(w, i, b[i])
  <2> HIDE DEF b, n
  <2>1. QED
    BY <1>1, <1>2, <1>4, LaidStands
<1>6. Short(s)
  BY <1>2, Zenon
<1>7. PICK r : MessageRuns(r, Len(s), codec, t, s) /\ Unmarshal(codec, t, s) = r[Len(s)]
  BY <1>5, UnmarshalDef
<1>8. \A k \in 0 .. Len(s) : r[k] = IF k = 0 THEN [ok |-> TRUE, next |-> 0, msg |-> z]
                                    ELSE MessageRound(codec, t, s, r[k - 1])
  BY <1>7 DEF MessageRuns
<1>9. Len(s) \in Nat
  BY <1>5
<1> HIDE DEF s, z, b, n
<1>10. r[0] = Stand(0, z)
  <2>1. 0 \in 0 .. Len(s)
    BY <1>9
  <2>2. QED
    BY <1>8, <2>1 DEF Stand
<1>11. Rounds(r, s, codec, t)
  <2>1. SUFFICES ASSUME NEW k \in 0 .. Len(s) - 1
                 PROVE r[k + 1] = MessageRound(codec, t, s, r[k])
    BY DEF Rounds
  <2>2. k + 1 \in 0 .. Len(s) /\ k + 1 # 0 /\ (k + 1) - 1 = k
    BY <1>9
  <2>3. QED
    BY <1>8, <2>2
<1>12. Stays(r, s)
  <2>1. \A k \in 0 .. Len(s) - 1 : Ended(s, r[k]) => MessageRound(codec, t, s, r[k]) = r[k]
    BY MessageRoundStays
  <2>2. QED
    BY <1>11, <2>1 DEF Stays, Rounds
<1> DEFINE q == [i \in 1 .. n + 1 |-> Partial(codec, t, m, z, i)]
<1>13. Typed(codec, t, z)
  BY NewTyped DEF z
<1>14. q[1] = z /\ q[n + 1] = m
  <2>1. AllKnown(codec, t, m) /\ AllKnown(codec, t, z)
    BY <1>13 DEF Typed, AllKnown
  <2>2. Partial(codec, t, m, z, 1) = z /\ Partial(codec, t, m, z, n + 1) = m
    BY <1>1, <2>1, PartialEnds DEF n
  <2>3. 1 \in 1 .. n + 1 /\ n + 1 \in 1 .. n + 1
    BY <1>1
  <2>4. QED
    BY <2>2, <2>3
<1>15. Walked(r, w, q, 1)
  <2>1. 0 \in 0 .. 0
    OBVIOUS
  <2>2. QED
    BY <1>5, <1>10, <1>14, <2>1 DEF Walked, Reached
<1>16. ASSUME NEW i \in 1 .. n, Walked(r, w, q, i) PROVE Walked(r, w, q, i + 1)
  <2> DEFINE f == FieldAt(codec, t, i)
             x == Place(w, i)
             v == m[f.name]
             c == FieldBytes(codec, At(Tag(f, i), f), v)
  <2>1. i \in 1 .. 9 /\ Block(f, leaves) /\ FieldTyped(codec, f, v) /\ b[i] = c
    BY <1>3 DEF BlockFits, b, FieldAt
  <2>2. x \in Nat /\ StandsAt(s, x, b[i]) /\ Place(w, i + 1) = x + Len(b[i])
    BY <1>5 DEF BlockStands, s
  <2>3. PartialStep(codec, t, m, z, i)
    BY <1>1, PartialNext DEF n
  <2>4. q[i] = Partial(codec, t, m, z, i) /\ q[i + 1] = Partial(codec, t, m, z, i + 1)
    BY <1>1
  <2>5. Whole(codec, t, q[i])
    <3>1. Partial(codec, t, m, z, i) = [y \in AllNames(codec, t) |-> Partial(codec, t, m, z, i)[y]]
      BY DEF Partial
    <3>2. QED
      BY <2>4, <3>1 DEF Whole
  <2> HIDE DEF q
  <2>6. f \in Fields(codec, t)
    BY <1>1 DEF ByName, FieldAt, Count, n
  <2>7. Reached(r, x, q[i])
    BY <1>16 DEF Walked
  <2>8. f.name = NameAt(codec, t, i)
    BY DEF NameAt
  <2> HIDE DEF f
  <2>9. z[f.name] = Zero(codec, f)
    BY <1>1, <2>6, NewField DEF z
  <2>10. /\ q[i + 1] = Put(q[i], NameAt(codec, t, i), v)
         /\ q[i][f.name] = z[f.name] /\ f.name \in DOMAIN q[i]
    BY <2>3, <2>4, <2>8 DEF PartialStep
  <2>11. EmptyField(q[i], NameAt(codec, t, i), Zero(codec, f))
    <3>1. Put(q[i], f.name, q[i][f.name]) = q[i]
      BY <2>5, PutSame
    <3>2. QED
      BY <2>8, <2>9, <2>10, <3>1 DEF EmptyField
  <2>12. FieldStands(codec, leaves, f, i, s, x, v)
    BY <2>1, <2>2 DEF FieldStands
  <2> HIDE DEF v, x
  <2>13. f = FieldAt(codec, t, i) /\ i \in 1 .. Count(codec, t) /\ s \in Seq(Int)
    BY <1>5 DEF f, n, s
  <2>14. Reached(r, x + Len(c), Put(q[i], NameAt(codec, t, i), v))
    BY <1>1, <1>6, <1>11, <2>2, <2>7, <2>11, <2>12, <2>13, FieldTaken
  <2> HIDE DEF c
  <2>15. Reached(r, Place(w, i + 1), q[i + 1])
    BY <2>1, <2>2, <2>10, <2>14
  <2>16. QED
    BY <2>15 DEF Walked
<1> HIDE DEF q
<1>17. Walked(r, w, q, n + 1)
  BY <1>1, <1>15, <1>16, WalkToEnd
<1>18. Reached(r, Len(s), m)
  BY <1>5, <1>14, <1>17 DEF Walked, s
<1>19. r[Len(s)] = Stand(Len(s), m)
  BY <1>5, <1>12, <1>18, EndStays DEF s
<1>20. QED
  BY <1>2, <1>7, <1>19 DEF ReadBack, s

\* The length of a slice fits into an int.
WireFits == wire # Nil => Short(wire)

\* What the sender's encoder wrote, the sender's decoder reads back.
LEMMA PathInvDelivers == PathInv /\ WireFits => Delivered
<1> SUFFICES ASSUME PathInv, WireFits, source = "sender", got # Nil
             PROVE  -1 \notin Range(wire) /\ got[sender].ok /\ got[sender].msg = draft
  BY DEF Delivered
<1> DEFINE codec == SenderCodec
           leaves == Leaves(package)
<1>1. Sound(codec, leaves) /\ type \in DOMAIN codec.types /\ Typed(codec, type, draft)
  BY SenderSound DEF PathInv, DraftInv
<1>2. wire # Nil /\ wire = Marshal(codec, type, draft)
      /\ got = [r \in Readers(package, type) |-> Unmarshal(Codec(package, r), type, wire)]
  BY DEF PathInv, GotInv, WireInv
<1>3. sender \in Readers(package, type)
  BY DEF PathInv, DraftInv, Readers
<1>4. got[sender] = Unmarshal(codec, type, wire)
  BY <1>2, <1>3 DEF SenderCodec
<1> HIDE DEF codec, leaves
<1>5. wire \in Seq(Byte)
  BY <1>1, <1>2, MarshalFits
<1>6. -1 \notin Range(wire)
  <2>1. SUFFICES ASSUME NEW i \in DOMAIN wire PROVE wire[i] # -1
    BY DEF Range
  <2>2. wire[i] \in Byte
    BY <1>5
  <2>3. QED
    BY <2>2 DEF Byte
<1>7. Short(Marshal(codec, type, draft))
  BY <1>2 DEF WireFits
<1>8. ReadBack(codec, type, draft)
  BY <1>1, <1>7, RoundTrip
<1>9. got[sender] = Stand(Len(wire), draft)
  BY <1>2, <1>4, <1>8 DEF ReadBack
<1>10. QED
  BY <1>6, <1>9 DEF Stand

(***************************************************************************)
(* The sender's own decoder reads back what its encoder wrote: on any      *)
(* message that the sender can fill, of any type, any lengths of the       *)
(* strings, bytes and lists in it and any widths of the integers.          *)
(***************************************************************************)
THEOREM AlwaysDelivered == Spec => [](WireFits => Delivered)
<1>1. PathInv => (WireFits => Delivered)
  BY PathInvDelivers
<1>2. QED
  BY <1>1, PathInvariant, PTL

-----------------------------------------------------------------------------
(* What a gogoproto decoder returns has the Go types of its fields.        *)

\* A conversion to a signed type gives a number of that type.
LEMMA SignedBounds ==
  ASSUME NEW h \in Nat \ {0}, NEW x \in Int
  PROVE  Signed(x, 2 * h) \in -h .. h - 1
<1> DEFINE u == x % (2 * h)
<1>1. u \in 0 .. 2 * h - 1 /\ (2 * h) \div 2 = h
  OBVIOUS
<1>2. Signed(x, 2 * h) = IF u >= h THEN u - 2 * h ELSE u
  BY <1>1 DEF Signed
<1> HIDE DEF u
<1>3. CASE u >= h
  BY <1>1, <1>2, <1>3
<1>4. CASE ~(u >= h)
  BY <1>1, <1>2, <1>4
<1>5. QED
  BY <1>3, <1>4

\* A conversion to int32 gives an int32.
LEMMA IntBounds ==
  ASSUME NEW x \in Int
  PROVE  Signed(x, IntSize) \in -(IntSize \div 2) .. (IntSize \div 2) - 1
<1>1. PICK k \in Nat : IntSize = 256 * k
  BY SizesDivide
<1>2. IntSize >= 256
  BY SizesLarge
<1> DEFINE h == 128 * k
<1>3. h \in Nat \ {0} /\ IntSize = 2 * h /\ IntSize \div 2 = h
  BY <1>1, <1>2
<1> HIDE DEF h
<1>4. Signed(x, 2 * h) \in -h .. h - 1
  BY <1>3, SignedBounds
<1>5. QED
  BY <1>3, <1>4

\* A block is a piece of the input.
LEMMA BlockBytes ==
  ASSUME NEW s \in Seq(Byte), NEW i \in Nat, ReadBlock(s, i).ok
  PROVE  ReadBlock(s, i).bytes \in Seq(Byte)
<1> DEFINE len == ReadVarint(s, i)
           size == Signed(len.value, WordSize)
           post == Signed(len.next + size, WordSize)
           b == ReadBlock(s, i)
<1>0. s \in Seq(Int)
  BY BytesAreInts
<1>1. b = IF ~len.ok \/ size < 0 \/ post < 0 \/ post > Len(s) THEN Refused
          ELSE [ok |-> TRUE, bytes |-> SubSeq(s, len.next + 1, post), next |-> post]
  BY DEF ReadBlock, BlockFrom
<1>2. len = Refused \/ (len.ok = TRUE /\ len.value \in Nat /\ len.next \in Nat)
  BY <1>0, VarintFields DEF IsVarint
<1> HIDE DEF len, b
<1>3. len.ok /\ ~(post < 0 \/ post > Len(s)) /\ b.bytes = SubSeq(s, len.next + 1, post)
  <2>1. b.ok
    BY DEF b
  <2> HIDE DEF size, post
  <2>2. b # Refused
    BY <2>1, RefusedFails
  <2>3. b = [ok |-> TRUE, bytes |-> SubSeq(s, len.next + 1, post), next |-> post]
        /\ len.ok /\ ~(post < 0 \/ post > Len(s))
    BY <1>1, <2>2
  <2>4. QED
    BY <2>3
<1>4. len.value \in Nat /\ len.next \in Nat
  BY <1>2, <1>3, RefusedFails
<1>5. post \in Int
  <2>1. WordSize \in Nat \ {0} /\ len.value \in Int
    BY <1>4, Sizes
  <2>2. size \in Int
    BY <2>1, SignedRange
  <2> HIDE DEF size
  <2>3. len.next + size \in Int
    BY <1>4, <2>2
  <2>4. QED
    BY <2>1, <2>3, SignedRange
<1> HIDE DEF post
<1> DEFINE from == len.next + 1
<1>6. from \in Int /\ \A k \in from .. post : s[k] \in Byte
  BY <1>3, <1>4, <1>5
<1> HIDE DEF from
<1>7. SubSeq(s, from, post) \in Seq(Byte)
  BY <1>5, <1>6, SubSeqProperties
<1>8. QED
  BY <1>3, <1>7 DEF b, from

\* What a case of the switch has read, if it has the type of its field.
ReadTyped(codec, f, x) ==
    x = Refused \/ (x.ok = TRUE /\ x.next \in Nat /\ FieldTyped(codec, f, x.value))

\* A field that is no message is read as a value of its type.
LEMMA ScalarReadTyped ==
  ASSUME NEW codec, NEW f, f.kind \in ScalarKinds, NEW w, NEW s \in Seq(Byte), NEW i \in Nat
  PROVE  ReadTyped(codec, f, ReadScalar(f, w, s, i))
<1> DEFINE varint == ReadVarint(s, i)
           block == ReadBlock(s, i)
           val == CASE f.kind = "int32" -> Signed(varint.value, IntSize)
                    [] f.kind = "uint64" -> varint.value
                    [] f.kind = "bool" -> varint.value # 0
           x == ReadScalar(f, w, s, i)
<1>0. s \in Seq(Int)
  BY BytesAreInts
<1>1. x = IF f.kind \in {"string", "bytes"}
          THEN IF w # 2 \/ ~block.ok THEN Refused
               ELSE [ok |-> TRUE, next |-> block.next, value |-> block.bytes]
          ELSE IF w # 0 \/ ~varint.ok THEN Refused
               ELSE [ok |-> TRUE, next |-> varint.next, value |-> val]
  BY DEF ReadScalar, BytesCase, NumberCase
<1>2. varint.ok => varint.next \in Nat /\ varint.value \in 0 .. WordSize - 1 /\ varint.value \in Int
  <2>1. varint = Refused \/ (varint.next \in Nat /\ varint.value \in 0 .. WordSize - 1
                              /\ varint.value \in Nat)
    BY <1>0, VarintFields DEF IsVarint
  <2>2. QED
    BY <2>1, RefusedFails
<1>3. block.ok => block.next \in Nat /\ block.bytes \in Seq(Byte)
  <2>1. block = Refused \/ block.next \in Nat
    BY <1>0, BlockFields DEF IsBlock
  <2>2. QED
    BY <2>1, RefusedFails, BlockBytes
<1>4. /\ f.kind = "int32" => val = Signed(varint.value, IntSize)
      /\ f.kind = "uint64" => val = varint.value
      /\ f.kind = "bool" => val = (varint.value # 0)
  OBVIOUS
<1> HIDE DEF varint, block, val, x
<1>5. ASSUME x # Refused PROVE x.ok = TRUE /\ x.next \in Nat /\ ScalarTyped(f, x.value)
  <2>1. CASE f.kind \in {"string", "bytes"}
    <3>1. block.ok /\ x = [ok |-> TRUE, next |-> block.next, value |-> block.bytes]
      BY <1>1, <1>5, <2>1
    <3>2. x.ok = TRUE /\ x.next \in Nat /\ x.value \in Seq(Byte)
      BY <1>3, <3>1
    <3>3. QED
      BY <2>1, <3>2 DEF ScalarTyped
  <2>2. CASE f.kind \notin {"string", "bytes"}
    <3>1. varint.ok /\ x = [ok |-> TRUE, next |-> varint.next, value |-> val]
      BY <1>1, <1>5, <2>2
    <3>2. x.ok = TRUE /\ x.next \in Nat /\ x.value = val
      BY <1>2, <3>1
    <3>3. CASE f.kind = "int32"
      <4>1. val \in -(IntSize \div 2) .. (IntSize \div 2) - 1
        BY <1>2, <1>4, <3>1, <3>3, IntBounds
      <4>2. QED
        BY <3>2, <3>3, <4>1 DEF ScalarTyped
    <3>4. CASE f.kind = "uint64"
      BY <1>2, <1>4, <3>1, <3>2, <3>4 DEF ScalarTyped
    <3>5. CASE f.kind = "bool"
      <4>1. x.value \in BOOLEAN
        BY <1>4, <3>2, <3>5
      <4>2. QED
        BY <3>2, <3>5, <4>1 DEF ScalarTyped
    <3>6. QED
      BY <2>2, <3>3, <3>4, <3>5 DEF ScalarKinds
  <2>3. QED
    BY <2>1, <2>2
<1>6. x # Refused => FieldTyped(codec, f, x.value)
  BY <1>5, FieldTypes
<1>7. ReadTyped(codec, f, x)
  BY <1>5, <1>6 DEF ReadTyped
<1>8. QED
  BY <1>7 DEF x

\* A loop over a message of type t has given up, or holds a message of that type.
Loop(codec, t, st) ==
    st = Refused \/ (st.ok = TRUE /\ st.next \in Nat /\ Typed(codec, t, st.msg))

\* A round puts what its case has read into the message, or leaves the message.
Outcome(codec, t, st, tag, read, y) ==
    \/ y = Refused
    \/ y.ok = TRUE /\ y.next \in Nat /\ y.msg = st.msg
    \/ /\ tag.ok = TRUE /\ tag.fieldNum \in 1 .. Count(codec, t)
       /\ read # Refused /\ y.ok = TRUE /\ y.next = read.next
       /\ y.msg = Put(st.msg, NameAt(codec, t, tag.fieldNum), read.value)

\* A round refuses, passes over a field, or writes what its case has read.
LEMMA RoundOutcome ==
  ASSUME NEW codec, NEW t, NEW s \in Seq(Int), NEW st, NEW tag, NEW read,
         codec.pulsar = FALSE, ByName(codec, t), ~Ended(s, st), st.next \in Nat, IsRead(tag)
  PROVE  Outcome(codec, t, st, tag, read, Round(codec, t, s, st, tag, read))
<1> DEFINE cases == codec.types[t].unmarshal
           end == Skip(s, st.next)
           y == Round(codec, t, s, st, tag, read)
<1>1. y = Moved(codec, t, s, st, tag, read)
  BY RoundMoves
<1>2. y = IF ~tag.ok THEN Refused
          ELSE IF tag.fieldNum \in DOMAIN cases
               THEN IF ~read.ok THEN Refused
                    ELSE [ok |-> TRUE, next |-> read.next,
                          msg |-> [st.msg EXCEPT ![cases[tag.fieldNum].name] = read.value]]
          ELSE IF ~end.ok \/ end.next > Len(s) THEN Refused
          ELSE [ok |-> TRUE, next |-> end.next, msg |-> st.msg]
  BY <1>1 DEF Moved
<1>3. IsRead(end)
  BY SkipFields
<1>4. DOMAIN cases = 1 .. Count(codec, t)
      /\ \A i \in 1 .. Count(codec, t) : cases[i].name = NameAt(codec, t, i)
  BY DEF ByName, Count, NameAt, FieldAt
<1> HIDE DEF cases, end, y
<1>5. CASE ~tag.ok
  BY <1>2, <1>5 DEF Outcome, y
<1>6. CASE tag.ok /\ tag.fieldNum \in DOMAIN cases
  <2>1. CASE ~read.ok
    BY <1>2, <1>6, <2>1 DEF Outcome, y
  <2>2. CASE read.ok
    <3> DEFINE n == NameAt(codec, t, tag.fieldNum)
    <3>1. cases[tag.fieldNum].name = n /\ tag.fieldNum \in 1 .. Count(codec, t)
      BY <1>4, <1>6
    <3> HIDE DEF n
    <3>2. y = [ok |-> TRUE, next |-> read.next, msg |-> Put(st.msg, n, read.value)]
      BY <1>2, <1>6, <2>2, <3>1 DEF Put
    <3>3. tag.ok = TRUE /\ read # Refused
      BY <1>6, <2>2, RefusedFails DEF IsRead
    <3>4. y.ok = TRUE /\ y.next = read.next /\ y.msg = Put(st.msg, n, read.value)
      BY <3>2
    <3>5. QED
      BY <3>1, <3>3, <3>4 DEF Outcome, n, y
  <2>3. QED
    BY <2>1, <2>2
<1>7. CASE tag.ok /\ tag.fieldNum \notin DOMAIN cases
  <2>1. CASE ~end.ok \/ end.next > Len(s)
    BY <1>2, <1>7, <2>1 DEF Outcome, y
  <2>2. CASE ~(~end.ok \/ end.next > Len(s))
    <3>1. end.next \in Nat
      BY <1>3, <2>2, RefusedFails DEF IsRead
    <3>2. y = [ok |-> TRUE, next |-> end.next, msg |-> st.msg]
      BY <1>2, <1>7, <2>2
    <3>3. y.ok = TRUE /\ y.next \in Nat /\ y.msg = st.msg
      BY <3>1, <3>2
    <3>4. QED
      BY <3>3 DEF Outcome, y
  <2>3. QED
    BY <2>1, <2>2
<1>8. QED
  BY <1>5, <1>6, <1>7

\* A round keeps the type of the message if its case reads the type of the field.
LEMMA RoundTyped ==
  ASSUME NEW codec, NEW leaves, NEW t \in DOMAIN codec.types, NEW s \in Seq(Int), NEW st,
         NEW tag, NEW read, codec.pulsar = FALSE, Sound(codec, leaves), Loop(codec, t, st),
         ~Ended(s, st), IsRead(tag),
         tag.ok = TRUE /\ tag.fieldNum \in 1 .. Count(codec, t)
            => ReadTyped(codec, FieldAt(codec, t, tag.fieldNum), read)
  PROVE  Loop(codec, t, Round(codec, t, s, st, tag, read))
<1> DEFINE y == Round(codec, t, s, st, tag, read)
           i == tag.fieldNum
           m == st.msg
<1>1. ByName(codec, t)
  BY FieldsByName DEF Sound
<1>2. st.ok = TRUE /\ st.next \in Nat /\ Typed(codec, t, m)
  BY RefusedFails DEF Loop, Ended
<1>3. Outcome(codec, t, st, tag, read, y)
  BY <1>1, <1>2, RoundOutcome
<1> HIDE DEF y
<1>4. CASE y = Refused
  BY <1>4 DEF Loop, y
<1>5. CASE y.ok = TRUE /\ y.next \in Nat /\ y.msg = m
  BY <1>2, <1>5 DEF Loop, y
<1>6. CASE /\ tag.ok = TRUE /\ i \in 1 .. Count(codec, t)
           /\ read # Refused /\ y.ok = TRUE /\ y.next = read.next
           /\ y.msg = Put(m, NameAt(codec, t, i), read.value)
  <2> DEFINE f == FieldAt(codec, t, i)
  <2>1. f \in Fields(codec, t) /\ f.name = NameAt(codec, t, i)
    BY <1>1, <1>6 DEF ByName, FieldAt, NameAt, Count
  <2>2. read.next \in Nat /\ FieldTyped(codec, f, read.value)
    BY <1>6 DEF ReadTyped
  <2> HIDE DEF f, m
  <2>3. Typed(codec, t, Put(m, f.name, read.value))
    BY <1>2, <2>1, <2>2, PutTyped
  <2>4. y.ok = TRUE /\ y.next \in Nat /\ Typed(codec, t, y.msg)
    BY <1>6, <2>1, <2>2, <2>3
  <2>5. QED
    BY <2>4 DEF Loop, y
<1>7. QED
  BY <1>3, <1>4, <1>5, <1>6 DEF Outcome

\* A message whose fields are scalars has its type in both senses.
LEMMA LeafIsTyped ==
  ASSUME NEW codec, NEW t, Coded(codec.types[t], {}), NEW m
  PROVE  LeafTyped(codec, t, m) <=> Typed(codec, t, m)
<1>1. ByName(codec, t)
  BY FieldsByName
<1>2. ASSUME NEW f \in Fields(codec, t) PROVE f.kind \in ScalarKinds
  <2>1. PICK i \in 1 .. Len(codec.types[t].struct) : f = codec.types[t].struct[i]
    BY <1>1 DEF ByName
  <2>2. Block(codec.types[t].struct[i], {})
    BY DEF Coded
  <2>3. QED
    BY <2>1, <2>2 DEF Block
<1>3. ASSUME NEW f \in Fields(codec, t), NEW v
      PROVE  ScalarTyped(f, v) <=> FieldTyped(codec, f, v)
  BY <1>2, FieldTypes DEF FieldTyped
<1>4. QED
  BY <1>3 DEF LeafTyped, Typed

\* A round of the loop over a message without messages keeps its type.
LEMMA LeafRoundTyped ==
  ASSUME NEW codec, NEW leaves, NEW t \in leaves, NEW s \in Seq(Byte), NEW st,
         codec.pulsar = FALSE, Sound(codec, leaves), Loop(codec, t, st)
  PROVE  Loop(codec, t, LeafRound(codec, t, s, st))
<1> DEFINE tag == ReadTag(s, st.next)
           f == codec.types[t].unmarshal[tag.fieldNum]
           read == ReadScalar(f, tag.wireType, s, tag.next)
<1>1. t \in DOMAIN codec.types /\ Coded(codec.types[t], {}) /\ s \in Seq(Int)
  BY BytesAreInts DEF Sound
<1>2. ByName(codec, t)
  BY <1>1, FieldsByName
<1>3. CASE Ended(s, st)
  BY <1>3, LeafRoundStays
<1>4. CASE ~Ended(s, st)
  <2>1. st.ok = TRUE /\ st.next \in Nat
    BY <1>4, RefusedFails DEF Loop, Ended
  <2>2. IsRead(tag)
    BY <1>1, <2>1, TagFields
  <2>3. LeafRound(codec, t, s, st) = Round(codec, t, s, st, tag, read)
    BY DEF LeafRound
  <2>4. tag.ok = TRUE /\ tag.fieldNum \in 1 .. Count(codec, t)
           => ReadTyped(codec, FieldAt(codec, t, tag.fieldNum), read)
    <3>1. SUFFICES ASSUME tag.ok = TRUE, tag.fieldNum \in 1 .. Count(codec, t)
                   PROVE  ReadTyped(codec, FieldAt(codec, t, tag.fieldNum), read)
      OBVIOUS
    <3>2. f = FieldAt(codec, t, tag.fieldNum)
      BY <1>2, <3>1 DEF ByName, FieldAt, Count
    <3>3. f.kind \in ScalarKinds
      <4>1. Block(codec.types[t].struct[tag.fieldNum], {})
        BY <1>1, <3>1 DEF Coded, Count
      <4>2. QED
        BY <3>2, <4>1 DEF Block, FieldAt
    <3>4. tag.next \in Nat
      BY <2>2, <3>1, RefusedFails DEF IsRead
    <3> HIDE DEF f, tag
    <3>5. ReadTyped(codec, f, ReadScalar(f, tag.wireType, s, tag.next))
      BY <3>3, <3>4, ScalarReadTyped
    <3>6. QED
      BY <3>2, <3>5
  <2> HIDE DEF tag, read
  <2>5. Loop(codec, t, Round(codec, t, s, st, tag, read))
    BY <1>1, <1>4, <2>2, <2>4, RoundTyped
  <2>6. QED
    BY <2>3, <2>5
<1>5. QED
  BY <1>3, <1>4

\* Rounds that keep the type of the message keep it to the end.
LEMMA LoopKeeps ==
  ASSUME NEW codec, NEW t, NEW n \in Nat, NEW r, Loop(codec, t, r[0]),
         \A k \in 0 .. n - 1 : Loop(codec, t, r[k]) => Loop(codec, t, r[k + 1])
  PROVE  Loop(codec, t, r[n])
<1> DEFINE Good == {k \in Nat : k <= n => Loop(codec, t, r[k])}
<1>1. 0 \in Good
  OBVIOUS
<1>2. ASSUME NEW k \in Nat, k \in Good PROVE k + 1 \in Good
  <2>1. SUFFICES ASSUME k + 1 <= n PROVE Loop(codec, t, r[k + 1])
    OBVIOUS
  <2>2. k \in 0 .. n - 1 /\ Loop(codec, t, r[k])
    BY <1>2, <2>1
  <2>3. QED
    BY <2>2
<1> HIDE DEF Good
<1>3. n \in Good
  BY <1>1, <1>2, NatSetInduction
<1>4. QED
  BY <1>3 DEF Good

\* The decoder of a message without messages refuses, or returns one.
LEMMA LeafDecodes ==
  ASSUME NEW codec, NEW leaves, NEW t \in leaves, NEW s \in Seq(Byte), NEW m,
         codec.pulsar = FALSE, Sound(codec, leaves), LeafTyped(codec, t, m)
  PROVE  LET x == LeafUnmarshal(codec, t, m, s)
         IN  x = Refused \/ (x.ok = TRUE /\ x.next \in Nat /\ LeafTyped(codec, t, x.msg))
<1> DEFINE x == LeafUnmarshal(codec, t, m, s)
           n == Len(s)
<1>1. Coded(codec.types[t], {}) /\ s \in Seq(Int) /\ n \in Nat
  BY BytesAreInts DEF Sound
<1>2. PICK r : LeafRuns(r, n, codec, t, m, s) /\ x = r[n]
  BY <1>1, LeafUnmarshalDef
<1> HIDE DEF x, n
<1>3. \A k \in 0 .. n : r[k] = IF k = 0 THEN Stand(0, m) ELSE LeafRound(codec, t, s, r[k - 1])
  BY <1>2 DEF LeafRuns, Stand
<1>4. Loop(codec, t, r[0])
  <2>1. r[0] = Stand(0, m)
    <3>1. 0 \in 0 .. n
      BY <1>1
    <3>2. QED
      BY <1>3, <3>1
  <2>2. Typed(codec, t, m)
    BY <1>1, LeafIsTyped
  <2>3. r[0].ok = TRUE /\ r[0].next = 0 /\ r[0].msg = m
    BY <2>1 DEF Stand
  <2>4. QED
    BY <2>2, <2>3 DEF Loop
<1>5. ASSUME NEW k \in 0 .. n - 1, Loop(codec, t, r[k]) PROVE Loop(codec, t, r[k + 1])
  <2>1. k + 1 \in 0 .. n /\ k + 1 # 0 /\ (k + 1) - 1 = k
    BY <1>1
  <2>2. r[k + 1] = LeafRound(codec, t, s, r[k])
    BY <1>3, <2>1
  <2>3. Loop(codec, t, LeafRound(codec, t, s, r[k]))
    BY <1>5, LeafRoundTyped
  <2>4. QED
    BY <2>2, <2>3
<1>6. Loop(codec, t, r[n])
  BY <1>1, <1>4, <1>5, LoopKeeps
<1>7. QED
  BY <1>1, <1>2, <1>6, LeafIsTyped DEF Loop, x

\* A message that is read into a field has the type of the field.
LEMMA MessageReadTyped ==
  ASSUME NEW codec, NEW leaves, NEW f, NEW w, NEW old, NEW s \in Seq(Byte), NEW i \in Nat,
         codec.pulsar = FALSE, Sound(codec, leaves), f.kind \in MessageKinds, f.sub \in leaves,
         FieldTyped(codec, f, old)
  PROVE  ReadTyped(codec, f, ReadMessage(codec, f, w, old, s, i))
<1> DEFINE block == ReadBlock(s, i)
           target == Target(codec, f, old)
           inner == LeafUnmarshal(codec, f.sub, target, block.bytes)
           x == ReadMessage(codec, f, w, old, s, i)
<1>0. s \in Seq(Int)
  BY BytesAreInts
<1>1. x = IF w # 2 \/ ~block.ok \/ ~inner.ok THEN Refused
          ELSE [ok |-> TRUE, next |-> block.next, value |-> Placed(f, old, inner.msg)]
  BY ReadMessageParts
<1>2. block.ok => block.next \in Nat /\ block.bytes \in Seq(Byte)
  <2>1. block = Refused \/ block.next \in Nat
    BY <1>0, BlockFields DEF IsBlock
  <2>2. QED
    BY <2>1, RefusedFails, BlockBytes
<1>3. LeafTyped(codec, f.sub, LeafNew(codec, f.sub))
  BY LeavesOfField
<1>4. /\ f.kind = "nested" => LeafTyped(codec, f.sub, old)
      /\ f.kind \in {"pointer", "list"} => LeavesTyped(codec, f.sub, old)
  BY DEF FieldTyped
<1>5. LeafTyped(codec, f.sub, target)
  <2>1. CASE f.kind = "nested"
    BY <1>4, <2>1 DEF Target
  <2>2. CASE f.kind = "pointer" /\ Len(old) > 0
    <3>1. PICK S : old \in Seq(S) /\ \A q \in S : LeafTyped(codec, f.sub, q)
      BY <1>4, <2>2 DEF LeavesTyped
    <3>2. old[1] \in S
      BY <2>2, <3>1
    <3>3. target = old[1]
      BY <2>2 DEF Target
    <3>4. QED
      BY <3>1, <3>2, <3>3
  <2>3. CASE ~(f.kind = "nested") /\ ~(f.kind = "pointer" /\ Len(old) > 0)
    <3>1. target = LeafNew(codec, f.sub)
      BY <2>3 DEF Target
    <3>2. QED
      BY <1>3, <3>1
  <2>4. QED
    BY <2>1, <2>2, <2>3
<1> HIDE DEF block, target, x
<1>6. block.ok /\ inner.ok => LeafTyped(codec, f.sub, inner.msg)
  <2>1. SUFFICES ASSUME block.ok, inner.ok PROVE LeafTyped(codec, f.sub, inner.msg)
    OBVIOUS
  <2>2. block.bytes \in Seq(Byte)
    BY <1>2, <2>1
  <2>3. inner = Refused \/ LeafTyped(codec, f.sub, inner.msg)
    BY <1>5, <2>2, LeafDecodes
  <2>4. QED
    BY <2>1, <2>3, RefusedFails
<1> HIDE DEF inner
<1>7. ASSUME x # Refused PROVE x.ok = TRUE /\ x.next \in Nat /\ FieldTyped(codec, f, x.value)
  <2> DEFINE e == inner.msg
             v == Placed(f, old, e)
  <2>1. /\ block.ok /\ inner.ok
        /\ x = [ok |-> TRUE, next |-> block.next, value |-> v]
    BY <1>1, <1>7
  <2>2. LeafTyped(codec, f.sub, e)
    BY <1>6, <2>1
  <2> HIDE DEF e
  <2>3. FieldTyped(codec, f, v)
    <3>1. CASE f.kind = "nested"
      <4>1. v = e
        BY <3>1 DEF Placed
      <4>2. QED
        BY <2>2, <3>1, <4>1, FieldTypes
    <3>2. CASE f.kind = "pointer"
      <4>1. v = <<e>>
        BY <3>2 DEF Placed
      <4>2. LeavesTyped(codec, f.sub, <<e>>) /\ Len(<<e>>) = 1
        BY <2>2, OneLeaf
      <4>3. LeavesTyped(codec, f.sub, v) /\ Len(v) <= 1
        BY <4>1, <4>2
      <4> HIDE DEF v
      <4>4. QED
        BY <3>2, <4>3, FieldTypes
    <3>3. CASE f.kind = "list"
      <4>1. v = Append(old, e)
        BY <3>3 DEF Placed
      <4>2. LeavesTyped(codec, f.sub, Append(old, e))
        BY <1>4, <2>2, <3>3, OneMoreLeaf
      <4>3. LeavesTyped(codec, f.sub, v)
        BY <4>1, <4>2
      <4> HIDE DEF v
      <4>4. QED
        BY <3>3, <4>3, FieldTypes
    <3>4. QED
      BY <3>1, <3>2, <3>3 DEF MessageKinds
  <2> HIDE DEF v
  <2>4. x.ok = TRUE /\ x.next = block.next /\ x.value = v
    BY <2>1
  <2>5. QED
    BY <1>2, <2>1, <2>3, <2>4
<1>8. QED
  BY <1>7 DEF ReadTyped, x

\* A round of the loop keeps the type of the message.
LEMMA MessageRoundTyped ==
  ASSUME NEW codec, NEW leaves, NEW t \in DOMAIN codec.types, NEW s \in Seq(Byte), NEW st,
         codec.pulsar = FALSE, Sound(codec, leaves), Loop(codec, t, st)
  PROVE  Loop(codec, t, MessageRound(codec, t, s, st))
<1> DEFINE tag == ReadTag(s, st.next)
           f == codec.types[t].unmarshal[tag.fieldNum]
           old == st.msg[f.name]
           read == CaseRead(codec, f, tag, old, s)
<1>1. Coded(codec.types[t], leaves) /\ s \in Seq(Int)
  BY BytesAreInts DEF Sound
<1>2. ByName(codec, t)
  BY <1>1, FieldsByName
<1>3. CASE Ended(s, st)
  BY <1>3, MessageRoundStays
<1>4. CASE ~Ended(s, st)
  <2>1. st.ok = TRUE /\ st.next \in Nat /\ Typed(codec, t, st.msg)
    BY <1>4, RefusedFails DEF Loop, Ended
  <2>2. IsRead(tag)
    BY <1>1, <2>1, TagFields
  <2>3. MessageRound(codec, t, s, st) = Round(codec, t, s, st, tag, read)
    BY DEF MessageRound, CaseRead
  <2>4. tag.ok = TRUE /\ tag.fieldNum \in 1 .. Count(codec, t)
           => ReadTyped(codec, FieldAt(codec, t, tag.fieldNum), read)
    <3>1. SUFFICES ASSUME tag.ok = TRUE, tag.fieldNum \in 1 .. Count(codec, t)
                   PROVE  ReadTyped(codec, FieldAt(codec, t, tag.fieldNum), read)
      OBVIOUS
    <3>2. f = FieldAt(codec, t, tag.fieldNum) /\ f \in Fields(codec, t)
      BY <1>2, <3>1 DEF ByName, FieldAt, Count
    <3>3. Block(f, leaves)
      <4>1. Block(codec.types[t].struct[tag.fieldNum], leaves)
        BY <1>1, <3>1 DEF Coded, Count
      <4>2. QED
        BY <3>2, <4>1 DEF FieldAt
    <3>4. tag.next \in Nat
      BY <2>2, <3>1, RefusedFails DEF IsRead
    <3>5. FieldTyped(codec, f, old)
      BY <2>1, <3>2 DEF Typed
    <3> HIDE DEF f, tag, old
    <3>6. CASE f.kind \in ScalarKinds
      <4>1. read = ReadScalar(f, tag.wireType, s, tag.next)
        BY <3>6 DEF CaseRead, ScalarKinds
      <4>2. ReadTyped(codec, f, ReadScalar(f, tag.wireType, s, tag.next))
        BY <3>4, <3>6, ScalarReadTyped
      <4>3. QED
        BY <3>2, <4>1, <4>2
    <3>7. CASE f.kind \in MessageKinds
      <4>1. read = ReadMessage(codec, f, tag.wireType, old, s, tag.next)
        BY <3>7 DEF CaseRead, MessageKinds
      <4>2. f.sub \in leaves
        BY <3>3, <3>7 DEF Block, ScalarKinds, MessageKinds
      <4>3. ReadTyped(codec, f, ReadMessage(codec, f, tag.wireType, old, s, tag.next))
        BY <3>4, <3>5, <3>7, <4>2, MessageReadTyped
      <4>4. QED
        BY <3>2, <4>1, <4>3
    <3>8. QED
      BY <3>3, <3>6, <3>7 DEF Block
  <2> HIDE DEF tag, read
  <2>5. Loop(codec, t, Round(codec, t, s, st, tag, read))
    BY <1>1, <1>4, <2>2, <2>4, RoundTyped
  <2>6. QED
    BY <2>3, <2>5
<1>5. QED
  BY <1>3, <1>4

(***************************************************************************)
(* Whatever bytes it is given, a gogoproto decoder refuses or returns a    *)
(* message of the type: no number is out of its range, no list or pointer  *)
(* holds anything but messages of its type.                                *)
(***************************************************************************)
THEOREM DecodesTyped ==
  ASSUME NEW codec, NEW leaves, NEW t \in DOMAIN codec.types, NEW s \in Seq(Byte),
         codec.pulsar = FALSE, Sound(codec, leaves)
  PROVE  Loop(codec, t, Unmarshal(codec, t, s))
<1> DEFINE x == Unmarshal(codec, t, s)
           n == Len(s)
           z == New(codec, t)
<1>1. s \in Seq(Int) /\ n \in Nat
  BY BytesAreInts
<1>2. PICK r : MessageRuns(r, n, codec, t, s) /\ x = r[n]
  BY <1>1, UnmarshalDef
<1>3. \A k \in 0 .. n : r[k] = IF k = 0 THEN Stand(0, z) ELSE MessageRound(codec, t, s, r[k - 1])
  BY <1>2 DEF MessageRuns, Stand
<1>4. Typed(codec, t, z)
  BY NewTyped
<1> HIDE DEF x, n, z
<1>5. Loop(codec, t, r[0])
  <2>1. r[0] = Stand(0, z)
    <3>1. 0 \in 0 .. n
      BY <1>1
    <3>2. QED
      BY <1>3, <3>1
  <2>2. r[0].ok = TRUE /\ r[0].next = 0 /\ r[0].msg = z
    BY <2>1 DEF Stand
  <2>3. QED
    BY <1>4, <2>2 DEF Loop
<1>6. ASSUME NEW k \in 0 .. n - 1, Loop(codec, t, r[k]) PROVE Loop(codec, t, r[k + 1])
  <2>1. k + 1 \in 0 .. n /\ k + 1 # 0 /\ (k + 1) - 1 = k
    BY <1>1
  <2>2. r[k + 1] = MessageRound(codec, t, s, r[k])
    BY <1>3, <2>1
  <2>3. Loop(codec, t, MessageRound(codec, t, s, r[k]))
    BY <1>6, MessageRoundTyped
  <2>4. QED
    BY <2>2, <2>3
<1>7. Loop(codec, t, r[n])
  BY <1>1, <1>5, <1>6, LoopKeeps
<1>8. QED
  BY <1>2, <1>7 DEF x

-----------------------------------------------------------------------------
(* The answer to a query.                                                  *)

\* A gogoproto message of type q holds one message of type n by value, under the name n.
Holds(p, q, n) ==
    /\ q \in DOMAIN Pb(p).types /\ n \in Leaves(p) /\ Count(Pb(p), q) = 1
    /\ FieldAt(Pb(p), q, 1).name = n /\ FieldAt(Pb(p), q, 1).sub = n
    /\ FieldAt(Pb(p), q, 1).kind = "nested"

\* So does the pulsar message, behind a pointer.
Points(p, q, n) ==
    /\ q \in DOMAIN Pulsar(p).types /\ n \in Leaves(p) /\ Count(Pulsar(p), q) = 1
    /\ FieldAt(Pulsar(p), q, 1).name = n /\ FieldAt(Pulsar(p), q, 1).sub = n
    /\ FieldAt(Pulsar(p), q, 1).kind = "pointer"

\* The parameters inside their answer, in both packages.
LEMMA ParamsHeld ==
  ASSUME NEW p
  PROVE  Holds(p, "QueryParamsResponse", "Params")
<1> DEFINE q == "QueryParamsResponse"
           st == Pb(p).types[q].struct
<1>1. /\ Len(PbT!QueryParamsResponse_Struct) = 1
      /\ PbT!QueryParamsResponse_Struct[1] = PbT!Nested("Params", "Params")
  BY DEF PbT!QueryParamsResponse_Struct
<1>2. PbT!Types[q].struct = PbT!QueryParamsResponse_Struct
  BY DEF PbT!Types, PbT!Methods
<1>3. PbM!Types[q] = PbT!Types[q]
  BY EqualTables
<1>4. st = PbT!QueryParamsResponse_Struct
  <2>1. CASE p = "tokenfactory"
    BY <1>2, <2>1 DEF Pb
  <2>2. CASE p # "tokenfactory"
    BY <1>2, <1>3, <2>2 DEF Pb
  <2>3. QED
    BY <2>1, <2>2
<1>5. q \in DOMAIN Pb(p).types
  BY TypeNames DEF Pb
<1>6. "Params" \in Leaves(p)
  BY DEF Leaves
<1>7. Len(st) = 1 /\ st[1] = PbT!Nested("Params", "Params")
  BY <1>1, <1>4
<1> HIDE DEF st
<1>8. st[1].name = "Params" /\ st[1].sub = "Params" /\ st[1].kind = "nested"
  BY <1>7 DEF PbT!Nested, PbT!Field
<1>9. Count(Pb(p), q) = Len(st) /\ FieldAt(Pb(p), q, 1) = st[1]
  BY DEF Count, FieldAt, st
<1>10. QED
  BY <1>5, <1>6, <1>7, <1>8, <1>9 DEF Holds

\* A record inside the answer to its query.
LEMMA DenomHeld == Holds("tokenfactory", "QueryGetDenomResponse", "Denom")
<1> DEFINE q == "QueryGetDenomResponse"
           p == "tokenfactory"
           st == Pb(p).types[q].struct
<1>1. /\ Len(PbT!QueryGetDenomResponse_Struct) = 1
      /\ PbT!QueryGetDenomResponse_Struct[1] = PbT!Nested("Denom", "Denom")
  BY DEF PbT!QueryGetDenomResponse_Struct
<1>2. PbT!Types[q].struct = PbT!QueryGetDenomResponse_Struct
  BY DEF PbT!Types, PbT!Methods
<1>4. st = PbT!QueryGetDenomResponse_Struct
  BY <1>2 DEF Pb
<1>5. q \in DOMAIN Pb(p).types
  BY TypeNames DEF Pb
<1>6. "Denom" \in Leaves(p)
  BY DEF Leaves
<1>7. Len(st) = 1 /\ st[1] = PbT!Nested("Denom", "Denom")
  BY <1>1, <1>4
<1> HIDE DEF st
<1>8. st[1].name = "Denom" /\ st[1].sub = "Denom" /\ st[1].kind = "nested"
  BY <1>7 DEF PbT!Nested, PbT!Field
<1>9. Count(Pb(p), q) = Len(st) /\ FieldAt(Pb(p), q, 1) = st[1]
  BY DEF Count, FieldAt, st
<1>10. QED
  BY <1>5, <1>6, <1>7, <1>8, <1>9 DEF Holds

\* What one version holds by value, the other one has behind a pointer.
LEMMA HeldPoints ==
  ASSUME NEW p, NEW q, NEW n, Holds(p, q, n)
  PROVE  Points(p, q, n) /\ Names(Pb(p), q) = {n} /\ Names(Pulsar(p), q) = {n}
<1>1. Tables(Pb(p).types, Pulsar(p).types, Leaves(p)) /\ q \in DOMAIN Pb(p).types
  BY PackageTables DEF Holds
<1>2. SameFields(Pb(p).types[q], Pulsar(p).types[q]) /\ q \in DOMAIN Pulsar(p).types
  BY <1>1 DEF Tables
<1>3. Count(Pb(p), q) = 1
  BY DEF Holds
<1>4. Count(Pulsar(p), q) = 1
  BY <1>2, <1>3 DEF SameFields, Count
<1> DEFINE f == FieldAt(Pb(p), q, 1)
           g == FieldAt(Pulsar(p), q, 1)
<1>5. f.name = g.name /\ f.sub = g.sub /\ g.kind = IF f.kind = "nested" THEN "pointer" ELSE f.kind
  BY <1>2, <1>3 DEF SameFields, Count, FieldAt
<1>6. Points(p, q, n)
  <2>1. f.name = n /\ f.sub = n /\ f.kind = "nested" /\ n \in Leaves(p)
    BY DEF Holds
  <2> HIDE DEF f, g
  <2>2. g.name = n /\ g.sub = n /\ g.kind = "pointer"
    BY <1>5, <2>1
  <2>3. QED
    BY <1>2, <1>4, <2>1, <2>2 DEF Points, g
<1>7. Names(Pb(p), q) = {n}
  <2>1. ByName(Pb(p), q)
    BY <1>1, FieldsByName DEF Tables
  <2>2. \A i \in 1 .. 1 : i = 1
    OBVIOUS
  <2>3. /\ FieldAt(Pb(p), q, 1).name \in Names(Pb(p), q)
        /\ \A x \in Names(Pb(p), q) : \E i \in 1 .. 1 : FieldAt(Pb(p), q, i).name = x
    BY <1>3, <2>1 DEF ByName, Count, FieldAt
  <2>4. \A x \in Names(Pb(p), q) : x = FieldAt(Pb(p), q, 1).name
    BY <2>2, <2>3
  <2>5. FieldAt(Pb(p), q, 1).name = n
    BY DEF Holds
  <2>6. QED
    BY <2>3, <2>4, <2>5
<1>8. Names(Pulsar(p), q) = Names(Pb(p), q)
  BY <1>1, TwoVersions DEF Versions
<1>9. QED
  BY <1>6, <1>7, <1>8

\* The answer that holds rec.
Envelope(n, rec) == [x \in {n} |-> rec]

\* It is the bytes of rec behind the tag of field 1 and their length.
LEMMA EnvelopeBytes ==
  ASSUME NEW p, NEW q, NEW n, Holds(p, q, n), NEW rec, LeafTyped(Pb(p), n, rec)
  PROVE  /\ Typed(Pb(p), q, Envelope(n, rec))
         /\ Marshal(Pb(p), q, Envelope(n, rec)) = Delimited(10, Body(Pb(p), n, rec))
<1> DEFINE codec == Pb(p)
           leaves == Leaves(p)
           m == Envelope(n, rec)
           f == FieldAt(codec, q, 1)
           body == Body(codec, n, rec)
<1>1. Sound(codec, leaves) /\ codec.pulsar = FALSE
  BY CodecsSound DEF Pb
<1>2. /\ q \in DOMAIN codec.types /\ n \in leaves /\ Count(codec, q) = 1
      /\ f.name = n /\ f.sub = n /\ f.kind = "nested"
  BY DEF Holds
<1>3. Names(codec, q) = {n}
  BY HeldPoints
<1>4. ByName(codec, q) /\ Coded(codec.types[q], leaves)
  BY <1>1, <1>2, FieldsByName DEF Sound
<1>5. \A g \in Fields(codec, q) : g = f
  <2>1. \A i \in 1 .. 1 : i = 1
    OBVIOUS
  <2>2. \A g \in Fields(codec, q) : \E i \in 1 .. 1 : g = FieldAt(codec, q, i)
    BY <1>2, <1>4 DEF ByName, Count, FieldAt
  <2>3. QED
    BY <2>1, <2>2
<1>6. m[n] = rec
  BY DEF Envelope
<1>7. Typed(codec, q, m)
  <2>1. AllNames(codec, q) = {n}
    BY <1>1, <1>3 DEF AllNames
  <2>2. Whole(codec, q, m)
    BY <2>1, <1>6 DEF Whole, Envelope
  <2>3. Unknown(codec, m) = <<>>
    BY <1>1 DEF Unknown
  <2> HIDE DEF f, m, codec
  <2>4. FieldTyped(codec, f, m[f.name])
    BY <1>2, <1>6 DEF FieldTyped, ScalarKinds, codec
  <2>5. QED
    BY <1>5, <2>2, <2>3, <2>4 DEF Typed
<1>8. body \in Seq(Byte)
  BY <1>1, <1>2, BodyParts
<1>9. FieldBytes(codec, At(10, f), rec) = Delimited(10, body) /\ 10 \in Byte
  <2>1. 10 \in Byte
    BY DEF Byte
  <2> HIDE DEF codec, leaves, f
  <2>2. LeafTyped(codec, f.sub, rec)
    BY <1>2 DEF codec
  <2>3. QED
    BY <1>1, <1>2, <2>1, <2>2, FieldPartsOfNested
<1>10. PICK w : Laid(w, Len(codec.types[q].struct), Blocks(codec, q, m)) /\ Marshal(codec, q, m) = w[1]
  BY <1>1, <1>2, <1>7, MarshalFits
<1>11. Blocks(codec, q, m)[1] = FieldBytes(codec, At(Tag(f, 1), f), m[f.name])
  <2>1. 1 \in 1 .. Len(codec.types[q].struct)
    BY <1>2 DEF Count
  <2>2. QED
    BY <2>1 DEF Blocks, FieldAt
<1>12. Tag(f, 1) = 10
  BY <1>2 DEF Tag, WireType
<1>13. Blocks(codec, q, m)[1] = Delimited(10, body)
  BY <1>2, <1>6, <1>9, <1>11, <1>12
<1> HIDE DEF m, body
<1>14. w[1] = Delimited(10, body) \o <<>>
  <2>1. Len(codec.types[q].struct) = 1
    BY <1>2 DEF Count
  <2>2. w[1] = Blocks(codec, q, m)[1] \o w[2] /\ w[2] = <<>>
    BY <1>10, <2>1 DEF Laid
  <2>3. QED
    BY <1>13, <2>2
<1>15. Delimited(10, body) \in Seq(Byte)
  BY <1>8, <1>9, DelimitedParts
<1>16. Delimited(10, body) \o <<>> = Delimited(10, body)
  <2> DEFINE d == Delimited(10, body)
  <2> HIDE DEF d
  <2>1. d \in Seq(Byte)
    BY <1>15 DEF d
  <2>2. d \o <<>> = d
    BY <2>1
  <2>3. QED
    BY <2>2 DEF d
<1>17. QED
  BY <1>7, <1>10, <1>14, <1>16 DEF m, body

\* The pulsar program finds the content of rec in the answer s.
AnswerShown(p, q, n, rec, s) ==
    LET shown == Unmarshal(Pulsar(p), q, s)
    IN  /\ shown.ok /\ shown.msg[n] # <<>>
        /\ \A x \in Names(Pb(p), n) : shown.msg[n][1][x] = rec[x]

\* The decoder of the pulsar program reads the content of rec from its bytes c.
RecordRead(p, n, rec, c) ==
    LET inner == LeafUnmarshal(Pulsar(p), n, LeafNew(Pulsar(p), n), c)
    IN  /\ inner.ok = TRUE
        /\ \A x \in Names(Pb(p), n) : inner.msg[x] = rec[x]

\* The decoder of the pulsar program reads the record from the bytes that the node has
\* stored.
LEMMA RecordAgrees ==
  ASSUME NEW p, NEW n \in Leaves(p), NEW rec, LeafTyped(Pb(p), n, rec), NEW c, c \in Seq(Byte),
         c = Body(Pb(p), n, rec), Short(c)
  PROVE  RecordRead(p, n, rec, c)
<1> DEFINE a == LeafUnmarshal(Pb(p), n, LeafNew(Pb(p), n), c)
           b == LeafUnmarshal(Pulsar(p), n, LeafNew(Pulsar(p), n), c)
<1>1. Sound(Pb(p), Leaves(p))
  BY CodecsSound
<1>2. c = LeafWritten(Pb(p), n, rec)
  BY <1>1, BodyParts
<1>3. LeafReadBack(Pb(p), n, rec)
  BY <1>1, <1>2, LeafReads
<1>4. a.ok = TRUE /\ a.msg = rec
  BY <1>2, <1>3 DEF LeafReadBack, Stand
<1>5. LeafAgree(p, n, a, b)
  <2>1. c \in Seq(Int)
    BY BytesAreInts
  <2>2. /\ DOMAIN LeafNew(Pulsar(p), n) = AllNames(Pulsar(p), n)
        /\ LeafAsStruct(p, n, LeafNew(Pulsar(p), n)) = LeafNew(Pb(p), n)
    BY LeafNewAgree
  <2>3. LeafAgree(p, n, LeafUnmarshal(Pb(p), n, LeafAsStruct(p, n, LeafNew(Pulsar(p), n)), c), b)
    BY <2>1, <2>2, LeavesAgree
  <2>4. QED
    BY <2>2, <2>3
<1> HIDE DEF a, b
<1>6. b.ok = TRUE /\ rec = LeafAsStruct(p, n, b.msg)
  <2>1. a # Refused
    BY <1>4, RefusedFails
  <2>2. QED
    BY <1>4, <1>5, <2>1 DEF LeafAgree
<1>7. \A x \in Names(Pb(p), n) : b.msg[x] = rec[x]
  BY <1>6 DEF LeafAsStruct
<1>8. QED
  BY <1>6, <1>7 DEF b, RecordRead

\* The decoder of the pulsar program finds the record in the answer of the node.
LEMMA AnswerReads ==
  ASSUME NEW p, NEW q, NEW n, Holds(p, q, n), NEW rec, LeafTyped(Pb(p), n, rec),
         NEW s, s = Marshal(Pb(p), q, Envelope(n, rec)), Short(s)
  PROVE  AnswerShown(p, q, n, rec, s)
<1> DEFINE codec == Pulsar(p)
           leaves == Leaves(p)
           c == Body(Pb(p), n, rec)
           f == FieldAt(codec, q, 1)
           z == New(codec, q)
           inner == LeafUnmarshal(codec, n, LeafNew(codec, n), c)
           v == <<inner.msg>>
<1>1. Sound(codec, leaves) /\ Sound(Pb(p), leaves)
  BY CodecsSound
<1>2. /\ q \in DOMAIN codec.types /\ n \in leaves /\ Count(codec, q) = 1
      /\ f.name = n /\ f.sub = n /\ f.kind = "pointer"
  BY HeldPoints DEF Points
<1>3. ByName(codec, q)
  BY <1>1, <1>2, FieldsByName DEF Sound
<1>4. s = Delimited(10, c) /\ c \in Seq(Byte) /\ 10 \in Byte
  <2>1. 10 \in Byte
    BY DEF Byte
  <2>2. QED
    BY <1>1, <1>2, <2>1, EnvelopeBytes, BodyParts
<1>5. s \in Seq(Byte) /\ s \in Seq(Int) /\ Len(s) \in Nat
  <2>1. s \in Seq(Byte)
    BY <1>4, DelimitedParts
  <2>2. QED
    BY <2>1, BytesAreInts
<1> HIDE DEF c
<1>6. StandsAt(s, 0, s)
  BY <1>5 DEF StandsAt
<1>7. DelimitedRead(s, 0, 10, c)
  <2>1. StandsAt(s, 0, Delimited(10, c))
    BY <1>4, <1>6
  <2>2. QED
    BY <1>4, <1>5, <2>1, DelimitedReads
<1>8. Short(c)
  <2>1. StandsAt(s, 0, Delimited(10, c))
    BY <1>4, <1>6
  <2>2. QED
    BY <1>4, <1>5, <2>1, ContentShort
<1>9. inner.ok = TRUE /\ \A x \in Names(Pb(p), n) : inner.msg[x] = rec[x]
  <2>1. n \in Leaves(p) /\ c = Body(Pb(p), n, rec)
    BY <1>2 DEF c
  <2>2. RecordRead(p, n, rec, c)
    BY <1>4, <1>8, <2>1, RecordAgrees
  <2>3. QED
    BY <2>2 DEF RecordRead
<1>10. z[n] = <<>>
  <2>1. f \in Fields(codec, q)
    BY <1>2, <1>3 DEF ByName, Count, FieldAt
  <2>2. z[f.name] = Zero(codec, f)
    BY <1>3, <2>1, NewField
  <2> HIDE DEF f, z, codec
  <2>3. Zero(codec, f) = <<>>
    BY <1>2 DEF Zero, ZeroValue
  <2>4. QED
    BY <1>2, <2>2, <2>3
<1> HIDE DEF inner, z
<1>11. MessageCase(codec, f, 1, s, 0, z, Len(s), v)
  <2>1. Tag(f, 1) = 10 /\ WireType(f.kind) = 2
    BY <1>2 DEF Tag, WireType
  <2>2. /\ StandsAt(s, 0, <<10>>)
        /\ ReadBlock(s, 0 + 1) = [ok |-> TRUE, bytes |-> c, next |-> 0 + Len(Delimited(10, c))]
    BY <1>7 DEF DelimitedRead
  <2> DEFINE block == ReadBlock(s, 0 + 1)
  <2>3. block.ok = TRUE /\ block.bytes = c /\ block.next = Len(s)
    BY <1>4, <1>5, <2>2
  <2> HIDE DEF block, f
  <2>4. Len(<<>>) = 0 /\ Target(codec, f, <<>>) = LeafNew(codec, n) /\ Placed(f, <<>>, inner.msg) = v
    BY <1>2 DEF Target, Placed
  <2>5. inner = LeafUnmarshal(codec, f.sub, Target(codec, f, <<>>), block.bytes)
    BY <1>2, <2>3, <2>4 DEF inner
  <2>6. ReadMessage(codec, f, 2, <<>>, s, 0 + 1) = [ok |-> TRUE, next |-> Len(s), value |-> v]
    BY <1>9, <2>3, <2>4, <2>5, ReadMessageParts DEF block
  <2>7. CaseRead(codec, f, TagOf(f, 1, 0), z[f.name], s) = ReadMessage(codec, f, 2, <<>>, s, 0 + 1)
    <3>1. TagOf(f, 1, 0).wireType = 2 /\ TagOf(f, 1, 0).next = 0 + 1
      BY <2>1 DEF TagOf
    <3>2. z[f.name] = <<>> /\ f.kind \in {"nested", "pointer", "list"}
      BY <1>2, <1>10
    <3>3. QED
      BY <3>1, <3>2 DEF CaseRead
  <2> HIDE DEF v
  <2>8. CaseRead(codec, f, TagOf(f, 1, 0), z[f.name], s) = [ok |-> TRUE, next |-> Len(s), value |-> v]
    BY <2>6, <2>7
  <2>9. 1 \in 1 .. 9 /\ StandsAt(s, 0, <<Tag(f, 1)>>)
    BY <2>1, <2>2
  <2>10. QED
    BY <2>8, <2>9 DEF MessageCase
<1>12. PICK r : MessageRuns(r, Len(s), codec, q, s) /\ Unmarshal(codec, q, s) = r[Len(s)]
  BY <1>5, UnmarshalDef
<1>13. \A k \in 0 .. Len(s) : r[k] = IF k = 0 THEN [ok |-> TRUE, next |-> 0, msg |-> z]
                                     ELSE MessageRound(codec, q, s, r[k - 1])
  BY <1>12 DEF MessageRuns, z
<1>14. r[0] = Stand(0, z)
  <2>1. 0 \in 0 .. Len(s)
    BY <1>5
  <2>2. QED
    BY <1>13, <2>1 DEF Stand
<1>15. Rounds(r, s, codec, q)
  <2>1. SUFFICES ASSUME NEW k \in 0 .. Len(s) - 1
                 PROVE r[k + 1] = MessageRound(codec, q, s, r[k])
    BY DEF Rounds
  <2>2. k + 1 \in 0 .. Len(s) /\ k + 1 # 0 /\ (k + 1) - 1 = k
    BY <1>5
  <2>3. QED
    BY <1>13, <2>2
<1>16. Stays(r, s)
  <2>1. \A k \in 0 .. Len(s) - 1 : Ended(s, r[k]) => MessageRound(codec, q, s, r[k]) = r[k]
    BY MessageRoundStays
  <2>2. QED
    BY <1>15, <2>1 DEF Stays, Rounds
<1>17. Reached(r, Len(s), Put(z, n, v))
  <2>1. 0 < Len(s)
    BY <1>4, <1>7 DEF DelimitedRead
  <2>2. Reached(r, 0, z)
    <3>1. 0 \in 0 .. 0
      OBVIOUS
    <3>2. QED
      BY <1>14, <3>1 DEF Reached
  <2>3. 1 \in 1 .. Count(codec, q) /\ NameAt(codec, q, 1) = n
    BY <1>2 DEF NameAt
  <2>4. Reached(r, Len(s), Put(z, NameAt(codec, q, 1), v))
    BY <1>3, <1>5, <1>11, <1>15, <2>1, <2>2, <2>3, CaseTaken
  <2>5. QED
    BY <2>3, <2>4
<1>18. Unmarshal(codec, q, s) = Stand(Len(s), Put(z, n, v))
  BY <1>5, <1>12, <1>16, <1>17, EndStays
<1>19. n \in DOMAIN z
  <2>1. Typed(codec, q, z)
    BY <1>1, <1>2, NewTyped DEF z
  <2>2. z = [x \in AllNames(codec, q) |-> z[x]]
    BY <2>1 DEF Typed, Whole
  <2>3. n \in AllNames(codec, q)
    BY HeldPoints DEF AllNames
  <2>4. QED
    BY <2>2, <2>3
<1>20. Put(z, n, v)[n] = v
  BY <1>19 DEF Put
<1>21. v # <<>> /\ v[1] = inner.msg
  OBVIOUS
<1> HIDE DEF v
<1>22. QED
  BY <1>9, <1>18, <1>20, <1>21 DEF AnswerShown, Stand

\* The members of a list of nine.
LEMMA NineMembers ==
  ASSUME NEW a, NEW b, NEW c, NEW d, NEW e, NEW f, NEW g, NEW h, NEW i
  PROVE  Range(<<a, b, c, d, e, f, g, h, i>>) = {a, b, c, d, e, f, g, h, i}
<1> DEFINE s == <<a, b, c, d, e, f, g, h, i>>
<1>1. DOMAIN s = 1 .. 9
  OBVIOUS
<1>2. /\ s[1] = a /\ s[2] = b /\ s[3] = c /\ s[4] = d /\ s[5] = e
      /\ s[6] = f /\ s[7] = g /\ s[8] = h /\ s[9] = i
  OBVIOUS
<1>3. \A k \in 1 .. 9 : k = 1 \/ k = 2 \/ k = 3 \/ k = 4 \/ k = 5 \/ k = 6 \/ k = 7 \/ k = 8 \/ k = 9
  OBVIOUS
<1> HIDE DEF s
<1>4. Range(s) = {s[k] : k \in 1 .. 9}
  BY <1>1 DEF Range
<1>5. {s[k] : k \in 1 .. 9} \subseteq {a, b, c, d, e, f, g, h, i}
  BY <1>2, <1>3
<1>6. {a, b, c, d, e, f, g, h, i} \subseteq {s[k] : k \in 1 .. 9}
  <2>1. \A k \in 1 .. 9 : s[k] \in {s[x] : x \in 1 .. 9}
    OBVIOUS
  <2>2. /\ 1 \in 1 .. 9 /\ 2 \in 1 .. 9 /\ 3 \in 1 .. 9 /\ 4 \in 1 .. 9 /\ 5 \in 1 .. 9
        /\ 6 \in 1 .. 9 /\ 7 \in 1 .. 9 /\ 8 \in 1 .. 9 /\ 9 \in 1 .. 9
    OBVIOUS
  <2> DEFINE R == {s[x] : x \in 1 .. 9}
  <2> HIDE DEF R
  <2>3. \A k \in 1 .. 9 : s[k] \in R
    BY <2>1 DEF R
  <2>4. /\ a \in R /\ b \in R /\ c \in R /\ d \in R /\ e \in R
        /\ f \in R /\ g \in R /\ h \in R /\ i \in R
    BY <1>2, <2>2, <2>3
  <2>5. QED
    BY <2>4 DEF R
<1>7. QED
  BY <1>4, <1>5, <1>6 DEF s

-----------------------------------------------------------------------------
(* The record that a message creates.                                      *)

DenomNames ==
    {"Owner", "Denom", "Description", "Ticker", "Precision", "Url", "MaxSupply", "Supply",
     "CanChangeMaxSupply"}

\* The message that creates a denom has the fields of the record, in another order.
LEMMA DenomFields ==
  LET codec == Pb("tokenfactory")
  IN  /\ Fields(codec, "Denom") = Fields(codec, "MsgCreateDenom")
      /\ Names(codec, "Denom") = DenomNames
      /\ Names(codec, "MsgCreateDenom") = DenomNames
<1> DEFINE codec == Pb("tokenfactory")
           a == PbT!Str("Owner")
           b == PbT!Str("Denom")
           c == PbT!Str("Description")
           d == PbT!Str("Ticker")
           e == PbT!Int32("Precision")
           f == PbT!Str("Url")
           g == PbT!Int32("MaxSupply")
           h == PbT!Int32("Supply")
           i == PbT!Bool("CanChangeMaxSupply")
           all == {a, b, c, d, e, f, g, h, i}
<1>1. /\ codec.types["Denom"].struct = <<b, c, d, e, f, g, h, i, a>>
      /\ codec.types["MsgCreateDenom"].struct = <<a, b, c, d, e, f, g, h, i>>
  <2> HIDE DEF a, b, c, d, e, f, g, h, i
  <2>1. /\ PbT!Types["Denom"].struct = PbT!Denom_Struct
        /\ PbT!Types["MsgCreateDenom"].struct = PbT!MsgCreateDenom_Struct
    BY DEF PbT!Types, PbT!Methods
  <2>2. codec.types = PbT!Types
    BY DEF Pb
  <2>3. PbT!Denom_Struct = <<b, c, d, e, f, g, h, i, a>>
    BY DEF PbT!Denom_Struct, a, b, c, d, e, f, g, h, i
  <2>4. PbT!MsgCreateDenom_Struct = <<a, b, c, d, e, f, g, h, i>>
    BY DEF PbT!MsgCreateDenom_Struct, a, b, c, d, e, f, g, h, i
  <2>5. QED
    BY <2>1, <2>2, <2>3, <2>4
<1>2. /\ a.name = "Owner" /\ b.name = "Denom" /\ c.name = "Description" /\ d.name = "Ticker"
      /\ e.name = "Precision" /\ f.name = "Url" /\ g.name = "MaxSupply" /\ h.name = "Supply"
      /\ i.name = "CanChangeMaxSupply"
  BY DEF PbT!Str, PbT!Int32, PbT!Bool, PbT!Field
<1> HIDE DEF a, b, c, d, e, f, g, h, i, codec
<1>3. Fields(codec, "MsgCreateDenom") = all
  BY <1>1, NineMembers DEF Fields
<1>4. Fields(codec, "Denom") = {b, c, d, e, f, g, h, i, a}
  BY <1>1, NineMembers DEF Fields
<1>5. {b, c, d, e, f, g, h, i, a} = all
  OBVIOUS
<1>6. {x.name : x \in all} = DenomNames
  <2>1. \A x \in all : x.name \in DenomNames
    BY <1>2 DEF DenomNames
  <2>2. \A y \in DenomNames : \E x \in all : x.name = y
    BY <1>2 DEF DenomNames
  <2> HIDE DEF all
  <2>3. QED
    BY <2>1, <2>2
<1>7. Names(codec, "Denom") = DenomNames /\ Names(codec, "MsgCreateDenom") = DenomNames
  <2> HIDE DEF all
  <2>1. QED
    BY <1>3, <1>4, <1>5, <1>6 DEF Names
<1>8. QED
  BY <1>3, <1>4, <1>5, <1>7 DEF codec

\* The record has the Go types of its fields, and the content of the message.
LEMMA DenomOfTyped ==
  ASSUME NEW msg, Typed(Pb("tokenfactory"), "MsgCreateDenom", msg)
  PROVE  /\ LeafTyped(Pb("tokenfactory"), "Denom", DenomOf(msg))
         /\ \A n \in DenomNames : DenomOf(msg)[n] = msg[n]
<1> DEFINE codec == Pb("tokenfactory")
           rec == DenomOf(msg)
<1>1. rec = [n \in DenomNames |-> rec[n]]
  BY DEF DenomOf, DenomNames
<1>2. \A n \in DenomNames : rec[n] = msg[n]
  BY DEF DenomOf, DenomNames
<1>3. codec.pulsar = FALSE
  BY DEF Pb
<1> HIDE DEF codec, rec
<1>4. /\ Fields(codec, "Denom") = Fields(codec, "MsgCreateDenom")
      /\ Names(codec, "Denom") = DenomNames
  BY DenomFields DEF codec
<1>5. Whole(codec, "Denom", rec) /\ Unknown(codec, rec) = <<>>
  <2>1. AllNames(codec, "Denom") = DenomNames
    BY <1>3, <1>4 DEF AllNames
  <2>2. QED
    BY <1>1, <1>3, <2>1 DEF Whole, Unknown
<1>6. ASSUME NEW f \in Fields(codec, "Denom") PROVE ScalarTyped(f, rec[f.name])
  <2>1. f.name \in DenomNames
    BY <1>4 DEF Names
  <2>2. f.kind \in ScalarKinds
    <3>1. Coded(codec.types["Denom"], {})
      <4>1. codec.types = PbT!Types
        BY DEF codec, Pb
      <4>2. QED
        BY <4>1, PbTables
    <3>2. ByName(codec, "Denom")
      BY <3>1, FieldsByName
    <3>3. PICK i \in 1 .. Len(codec.types["Denom"].struct) : f = codec.types["Denom"].struct[i]
      BY <3>2 DEF ByName
    <3>4. Block(codec.types["Denom"].struct[i], {})
      BY <3>1 DEF Coded
    <3>5. QED
      BY <3>3, <3>4 DEF Block
  <2>3. FieldTyped(codec, f, msg[f.name])
    BY <1>4 DEF Typed, codec
  <2>4. ScalarTyped(f, msg[f.name])
    BY <2>2, <2>3 DEF FieldTyped
  <2>5. QED
    BY <1>2, <2>1, <2>4
<1>7. LeafTyped(codec, "Denom", rec)
  BY <1>5, <1>6 DEF LeafTyped
<1>8. QED
  BY <1>2, <1>7 DEF codec, rec

\* The parameters inside the message that updates them.
LEMMA ParamsTyped ==
  ASSUME NEW p, NEW msg, Typed(Pb(p), "MsgUpdateParams", msg)
  PROVE  LeafTyped(Pb(p), "Params", msg["Params"])
<1> DEFINE t == "MsgUpdateParams"
           st == Pb(p).types[t].struct
           f == PbT!Nested("Params", "Params")
<1>1. PbT!Types[t].struct = PbT!MsgUpdateParams_Struct
  BY DEF PbT!Types, PbT!Methods
<1>2. PbM!Types[t] = PbT!Types[t]
  BY EqualTables
<1>3. st = PbT!MsgUpdateParams_Struct
  <2>1. CASE p = "tokenfactory"
    BY <1>1, <2>1 DEF Pb
  <2>2. CASE p # "tokenfactory"
    BY <1>1, <1>2, <2>2 DEF Pb
  <2>3. QED
    BY <2>1, <2>2
<1>4. 2 \in DOMAIN st /\ st[2] = f
  <2> HIDE DEF st
  <2>1. QED
    BY <1>3 DEF PbT!MsgUpdateParams_Struct
<1>5. f \in Fields(Pb(p), t)
  <2>1. Fields(Pb(p), t) = Range(st)
    BY DEF Fields
  <2> HIDE DEF st, f
  <2>2. QED
    BY <1>4, <2>1 DEF Range
<1>6. f.name = "Params" /\ f.kind = "nested" /\ f.sub = "Params"
  BY DEF PbT!Nested, PbT!Field
<1> HIDE DEF f
<1>7. FieldTyped(Pb(p), f, msg["Params"])
  BY <1>5, <1>6 DEF Typed
<1>8. QED
  BY <1>6, <1>7 DEF FieldTyped

\* Where the types of the two lives are known.
LEMMA LivesKnown ==
  ASSUME NEW p
  PROVE  /\ "MsgCreateDenom" \in DOMAIN Pulsar(p).types => p = "tokenfactory"
         /\ "MsgUpdateParams" \in DOMAIN Pb(p).types /\ "Params" \in Leaves(p)
         /\ "MsgCreateDenom" \in DOMAIN Pb("tokenfactory").types
         /\ "Denom" \in Leaves("tokenfactory")
<1>1. "MsgCreateDenom" \notin DOMAIN PulsarM!Types
  BY TypeNames
<1>2. "MsgCreateDenom" \in DOMAIN Pulsar(p).types => p = "tokenfactory"
  BY <1>1 DEF Pulsar
<1>3. "MsgUpdateParams" \in DOMAIN Pb(p).types /\ "MsgCreateDenom" \in DOMAIN Pb("tokenfactory").types
  BY TypeNames DEF Pb
<1>4. "Params" \in Leaves(p) /\ "Denom" \in Leaves("tokenfactory")
  BY DEF Leaves
<1>5. QED
  BY <1>2, <1>3, <1>4

\* The node reads a record back that it has stored.
LEMMA RecordReads ==
  ASSUME NEW p, NEW n \in Leaves(p), NEW rec, LeafTyped(Pb(p), n, rec),
         Short(Marshal(Pb(p), n, rec))
  PROVE  ReadBack(Pb(p), n, rec)
<1>1. Sound(Pb(p), Leaves(p))
  BY CodecsSound
<1>2. n \in DOMAIN Pb(p).types /\ Coded(Pb(p).types[n], {})
  BY <1>1 DEF Sound
<1>3. Typed(Pb(p), n, rec)
  BY <1>2, LeafIsTyped
<1>4. QED
  BY <1>1, <1>2, <1>3, RoundTrip

\* The parameters that are returned before the first update.
LEMMA NewParamsTyped ==
  ASSUME NEW p
  PROVE  LeafTyped(Pb(p), "Params", New(Pb(p), "Params"))
<1>1. Sound(Pb(p), Leaves(p)) /\ "Params" \in Leaves(p)
  BY CodecsSound, LivesKnown
<1>2. "Params" \in DOMAIN Pb(p).types /\ Coded(Pb(p).types["Params"], {})
  BY <1>1 DEF Sound
<1>3. Typed(Pb(p), "Params", New(Pb(p), "Params"))
  BY <1>1, <1>2, NewTyped
<1>4. QED
  BY <1>2, <1>3, LeafIsTyped

-----------------------------------------------------------------------------
(* The life of a record.                                                   *)

RecordType(t) == IF t = "MsgCreateDenom" THEN "Denom" ELSE "Params"

AnswerType(t) == IF t = "MsgCreateDenom" THEN "QueryGetDenomResponse" ELSE "QueryParamsResponse"

\* What the handler makes of a message of type t in package p that was read as g.
IsRecord(p, t, g, rec) ==
    /\ t \in {"MsgCreateDenom", "MsgUpdateParams"}
    /\ LeafTyped(Pb(p), RecordType(t), rec)
    /\ t = "MsgCreateDenom" =>
          g # Nil /\ "node" \in DOMAIN g /\ g["node"].ok /\ rec = DenomOf(g["node"].msg)

IsStored(p, t, g, s) ==
    \E rec : IsRecord(p, t, g, rec) /\ s = Marshal(Pb(p), RecordType(t), rec)

IsReply(p, t, g, s) ==
    \E rec : /\ IsRecord(p, t, g, rec)
             /\ s = Marshal(Pb(p), AnswerType(t), Envelope(RecordType(t), rec))

StoredFits == stored # Nil => Short(stored)

StoredInv == stored # Nil => IsStored(package, type, got, stored)

ReplyInv == reply # Nil /\ StoredFits => IsReply(package, type, got, reply)

LifeInv == PathInv /\ StoredInv /\ ReplyInv

\* What the node has read has the Go types of its fields.
LEMMA NodeHasRead ==
  ASSUME PathInv, Accepted("node")
  PROVE  type \in DOMAIN Pb(package).types /\ Typed(Pb(package), type, got["node"].msg)
<1>1. /\ got # Nil /\ "node" \in DOMAIN got /\ got["node"].ok
      /\ got = [r \in Readers(package, type) |-> Unmarshal(Codec(package, r), type, wire)]
      /\ wire \in Seq(Byte)
  BY DEF Accepted, PathInv, GotInv, WireInv
<1>2. "node" \in Readers(package, type)
  BY <1>1
<1>3. type \in DOMAIN Pb(package).types
  BY <1>2 DEF Readers
<1> DEFINE x == Unmarshal(Pb(package), type, wire)
<1>4. got["node"] = x
  BY <1>1, <1>2 DEF Codec
<1>5. Sound(Pb(package), Leaves(package)) /\ Pb(package).pulsar = FALSE
  BY CodecsSound DEF Pb
<1>6. Loop(Pb(package), type, x)
  BY <1>1, <1>3, <1>5, DecodesTyped
<1> HIDE DEF x
<1>7. x # Refused
  BY <1>1, <1>4, RefusedFails
<1>8. QED
  BY <1>3, <1>4, <1>6, <1>7 DEF Loop

\* A record that does not come from a message is one whatever is read later.
LEMMA ReadLater ==
  ASSUME NEW p, NEW t, NEW g, NEW s
  PROVE  /\ IsStored(p, t, Nil, s) => IsStored(p, t, g, s)
         /\ IsReply(p, t, Nil, s) => IsReply(p, t, g, s)
<1>1. \A rec : IsRecord(p, t, Nil, rec) => IsRecord(p, t, g, rec)
  BY DEF IsRecord
<1>2. QED
  BY <1>1 DEF IsStored, IsReply

\* Steps before the life of the record.
LEMMA LifeStays ==
  ASSUME LifeInv, PathInv', got' = got \/ got = Nil, UNCHANGED <<package, type, stored, reply>>
  PROVE  LifeInv'
<1>1. StoredInv'
  BY ReadLater DEF LifeInv, StoredInv
<1>2. ReplyInv'
  BY ReadLater DEF LifeInv, ReplyInv, StoredFits
<1>3. QED
  BY <1>1, <1>2 DEF LifeInv

\* A record is stored.
LEMMA LifeStores ==
  ASSUME LifeInv, PathInv', UNCHANGED <<package, type, got, reply>>, stored = Nil,
         IsStored(package, type, got, stored')
  PROVE  LifeInv'
<1>1. StoredInv'
  BY DEF StoredInv
<1>2. ReplyInv'
  BY DEF LifeInv, ReplyInv, StoredFits
<1>3. QED
  BY <1>1, <1>2 DEF LifeInv

\* A query is answered.
LEMMA LifeAnswers ==
  ASSUME LifeInv, PathInv', UNCHANGED <<package, type, got, stored>>,
         StoredFits => IsReply(package, type, got, reply')
  PROVE  LifeInv'
<1>1. StoredInv'
  BY DEF LifeInv, StoredInv
<1>2. ReplyInv'
  BY DEF ReplyInv, StoredFits
<1>3. QED
  BY <1>1, <1>2 DEF LifeInv

\* The node answers with the record that is stored.
LEMMA StoredAnswers ==
  ASSUME LifeInv, stored # Nil, StoredFits,
         Answer(AnswerType(type), RecordType(type),
                Unmarshal(Pb(package), RecordType(type), stored))
  PROVE  IsReply(package, type, got, reply')
<1> DEFINE p == package
           n == RecordType(type)
           read == Unmarshal(Pb(p), n, stored)
<1>1. PICK rec : IsRecord(p, type, got, rec) /\ stored = Marshal(Pb(p), n, rec)
  BY DEF LifeInv, StoredInv, IsStored
<1>2. LeafTyped(Pb(p), n, rec) /\ type \in {"MsgCreateDenom", "MsgUpdateParams"}
  BY <1>1 DEF IsRecord
<1>3. n \in Leaves(p)
  <2>1. type \in DOMAIN Pulsar(p).types
    BY DEF LifeInv, PathInv, DraftInv
  <2>2. QED
    BY <1>2, <2>1, LivesKnown DEF RecordType
<1>4. ReadBack(Pb(p), n, rec)
  BY <1>1, <1>2, <1>3, RecordReads DEF StoredFits
<1>5. read = Stand(Len(stored), rec)
  BY <1>1, <1>4 DEF ReadBack
<1>6. read.ok = TRUE /\ read.msg = rec
  BY <1>5 DEF Stand
<1>7. reply' = IF ~read.ok THEN Panicked
               ELSE Marshal(Pb(p), AnswerType(type), [x \in {n} |-> read.msg])
  BY DEF Answer
<1> HIDE DEF read, n
<1>8. reply' = Marshal(Pb(p), AnswerType(type), Envelope(n, rec))
  BY <1>6, <1>7 DEF Envelope
<1>9. QED
  BY <1>1, <1>8 DEF IsReply, n

\* At the start nothing is stored and nothing was answered.
LEMMA LifeStart == Init => LifeInv
<1>1. ASSUME Init PROVE stored = Nil /\ reply = Nil
  BY <1>1 DEF Init
<1>2. QED
  BY <1>1, PathStart DEF LifeInv, StoredInv, ReplyInv

\* Every step keeps the invariant of the life of a record.
LEMMA LifeStep == LifeInv /\ [Next]_vars => LifeInv'
<1> SUFFICES ASSUME LifeInv, [Next]_vars PROVE LifeInv'
  OBVIOUS
<1>1. PathInv /\ PathInv'
  BY PathStep DEF LifeInv
<1>2. CASE MayFill /\ FillOnce
  <2>1. UNCHANGED <<package, type, got, stored, reply>>
    BY <1>2 DEF FillOnce, Set, Assign, Clear, Mutable, AppendMutable, SetAll, AssignAll, Fill
  <2>2. QED
    BY <1>1, <2>1, LifeStays
<1>3. CASE Send
  <2>1. UNCHANGED <<package, type, got, stored, reply>>
    BY <1>3 DEF Send
  <2>2. QED
    BY <1>1, <2>1, LifeStays
<1>4. CASE MayChange /\ ChangeOnce
  <2>1. UNCHANGED <<package, type, got, stored, reply>>
    BY <1>4 DEF ChangeOnce, Cut, Join, Later, Foreign, Change
  <2>2. QED
    BY <1>1, <2>1, LifeStays
<1>5. CASE Receive
  <2>1. got = Nil /\ UNCHANGED <<package, type, stored, reply>>
    BY <1>5 DEF Receive, OnTheWay
  <2>2. QED
    BY <1>1, <2>1, LifeStays
<1>6. CASE CreateDenom
  <2> DEFINE rec == DenomOf(got["node"].msg)
  <2>1. /\ type = "MsgCreateDenom" /\ Accepted("node") /\ stored = Nil
        /\ stored' = Marshal(Pb(package), "Denom", rec)
        /\ UNCHANGED <<package, type, got, reply>>
    BY <1>6 DEF CreateDenom, Store
  <2>2. package = "tokenfactory"
    BY <1>1, <2>1, LivesKnown DEF PathInv, DraftInv
  <2>3. Typed(Pb(package), type, got["node"].msg)
    BY <1>1, <2>1, NodeHasRead
  <2>4. LeafTyped(Pb(package), "Denom", rec)
    BY <2>1, <2>2, <2>3, DenomOfTyped
  <2>5. got # Nil /\ "node" \in DOMAIN got /\ got["node"].ok
    BY <2>1 DEF Accepted
  <2>6. rec = DenomOf(got["node"].msg)
    OBVIOUS
  <2> HIDE DEF rec
  <2>7. RecordType(type) = "Denom"
    BY <2>1 DEF RecordType
  <2>8. IsRecord(package, type, got, rec)
    BY <2>1, <2>4, <2>5, <2>6, <2>7 DEF IsRecord
  <2>9. IsStored(package, type, got, stored')
    BY <2>1, <2>7, <2>8 DEF IsStored
  <2>10. QED
    BY <1>1, <2>1, <2>9, LifeStores
<1>7. CASE UpdateParams
  <2> DEFINE rec == got["node"].msg["Params"]
  <2>1. /\ type = "MsgUpdateParams" /\ Accepted("node") /\ stored = Nil
        /\ stored' = Marshal(Pb(package), "Params", rec)
        /\ UNCHANGED <<package, type, got, reply>>
    BY <1>7 DEF UpdateParams, Store
  <2>2. Typed(Pb(package), type, got["node"].msg)
    BY <1>1, <2>1, NodeHasRead
  <2>3. LeafTyped(Pb(package), "Params", rec)
    BY <2>1, <2>2, ParamsTyped
  <2> HIDE DEF rec
  <2>4. RecordType(type) = "Params"
    BY <2>1 DEF RecordType
  <2>5. IsRecord(package, type, got, rec)
    BY <2>1, <2>3, <2>4 DEF IsRecord
  <2>6. IsStored(package, type, got, stored')
    BY <2>1, <2>4, <2>5 DEF IsStored
  <2>7. QED
    BY <1>1, <2>1, <2>6, LifeStores
<1>8. CASE QueryDenom
  <2>1. /\ type = "MsgCreateDenom" /\ stored # Nil
        /\ Answer("QueryGetDenomResponse", "Denom", Unmarshal(Pb(package), "Denom", stored))
    BY <1>8 DEF QueryDenom
  <2>2. RecordType(type) = "Denom" /\ AnswerType(type) = "QueryGetDenomResponse"
    BY <2>1 DEF RecordType, AnswerType
  <2>3. StoredFits => IsReply(package, type, got, reply')
    BY <2>1, <2>2, StoredAnswers
  <2>4. UNCHANGED <<package, type, got, stored>>
    BY <2>1 DEF Answer
  <2>5. QED
    BY <1>1, <2>3, <2>4, LifeAnswers
<1>9. CASE QueryParams
  <2> DEFINE read == IF stored = Nil THEN [ok |-> TRUE, msg |-> New(Pb(package), "Params")]
                     ELSE Unmarshal(Pb(package), "Params", stored)
  <2>1. /\ type = "MsgUpdateParams"
        /\ Answer("QueryParamsResponse", "Params", read)
    BY <1>9 DEF QueryParams
  <2>2. RecordType(type) = "Params" /\ AnswerType(type) = "QueryParamsResponse"
    BY <2>1 DEF RecordType, AnswerType
  <2>3. UNCHANGED <<package, type, got, stored>>
    BY <2>1 DEF Answer
  <2>4. StoredFits => IsReply(package, type, got, reply')
    <3>1. CASE stored # Nil
      <4>1. read = Unmarshal(Pb(package), "Params", stored)
        BY <3>1
      <4> HIDE DEF read
      <4>2. QED
        BY <2>1, <2>2, <3>1, <4>1, StoredAnswers
    <3>2. CASE stored = Nil
      <4> DEFINE rec == New(Pb(package), "Params")
      <4>1. read.ok = TRUE /\ read.msg = rec
        BY <3>2
      <4>2. LeafTyped(Pb(package), "Params", rec)
        BY NewParamsTyped
      <4>3. reply' = IF ~read.ok THEN Panicked
                     ELSE Marshal(Pb(package), "QueryParamsResponse",
                                  [n \in {"Params"} |-> read.msg])
        BY <2>1 DEF Answer
      <4> HIDE DEF read, rec
      <4>4. reply' = Marshal(Pb(package), AnswerType(type), Envelope(RecordType(type), rec))
        BY <2>2, <4>1, <4>3 DEF Envelope
      <4>5. IsRecord(package, type, got, rec)
        BY <2>1, <2>2, <4>2 DEF IsRecord
      <4>6. QED
        BY <4>4, <4>5 DEF IsReply
    <3>3. QED
      BY <3>1, <3>2
  <2>5. QED
    BY <1>1, <2>3, <2>4, LifeAnswers
<1>10. CASE UNCHANGED vars
  <2>1. UNCHANGED <<package, type, got, stored, reply>>
    BY <1>10 DEF vars
  <2>2. QED
    BY <1>1, <2>1, LifeStays
<1>11. Next => \/ MayFill /\ FillOnce
               \/ Send
               \/ MayChange /\ ChangeOnce
               \/ Receive
               \/ CreateDenom \/ QueryDenom \/ UpdateParams \/ QueryParams
  BY DEF Next, FillOnce, ChangeOnce
<1>12. QED
  BY <1>2, <1>3, <1>4, <1>5, <1>6, <1>7, <1>8, <1>9, <1>10, <1>11

(***************************************************************************)
(* The inductive invariant of the life of a record: what is stored is the  *)
(* encoding of the record that the handler makes of what the node has      *)
(* read, and the answer to the query is the encoding of a message that     *)
(* holds this record.                                                      *)
(***************************************************************************)
THEOREM LifeInvariant == Spec => []LifeInv
<1>1. QED
  BY LifeStart, LifeStep, PTL DEF Spec

\* The lengths of the three slices fit into an int.
SlicesFit == WireFits /\ StoredFits /\ (reply # Nil => Short(reply))

\* The node has read a message as its sender filled it, if it holds no messages.
LEMMA ReadAsFilled ==
  ASSUME PathInv, WireFits, source = "sender", Accepted("node"),
         Coded(Pb(package).types[type], {})
  PROVE  \A x \in Names(Pb(package), type) : got["node"].msg[x] = draft[x]
<1>1. /\ got # Nil /\ "node" \in DOMAIN got
      /\ got = [r \in Readers(package, type) |-> Unmarshal(Codec(package, r), type, wire)]
  BY DEF Accepted, PathInv, GotInv
<1>2. "node" \in Readers(package, type)
  BY <1>1
<1>3. type \in DOMAIN Pb(package).types
  BY <1>2 DEF Readers
<1>4. got[sender].msg = draft
  BY <1>1, PathInvDelivers DEF Delivered
<1>5. CASE sender = "node"
  BY <1>4, <1>5
<1>6. CASE sender = "client"
  <2>1. got["node"].msg = AsStruct(package, type, draft)
    BY <1>1, <1>4, <1>6, PathInvAgrees DEF DecodersAgree
  <2>2. ASSUME NEW x \in Names(Pb(package), type)
        PROVE  AsStruct(package, type, draft)[x] = draft[x]
    <3> DEFINE f == FieldNamed(Pb(package), type, x)
    <3>1. ByName(Pb(package), type)
      BY FieldsByName
    <3>2. PICK i \in 1 .. Len(Pb(package).types[type].struct) :
                  Pb(package).types[type].struct[i].name = x
      BY <3>1 DEF ByName
    <3>3. f = Pb(package).types[type].struct[i]
      BY <3>1, <3>2 DEF ByName
    <3>4. Block(Pb(package).types[type].struct[i], {})
      BY <3>2 DEF Coded
    <3>5. f.kind \in ScalarKinds
      BY <3>3, <3>4 DEF Block
    <3>6. AsStruct(package, type, draft)[x] = AsValue(package, f, draft[x])
      BY DEF AsStruct
    <3> HIDE DEF f
    <3>7. AsValue(package, f, draft[x]) = draft[x]
      BY <3>5 DEF AsValue, ScalarKinds
    <3>8. QED
      BY <3>6, <3>7
  <2>3. QED
    BY <2>1, <2>2
<1>7. QED
  BY <1>5, <1>6 DEF PathInv, DraftInv

\* What is shown is the record, and the record is what was entered.
LEMMA LifeShows == LifeInv /\ SlicesFit => ShownAsCreated
<1> SUFFICES ASSUME LifeInv, SlicesFit, reply # Nil
             PROVE  LET query == IF type = "MsgCreateDenom" THEN "QueryGetDenomResponse"
                                 ELSE "QueryParamsResponse"
                        shown == Unmarshal(Pulsar(package), query, reply)
                    IN  /\ shown.ok
                        /\ type = "MsgUpdateParams" => shown.msg["Params"] # <<>>
                        /\ (type = "MsgCreateDenom" /\ source = "sender") =>
                              \A f \in DraftFields : shown.msg["Denom"][1][f.name] = draft[f.name]
  BY DEF ShownAsCreated
<1> DEFINE p == package
           n == RecordType(type)
           q == AnswerType(type)
           shown == Unmarshal(Pulsar(p), q, reply)
<1>1. PICK rec : IsRecord(p, type, got, rec) /\ reply = Marshal(Pb(p), q, Envelope(n, rec))
  BY DEF LifeInv, ReplyInv, SlicesFit, IsReply
<1>2. LeafTyped(Pb(p), n, rec) /\ type \in {"MsgCreateDenom", "MsgUpdateParams"}
  BY <1>1 DEF IsRecord
<1>3. type = "MsgCreateDenom" => p = "tokenfactory"
  <2>1. type \in DOMAIN Pulsar(p).types
    BY DEF LifeInv, PathInv, DraftInv
  <2>2. QED
    BY <2>1, LivesKnown
<1>4. Holds(p, q, n)
  BY <1>2, <1>3, ParamsHeld, DenomHeld DEF RecordType, AnswerType
<1>5. AnswerShown(p, q, n, rec, reply)
  BY <1>1, <1>2, <1>4, AnswerReads DEF SlicesFit
<1>6. /\ shown.ok /\ shown.msg[n] # <<>>
      /\ \A x \in Names(Pb(p), n) : shown.msg[n][1][x] = rec[x]
  BY <1>5 DEF AnswerShown
<1>7. q = IF type = "MsgCreateDenom" THEN "QueryGetDenomResponse" ELSE "QueryParamsResponse"
  BY DEF AnswerType
<1>8. type = "MsgUpdateParams" => n = "Params"
  BY DEF RecordType
<1> HIDE DEF shown
<1>9. ASSUME type = "MsgCreateDenom", source = "sender", NEW f \in DraftFields
      PROVE  shown.msg["Denom"][1][f.name] = draft[f.name]
  <2> DEFINE codec == Pb("tokenfactory")
  <2>1. n = "Denom" /\ p = "tokenfactory"
    BY <1>3, <1>9 DEF RecordType
  <2>2. Accepted("node") /\ rec = DenomOf(got["node"].msg)
    BY <1>1, <1>9 DEF IsRecord, Accepted
  <2>3. Typed(codec, "MsgCreateDenom", got["node"].msg)
    BY <1>9, <2>1, <2>2, NodeHasRead DEF LifeInv
  <2>4. \A x \in DenomNames : rec[x] = got["node"].msg[x]
    BY <2>2, <2>3, DenomOfTyped
  <2>5. Names(codec, "Denom") = DenomNames /\ Names(codec, "MsgCreateDenom") = DenomNames
    BY DenomFields
  <2>6. Coded(Pb(package).types[type], {})
    <3>1. codec.types = PbT!Types
      BY DEF Pb
    <3>2. Coded(codec.types["MsgCreateDenom"], {})
      BY <3>1, PbTables
    <3> HIDE DEF codec
    <3>3. QED
      BY <1>9, <2>1, <3>2 DEF codec
  <2>7. \A x \in Names(Pb(package), type) : got["node"].msg[x] = draft[x]
    BY <1>9, <2>2, <2>6, ReadAsFilled DEF LifeInv, SlicesFit
  <2>8. f.name \in DenomNames
    <3>1. f.name \in Names(Codec(package, sender), type)
      BY DEF DraftFields, Names
    <3>2. Names(Pulsar(p), type) = Names(Pb(p), type)
      BY <1>9, <2>1, LivesKnown, TwoVersions DEF Versions
    <3>3. Names(Codec(package, sender), type) = Names(Pb(p), type)
      BY <3>2 DEF Codec
    <3>4. QED
      BY <1>9, <2>1, <2>5, <3>1, <3>3
  <2>9. shown.msg[n][1][f.name] = rec[f.name]
    BY <1>6, <2>1, <2>5, <2>8
  <2>10. got["node"].msg[f.name] = draft[f.name]
    BY <1>9, <2>1, <2>5, <2>7, <2>8
  <2>11. QED
    BY <2>1, <2>4, <2>8, <2>9, <2>10
<1>10. QED
  BY <1>6, <1>7, <1>8, <1>9 DEF shown

(***************************************************************************)
(* A created denom is shown as it was entered, and parameters are never    *)
(* absent: for any number of steps in any order, whatever bytes arrived,   *)
(* the answer of the node is read by the command line, although the two    *)
(* hold the record in different structs, and has the content of the        *)
(* message that created it.                                                *)
(***************************************************************************)
THEOREM AlwaysShownAsCreated == Spec => [](SlicesFit => ShownAsCreated)
<1>1. LifeInv => (SlicesFit => ShownAsCreated)
  BY LifeShows
<1>2. QED
  BY <1>1, LifeInvariant, PTL

-----------------------------------------------------------------------------
(* The fields of an encoding.                                              *)

\* A field that is no group ends with its first round.
LEMMA SkipAtOnce ==
  ASSUME NEW s \in Seq(Int), NEW x, Len(s) # 0, NEW st,
         SkipRound(s, SkipStart(x)) = st, st.ok = TRUE, st.done = TRUE
  PROVE  Skip(s, x) = st
<1>1. PICK r : SkipRuns(r, Len(s), s, x) /\ \E n \in 0 .. Len(s) : SkipReturns(r, n, s, x)
  BY SkipDef
<1>2. \A k \in 0 .. Len(s) : r[k] = IF k = 0 THEN SkipStart(x) ELSE SkipRound(s, r[k - 1])
  BY <1>1 DEF SkipRuns
<1>3. PICK n \in 0 .. Len(s) : SkipReturns(r, n, s, x)
  BY <1>1
<1>4. Len(s) \in Nat \ {0}
  OBVIOUS
<1>5. r[0] = SkipStart(x) /\ r[1] = st
  <2>1. 0 \in 0 .. Len(s) /\ 1 \in 0 .. Len(s) /\ 1 # 0 /\ 1 - 1 = 0
    BY <1>4
  <2>2. QED
    BY <1>2, <2>1
<1>6. SkipRound(s, st) = st
  BY DEF SkipRound, SkipCase, Onward
<1> DEFINE Good == {k \in Nat : k + 1 \in 0 .. Len(s) => r[k + 1] = st}
<1>7. 0 \in Good
  BY <1>5
<1>8. ASSUME NEW k \in Nat, k \in Good PROVE k + 1 \in Good
  <2>1. SUFFICES ASSUME (k + 1) + 1 \in 0 .. Len(s) PROVE r[(k + 1) + 1] = st
    OBVIOUS
  <2>2. k + 1 \in 0 .. Len(s) /\ (k + 1) + 1 # 0 /\ ((k + 1) + 1) - 1 = k + 1
    BY <1>4, <2>1
  <2>3. r[k + 1] = st
    BY <1>8, <2>2
  <2>4. QED
    BY <1>2, <1>6, <2>1, <2>2, <2>3
<1> HIDE DEF Good
<1>9. Nat \subseteq Good
  BY <1>7, <1>8, NatSetInduction
<1>10. n # 0
  <2>1. r[0].ok = TRUE /\ r[0].done = FALSE
    BY <1>5 DEF SkipStart
  <2>2. QED
    BY <1>3, <1>4, <2>1 DEF SkipReturns
<1>11. r[n] = st
  <2>1. n - 1 \in Nat /\ (n - 1) + 1 = n
    BY <1>3, <1>10
  <2>2. n - 1 \in Good
    BY <1>9, <2>1
  <2>3. QED
    BY <2>1, <2>2 DEF Good
<1>12. QED
  BY <1>3, <1>11 DEF SkipReturns

\* A field stands behind the first x, and the next one behind the first y.
Passed(s, x, i, y) ==
    /\ x < Len(s) /\ Skip(s, x).next = y
    /\ ReadVarint(s, x).value \div 8 = i

\* What ReadVarint and Skip find where a tag stands.
TagStanding(s, x, w, i) ==
    ReadVarint(s, x) = [ok |-> TRUE, value |-> 8 * i + w, next |-> x + 1]

\* A tag is a varint.
LEMMA TagVarint ==
  ASSUME NEW s \in Seq(Int), NEW x \in Nat, NEW f, NEW i \in 1 .. 9,
         StandsAt(s, x, <<Tag(f, i)>>)
  PROVE  TagStanding(s, x, WireType(f.kind), i)
<1> DEFINE g == Tag(f, i)
<1>1. g \in 1 .. 127 /\ g = 8 * i + WireType(f.kind)
  BY TagByte DEF Tag
<1>2. StandsAt(s, x, <<g>>)
  OBVIOUS
<1> HIDE DEF g
<1>3. g \in Nat /\ g < 128
  <2>1. g \in 1 .. 127
    BY <1>1
  <2>2. QED
    BY <2>1
<1>4. EncodeVarint[g] = <<g>>
  BY <1>3, EncodeVarintDef, Zenon
<1>5. g \in 0 .. WordSize - 1
  BY <1>3, SizesLarge
<1>6. ReadVarint(s, x) = [ok |-> TRUE, value |-> g, next |-> x + Sov(g)]
  BY <1>2, <1>4, <1>5, ReadsVarint
<1>7. Sov(g) = 1
  <2>1. Len(EncodeVarint[g]) = 1
    BY <1>4
  <2>2. QED
    BY <1>3, <2>1, SovCounts
<1>8. QED
  BY <1>1, <1>6, <1>7 DEF TagStanding

\* A word that is read as a positive number is that number.
LEMMA SignedSmall ==
  ASSUME NEW size \in Nat, size >= 2, NEW x \in 0 .. size - 1, Signed(x, size) >= 0
  PROVE  Signed(x, size) = x /\ x < size \div 2
<1>1. x % size = x
  OBVIOUS
<1>2. Signed(x, size) = IF x >= size \div 2 THEN x - size ELSE x
  BY <1>1 DEF Signed
<1>3. QED
  BY <1>2

\* What a round of Skip returns that ends a field.
SkipTo(y) == [ok |-> TRUE, next |-> y, depth |-> 0, done |-> TRUE]

\* Skip passes a varint as the case of its field does.
LEMMA SkipsNumber ==
  ASSUME NEW s \in Seq(Int), Short(s), NEW x \in Nat, NEW i \in 1 .. 9, NEW y, x < Len(s),
         TagStanding(s, x, 0, i), ReadVarint(s, x + 1).ok = TRUE,
         ReadVarint(s, x + 1).next = y
  PROVE  Skip(s, x) = SkipTo(y)
<1> DEFINE varint == ReadVarint(s, x)
           len == ReadVarint(s, x + 1)
           st == SkipStart(x)
<1>1. varint.ok = TRUE /\ varint.value = 8 * i /\ varint.next = x + 1 /\ varint.value % 8 = 0
  BY DEF TagStanding
<1>2. st.ok = TRUE /\ st.done = FALSE /\ st.next = x /\ st.depth = 0
  BY DEF SkipStart
<1>3. len.ok = TRUE /\ len.next = y /\ IsVarint(s, x + 1, len)
  <2>1. x + 1 \in Nat
    OBVIOUS
  <2>2. QED
    BY <2>1, VarintFields
<1>4. y \in Nat /\ y <= Len(s)
  BY <1>3, RefusedFails DEF IsVarint
<1>5. Signed(y, WordSize) = y
  <2>1. WordSize \in Nat /\ WordSize >= 2 /\ y < WordSize \div 2
    BY <1>4, SizesLarge DEF Short
  <2>2. QED
    BY <1>4, <2>1, SmallSigned
<1> HIDE DEF varint, st, len
<1>6. SkipRound(s, st) = SkipTo(y)
  <2>1. ReadVarint(s, st.next) = varint /\ ReadVarint(s, varint.next) = len
    BY <1>1, <1>2 DEF varint, len
  <2>2. ~(Signed(y, WordSize) < 0)
    BY <1>4, <1>5
  <2>3. ~(st.next >= Len(s) \/ ~varint.ok) /\ ~(~st.ok \/ st.done)
    BY <1>1, <1>2
  <2>4. varint.value % 8 = 0 /\ len.ok = TRUE
    BY <1>1, <1>3
  <2>5. SkipRound(s, st) = SkipCase(varint, len, 0)
    BY <1>2, <2>1, <2>3 DEF SkipRound
  <2>6. SkipCase(varint, len, 0) = Onward(y, 0)
    BY <1>3, <2>4 DEF SkipCase
  <2>7. Onward(y, 0) = SkipTo(y)
    BY <2>2 DEF Onward, SkipTo
  <2>8. QED
    BY <2>5, <2>6, <2>7
<1>7. SkipTo(y).ok = TRUE /\ SkipTo(y).done = TRUE /\ Len(s) # 0
  BY DEF SkipTo
<1>8. QED
  BY <1>6, <1>7, SkipAtOnce DEF st

\* Skip passes a block as the case of its field does.
LEMMA SkipsBlock ==
  ASSUME NEW s \in Seq(Int), Short(s), NEW x \in Nat, NEW i \in 1 .. 9, NEW y, x < Len(s),
         TagStanding(s, x, 2, i), ReadBlock(s, x + 1).ok = TRUE,
         ReadBlock(s, x + 1).next = y
  PROVE  Skip(s, x) = SkipTo(y)
<1> DEFINE varint == ReadVarint(s, x)
           len == ReadVarint(s, x + 1)
           st == SkipStart(x)
           size == Signed(len.value, WordSize)
           post == Signed(len.next + size, WordSize)
<1>1. varint.ok = TRUE /\ varint.value = 8 * i + 2 /\ varint.next = x + 1 /\ varint.value % 8 = 2
  BY DEF TagStanding
<1>2. st.ok = TRUE /\ st.done = FALSE /\ st.next = x /\ st.depth = 0
  BY DEF SkipStart
<1>3. len.ok = TRUE /\ size >= 0 /\ post >= 0 /\ post <= Len(s) /\ y = post
  <2>1. ReadBlock(s, x + 1) = IF ~len.ok \/ size < 0 \/ post < 0 \/ post > Len(s) THEN Refused
                              ELSE [ok |-> TRUE, bytes |-> SubSeq(s, len.next + 1, post),
                                    next |-> post]
    BY DEF ReadBlock, BlockFrom
  <2>2. IsVarint(s, x + 1, len)
    BY VarintFields
  <2>3. len.ok = TRUE \/ ~len.ok
    OBVIOUS
  <2> HIDE DEF len, size, post
  <2>4. ~(~len.ok \/ size < 0 \/ post < 0 \/ post > Len(s))
    BY <2>1, RefusedFails
  <2>5. y = post
    BY <2>1, <2>4
  <2>6. len.ok = TRUE
    BY <2>2, <2>4, RefusedFails DEF IsVarint
  <2>7. len.value \in Nat /\ len.next \in Nat
    BY <2>2, <2>6, RefusedFails DEF IsVarint
  <2>8. size \in Int /\ post \in Int
    <3>1. WordSize \in Nat \ {0}
      BY SizesLarge
    <3>a. \A a \in Int : Signed(a, WordSize) \in Int
      BY <3>1, SignedRange
    <3>b. len.value \in Int /\ len.next \in Int
      BY <2>7
    <3>2. size \in Int
      BY <3>a, <3>b, Zenon DEF size
    <3>3. len.next + size \in Int
      BY <2>7, <3>2
    <3>4. post \in Int
      BY <3>3, <3>a DEF post
    <3>5. QED
      BY <3>2, <3>4
  <2>9. QED
    BY <2>4, <2>5, <2>6, <2>8
<1>4. len.value \in 0 .. WordSize - 1 /\ len.next \in Nat /\ len.next <= Len(s)
  <2>1. IsVarint(s, x + 1, len)
    BY VarintFields
  <2>2. QED
    BY <1>3, <2>1, RefusedFails DEF IsVarint
<1>5. WordSize \in Nat /\ WordSize >= 2 /\ Len(s) \in Nat /\ Len(s) < WordSize \div 2
  BY SizesLarge DEF Short
<1> HIDE DEF varint, st, len
<1>6. size = len.value /\ size < WordSize \div 2
  BY <1>3, <1>4, <1>5, SignedSmall
<1>7. post = len.next + size
  <2>1. len.next + size \in 0 .. WordSize - 1
    BY <1>4, <1>5, <1>6
  <2> HIDE DEF size
  <2>2. QED
    BY <1>3, <1>5, <2>1, SignedSmall
<1>8. y = len.next + len.value /\ y \in Nat /\ Signed(y, WordSize) = y /\ ~(Signed(y, WordSize) < 0)
  <2>1. y = len.next + len.value
    BY <1>3, <1>6, <1>7
  <2>2. y \in Nat /\ y = post /\ y <= Len(s)
    BY <1>3, <1>4, <2>1
  <2>3. Signed(y, WordSize) = y
    BY <1>5, <2>2, SmallSigned
  <2>4. QED
    BY <2>1, <2>2, <2>3
<1> HIDE DEF post
<1>9. SkipRound(s, st) = SkipTo(y)
  <2>1. ReadVarint(s, st.next) = varint /\ ReadVarint(s, varint.next) = len
    BY <1>1, <1>2 DEF varint, len
  <2>2. ~(st.next >= Len(s) \/ ~varint.ok) /\ ~(~st.ok \/ st.done)
    BY <1>1, <1>2
  <2>3. varint.value % 8 = 2 /\ len.ok = TRUE /\ Signed(len.value, WordSize) >= 0
    BY <1>1, <1>3 DEF size
  <2>4. SkipRound(s, st) = SkipCase(varint, len, 0)
    BY <1>2, <2>1, <2>2 DEF SkipRound
  <2>5. SkipCase(varint, len, 0) = Onward(y, 0)
    BY <1>8, <2>3 DEF SkipCase
  <2>6. Onward(y, 0) = SkipTo(y)
    BY <1>8 DEF Onward, SkipTo
  <2>7. QED
    BY <2>4, <2>5, <2>6
<1>10. SkipTo(y).ok = TRUE /\ SkipTo(y).done = TRUE /\ Len(s) # 0
  BY DEF SkipTo
<1>11. QED
  BY <1>9, <1>10, SkipAtOnce DEF st

\* The bytes c of field i end where Skip says.
PassedOver(s, x, i, c) == Len(c) \in Nat \ {0} /\ Passed(s, x, i, x + Len(c))

\* The number of a field is in front of its wire type.
LEMMA NumberInTag ==
  ASSUME NEW s, NEW x \in Nat, NEW i \in 1 .. 9, NEW w \in {0, 2}, NEW y,
         TagStanding(s, x, w, i), x < Len(s), Skip(s, x) = SkipTo(y)
  PROVE  Passed(s, x, i, y)
<1>1. ReadVarint(s, x).value = 8 * i + w
  BY DEF TagStanding
<1>2. (8 * i + w) \div 8 = i
  BY w = 0 \/ w = 2
<1>3. Skip(s, x).next = y
  BY DEF SkipTo
<1>4. QED
  BY <1>1, <1>2, <1>3 DEF Passed

\* A length and as many bytes behind a tag are passed over.
LEMMA DelimitedPassed ==
  ASSUME NEW s \in Seq(Int), NEW x \in Nat, NEW f, NEW i \in 1 .. 9, NEW c \in Seq(Byte),
         WireType(f.kind) = 2, Short(s), StandsAt(s, x, Delimited(Tag(f, i), c))
  PROVE  PassedOver(s, x, i, Delimited(Tag(f, i), c))
<1> DEFINE tag == Tag(f, i)
           d == Delimited(tag, c)
           y == x + Len(d)
<1>1. tag \in Byte
  BY TagByte
<1>2. DelimitedRead(s, x, tag, c)
  BY <1>1, DelimitedReads
<1>3. /\ StandsAt(s, x, <<tag>>) /\ Len(d) \in Nat \ {0}
      /\ ReadBlock(s, x + 1) = [ok |-> TRUE, bytes |-> c, next |-> y]
  BY <1>2 DEF DelimitedRead
<1>4. TagStanding(s, x, 2, i)
  BY <1>3, TagVarint
<1> HIDE DEF tag, d, y
<1>5. ReadBlock(s, x + 1).ok = TRUE /\ ReadBlock(s, x + 1).next = y
  BY <1>3
<1>6. x < Len(s)
  <2>1. Len(<<tag>>) = 1 /\ Len(s) \in Nat
    OBVIOUS
  <2>2. QED
    BY <1>3, <2>1 DEF StandsAt
<1>7. Skip(s, x) = SkipTo(y)
  BY <1>4, <1>5, <1>6, SkipsBlock
<1>8. Passed(s, x, i, y)
  BY <1>4, <1>6, <1>7, NumberInTag
<1>9. QED
  BY <1>3, <1>8 DEF PassedOver, y, d, tag

\* A number behind a tag is passed over.
LEMMA NumberPassed ==
  ASSUME NEW s \in Seq(Int), NEW x \in Nat, NEW f, NEW i \in 1 .. 9, NEW w \in 0 .. WordSize - 1,
         WireType(f.kind) = 0, Short(s), StandsAt(s, x, Tagged(Tag(f, i), EncodeVarint[w]))
  PROVE  PassedOver(s, x, i, Tagged(Tag(f, i), EncodeVarint[w]))
<1> DEFINE tag == Tag(f, i)
           d == Tagged(tag, EncodeVarint[w])
           y == x + Len(d)
<1>1. tag \in Byte
  BY TagByte
<1>2. NumberRead(s, x, tag, w)
  BY <1>1, NumberReads
<1>3. /\ StandsAt(s, x, <<tag>>) /\ Len(d) \in Nat \ {0}
      /\ ReadVarint(s, x + 1) = [ok |-> TRUE, value |-> w, next |-> y]
  BY <1>2 DEF NumberRead
<1>4. TagStanding(s, x, 0, i)
  BY <1>3, TagVarint
<1> HIDE DEF tag, d, y
<1>5. ReadVarint(s, x + 1).ok = TRUE /\ ReadVarint(s, x + 1).next = y
  BY <1>3
<1>6. x < Len(s)
  <2>1. Len(<<tag>>) = 1 /\ Len(s) \in Nat
    OBVIOUS
  <2>2. QED
    BY <1>3, <2>1 DEF StandsAt
<1>7. Skip(s, x) = SkipTo(y)
  BY <1>4, <1>5, <1>6, SkipsNumber
<1>8. Passed(s, x, i, y)
  BY <1>4, <1>6, <1>7, NumberInTag
<1>9. QED
  BY <1>3, <1>8 DEF PassedOver, y, d, tag

\* A field that is no message is passed over whole.
LEMMA ScalarPassed ==
  ASSUME NEW f, f.kind \in ScalarKinds, NEW v, ScalarTyped(f, v), Present(f, v),
         NEW i \in 1 .. 9, NEW s \in Seq(Int), NEW x \in Nat,
         StandsAt(s, x, ScalarBytes(At(Tag(f, i), f), v)), Short(s)
  PROVE  PassedOver(s, x, i, ScalarBytes(At(Tag(f, i), f), v))
<1> DEFINE tag == Tag(f, i)
           a == At(tag, f)
           k == f.kind
           c == ScalarBytes(a, v)
<1>1. tag \in Byte
  BY TagByte
<1>2. a.kind = k /\ a.tag = tag
  BY DEF At
<1>3. Present(a, v)
  BY <1>2 DEF Present
<1>4. StandsAt(s, x, c)
  OBVIOUS
<1> HIDE DEF tag, a
<1>5. c = CASE k \in {"string", "bytes"} -> Delimited(tag, v)
            [] k \in {"int32", "uint64"} -> <<tag>> \o EncodeVarint[Word(v)]
            [] k = "bool" -> <<tag, 1>>
  BY <1>2, <1>3 DEF ScalarBytes
<1>6. CASE k \in {"string", "bytes"}
  <2>1. c = Delimited(tag, v) /\ WireType(k) = 2 /\ v \in Seq(Byte)
    BY <1>5, <1>6 DEF WireType, ScalarTyped
  <2> HIDE DEF c
  <2>2. StandsAt(s, x, Delimited(Tag(f, i), v))
    BY <1>4, <2>1 DEF tag
  <2>3. PassedOver(s, x, i, Delimited(Tag(f, i), v))
    BY <2>1, <2>2, DelimitedPassed
  <2>4. QED
    BY <2>1, <2>3 DEF tag, c, a
<1>7. ASSUME k \in {"int32", "uint64", "bool"}, NEW w \in 0 .. WordSize - 1,
             c = Tagged(tag, EncodeVarint[w])
      PROVE  PassedOver(s, x, i, c)
  <2>1. WireType(k) = 0
    BY <1>7 DEF WireType
  <2> HIDE DEF c
  <2>2. StandsAt(s, x, Tagged(Tag(f, i), EncodeVarint[w]))
    BY <1>4, <1>7 DEF tag
  <2>3. PassedOver(s, x, i, Tagged(Tag(f, i), EncodeVarint[w]))
    BY <2>1, <2>2, NumberPassed
  <2>4. QED
    BY <1>7, <2>3 DEF tag
<1>8. CASE k \in {"int32", "uint64"}
  <2> DEFINE w == Word(v)
  <2>1. v \in Int
    BY <1>8, SizesLarge DEF ScalarTyped
  <2>2. w \in 0 .. WordSize - 1
    BY <2>1, WordOfInt
  <2>3. c = Tagged(tag, EncodeVarint[w])
    BY <1>5, <1>8 DEF Tagged
  <2> HIDE DEF w, c
  <2>4. PassedOver(s, x, i, c)
    BY <1>7, <1>8, <2>2, <2>3
  <2>5. QED
    BY <2>4 DEF c, a, tag
<1>9. CASE k = "bool"
  <2>1. 1 \in 0 .. WordSize - 1
    BY SizesLarge
  <2>2. EncodeVarint[1] = <<1>>
    BY EncodeVarintDef
  <2>3. c = <<tag, 1>>
    BY <1>5, <1>9
  <2>4. Tagged(tag, EncodeVarint[1]) = <<tag, 1>>
    BY <1>1, <2>2, TwoBytes DEF Tagged
  <2> HIDE DEF c
  <2>5. PassedOver(s, x, i, c)
    BY <1>7, <1>9, <2>1, <2>3, <2>4
  <2>6. QED
    BY <2>5 DEF c, a, tag
<1>10. QED
  BY <1>6, <1>8, <1>9 DEF ScalarKinds

(***************************************************************************)
(* The loop of FieldNumbers.                                               *)
(***************************************************************************)
NumbersStart == [next |-> 0, numbers |-> {}]

NumbersStep(s, st) ==
    IF st.next >= Len(s) THEN st
    ELSE [next |-> Skip(s, st.next).next,
          numbers |-> st.numbers \cup {ReadVarint(s, st.next).value \div 8}]

NumbersRuns(r, n, s) ==
    r = [k \in 0 .. n |-> IF k = 0 THEN NumbersStart ELSE NumbersStep(s, r[k - 1])]

\* FieldNumbers is what the loop has met after as many rounds as bytes.
LEMMA FieldNumbersDef ==
  ASSUME NEW s \in Seq(Int)
  PROVE  \E r : NumbersRuns(r, Len(s), s) /\ FieldNumbers(s) = r[Len(s)].numbers
<1> DEFINE Good == {n \in Nat : \E r : NumbersRuns(r, n, s)}
           Step(x) == NumbersStep(s, x)
           start == NumbersStart
<1>0. Len(s) \in Nat
  OBVIOUS
<1>1. 0 \in Good
  <2> DEFINE r == [k \in 0 .. 0 |-> start]
  <2> HIDE DEF start, Step
  <2>2. \A k \in 0 .. 0 : k = 0
    OBVIOUS
  <2>3. r = [k \in 0 .. 0 |-> IF k = 0 THEN start ELSE Step(r[k - 1])]
    BY <2>2
  <2>4. QED
    BY <2>3 DEF NumbersRuns, start, Step
<1>2. ASSUME NEW n \in Nat, n \in Good PROVE n + 1 \in Good
  <2>1. PICK r : NumbersRuns(r, n, s)
    BY <1>2
  <2>a. r = [k \in 0 .. n |-> IF k = 0 THEN start ELSE Step(r[k - 1])]
    BY <2>1 DEF NumbersRuns
  <2> DEFINE h == [k \in 0 .. n + 1 |-> IF k = 0 THEN start ELSE Step(r[k - 1])]
  <2> HIDE DEF Step, start
  <2>2. \A k \in 0 .. n : k \in 0 .. n + 1 /\ h[k] = r[k]
    BY <2>a
  <2>3. ASSUME NEW k \in 0 .. n + 1, k # 0 PROVE Step(r[k - 1]) = Step(h[k - 1])
    <3>1. k - 1 \in 0 .. n
      BY <2>3
    <3>2. QED
      BY <2>2, <3>1
  <2>4. h = [k \in 0 .. n + 1 |-> IF k = 0 THEN start ELSE Step(h[k - 1])]
    BY <2>3
  <2> HIDE DEF h
  <2>5. NumbersRuns(h, n + 1, s)
    BY <2>4 DEF NumbersRuns, Step, start
  <2>6. QED
    BY <2>5
<1> HIDE DEF Good, Step, start
<1>3. Len(s) \in Good
  BY <1>0, <1>1, <1>2, NatSetInduction
<1> DEFINE Eq(r) == NumbersRuns(r, Len(s), s)
           after == CHOOSE r : Eq(r)
           Stops(n) == n = Len(s) \/ after[n].next >= Len(s)
           rounds == CHOOSE n \in 0 .. Len(s) : Stops(n)
<1>4. \E r : Eq(r)
  BY <1>3 DEF Good
<1>5. FieldNumbers(s) = after[rounds].numbers
  BY DEF FieldNumbers, NumbersRuns, NumbersStart, NumbersStep
<1> HIDE DEF Eq
<1>6. Eq(after)
  BY <1>4, Zenon
<1>7. Len(s) \in 0 .. Len(s) /\ Stops(Len(s))
  BY <1>0
<1> HIDE DEF after, Stops
<1>8. rounds \in 0 .. Len(s) /\ Stops(rounds)
  BY <1>7, Zenon
<1> HIDE DEF rounds
<1>9. CASE rounds = Len(s)
  BY <1>5, <1>6, <1>9 DEF Eq
<1>10. CASE after[rounds].next >= Len(s)
  <2>1. \A k \in 0 .. Len(s) : after[k] = IF k = 0 THEN start ELSE Step(after[k - 1])
    BY <1>6 DEF Eq, NumbersRuns, start, Step
  <2> DEFINE Same == {n \in Nat : rounds + n \in 0 .. Len(s) => after[rounds + n] = after[rounds]}
  <2>2. 0 \in Same
    BY <1>8
  <2>3. ASSUME NEW n \in Nat, n \in Same PROVE n + 1 \in Same
    <3>1. SUFFICES ASSUME rounds + (n + 1) \in 0 .. Len(s)
                   PROVE  after[rounds + (n + 1)] = after[rounds]
      OBVIOUS
    <3>2. rounds + n \in 0 .. Len(s) /\ rounds + (n + 1) # 0 /\ (rounds + (n + 1)) - 1 = rounds + n
      BY <1>0, <1>8, <3>1
    <3>3. after[rounds + (n + 1)] = Step(after[rounds + n])
      BY <2>1, <3>1, <3>2
    <3>4. after[rounds + n] = after[rounds]
      BY <2>3, <3>2
    <3>5. Step(after[rounds]) = after[rounds]
      BY <1>10 DEF Step, NumbersStep
    <3>6. QED
      BY <3>3, <3>4, <3>5
  <2> HIDE DEF Same
  <2>4. Nat \subseteq Same
    BY <2>2, <2>3, NatSetInduction
  <2>5. Len(s) - rounds \in Nat /\ rounds + (Len(s) - rounds) = Len(s)
    BY <1>0, <1>8
  <2>6. after[rounds + (Len(s) - rounds)] = after[rounds]
    <3>1. Len(s) - rounds \in Same
      BY <2>4, <2>5
    <3>2. QED
      BY <1>7, <2>5, <3>1 DEF Same
  <2>7. QED
    BY <1>5, <1>6, <2>5, <2>6 DEF Eq
<1>11. QED
  BY <1>8, <1>9, <1>10 DEF Stops

\* The same loop with its states as those of Unmarshal: the numbers are the message.
Numbering(r, s) ==
    \A k \in 0 .. Len(s) - 1 :
        r[k + 1] = IF Ended(s, r[k]) THEN r[k]
                   ELSE Stand(Skip(s, r[k].next).next,
                              r[k].msg \cup {ReadVarint(s, r[k].next).value \div 8})

\* The rounds of FieldNumbers, as a loop that stands somewhere with what it has met.
LEMMA NumbersLoop ==
  ASSUME NEW s \in Seq(Int)
  PROVE  \E r : r[0] = Stand(0, {}) /\ Numbering(r, s) /\ FieldNumbers(s) = r[Len(s)].msg
<1>1. PICK g : NumbersRuns(g, Len(s), s) /\ FieldNumbers(s) = g[Len(s)].numbers
  BY FieldNumbersDef
<1> DEFINE l == Len(s)
           r == [k \in 0 .. l |-> Stand(g[k].next, g[k].numbers)]
<1>2. l \in Nat
  OBVIOUS
<1>3. \A k \in 0 .. l : g[k] = IF k = 0 THEN NumbersStart ELSE NumbersStep(s, g[k - 1])
  BY <1>1 DEF NumbersRuns
<1>4. FieldNumbers(s) = g[l].numbers
  BY <1>1
<1>5. \A k \in 0 .. l : r[k] = Stand(g[k].next, g[k].numbers)
  OBVIOUS
<1> HIDE DEF r
<1>6. \A k \in 0 .. l : /\ r[k].ok = TRUE /\ r[k].next = g[k].next /\ r[k].msg = g[k].numbers
  <2>1. \A y, q : Stand(y, q).ok = TRUE /\ Stand(y, q).next = y /\ Stand(y, q).msg = q
    BY DEF Stand
  <2>2. QED
    BY <1>5, <2>1
<1>7. r[0] = Stand(0, {})
  <2>1. 0 \in 0 .. l
    BY <1>2
  <2>2. g[0] = NumbersStart
    BY <1>3, <2>1
  <2>3. g[0].next = 0 /\ g[0].numbers = {}
    BY <2>2 DEF NumbersStart
  <2>4. QED
    BY <1>5, <2>1, <2>3
<1>8. Numbering(r, s)
  <2>1. SUFFICES ASSUME NEW k \in 0 .. l - 1
                 PROVE r[k + 1] = IF Ended(s, r[k]) THEN r[k]
                                  ELSE Stand(Skip(s, r[k].next).next,
                                             r[k].msg \cup {ReadVarint(s, r[k].next).value \div 8})
    BY DEF Numbering
  <2>2. k \in 0 .. l /\ k + 1 \in 0 .. l /\ k + 1 # 0 /\ (k + 1) - 1 = k
    BY <1>2
  <2>3. g[k + 1] = NumbersStep(s, g[k])
    BY <1>3, <2>2
  <2>4. r[k].ok = TRUE /\ r[k].next = g[k].next /\ r[k].msg = g[k].numbers
        /\ r[k] = Stand(g[k].next, g[k].numbers)
        /\ r[k + 1] = Stand(g[k + 1].next, g[k + 1].numbers)
    BY <1>5, <1>6, <2>2
  <2> HIDE DEF l
  <2>5. CASE g[k].next >= Len(s)
    <3>1. g[k + 1] = g[k]
      BY <2>3, <2>5 DEF NumbersStep
    <3>2. Ended(s, r[k])
      BY <2>4, <2>5 DEF Ended
    <3>3. r[k + 1] = r[k]
      BY <2>4, <3>1
    <3>4. QED
      BY <3>2, <3>3
  <2>6. CASE ~(g[k].next >= Len(s))
    <3> DEFINE y == Skip(s, g[k].next).next
               q == g[k].numbers \cup {ReadVarint(s, g[k].next).value \div 8}
    <3>1. ~Ended(s, r[k])
      BY <2>4, <2>6 DEF Ended
    <3>2. g[k + 1] = [next |-> y, numbers |-> q]
      BY <2>3, <2>6 DEF NumbersStep
    <3>3. Stand(Skip(s, r[k].next).next, r[k].msg \cup {ReadVarint(s, r[k].next).value \div 8})
            = Stand(y, q)
      BY <2>4
    <3> HIDE DEF y, q
    <3>4. g[k + 1].next = y /\ g[k + 1].numbers = q
      BY <3>2
    <3>5. r[k + 1] = Stand(y, q)
      BY <2>4, <3>4
    <3>6. QED
      BY <3>1, <3>3, <3>5
  <2>7. QED
    BY <2>5, <2>6
<1>9. FieldNumbers(s) = r[l].msg
  <2>1. l \in 0 .. l
    BY <1>2
  <2>2. QED
    BY <1>4, <1>6, <2>1
<1>10. QED
  BY <1>7, <1>8, <1>9

\* A loop that has walked over everything keeps what it has met.
LEMMA NumberingStays ==
  ASSUME NEW s, NEW r, Numbering(r, s)
  PROVE  Stays(r, s)
BY DEF Numbering, Stays

\* The loop counts a field that it passes.
LEMMA FieldCounted ==
  ASSUME NEW s \in Seq(Int), NEW r, NEW x \in Nat, NEW y \in Nat, NEW q, NEW i,
         Numbering(r, s), Reached(r, x, q), Passed(s, x, i, y), x < y, y <= Len(s)
  PROVE  Reached(r, y, q \cup {i})
<1> DEFINE a == Stand(x, q)
           b == Stand(y, q \cup {i})
<1>1. a.ok = TRUE /\ a.next = x /\ a.msg = q
  BY DEF Stand
<1>2. ~Ended(s, a)
  <2>1. ~(x >= Len(s))
    BY DEF Passed
  <2> HIDE DEF a
  <2>2. QED
    BY <1>1, <2>1 DEF Ended
<1>3. Skip(s, a.next).next = y /\ ReadVarint(s, a.next).value \div 8 = i
  BY <1>1 DEF Passed
<1> HIDE DEF a, b
<1>4. Follows(r, s, x, q, y, q \cup {i})
  <2>1. SUFFICES ASSUME NEW k \in 0 .. Len(s) - 1, r[k] = a PROVE r[k + 1] = b
    BY DEF Follows, a, b
  <2>2. r[k + 1] = IF Ended(s, r[k]) THEN r[k]
                   ELSE Stand(Skip(s, r[k].next).next,
                              r[k].msg \cup {ReadVarint(s, r[k].next).value \div 8})
    BY DEF Numbering
  <2>3. r[k + 1] = Stand(Skip(s, a.next).next, a.msg \cup {ReadVarint(s, a.next).value \div 8})
    BY <1>2, <2>1, <2>2
  <2>4. QED
    BY <1>1, <1>3, <2>3 DEF b
<1>5. QED
  BY <1>4, OneMore

\* The loop counts a field whose bytes it passes, behind the ones before it.
LEMMA PassedCounted ==
  ASSUME NEW s \in Seq(Int), NEW r, NEW x \in Nat, NEW q, NEW i, NEW c \in Seq(Byte),
         Numbering(r, s), Reached(r, x, q), PassedOver(s, x, i, c), StandsAt(s, x, c)
  PROVE  Reached(r, x + Len(c), q \cup {i})
<1> DEFINE y == x + Len(c)
<1>1. Len(c) \in Nat \ {0} /\ Passed(s, x, i, y) /\ y <= Len(s)
  BY DEF PassedOver, StandsAt
<1>2. y \in Nat /\ x < y
  BY <1>1
<1> HIDE DEF y
<1>3. Reached(r, y, q \cup {i})
  BY <1>1, <1>2, FieldCounted
<1>4. QED
  BY <1>3 DEF y

\* The numbers q and that of field i, if it is written.
Counted(f, i, v, q) == IF Present(f, v) THEN q \cup {i} ELSE q

\* A list counts once, however many elements it has.
LEMMA SeveralCounted ==
  ASSUME NEW codec, NEW leaves, NEW f, NEW i, NEW s \in Seq(Int), NEW x \in Nat, NEW r, NEW q,
         NEW v, NEW e, Sound(codec, leaves), Short(s), Numbering(r, s),
         SeveralStand(codec, leaves, f, i, s, x, v, e), Reached(r, x, q)
  PROVE  Reached(r, x + Len(e[Len(v)]), Counted(f, i, v, q))
<1> DEFINE n == Len(v)
           At0(k) == x + Len(e[k])
           Mid(k) == IF k = 0 THEN q ELSE q \cup {i}
<1>1. i \in 1 .. 9 /\ f.kind \in {"pointer", "list"} /\ WireType(f.kind) = 2 /\ f.sub \in leaves
      /\ Elements(codec, Tag(f, i), f.sub, v, e) /\ StandsAt(s, x, e[n])
  BY DEF SeveralStand, WireType
<1>2. PICK S : v \in Seq(S) /\ \A y \in S : LeafTyped(codec, f.sub, y)
  BY DEF SeveralStand, LeavesTyped
<1>3. n \in Nat /\ \A k \in 1 .. n : LeafTyped(codec, f.sub, v[k])
  BY <1>2
<1>4. Mid(n) = Counted(f, i, v, q)
  <2>1. Present(f, v) <=> n > 0
    BY <1>1 DEF Present
  <2> HIDE DEF n
  <2>2. n > 0 <=> n # 0
    BY <1>3
  <2>3. QED
    BY <2>1, <2>2 DEF Counted
<1>5. \A k \in 1 .. n : ElementStands(codec, f, i, s, x, v, e, k)
  BY <1>1, <1>3, ElementsStand
<1>6. At0(0) = x /\ Mid(0) = q
  <2>1. e[0] = <<>>
    BY <1>1 DEF Elements
  <2>2. Len(e[0]) = 0
    BY <2>1
  <2>3. QED
    BY <2>2
<1>7. ASSUME NEW k \in 1 .. n, Reached(r, At0(k - 1), Mid(k - 1))
      PROVE  Reached(r, At0(k), Mid(k))
  <2> DEFINE t == f.sub
             c == Body(codec, t, v[k])
             d == Delimited(Tag(f, i), c)
             a == At0(k - 1)
             b == At0(k)
             m == Mid(k - 1)
  <2>1. t \in leaves /\ LeafTyped(codec, t, v[k])
    BY <1>1, <1>3
  <2>2. ElementStands(codec, f, i, s, x, v, e, k)
    BY <1>5
  <2>3. a \in Nat /\ StandsAt(s, a, d) /\ b = a + Len(d)
    BY <2>2 DEF ElementStands
  <2>4. d \in Seq(Byte)
    BY <1>1 DEF Elements, n
  <2>5. Reached(r, a, m)
    BY <1>7
  <2>6. m \cup {i} = Mid(k)
    BY <1>3
  <2> HIDE DEF t, a, b, m, Mid
  <2>7. c \in Seq(Byte)
    BY <2>1, BodyParts
  <2> HIDE DEF c
  <2>8. PassedOver(s, a, i, d)
    BY <1>1, <2>3, <2>7, DelimitedPassed
  <2> HIDE DEF d
  <2>9. Reached(r, a + Len(d), m \cup {i})
    BY <2>3, <2>4, <2>5, <2>8, PassedCounted
  <2>10. Reached(r, b, Mid(k))
    BY <2>3, <2>6, <2>9
  <2>11. QED
    BY <2>10 DEF b
<1> DEFINE Good == {k \in Nat : k <= n => Reached(r, At0(k), Mid(k))}
<1> HIDE DEF At0, Mid, n
<1>8. 0 \in Good
  BY <1>6
<1>9. ASSUME NEW k \in Nat, k \in Good PROVE k + 1 \in Good
  <2>1. SUFFICES ASSUME k + 1 <= n PROVE Reached(r, At0(k + 1), Mid(k + 1))
    OBVIOUS
  <2>2. k <= n /\ k + 1 \in 1 .. n /\ (k + 1) - 1 = k
    BY <1>3, <2>1
  <2>3. Reached(r, At0((k + 1) - 1), Mid((k + 1) - 1))
    BY <1>9, <2>2
  <2>4. QED
    BY <1>7, <2>2, <2>3
<1> HIDE DEF Good
<1>10. n \in Good
  BY <1>3, <1>8, <1>9, NatSetInduction
<1>11. Reached(r, At0(n), Mid(n))
  BY <1>3, <1>10 DEF Good
<1>12. QED
  BY <1>4, <1>11 DEF At0, n

(***************************************************************************)
(* Whatever its kind, a field is counted under its number if it is         *)
(* present, and leaves no bytes if it is not.                              *)
(***************************************************************************)
LEMMA FieldNumbered ==
  ASSUME NEW codec, NEW leaves, NEW f, NEW i, NEW s \in Seq(Int), NEW x \in Nat, NEW r, NEW q,
         NEW v, Sound(codec, leaves), Short(s), Numbering(r, s),
         FieldStands(codec, leaves, f, i, s, x, v), Reached(r, x, q)
  PROVE  Reached(r, x + Len(FieldBytes(codec, At(Tag(f, i), f), v)), Counted(f, i, v, q))
<1> DEFINE tag == Tag(f, i)
           c == FieldBytes(codec, At(tag, f), v)
<1>1. i \in 1 .. 9 /\ Block(f, leaves) /\ FieldTyped(codec, f, v) /\ StandsAt(s, x, c)
  BY DEF FieldStands
<1>2. tag \in Byte
  BY <1>1, TagByte
<1> HIDE DEF tag
<1>3. CASE f.kind \in ScalarKinds
  <2>1. ScalarTyped(f, v)
    BY <1>1, <1>3 DEF FieldTyped
  <2>2. c = ScalarBytes(At(tag, f), v) /\ c \in Seq(Byte)
    BY <1>2, <1>3, <2>1, FieldPartsOfScalar
  <2>3. CASE Present(f, v)
    <3>1. StandsAt(s, x, ScalarBytes(At(Tag(f, i), f), v))
      BY <1>1, <2>2 DEF tag
    <3>2. PassedOver(s, x, i, ScalarBytes(At(Tag(f, i), f), v))
      BY <1>1, <1>3, <2>1, <2>3, <3>1, ScalarPassed
    <3> HIDE DEF c
    <3>3. PassedOver(s, x, i, c)
      BY <2>2, <3>2 DEF tag
    <3>4. Reached(r, x + Len(c), q \cup {i})
      BY <1>1, <2>2, <3>3, PassedCounted
    <3>5. QED
      BY <2>3, <3>4 DEF Counted, c, tag
  <2>4. CASE ~Present(f, v)
    <3>1. ScalarBytes(At(tag, f), v) = <<>>
      BY <1>3, <2>1, <2>4, ScalarAbsent
    <3>2. c = <<>>
      BY <2>2, <3>1
    <3> HIDE DEF c
    <3>3. x + Len(c) = x
      BY <3>2
    <3>4. Reached(r, x + Len(c), q)
      BY <3>3
    <3>5. QED
      BY <2>4, <3>4 DEF Counted, c, tag
  <2>5. QED
    BY <2>3, <2>4
<1>4. CASE f.kind = "nested"
  <2> DEFINE t == f.sub
             d == Body(codec, t, v)
  <2>1. LeafTyped(codec, t, v) /\ t \in leaves /\ WireType(f.kind) = 2
    BY <1>1, <1>4 DEF FieldTyped, Block, ScalarKinds, WireType
  <2>2. c = Delimited(tag, d) /\ c \in Seq(Byte)
    BY <1>2, <1>4, <2>1, FieldPartsOfNested
  <2> HIDE DEF t, c
  <2>3. d \in Seq(Byte)
    BY <2>1, BodyParts
  <2> HIDE DEF d
  <2>4. StandsAt(s, x, Delimited(Tag(f, i), d))
    BY <1>1, <2>2 DEF tag
  <2>5. PassedOver(s, x, i, Delimited(Tag(f, i), d))
    BY <1>1, <2>1, <2>3, <2>4, DelimitedPassed
  <2>6. PassedOver(s, x, i, c)
    BY <2>2, <2>5 DEF tag
  <2>7. Reached(r, x + Len(c), q \cup {i})
    BY <1>1, <2>2, <2>6, PassedCounted
  <2>8. Present(f, v)
    BY <1>4 DEF Present
  <2>9. QED
    BY <2>7, <2>8 DEF Counted, c, tag
<1>5. CASE f.kind \in {"pointer", "list"}
  <2>1. LeavesTyped(codec, f.sub, v) /\ f.sub \in leaves /\ (f.kind = "pointer" => Len(v) <= 1)
    BY <1>1, <1>5 DEF FieldTyped, Block, ScalarKinds
  <2>a. /\ c \in Seq(Byte) /\ FieldSize(codec, f, v) = Len(c)
        /\ \E e : Elements(codec, tag, f.sub, v, e) /\ c = e[Len(v)]
    BY <1>2, <1>5, <2>1, FieldPartsOfSeveral
  <2> HIDE DEF c
  <2>2. PICK e : Elements(codec, tag, f.sub, v, e) /\ c = e[Len(v)]
    BY <2>a
  <2>3. SeveralStand(codec, leaves, f, i, s, x, v, e)
    BY <1>1, <1>5, <2>1, <2>2 DEF SeveralStand, tag
  <2>4. Reached(r, x + Len(e[Len(v)]), Counted(f, i, v, q))
    BY <2>3, SeveralCounted
  <2>5. QED
    BY <2>2, <2>4 DEF c, tag
<1>6. f.kind \in ScalarKinds \/ f.kind = "nested" \/ f.kind \in {"pointer", "list"}
  BY <1>1 DEF Block, MessageKinds
<1>7. QED
  BY <1>3, <1>4, <1>5, <1>6

\* The numbers of the fields before field i that m has.
NumbersBefore(codec, t, m, i) ==
    {j \in 1 .. i - 1 : Present(FieldAt(codec, t, j), m[FieldAt(codec, t, j).name])}

\* One more field is counted if it is present.
LEMMA NumbersNext ==
  ASSUME NEW codec, NEW t, NEW m, NEW i \in Nat \ {0}
  PROVE  NumbersBefore(codec, t, m, i + 1)
           = Counted(FieldAt(codec, t, i), i, m[FieldAt(codec, t, i).name],
                     NumbersBefore(codec, t, m, i))
<1> DEFINE P(j) == Present(FieldAt(codec, t, j), m[FieldAt(codec, t, j).name])
           q == {j \in 1 .. i - 1 : P(j)}
           q1 == {j \in 1 .. (i + 1) - 1 : P(j)}
<1>1. q1 = IF P(i) THEN q \cup {i} ELSE q
  <2> HIDE DEF P
  <2>1. 1 .. (i + 1) - 1 = (1 .. i - 1) \cup {i}
    OBVIOUS
  <2>2. QED
    BY <2>1
<1>2. QED
  BY <1>1 DEF NumbersBefore, Counted

(***************************************************************************)
(* FieldNumbers finds in what Marshal wrote the numbers of the fields that *)
(* are present, if its length fits into an int.                            *)
(***************************************************************************)
THEOREM SetAreWritten ==
  ASSUME NEW codec, NEW leaves, Sound(codec, leaves), NEW t \in DOMAIN codec.types,
         NEW m, Typed(codec, t, m), Short(Marshal(codec, t, m))
  PROVE  FieldNumbers(Marshal(codec, t, m)) = NumbersBefore(codec, t, m, Count(codec, t) + 1)
<1> DEFINE n == Count(codec, t)
           b == Blocks(codec, t, m)
<1>a. Coded(codec.types[t], leaves)
  BY DEF Sound
<1>1. n \in Nat
  BY <1>a DEF Coded, Count
<1>2. PICK w : Laid(w, n, b) /\ Marshal(codec, t, m) = w[1]
  BY MarshalFits DEF Count
<1> DEFINE s == w[1]
<1>3. \A i \in 1 .. n : BlockFits(codec, leaves, t, m, i)
  BY <1>a, BlocksFit DEF Count
<1>4. \A i \in 1 .. n : b[i] \in Seq(Byte)
  BY <1>3 DEF BlockFits
<1>5. /\ Place(w, 1) = 0 /\ Place(w, n + 1) = Len(s) /\ s \in Seq(Int)
      /\ \A i \in 1 .. n : BlockStands(w, i, b[i])
  <2> HIDE DEF b, n
  <2>1. QED
    BY <1>1, <1>2, <1>4, LaidStands
<1>6. Short(s)
  BY <1>2, Zenon
<1>7. PICK r : r[0] = Stand(0, {}) /\ Numbering(r, s) /\ FieldNumbers(s) = r[Len(s)].msg
  BY <1>5, NumbersLoop
<1> HIDE DEF s, b, n
<1>8. Stays(r, s)
  BY <1>7, NumberingStays
<1> DEFINE q == [i \in 1 .. n + 1 |-> NumbersBefore(codec, t, m, i)]
<1>9. q[1] = {} /\ q[n + 1] = NumbersBefore(codec, t, m, n + 1)
  <2>1. NumbersBefore(codec, t, m, 1) = {}
    BY DEF NumbersBefore
  <2>2. 1 \in 1 .. n + 1 /\ n + 1 \in 1 .. n + 1
    BY <1>1
  <2>3. QED
    BY <2>1, <2>2
<1>10. Walked(r, w, q, 1)
  <2>1. 0 \in 0 .. 0
    OBVIOUS
  <2>2. QED
    BY <1>5, <1>7, <1>9, <2>1 DEF Walked, Reached
<1>11. ASSUME NEW i \in 1 .. n, Walked(r, w, q, i) PROVE Walked(r, w, q, i + 1)
  <2> DEFINE f == FieldAt(codec, t, i)
             x == Place(w, i)
             v == m[f.name]
             c == FieldBytes(codec, At(Tag(f, i), f), v)
  <2>1. i \in 1 .. 9 /\ Block(f, leaves) /\ FieldTyped(codec, f, v) /\ b[i] = c
    BY <1>3 DEF BlockFits, b, FieldAt
  <2>2. x \in Nat /\ StandsAt(s, x, b[i]) /\ Place(w, i + 1) = x + Len(b[i])
    BY <1>5 DEF BlockStands, s
  <2>3. q[i + 1] = Counted(f, i, v, q[i])
    <3>1. q[i] = NumbersBefore(codec, t, m, i) /\ q[i + 1] = NumbersBefore(codec, t, m, i + 1)
      BY <1>1
    <3>2. i \in Nat \ {0}
      OBVIOUS
    <3> HIDE DEF q
    <3>3. QED
      BY <3>1, <3>2, NumbersNext
  <2> HIDE DEF q
  <2>4. Reached(r, x, q[i])
    BY <1>11 DEF Walked
  <2>5. FieldStands(codec, leaves, f, i, s, x, v)
    BY <2>1, <2>2 DEF FieldStands
  <2> HIDE DEF f, v, x
  <2>6. Reached(r, x + Len(c), Counted(f, i, v, q[i]))
    BY <1>5, <1>6, <1>7, <2>2, <2>4, <2>5, FieldNumbered
  <2> HIDE DEF c
  <2>7. Reached(r, Place(w, i + 1), q[i + 1])
    BY <2>1, <2>2, <2>3, <2>6
  <2>8. QED
    BY <2>7 DEF Walked
<1> HIDE DEF q
<1>12. Walked(r, w, q, n + 1)
  BY <1>1, <1>10, <1>11, WalkToEnd
<1>13. Reached(r, Len(s), q[n + 1])
  BY <1>5, <1>12 DEF Walked
<1>14. r[Len(s)] = Stand(Len(s), q[n + 1])
  BY <1>5, <1>8, <1>13, EndStays
<1>15. r[Len(s)].msg = q[n + 1]
  BY <1>14 DEF Stand
<1>16. QED
  BY <1>2, <1>7, <1>9, <1>15 DEF s, n

-----------------------------------------------------------------------------
(* What reflection reports as set.                                         *)

\* Range and Has, as the pulsar code of tokenfactory has them, for each of its
\* messages.
LEMMA TokenfactoryRanges ==
  ASSUME NEW t \in DOMAIN PulsarT!Types, t \notin {"PageRequest", "PageResponse"}
  PROVE  PulsarT!Ranges[t] = PulsarT!Types[t].struct
<1>1. PulsarT!Ranges["Params"] = PulsarT!Types["Params"].struct
  BY DEF PulsarT!Ranges, PulsarT!Types, PulsarT!Methods, PulsarT!Params_Struct
<1>2. PulsarT!Ranges["Denom"] = PulsarT!Types["Denom"].struct
  BY DEF PulsarT!Ranges, PulsarT!Types, PulsarT!Methods, PulsarT!Denom_Range,
     PulsarT!Denom_Struct
<1>3. PulsarT!Ranges["GenesisState"] = PulsarT!Types["GenesisState"].struct
  BY DEF PulsarT!Ranges, PulsarT!Types, PulsarT!Methods, PulsarT!GenesisState_Range,
     PulsarT!GenesisState_Struct
<1>4. PulsarT!Ranges["QueryParamsRequest"] = PulsarT!Types["QueryParamsRequest"].struct
  BY DEF PulsarT!Ranges, PulsarT!Types, PulsarT!Methods, PulsarT!QueryParamsRequest_Struct
<1>5. PulsarT!Ranges["QueryParamsResponse"] = PulsarT!Types["QueryParamsResponse"].struct
  BY DEF PulsarT!Ranges, PulsarT!Types, PulsarT!Methods, PulsarT!QueryParamsResponse_Range,
     PulsarT!QueryParamsResponse_Struct
<1>6. PulsarT!Ranges["QueryGetDenomRequest"] = PulsarT!Types["QueryGetDenomRequest"].struct
  BY DEF PulsarT!Ranges, PulsarT!Types, PulsarT!Methods, PulsarT!QueryGetDenomRequest_Range,
     PulsarT!QueryGetDenomRequest_Struct
<1>7. PulsarT!Ranges["QueryGetDenomResponse"] = PulsarT!Types["QueryGetDenomResponse"].struct
  BY DEF PulsarT!Ranges, PulsarT!Types, PulsarT!Methods, PulsarT!QueryGetDenomResponse_Range,
     PulsarT!QueryGetDenomResponse_Struct
<1>8. PulsarT!Ranges["QueryAllDenomRequest"] = PulsarT!Types["QueryAllDenomRequest"].struct
  BY DEF PulsarT!Ranges, PulsarT!Types, PulsarT!Methods, PulsarT!QueryAllDenomRequest_Range,
     PulsarT!QueryAllDenomRequest_Struct
<1>9. PulsarT!Ranges["QueryAllDenomResponse"] = PulsarT!Types["QueryAllDenomResponse"].struct
  BY DEF PulsarT!Ranges, PulsarT!Types, PulsarT!Methods, PulsarT!QueryAllDenomResponse_Range,
     PulsarT!QueryAllDenomResponse_Struct
<1>10. PulsarT!Ranges["MsgUpdateParams"] = PulsarT!Types["MsgUpdateParams"].struct
  BY DEF PulsarT!Ranges, PulsarT!Types, PulsarT!Methods, PulsarT!MsgUpdateParams_Range,
     PulsarT!MsgUpdateParams_Struct
<1>11. PulsarT!Ranges["MsgUpdateParamsResponse"] = PulsarT!Types["MsgUpdateParamsResponse"].struct
  BY DEF PulsarT!Ranges, PulsarT!Types, PulsarT!Methods,
     PulsarT!MsgUpdateParamsResponse_Struct
<1>12. PulsarT!Ranges["MsgCreateDenom"] = PulsarT!Types["MsgCreateDenom"].struct
  BY DEF PulsarT!Ranges, PulsarT!Types, PulsarT!Methods, PulsarT!MsgCreateDenom_Range,
     PulsarT!MsgCreateDenom_Struct
<1>13. PulsarT!Ranges["MsgCreateDenomResponse"] = PulsarT!Types["MsgCreateDenomResponse"].struct
  BY DEF PulsarT!Ranges, PulsarT!Types, PulsarT!Methods, PulsarT!MsgCreateDenomResponse_Struct
<1>14. PulsarT!Ranges["MsgUpdateDenom"] = PulsarT!Types["MsgUpdateDenom"].struct
  BY DEF PulsarT!Ranges, PulsarT!Types, PulsarT!Methods, PulsarT!MsgUpdateDenom_Range,
     PulsarT!MsgUpdateDenom_Struct
<1>15. PulsarT!Ranges["MsgUpdateDenomResponse"] = PulsarT!Types["MsgUpdateDenomResponse"].struct
  BY DEF PulsarT!Ranges, PulsarT!Types, PulsarT!Methods, PulsarT!MsgUpdateDenomResponse_Struct
<1>16. PulsarT!Ranges["MsgDeleteDenom"] = PulsarT!Types["MsgDeleteDenom"].struct
  BY DEF PulsarT!Ranges, PulsarT!Types, PulsarT!Methods, PulsarT!MsgDeleteDenom_Range,
     PulsarT!MsgDeleteDenom_Struct
<1>17. PulsarT!Ranges["MsgDeleteDenomResponse"] = PulsarT!Types["MsgDeleteDenomResponse"].struct
  BY DEF PulsarT!Ranges, PulsarT!Types, PulsarT!Methods, PulsarT!MsgDeleteDenomResponse_Struct
<1>18. PulsarT!Ranges["Module"] = PulsarT!Types["Module"].struct
  BY DEF PulsarT!Ranges, PulsarT!Types, PulsarT!Methods, PulsarT!Module_Range,
     PulsarT!Module_Struct
<1>19. t \in {"Params", "Denom", "GenesisState", "QueryParamsRequest", "QueryParamsResponse",
        "QueryGetDenomRequest", "QueryGetDenomResponse", "QueryAllDenomRequest", "QueryAllDenomResponse",
        "MsgUpdateParams", "MsgUpdateParamsResponse", "MsgCreateDenom", "MsgCreateDenomResponse", "MsgUpdateDenom",
        "MsgUpdateDenomResponse", "MsgDeleteDenom", "MsgDeleteDenomResponse", "Module"}
  BY TypeNames
<1>20. QED
  BY <1>1, <1>2, <1>3, <1>4, <1>5, <1>6, <1>7, <1>8, <1>9, <1>10, <1>11, <1>12, <1>13, <1>14,
     <1>15, <1>16, <1>17, <1>18, <1>19

\* Range and Has, as the pulsar code of medasdigital has them, for each of its
\* messages.
LEMMA MedasdigitalRanges ==
  ASSUME NEW t \in DOMAIN PulsarM!Types
  PROVE  PulsarM!Ranges[t] = PulsarM!Types[t].struct
<1>1. PulsarM!Ranges["Params"] = PulsarM!Types["Params"].struct
  BY DEF PulsarM!Ranges, PulsarM!Types, PulsarM!Methods, PulsarM!Params_Struct
<1>2. PulsarM!Ranges["GenesisState"] = PulsarM!Types["GenesisState"].struct
  BY DEF PulsarM!Ranges, PulsarM!Types, PulsarM!Methods, PulsarM!GenesisState_Range,
     PulsarM!GenesisState_Struct
<1>3. PulsarM!Ranges["QueryParamsRequest"] = PulsarM!Types["QueryParamsRequest"].struct
  BY DEF PulsarM!Ranges, PulsarM!Types, PulsarM!Methods, PulsarM!QueryParamsRequest_Struct
<1>4. PulsarM!Ranges["QueryParamsResponse"] = PulsarM!Types["QueryParamsResponse"].struct
  BY DEF PulsarM!Ranges, PulsarM!Types, PulsarM!Methods, PulsarM!QueryParamsResponse_Range,
     PulsarM!QueryParamsResponse_Struct
<1>5. PulsarM!Ranges["MsgUpdateParams"] = PulsarM!Types["MsgUpdateParams"].struct
  BY DEF PulsarM!Ranges, PulsarM!Types, PulsarM!Methods, PulsarM!MsgUpdateParams_Range,
     PulsarM!MsgUpdateParams_Struct
<1>6. PulsarM!Ranges["MsgUpdateParamsResponse"] = PulsarM!Types["MsgUpdateParamsResponse"].struct
  BY DEF PulsarM!Ranges, PulsarM!Types, PulsarM!Methods,
     PulsarM!MsgUpdateParamsResponse_Struct
<1>7. PulsarM!Ranges["Module"] = PulsarM!Types["Module"].struct
  BY DEF PulsarM!Ranges, PulsarM!Types, PulsarM!Methods, PulsarM!Module_Range,
     PulsarM!Module_Struct
<1>8. t \in {"Params", "GenesisState", "QueryParamsRequest", "QueryParamsResponse",
        "MsgUpdateParams", "MsgUpdateParamsResponse", "Module"}
  BY TypeNames
<1>9. QED
  BY <1>1, <1>2, <1>3, <1>4, <1>5, <1>6, <1>7, <1>8

\* Range and Has know the fields of the struct.
LEMMA RangesKnown ==
  ASSUME NEW p, NEW t \in DOMAIN Pulsar(p).types, t \notin {"PageRequest", "PageResponse"}
  PROVE  Ranges(p)[t] = Pulsar(p).types[t].struct
<1>1. CASE p = "tokenfactory"
  <2>1. Pulsar(p).types = PulsarT!Types /\ Ranges(p) = PulsarT!Ranges
    BY <1>1 DEF Pulsar, Ranges
  <2>2. QED
    BY <2>1, TokenfactoryRanges
<1>2. CASE p # "tokenfactory"
  <2>1. Pulsar(p).types = PulsarM!Types /\ Ranges(p) = PulsarM!Ranges
    BY <1>2 DEF Pulsar, Ranges
  <2>2. QED
    BY <2>1, MedasdigitalRanges
<1>3. QED
  BY <1>1, <1>2

\* The pagination messages travel only inside other messages.
NoPages == type \notin {"PageRequest", "PageResponse"}

\* At the start no page request is sent.
LEMMA NoPagesStart == Init => NoPages
BY DEF Init, NoPages

\* Nothing sends a pagination message by itself.
LEMMA NoPagesStep == NoPages /\ [Next]_vars => NoPages'
<1> SUFFICES ASSUME NoPages, [Next]_vars PROVE NoPages'
  OBVIOUS
<1>1. type' = type
  BY DEF Next, vars, Set, Clear, Mutable, AppendMutable, SetAll, Assign, AssignAll, Fill, Send,
         Cut, Join, Later, Foreign, Change, Receive, CreateDenom, UpdateParams, Store,
         QueryDenom, QueryParams, Answer
<1>2. QED
  BY <1>1 DEF NoPages

\* What was counted in the encoding is what reflection reports as set.
LEMMA PathInvSets == PathInv /\ NoPages /\ WireFits => SetIsOnTheWire
<1> SUFFICES ASSUME PathInv, NoPages, WireFits, source = "sender", sender = "client",
                    Accepted("client")
             PROVE  FieldNumbers(wire) =
                      {i \in DOMAIN Pulsar(package).types[type].unmarshal :
                         Pulsar(package).types[type].unmarshal[i] \in
                           {f \in Range(Ranges(package)[type]) : Present(f, draft[f.name])}}
  BY DEF SetIsOnTheWire
<1> DEFINE codec == Pulsar(package)
           leaves == Leaves(package)
           cases == codec.types[type].unmarshal
           struct == codec.types[type].struct
           n == Count(codec, type)
           has == {f \in Range(struct) : Present(f, draft[f.name])}
<1>1. Sound(codec, leaves) /\ type \in DOMAIN codec.types /\ Typed(codec, type, draft)
  <2>1. SenderCodec = codec
    BY DEF SenderCodec, Codec
  <2>2. QED
    BY <2>1, SenderSound DEF PathInv, DraftInv
<1>2. wire # Nil /\ wire = Marshal(codec, type, draft)
  BY DEF Accepted, PathInv, GotInv, WireInv, SenderCodec, Codec
<1>3. Ranges(package)[type] = struct
  BY <1>1, RangesKnown DEF NoPages
<1>4. n \in Nat /\ DOMAIN cases = 1 .. n /\ DOMAIN struct = 1 .. n
      /\ \A i \in 1 .. n : cases[i] = struct[i]
  <2>1. Coded(codec.types[type], leaves)
    BY <1>1 DEF Sound
  <2>2. QED
    BY <2>1 DEF Coded, Count
<1>5. FieldNumbers(wire) = NumbersBefore(codec, type, draft, n + 1)
  BY <1>1, <1>2, SetAreWritten DEF WireFits
<1>6. NumbersBefore(codec, type, draft, n + 1) = {i \in 1 .. n : Present(struct[i], draft[struct[i].name])}
  <2>1. (n + 1) - 1 = n
    BY <1>4
  <2>2. QED
    BY <2>1 DEF NumbersBefore, FieldAt
<1>7. \A i \in 1 .. n : cases[i] \in has <=> Present(struct[i], draft[struct[i].name])
  BY <1>4 DEF Range
<1> HIDE DEF n, cases, struct, has
<1>8. {i \in DOMAIN cases : cases[i] \in has} = {i \in 1 .. n : Present(struct[i], draft[struct[i].name])}
  BY <1>4, <1>7
<1>9. FieldNumbers(wire) = {i \in DOMAIN cases : cases[i] \in has}
  BY <1>5, <1>6, <1>8
<1>10. QED
  BY <1>3, <1>9 DEF cases, has

(***************************************************************************)
(* The numbers met when the encoding of the command line is walked from    *)
(* field to field are those of the fields that reflection reports as set:  *)
(* for any message it can fill, any lengths and any widths of integers.    *)
(***************************************************************************)
THEOREM AlwaysSetOnTheWire == Spec => [](WireFits => SetIsOnTheWire)
<1>1. Spec => []NoPages
  BY NoPagesStart, NoPagesStep, PTL DEF Spec
<1>2. PathInv /\ NoPages => (WireFits => SetIsOnTheWire)
  BY PathInvSets
<1>3. QED
  BY <1>1, <1>2, PathInvariant, PTL
=============================================================================
