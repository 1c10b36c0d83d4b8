-------------------------- MODULE ProtoWireProofs ---------------------------
(***************************************************************************)
(* The decoders of ProtoWire. A message has two: the one that executes it  *)
(* and the one that looks up its signer were generated by different        *)
(* compilers, and the bytes come from anywhere. Their loops are followed   *)
(* round by round: at every round both stand at the same index with the    *)
(* same content, or both have given up.                                    *)
(*                                                                         *)
(* What both need: the varints, whose encoding has as many bytes as Size   *)
(* counts and is read back; the loops, which are functions of the number   *)
(* of rounds; and the tables of the message types, which are evaluated     *)
(* here, so that everything else holds for whatever message has such a     *)
(* table.                                                                  *)
(***************************************************************************)
EXTENDS WirePath, FoldTheorems, SequenceTheorems

(***************************************************************************)
(* The powers of two.                                                      *)
(***************************************************************************)
LEMMA Pow2Def ==
  /\ Pow2 \in [Nat -> Nat]
  /\ \A n \in Nat : Pow2[n] = IF n = 0 THEN 1 ELSE 2 * Pow2[n - 1]
<1> DEFINE Eq(f) == f = [n \in Nat |-> IF n = 0 THEN 1 ELSE 2 * f[n - 1]]
           small == {0}
           init == [n \in Nat |-> 1]
           pred == [n \in Nat |-> IF n = 0 THEN 0 ELSE n - 1]
           step == [n \in Nat |-> [t \in Nat |-> 2 * t]]
<1>1. Recursion(Nat, small, init, pred, step)
  BY DEF Recursion
<1> HIDE DEF small, init, pred, step
<1>2. PICK f : Recurs(f, Nat, small, init, pred, step)
  BY <1>1, NatRecursion
<1>3. ASSUME NEW x \in Nat PROVE f[x] = IF x = 0 THEN 1 ELSE 2 * f[x - 1]
  <2>1. f[x] = IF x \in small THEN init[x] ELSE step[x][f[pred[x]]]
    BY <1>2 DEF Recurs
  <2>2. x # 0 => pred[x] = x - 1 /\ f[x - 1] \in Nat
    BY <1>2 DEF pred, Recurs
  <2>3. x = 0 => x \in small /\ init[x] = 1
    BY DEF small, init
  <2>4. x # 0 => step[x][f[x - 1]] = 2 * f[x - 1]
    BY <2>2 DEF step
  <2>5. QED
    BY <2>1, <2>2, <2>3, <2>4 DEF small
<1>4. Eq(f)
  BY <1>2, <1>3 DEF Recurs
<1>5. Pow2 = CHOOSE g : Eq(g)
  BY DEF Pow2
<1> HIDE DEF Eq
<1>6. Eq(Pow2)
  BY <1>4, <1>5, Zenon
<1> USE DEF Eq
<1>7. \A n \in Nat : Pow2[n] = IF n = 0 THEN 1 ELSE 2 * Pow2[n - 1]
  BY <1>6
<1> DEFINE Good == {n \in Nat : Pow2[n] \in Nat}
<1>8. 0 \in Good
  BY <1>7
<1>9. ASSUME NEW n \in Nat, n \in Good PROVE n + 1 \in Good
  <2>1. Pow2[n + 1] = 2 * Pow2[(n + 1) - 1]
    BY <1>7
  <2>2. QED
    BY <1>9, <2>1
<1> HIDE DEF Good
<1>10. Nat \subseteq Good
  BY <1>8, <1>9, NatSetInduction
<1>11. QED
  BY <1>6, <1>7, <1>10 DEF Good

\* The sizes of words and of int32s are powers of two, and one divides the other.
LEMMA Pow2Positive ==
  /\ \A n \in Nat : Pow2[n] \in Nat \ {0}
  /\ \A n \in Nat : Pow2[n + 1] = 2 * Pow2[n]
<1>1. \A n \in Nat : Pow2[n + 1] = 2 * Pow2[n]
  <2>1. ASSUME NEW n \in Nat PROVE Pow2[n + 1] = 2 * Pow2[n]
    <3>1. n + 1 \in Nat /\ n + 1 # 0 /\ (n + 1) - 1 = n
      OBVIOUS
    <3>2. QED
      BY <3>1, Pow2Def
  <2>2. QED
    BY <2>1
<1> DEFINE Good == {n \in Nat : Pow2[n] \in Nat \ {0}}
<1>2. 0 \in Good
  BY Pow2Def
<1>3. ASSUME NEW n \in Nat, n \in Good PROVE n + 1 \in Good
  BY <1>1, <1>3
<1> HIDE DEF Good
<1>4. Nat \subseteq Good
  BY <1>2, <1>3, NatSetInduction
<1>5. QED
  BY <1>1, <1>4 DEF Good

(***************************************************************************)
(* math/bits.Len64.                                                        *)
(***************************************************************************)
LEMMA Len64Def ==
  /\ Len64 \in [Nat -> Nat]
  /\ \A x \in Nat : Len64[x] = IF x < 2 THEN 1 ELSE 1 + Len64[x \div 2]
<1> DEFINE Eq(f) == f = [x \in Nat |-> IF x < 2 THEN 1 ELSE 1 + f[x \div 2]]
           small == {0, 1}
           init == [x \in Nat |-> 1]
           pred == [x \in Nat |-> x \div 2]
           step == [x \in Nat |-> [t \in Nat |-> 1 + t]]
<1>1. Recursion(Nat, small, init, pred, step)
  BY DEF Recursion
<1> HIDE DEF small, init, pred, step
<1>2. PICK f : Recurs(f, Nat, small, init, pred, step)
  BY <1>1, NatRecursion
<1>3. ASSUME NEW x \in Nat PROVE f[x] = IF x < 2 THEN 1 ELSE 1 + f[x \div 2]
  <2>1. f[x] = IF x \in small THEN init[x] ELSE step[x][f[pred[x]]]
    BY <1>2 DEF Recurs
  <2>2. pred[x] = x \div 2 /\ x \div 2 \in Nat /\ f[x \div 2] \in Nat
    BY <1>2 DEF pred, Recurs
  <2>3. x < 2 <=> x \in small
    BY DEF small
  <2>4. init[x] = 1 /\ step[x][f[x \div 2]] = 1 + f[x \div 2]
    BY <2>2 DEF init, step
  <2>5. QED
    BY <2>1, <2>2, <2>3, <2>4
<1>4. Eq(f)
  BY <1>2, <1>3 DEF Recurs
<1>5. Len64 = CHOOSE g : Eq(g)
  BY DEF Len64
<1> HIDE DEF Eq
<1>6. Eq(Len64)
  BY <1>4, <1>5, Zenon
<1> USE DEF Eq
<1>7. \A x \in Nat : Len64[x] = IF x < 2 THEN 1 ELSE 1 + Len64[x \div 2]
  BY <1>6
<1> DEFINE Good == {n \in Nat : Len64[n] \in Nat}
<1>8. ASSUME NEW n \in Nat, \A m \in Nat : m < n => m \in Good PROVE n \in Good
  <2>1. n >= 2 => n \div 2 \in Nat /\ n \div 2 < n
    OBVIOUS
  <2>2. n >= 2 => Len64[n \div 2] \in Nat
    BY <1>8, <2>1
  <2>3. QED
    BY <1>7, <2>2
<1> HIDE DEF Good
<1>9. Nat \subseteq Good
  BY <1>8, NatSetStrongInduction
<1>10. QED
  BY <1>6, <1>7, <1>9 DEF Good

Byte == 0 .. 255

(***************************************************************************)
(* encodeVarint: seven bits in each byte, the low ones first.              *)
(***************************************************************************)
LEMMA EncodeVarintDef ==
  /\ EncodeVarint \in [Nat -> Seq(Byte)]
  /\ \A v \in Nat : v < 128 => EncodeVarint[v] = <<v>>
  /\ \A v \in Nat : v >= 128 =>
        EncodeVarint[v] = <<128 + (v % 128)>> \o EncodeVarint[v \div 128]
<1> DEFINE Eq(f) == f = [v \in Nat |->
                            IF v < 128 THEN <<v>> ELSE <<128 + (v % 128)>> \o f[v \div 128]]
           small == 0 .. 127
           init == [v \in Nat |-> IF v < 128 THEN <<v>> ELSE <<>>]
           pred == [v \in Nat |-> v \div 128]
           step == [v \in Nat |-> [t \in Seq(Byte) |-> <<128 + (v % 128)>> \o t]]
<1>1. Recursion(Seq(Byte), small, init, pred, step)
  <2>1. \A v \in Nat : v < 128 => v \in Byte
    BY DEF Byte
  <2>2. init \in [Nat -> Seq(Byte)]
    BY <2>1
  <2>3. \A v \in Nat : 128 + (v % 128) \in Byte
    BY DEF Byte
  <2>4. step \in [Nat -> [Seq(Byte) -> Seq(Byte)]]
    BY <2>3
  <2>5. pred \in [Nat -> Nat] /\ \A v \in Nat \ small : pred[v] < v
    OBVIOUS
  <2>6. small \in SUBSET Nat
    OBVIOUS
  <2> HIDE DEF small, init, pred, step
  <2>7. QED
    BY <2>2, <2>4, <2>5, <2>6 DEF Recursion
<1> HIDE DEF small, init, pred, step
<1>2. PICK f : Recurs(f, Seq(Byte), small, init, pred, step)
  BY <1>1, NatRecursion
<1>3. ASSUME NEW v \in Nat
      PROVE  f[v] = IF v < 128 THEN <<v>> ELSE <<128 + (v % 128)>> \o f[v \div 128]
  <2>1. f[v] = IF v \in small THEN init[v] ELSE step[v][f[pred[v]]]
    BY <1>2 DEF Recurs
  <2>2. pred[v] = v \div 128 /\ v \div 128 \in Nat /\ f[v \div 128] \in Seq(Byte)
    BY <1>2 DEF pred, Recurs
  <2>3. v < 128 <=> v \in small
    BY DEF small
  <2>4. step[v][f[v \div 128]] = <<128 + (v % 128)>> \o f[v \div 128]
    BY <2>2 DEF step
  <2>5. v < 128 => init[v] = <<v>>
    BY DEF init
  <2>6. QED
    BY <2>1, <2>2, <2>3, <2>4, <2>5
<1>4. Eq(f)
  <2>1. f \in [Nat -> Seq(Byte)]
    BY <1>2 DEF Recurs
  <2>2. QED
    BY <1>3, <2>1
<1>5. EncodeVarint = CHOOSE g : Eq(g)
  BY DEF EncodeVarint
<1> HIDE DEF Eq
<1>6. Eq(EncodeVarint)
  BY <1>4, <1>5, Zenon
<1> USE DEF Eq
<1>7. /\ \A v \in Nat : v < 128 => EncodeVarint[v] = <<v>>
      /\ \A v \in Nat : v >= 128 =>
            EncodeVarint[v] = <<128 + (v % 128)>> \o EncodeVarint[v \div 128]
  <2>1. \A v \in Nat : EncodeVarint[v] =
            IF v < 128 THEN <<v>> ELSE <<128 + (v % 128)>> \o EncodeVarint[v \div 128]
    BY <1>6
  <2>2. \A v \in Nat : v >= 128 => ~ (v < 128)
    OBVIOUS
  <2>3. QED
    BY <2>1, <2>2, Zenon
<1> DEFINE Good == {n \in Nat : EncodeVarint[n] \in Seq(Byte)}
<1>8. ASSUME NEW n \in Nat, \A m \in Nat : m < n => m \in Good PROVE n \in Good
  <2>1. n >= 128 => n \div 128 \in Nat /\ n \div 128 < n
    OBVIOUS
  <2>2. n >= 128 => EncodeVarint[n \div 128] \in Seq(Byte)
    BY <1>8, <2>1
  <2>3. 128 + (n % 128) \in Byte /\ (n < 128 => n \in Byte)
    BY DEF Byte
  <2>4. CASE n < 128
    <3>1. EncodeVarint[n] = <<n>>
      BY <1>7, <2>4, Zenon
    <3>2. <<n>> \in Seq(Byte)
      BY <2>3, <2>4
    <3>3. QED
      BY <3>1, <3>2
  <2>5. CASE n >= 128
    <3>1. EncodeVarint[n] = <<128 + (n % 128)>> \o EncodeVarint[n \div 128]
      BY <1>7, <2>5, Zenon
    <3>2. <<128 + (n % 128)>> \in Seq(Byte)
      BY <2>3
    <3>3. EncodeVarint[n] \in Seq(Byte)
      BY <2>2, <2>5, <3>1, <3>2
    <3>4. QED
      BY <3>3
  <2>6. QED
    BY <2>4, <2>5
<1> HIDE DEF Good
<1>9. Nat \subseteq Good
  BY <1>8, NatSetStrongInduction
<1>10. QED
  BY <1>6, <1>7, <1>9 DEF Good

(***************************************************************************)
(* sov counts the bytes that encodeVarint writes.                          *)
(***************************************************************************)
LEMMA SovCounts ==
  \A v \in Nat : Len(EncodeVarint[v]) = Sov(v) /\ Sov(v) \in Nat /\ Sov(v) >= 1
<1> DEFINE Good == {v \in Nat : Len(EncodeVarint[v]) = Sov(v) /\ Sov(v) >= 1 /\ Sov(v) \in Nat}
<1>1. ASSUME NEW v \in Nat, \A w \in Nat : w < v => w \in Good PROVE v \in Good
  <2>1. CASE v < 128
    <3>1. Len(EncodeVarint[v]) = 1
      <4>1. EncodeVarint[v] = <<v>>
        BY <2>1, EncodeVarintDef, Zenon
      <4>2. QED
        BY <4>1
    <3>2. Len64[v] \in 1 .. 7
      <4>1. \A x \in Nat : x < 2 => Len64[x] = 1
        BY Len64Def
      <4>2. \A x \in Nat : x < 4 => Len64[x] \in 1 .. 2
        BY <4>1, Len64Def
      <4>3. \A x \in Nat : x < 8 => Len64[x] \in 1 .. 3
        BY <4>2, Len64Def
      <4>4. \A x \in Nat : x < 16 => Len64[x] \in 1 .. 4
        BY <4>3, Len64Def
      <4>5. \A x \in Nat : x < 32 => Len64[x] \in 1 .. 5
        BY <4>4, Len64Def
      <4>6. \A x \in Nat : x < 64 => Len64[x] \in 1 .. 6
        BY <4>5, Len64Def
      <4>7. \A x \in Nat : x < 128 => Len64[x] \in 1 .. 7
        BY <4>6, Len64Def
      <4>8. QED
        BY <2>1, <4>7
    <3>3. Sov(v) = 1
      BY <3>2 DEF Sov
    <3>4. QED
      BY <3>1, <3>3
  <2>2. CASE v >= 128
    <3> DEFINE w == v \div 128
    <3>1. w \in Nat /\ w < v /\ w >= 1
      BY <2>2
    <3>2. EncodeVarint[v] = <<128 + (v % 128)>> \o EncodeVarint[w]
      BY <2>2, EncodeVarintDef, Zenon
    <3>3. EncodeVarint[w] \in Seq(Byte)
      BY <3>1, EncodeVarintDef
    <3>4. Len(EncodeVarint[v]) = 1 + Len(EncodeVarint[w])
      BY <3>2, <3>3
    <3>5. Len64[v] = 7 + Len64[w]
      <4>1. \A x \in Nat : x >= 2 => Len64[x] = 1 + Len64[x \div 2] /\ x \div 2 \in Nat
        BY Len64Def
      <4>2. \A x \in Nat : x >= 4 => Len64[x] = 2 + Len64[x \div 4] /\ x \div 4 \in Nat
        <5>1. \A x \in Nat : (x \div 2) \div 2 = x \div 4 /\ (x >= 4 => x \div 2 >= 2)
          OBVIOUS
        <5>2. ASSUME NEW x \in Nat, x >= 4 PROVE Len64[x] = 2 + Len64[x \div 4] /\ x \div 4 \in Nat
          <6>1. Len64[x] = 1 + Len64[x \div 2] /\ x \div 2 \in Nat
            BY <4>1, <5>2
          <6>2. Len64[x \div 2] = 1 + Len64[x \div 4]
            BY <4>1, <5>1, <5>2, <6>1
          <6>3. x \div 4 \in Nat /\ Len64[x \div 4] \in Nat
            BY Len64Def
          <6>4. QED
            BY <6>1, <6>2, <6>3
        <5>3. QED
          BY <5>2
      <4>3. \A x \in Nat : x >= 8 => Len64[x] = 3 + Len64[x \div 8] /\ x \div 8 \in Nat
        <5>1. \A x \in Nat : (x \div 2) \div 4 = x \div 8 /\ (x >= 8 => x \div 2 >= 4)
          OBVIOUS
        <5>2. ASSUME NEW x \in Nat, x >= 8 PROVE Len64[x] = 3 + Len64[x \div 8] /\ x \div 8 \in Nat
          <6>1. Len64[x] = 1 + Len64[x \div 2] /\ x \div 2 \in Nat
            BY <4>1, <5>2
          <6>2. Len64[x \div 2] = 2 + Len64[x \div 8]
            BY <4>2, <5>1, <5>2, <6>1
          <6>3. x \div 8 \in Nat /\ Len64[x \div 8] \in Nat
            BY Len64Def
          <6>4. QED
            BY <6>1, <6>2, <6>3
        <5>3. QED
          BY <5>2
      <4>4. \A x \in Nat : x >= 128 =>
                 (x \div 8) \div 8 \in Nat /\ ((x \div 8) \div 8) \div 2 = x \div 128
                 /\ x \div 8 >= 8 /\ (x \div 8) \div 8 >= 2
        OBVIOUS
      <4>5. Len64[v] = 3 + Len64[v \div 8] /\ v \div 8 \in Nat
        BY <2>2, <4>3
      <4>6. Len64[v \div 8] = 3 + Len64[(v \div 8) \div 8]
        BY <2>2, <4>3, <4>4, <4>5
      <4>7. Len64[(v \div 8) \div 8] = 1 + Len64[w]
        BY <2>2, <4>1, <4>4
      <4>8. Len64[w] \in Nat
        BY <3>1, Len64Def
      <4> HIDE DEF w
      <4>9. QED
        BY <4>5, <4>6, <4>7, <4>8
    <3>6. Len64[w] \in Nat /\ w \in Good
      BY <1>1, <3>1, Len64Def
    <3>7. Sov(v) = 1 + Sov(w)
      <4> HIDE DEF w
      <4>1. Len64[v] + 6 = (Len64[w] + 6) + 7
        BY <3>5, <3>6
      <4>2. QED
        BY <3>6, <4>1 DEF Sov
    <3> HIDE DEF w
    <3>8. QED
      BY <3>4, <3>6, <3>7
  <2>3. QED
    BY <2>1, <2>2
<1> HIDE DEF Good
<1>2. Nat \subseteq Good
  BY <1>1, NatSetStrongInduction
<1>3. QED
  BY <1>2 DEF Good

\* A number that fits into w bits takes no more of them.
LEMMA Len64Bound ==
  ASSUME NEW w \in Nat, w >= 1, NEW v \in Nat, v < Pow2[w]
  PROVE  Len64[v] \in 1 .. w
<1> DEFINE Good == {n \in Nat : \A x \in Nat : x < Pow2[n + 1] => Len64[x] \in 1 .. n + 1}
<1>1. 0 \in Good
  <2>1. Pow2[0 + 1] = 2
    BY Pow2Positive, Pow2Def
  <2>2. \A x \in Nat : x < 2 => Len64[x] = 1
    BY Len64Def
  <2>3. QED
    BY <2>1, <2>2
<1>2. ASSUME NEW n \in Nat, n \in Good PROVE n + 1 \in Good
  <2>1. ASSUME NEW x \in Nat, x < Pow2[(n + 1) + 1] PROVE Len64[x] \in 1 .. (n + 1) + 1
    <3>1. CASE x < 2
      <4>1. Len64[x] = 1
        BY <3>1, Len64Def
      <4>2. QED
        BY <4>1
    <3>2. CASE x >= 2
      <4>1. Pow2[(n + 1) + 1] = 2 * Pow2[n + 1] /\ Pow2[n + 1] \in Nat
        BY Pow2Positive
      <4>2. x \div 2 \in Nat /\ x \div 2 < Pow2[n + 1]
        BY <2>1, <4>1
      <4>3. Len64[x \div 2] \in 1 .. n + 1
        BY <1>2, <4>2
      <4>4. Len64[x] = 1 + Len64[x \div 2]
        BY <3>2, Len64Def
      <4>5. QED
        BY <4>3, <4>4
    <3>3. QED
      BY <3>1, <3>2
  <2>2. QED
    BY <2>1
<1> HIDE DEF Good
<1>3. Nat \subseteq Good
  BY <1>1, <1>2, NatSetInduction
<1>4. w - 1 \in Nat /\ (w - 1) + 1 = w
  OBVIOUS
<1>5. w - 1 \in Good
  BY <1>3, <1>4
<1>6. QED
  BY <1>4, <1>5 DEF Good

-----------------------------------------------------------------------------
(* Reading.                                                                *)

\* One byte of a varint, with what the bytes behind it say.
VarintStep(s, i, room, tail) ==
    LET here == i + (MaxVarint - room) + 1
    IN  IF room = 0 \/ here > Len(s) THEN Refused
        ELSE IF s[here] < 128 THEN [ok |-> TRUE, value |-> s[here], next |-> here]
        ELSE IF ~tail.ok THEN Refused
        ELSE [ok |-> TRUE, value |-> (s[here] - 128) + 128 * tail.value, next |-> tail.next]

VarintRests(r, n, s, i) ==
    r = [room \in 0 .. n |-> VarintStep(s, i, room, r[room - 1])]

(***************************************************************************)
(* The loop of ReadVarint has a result for every room that is left.        *)
(***************************************************************************)
LEMMA ReadVarintDef ==
  ASSUME NEW s, NEW i
  PROVE  \E r : /\ VarintRests(r, MaxVarint, s, i)
                /\ ReadVarint(s, i) =
                     IF ~r[MaxVarint].ok THEN Refused
                     ELSE [ok |-> TRUE, value |-> Word(r[MaxVarint].value),
                           next |-> r[MaxVarint].next]
<1> DEFINE Step(room, tail) == VarintStep(s, i, room, tail)
           Good == {n \in Nat : \E r : VarintRests(r, n, s, i)}
<1>0. MaxVarint \in Nat
  BY WidthAssumption DEF MaxVarint
<1>1. 0 \in Good
  <2> DEFINE r == [room \in 0 .. 0 |-> Refused]
  <2>1. \A tail, room : room = 0 => Step(room, tail) = Refused
    BY DEF VarintStep
  <2>2. \A room \in 0 .. 0 : room = 0
    OBVIOUS
  <2>3. r = [room \in 0 .. 0 |-> Step(room, r[room - 1])]
    BY <2>1, <2>2
  <2>4. QED
    BY <2>3 DEF VarintRests
<1>2. ASSUME NEW n \in Nat, n \in Good PROVE n + 1 \in Good
  <2>1. PICK r : VarintRests(r, n, s, i)
    BY <1>2
  <2> DEFINE h == [room \in 0 .. n + 1 |-> Step(room, r[room - 1])]
  <2>2. \A room \in 0 .. n : room \in 0 .. n + 1 /\ h[room] = r[room]
    BY <2>1 DEF VarintRests
  <2>3. ASSUME NEW room \in 0 .. n + 1 PROVE Step(room, r[room - 1]) = Step(room, h[room - 1])
    <3>1. CASE room = 0
      BY <3>1 DEF VarintStep
    <3>2. CASE room # 0
      <4>1. room - 1 \in 0 .. n
        BY <3>2
      <4>2. QED
        BY <2>2, <4>1
    <3>3. QED
      BY <3>1, <3>2
  <2> HIDE DEF Step
  <2>4. h = [room \in 0 .. n + 1 |-> Step(room, h[room - 1])]
    BY <2>3
  <2> HIDE DEF h
  <2>5. VarintRests(h, n + 1, s, i)
    BY <2>4 DEF VarintRests, Step
  <2>6. QED
    BY <2>5
<1> HIDE DEF Good
<1>3. MaxVarint \in Good
  BY <1>0, <1>1, <1>2, NatSetInduction
<1> DEFINE Eq(r) == VarintRests(r, MaxVarint, s, i)
           rest == CHOOSE r : Eq(r)
<1>4. \E r : Eq(r)
  BY <1>3 DEF Good
<1>5. ReadVarint(s, i) =
         IF ~rest[MaxVarint].ok THEN Refused
         ELSE [ok |-> TRUE, value |-> Word(rest[MaxVarint].value), next |-> rest[MaxVarint].next]
  BY DEF ReadVarint, VarintEnd, VarintRests, VarintStep
<1> HIDE DEF Eq
<1>6. Eq(rest)
  BY <1>4, Zenon
<1> HIDE DEF rest
<1>7. QED
  BY <1>5, <1>6 DEF Eq

\* What ReadVarint may return when it begins at i.
VarintResult(s, i) ==
    {Refused} \cup [ok : {TRUE}, value : 0 .. WordSize - 1, next : i + 1 .. Len(s)]

\* The sizes of the integer types.
LEMMA Sizes ==
  /\ WordBits \in Nat /\ WordBits >= 1 /\ IntBits \in Nat /\ IntBits >= 1
  /\ WordSize \in Nat \ {0} /\ IntSize \in Nat \ {0}
  /\ MaxVarint \in Nat
BY WidthAssumption, Pow2Positive DEF WordSize, IntSize, MaxVarint

\* A varint ends inside the input, behind the place where it began.
LEMMA ReadVarintType ==
  ASSUME NEW s \in Seq(Int), NEW i \in Nat
  PROVE  ReadVarint(s, i) \in VarintResult(s, i)
<1> DEFINE Raw(x) == \/ x = Refused
                     \/ x.ok = TRUE /\ x.value \in Int /\ x.next \in i + 1 .. Len(s)
<1>1. PICK r : /\ VarintRests(r, MaxVarint, s, i)
               /\ ReadVarint(s, i) = IF ~r[MaxVarint].ok THEN Refused
                                     ELSE [ok |-> TRUE, value |-> Word(r[MaxVarint].value),
                                           next |-> r[MaxVarint].next]
  BY ReadVarintDef
<1>2. MaxVarint \in Nat
  BY Sizes
<1>3. \A room \in 0 .. MaxVarint : r[room] = VarintStep(s, i, room, r[room - 1])
  BY <1>1 DEF VarintRests
<1>a. Refused.ok = FALSE
  BY DEF Refused
<1> DEFINE Good == {n \in Nat : n \in 0 .. MaxVarint => Raw(r[n])}
<1>4. 0 \in Good
  <2>1. 0 \in 0 .. MaxVarint
    BY <1>2
  <2>2. r[0] = VarintStep(s, i, 0, r[0 - 1])
    BY <1>3, <2>1
  <2>3. r[0] = Refused
    BY <2>2 DEF VarintStep
  <2>4. QED
    BY <2>3
<1>5. ASSUME NEW n \in Nat, n \in Good, n + 1 \in 0 .. MaxVarint PROVE Raw(r[n + 1])
  <2> DEFINE here == i + (MaxVarint - (n + 1)) + 1
             tail == r[n]
  <2>1. n \in 0 .. MaxVarint /\ (n + 1) - 1 = n /\ n + 1 # 0
    BY <1>2, <1>5
  <2>2. Raw(tail)
    BY <1>5, <2>1
  <2>3. here \in Nat /\ here >= i + 1
    BY <1>2, <1>5
  <2>4. r[n + 1] = VarintStep(s, i, n + 1, tail)
    BY <1>3, <1>5, <2>1
  <2> HIDE DEF tail
  <2>5. r[n + 1] = IF here > Len(s) THEN Refused
                   ELSE IF s[here] < 128 THEN [ok |-> TRUE, value |-> s[here], next |-> here]
                   ELSE IF ~tail.ok THEN Refused
                   ELSE [ok |-> TRUE, value |-> (s[here] - 128) + 128 * tail.value,
                         next |-> tail.next]
    BY <2>1, <2>4 DEF VarintStep
  <2> HIDE DEF here
  <2>6. CASE here > Len(s)
    BY <2>5, <2>6
  <2>7. CASE here <= Len(s)
    <3>1. here \in i + 1 .. Len(s) /\ here \in 1 .. Len(s) /\ ~ (here > Len(s))
      BY <2>3, <2>7
    <3>2. s[here] \in Int
      BY <3>1
    <3>3. CASE s[here] < 128
      BY <2>5, <3>1, <3>2, <3>3
    <3>4. CASE ~ (s[here] < 128)
      <4>1. r[n + 1] = IF ~tail.ok THEN Refused
                       ELSE [ok |-> TRUE, value |-> (s[here] - 128) + 128 * tail.value,
                             next |-> tail.next]
        BY <2>5, <3>1, <3>4
      <4>2. CASE tail = Refused
        BY <1>a, <4>1, <4>2
      <4>3. CASE tail.ok = TRUE /\ tail.value \in Int /\ tail.next \in i + 1 .. Len(s)
        <5>1. (s[here] - 128) + 128 * tail.value \in Int
          BY <3>2, <4>3
        <5>2. QED
          BY <4>1, <4>3, <5>1
      <4>4. QED
        BY <2>2, <4>2, <4>3
    <3>5. QED
      BY <3>3, <3>4
  <2>8. here > Len(s) \/ here <= Len(s)
    BY <2>3
  <2>9. QED
    BY <2>6, <2>7, <2>8
<1> HIDE DEF Raw
<1>6. ASSUME NEW n \in Nat, n \in Good PROVE n + 1 \in Good
  BY <1>5, <1>6
<1> HIDE DEF Good
<1>7. MaxVarint \in Good
  BY <1>2, <1>4, <1>6, NatSetInduction
<1>8. Raw(r[MaxVarint])
  BY <1>2, <1>7 DEF Good
<1> USE DEF Raw
<1>9. CASE r[MaxVarint] = Refused
  BY <1>1, <1>9, <1>a DEF VarintResult
<1>10. CASE /\ r[MaxVarint].ok = TRUE /\ r[MaxVarint].value \in Int
            /\ r[MaxVarint].next \in i + 1 .. Len(s)
  <2>1. Word(r[MaxVarint].value) \in 0 .. WordSize - 1
    BY <1>10, Sizes DEF Word
  <2>2. ReadVarint(s, i) = [ok |-> TRUE, value |-> Word(r[MaxVarint].value),
                            next |-> r[MaxVarint].next]
    BY <1>1, <1>10
  <2> DEFINE v == Word(r[MaxVarint].value)
             x == r[MaxVarint].next
  <2> HIDE DEF v, x
  <2>3. [ok |-> TRUE, value |-> v, next |-> x] \in VarintResult(s, i)
    BY <1>10, <2>1 DEF VarintResult, v, x
  <2>4. QED
    BY <2>2, <2>3 DEF v, x
<1>11. QED
  BY <1>8, <1>9, <1>10

\* The bytes c stand in s behind the first i.
StandsAt(s, i, c) == i + Len(c) <= Len(s) /\ \A k \in 1 .. Len(c) : s[i + k] = c[k]

\* Both parts of a concatenation stand where it stands.
LEMMA StandsConcat ==
  ASSUME NEW S, NEW s \in Seq(S), NEW i \in Nat, NEW a \in Seq(S), NEW b \in Seq(S)
  PROVE  StandsAt(s, i, a \o b) <=> StandsAt(s, i, a) /\ StandsAt(s, i + Len(a), b)
<1>1. /\ Len(a) \in Nat /\ Len(b) \in Nat /\ Len(a \o b) = Len(a) + Len(b) /\ Len(s) \in Nat
      /\ \A k \in 1 .. Len(a) : (a \o b)[k] = a[k]
      /\ \A k \in 1 .. Len(b) : (a \o b)[Len(a) + k] = b[k]
  OBVIOUS
<1> DEFINE c == a \o b
<1> HIDE DEF c
<1>2. ASSUME StandsAt(s, i, c) PROVE StandsAt(s, i, a) /\ StandsAt(s, i + Len(a), b)
  <2>1. i + Len(c) <= Len(s) /\ \A k \in 1 .. Len(c) : s[i + k] = c[k]
    BY <1>2 DEF StandsAt
  <2>2. i + Len(a) <= Len(s) /\ (i + Len(a)) + Len(b) <= Len(s)
    BY <1>1, <2>1 DEF c
  <2>3. \A k \in 1 .. Len(a) : k \in 1 .. Len(c)
    BY <1>1 DEF c
  <2>4. \A k \in 1 .. Len(a) : s[i + k] = a[k]
    BY <1>1, <2>1, <2>3 DEF c
  <2>5. ASSUME NEW k \in 1 .. Len(b) PROVE s[(i + Len(a)) + k] = b[k]
    <3>1. Len(a) + k \in 1 .. Len(c) /\ (i + Len(a)) + k = i + (Len(a) + k)
      BY <1>1 DEF c
    <3>2. s[i + (Len(a) + k)] = c[Len(a) + k]
      BY <2>1, <3>1
    <3>3. QED
      BY <1>1, <3>1, <3>2 DEF c
  <2>6. QED
    BY <2>2, <2>4, <2>5 DEF StandsAt
<1>3. ASSUME StandsAt(s, i, a), StandsAt(s, i + Len(a), b) PROVE StandsAt(s, i, c)
  <2>1. i + Len(c) <= Len(s)
    BY <1>1, <1>3 DEF StandsAt, c
  <2>2. ASSUME NEW k \in 1 .. Len(c) PROVE s[i + k] = c[k]
    <3>1. CASE k <= Len(a)
      <4>1. k \in 1 .. Len(a)
        BY <1>1, <3>1
      <4>2. s[i + k] = a[k]
        BY <1>3, <4>1 DEF StandsAt
      <4>3. QED
        BY <1>1, <4>1, <4>2 DEF c
    <3>2. CASE k > Len(a)
      <4> DEFINE j == k - Len(a)
      <4>1. j \in 1 .. Len(b) /\ (i + Len(a)) + j = i + k /\ Len(a) + j = k
        BY <1>1, <3>2 DEF c
      <4> HIDE DEF j
      <4>2. s[(i + Len(a)) + j] = b[j]
        BY <1>3, <4>1 DEF StandsAt
      <4>3. c[Len(a) + j] = b[j]
        BY <1>1, <4>1 DEF c
      <4>4. QED
        BY <4>1, <4>2, <4>3
    <3>3. QED
      BY <1>1, <3>1, <3>2
  <2>3. QED
    BY <2>1, <2>2 DEF StandsAt
<1>4. QED
  BY <1>2, <1>3 DEF c

\* How the encoding of a number of more than seven bits goes on.
LEMMA VarintTail ==
  ASSUME NEW v \in Nat, v >= 128
  PROVE  /\ v \div 128 \in Nat /\ v = (v % 128) + 128 * (v \div 128) /\ v % 128 \in 0 .. 127
         /\ Sov(v \div 128) \in Nat /\ Sov(v) = 1 + Sov(v \div 128)
         /\ EncodeVarint[v] = <<128 + (v % 128)>> \o EncodeVarint[v \div 128]
<1>1. v \div 128 \in Nat /\ v % 128 \in 0 .. 127
  OBVIOUS
<1>2. v = (v % 128) + 128 * (v \div 128)
  OBVIOUS
<1>3. EncodeVarint[v] = <<128 + (v % 128)>> \o EncodeVarint[v \div 128]
  BY EncodeVarintDef, Zenon
<1>4. EncodeVarint[v \div 128] \in Seq(Byte)
  BY <1>1, EncodeVarintDef
<1>5. Len(EncodeVarint[v]) = 1 + Len(EncodeVarint[v \div 128])
  BY <1>3, <1>4
<1>6. QED
  BY <1>1, <1>2, <1>3, <1>5, SovCounts

\* Numbers that fit into a word.
LEMMA SovBound ==
  ASSUME NEW v \in 0 .. WordSize - 1
  PROVE  Sov(v) \in 1 .. MaxVarint
<1>1. v \in Nat /\ v < Pow2[WordBits]
  BY Sizes DEF WordSize
<1>2. Len64[v] \in 1 .. WordBits
  BY <1>1, Len64Bound, Sizes
<1>3. QED
  BY <1>2, Sizes DEF Sov, MaxVarint

(***************************************************************************)
(* Where encodeVarint has written a number, the decoder reads it back.     *)
(***************************************************************************)
THEOREM ReadsVarint ==
  ASSUME NEW s \in Seq(Int), NEW i \in Nat, NEW v \in 0 .. WordSize - 1,
         StandsAt(s, i, EncodeVarint[v])
  PROVE  ReadVarint(s, i) = [ok |-> TRUE, value |-> v, next |-> i + Sov(v)]
<1>1. PICK r : /\ VarintRests(r, MaxVarint, s, i)
               /\ ReadVarint(s, i) = IF ~r[MaxVarint].ok THEN Refused
                                     ELSE [ok |-> TRUE, value |-> Word(r[MaxVarint].value),
                                           next |-> r[MaxVarint].next]
  BY ReadVarintDef
<1>2. MaxVarint \in Nat
  BY Sizes
<1>3. \A room \in 0 .. MaxVarint : r[room] = VarintStep(s, i, room, r[room - 1])
  BY <1>1 DEF VarintRests
<1> DEFINE From(room) == i + (MaxVarint - room)
           Reads(room, w) == r[room] = [ok |-> TRUE, value |-> w, next |-> From(room) + Sov(w)]
           Good == {n \in Nat : n \in 0 .. MaxVarint =>
                       \A w \in Nat : Sov(w) <= n /\ StandsAt(s, From(n), EncodeVarint[w])
                                         => Reads(n, w)}
<1>4. 0 \in Good
  <2>1. \A w \in Nat : ~ (Sov(w) <= 0)
    BY SovCounts
  <2>2. QED
    BY <2>1
<1>5. ASSUME NEW n \in Nat, n \in Good, n + 1 \in 0 .. MaxVarint, NEW w \in Nat,
             Sov(w) <= n + 1, StandsAt(s, From(n + 1), EncodeVarint[w])
      PROVE  Reads(n + 1, w)
  <2> DEFINE j == From(n + 1)
             here == i + (MaxVarint - (n + 1)) + 1
             tail == r[n]
  <2>1. n \in 0 .. MaxVarint /\ (n + 1) - 1 = n /\ n + 1 # 0
    BY <1>2, <1>5
  <2>2. j \in Nat /\ here = j + 1 /\ From(n) = j + 1 /\ here \in Nat
    BY <1>2, <1>5
  <2>3. r[n + 1] = VarintStep(s, i, n + 1, tail)
    BY <1>3, <1>5, <2>1
  <2>4. r[n + 1] = IF here > Len(s) THEN Refused
                   ELSE IF s[here] < 128 THEN [ok |-> TRUE, value |-> s[here], next |-> here]
                   ELSE IF ~tail.ok THEN Refused
                   ELSE [ok |-> TRUE, value |-> (s[here] - 128) + 128 * tail.value,
                         next |-> tail.next]
    BY <2>1, <2>3 DEF VarintStep
  <2>5. StandsAt(s, j, EncodeVarint[w])
    BY <1>5
  <2> HIDE DEF here, tail, j, Good
  <2>6. CASE w < 128
    <3>1. EncodeVarint[w] = <<w>>
      BY <2>6, EncodeVarintDef, Zenon
    <3>2. here <= Len(s) /\ s[here] = w
      BY <2>2, <2>5, <3>1 DEF StandsAt
    <3>3. r[n + 1] = [ok |-> TRUE, value |-> w, next |-> j + 1]
      BY <2>2, <2>4, <2>6, <3>2
    <3>4. Sov(w) = 1
      <4>1. Len(EncodeVarint[w]) = 1
        BY <3>1
      <4>2. QED
        BY <4>1, SovCounts
    <3>5. QED
      BY <3>3, <3>4 DEF j
  <2>7. CASE w >= 128
    <3> DEFINE u == w \div 128
               lo == w % 128
    <3>1. /\ u \in Nat /\ w = lo + 128 * u /\ lo \in 0 .. 127
          /\ Sov(u) \in Nat /\ Sov(w) = 1 + Sov(u)
          /\ EncodeVarint[w] = <<128 + lo>> \o EncodeVarint[u]
      BY <2>7, VarintTail
    <3> HIDE DEF u, lo
    <3>2. StandsAt(s, j, <<128 + lo>>) /\ StandsAt(s, j + 1, EncodeVarint[u])
      <4> DEFINE one == <<128 + lo>>
                 more == EncodeVarint[u]
      <4>1. more \in Seq(Int) /\ one \in Seq(Int) /\ Len(one) = 1
        <5>1. EncodeVarint[u] \in Seq(Byte)
          BY <3>1, EncodeVarintDef
        <5>2. Byte \subseteq Int
          BY DEF Byte
        <5>3. EncodeVarint[u] \in Seq(Int)
          BY <5>1, <5>2, SeqMonotonic
        <5>4. QED
          BY <3>1, <5>3
      <4>2. EncodeVarint[w] = one \o more
        BY <3>1
      <4> HIDE DEF one, more
      <4>3. StandsAt(s, j, one \o more)
        BY <2>5, <4>2, Zenon
      <4>4. StandsAt(s, j, one) /\ StandsAt(s, j + Len(one), more)
        BY <2>2, <4>1, <4>3, StandsConcat
      <4>5. QED
        BY <4>1, <4>4 DEF one, more
    <3>3. here <= Len(s) /\ s[here] = 128 + lo
      BY <2>2, <3>1, <3>2 DEF StandsAt
    <3>4. Reads(n, u)
      BY <1>5, <2>1, <2>2, <3>1, <3>2 DEF Good
    <3>5. tail = [ok |-> TRUE, value |-> u, next |-> (j + 1) + Sov(u)]
      BY <2>2, <3>4 DEF tail
    <3>6. tail.ok = TRUE /\ tail.value = u /\ tail.next = (j + 1) + Sov(u)
      BY <3>5
    <3>7. ~ (here > Len(s)) /\ ~ (s[here] < 128) /\ (s[here] - 128) + 128 * u = w
      BY <2>2, <3>1, <3>3
    <3>8. r[n + 1] = [ok |-> TRUE, value |-> w, next |-> (j + 1) + Sov(u)]
      BY <2>4, <3>6, <3>7
    <3>9. (j + 1) + Sov(u) = j + Sov(w)
      BY <2>2, <3>1
    <3>10. QED
      BY <3>8, <3>9 DEF j
  <2>8. QED
    BY <2>6, <2>7
<1>6. ASSUME NEW n \in Nat, n \in Good PROVE n + 1 \in Good
  <2> HIDE DEF Reads, From
  <2>1. n + 1 \in 0 .. MaxVarint =>
           \A w \in Nat : Sov(w) <= n + 1 /\ StandsAt(s, From(n + 1), EncodeVarint[w])
                             => Reads(n + 1, w)
    BY <1>5, <1>6
  <2>2. QED
    BY <2>1
<1> HIDE DEF Good
<1>7. MaxVarint \in Good
  BY <1>2, <1>4, <1>6, NatSetInduction
<1>8. v \in Nat /\ Sov(v) <= MaxVarint
  BY SovBound, Sizes
<1>9. From(MaxVarint) = i
  BY <1>2
<1>10. Reads(MaxVarint, v)
  <2> HIDE DEF Reads
  <2>1. MaxVarint \in 0 .. MaxVarint
    BY <1>2
  <2>2. StandsAt(s, From(MaxVarint), EncodeVarint[v])
    BY <1>9
  <2> HIDE DEF From
  <2>3. QED
    BY <1>7, <1>8, <2>1, <2>2 DEF Good
<1>11. r[MaxVarint] = [ok |-> TRUE, value |-> v, next |-> i + Sov(v)]
  BY <1>9, <1>10
<1>12. Word(v) = v
  BY Sizes DEF Word
<1>13. QED
  BY <1>1, <1>11, <1>12

\* What a function that reads returns: an error, or where it leaves off.
IsRead(x) == x = Refused \/ (x.ok = TRUE /\ x.next \in Nat)

IsVarint(s, i, v) ==
    \/ v = Refused
    \/ /\ v.ok = TRUE
       /\ v.value \in 0 .. WordSize - 1 /\ v.value \in Nat
       /\ v.next \in i + 1 .. Len(s) /\ v.next \in Nat

IsBlock(b) == b = Refused \/ (b.ok = TRUE /\ b.bytes \in Seq(Int) /\ b.next \in Nat)

\* A refusal is not a success.
LEMMA RefusedFails == Refused.ok = FALSE
BY DEF Refused

\* What ReadVarint returns, by its fields.
LEMMA VarintFields ==
  ASSUME NEW s \in Seq(Int), NEW i \in Nat
  PROVE  IsVarint(s, i, ReadVarint(s, i))
<1> DEFINE v == ReadVarint(s, i)
           values == 0 .. WordSize - 1
           nexts == i + 1 .. Len(s)
<1>1. v \in VarintResult(s, i)
  BY ReadVarintType
<1>a. values \subseteq Nat /\ nexts \subseteq Nat
  BY Sizes
<1> HIDE DEF v, values, nexts
<1>2. v = Refused \/ v \in [ok : {TRUE}, value : values, next : nexts]
  BY <1>1 DEF VarintResult, values, nexts
<1>3. ASSUME v \in [ok : {TRUE}, value : values, next : nexts]
      PROVE  v.ok = TRUE /\ v.value \in values /\ v.next \in nexts
  BY <1>3
<1>4. QED
  BY <1>2, <1>3, <1>a DEF v, values, nexts, IsVarint

\* A conversion to a signed type gives an integer.
LEMMA SignedRange ==
  ASSUME NEW x \in Int, NEW size \in Nat \ {0}
  PROVE  Signed(x, size) \in Int
<1>1. x % size \in 0 .. size - 1
  OBVIOUS
<1>2. QED
  BY <1>1 DEF Signed

\* A block lies inside the input.
LEMMA BlockFields ==
  ASSUME NEW s \in Seq(Int), NEW i \in Nat
  PROVE  IsBlock(ReadBlock(s, i))
<1> DEFINE len == ReadVarint(s, i)
           size == Signed(len.value, WordSize)
           postIndex == Signed(len.next + size, WordSize)
           b == ReadBlock(s, i)
<1>1. b = IF ~len.ok \/ size < 0 \/ postIndex < 0 \/ postIndex > Len(s) THEN Refused
          ELSE [ok |-> TRUE, bytes |-> SubSeq(s, len.next + 1, postIndex), next |-> postIndex]
  BY DEF ReadBlock, BlockFrom
<1>2. len = Refused \/ (len.ok = TRUE /\ len.value \in Nat /\ len.next \in Nat)
  BY VarintFields DEF IsVarint
<1> HIDE DEF len, b
<1>3. CASE len = Refused
  BY <1>1, <1>3, RefusedFails DEF b, IsBlock
<1>4. CASE len.ok = TRUE /\ len.value \in Nat /\ len.next \in Nat
  <2>0. WordSize \in Nat \ {0} /\ len.value \in Int /\ len.next \in Int
    BY <1>4, Sizes
  <2>1. size \in Int
    BY <2>0, SignedRange
  <2> HIDE DEF size
  <2>a. len.next + size \in Int
    BY <2>0, <2>1
  <2>2. postIndex \in Int
    BY <2>0, <2>a, SignedRange
  <2> HIDE DEF postIndex
  <2>3. CASE postIndex < 0 \/ postIndex > Len(s)
    BY <1>1, <2>3 DEF b, IsBlock
  <2>4. CASE ~ (postIndex < 0 \/ postIndex > Len(s))
    <3>1. postIndex \in Nat
      BY <2>2, <2>4
    <3> DEFINE from == len.next + 1
               bytes == SubSeq(s, from, postIndex)
    <3>2. from \in Int /\ \A k \in from .. postIndex : s[k] \in Int
      BY <1>4, <2>2, <2>4
    <3>3. bytes \in Seq(Int)
      <4> HIDE DEF from
      <4>1. QED
        BY <2>2, <3>2, SubSeqProperties
    <3>4. b = Refused \/ b = [ok |-> TRUE, bytes |-> bytes, next |-> postIndex]
      BY <1>1
    <3> HIDE DEF bytes
    <3>5. QED
      BY <3>1, <3>3, <3>4 DEF b, IsBlock
  <2>5. QED
    BY <2>3, <2>4
<1>5. QED
  BY <1>2, <1>3, <1>4

\* The tag of a field lies inside the input.
LEMMA TagFields ==
  ASSUME NEW s \in Seq(Int), NEW i \in Nat
  PROVE  IsRead(ReadTag(s, i))
<1> DEFINE varint == ReadVarint(s, i)
           fieldNum == Signed(varint.value \div 8, IntSize)
           wireType == varint.value % 8
           t == ReadTag(s, i)
<1>1. t = IF ~varint.ok \/ wireType = 4 \/ fieldNum <= 0 THEN Refused
          ELSE [ok |-> TRUE, fieldNum |-> fieldNum, wireType |-> wireType, next |-> varint.next]
  BY DEF ReadTag, TagFrom
<1>2. varint = Refused \/ (varint.ok = TRUE /\ varint.next \in Nat)
  BY VarintFields DEF IsVarint
<1> HIDE DEF varint, fieldNum, wireType, t
<1>3. IsRead(t)
  BY <1>1, <1>2, RefusedFails DEF IsRead
<1>4. QED
  BY <1>3 DEF t

\* So does a field that is no message.
LEMMA ScalarFields ==
  ASSUME NEW f, NEW wireType, NEW s \in Seq(Int), NEW i \in Nat
  PROVE  IsRead(ReadScalar(f, wireType, s, i))
<1> DEFINE varint == ReadVarint(s, i)
           block == ReadBlock(s, i)
           val == CASE f.kind = "int32" -> Signed(varint.value, IntSize)
                    [] f.kind = "uint64" -> varint.value
                    [] f.kind = "bool" -> varint.value # 0
           x == ReadScalar(f, wireType, s, i)
<1>1. x = IF f.kind \in {"string", "bytes"}
          THEN IF wireType # 2 \/ ~block.ok THEN Refused
               ELSE [ok |-> TRUE, next |-> block.next, value |-> block.bytes]
          ELSE IF wireType # 0 \/ ~varint.ok THEN Refused
               ELSE [ok |-> TRUE, next |-> varint.next, value |-> val]
  BY DEF ReadScalar, BytesCase, NumberCase
<1>2. varint = Refused \/ (varint.ok = TRUE /\ varint.next \in Nat)
  BY VarintFields DEF IsVarint
<1>3. block = Refused \/ (block.ok = TRUE /\ block.next \in Nat)
  BY BlockFields DEF IsBlock
<1> HIDE DEF varint, block, x, val
<1>4. IsRead(x)
  BY <1>1, <1>2, <1>3, RefusedFails DEF IsRead
<1>5. QED
  BY <1>4 DEF x

(***************************************************************************)
(* The loop of Skip: n rounds from index i.                                *)
(***************************************************************************)
SkipStart(i) == [ok |-> TRUE, next |-> i, depth |-> 0, done |-> FALSE]

SkipRuns(r, n, s, i) ==
    r = [k \in 0 .. n |-> IF k = 0 THEN SkipStart(i) ELSE SkipRound(s, r[k - 1])]

\* What Skip returns after round n.
SkipReturns(r, n, s, i) ==
    /\ Skip(s, i) = IF r[n].ok /\ r[n].done THEN r[n] ELSE Refused
    /\ n = Len(s) \/ ~r[n].ok \/ r[n].done

\* Skip is the loop of its rounds: it returns the state after one of them, or refuses.
LEMMA SkipDef ==
  ASSUME NEW s \in Seq(Int), NEW i
  PROVE  \E r : SkipRuns(r, Len(s), s, i) /\ \E n \in 0 .. Len(s) : SkipReturns(r, n, s, i)
<1> DEFINE Good == {n \in Nat : \E r : SkipRuns(r, n, s, i)}
           Step(x) == SkipRound(s, x)
           start == SkipStart(i)
<1>0. Len(s) \in Nat
  OBVIOUS
<1>1. 0 \in Good
  <2> DEFINE r == [k \in 0 .. 0 |-> start]
  <2> HIDE DEF start, Step
  <2>2. \A k \in 0 .. 0 : k = 0
    OBVIOUS
  <2>3. r = [k \in 0 .. 0 |-> IF k = 0 THEN start ELSE Step(r[k - 1])]
    BY <2>2
  <2>4. QED
    BY <2>3 DEF SkipRuns, start, Step
<1>2. ASSUME NEW n \in Nat, n \in Good PROVE n + 1 \in Good
  <2>1. PICK r : SkipRuns(r, n, s, i)
    BY <1>2
  <2>a. r = [k \in 0 .. n |-> IF k = 0 THEN start ELSE Step(r[k - 1])]
    BY <2>1 DEF SkipRuns
  <2> DEFINE h == [k \in 0 .. n + 1 |-> IF k = 0 THEN start ELSE Step(r[k - 1])]
  <2> HIDE DEF Step, start
  <2>2. \A k \in 0 .. n : k \in 0 .. n + 1 /\ h[k] = r[k]
    BY <2>a
  <2>3. ASSUME NEW k \in 0 .. n + 1, k # 0 PROVE Step(r[k - 1]) = Step(h[k - 1])
    <3>1. k - 1 \in 0 .. n
      BY <2>3
    <3>2. QED
      BY <2>2, <3>1
  <2>4. h = [k \in 0 .. n + 1 |-> IF k = 0 THEN start ELSE Step(h[k - 1])]
    BY <2>3
  <2> HIDE DEF h
  <2>5. SkipRuns(h, n + 1, s, i)
    BY <2>4 DEF SkipRuns, Step, start
  <2>6. QED
    BY <2>5
<1> HIDE DEF Good, Step, start
<1>3. Len(s) \in Good
  BY <1>0, <1>1, <1>2, NatSetInduction
<1> DEFINE Eq(r) == SkipRuns(r, Len(s), s, i)
           after == CHOOSE r : Eq(r)
           Stops(n) == n = Len(s) \/ ~after[n].ok \/ after[n].done
           rounds == CHOOSE n \in 0 .. Len(s) : Stops(n)
<1>4. \E r : Eq(r)
  BY <1>3 DEF Good
<1>5. Skip(s, i) = IF after[rounds].ok /\ after[rounds].done THEN after[rounds] ELSE Refused
  BY DEF Skip, SkipEnd, SkipRuns, SkipStart
<1> HIDE DEF Eq
<1>6. Eq(after)
  BY <1>4, Zenon
<1>7. Len(s) \in 0 .. Len(s) /\ Stops(Len(s))
  BY <1>0
<1> HIDE DEF after, Stops
<1>8. rounds \in 0 .. Len(s) /\ Stops(rounds)
  BY <1>7, Zenon
<1> HIDE DEF rounds
<1>9. SkipReturns(after, rounds, s, i)
  BY <1>5, <1>8 DEF SkipReturns, Stops
<1>10. QED
  BY <1>6, <1>8, <1>9 DEF Eq

\* Skip counts bytes and open groups.
IsSkipState(x) ==
    \/ x = Refused
    \/ x.ok = TRUE /\ x.next \in Nat /\ x.depth \in Nat

\* A round of Skip counts bytes and open groups in natural numbers.
LEMMA SkipRoundType ==
  ASSUME NEW s \in Seq(Int), NEW st, IsSkipState(st)
  PROVE  IsSkipState(SkipRound(s, st))
<1>1. CASE st = Refused
  BY <1>1, RefusedFails DEF SkipRound, SkipCase, Onward, IsSkipState
<1>2. CASE st.ok = TRUE /\ st.next \in Nat /\ st.depth \in Nat
  <2> DEFINE varint == ReadVarint(s, st.next)
             len == ReadVarint(s, varint.next)
             wireType == varint.value % 8
             To(next, depth) ==
                IF Signed(next, WordSize) < 0 THEN Refused
                ELSE [ok |-> TRUE, next |-> next, depth |-> depth, done |-> depth = 0]
             x == SkipRound(s, st)
  <2>1. x = IF ~st.ok \/ st.done THEN st
            ELSE IF st.next >= Len(s) \/ ~varint.ok THEN Refused
            ELSE CASE wireType = 0 /\ len.ok -> To(len.next, st.depth)
                   [] wireType = 1 -> To(varint.next + 8, st.depth)
                   [] wireType = 2 /\ len.ok /\ Signed(len.value, WordSize) >= 0 ->
                        To(len.next + len.value, st.depth)
                   [] wireType = 3 -> To(varint.next, st.depth + 1)
                   [] wireType = 4 /\ st.depth > 0 -> To(varint.next, st.depth - 1)
                   [] wireType = 5 -> To(varint.next + 4, st.depth)
                   [] OTHER -> Refused
    BY DEF SkipRound, SkipCase, Onward
  <2>2. varint = Refused \/ (varint.ok = TRUE /\ varint.next \in Nat)
    BY <1>2, VarintFields DEF IsVarint
  <2>3. varint.ok = TRUE => (len = Refused \/ (len.ok = TRUE /\ len.value \in Nat /\ len.next \in Nat))
    BY <2>2, VarintFields, RefusedFails DEF IsVarint
  <2>4. \A next, depth \in Nat : IsSkipState(To(next, depth))
    BY DEF IsSkipState
  <2>a. IsSkipState(Refused) /\ IsSkipState(st)
    BY <1>2 DEF IsSkipState
  <2> HIDE DEF varint, len, wireType, To
  <2>5. CASE ~st.ok \/ st.done
    BY <2>1, <2>5, <2>a
  <2>6. CASE st.next >= Len(s) \/ ~varint.ok
    BY <2>1, <2>6, <2>a
  <2>7. CASE ~(~st.ok \/ st.done) /\ ~(st.next >= Len(s) \/ ~varint.ok)
    <3>1. varint.next \in Nat
      BY <2>2, <2>7, RefusedFails
    <3>b. varint.ok = TRUE
      BY <2>2, <2>7, RefusedFails
    <3>2. len.ok => len.next \in Nat /\ len.value \in Nat
      BY <2>3, <3>b, RefusedFails
    <3>3. IsSkipState(To(varint.next + 8, st.depth)) /\ IsSkipState(To(varint.next + 4, st.depth))
      BY <1>2, <2>4, <3>1
    <3>4. len.ok => /\ IsSkipState(To(len.next, st.depth))
                    /\ IsSkipState(To(len.next + len.value, st.depth))
      BY <1>2, <2>4, <3>2
    <3>5. /\ IsSkipState(To(varint.next, st.depth + 1))
          /\ st.depth > 0 => IsSkipState(To(varint.next, st.depth - 1))
      BY <1>2, <2>4, <3>1
    <3> HIDE DEF x
    <3>6. x = CASE wireType = 0 /\ len.ok -> To(len.next, st.depth)
                [] wireType = 1 -> To(varint.next + 8, st.depth)
                [] wireType = 2 /\ len.ok /\ Signed(len.value, WordSize) >= 0 ->
                        To(len.next + len.value, st.depth)
                [] wireType = 3 -> To(varint.next, st.depth + 1)
                [] wireType = 4 /\ st.depth > 0 -> To(varint.next, st.depth - 1)
                [] wireType = 5 -> To(varint.next + 4, st.depth)
                [] OTHER -> Refused
      BY <2>1, <2>7
    <3>7. IsSkipState(x)
      <4> DEFINE a0 == To(len.next, st.depth)
                 a1 == To(varint.next + 8, st.depth)
                 a2 == To(len.next + len.value, st.depth)
                 a3 == To(varint.next, st.depth + 1)
                 a4 == To(varint.next, st.depth - 1)
                 a5 == To(varint.next + 4, st.depth)
                 fits == Signed(len.value, WordSize) >= 0
      <4>1. /\ len.ok => IsSkipState(a0) /\ IsSkipState(a2)
            /\ IsSkipState(a1) /\ IsSkipState(a3) /\ IsSkipState(a5)
            /\ st.depth > 0 => IsSkipState(a4)
        BY <3>3, <3>4, <3>5
      <4>2. x = CASE wireType = 0 /\ len.ok -> a0
                  [] wireType = 1 -> a1
                  [] wireType = 2 /\ len.ok /\ fits -> a2
                  [] wireType = 3 -> a3
                  [] wireType = 4 /\ st.depth > 0 -> a4
                  [] wireType = 5 -> a5
                  [] OTHER -> Refused
        BY <3>6
      <4> HIDE DEF a0, a1, a2, a3, a4, a5, fits, IsSkipState
      <4>3. QED
        BY <4>1, <4>2, <2>a
    <3>8. QED
      BY <3>7 DEF x
  <2>8. QED
    BY <2>5, <2>6, <2>7
<1>3. QED
  BY <1>1, <1>2 DEF IsSkipState

\* Skip refuses or returns an index.
LEMMA SkipFields ==
  ASSUME NEW s \in Seq(Int), NEW i \in Nat
  PROVE  IsRead(Skip(s, i))
<1>1. PICK r : SkipRuns(r, Len(s), s, i) /\ \E n \in 0 .. Len(s) : SkipReturns(r, n, s, i)
  BY SkipDef
<1>2. Len(s) \in Nat
  OBVIOUS
<1>3. \A k \in 0 .. Len(s) : r[k] = IF k = 0 THEN SkipStart(i) ELSE SkipRound(s, r[k - 1])
  BY <1>1 DEF SkipRuns
<1> DEFINE Good == {n \in Nat : n \in 0 .. Len(s) => IsSkipState(r[n])}
<1>4. 0 \in Good
  <2>1. r[0] = SkipStart(i)
    BY <1>2, <1>3
  <2>2. QED
    BY <2>1 DEF SkipStart, IsSkipState
<1>5. ASSUME NEW n \in Nat, n \in Good PROVE n + 1 \in Good
  <2>1. SUFFICES ASSUME n + 1 \in 0 .. Len(s) PROVE IsSkipState(r[n + 1])
    OBVIOUS
  <2>2. n \in 0 .. Len(s) /\ n + 1 # 0 /\ (n + 1) - 1 = n
    BY <1>2, <2>1
  <2>3. r[n + 1] = SkipRound(s, r[n])
    BY <1>3, <2>1, <2>2
  <2>4. IsSkipState(r[n])
    BY <1>5, <2>2
  <2>5. QED
    BY <2>3, <2>4, SkipRoundType
<1> HIDE DEF Good
<1>6. Nat \subseteq Good
  BY <1>4, <1>5, NatSetInduction
<1>7. \A n \in 0 .. Len(s) : IsSkipState(r[n])
  BY <1>2, <1>6 DEF Good
<1>8. PICK n \in 0 .. Len(s) : Skip(s, i) = IF r[n].ok /\ r[n].done THEN r[n] ELSE Refused
  BY <1>1 DEF SkipReturns
<1>9. QED
  BY <1>7, <1>8, RefusedFails DEF IsSkipState, IsRead

(***************************************************************************)
(* The loop that reads a message inside another one, n rounds into it.     *)
(***************************************************************************)
LeafRuns(r, n, codec, t, m, s) ==
    r = [k \in 0 .. n |-> IF k = 0 THEN [ok |-> TRUE, next |-> 0, msg |-> m]
                          ELSE LeafRound(codec, t, s, r[k - 1])]

\* Once the loop over a message inside another one has ended, rounds change nothing.
LEMMA LeafRoundStays ==
  ASSUME NEW codec, NEW t, NEW s, NEW st, Ended(s, st)
  PROVE  LeafRound(codec, t, s, st) = st
BY DEF LeafRound, Round, DefaultCase

\* LeafUnmarshal is its loop: as many rounds as there are bytes are enough.
LEMMA LeafUnmarshalDef ==
  ASSUME NEW codec, NEW t, NEW m, NEW s \in Seq(Int)
  PROVE  \E r : /\ LeafRuns(r, Len(s), codec, t, m, s)
                /\ LeafUnmarshal(codec, t, m, s) = r[Len(s)]
<1> DEFINE Good == {n \in Nat : \E r : LeafRuns(r, n, codec, t, m, s)}
           Step(x) == LeafRound(codec, t, s, x)
           start == [ok |-> TRUE, next |-> 0, msg |-> m]
<1>0. Len(s) \in Nat
  OBVIOUS
<1>1. 0 \in Good
  <2> DEFINE r == [k \in 0 .. 0 |-> start]
  <2> HIDE DEF start, Step
  <2>2. \A k \in 0 .. 0 : k = 0
    OBVIOUS
  <2>3. r = [k \in 0 .. 0 |-> IF k = 0 THEN start ELSE Step(r[k - 1])]
    BY <2>2
  <2>4. QED
    BY <2>3 DEF LeafRuns, start, Step
<1>2. ASSUME NEW n \in Nat, n \in Good PROVE n + 1 \in Good
  <2>1. PICK r : LeafRuns(r, n, codec, t, m, s)
    BY <1>2
  <2>a. r = [k \in 0 .. n |-> IF k = 0 THEN start ELSE Step(r[k - 1])]
    BY <2>1 DEF LeafRuns
  <2> DEFINE h == [k \in 0 .. n + 1 |-> IF k = 0 THEN start ELSE Step(r[k - 1])]
  <2> HIDE DEF Step, start
  <2>2. \A k \in 0 .. n : k \in 0 .. n + 1 /\ h[k] = r[k]
    BY <2>a
  <2>3. ASSUME NEW k \in 0 .. n + 1, k # 0 PROVE Step(r[k - 1]) = Step(h[k - 1])
    <3>1. k - 1 \in 0 .. n
      BY <2>3
    <3>2. QED
      BY <2>2, <3>1
  <2>4. h = [k \in 0 .. n + 1 |-> IF k = 0 THEN start ELSE Step(h[k - 1])]
    BY <2>3
  <2> HIDE DEF h
  <2>5. LeafRuns(h, n + 1, codec, t, m, s)
    BY <2>4 DEF LeafRuns, Step, start
  <2>6. QED
    BY <2>5
<1> HIDE DEF Good, Step, start
<1>3. Len(s) \in Good
  BY <1>0, <1>1, <1>2, NatSetInduction
<1> DEFINE Eq(r) == LeafRuns(r, Len(s), codec, t, m, s)
           after == CHOOSE r : Eq(r)
           Stops(n) == n = Len(s) \/ Ended(s, after[n])
           rounds == CHOOSE n \in 0 .. Len(s) : Stops(n)
<1>4. \E r : Eq(r)
  BY <1>3 DEF Good
<1>5. LeafUnmarshal(codec, t, m, s) = after[rounds]
  BY DEF LeafUnmarshal, LoopEnd, LeafRuns
<1> HIDE DEF Eq
<1>6. Eq(after)
  BY <1>4, Zenon
<1>7. Len(s) \in 0 .. Len(s) /\ Stops(Len(s))
  BY <1>0
<1> HIDE DEF after, Stops
<1>8. rounds \in 0 .. Len(s) /\ Stops(rounds)
  BY <1>7, Zenon
<1> HIDE DEF rounds
<1>9. CASE rounds = Len(s)
  BY <1>5, <1>6, <1>9 DEF Eq
<1>10. CASE Ended(s, after[rounds])
  <2>1. \A k \in 0 .. Len(s) : after[k] = IF k = 0 THEN start ELSE Step(after[k - 1])
    BY <1>6 DEF Eq, LeafRuns, start, Step
  <2> DEFINE Same == {n \in Nat : rounds + n \in 0 .. Len(s) => after[rounds + n] = after[rounds]}
  <2>2. 0 \in Same
    BY <1>8
  <2>3. ASSUME NEW n \in Nat, n \in Same PROVE n + 1 \in Same
    <3>1. SUFFICES ASSUME rounds + (n + 1) \in 0 .. Len(s)
                   PROVE  after[rounds + (n + 1)] = after[rounds]
      OBVIOUS
    <3>2. rounds + n \in 0 .. Len(s) /\ rounds + (n + 1) # 0 /\ (rounds + (n + 1)) - 1 = rounds + n
      BY <1>0, <1>8, <3>1
    <3>3. after[rounds + (n + 1)] = Step(after[rounds + n])
      BY <2>1, <3>1, <3>2
    <3>4. after[rounds + n] = after[rounds]
      BY <2>3, <3>2
    <3>5. Step(after[rounds]) = after[rounds]
      BY <1>10, LeafRoundStays DEF Step
    <3>6. QED
      BY <3>3, <3>4, <3>5
  <2> HIDE DEF Same
  <2>4. Nat \subseteq Same
    BY <2>2, <2>3, NatSetInduction
  <2>5. Len(s) - rounds \in Nat /\ rounds + (Len(s) - rounds) = Len(s)
    BY <1>0, <1>8
  <2>6. after[rounds + (Len(s) - rounds)] = after[rounds]
    <3>1. Len(s) - rounds \in Same
      BY <2>4, <2>5
    <3>2. QED
      BY <1>7, <2>5, <3>1 DEF Same
  <2>7. QED
    BY <1>5, <1>6, <2>5, <2>6 DEF Eq
<1>11. QED
  BY <1>8, <1>9, <1>10 DEF Stops

(***************************************************************************)
(* The loop that reads a message.                                          *)
(***************************************************************************)
MessageRuns(r, n, codec, t, s) ==
    r = [k \in 0 .. n |-> IF k = 0 THEN [ok |-> TRUE, next |-> 0, msg |-> New(codec, t)]
                          ELSE MessageRound(codec, t, s, r[k - 1])]

\* Once the loop over a message has ended, rounds change nothing.
LEMMA MessageRoundStays ==
  ASSUME NEW codec, NEW t, NEW s, NEW st, Ended(s, st)
  PROVE  MessageRound(codec, t, s, st) = st
BY DEF MessageRound, Round, DefaultCase

\* Unmarshal is its loop: as many rounds as there are bytes are enough.
LEMMA UnmarshalDef ==
  ASSUME NEW codec, NEW t, NEW s \in Seq(Int)
  PROVE  \E r : /\ MessageRuns(r, Len(s), codec, t, s)
                /\ Unmarshal(codec, t, s) = r[Len(s)]
<1> DEFINE Good == {n \in Nat : \E r : MessageRuns(r, n, codec, t, s)}
           Step(x) == MessageRound(codec, t, s, x)
           start == [ok |-> TRUE, next |-> 0, msg |-> New(codec, t)]
<1>0. Len(s) \in Nat
  OBVIOUS
<1>1. 0 \in Good
  <2> DEFINE r == [k \in 0 .. 0 |-> start]
  <2> HIDE DEF start, Step
  <2>2. \A k \in 0 .. 0 : k = 0
    OBVIOUS
  <2>3. r = [k \in 0 .. 0 |-> IF k = 0 THEN start ELSE Step(r[k - 1])]
    BY <2>2
  <2>4. QED
    BY <2>3 DEF MessageRuns, start, Step
<1>2. ASSUME NEW n \in Nat, n \in Good PROVE n + 1 \in Good
  <2>1. PICK r : MessageRuns(r, n, codec, t, s)
    BY <1>2
  <2>a. r = [k \in 0 .. n |-> IF k = 0 THEN start ELSE Step(r[k - 1])]
    BY <2>1 DEF MessageRuns
  <2> DEFINE h == [k \in 0 .. n + 1 |-> IF k = 0 THEN start ELSE Step(r[k - 1])]
  <2> HIDE DEF Step, start
  <2>2. \A k \in 0 .. n : k \in 0 .. n + 1 /\ h[k] = r[k]
    BY <2>a
  <2>3. ASSUME NEW k \in 0 .. n + 1, k # 0 PROVE Step(r[k - 1]) = Step(h[k - 1])
    <3>1. k - 1 \in 0 .. n
      BY <2>3
    <3>2. QED
      BY <2>2, <3>1
  <2>4. h = [k \in 0 .. n + 1 |-> IF k = 0 THEN start ELSE Step(h[k - 1])]
    BY <2>3
  <2> HIDE DEF h
  <2>5. MessageRuns(h, n + 1, codec, t, s)
    BY <2>4 DEF MessageRuns, Step, start
  <2>6. QED
    BY <2>5
<1> HIDE DEF Good, Step, start
<1>3. Len(s) \in Good
  BY <1>0, <1>1, <1>2, NatSetInduction
<1> DEFINE Eq(r) == MessageRuns(r, Len(s), codec, t, s)
           after == CHOOSE r : Eq(r)
           Stops(n) == n = Len(s) \/ Ended(s, after[n])
           rounds == CHOOSE n \in 0 .. Len(s) : Stops(n)
<1>4. \E r : Eq(r)
  BY <1>3 DEF Good
<1>5. Unmarshal(codec, t, s) = after[rounds]
  BY DEF Unmarshal, LoopEnd, MessageRuns
<1> HIDE DEF Eq
<1>6. Eq(after)
  BY <1>4, Zenon
<1>7. Len(s) \in 0 .. Len(s) /\ Stops(Len(s))
  BY <1>0
<1> HIDE DEF after, Stops
<1>8. rounds \in 0 .. Len(s) /\ Stops(rounds)
  BY <1>7, Zenon
<1> HIDE DEF rounds
<1>9. CASE rounds = Len(s)
  BY <1>5, <1>6, <1>9 DEF Eq
<1>10. CASE Ended(s, after[rounds])
  <2>1. \A k \in 0 .. Len(s) : after[k] = IF k = 0 THEN start ELSE Step(after[k - 1])
    BY <1>6 DEF Eq, MessageRuns, start, Step
  <2> DEFINE Same == {n \in Nat : rounds + n \in 0 .. Len(s) => after[rounds + n] = after[rounds]}
  <2>2. 0 \in Same
    BY <1>8
  <2>3. ASSUME NEW n \in Nat, n \in Same PROVE n + 1 \in Same
    <3>1. SUFFICES ASSUME rounds + (n + 1) \in 0 .. Len(s)
                   PROVE  after[rounds + (n + 1)] = after[rounds]
      OBVIOUS
    <3>2. rounds + n \in 0 .. Len(s) /\ rounds + (n + 1) # 0 /\ (rounds + (n + 1)) - 1 = rounds + n
      BY <1>0, <1>8, <3>1
    <3>3. after[rounds + (n + 1)] = Step(after[rounds + n])
      BY <2>1, <3>1, <3>2
    <3>4. after[rounds + n] = after[rounds]
      BY <2>3, <3>2
    <3>5. Step(after[rounds]) = after[rounds]
      BY <1>10, MessageRoundStays DEF Step
    <3>6. QED
      BY <3>3, <3>4, <3>5
  <2> HIDE DEF Same
  <2>4. Nat \subseteq Same
    BY <2>2, <2>3, NatSetInduction
  <2>5. Len(s) - rounds \in Nat /\ rounds + (Len(s) - rounds) = Len(s)
    BY <1>0, <1>8
  <2>6. after[rounds + (Len(s) - rounds)] = after[rounds]
    <3>1. Len(s) - rounds \in Same
      BY <2>4, <2>5
    <3>2. QED
      BY <1>7, <2>5, <3>1 DEF Same
  <2>7. QED
    BY <1>5, <1>6, <2>5, <2>6 DEF Eq
<1>11. QED
  BY <1>8, <1>9, <1>10 DEF Stops

-----------------------------------------------------------------------------
(* The message tables.                                                     *)

ScalarKinds == {"string", "bytes", "int32", "uint64", "bool"}
MessageKinds == {"nested", "pointer", "list"}

WireType(kind) == IF kind \in {"int32", "uint64", "bool"} THEN 0 ELSE 2

\* The messages inside messages of a package.
Leaves(p) ==
    IF p = "tokenfactory" THEN {"Params", "Denom", "PageRequest", "PageResponse"} ELSE {"Params"}

Block(f, subs) ==
    /\ f.name # "unknownFields"
    /\ f.kind \in ScalarKinds \/ (f.kind \in MessageKinds /\ f.sub \in subs)

\* The functions of a type agree on its fields: Size and Unmarshal have one block
\* for each, the case of Unmarshal has the number in the tag that Marshal writes, and
\* Marshal goes through the fields backwards.
Coded(T, subs) ==
    LET n == Len(T.struct)
    IN  /\ n \in 0 .. 9 /\ DOMAIN T.struct = 1 .. n
        /\ T.unmarshal = T.struct /\ T.size = T.struct
        /\ Len(T.marshal) = n /\ DOMAIN T.marshal = 1 .. n
        /\ \A i \in 1 .. n :
              /\ Block(T.struct[i], subs)
              /\ T.marshal[(n + 1) - i] = At(8 * i + WireType(T.struct[i].kind), T.struct[i])
        /\ \A i, j \in 1 .. n : T.struct[i].name = T.struct[j].name => i = j

\* A type of n fields is coded when each of the parts says so of n.
LEMMA CodedOf ==
  ASSUME NEW T, NEW subs, NEW n \in 0 .. 9,
         Len(T.struct) = n, DOMAIN T.struct = 1 .. n,
         T.unmarshal = T.struct, T.size = T.struct,
         Len(T.marshal) = n, DOMAIN T.marshal = 1 .. n,
         \A i \in 1 .. n : Block(T.struct[i], subs),
         \A i \in 1 .. n :
            T.marshal[(n + 1) - i] = At(8 * i + WireType(T.struct[i].kind), T.struct[i]),
         \A i, j \in 1 .. n : T.struct[i].name = T.struct[j].name => i = j
  PROVE  Coded(T, subs)
BY DEF Coded

\* The two versions of a type have the same fields; what one holds by value may be
\* behind a pointer in the other.
SameFields(T, U) ==
    /\ Len(T.struct) = Len(U.struct)
    /\ \A i \in 1 .. Len(T.struct) :
          LET f == T.struct[i]
              g == U.struct[i]
          IN  /\ f.name = g.name /\ f.sub = g.sub
              /\ g.kind = IF f.kind = "nested" THEN "pointer" ELSE f.kind

\* A table whose messages are known is one whose messages are among more types.
LEMMA CodedMore ==
  ASSUME NEW T, NEW few, NEW subs, Coded(T, few), few \subseteq subs
  PROVE  Coded(T, subs)
<1>1. \A f : Block(f, few) => Block(f, subs)
  BY DEF Block
<1>2. QED
  BY <1>1 DEF Coded

\* The tables of the gogoproto types.
LEMMA PbTables ==
  /\ Coded(PbT!Types["Params"], {})
  /\ Coded(PbT!Types["Denom"], {})
  /\ Coded(PbT!Types["QueryGetDenomRequest"], {})
  /\ Coded(PbT!Types["MsgCreateDenom"], {})
  /\ Coded(PbT!Types["MsgDeleteDenom"], {})
  /\ Coded(PbT!Types["PageRequest"], {})
  /\ Coded(PbT!Types["PageResponse"], {})
  /\ Coded(PbT!Types["QueryParamsResponse"], {"Params"})
  /\ Coded(PbT!Types["MsgUpdateParams"], {"Params"})
  /\ Coded(PbT!Types["GenesisState"], Leaves("tokenfactory"))
  /\ Coded(PbT!Types["QueryGetDenomResponse"], Leaves("tokenfactory"))
  /\ Coded(PbT!Types["QueryAllDenomRequest"], Leaves("tokenfactory"))
  /\ Coded(PbT!Types["QueryAllDenomResponse"], Leaves("tokenfactory"))
<1>1. Coded(PbT!Types["Params"], {})
  <2> DEFINE T == PbT!Types["Params"]
  <2>1. T = PbT!Methods(PbT!Params_Struct, PbT!Params_Size,
                        PbT!Params_Marshal, PbT!Params_Unmarshal)
    BY DEF PbT!Types
  <2> HIDE DEF T
  <2>2. /\ Len(T.struct) = 0 /\ DOMAIN T.struct = 1 .. 0
        /\ Len(T.marshal) = 0 /\ DOMAIN T.marshal = 1 .. 0
    BY <2>1 DEF PbT!Params_Struct, PbT!Params_Size, PbT!Params_Marshal, PbT!Params_Unmarshal,
        PbT!Methods
  <2>3. T.unmarshal = T.struct /\ T.size = T.struct
    BY <2>1 DEF PbT!Params_Struct, PbT!Params_Size, PbT!Params_Marshal, PbT!Params_Unmarshal,
        PbT!Methods, PbT!Field
  <2>4. \A i \in 1 .. 0 : FALSE
    OBVIOUS
  <2>5. Coded(T, {})
    BY <2>2, <2>3, <2>4 DEF Coded
  <2>6. QED
    BY <2>5 DEF T
<1>2. Coded(PbT!Types["Denom"], {})
  <2> DEFINE T == PbT!Types["Denom"]
  <2>1. T = PbT!Methods(PbT!Denom_Struct, PbT!Denom_Size, PbT!Denom_Marshal, PbT!Denom_Unmarshal)
    BY DEF PbT!Types
  <2> HIDE DEF T
  <2>2. /\ Len(T.struct) = 9 /\ DOMAIN T.struct = 1 .. 9
        /\ Len(T.marshal) = 9 /\ DOMAIN T.marshal = 1 .. 9
    BY <2>1 DEF PbT!Denom_Struct, PbT!Denom_Size, PbT!Denom_Marshal, PbT!Denom_Unmarshal,
        PbT!Methods
  <2>3. T.unmarshal = T.struct /\ T.size = T.struct
    BY <2>1 DEF PbT!Denom_Struct, PbT!Denom_Size, PbT!Denom_Marshal, PbT!Denom_Unmarshal,
        PbT!Methods, PbT!Bool, PbT!Int32, PbT!Str, PbT!Field
  <2>r1. /\ T.struct[1].name = "Denom" /\ T.struct[1].kind = "string"
        /\ T.marshal[9] = At(10, T.struct[1])
    BY <2>1 DEF PbT!Denom_Struct, PbT!Denom_Size, PbT!Denom_Marshal, PbT!Denom_Unmarshal,
        PbT!Methods, PbT!Bool, PbT!Int32, PbT!Str, PbT!Field, PbT!At, At
  <2>r2. /\ T.struct[2].name = "Description" /\ T.struct[2].kind = "string"
        /\ T.marshal[8] = At(18, T.struct[2])
    BY <2>1 DEF PbT!Denom_Struct, PbT!Denom_Size, PbT!Denom_Marshal, PbT!Denom_Unmarshal,
        PbT!Methods, PbT!Bool, PbT!Int32, PbT!Str, PbT!Field, PbT!At, At
  <2>r3. /\ T.struct[3].name = "Ticker" /\ T.struct[3].kind = "string"
        /\ T.marshal[7] = At(26, T.struct[3])
    BY <2>1 DEF PbT!Denom_Struct, PbT!Denom_Size, PbT!Denom_Marshal, PbT!Denom_Unmarshal,
        PbT!Methods, PbT!Bool, PbT!Int32, PbT!Str, PbT!Field, PbT!At, At
  <2>r4. /\ T.struct[4].name = "Precision" /\ T.struct[4].kind = "int32"
        /\ T.marshal[6] = At(32, T.struct[4])
    BY <2>1 DEF PbT!Denom_Struct, PbT!Denom_Size, PbT!Denom_Marshal, PbT!Denom_Unmarshal,
        PbT!Methods, PbT!Bool, PbT!Int32, PbT!Str, PbT!Field, PbT!At, At
  <2>r5. /\ T.struct[5].name = "Url" /\ T.struct[5].kind = "string"
        /\ T.marshal[5] = At(42, T.struct[5])
    BY <2>1 DEF PbT!Denom_Struct, PbT!Denom_Size, PbT!Denom_Marshal, PbT!Denom_Unmarshal,
        PbT!Methods, PbT!Bool, PbT!Int32, PbT!Str, PbT!Field, PbT!At, At
  <2>r6. /\ T.struct[6].name = "MaxSupply" /\ T.struct[6].kind = "int32"
        /\ T.marshal[4] = At(48, T.struct[6])
    BY <2>1 DEF PbT!Denom_Struct, PbT!Denom_Size, PbT!Denom_Marshal, PbT!Denom_Unmarshal,
        PbT!Methods, PbT!Bool, PbT!Int32, PbT!Str, PbT!Field, PbT!At, At
  <2>r7. /\ T.struct[7].name = "Supply" /\ T.struct[7].kind = "int32"
        /\ T.marshal[3] = At(56, T.struct[7])
    BY <2>1 DEF PbT!Denom_Struct, PbT!Denom_Size, PbT!Denom_Marshal, PbT!Denom_Unmarshal,
        PbT!Methods, PbT!Bool, PbT!Int32, PbT!Str, PbT!Field, PbT!At, At
  <2>r8. /\ T.struct[8].name = "CanChangeMaxSupply" /\ T.struct[8].kind = "bool"
        /\ T.marshal[2] = At(64, T.struct[8])
    BY <2>1 DEF PbT!Denom_Struct, PbT!Denom_Size, PbT!Denom_Marshal, PbT!Denom_Unmarshal,
        PbT!Methods, PbT!Bool, PbT!Int32, PbT!Str, PbT!Field, PbT!At, At
  <2>r9. /\ T.struct[9].name = "Owner" /\ T.struct[9].kind = "string"
        /\ T.marshal[1] = At(74, T.struct[9])
    BY <2>1 DEF PbT!Denom_Struct, PbT!Denom_Size, PbT!Denom_Marshal, PbT!Denom_Unmarshal,
        PbT!Methods, PbT!Bool, PbT!Int32, PbT!Str, PbT!Field, PbT!At, At
  <2>4. \A i \in 1 .. 9 : i = 1 \/ i = 2 \/ i = 3 \/ i = 4 \/ i = 5 \/ i = 6 \/ i = 7 \/ i = 8 \/ i = 9
    OBVIOUS
  <2>5. \A i \in 1 .. 9 : Block(T.struct[i], {})
    BY <2>4, <2>r1, <2>r2, <2>r3, <2>r4, <2>r5, <2>r6, <2>r7, <2>r8, <2>r9 DEF Block,
        ScalarKinds, MessageKinds
  <2>6. \A i \in 1 .. 9 : T.marshal[(9 + 1) - i] =
            At(8 * i + WireType(T.struct[i].kind), T.struct[i])
    BY <2>4, <2>r1, <2>r2, <2>r3, <2>r4, <2>r5, <2>r6, <2>r7, <2>r8, <2>r9 DEF WireType
  <2>7. \A i, j \in 1 .. 9 : T.struct[i].name = T.struct[j].name => i = j
    <3>1. /\ T.struct[1].name = "Denom" /\ T.struct[2].name = "Description"
          /\ T.struct[3].name = "Ticker" /\ T.struct[4].name = "Precision"
          /\ T.struct[5].name = "Url" /\ T.struct[6].name = "MaxSupply"
          /\ T.struct[7].name = "Supply" /\ T.struct[8].name = "CanChangeMaxSupply"
          /\ T.struct[9].name = "Owner"
      BY <2>r1, <2>r2, <2>r3, <2>r4, <2>r5, <2>r6, <2>r7, <2>r8, <2>r9
    <3>2. QED
      BY <2>4, <3>1
  <2>8. Coded(T, {})
    <3>1. 9 \in 0 .. 9
      OBVIOUS
    <3>2. QED
      BY <2>2, <2>3, <2>5, <2>6, <2>7, <3>1, CodedOf, Zenon
  <2>9. QED
    BY <2>8 DEF T
<1>3. Coded(PbT!Types["QueryGetDenomRequest"], {})
  <2> DEFINE T == PbT!Types["QueryGetDenomRequest"]
  <2>1. T = PbT!Methods(PbT!QueryGetDenomRequest_Struct, PbT!QueryGetDenomRequest_Size,
                        PbT!QueryGetDenomRequest_Marshal, PbT!QueryGetDenomRequest_Unmarshal)
    BY DEF PbT!Types
  <2> HIDE DEF T
  <2>2. /\ Len(T.struct) = 1 /\ DOMAIN T.struct = 1 .. 1
        /\ Len(T.marshal) = 1 /\ DOMAIN T.marshal = 1 .. 1
    BY <2>1 DEF PbT!QueryGetDenomRequest_Struct, PbT!QueryGetDenomRequest_Size,
        PbT!QueryGetDenomRequest_Marshal, PbT!QueryGetDenomRequest_Unmarshal, PbT!Methods
  <2>3. T.unmarshal = T.struct /\ T.size = T.struct
    BY <2>1 DEF PbT!QueryGetDenomRequest_Struct, PbT!QueryGetDenomRequest_Size,
        PbT!QueryGetDenomRequest_Marshal, PbT!QueryGetDenomRequest_Unmarshal, PbT!Methods,
        PbT!Str, PbT!Field
  <2>r1. /\ T.struct[1].name = "Denom" /\ T.struct[1].kind = "string"
        /\ T.marshal[1] = At(10, T.struct[1])
    BY <2>1 DEF PbT!QueryGetDenomRequest_Struct, PbT!QueryGetDenomRequest_Size,
        PbT!QueryGetDenomRequest_Marshal, PbT!QueryGetDenomRequest_Unmarshal, PbT!Methods,
        PbT!Str, PbT!Field, PbT!At, At
  <2>4. \A i \in 1 .. 1 : i = 1
    OBVIOUS
  <2>5. \A i \in 1 .. 1 : Block(T.struct[i], {})
    BY <2>4, <2>r1 DEF Block, ScalarKinds, MessageKinds
  <2>6. \A i \in 1 .. 1 : T.marshal[(1 + 1) - i] =
            At(8 * i + WireType(T.struct[i].kind), T.struct[i])
    BY <2>4, <2>r1 DEF WireType
  <2>7. \A i, j \in 1 .. 1 : T.struct[i].name = T.struct[j].name => i = j
    BY <2>4, <2>r1
  <2>8. Coded(T, {})
    BY <2>2, <2>3, <2>5, <2>6, <2>7 DEF Coded
  <2>9. QED
    BY <2>8 DEF T
<1>4. Coded(PbT!Types["MsgCreateDenom"], {})
  <2> DEFINE T == PbT!Types["MsgCreateDenom"]
  <2>1. T = PbT!Methods(PbT!MsgCreateDenom_Struct, PbT!MsgCreateDenom_Size,
                        PbT!MsgCreateDenom_Marshal, PbT!MsgCreateDenom_Unmarshal)
    BY DEF PbT!Types
  <2> HIDE DEF T
  <2>2. /\ Len(T.struct) = 9 /\ DOMAIN T.struct = 1 .. 9
        /\ Len(T.marshal) = 9 /\ DOMAIN T.marshal = 1 .. 9
    BY <2>1 DEF PbT!MsgCreateDenom_Struct, PbT!MsgCreateDenom_Size, PbT!MsgCreateDenom_Marshal,
        PbT!MsgCreateDenom_Unmarshal, PbT!Methods
  <2>3. T.unmarshal = T.struct /\ T.size = T.struct
    BY <2>1 DEF PbT!MsgCreateDenom_Struct, PbT!MsgCreateDenom_Size, PbT!MsgCreateDenom_Marshal,
        PbT!MsgCreateDenom_Unmarshal, PbT!Methods, PbT!Bool, PbT!Int32, PbT!Str, PbT!Field
  <2>r1. /\ T.struct[1].name = "Owner" /\ T.struct[1].kind = "string"
        /\ T.marshal[9] = At(10, T.struct[1])
    BY <2>1 DEF PbT!MsgCreateDenom_Struct, PbT!MsgCreateDenom_Size, PbT!MsgCreateDenom_Marshal,
        PbT!MsgCreateDenom_Unmarshal, PbT!Methods, PbT!Bool, PbT!Int32, PbT!Str, PbT!Field,
        PbT!At, At
  <2>r2. /\ T.struct[2].name = "Denom" /\ T.struct[2].kind = "string"
        /\ T.marshal[8] = At(18, T.struct[2])
    BY <2>1 DEF PbT!MsgCreateDenom_Struct, PbT!MsgCreateDenom_Size, PbT!MsgCreateDenom_Marshal,
        PbT!MsgCreateDenom_Unmarshal, PbT!Methods, PbT!Bool, PbT!Int32, PbT!Str, PbT!Field,
        PbT!At, At
  <2>r3. /\ T.struct[3].name = "Description" /\ T.struct[3].kind = "string"
        /\ T.marshal[7] = At(26, T.struct[3])
    BY <2>1 DEF PbT!MsgCreateDenom_Struct, PbT!MsgCreateDenom_Size, PbT!MsgCreateDenom_Marshal,
        PbT!MsgCreateDenom_Unmarshal, PbT!Methods, PbT!Bool, PbT!Int32, PbT!Str, PbT!Field,
        PbT!At, At
  <2>r4. /\ T.struct[4].name = "Ticker" /\ T.struct[4].kind = "string"
        /\ T.marshal[6] = At(34, T.struct[4])
    BY <2>1 DEF PbT!MsgCreateDenom_Struct, PbT!MsgCreateDenom_Size, PbT!MsgCreateDenom_Marshal,
        PbT!MsgCreateDenom_Unmarshal, PbT!Methods, PbT!Bool, PbT!Int32, PbT!Str, PbT!Field,
        PbT!At, At
  <2>r5. /\ T.struct[5].name = "Precision" /\ T.struct[5].kind = "int32"
        /\ T.marshal[5] = At(40, T.struct[5])
    BY <2>1 DEF PbT!MsgCreateDenom_Struct, PbT!MsgCreateDenom_Size, PbT!MsgCreateDenom_Marshal,
        PbT!MsgCreateDenom_Unmarshal, PbT!Methods, PbT!Bool, PbT!Int32, PbT!Str, PbT!Field,
        PbT!At, At
  <2>r6. /\ T.struct[6].name = "Url" /\ T.struct[6].kind = "string"
        /\ T.marshal[4] = At(50, T.struct[6])
    BY <2>1 DEF PbT!MsgCreateDenom_Struct, PbT!MsgCreateDenom_Size, PbT!MsgCreateDenom_Marshal,
        PbT!MsgCreateDenom_Unmarshal, PbT!Methods, PbT!Bool, PbT!Int32, PbT!Str, PbT!Field,
        PbT!At, At
  <2>r7. /\ T.struct[7].name = "MaxSupply" /\ T.struct[7].kind = "int32"
        /\ T.marshal[3] = At(56, T.struct[7])
    BY <2>1 DEF PbT!MsgCreateDenom_Struct, PbT!MsgCreateDenom_Size, PbT!MsgCreateDenom_Marshal,
        PbT!MsgCreateDenom_Unmarshal, PbT!Methods, PbT!Bool, PbT!Int32, PbT!Str, PbT!Field,
        PbT!At, At
  <2>r8. /\ T.struct[8].name = "Supply" /\ T.struct[8].kind = "int32"
        /\ T.marshal[2] = At(64, T.struct[8])
    BY <2>1 DEF PbT!MsgCreateDenom_Struct, PbT!MsgCreateDenom_Size, PbT!MsgCreateDenom_Marshal,
        PbT!MsgCreateDenom_Unmarshal, PbT!Methods, PbT!Bool, PbT!Int32, PbT!Str, PbT!Field,
        PbT!At, At
  <2>r9. /\ T.struct[9].name = "CanChangeMaxSupply" /\ T.struct[9].kind = "bool"
        /\ T.marshal[1] = At(72, T.struct[9])
    BY <2>1 DEF PbT!MsgCreateDenom_Struct, PbT!MsgCreateDenom_Size, PbT!MsgCreateDenom_Marshal,
        PbT!MsgCreateDenom_Unmarshal, PbT!Methods, PbT!Bool, PbT!Int32, PbT!Str, PbT!Field,
        PbT!At, At
  <2>4. \A i \in 1 .. 9 : i = 1 \/ i = 2 \/ i = 3 \/ i = 4 \/ i = 5 \/ i = 6 \/ i = 7 \/ i = 8 \/ i = 9
    OBVIOUS
  <2>5. \A i \in 1 .. 9 : Block(T.struct[i], {})
    BY <2>4, <2>r1, <2>r2, <2>r3, <2>r4, <2>r5, <2>r6, <2>r7, <2>r8, <2>r9 DEF Block,
        ScalarKinds, MessageKinds
  <2>6. \A i \in 1 .. 9 : T.marshal[(9 + 1) - i] =
            At(8 * i + WireType(T.struct[i].kind), T.struct[i])
    BY <2>4, <2>r1, <2>r2, <2>r3, <2>r4, <2>r5, <2>r6, <2>r7, <2>r8, <2>r9 DEF WireType
  <2>7. \A i, j \in 1 .. 9 : T.struct[i].name = T.struct[j].name => i = j
    <3>1. /\ T.struct[1].name = "Owner" /\ T.struct[2].name = "Denom"
          /\ T.struct[3].name = "Description" /\ T.struct[4].name = "Ticker"
          /\ T.struct[5].name = "Precision" /\ T.struct[6].name = "Url"
          /\ T.struct[7].name = "MaxSupply" /\ T.struct[8].name = "Supply"
          /\ T.struct[9].name = "CanChangeMaxSupply"
      BY <2>r1, <2>r2, <2>r3, <2>r4, <2>r5, <2>r6, <2>r7, <2>r8, <2>r9
    <3>2. QED
      BY <2>4, <3>1
  <2>8. Coded(T, {})
    <3>1. 9 \in 0 .. 9
      OBVIOUS
    <3>2. QED
      BY <2>2, <2>3, <2>5, <2>6, <2>7, <3>1, CodedOf, Zenon
  <2>9. QED
    BY <2>8 DEF T
<1>5. Coded(PbT!Types["MsgDeleteDenom"], {})
  <2> DEFINE T == PbT!Types["MsgDeleteDenom"]
  <2>1. T = PbT!Methods(PbT!MsgDeleteDenom_Struct, PbT!MsgDeleteDenom_Size,
                        PbT!MsgDeleteDenom_Marshal, PbT!MsgDeleteDenom_Unmarshal)
    BY DEF PbT!Types
  <2> HIDE DEF T
  <2>2. /\ Len(T.struct) = 2 /\ DOMAIN T.struct = 1 .. 2
        /\ Len(T.marshal) = 2 /\ DOMAIN T.marshal = 1 .. 2
    BY <2>1 DEF PbT!MsgDeleteDenom_Struct, PbT!MsgDeleteDenom_Size, PbT!MsgDeleteDenom_Marshal,
        PbT!MsgDeleteDenom_Unmarshal, PbT!Methods
  <2>3. T.unmarshal = T.struct /\ T.size = T.struct
    BY <2>1 DEF PbT!MsgDeleteDenom_Struct, PbT!MsgDeleteDenom_Size, PbT!MsgDeleteDenom_Marshal,
        PbT!MsgDeleteDenom_Unmarshal, PbT!Methods, PbT!Str, PbT!Field
  <2>r1. /\ T.struct[1].name = "Owner" /\ T.struct[1].kind = "string"
        /\ T.marshal[2] = At(10, T.struct[1])
    BY <2>1 DEF PbT!MsgDeleteDenom_Struct, PbT!MsgDeleteDenom_Size, PbT!MsgDeleteDenom_Marshal,
        PbT!MsgDeleteDenom_Unmarshal, PbT!Methods, PbT!Str, PbT!Field, PbT!At, At
  <2>r2. /\ T.struct[2].name = "Denom" /\ T.struct[2].kind = "string"
        /\ T.marshal[1] = At(18, T.struct[2])
    BY <2>1 DEF PbT!MsgDeleteDenom_Struct, PbT!MsgDeleteDenom_Size, PbT!MsgDeleteDenom_Marshal,
        PbT!MsgDeleteDenom_Unmarshal, PbT!Methods, PbT!Str, PbT!Field, PbT!At, At
  <2>4. \A i \in 1 .. 2 : i = 1 \/ i = 2
    OBVIOUS
  <2>5. \A i \in 1 .. 2 : Block(T.struct[i], {})
    BY <2>4, <2>r1, <2>r2 DEF Block, ScalarKinds, MessageKinds
  <2>6. \A i \in 1 .. 2 : T.marshal[(2 + 1) - i] =
            At(8 * i + WireType(T.struct[i].kind), T.struct[i])
    BY <2>4, <2>r1, <2>r2 DEF WireType
  <2>7. \A i, j \in 1 .. 2 : T.struct[i].name = T.struct[j].name => i = j
    BY <2>4, <2>r1, <2>r2
  <2>8. Coded(T, {})
    BY <2>2, <2>3, <2>5, <2>6, <2>7 DEF Coded
  <2>9. QED
    BY <2>8 DEF T
<1>6. Coded(PbT!Types["PageRequest"], {})
  <2> DEFINE T == PbT!Types["PageRequest"]
  <2>1. T = PbT!PageRequest
    BY DEF PbT!Types
  <2> HIDE DEF T
  <2>2. /\ Len(T.struct) = 5 /\ DOMAIN T.struct = 1 .. 5
        /\ Len(T.marshal) = 5 /\ DOMAIN T.marshal = 1 .. 5
    BY <2>1 DEF PbT!PageRequest, PbT!Methods
  <2>3. T.unmarshal = T.struct /\ T.size = T.struct
    BY <2>1 DEF PbT!PageRequest, PbT!Methods, PbT!Bool, PbT!Bytes, PbT!Uint64, PbT!Field
  <2>r1. /\ T.struct[1].name = "Key" /\ T.struct[1].kind = "bytes"
        /\ T.marshal[5] = At(10, T.struct[1])
    BY <2>1 DEF PbT!PageRequest, PbT!Methods, PbT!Bool, PbT!Bytes, PbT!Uint64, PbT!Field,
        PbT!At, At
  <2>r2. /\ T.struct[2].name = "Offset" /\ T.struct[2].kind = "uint64"
        /\ T.marshal[4] = At(16, T.struct[2])
    BY <2>1 DEF PbT!PageRequest, PbT!Methods, PbT!Bool, PbT!Bytes, PbT!Uint64, PbT!Field,
        PbT!At, At
  <2>r3. /\ T.struct[3].name = "Limit" /\ T.struct[3].kind = "uint64"
        /\ T.marshal[3] = At(24, T.struct[3])
    BY <2>1 DEF PbT!PageRequest, PbT!Methods, PbT!Bool, PbT!Bytes, PbT!Uint64, PbT!Field,
        PbT!At, At
  <2>r4. /\ T.struct[4].name = "CountTotal" /\ T.struct[4].kind = "bool"
        /\ T.marshal[2] = At(32, T.struct[4])
    BY <2>1 DEF PbT!PageRequest, PbT!Methods, PbT!Bool, PbT!Bytes, PbT!Uint64, PbT!Field,
        PbT!At, At
  <2>r5. /\ T.struct[5].name = "Reverse" /\ T.struct[5].kind = "bool"
        /\ T.marshal[1] = At(40, T.struct[5])
    BY <2>1 DEF PbT!PageRequest, PbT!Methods, PbT!Bool, PbT!Bytes, PbT!Uint64, PbT!Field,
        PbT!At, At
  <2>4. \A i \in 1 .. 5 : i = 1 \/ i = 2 \/ i = 3 \/ i = 4 \/ i = 5
    OBVIOUS
  <2>5. \A i \in 1 .. 5 : Block(T.struct[i], {})
    BY <2>4, <2>r1, <2>r2, <2>r3, <2>r4, <2>r5 DEF Block, ScalarKinds, MessageKinds
  <2>6. \A i \in 1 .. 5 : T.marshal[(5 + 1) - i] =
            At(8 * i + WireType(T.struct[i].kind), T.struct[i])
    BY <2>4, <2>r1, <2>r2, <2>r3, <2>r4, <2>r5 DEF WireType
  <2>7. \A i, j \in 1 .. 5 : T.struct[i].name = T.struct[j].name => i = j
    BY <2>4, <2>r1, <2>r2, <2>r3, <2>r4, <2>r5
  <2>8. Coded(T, {})
    BY <2>2, <2>3, <2>5, <2>6, <2>7 DEF Coded
  <2>9. QED
    BY <2>8 DEF T
<1>7. Coded(PbT!Types["PageResponse"], {})
  <2> DEFINE T == PbT!Types["PageResponse"]
  <2>1. T = PbT!PageResponse
    BY DEF PbT!Types
  <2> HIDE DEF T
  <2>2. /\ Len(T.struct) = 2 /\ DOMAIN T.struct = 1 .. 2
        /\ Len(T.marshal) = 2 /\ DOMAIN T.marshal = 1 .. 2
    BY <2>1 DEF PbT!PageResponse, PbT!Methods
  <2>3. T.unmarshal = T.struct /\ T.size = T.struct
    BY <2>1 DEF PbT!PageResponse, PbT!Methods, PbT!Bytes, PbT!Uint64, PbT!Field
  <2>r1. /\ T.struct[1].name = "NextKey" /\ T.struct[1].kind = "bytes"
        /\ T.marshal[2] = At(10, T.struct[1])
    BY <2>1 DEF PbT!PageResponse, PbT!Methods, PbT!Bytes, PbT!Uint64, PbT!Field, PbT!At, At
  <2>r2. /\ T.struct[2].name = "Total" /\ T.struct[2].kind = "uint64"
        /\ T.marshal[1] = At(16, T.struct[2])
    BY <2>1 DEF PbT!PageResponse, PbT!Methods, PbT!Bytes, PbT!Uint64, PbT!Field, PbT!At, At
  <2>4. \A i \in 1 .. 2 : i = 1 \/ i = 2
    OBVIOUS
  <2>5. \A i \in 1 .. 2 : Block(T.struct[i], {})
    BY <2>4, <2>r1, <2>r2 DEF Block, ScalarKinds, MessageKinds
  <2>6. \A i \in 1 .. 2 : T.marshal[(2 + 1) - i] =
            At(8 * i + WireType(T.struct[i].kind), T.struct[i])
    BY <2>4, <2>r1, <2>r2 DEF WireType
  <2>7. \A i, j \in 1 .. 2 : T.struct[i].name = T.struct[j].name => i = j
    BY <2>4, <2>r1, <2>r2
  <2>8. Coded(T, {})
    BY <2>2, <2>3, <2>5, <2>6, <2>7 DEF Coded
  <2>9. QED
    BY <2>8 DEF T
<1>8. Coded(PbT!Types["QueryParamsResponse"], {"Params"})
  <2> DEFINE T == PbT!Types["QueryParamsResponse"]
  <2>1. T = PbT!Methods(PbT!QueryParamsResponse_Struct, PbT!QueryParamsResponse_Size,
                        PbT!QueryParamsResponse_Marshal, PbT!QueryParamsResponse_Unmarshal)
    BY DEF PbT!Types
  <2> HIDE DEF T
  <2>2. /\ Len(T.struct) = 1 /\ DOMAIN T.struct = 1 .. 1
        /\ Len(T.marshal) = 1 /\ DOMAIN T.marshal = 1 .. 1
    BY <2>1 DEF PbT!QueryParamsResponse_Struct, PbT!QueryParamsResponse_Size,
        PbT!QueryParamsResponse_Marshal, PbT!QueryParamsResponse_Unmarshal, PbT!Methods
  <2>3. T.unmarshal = T.struct /\ T.size = T.struct
    BY <2>1 DEF PbT!QueryParamsResponse_Struct, PbT!QueryParamsResponse_Size,
        PbT!QueryParamsResponse_Marshal, PbT!QueryParamsResponse_Unmarshal, PbT!Methods,
        PbT!Nested, PbT!Field
  <2>r1. /\ T.struct[1].name = "Params" /\ T.struct[1].kind = "nested" /\ T.struct[1].sub = "Params"
        /\ T.marshal[1] = At(10, T.struct[1])
    BY <2>1 DEF PbT!QueryParamsResponse_Struct, PbT!QueryParamsResponse_Size,
        PbT!QueryParamsResponse_Marshal, PbT!QueryParamsResponse_Unmarshal, PbT!Methods,
        PbT!Nested, PbT!Field, PbT!At, At
  <2>4. \A i \in 1 .. 1 : i = 1
    OBVIOUS
  <2>5. \A i \in 1 .. 1 : Block(T.struct[i], {"Params"})
    BY <2>4, <2>r1 DEF Block, ScalarKinds, MessageKinds
  <2>6. \A i \in 1 .. 1 : T.marshal[(1 + 1) - i] =
            At(8 * i + WireType(T.struct[i].kind), T.struct[i])
    BY <2>4, <2>r1 DEF WireType
  <2>7. \A i, j \in 1 .. 1 : T.struct[i].name = T.struct[j].name => i = j
    BY <2>4, <2>r1
  <2>8. Coded(T, {"Params"})
    BY <2>2, <2>3, <2>5, <2>6, <2>7 DEF Coded
  <2>9. QED
    BY <2>8 DEF T
<1>9. Coded(PbT!Types["MsgUpdateParams"], {"Params"})
  <2> DEFINE T == PbT!Types["MsgUpdateParams"]
  <2>1. T = PbT!Methods(PbT!MsgUpdateParams_Struct, PbT!MsgUpdateParams_Size,
                        PbT!MsgUpdateParams_Marshal, PbT!MsgUpdateParams_Unmarshal)
    BY DEF PbT!Types
  <2> HIDE DEF T
  <2>2. /\ Len(T.struct) = 2 /\ DOMAIN T.struct = 1 .. 2
        /\ Len(T.marshal) = 2 /\ DOMAIN T.marshal = 1 .. 2
    BY <2>1 DEF PbT!MsgUpdateParams_Struct, PbT!MsgUpdateParams_Size,
        PbT!MsgUpdateParams_Marshal, PbT!MsgUpdateParams_Unmarshal, PbT!Methods
  <2>3. T.unmarshal = T.struct /\ T.size = T.struct
    BY <2>1 DEF PbT!MsgUpdateParams_Struct, PbT!MsgUpdateParams_Size,
        PbT!MsgUpdateParams_Marshal, PbT!MsgUpdateParams_Unmarshal, PbT!Methods, PbT!Nested,
        PbT!Str, PbT!Field
  <2>r1. /\ T.struct[1].name = "Authority" /\ T.struct[1].kind = "string"
        /\ T.marshal[2] = At(10, T.struct[1])
    BY <2>1 DEF PbT!MsgUpdateParams_Struct, PbT!MsgUpdateParams_Size,
        PbT!MsgUpdateParams_Marshal, PbT!MsgUpdateParams_Unmarshal, PbT!Methods, PbT!Nested,
        PbT!Str, PbT!Field, PbT!At, At
  <2>r2. /\ T.struct[2].name = "Params" /\ T.struct[2].kind = "nested" /\ T.struct[2].sub = "Params"
        /\ T.marshal[1] = At(18, T.struct[2])
    BY <2>1 DEF PbT!MsgUpdateParams_Struct, PbT!MsgUpdateParams_Size,
        PbT!MsgUpdateParams_Marshal, PbT!MsgUpdateParams_Unmarshal, PbT!Methods, PbT!Nested,
        PbT!Str, PbT!Field, PbT!At, At
  <2>4. \A i \in 1 .. 2 : i = 1 \/ i = 2
    OBVIOUS
  <2>5. \A i \in 1 .. 2 : Block(T.struct[i], {"Params"})
    BY <2>4, <2>r1, <2>r2 DEF Block, ScalarKinds, MessageKinds
  <2>6. \A i \in 1 .. 2 : T.marshal[(2 + 1) - i] =
            At(8 * i + WireType(T.struct[i].kind), T.struct[i])
    BY <2>4, <2>r1, <2>r2 DEF WireType
  <2>7. \A i, j \in 1 .. 2 : T.struct[i].name = T.struct[j].name => i = j
    BY <2>4, <2>r1, <2>r2
  <2>8. Coded(T, {"Params"})
    BY <2>2, <2>3, <2>5, <2>6, <2>7 DEF Coded
  <2>9. QED
    BY <2>8 DEF T
<1>10. Coded(PbT!Types["GenesisState"], Leaves("tokenfactory"))
  <2> DEFINE T == PbT!Types["GenesisState"]
  <2>1. T = PbT!Methods(PbT!GenesisState_Struct, PbT!GenesisState_Size,
                        PbT!GenesisState_Marshal, PbT!GenesisState_Unmarshal)
    BY DEF PbT!Types
  <2> HIDE DEF T
  <2>2. /\ Len(T.struct) = 2 /\ DOMAIN T.struct = 1 .. 2
        /\ Len(T.marshal) = 2 /\ DOMAIN T.marshal = 1 .. 2
    BY <2>1 DEF PbT!GenesisState_Struct, PbT!GenesisState_Size, PbT!GenesisState_Marshal,
        PbT!GenesisState_Unmarshal, PbT!Methods
  <2>3. T.unmarshal = T.struct /\ T.size = T.struct
    BY <2>1 DEF PbT!GenesisState_Struct, PbT!GenesisState_Size, PbT!GenesisState_Marshal,
        PbT!GenesisState_Unmarshal, PbT!Methods, PbT!List, PbT!Nested, PbT!Field
  <2>r1. /\ T.struct[1].name = "Params" /\ T.struct[1].kind = "nested" /\ T.struct[1].sub = "Params"
        /\ T.marshal[2] = At(10, T.struct[1])
    BY <2>1 DEF PbT!GenesisState_Struct, PbT!GenesisState_Size, PbT!GenesisState_Marshal,
        PbT!GenesisState_Unmarshal, PbT!Methods, PbT!List, PbT!Nested, PbT!Field, PbT!At, At
  <2>r2. /\ T.struct[2].name = "DenomList" /\ T.struct[2].kind = "list" /\ T.struct[2].sub = "Denom"
        /\ T.marshal[1] = At(18, T.struct[2])
    BY <2>1 DEF PbT!GenesisState_Struct, PbT!GenesisState_Size, PbT!GenesisState_Marshal,
        PbT!GenesisState_Unmarshal, PbT!Methods, PbT!List, PbT!Nested, PbT!Field, PbT!At, At
  <2>4. \A i \in 1 .. 2 : i = 1 \/ i = 2
    OBVIOUS
  <2>5. \A i \in 1 .. 2 : Block(T.struct[i], Leaves("tokenfactory"))
    BY <2>4, <2>r1, <2>r2 DEF Block, ScalarKinds, MessageKinds, Leaves
  <2>6. \A i \in 1 .. 2 : T.marshal[(2 + 1) - i] =
            At(8 * i + WireType(T.struct[i].kind), T.struct[i])
    BY <2>4, <2>r1, <2>r2 DEF WireType
  <2>7. \A i, j \in 1 .. 2 : T.struct[i].name = T.struct[j].name => i = j
    BY <2>4, <2>r1, <2>r2
  <2>8. Coded(T, Leaves("tokenfactory"))
    BY <2>2, <2>3, <2>5, <2>6, <2>7 DEF Coded
  <2>9. QED
    BY <2>8 DEF T
<1>11. Coded(PbT!Types["QueryGetDenomResponse"], Leaves("tokenfactory"))
  <2> DEFINE T == PbT!Types["QueryGetDenomResponse"]
  <2>1. T = PbT!Methods(PbT!QueryGetDenomResponse_Struct, PbT!QueryGetDenomResponse_Size,
                        PbT!QueryGetDenomResponse_Marshal, PbT!QueryGetDenomResponse_Unmarshal)
    BY DEF PbT!Types
  <2> HIDE DEF T
  <2>2. /\ Len(T.struct) = 1 /\ DOMAIN T.struct = 1 .. 1
        /\ Len(T.marshal) = 1 /\ DOMAIN T.marshal = 1 .. 1
    BY <2>1 DEF PbT!QueryGetDenomResponse_Struct, PbT!QueryGetDenomResponse_Size,
        PbT!QueryGetDenomResponse_Marshal, PbT!QueryGetDenomResponse_Unmarshal, PbT!Methods
  <2>3. T.unmarshal = T.struct /\ T.size = T.struct
    BY <2>1 DEF PbT!QueryGetDenomResponse_Struct, PbT!QueryGetDenomResponse_Size,
        PbT!QueryGetDenomResponse_Marshal, PbT!QueryGetDenomResponse_Unmarshal, PbT!Methods,
        PbT!Nested, PbT!Field
  <2>r1. /\ T.struct[1].name = "Denom" /\ T.struct[1].kind = "nested" /\ T.struct[1].sub = "Denom"
        /\ T.marshal[1] = At(10, T.struct[1])
    BY <2>1 DEF PbT!QueryGetDenomResponse_Struct, PbT!QueryGetDenomResponse_Size,
        PbT!QueryGetDenomResponse_Marshal, PbT!QueryGetDenomResponse_Unmarshal, PbT!Methods,
        PbT!Nested, PbT!Field, PbT!At, At
  <2>4. \A i \in 1 .. 1 : i = 1
    OBVIOUS
  <2>5. \A i \in 1 .. 1 : Block(T.struct[i], Leaves("tokenfactory"))
    BY <2>4, <2>r1 DEF Block, ScalarKinds, MessageKinds, Leaves
  <2>6. \A i \in 1 .. 1 : T.marshal[(1 + 1) - i] =
            At(8 * i + WireType(T.struct[i].kind), T.struct[i])
    BY <2>4, <2>r1 DEF WireType
  <2>7. \A i, j \in 1 .. 1 : T.struct[i].name = T.struct[j].name => i = j
    BY <2>4, <2>r1
  <2>8. Coded(T, Leaves("tokenfactory"))
    BY <2>2, <2>3, <2>5, <2>6, <2>7 DEF Coded
  <2>9. QED
    BY <2>8 DEF T
<1>12. Coded(PbT!Types["QueryAllDenomRequest"], Leaves("tokenfactory"))
  <2> DEFINE T == PbT!Types["QueryAllDenomRequest"]
  <2>1. T = PbT!Methods(PbT!QueryAllDenomRequest_Struct, PbT!QueryAllDenomRequest_Size,
                        PbT!QueryAllDenomRequest_Marshal, PbT!QueryAllDenomRequest_Unmarshal)
    BY DEF PbT!Types
  <2> HIDE DEF T
  <2>2. /\ Len(T.struct) = 1 /\ DOMAIN T.struct = 1 .. 1
        /\ Len(T.marshal) = 1 /\ DOMAIN T.marshal = 1 .. 1
    BY <2>1 DEF PbT!QueryAllDenomRequest_Struct, PbT!QueryAllDenomRequest_Size,
        PbT!QueryAllDenomRequest_Marshal, PbT!QueryAllDenomRequest_Unmarshal, PbT!Methods
  <2>3. T.unmarshal = T.struct /\ T.size = T.struct
    BY <2>1 DEF PbT!QueryAllDenomRequest_Struct, PbT!QueryAllDenomRequest_Size,
        PbT!QueryAllDenomRequest_Marshal, PbT!QueryAllDenomRequest_Unmarshal, PbT!Methods,
        PbT!Pointer, PbT!Field
  <2>r1. /\ T.struct[1].name = "Pagination" /\ T.struct[1].kind = "pointer"
         /\ T.struct[1].sub = "PageRequest"
        /\ T.marshal[1] = At(10, T.struct[1])
    BY <2>1 DEF PbT!QueryAllDenomRequest_Struct, PbT!QueryAllDenomRequest_Size,
        PbT!QueryAllDenomRequest_Marshal, PbT!QueryAllDenomRequest_Unmarshal, PbT!Methods,
        PbT!Pointer, PbT!Field, PbT!At, At
  <2>4. \A i \in 1 .. 1 : i = 1
    OBVIOUS
  <2>5. \A i \in 1 .. 1 : Block(T.struct[i], Leaves("tokenfactory"))
    BY <2>4, <2>r1 DEF Block, ScalarKinds, MessageKinds, Leaves
  <2>6. \A i \in 1 .. 1 : T.marshal[(1 + 1) - i] =
            At(8 * i + WireType(T.struct[i].kind), T.struct[i])
    BY <2>4, <2>r1 DEF WireType
  <2>7. \A i, j \in 1 .. 1 : T.struct[i].name = T.struct[j].name => i = j
    BY <2>4, <2>r1
  <2>8. Coded(T, Leaves("tokenfactory"))
    BY <2>2, <2>3, <2>5, <2>6, <2>7 DEF Coded
  <2>9. QED
    BY <2>8 DEF T
<1>13. Coded(PbT!Types["QueryAllDenomResponse"], Leaves("tokenfactory"))
  <2> DEFINE T == PbT!Types["QueryAllDenomResponse"]
  <2>1. T = PbT!Methods(PbT!QueryAllDenomResponse_Struct, PbT!QueryAllDenomResponse_Size,
                        PbT!QueryAllDenomResponse_Marshal, PbT!QueryAllDenomResponse_Unmarshal)
    BY DEF PbT!Types
  <2> HIDE DEF T
  <2>2. /\ Len(T.struct) = 2 /\ DOMAIN T.struct = 1 .. 2
        /\ Len(T.marshal) = 2 /\ DOMAIN T.marshal = 1 .. 2
    BY <2>1 DEF PbT!QueryAllDenomResponse_Struct, PbT!QueryAllDenomResponse_Size,
        PbT!QueryAllDenomResponse_Marshal, PbT!QueryAllDenomResponse_Unmarshal, PbT!Methods
  <2>3. T.unmarshal = T.struct /\ T.size = T.struct
    BY <2>1 DEF PbT!QueryAllDenomResponse_Struct, PbT!QueryAllDenomResponse_Size,
        PbT!QueryAllDenomResponse_Marshal, PbT!QueryAllDenomResponse_Unmarshal, PbT!Methods,
        PbT!List, PbT!Pointer, PbT!Field
  <2>r1. /\ T.struct[1].name = "Denom" /\ T.struct[1].kind = "list" /\ T.struct[1].sub = "Denom"
        /\ T.marshal[2] = At(10, T.struct[1])
    BY <2>1 DEF PbT!QueryAllDenomResponse_Struct, PbT!QueryAllDenomResponse_Size,
        PbT!QueryAllDenomResponse_Marshal, PbT!QueryAllDenomResponse_Unmarshal, PbT!Methods,
        PbT!List, PbT!Pointer, PbT!Field, PbT!At, At
  <2>r2. /\ T.struct[2].name = "Pagination" /\ T.struct[2].kind = "pointer"
         /\ T.struct[2].sub = "PageResponse"
        /\ T.marshal[1] = At(18, T.struct[2])
    BY <2>1 DEF PbT!QueryAllDenomResponse_Struct, PbT!QueryAllDenomResponse_Size,
        PbT!QueryAllDenomResponse_Marshal, PbT!QueryAllDenomResponse_Unmarshal, PbT!Methods,
        PbT!List, PbT!Pointer, PbT!Field, PbT!At, At
  <2>4. \A i \in 1 .. 2 : i = 1 \/ i = 2
    OBVIOUS
  <2>5. \A i \in 1 .. 2 : Block(T.struct[i], Leaves("tokenfactory"))
    BY <2>4, <2>r1, <2>r2 DEF Block, ScalarKinds, MessageKinds, Leaves
  <2>6. \A i \in 1 .. 2 : T.marshal[(2 + 1) - i] =
            At(8 * i + WireType(T.struct[i].kind), T.struct[i])
    BY <2>4, <2>r1, <2>r2 DEF WireType
  <2>7. \A i, j \in 1 .. 2 : T.struct[i].name = T.struct[j].name => i = j
    BY <2>4, <2>r1, <2>r2
  <2>8. Coded(T, Leaves("tokenfactory"))
    BY <2>2, <2>3, <2>5, <2>6, <2>7 DEF Coded
  <2>9. QED
    BY <2>8 DEF T
<1>14. QED
  BY <1>1, <1>2, <1>3, <1>4, <1>5, <1>6, <1>7, <1>8, <1>9, <1>10, <1>11, <1>12, <1>13

\* The tables of the pulsar types that differ.
LEMMA PulsarTables ==
  /\ Coded(PulsarT!Types["Module"], {})
  /\ Coded(PulsarT!Types["QueryParamsResponse"], {"Params"})
  /\ Coded(PulsarT!Types["MsgUpdateParams"], {"Params"})
  /\ Coded(PulsarT!Types["GenesisState"], Leaves("tokenfactory"))
  /\ Coded(PulsarT!Types["QueryGetDenomResponse"], Leaves("tokenfactory"))
<1>1. Coded(PulsarT!Types["Module"], {})
  <2> DEFINE T == PulsarT!Types["Module"]
  <2>1. T = PulsarT!Methods(PulsarT!Module_Struct, PulsarT!Module_Size,
                            PulsarT!Module_Marshal, PulsarT!Module_Unmarshal)
    BY DEF PulsarT!Types
  <2> HIDE DEF T
  <2>2. /\ Len(T.struct) = 1 /\ DOMAIN T.struct = 1 .. 1
        /\ Len(T.marshal) = 1 /\ DOMAIN T.marshal = 1 .. 1
    BY <2>1 DEF PulsarT!Module_Struct, PulsarT!Module_Size, PulsarT!Module_Marshal,
        PulsarT!Module_Unmarshal, PulsarT!Methods
  <2>3. T.unmarshal = T.struct /\ T.size = T.struct
    BY <2>1 DEF PulsarT!Module_Struct, PulsarT!Module_Size, PulsarT!Module_Marshal,
        PulsarT!Module_Unmarshal, PulsarT!Methods, PulsarT!Str, PulsarT!Field
  <2>r1. /\ T.struct[1].name = "Authority" /\ T.struct[1].kind = "string"
        /\ T.marshal[1] = At(10, T.struct[1])
    BY <2>1 DEF PulsarT!Module_Struct, PulsarT!Module_Size, PulsarT!Module_Marshal,
        PulsarT!Module_Unmarshal, PulsarT!Methods, PulsarT!Str, PulsarT!Field, PulsarT!At, At
  <2>4. \A i \in 1 .. 1 : i = 1
    OBVIOUS
  <2>5. \A i \in 1 .. 1 : Block(T.struct[i], {})
    BY <2>4, <2>r1 DEF Block, ScalarKinds, MessageKinds
  <2>6. \A i \in 1 .. 1 : T.marshal[(1 + 1) - i] =
            At(8 * i + WireType(T.struct[i].kind), T.struct[i])
    BY <2>4, <2>r1 DEF WireType
  <2>7. \A i, j \in 1 .. 1 : T.struct[i].name = T.struct[j].name => i = j
    BY <2>4, <2>r1
  <2>8. Coded(T, {})
    BY <2>2, <2>3, <2>5, <2>6, <2>7 DEF Coded
  <2>9. QED
    BY <2>8 DEF T
<1>2. Coded(PulsarT!Types["QueryParamsResponse"], {"Params"})
  <2> DEFINE T == PulsarT!Types["QueryParamsResponse"]
  <2>1. T = PulsarT!Methods(PulsarT!QueryParamsResponse_Struct, PulsarT!QueryParamsResponse_Size,
                            PulsarT!QueryParamsResponse_Marshal, PulsarT!QueryParamsResponse_Unmarshal)
    BY DEF PulsarT!Types
  <2> HIDE DEF T
  <2>2. /\ Len(T.struct) = 1 /\ DOMAIN T.struct = 1 .. 1
        /\ Len(T.marshal) = 1 /\ DOMAIN T.marshal = 1 .. 1
    BY <2>1 DEF PulsarT!QueryParamsResponse_Struct, PulsarT!QueryParamsResponse_Size,
        PulsarT!QueryParamsResponse_Marshal, PulsarT!QueryParamsResponse_Unmarshal,
        PulsarT!Methods
  <2>3. T.unmarshal = T.struct /\ T.size = T.struct
    BY <2>1 DEF PulsarT!QueryParamsResponse_Struct, PulsarT!QueryParamsResponse_Size,
        PulsarT!QueryParamsResponse_Marshal, PulsarT!QueryParamsResponse_Unmarshal,
        PulsarT!Methods, PulsarT!Pointer, PulsarT!Field
  <2>r1. /\ T.struct[1].name = "Params" /\ T.struct[1].kind = "pointer"
         /\ T.struct[1].sub = "Params"
        /\ T.marshal[1] = At(10, T.struct[1])
    BY <2>1 DEF PulsarT!QueryParamsResponse_Struct, PulsarT!QueryParamsResponse_Size,
        PulsarT!QueryParamsResponse_Marshal, PulsarT!QueryParamsResponse_Unmarshal,
        PulsarT!Methods, PulsarT!Pointer, PulsarT!Field, PulsarT!At, At
  <2>4. \A i \in 1 .. 1 : i = 1
    OBVIOUS
  <2>5. \A i \in 1 .. 1 : Block(T.struct[i], {"Params"})
    BY <2>4, <2>r1 DEF Block, ScalarKinds, MessageKinds
  <2>6. \A i \in 1 .. 1 : T.marshal[(1 + 1) - i] =
            At(8 * i + WireType(T.struct[i].kind), T.struct[i])
    BY <2>4, <2>r1 DEF WireType
  <2>7. \A i, j \in 1 .. 1 : T.struct[i].name = T.struct[j].name => i = j
    BY <2>4, <2>r1
  <2>8. Coded(T, {"Params"})
    BY <2>2, <2>3, <2>5, <2>6, <2>7 DEF Coded
  <2>9. QED
    BY <2>8 DEF T
<1>3. Coded(PulsarT!Types["MsgUpdateParams"], {"Params"})
  <2> DEFINE T == PulsarT!Types["MsgUpdateParams"]
  <2>1. T = PulsarT!Methods(PulsarT!MsgUpdateParams_Struct, PulsarT!MsgUpdateParams_Size,
                            PulsarT!MsgUpdateParams_Marshal, PulsarT!MsgUpdateParams_Unmarshal)
    BY DEF PulsarT!Types
  <2> HIDE DEF T
  <2>2. /\ Len(T.struct) = 2 /\ DOMAIN T.struct = 1 .. 2
        /\ Len(T.marshal) = 2 /\ DOMAIN T.marshal = 1 .. 2
    BY <2>1 DEF PulsarT!MsgUpdateParams_Struct, PulsarT!MsgUpdateParams_Size,
        PulsarT!MsgUpdateParams_Marshal, PulsarT!MsgUpdateParams_Unmarshal, PulsarT!Methods
  <2>3. T.unmarshal = T.struct /\ T.size = T.struct
    BY <2>1 DEF PulsarT!MsgUpdateParams_Struct, PulsarT!MsgUpdateParams_Size,
        PulsarT!MsgUpdateParams_Marshal, PulsarT!MsgUpdateParams_Unmarshal, PulsarT!Methods,
        PulsarT!Pointer, PulsarT!Str, PulsarT!Field
  <2>r1. /\ T.struct[1].name = "Authority" /\ T.struct[1].kind = "string"
        /\ T.marshal[2] = At(10, T.struct[1])
    BY <2>1 DEF PulsarT!MsgUpdateParams_Struct, PulsarT!MsgUpdateParams_Size,
        PulsarT!MsgUpdateParams_Marshal, PulsarT!MsgUpdateParams_Unmarshal, PulsarT!Methods,
        PulsarT!Pointer, PulsarT!Str, PulsarT!Field, PulsarT!At, At
  <2>r2. /\ T.struct[2].name = "Params" /\ T.struct[2].kind = "pointer"
         /\ T.struct[2].sub = "Params"
        /\ T.marshal[1] = At(18, T.struct[2])
    BY <2>1 DEF PulsarT!MsgUpdateParams_Struct, PulsarT!MsgUpdateParams_Size,
        PulsarT!MsgUpdateParams_Marshal, PulsarT!MsgUpdateParams_Unmarshal, PulsarT!Methods,
        PulsarT!Pointer, PulsarT!Str, PulsarT!Field, PulsarT!At, At
  <2>4. \A i \in 1 .. 2 : i = 1 \/ i = 2
    OBVIOUS
  <2>5. \A i \in 1 .. 2 : Block(T.struct[i], {"Params"})
    BY <2>4, <2>r1, <2>r2 DEF Block, ScalarKinds, MessageKinds
  <2>6. \A i \in 1 .. 2 : T.marshal[(2 + 1) - i] =
            At(8 * i + WireType(T.struct[i].kind), T.struct[i])
    BY <2>4, <2>r1, <2>r2 DEF WireType
  <2>7. \A i, j \in 1 .. 2 : T.struct[i].name = T.struct[j].name => i = j
    BY <2>4, <2>r1, <2>r2
  <2>8. Coded(T, {"Params"})
    BY <2>2, <2>3, <2>5, <2>6, <2>7 DEF Coded
  <2>9. QED
    BY <2>8 DEF T
<1>4. Coded(PulsarT!Types["GenesisState"], Leaves("tokenfactory"))
  <2> DEFINE T == PulsarT!Types["GenesisState"]
  <2>1. T = PulsarT!Methods(PulsarT!GenesisState_Struct, PulsarT!GenesisState_Size,
                            PulsarT!GenesisState_Marshal, PulsarT!GenesisState_Unmarshal)
    BY DEF PulsarT!Types
  <2> HIDE DEF T
  <2>2. /\ Len(T.struct) = 2 /\ DOMAIN T.struct = 1 .. 2
        /\ Len(T.marshal) = 2 /\ DOMAIN T.marshal = 1 .. 2
    BY <2>1 DEF PulsarT!GenesisState_Struct, PulsarT!GenesisState_Size,
        PulsarT!GenesisState_Marshal, PulsarT!GenesisState_Unmarshal, PulsarT!Methods
  <2>3. T.unmarshal = T.struct /\ T.size = T.struct
    BY <2>1 DEF PulsarT!GenesisState_Struct, PulsarT!GenesisState_Size,
        PulsarT!GenesisState_Marshal, PulsarT!GenesisState_Unmarshal, PulsarT!Methods,
        PulsarT!List, PulsarT!Pointer, PulsarT!Field
  <2>r1. /\ T.struct[1].name = "Params" /\ T.struct[1].kind = "pointer"
         /\ T.struct[1].sub = "Params"
        /\ T.marshal[2] = At(10, T.struct[1])
    BY <2>1 DEF PulsarT!GenesisState_Struct, PulsarT!GenesisState_Size,
        PulsarT!GenesisState_Marshal, PulsarT!GenesisState_Unmarshal, PulsarT!Methods,
        PulsarT!List, PulsarT!Pointer, PulsarT!Field, PulsarT!At, At
  <2>r2. /\ T.struct[2].name = "DenomList" /\ T.struct[2].kind = "list" /\ T.struct[2].sub = "Denom"
        /\ T.marshal[1] = At(18, T.struct[2])
    BY <2>1 DEF PulsarT!GenesisState_Struct, PulsarT!GenesisState_Size,
        PulsarT!GenesisState_Marshal, PulsarT!GenesisState_Unmarshal, PulsarT!Methods,
        PulsarT!List, PulsarT!Pointer, PulsarT!Field, PulsarT!At, At
  <2>4. \A i \in 1 .. 2 : i = 1 \/ i = 2
    OBVIOUS
  <2>5. \A i \in 1 .. 2 : Block(T.struct[i], Leaves("tokenfactory"))
    BY <2>4, <2>r1, <2>r2 DEF Block, ScalarKinds, MessageKinds, Leaves
  <2>6. \A i \in 1 .. 2 : T.marshal[(2 + 1) - i] =
            At(8 * i + WireType(T.struct[i].kind), T.struct[i])
    BY <2>4, <2>r1, <2>r2 DEF WireType
  <2>7. \A i, j \in 1 .. 2 : T.struct[i].name = T.struct[j].name => i = j
    BY <2>4, <2>r1, <2>r2
  <2>8. Coded(T, Leaves("tokenfactory"))
    BY <2>2, <2>3, <2>5, <2>6, <2>7 DEF Coded
  <2>9. QED
    BY <2>8 DEF T
<1>5. Coded(PulsarT!Types["QueryGetDenomResponse"], Leaves("tokenfactory"))
  <2> DEFINE T == PulsarT!Types["QueryGetDenomResponse"]
  <2>1. T = PulsarT!Methods(PulsarT!QueryGetDenomResponse_Struct, PulsarT!QueryGetDenomResponse_Size,
                            PulsarT!QueryGetDenomResponse_Marshal, PulsarT!QueryGetDenomResponse_Unmarshal)
    BY DEF PulsarT!Types
  <2> HIDE DEF T
  <2>2. /\ Len(T.struct) = 1 /\ DOMAIN T.struct = 1 .. 1
        /\ Len(T.marshal) = 1 /\ DOMAIN T.marshal = 1 .. 1
    BY <2>1 DEF PulsarT!QueryGetDenomResponse_Struct, PulsarT!QueryGetDenomResponse_Size,
        PulsarT!QueryGetDenomResponse_Marshal, PulsarT!QueryGetDenomResponse_Unmarshal,
        PulsarT!Methods
  <2>3. T.unmarshal = T.struct /\ T.size = T.struct
    BY <2>1 DEF PulsarT!QueryGetDenomResponse_Struct, PulsarT!QueryGetDenomResponse_Size,
        PulsarT!QueryGetDenomResponse_Marshal, PulsarT!QueryGetDenomResponse_Unmarshal,
        PulsarT!Methods, PulsarT!Pointer, PulsarT!Field
  <2>r1. /\ T.struct[1].name = "Denom" /\ T.struct[1].kind = "pointer" /\ T.struct[1].sub = "Denom"
        /\ T.marshal[1] = At(10, T.struct[1])
    BY <2>1 DEF PulsarT!QueryGetDenomResponse_Struct, PulsarT!QueryGetDenomResponse_Size,
        PulsarT!QueryGetDenomResponse_Marshal, PulsarT!QueryGetDenomResponse_Unmarshal,
        PulsarT!Methods, PulsarT!Pointer, PulsarT!Field, PulsarT!At, At
  <2>4. \A i \in 1 .. 1 : i = 1
    OBVIOUS
  <2>5. \A i \in 1 .. 1 : Block(T.struct[i], Leaves("tokenfactory"))
    BY <2>4, <2>r1 DEF Block, ScalarKinds, MessageKinds, Leaves
  <2>6. \A i \in 1 .. 1 : T.marshal[(1 + 1) - i] =
            At(8 * i + WireType(T.struct[i].kind), T.struct[i])
    BY <2>4, <2>r1 DEF WireType
  <2>7. \A i, j \in 1 .. 1 : T.struct[i].name = T.struct[j].name => i = j
    BY <2>4, <2>r1
  <2>8. Coded(T, Leaves("tokenfactory"))
    BY <2>2, <2>3, <2>5, <2>6, <2>7 DEF Coded
  <2>9. QED
    BY <2>8 DEF T
<1>6. QED
  BY <1>1, <1>2, <1>3, <1>4, <1>5
\* Types whose functions are the same.
LEMMA EqualTables ==
  /\ PulsarT!Types["Params"] = PbT!Types["Params"]
  /\ PulsarT!Types["Denom"] = PbT!Types["Denom"]
  /\ PulsarT!Types["QueryGetDenomRequest"] = PbT!Types["QueryGetDenomRequest"]
  /\ PulsarT!Types["QueryAllDenomRequest"] = PbT!Types["QueryAllDenomRequest"]
  /\ PulsarT!Types["QueryAllDenomResponse"] = PbT!Types["QueryAllDenomResponse"]
  /\ PulsarT!Types["MsgCreateDenom"] = PbT!Types["MsgCreateDenom"]
  /\ PulsarT!Types["MsgDeleteDenom"] = PbT!Types["MsgDeleteDenom"]
  /\ PulsarT!Types["PageRequest"] = PbT!Types["PageRequest"]
  /\ PulsarT!Types["PageResponse"] = PbT!Types["PageResponse"]
  /\ PbT!Types["QueryParamsRequest"] = PbT!Types["Params"]
  /\ PulsarT!Types["QueryParamsRequest"] = PbT!Types["Params"]
  /\ PbT!Types["MsgUpdateParamsResponse"] = PbT!Types["Params"]
  /\ PulsarT!Types["MsgUpdateParamsResponse"] = PbT!Types["Params"]
  /\ PbT!Types["MsgCreateDenomResponse"] = PbT!Types["Params"]
  /\ PulsarT!Types["MsgCreateDenomResponse"] = PbT!Types["Params"]
  /\ PbT!Types["MsgUpdateDenomResponse"] = PbT!Types["Params"]
  /\ PulsarT!Types["MsgUpdateDenomResponse"] = PbT!Types["Params"]
  /\ PbT!Types["MsgDeleteDenomResponse"] = PbT!Types["Params"]
  /\ PulsarT!Types["MsgDeleteDenomResponse"] = PbT!Types["Params"]
  /\ PbT!Types["MsgUpdateDenom"] = PbT!Types["MsgCreateDenom"]
  /\ PulsarT!Types["MsgUpdateDenom"] = PbT!Types["MsgCreateDenom"]
  /\ PbM!Types["Params"] = PbT!Types["Params"]
  /\ PulsarM!Types["Params"] = PbT!Types["Params"]
  /\ PbM!Types["QueryParamsRequest"] = PbT!Types["Params"]
  /\ PulsarM!Types["QueryParamsRequest"] = PbT!Types["Params"]
  /\ PbM!Types["MsgUpdateParamsResponse"] = PbT!Types["Params"]
  /\ PulsarM!Types["MsgUpdateParamsResponse"] = PbT!Types["Params"]
  /\ PbM!Types["GenesisState"] = PbT!Types["QueryParamsResponse"]
  /\ PbM!Types["QueryParamsResponse"] = PbT!Types["QueryParamsResponse"]
  /\ PbM!Types["MsgUpdateParams"] = PbT!Types["MsgUpdateParams"]
  /\ PulsarM!Types["GenesisState"] = PulsarT!Types["QueryParamsResponse"]
  /\ PulsarM!Types["QueryParamsResponse"] = PulsarT!Types["QueryParamsResponse"]
  /\ PulsarM!Types["MsgUpdateParams"] = PulsarT!Types["MsgUpdateParams"]
  /\ PulsarM!Types["Module"] = PulsarT!Types["Module"]
<1>1. PulsarT!Types["Params"] = PbT!Types["Params"]
  BY DEF PulsarT!Types, PulsarT!Methods, PulsarT!Params_Struct, PulsarT!Params_Methods,
         PbT!Types, PbT!Methods, PbT!Params_Struct, PbT!Params_Size, PbT!Params_Marshal,
         PbT!Params_Unmarshal
<1>2. PulsarT!Types["Denom"] = PbT!Types["Denom"]
  BY DEF PulsarT!Types, PulsarT!Methods, PulsarT!Denom_Struct, PulsarT!Denom_Size,
         PulsarT!Denom_Marshal, PulsarT!Denom_Unmarshal, PulsarT!At, PulsarT!Bool,
         PulsarT!Int32, PulsarT!Str, PulsarT!Field, PbT!Types, PbT!Methods,
         PbT!Denom_Struct, PbT!Denom_Size, PbT!Denom_Marshal, PbT!Denom_Unmarshal, PbT!At,
         PbT!Bool, PbT!Int32, PbT!Str, PbT!Field
<1>3. PulsarT!Types["QueryGetDenomRequest"] = PbT!Types["QueryGetDenomRequest"]
  BY DEF PulsarT!Types, PulsarT!Methods, PulsarT!QueryGetDenomRequest_Struct,
         PulsarT!QueryGetDenomRequest_Size, PulsarT!QueryGetDenomRequest_Marshal,
         PulsarT!QueryGetDenomRequest_Unmarshal, PulsarT!At, PulsarT!Str, PulsarT!Field,
         PbT!Types, PbT!Methods, PbT!QueryGetDenomRequest_Struct,
         PbT!QueryGetDenomRequest_Size, PbT!QueryGetDenomRequest_Marshal,
         PbT!QueryGetDenomRequest_Unmarshal, PbT!At, PbT!Str, PbT!Field
<1>4. PulsarT!Types["QueryAllDenomRequest"] = PbT!Types["QueryAllDenomRequest"]
  BY DEF PulsarT!Types, PulsarT!Methods, PulsarT!QueryAllDenomRequest_Struct,
         PulsarT!QueryAllDenomRequest_Size, PulsarT!QueryAllDenomRequest_Marshal,
         PulsarT!QueryAllDenomRequest_Unmarshal, PulsarT!At, PulsarT!Pointer, PulsarT!Field,
         PbT!Types, PbT!Methods, PbT!QueryAllDenomRequest_Struct,
         PbT!QueryAllDenomRequest_Size, PbT!QueryAllDenomRequest_Marshal,
         PbT!QueryAllDenomRequest_Unmarshal, PbT!At, PbT!Pointer, PbT!Field
<1>5. PulsarT!Types["QueryAllDenomResponse"] = PbT!Types["QueryAllDenomResponse"]
  BY DEF PulsarT!Types, PulsarT!Methods, PulsarT!QueryAllDenomResponse_Struct,
         PulsarT!QueryAllDenomResponse_Size, PulsarT!QueryAllDenomResponse_Marshal,
         PulsarT!QueryAllDenomResponse_Unmarshal, PulsarT!At, PulsarT!List, PulsarT!Pointer,
         PulsarT!Field, PbT!Types, PbT!Methods, PbT!QueryAllDenomResponse_Struct,
         PbT!QueryAllDenomResponse_Size, PbT!QueryAllDenomResponse_Marshal,
         PbT!QueryAllDenomResponse_Unmarshal, PbT!At, PbT!List, PbT!Pointer, PbT!Field
<1>6. PulsarT!Types["MsgCreateDenom"] = PbT!Types["MsgCreateDenom"]
  BY DEF PulsarT!Types, PulsarT!Methods, PulsarT!MsgCreateDenom_Struct,
         PulsarT!MsgCreateDenom_Size, PulsarT!MsgCreateDenom_Marshal,
         PulsarT!MsgCreateDenom_Unmarshal, PulsarT!At, PulsarT!Bool, PulsarT!Int32,
         PulsarT!Str, PulsarT!Field, PbT!Types, PbT!Methods, PbT!MsgCreateDenom_Struct,
         PbT!MsgCreateDenom_Size, PbT!MsgCreateDenom_Marshal, PbT!MsgCreateDenom_Unmarshal,
         PbT!At, PbT!Bool, PbT!Int32, PbT!Str, PbT!Field
<1>7. PulsarT!Types["MsgDeleteDenom"] = PbT!Types["MsgDeleteDenom"]
  BY DEF PulsarT!Types, PulsarT!Methods, PulsarT!MsgDeleteDenom_Struct,
         PulsarT!MsgDeleteDenom_Size, PulsarT!MsgDeleteDenom_Marshal,
         PulsarT!MsgDeleteDenom_Unmarshal, PulsarT!At, PulsarT!Str, PulsarT!Field,
         PbT!Types, PbT!Methods, PbT!MsgDeleteDenom_Struct, PbT!MsgDeleteDenom_Size,
         PbT!MsgDeleteDenom_Marshal, PbT!MsgDeleteDenom_Unmarshal, PbT!At, PbT!Str,
         PbT!Field
<1>8. PulsarT!Types["PageRequest"] = PbT!Types["PageRequest"]
  BY DEF PulsarT!Types, PulsarT!Methods, PulsarT!PageRequest, PulsarT!At, PulsarT!Bool,
         PulsarT!Bytes, PulsarT!Uint64, PulsarT!Field, PbT!Types, PbT!Methods,
         PbT!PageRequest, PbT!At, PbT!Bool, PbT!Bytes, PbT!Uint64, PbT!Field
<1>9. PulsarT!Types["PageResponse"] = PbT!Types["PageResponse"]
  BY DEF PulsarT!Types, PulsarT!Methods, PulsarT!PageResponse, PulsarT!At, PulsarT!Bytes,
         PulsarT!Uint64, PulsarT!Field, PbT!Types, PbT!Methods, PbT!PageResponse, PbT!At,
         PbT!Bytes, PbT!Uint64, PbT!Field
<1>10. PbT!Types["QueryParamsRequest"] = PbT!Types["Params"]
  BY DEF PbT!Types, PbT!Methods, PbT!QueryParamsRequest_Struct, PbT!QueryParamsRequest_Size,
         PbT!QueryParamsRequest_Marshal, PbT!QueryParamsRequest_Unmarshal,
         PbT!Params_Struct, PbT!Params_Size, PbT!Params_Marshal, PbT!Params_Unmarshal
<1>11. PulsarT!Types["QueryParamsRequest"] = PbT!Types["Params"]
  BY DEF PulsarT!Types, PulsarT!Methods, PulsarT!QueryParamsRequest_Struct,
         PulsarT!QueryParamsRequest_Methods, PbT!Types, PbT!Methods, PbT!Params_Struct,
         PbT!Params_Size, PbT!Params_Marshal, PbT!Params_Unmarshal
<1>12. PbT!Types["MsgUpdateParamsResponse"] = PbT!Types["Params"]
  BY DEF PbT!Types, PbT!Methods, PbT!MsgUpdateParamsResponse_Struct,
         PbT!MsgUpdateParamsResponse_Size, PbT!MsgUpdateParamsResponse_Marshal,
         PbT!MsgUpdateParamsResponse_Unmarshal, PbT!Params_Struct, PbT!Params_Size,
         PbT!Params_Marshal, PbT!Params_Unmarshal
<1>13. PulsarT!Types["MsgUpdateParamsResponse"] = PbT!Types["Params"]
  BY DEF PulsarT!Types, PulsarT!Methods, PulsarT!MsgUpdateParamsResponse_Struct,
         PulsarT!MsgUpdateParamsResponse_Methods, PbT!Types, PbT!Methods, PbT!Params_Struct,
         PbT!Params_Size, PbT!Params_Marshal, PbT!Params_Unmarshal
<1>14. PbT!Types["MsgCreateDenomResponse"] = PbT!Types["Params"]
  BY DEF PbT!Types, PbT!Methods, PbT!MsgCreateDenomResponse_Struct,
         PbT!MsgCreateDenomResponse_Size, PbT!MsgCreateDenomResponse_Marshal,
         PbT!MsgCreateDenomResponse_Unmarshal, PbT!Params_Struct, PbT!Params_Size,
         PbT!Params_Marshal, PbT!Params_Unmarshal
<1>15. PulsarT!Types["MsgCreateDenomResponse"] = PbT!Types["Params"]
  BY DEF PulsarT!Types, PulsarT!Methods, PulsarT!MsgCreateDenomResponse_Struct,
         PulsarT!MsgCreateDenomResponse_Methods, PbT!Types, PbT!Methods, PbT!Params_Struct,
         PbT!Params_Size, PbT!Params_Marshal, PbT!Params_Unmarshal
<1>16. PbT!Types["MsgUpdateDenomResponse"] = PbT!Types["Params"]
  BY DEF PbT!Types, PbT!Methods, PbT!MsgUpdateDenomResponse_Struct,
         PbT!MsgUpdateDenomResponse_Size, PbT!MsgUpdateDenomResponse_Marshal,
         PbT!MsgUpdateDenomResponse_Unmarshal, PbT!Params_Struct, PbT!Params_Size,
         PbT!Params_Marshal, PbT!Params_Unmarshal
<1>17. PulsarT!Types["MsgUpdateDenomResponse"] = PbT!Types["Params"]
  BY DEF PulsarT!Types, PulsarT!Methods, PulsarT!MsgUpdateDenomResponse_Struct,
         PulsarT!MsgUpdateDenomResponse_Methods, PbT!Types, PbT!Methods, PbT!Params_Struct,
         PbT!Params_Size, PbT!Params_Marshal, PbT!Params_Unmarshal
<1>18. PbT!Types["MsgDeleteDenomResponse"] = PbT!Types["Params"]
  BY DEF PbT!Types, PbT!Methods, PbT!MsgDeleteDenomResponse_Struct,
         PbT!MsgDeleteDenomResponse_Size, PbT!MsgDeleteDenomResponse_Marshal,
         PbT!MsgDeleteDenomResponse_Unmarshal, PbT!Params_Struct, PbT!Params_Size,
         PbT!Params_Marshal, PbT!Params_Unmarshal
<1>19. PulsarT!Types["MsgDeleteDenomResponse"] = PbT!Types["Params"]
  BY DEF PulsarT!Types, PulsarT!Methods, PulsarT!MsgDeleteDenomResponse_Struct,
         PulsarT!MsgDeleteDenomResponse_Methods, PbT!Types, PbT!Methods, PbT!Params_Struct,
         PbT!Params_Size, PbT!Params_Marshal, PbT!Params_Unmarshal
<1>20. PbT!Types["MsgUpdateDenom"] = PbT!Types["MsgCreateDenom"]
  BY DEF PbT!Types, PbT!Methods, PbT!MsgUpdateDenom_Struct, PbT!MsgUpdateDenom_Size,
         PbT!MsgUpdateDenom_Marshal, PbT!MsgUpdateDenom_Unmarshal, PbT!At, PbT!Bool,
         PbT!Int32, PbT!Str, PbT!Field, PbT!MsgCreateDenom_Struct, PbT!MsgCreateDenom_Size,
         PbT!MsgCreateDenom_Marshal, PbT!MsgCreateDenom_Unmarshal
<1>21. PulsarT!Types["MsgUpdateDenom"] = PbT!Types["MsgCreateDenom"]
  BY DEF PulsarT!Types, PulsarT!Methods, PulsarT!MsgUpdateDenom_RangeShort,
         PulsarT!MsgUpdateDenom_Struct, PulsarT!MsgUpdateDenom_Size,
         PulsarT!MsgUpdateDenom_Marshal, PulsarT!MsgUpdateDenom_Unmarshal, PulsarT!At,
         PulsarT!Bool, PulsarT!Int32, PulsarT!Str, PulsarT!Field, PbT!Types, PbT!Methods,
         PbT!MsgCreateDenom_Struct, PbT!MsgCreateDenom_Size, PbT!MsgCreateDenom_Marshal,
         PbT!MsgCreateDenom_Unmarshal, PbT!At, PbT!Bool, PbT!Int32, PbT!Str, PbT!Field
<1>22. PbM!Types["Params"] = PbT!Types["Params"]
  BY DEF PbM!Types, PbM!Methods, PbM!Params_Struct, PbM!Params_Size, PbM!Params_Marshal,
         PbM!Params_Unmarshal, PbT!Types, PbT!Methods, PbT!Params_Struct, PbT!Params_Size,
         PbT!Params_Marshal, PbT!Params_Unmarshal
<1>23. PulsarM!Types["Params"] = PbT!Types["Params"]
  BY DEF PulsarM!Types, PulsarM!Methods, PulsarM!Params_Struct, PulsarM!Params_Methods,
         PbT!Types, PbT!Methods, PbT!Params_Struct, PbT!Params_Size, PbT!Params_Marshal,
         PbT!Params_Unmarshal
<1>24. PbM!Types["QueryParamsRequest"] = PbT!Types["Params"]
  BY DEF PbM!Types, PbM!Methods, PbM!QueryParamsRequest_Struct, PbM!QueryParamsRequest_Size,
         PbM!QueryParamsRequest_Marshal, PbM!QueryParamsRequest_Unmarshal, PbT!Types,
         PbT!Methods, PbT!Params_Struct, PbT!Params_Size, PbT!Params_Marshal,
         PbT!Params_Unmarshal
<1>25. PulsarM!Types["QueryParamsRequest"] = PbT!Types["Params"]
  BY DEF PulsarM!Types, PulsarM!Methods, PulsarM!QueryParamsRequest_Struct,
         PulsarM!QueryParamsRequest_Methods, PbT!Types, PbT!Methods, PbT!Params_Struct,
         PbT!Params_Size, PbT!Params_Marshal, PbT!Params_Unmarshal
<1>26. PbM!Types["MsgUpdateParamsResponse"] = PbT!Types["Params"]
  BY DEF PbM!Types, PbM!Methods, PbM!MsgUpdateParamsResponse_Struct,
         PbM!MsgUpdateParamsResponse_Size, PbM!MsgUpdateParamsResponse_Marshal,
         PbM!MsgUpdateParamsResponse_Unmarshal, PbT!Types, PbT!Methods, PbT!Params_Struct,
         PbT!Params_Size, PbT!Params_Marshal, PbT!Params_Unmarshal
<1>27. PulsarM!Types["MsgUpdateParamsResponse"] = PbT!Types["Params"]
  BY DEF PulsarM!Types, PulsarM!Methods, PulsarM!MsgUpdateParamsResponse_Struct,
         PulsarM!MsgUpdateParamsResponse_Methods, PbT!Types, PbT!Methods, PbT!Params_Struct,
         PbT!Params_Size, PbT!Params_Marshal, PbT!Params_Unmarshal
<1>28. PbM!Types["GenesisState"] = PbT!Types["QueryParamsResponse"]
  BY DEF PbM!Types, PbM!Methods, PbM!GenesisState_Struct, PbM!GenesisState_Size,
         PbM!GenesisState_Marshal, PbM!GenesisState_Unmarshal, PbM!At, PbM!Nested,
         PbM!Field, PbT!Types, PbT!Methods, PbT!QueryParamsResponse_Struct,
         PbT!QueryParamsResponse_Size, PbT!QueryParamsResponse_Marshal,
         PbT!QueryParamsResponse_Unmarshal, PbT!At, PbT!Nested, PbT!Field
<1>29. PbM!Types["QueryParamsResponse"] = PbT!Types["QueryParamsResponse"]
  BY DEF PbM!Types, PbM!Methods, PbM!QueryParamsResponse_Struct,
         PbM!QueryParamsResponse_Size, PbM!QueryParamsResponse_Marshal,
         PbM!QueryParamsResponse_Unmarshal, PbM!At, PbM!Nested, PbM!Field, PbT!Types,
         PbT!Methods, PbT!QueryParamsResponse_Struct, PbT!QueryParamsResponse_Size,
         PbT!QueryParamsResponse_Marshal, PbT!QueryParamsResponse_Unmarshal, PbT!At,
         PbT!Nested, PbT!Field
<1>30. PbM!Types["MsgUpdateParams"] = PbT!Types["MsgUpdateParams"]
  BY DEF PbM!Types, PbM!Methods, PbM!MsgUpdateParams_Struct, PbM!MsgUpdateParams_Size,
         PbM!MsgUpdateParams_Marshal, PbM!MsgUpdateParams_Unmarshal, PbM!At, PbM!Nested,
         PbM!Str, PbM!Field, PbT!Types, PbT!Methods, PbT!MsgUpdateParams_Struct,
         PbT!MsgUpdateParams_Size, PbT!MsgUpdateParams_Marshal,
         PbT!MsgUpdateParams_Unmarshal, PbT!At, PbT!Nested, PbT!Str, PbT!Field
<1>31. PulsarM!Types["GenesisState"] = PulsarT!Types["QueryParamsResponse"]
  BY DEF PulsarM!Types, PulsarM!Methods, PulsarM!GenesisState_Struct,
         PulsarM!GenesisState_Size, PulsarM!GenesisState_Marshal,
         PulsarM!GenesisState_Unmarshal, PulsarM!At, PulsarM!Pointer, PulsarM!Field,
         PulsarT!Types, PulsarT!Methods, PulsarT!QueryParamsResponse_Struct,
         PulsarT!QueryParamsResponse_Size, PulsarT!QueryParamsResponse_Marshal,
         PulsarT!QueryParamsResponse_Unmarshal, PulsarT!At, PulsarT!Pointer, PulsarT!Field
<1>32. PulsarM!Types["QueryParamsResponse"] = PulsarT!Types["QueryParamsResponse"]
  BY DEF PulsarM!Types, PulsarM!Methods, PulsarM!QueryParamsResponse_Struct,
         PulsarM!QueryParamsResponse_Size, PulsarM!QueryParamsResponse_Marshal,
         PulsarM!QueryParamsResponse_Unmarshal, PulsarM!At, PulsarM!Pointer, PulsarM!Field,
         PulsarT!Types, PulsarT!Methods, PulsarT!QueryParamsResponse_Struct,
         PulsarT!QueryParamsResponse_Size, PulsarT!QueryParamsResponse_Marshal,
         PulsarT!QueryParamsResponse_Unmarshal, PulsarT!At, PulsarT!Pointer, PulsarT!Field
<1>33. PulsarM!Types["MsgUpdateParams"] = PulsarT!Types["MsgUpdateParams"]
  BY DEF PulsarM!Types, PulsarM!Methods, PulsarM!MsgUpdateParams_Struct,
         PulsarM!MsgUpdateParams_Size, PulsarM!MsgUpdateParams_Marshal,
         PulsarM!MsgUpdateParams_Unmarshal, PulsarM!At, PulsarM!Pointer, PulsarM!Str,
         PulsarM!Field, PulsarT!Types, PulsarT!Methods, PulsarT!MsgUpdateParams_Struct,
         PulsarT!MsgUpdateParams_Size, PulsarT!MsgUpdateParams_Marshal,
         PulsarT!MsgUpdateParams_Unmarshal, PulsarT!At, PulsarT!Pointer, PulsarT!Str,
         PulsarT!Field
<1>34. PulsarM!Types["Module"] = PulsarT!Types["Module"]
  BY DEF PulsarM!Types, PulsarM!Methods, PulsarM!Module_Struct, PulsarM!Module_Size,
         PulsarM!Module_Marshal, PulsarM!Module_Unmarshal, PulsarM!At, PulsarM!Str,
         PulsarM!Field, PulsarT!Types, PulsarT!Methods, PulsarT!Module_Struct,
         PulsarT!Module_Size, PulsarT!Module_Marshal, PulsarT!Module_Unmarshal, PulsarT!At,
         PulsarT!Str, PulsarT!Field
<1>35. QED
  BY <1>1, <1>2, <1>3, <1>4, <1>5, <1>6, <1>7, <1>8, <1>9, <1>10, <1>11, <1>12, <1>13,
     <1>14, <1>15, <1>16, <1>17, <1>18, <1>19, <1>20, <1>21, <1>22, <1>23, <1>24, <1>25,
     <1>26, <1>27, <1>28, <1>29, <1>30, <1>31, <1>32, <1>33, <1>34

\* The names of the types.
LEMMA TypeNames ==
  /\ DOMAIN PbM!Types = {"Params", "GenesisState", "QueryParamsRequest", "QueryParamsResponse",
                         "MsgUpdateParams", "MsgUpdateParamsResponse"}
  /\ DOMAIN PulsarM!Types = DOMAIN PbM!Types \cup {"Module"}
  /\ DOMAIN PbT!Types = {"Params", "Denom", "GenesisState", "QueryParamsRequest",
        "QueryParamsResponse", "QueryGetDenomRequest", "QueryGetDenomResponse",
        "QueryAllDenomRequest", "QueryAllDenomResponse", "MsgUpdateParams",
        "MsgUpdateParamsResponse", "MsgCreateDenom", "MsgCreateDenomResponse", "MsgUpdateDenom",
        "MsgUpdateDenomResponse", "MsgDeleteDenom", "MsgDeleteDenomResponse", "PageRequest",
        "PageResponse"}
  /\ DOMAIN PulsarT!Types = DOMAIN PbT!Types \cup {"Module"}
BY DEF PbM!Types, PulsarM!Types, PbT!Types, PulsarT!Types

\* The types with a message that gogoproto holds by value.
LEMMA DifferentTables ==
  /\ SameFields(PbT!Types["GenesisState"], PulsarT!Types["GenesisState"])
  /\ SameFields(PbT!Types["QueryParamsResponse"], PulsarT!Types["QueryParamsResponse"])
  /\ SameFields(PbT!Types["QueryGetDenomResponse"], PulsarT!Types["QueryGetDenomResponse"])
  /\ SameFields(PbT!Types["MsgUpdateParams"], PulsarT!Types["MsgUpdateParams"])
<1>1. SameFields(PbT!Types["GenesisState"], PulsarT!Types["GenesisState"])
  <2> DEFINE T == PbT!Types["GenesisState"].struct
             U == PulsarT!Types["GenesisState"].struct
  <2>1. T = PbT!GenesisState_Struct /\ U = PulsarT!GenesisState_Struct
    BY DEF PbT!Types, PbT!Methods, PulsarT!Types, PulsarT!Methods
  <2>2. /\ Len(T) = 2 /\ T[1] = PbT!Nested("Params", "Params")
        /\ T[2] = PbT!List("DenomList", "Denom")
        /\ Len(U) = 2 /\ U[1] = PulsarT!Pointer("Params", "Params")
        /\ U[2] = PulsarT!List("DenomList", "Denom")
    BY <2>1 DEF PbT!GenesisState_Struct, PulsarT!GenesisState_Struct
  <2>3. \A i \in 1 .. 2 : i = 1 \/ i = 2
    OBVIOUS
  <2>4. T[2] = U[2] /\ T[2].kind = "list"
    BY <2>2 DEF PbT!List, PbT!Field, PulsarT!List, PulsarT!Field
  <2>5. T[1].name = U[1].name /\ T[1].sub = U[1].sub /\ T[1].kind = "nested" /\ U[1].kind = "pointer"
    BY <2>2 DEF PbT!Nested, PbT!Field, PulsarT!Pointer, PulsarT!Field
  <2> HIDE DEF T, U
  <2>6. \A i \in 1 .. 2 :
           /\ T[i].name = U[i].name /\ T[i].sub = U[i].sub
           /\ U[i].kind = IF T[i].kind = "nested" THEN "pointer" ELSE T[i].kind
    BY <2>3, <2>4, <2>5
  <2>7. QED
    BY <2>2, <2>6 DEF SameFields, T, U
<1>2. SameFields(PbT!Types["QueryParamsResponse"], PulsarT!Types["QueryParamsResponse"])
  BY DEF SameFields, PbT!Types, PbT!Methods, PbT!QueryParamsResponse_Struct, PbT!Nested,
         PbT!Field, PulsarT!Types, PulsarT!Methods, PulsarT!QueryParamsResponse_Struct,
         PulsarT!Pointer, PulsarT!Field
<1>3. SameFields(PbT!Types["QueryGetDenomResponse"], PulsarT!Types["QueryGetDenomResponse"])
  BY DEF SameFields, PbT!Types, PbT!Methods, PbT!QueryGetDenomResponse_Struct, PbT!Nested,
         PbT!Field, PulsarT!Types, PulsarT!Methods, PulsarT!QueryGetDenomResponse_Struct,
         PulsarT!Pointer, PulsarT!Field
<1>4. SameFields(PbT!Types["MsgUpdateParams"], PulsarT!Types["MsgUpdateParams"])
  <2> DEFINE T == PbT!Types["MsgUpdateParams"].struct
             U == PulsarT!Types["MsgUpdateParams"].struct
  <2>1. T = PbT!MsgUpdateParams_Struct /\ U = PulsarT!MsgUpdateParams_Struct
    BY DEF PbT!Types, PbT!Methods, PulsarT!Types, PulsarT!Methods
  <2>2. /\ Len(T) = 2 /\ T[1] = PbT!Str("Authority") /\ T[2] = PbT!Nested("Params", "Params")
        /\ Len(U) = 2 /\ U[1] = PulsarT!Str("Authority")
        /\ U[2] = PulsarT!Pointer("Params", "Params")
    BY <2>1 DEF PbT!MsgUpdateParams_Struct, PulsarT!MsgUpdateParams_Struct
  <2> HIDE DEF T, U
  <2>3. \A i \in 1 .. 2 : i = 1 \/ i = 2
    OBVIOUS
  <2>a. PbT!Str("Authority") = PulsarT!Str("Authority")
    BY Zenon DEF PbT!Str, PbT!Field, PulsarT!Str, PulsarT!Field
  <2>b. PbT!Str("Authority").kind = "string"
    BY DEF PbT!Str, PbT!Field
  <2>4. T[1] = U[1] /\ T[1].kind = "string"
    BY <2>2, <2>a, <2>b
  <2>5. T[2].name = U[2].name /\ T[2].sub = U[2].sub /\ T[2].kind = "nested" /\ U[2].kind = "pointer"
    BY <2>2 DEF PbT!Nested, PbT!Field, PulsarT!Pointer, PulsarT!Field
  <2>6. \A i \in 1 .. 2 :
           /\ T[i].name = U[i].name /\ T[i].sub = U[i].sub
           /\ U[i].kind = IF T[i].kind = "nested" THEN "pointer" ELSE T[i].kind
    BY <2>3, <2>4, <2>5
  <2>7. QED
    BY <2>2, <2>6 DEF SameFields, T, U
<1>5. QED
  BY <1>1, <1>2, <1>3, <1>4

\* A type without messages by value has the fields of itself.
LEMMA SameFieldsAsItself ==
  ASSUME NEW T, \A i \in 1 .. Len(T.struct) : T.struct[i].kind # "nested"
  PROVE  SameFields(T, T)
BY Zenon DEF SameFields

\* A type without messages has the fields of itself.
LEMMA ScalarsAreSame == \A T : Coded(T, {}) => SameFields(T, T)
BY SameFieldsAsItself DEF Coded, Block, ScalarKinds

\* The two types of the DenomAll query have the fields of themselves.
LEMMA ListsAreSame ==
  \A t \in {"QueryAllDenomRequest", "QueryAllDenomResponse"} :
     SameFields(PbT!Types[t], PbT!Types[t])
<1>1. \A i \in 1 .. Len(PbT!QueryAllDenomRequest_Struct) :
         PbT!QueryAllDenomRequest_Struct[i].kind # "nested"
  BY DEF PbT!QueryAllDenomRequest_Struct, PbT!Pointer, PbT!Field
<1>2. \A i \in 1 .. Len(PbT!QueryAllDenomResponse_Struct) :
         PbT!QueryAllDenomResponse_Struct[i].kind # "nested"
  BY DEF PbT!QueryAllDenomResponse_Struct, PbT!Pointer, PbT!List, PbT!Field
<1>3. /\ PbT!Types["QueryAllDenomRequest"].struct = PbT!QueryAllDenomRequest_Struct
      /\ PbT!Types["QueryAllDenomResponse"].struct = PbT!QueryAllDenomResponse_Struct
  BY DEF PbT!Types, PbT!Methods
<1>4. QED
  BY <1>1, <1>2, <1>3, SameFieldsAsItself

\* All types of a package, in both versions.
Tables(a, b, leaves) ==
    /\ DOMAIN a \subseteq DOMAIN b
    /\ \A t \in DOMAIN a : Coded(a[t], leaves) /\ SameFields(a[t], b[t])
    /\ \A t \in DOMAIN b : Coded(b[t], leaves)
    /\ \A t \in leaves : t \in DOMAIN a /\ b[t] = a[t] /\ Coded(a[t], {})

\* The functions generated for x/tokenfactory agree on the fields of every message, and
\* the pulsar version has the fields of the gogoproto one.
LEMMA TokenfactoryTables == Tables(PbT!Types, PulsarT!Types, Leaves("tokenfactory"))
<1> DEFINE a == PbT!Types
           b == PulsarT!Types
           leaves == Leaves("tokenfactory")
           scalar == {"Params", "Denom", "QueryGetDenomRequest", "MsgCreateDenom",
                      "MsgDeleteDenom", "PageRequest", "PageResponse"}
           empty == {"QueryParamsRequest", "MsgUpdateParamsResponse", "MsgCreateDenomResponse",
                     "MsgUpdateDenomResponse", "MsgDeleteDenomResponse"}
           lists == {"QueryAllDenomRequest", "QueryAllDenomResponse"}
           held == {"QueryParamsResponse", "MsgUpdateParams", "GenesisState",
                    "QueryGetDenomResponse"}
<1>1. DOMAIN a = scalar \cup empty \cup lists \cup held \cup {"MsgUpdateDenom"}
  BY TypeNames
<1>2. DOMAIN b = DOMAIN a \cup {"Module"}
  BY TypeNames
<1>3. \A t \in scalar : Coded(a[t], {}) /\ b[t] = a[t]
  BY PbTables, EqualTables
<1>4. \A t \in empty : a[t] = a["Params"] /\ b[t] = a["Params"]
  BY EqualTables
<1>5. \A t \in lists : Coded(a[t], leaves) /\ b[t] = a[t]
  BY PbTables, EqualTables
<1>6. a["MsgUpdateDenom"] = a["MsgCreateDenom"] /\ b["MsgUpdateDenom"] = a["MsgCreateDenom"]
  BY EqualTables
<1>7. {} \subseteq leaves /\ {"Params"} \subseteq leaves
  BY DEF Leaves
<1>8. /\ Coded(a["QueryParamsResponse"], {"Params"}) /\ Coded(a["MsgUpdateParams"], {"Params"})
      /\ Coded(b["QueryParamsResponse"], {"Params"}) /\ Coded(b["MsgUpdateParams"], {"Params"})
      /\ Coded(a["GenesisState"], leaves) /\ Coded(a["QueryGetDenomResponse"], leaves)
      /\ Coded(b["GenesisState"], leaves) /\ Coded(b["QueryGetDenomResponse"], leaves)
      /\ Coded(b["Module"], {})
  BY PbTables, PulsarTables
<1>9. \A t \in held : SameFields(a[t], b[t])
  BY DifferentTables
<1>10. leaves \subseteq scalar
  BY DEF Leaves
<1> HIDE DEF a, b, leaves
<1>11. \A t \in held : Coded(a[t], leaves) /\ Coded(b[t], leaves)
  <2>1. /\ Coded(a["QueryParamsResponse"], leaves) /\ Coded(a["MsgUpdateParams"], leaves)
        /\ Coded(b["QueryParamsResponse"], leaves) /\ Coded(b["MsgUpdateParams"], leaves)
    BY <1>7, <1>8, CodedMore
  <2>2. QED
    BY <1>8, <2>1
<1>12. \A t \in scalar : Coded(a[t], leaves) /\ Coded(b[t], leaves)
  BY <1>3, <1>7, CodedMore
<1>13. Coded(b["Module"], leaves)
  BY <1>7, <1>8, CodedMore
<1>14. \A t \in empty : Coded(a[t], leaves) /\ Coded(b[t], leaves) /\ SameFields(a[t], b[t])
  BY <1>3, <1>4, <1>12, ScalarsAreSame
<1>15. /\ Coded(a["MsgUpdateDenom"], leaves) /\ Coded(b["MsgUpdateDenom"], leaves)
       /\ SameFields(a["MsgUpdateDenom"], b["MsgUpdateDenom"])
  BY <1>3, <1>6, <1>12, ScalarsAreSame
<1>16. \A t \in scalar \cup lists : Coded(a[t], leaves) /\ Coded(b[t], leaves) /\ SameFields(a[t], b[t])
  <2>1. \A t \in scalar : SameFields(a[t], b[t])
    BY <1>3, ScalarsAreSame
  <2>2. \A t \in lists : SameFields(a[t], b[t])
    BY <1>5, ListsAreSame DEF a
  <2>3. QED
    BY <1>3, <1>5, <1>12, <2>1, <2>2
<1> HIDE DEF scalar, empty, lists, held
<1>17. \A t \in DOMAIN a : Coded(a[t], leaves) /\ Coded(b[t], leaves) /\ SameFields(a[t], b[t])
  BY <1>1, <1>9, <1>11, <1>14, <1>15, <1>16
<1>18. Tables(a, b, leaves)
  BY <1>1, <1>2, <1>3, <1>10, <1>13, <1>17 DEF Tables
<1>19. QED
  BY <1>18 DEF a, b, leaves

\* The functions generated for x/medasdigital agree on the fields of every message, and
\* the pulsar version has the fields of the gogoproto one.
LEMMA MedasdigitalTables ==
  ASSUME NEW p, p # "tokenfactory"
  PROVE  Tables(PbM!Types, PulsarM!Types, Leaves(p))
<1> DEFINE a == PbM!Types
           b == PulsarM!Types
           leaves == Leaves(p)
           empty == {"Params", "QueryParamsRequest", "MsgUpdateParamsResponse"}
           held == {"QueryParamsResponse", "GenesisState", "MsgUpdateParams"}
<1>1. DOMAIN a = empty \cup held /\ DOMAIN b = DOMAIN a \cup {"Module"}
  BY TypeNames
<1>2. \A t \in empty : Coded(a[t], {}) /\ b[t] = a[t]
  BY PbTables, EqualTables
<1>3. leaves = {"Params"} /\ {} \subseteq leaves
  BY DEF Leaves
<1>4. \A t \in held : Coded(a[t], leaves) /\ Coded(b[t], leaves)
  BY PbTables, PulsarTables, EqualTables, <1>3
<1>5. \A t \in held : SameFields(a[t], b[t])
  BY DifferentTables, EqualTables
<1>6. Coded(b["Module"], {})
  BY PulsarTables, EqualTables
<1> HIDE DEF a, b, leaves
<1>7. \A t \in empty : Coded(a[t], leaves) /\ Coded(b[t], leaves) /\ SameFields(a[t], b[t])
  BY <1>2, <1>3, CodedMore, ScalarsAreSame
<1>8. Coded(b["Module"], leaves)
  BY <1>3, <1>6, CodedMore
<1>9. Tables(a, b, leaves)
  BY <1>1, <1>2, <1>3, <1>4, <1>5, <1>7, <1>8 DEF Tables
<1>10. QED
  BY <1>9 DEF a, b, leaves

\* The same for both packages.
LEMMA PackageTables == \A p : Tables(Pb(p).types, Pulsar(p).types, Leaves(p))
BY TokenfactoryTables, MedasdigitalTables DEF Pb, Pulsar

-----------------------------------------------------------------------------
(* Both decoders read the same content.                                    *)

\* A table finds its fields by their names.
ByName(codec, t) ==
    LET T == codec.types[t]
        n == Len(T.struct)
    IN  /\ n \in Nat /\ DOMAIN T.unmarshal = 1 .. n
        /\ \A i \in 1 .. n : /\ T.unmarshal[i] = T.struct[i]
                             /\ T.struct[i].name \in Names(codec, t)
                             /\ FieldNamed(codec, t, T.struct[i].name) = T.struct[i]
        /\ \A x \in Names(codec, t) : \E i \in 1 .. n : T.struct[i].name = x
        /\ "unknownFields" \notin Names(codec, t)
        /\ \A f : f \in Fields(codec, t) <=> \E i \in 1 .. n : f = T.struct[i]

\* The fields of a type have different names.
LEMMA FieldsByName ==
  ASSUME NEW codec, NEW t, NEW subs, Coded(codec.types[t], subs)
  PROVE  ByName(codec, t)
<1> DEFINE T == codec.types[t]
           st == T.struct
           n == Len(st)
<1>1. /\ n \in Nat /\ DOMAIN st = 1 .. n /\ T.unmarshal = st
      /\ \A i \in 1 .. n : Block(st[i], subs)
      /\ \A i, j \in 1 .. n : st[i].name = st[j].name => i = j
  BY DEF Coded
<1>2. Fields(codec, t) = {st[i] : i \in 1 .. n}
  BY <1>1 DEF Fields, Range
<1>3. Names(codec, t) = {f.name : f \in Fields(codec, t)}
  BY DEF Names
<1> HIDE DEF n, st
<1>4. ASSUME NEW i \in 1 .. n
      PROVE  /\ st[i] \in Fields(codec, t) /\ st[i].name \in Names(codec, t)
             /\ FieldNamed(codec, t, st[i].name) = st[i]
  <2>1. st[i] \in Fields(codec, t) /\ st[i].name \in Names(codec, t)
    BY <1>2, <1>3
  <2> DEFINE c == FieldNamed(codec, t, st[i].name)
  <2>2. c \in Fields(codec, t) /\ c.name = st[i].name
    BY <2>1, Zenon DEF FieldNamed
  <2> HIDE DEF c
  <2>3. PICK j \in 1 .. n : c = st[j]
    BY <1>2, <2>2
  <2>4. j = i
    BY <1>1, <2>2, <2>3
  <2>5. QED
    BY <2>1, <2>3, <2>4 DEF c
<1>5. ASSUME NEW x \in Names(codec, t) PROVE \E i \in 1 .. n : st[i].name = x
  BY <1>2, <1>3
<1>6. "unknownFields" \notin Names(codec, t)
  BY <1>1, <1>5 DEF Block
<1>7. \A f : f \in Fields(codec, t) <=> \E i \in 1 .. n : f = st[i]
  BY <1>2
<1>8. QED
  BY <1>1, <1>4, <1>5, <1>6, <1>7 DEF n, st, ByName

\* The two versions of field n of a type.
SameField(p, t, n) ==
    LET f == FieldNamed(Pb(p), t, n)
        g == FieldNamed(Pulsar(p), t, n)
    IN  /\ f.name = n /\ g.name = n /\ f.sub = g.sub
        /\ f.kind \in ScalarKinds \/ (f.kind \in MessageKinds /\ f.sub \in Leaves(p))
        /\ g.kind = IF f.kind = "nested" THEN "pointer" ELSE f.kind

\* The case i of the two versions of Unmarshal.
SameCase(p, t, i) ==
    LET f == Pb(p).types[t].unmarshal[i]
        g == Pulsar(p).types[t].unmarshal[i]
    IN  /\ f.name = g.name /\ f.name \in Names(Pb(p), t)
        /\ FieldNamed(Pb(p), t, f.name) = f /\ FieldNamed(Pulsar(p), t, f.name) = g

\* The two versions of a type.
Versions(p, t) ==
    /\ Names(Pulsar(p), t) = Names(Pb(p), t) /\ "unknownFields" \notin Names(Pb(p), t)
    /\ AllNames(Pb(p), t) = Names(Pb(p), t)
    /\ AllNames(Pulsar(p), t) = Names(Pb(p), t) \cup {"unknownFields"}
    /\ DOMAIN Pulsar(p).types[t].unmarshal = DOMAIN Pb(p).types[t].unmarshal
    /\ \A i \in DOMAIN Pb(p).types[t].unmarshal : SameCase(p, t, i)
    /\ \A n \in Names(Pb(p), t) : SameField(p, t, n)

\* The two versions of a type have the same names, fields and cases.
LEMMA TwoVersions ==
  ASSUME NEW p, NEW t \in DOMAIN Pb(p).types
  PROVE  Versions(p, t)
<1> DEFINE a == Pb(p)
           b == Pulsar(p)
           T == a.types[t]
           U == b.types[t]
           n == Len(T.struct)
<1>1. Tables(a.types, b.types, Leaves(p))
  BY PackageTables
<1>2. Coded(T, Leaves(p)) /\ Coded(U, Leaves(p)) /\ SameFields(T, U)
  BY <1>1 DEF Tables
<1>3. Len(U.struct) = n
  BY <1>2 DEF SameFields
<1>b. ByName(a, t) /\ ByName(b, t)
  BY <1>2, FieldsByName
<1> HIDE DEF a, b
<1>4. /\ n \in Nat /\ DOMAIN T.unmarshal = 1 .. n
      /\ \A i \in 1 .. n : /\ T.unmarshal[i] = T.struct[i]
                           /\ T.struct[i].name \in Names(a, t)
                           /\ FieldNamed(a, t, T.struct[i].name) = T.struct[i]
      /\ \A x \in Names(a, t) : \E i \in 1 .. n : T.struct[i].name = x
  BY <1>b DEF ByName
<1>5. /\ DOMAIN U.unmarshal = 1 .. n
      /\ \A i \in 1 .. n : /\ U.unmarshal[i] = U.struct[i]
                           /\ U.struct[i].name \in Names(b, t)
                           /\ FieldNamed(b, t, U.struct[i].name) = U.struct[i]
      /\ \A x \in Names(b, t) : \E i \in 1 .. n : U.struct[i].name = x
      /\ "unknownFields" \notin Names(b, t)
  BY <1>b, <1>3 DEF ByName
<1>6. \A i \in 1 .. n :
         /\ T.struct[i].name = U.struct[i].name /\ T.struct[i].sub = U.struct[i].sub
         /\ U.struct[i].kind = IF T.struct[i].kind = "nested" THEN "pointer" ELSE T.struct[i].kind
  BY <1>2 DEF SameFields
<1>7. \A i \in 1 .. n : Block(T.struct[i], Leaves(p))
  BY <1>2 DEF Coded
<1>8. a.pulsar = FALSE /\ b.pulsar = TRUE
  BY DEF Pb, Pulsar, a, b
<1> HIDE DEF T, U, n
<1>9. AllNames(a, t) = Names(a, t) /\ AllNames(b, t) = Names(b, t) \cup {"unknownFields"}
  BY <1>8 DEF AllNames
<1>10. Names(a, t) = Names(b, t)
  <2>1. ASSUME NEW x \in Names(a, t) PROVE x \in Names(b, t)
    <3>1. PICK i \in 1 .. n : T.struct[i].name = x
      BY <1>4
    <3>2. QED
      BY <1>5, <1>6, <3>1
  <2>2. ASSUME NEW x \in Names(b, t) PROVE x \in Names(a, t)
    <3>1. PICK i \in 1 .. n : U.struct[i].name = x
      BY <1>5
    <3>2. QED
      BY <1>4, <1>6, <3>1
  <2>3. QED
    BY <2>1, <2>2
<1>11. ASSUME NEW x \in Names(a, t) PROVE SameField(p, t, x)
  <2>1. PICK i \in 1 .. n : T.struct[i].name = x
    BY <1>4
  <2>2. FieldNamed(a, t, x) = T.struct[i] /\ FieldNamed(b, t, x) = U.struct[i]
    BY <1>4, <1>5, <1>6, <2>1
  <2>3. T.struct[i].kind \in ScalarKinds
        \/ (T.struct[i].kind \in MessageKinds /\ T.struct[i].sub \in Leaves(p))
    BY <1>7 DEF Block
  <2>4. QED
    BY <1>6, <2>1, <2>2, <2>3 DEF SameField, a, b
<1>12. ASSUME NEW i \in 1 .. n PROVE SameCase(p, t, i)
  <2>1. /\ T.unmarshal[i] = T.struct[i] /\ U.unmarshal[i] = U.struct[i]
        /\ T.struct[i].name = U.struct[i].name /\ T.struct[i].name \in Names(a, t)
        /\ FieldNamed(a, t, T.struct[i].name) = T.struct[i]
        /\ FieldNamed(b, t, U.struct[i].name) = U.struct[i]
    BY <1>4, <1>5, <1>6
  <2>2. QED
    BY <2>1 DEF SameCase, a, b, T, U
<1>13. QED
  BY <1>4, <1>5, <1>9, <1>10, <1>11, <1>12 DEF Versions, a, b, T, U

\* The decoders of a message inside another one stand at the same place with the same
\* content, or have both given up.
LeafAgree(p, t, a, b) ==
    \/ a = Refused /\ b = Refused
    \/ /\ a.ok = TRUE /\ b.ok = TRUE /\ a.next = b.next /\ b.next \in Nat
       /\ DOMAIN b.msg = AllNames(Pulsar(p), t)
       /\ a.msg = LeafAsStruct(p, t, b.msg)

Put(m, n, v) == [m EXCEPT ![n] = v]

\* Writing a field, or a field that is not known, keeps the contents the same.
LEMMA LeafWrite ==
  ASSUME NEW p, NEW t \in DOMAIN Pb(p).types, NEW m, DOMAIN m = AllNames(Pulsar(p), t),
         NEW n \in Names(Pb(p), t), NEW v
  PROVE  /\ DOMAIN Put(m, n, v) = AllNames(Pulsar(p), t)
         /\ Put(LeafAsStruct(p, t, m), n, v) = LeafAsStruct(p, t, Put(m, n, v))
<1>1. DOMAIN m = Names(Pb(p), t) \cup {"unknownFields"}
  BY TwoVersions DEF Versions
<1> DEFINE N == Names(Pb(p), t)
<1> HIDE DEF N
<1>2. [[x \in N |-> m[x]] EXCEPT ![n] = v] = [x \in N |-> [m EXCEPT ![n] = v][x]]
  BY <1>1 DEF N
<1>3. QED
  BY <1>2 DEF LeafAsStruct, N, Put

\* Keeping the bytes of a field that is not known changes no field of the message.
LEMMA LeafKeep ==
  ASSUME NEW p, NEW t \in DOMAIN Pb(p).types, NEW m, DOMAIN m = AllNames(Pulsar(p), t), NEW v
  PROVE  /\ DOMAIN Put(m, "unknownFields", v) = AllNames(Pulsar(p), t)
         /\ LeafAsStruct(p, t, m) = LeafAsStruct(p, t, Put(m, "unknownFields", v))
<1>1. /\ "unknownFields" \notin Names(Pb(p), t)
      /\ DOMAIN m = Names(Pb(p), t) \cup {"unknownFields"}
  BY TwoVersions DEF Versions
<1> DEFINE N == Names(Pb(p), t)
<1> HIDE DEF N
<1>2. [x \in N |-> m[x]] = [x \in N |-> [m EXCEPT !["unknownFields"] = v][x]]
  BY <1>1 DEF N
<1>3. QED
  BY <1>2 DEF LeafAsStruct, N, Put

\* What a round of a decoder makes of state st before its loop has ended.
Moved(codec, t, s, st, tag, read) ==
    LET cases == codec.types[t].unmarshal
        end == Skip(s, st.next)
    IN  IF ~tag.ok THEN Refused
        ELSE IF tag.fieldNum \in DOMAIN cases
             THEN IF ~read.ok THEN Refused
                  ELSE [ok |-> TRUE, next |-> read.next,
                        msg |-> [st.msg EXCEPT ![cases[tag.fieldNum].name] = read.value]]
        ELSE IF ~end.ok \/ end.next > Len(s) THEN Refused
        ELSE [ok |-> TRUE, next |-> end.next,
              msg |-> IF codec.pulsar
                      THEN [st.msg EXCEPT !["unknownFields"] =
                               @ \o SubSeq(s, st.next + 1, end.next)]
                      ELSE st.msg]

\* A round before the end of the loop takes one field.
LEMMA RoundMoves ==
  ASSUME NEW codec, NEW t, NEW s, NEW st, NEW tag, NEW read, ~Ended(s, st)
  PROVE  Round(codec, t, s, st, tag, read) = Moved(codec, t, s, st, tag, read)
BY DEF Round, DefaultCase, Moved

\* Two decoders that have given up agree.
LEMMA RefusedAgree ==
  ASSUME NEW p, NEW t
  PROVE  LeafAgree(p, t, Refused, Refused)
BY DEF LeafAgree

\* A round of both decoders of a message inside another one keeps them at the same
\* place with the same content.
LEMMA LeafRoundsAgree ==
  ASSUME NEW p, NEW t \in Leaves(p), NEW s \in Seq(Int), NEW a, NEW b, LeafAgree(p, t, a, b)
  PROVE  LeafAgree(p, t, LeafRound(Pb(p), t, s, a), LeafRound(Pulsar(p), t, s, b))
<1>1. t \in DOMAIN Pb(p).types /\ Pulsar(p).types[t] = Pb(p).types[t]
  BY PackageTables DEF Tables
<1>2. CASE a = Refused /\ b = Refused
  <2>1. Ended(s, a) /\ Ended(s, b)
    BY <1>2, RefusedFails DEF Ended
  <2>2. QED
    BY <2>1, LeafRoundStays
<1>3. CASE /\ a.ok = TRUE /\ b.ok = TRUE /\ a.next = b.next /\ b.next \in Nat
           /\ DOMAIN b.msg = AllNames(Pulsar(p), t)
           /\ a.msg = LeafAsStruct(p, t, b.msg)
  <2> DEFINE i == b.next
             tag == ReadTag(s, i)
             cases == Pb(p).types[t].unmarshal
             read == ReadScalar(cases[tag.fieldNum], tag.wireType, s, tag.next)
             end == Skip(s, i)
             kept == b.msg["unknownFields"] \o SubSeq(s, i + 1, end.next)
             x == LeafRound(Pb(p), t, s, a)
             y == LeafRound(Pulsar(p), t, s, b)
  <2>1. Ended(s, a) <=> Ended(s, b)
    BY <1>3 DEF Ended
  <2>2. CASE Ended(s, b)
    BY <2>1, <2>2, LeafRoundStays
  <2>3. CASE ~Ended(s, b)
    <3>1. /\ x = Round(Pb(p), t, s, a, tag, read)
          /\ y = Round(Pulsar(p), t, s, b, tag, read)
      BY <1>1, <1>3 DEF LeafRound
    <3>2. Pb(p).pulsar = FALSE /\ Pulsar(p).pulsar = TRUE
      BY DEF Pb, Pulsar
    <3>m. /\ x = Moved(Pb(p), t, s, a, tag, read)
          /\ y = Moved(Pulsar(p), t, s, b, tag, read)
      BY <2>1, <2>3, <3>1, RoundMoves
    <3>3. x = IF ~tag.ok THEN Refused
              ELSE IF tag.fieldNum \in DOMAIN cases
                   THEN IF ~read.ok THEN Refused
                        ELSE [ok |-> TRUE, next |-> read.next,
                              msg |-> [a.msg EXCEPT ![cases[tag.fieldNum].name] = read.value]]
              ELSE IF ~end.ok \/ end.next > Len(s) THEN Refused
              ELSE [ok |-> TRUE, next |-> end.next, msg |-> a.msg]
      BY <1>3, <3>2, <3>m DEF Moved
    <3>4. y = IF ~tag.ok THEN Refused
              ELSE IF tag.fieldNum \in DOMAIN cases
                   THEN IF ~read.ok THEN Refused
                        ELSE [ok |-> TRUE, next |-> read.next,
                              msg |-> [b.msg EXCEPT ![cases[tag.fieldNum].name] = read.value]]
              ELSE IF ~end.ok \/ end.next > Len(s) THEN Refused
              ELSE [ok |-> TRUE, next |-> end.next,
                    msg |-> [b.msg EXCEPT !["unknownFields"] = kept]]
      BY <1>1, <3>2, <3>m DEF Moved
    <3>5. IsRead(tag)
      BY <1>3, TagFields
    <3>6. tag.ok => IsRead(read)
      BY <3>5, ScalarFields, RefusedFails DEF IsRead
    <3>7. IsRead(end)
      BY <1>3, SkipFields
    <3>8. tag.fieldNum \in DOMAIN cases => cases[tag.fieldNum].name \in Names(Pb(p), t)
      BY <1>1, TwoVersions DEF Versions, SameCase
    <3>9. LeafAgree(p, t, x, y)
      <4> HIDE DEF tag, cases, read, end, kept, x, y, i
      <4>1. CASE ~tag.ok
        BY <3>3, <3>4, <4>1, RefusedAgree
      <4>2. CASE tag.ok /\ tag.fieldNum \in DOMAIN cases
        <5>1. CASE ~read.ok
          BY <3>3, <3>4, <4>2, <5>1, RefusedAgree
        <5>2. CASE read.ok
          <6> DEFINE n == cases[tag.fieldNum].name
                     v == read.value
                     ma == Put(a.msg, n, v)
                     mb == Put(b.msg, n, v)
          <6>1. /\ x = [ok |-> TRUE, next |-> read.next, msg |-> ma]
                /\ y = [ok |-> TRUE, next |-> read.next, msg |-> mb]
            BY <3>3, <3>4, <4>2, <5>2 DEF Put
          <6>2. read.next \in Nat
            BY <3>6, <4>2, <5>2, RefusedFails DEF IsRead
          <6>3. n \in Names(Pb(p), t)
            BY <3>8, <4>2
          <6> HIDE DEF n, v
          <6>4. DOMAIN mb = AllNames(Pulsar(p), t) /\ ma = LeafAsStruct(p, t, mb)
            BY <1>1, <1>3, <6>3, LeafWrite
          <6> HIDE DEF ma, mb
          <6>5. /\ x.ok = TRUE /\ y.ok = TRUE /\ x.next = y.next /\ y.next \in Nat
                /\ x.msg = ma /\ y.msg = mb
            BY <6>1, <6>2
          <6>6. QED
            BY <6>4, <6>5 DEF LeafAgree
        <5>3. QED
          BY <5>1, <5>2
      <4>3. CASE tag.ok /\ tag.fieldNum \notin DOMAIN cases
        <5>1. CASE ~end.ok \/ end.next > Len(s)
          BY <3>3, <3>4, <4>3, <5>1, RefusedAgree
        <5>2. CASE ~(~end.ok \/ end.next > Len(s))
          <6> DEFINE mb == Put(b.msg, "unknownFields", kept)
          <6>1. /\ x = [ok |-> TRUE, next |-> end.next, msg |-> a.msg]
                /\ y = [ok |-> TRUE, next |-> end.next, msg |-> mb]
            BY <3>3, <3>4, <4>3, <5>2 DEF Put
          <6>2. end.next \in Nat
            BY <3>7, <5>2, RefusedFails DEF IsRead
          <6>4. DOMAIN mb = AllNames(Pulsar(p), t) /\ a.msg = LeafAsStruct(p, t, mb)
            BY <1>1, <1>3, LeafKeep
          <6> HIDE DEF mb
          <6>5. /\ x.ok = TRUE /\ y.ok = TRUE /\ x.next = y.next /\ y.next \in Nat
                /\ x.msg = a.msg /\ y.msg = mb
            BY <6>1, <6>2
          <6>6. QED
            BY <6>4, <6>5 DEF LeafAgree
        <5>3. QED
          BY <5>1, <5>2
      <4>4. QED
        BY <4>1, <4>2, <4>3
    <3>10. QED
      BY <3>9
  <2>4. QED
    BY <2>2, <2>3
<1>4. QED
  BY <1>2, <1>3 DEF LeafAgree

\* The same for the whole of a message inside another one.
LEMMA LeavesAgree ==
  ASSUME NEW p, NEW t \in Leaves(p), NEW s \in Seq(Int), NEW m,
         DOMAIN m = AllNames(Pulsar(p), t)
  PROVE  LeafAgree(p, t, LeafUnmarshal(Pb(p), t, LeafAsStruct(p, t, m), s),
                         LeafUnmarshal(Pulsar(p), t, m, s))
<1> DEFINE ma == LeafAsStruct(p, t, m)
<1>1. PICK r : LeafRuns(r, Len(s), Pb(p), t, ma, s) /\ LeafUnmarshal(Pb(p), t, ma, s) = r[Len(s)]
  BY LeafUnmarshalDef
<1>2. PICK q : LeafRuns(q, Len(s), Pulsar(p), t, m, s) /\ LeafUnmarshal(Pulsar(p), t, m, s) = q[Len(s)]
  BY LeafUnmarshalDef
<1>3. \A k \in 0 .. Len(s) : r[k] = IF k = 0 THEN [ok |-> TRUE, next |-> 0, msg |-> ma]
                                    ELSE LeafRound(Pb(p), t, s, r[k - 1])
  BY <1>1 DEF LeafRuns
<1>4. \A k \in 0 .. Len(s) : q[k] = IF k = 0 THEN [ok |-> TRUE, next |-> 0, msg |-> m]
                                    ELSE LeafRound(Pulsar(p), t, s, q[k - 1])
  BY <1>2 DEF LeafRuns
<1>5. Len(s) \in Nat
  OBVIOUS
<1> DEFINE Good == {n \in Nat : n \in 0 .. Len(s) => LeafAgree(p, t, r[n], q[n])}
<1>6. 0 \in Good
  <2> HIDE DEF ma
  <2>a. 0 \in 0 .. Len(s)
    BY <1>5
  <2>b. r[0] = [ok |-> TRUE, next |-> 0, msg |-> ma]
    BY <1>3, <2>a
  <2>c. q[0] = [ok |-> TRUE, next |-> 0, msg |-> m]
    BY <1>4, <2>a
  <2>2. /\ r[0].ok = TRUE /\ r[0].next = 0 /\ r[0].msg = ma
        /\ q[0].ok = TRUE /\ q[0].next = 0 /\ q[0].msg = m
    BY <2>b, <2>c
  <2>3. LeafAgree(p, t, r[0], q[0])
    BY <2>2 DEF LeafAgree, ma
  <2>4. QED
    BY <2>3
<1>7. ASSUME NEW n \in Nat, n \in Good PROVE n + 1 \in Good
  <2>1. SUFFICES ASSUME n + 1 \in 0 .. Len(s) PROVE LeafAgree(p, t, r[n + 1], q[n + 1])
    OBVIOUS
  <2>2. n \in 0 .. Len(s) /\ n + 1 # 0 /\ (n + 1) - 1 = n
    BY <1>5, <2>1
  <2>3. r[n + 1] = LeafRound(Pb(p), t, s, r[n]) /\ q[n + 1] = LeafRound(Pulsar(p), t, s, q[n])
    BY <1>3, <1>4, <2>1, <2>2
  <2>4. LeafAgree(p, t, r[n], q[n])
    BY <1>7, <2>2
  <2>5. QED
    BY <2>3, <2>4, LeafRoundsAgree
<1> HIDE DEF Good
<1>8. Len(s) \in Good
  BY <1>5, <1>6, <1>7, NatSetInduction
<1>9. LeafAgree(p, t, r[Len(s)], q[Len(s)])
  BY <1>5, <1>8 DEF Good
<1>10. QED
  BY <1>1, <1>2, <1>9

\* A slice or a pointer of messages as pulsar has them.
LeafSeq(p, t, v) == \E S : v \in Seq(S) /\ \A x \in S : DOMAIN x = AllNames(Pulsar(p), t)

\* A pulsar message has a value for every name.
Shaped(p, t, m) ==
    /\ DOMAIN m = AllNames(Pulsar(p), t)
    /\ \A n \in Names(Pb(p), t) :
          LET f == FieldNamed(Pb(p), t, n)
          IN  f.kind \in MessageKinds => LeafSeq(p, f.sub, m[n])

\* The decoders of a message stand at the same place with the same content, or have
\* both given up.
Agree(p, t, a, b) ==
    \/ a = Refused /\ b = Refused
    \/ /\ a.ok = TRUE /\ b.ok = TRUE /\ a.next = b.next /\ b.next \in Nat
       /\ Shaped(p, t, b.msg) /\ a.msg = AsStruct(p, t, b.msg)

\* What a case of Unmarshal returns for the field f of a message.
ReadsAgree(p, f, x, y) ==
    \/ x = Refused /\ y = Refused
    \/ /\ x.ok = TRUE /\ y.ok = TRUE /\ x.next = y.next /\ y.next \in Nat
       /\ x.value = AsValue(p, f, y.value)
       /\ f.kind \in MessageKinds => LeafSeq(p, f.sub, y.value)

\* An empty pulsar message has the content of an empty gogoproto one.
LEMMA LeafNewAgree ==
  ASSUME NEW p, NEW t \in Leaves(p)
  PROVE  /\ DOMAIN LeafNew(Pulsar(p), t) = AllNames(Pulsar(p), t)
         /\ LeafAsStruct(p, t, LeafNew(Pulsar(p), t)) = LeafNew(Pb(p), t)
<1>1. t \in DOMAIN Pb(p).types /\ Pulsar(p).types[t] = Pb(p).types[t]
  BY PackageTables DEF Tables
<1>2. /\ Names(Pulsar(p), t) = Names(Pb(p), t) /\ AllNames(Pb(p), t) = Names(Pb(p), t)
      /\ Names(Pb(p), t) \subseteq AllNames(Pulsar(p), t)
  BY <1>1, TwoVersions DEF Versions
<1>3. \A n : FieldNamed(Pulsar(p), t, n) = FieldNamed(Pb(p), t, n)
  BY <1>1 DEF FieldNamed, Fields
<1> DEFINE N == Names(Pb(p), t)
           A == AllNames(Pulsar(p), t)
           Z(n) == ZeroValue(FieldNamed(Pb(p), t, n))
<1>4. LeafNew(Pb(p), t) = [n \in N |-> Z(n)]
  BY <1>2 DEF LeafNew
<1>5. LeafNew(Pulsar(p), t) = [n \in A |-> IF n \in N THEN Z(n) ELSE <<>>]
  BY <1>2, <1>3 DEF LeafNew
<1> HIDE DEF N, A, Z
<1>6. [n \in N |-> [x \in A |-> IF x \in N THEN Z(x) ELSE <<>>][n]] = [n \in N |-> Z(n)]
  BY <1>2 DEF N, A
<1>7. QED
  BY <1>4, <1>5, <1>6 DEF LeafAsStruct, N, A

\* Both decoders read the same value of a field that is no message.
LEMMA ScalarReadsAgree ==
  ASSUME NEW p, NEW f, NEW g, f.kind \in ScalarKinds, g.kind = f.kind,
         NEW w, NEW s \in Seq(Int), NEW i \in Nat
  PROVE  ReadsAgree(p, f, ReadScalar(f, w, s, i), ReadScalar(g, w, s, i))
<1> DEFINE x == ReadScalar(f, w, s, i)
<1>1. ReadScalar(g, w, s, i) = x
  BY DEF ReadScalar, BytesCase, NumberCase
<1>2. IsRead(x)
  BY ScalarFields
<1>3. \A v : AsValue(p, f, v) = v
  BY DEF AsValue, ScalarKinds
<1>4. f.kind \notin MessageKinds
  BY DEF ScalarKinds, MessageKinds
<1> HIDE DEF x
<1>5. ReadsAgree(p, f, x, x)
  BY <1>2, <1>3, <1>4 DEF IsRead, ReadsAgree
<1>6. QED
  BY <1>1, <1>5 DEF x

\* Values of fields that are messages, in both versions.
LEMMA ValueOfNested ==
  ASSUME NEW p, NEW f, f.kind = "nested", NEW v
  PROVE  AsValue(p, f, v) = IF Len(v) = 0 THEN LeafNew(Pb(p), f.sub)
                            ELSE LeafAsStruct(p, f.sub, v[1])
BY DEF AsValue

\* The content of a list or a pointer, message by message.
LEMMA ValueOfSeveral ==
  ASSUME NEW p, NEW f, f.kind \in {"pointer", "list"}, NEW v
  PROVE  AsValue(p, f, v) = [i \in 1 .. Len(v) |-> LeafAsStruct(p, f.sub, v[i])]
BY DEF AsValue

Target(codec, f, old) ==
    CASE f.kind = "nested" -> old
      [] f.kind = "pointer" /\ Len(old) > 0 -> old[1]
      [] OTHER -> LeafNew(codec, f.sub)

\* A field that is a message, held by value in the one struct and behind a pointer in
\* the other.
HeldAlike(p, f, g) ==
    /\ f.kind \in MessageKinds /\ f.sub \in Leaves(p) /\ g.sub = f.sub
    /\ g.kind = IF f.kind = "nested" THEN "pointer" ELSE f.kind

\* What the decoders read such a field into has the same content.
TargetsAlike(p, f, g, old) ==
    /\ DOMAIN Target(Pulsar(p), g, old) = AllNames(Pulsar(p), f.sub)
    /\ Target(Pb(p), f, AsValue(p, f, old))
          = LeafAsStruct(p, f.sub, Target(Pulsar(p), g, old))

\* Both decoders read a message into messages of the same content: a new one, or the
\* one that is there.
LEMMA TargetsAgree ==
  ASSUME NEW p, NEW f, NEW g, NEW old, HeldAlike(p, f, g), LeafSeq(p, f.sub, old)
  PROVE  TargetsAlike(p, f, g, old)
<1> USE DEF HeldAlike, TargetsAlike
<1> DEFINE none == LeafNew(Pb(p), f.sub)
           zero == LeafNew(Pulsar(p), f.sub)
           y == Target(Pulsar(p), g, old)
           conv == AsValue(p, f, old)
           x == Target(Pb(p), f, conv)
<1>1. DOMAIN zero = AllNames(Pulsar(p), f.sub) /\ LeafAsStruct(p, f.sub, zero) = none
  BY LeafNewAgree
<1>2. PICK S : old \in Seq(S) /\ \A e \in S : DOMAIN e = AllNames(Pulsar(p), f.sub)
  BY DEF LeafSeq
<1>3. Len(old) \in Nat /\ (Len(old) > 0 => old[1] \in S)
  BY <1>2
<1>a. Len(old) > 0 => DOMAIN old[1] = AllNames(Pulsar(p), f.sub)
  BY <1>2, <1>3
<1>4. CASE f.kind = "list"
  <2>1. x = none /\ y = zero
    BY <1>4 DEF Target
  <2>2. QED
    BY <1>1, <2>1
<1>5. CASE f.kind = "pointer"
  <2> DEFINE len == Len(old)
             Conv(i) == LeafAsStruct(p, f.sub, old[i])
  <2>1. conv = [i \in 1 .. len |-> Conv(i)]
    BY <1>5, ValueOfSeveral
  <2> HIDE DEF conv, len, Conv
  <2>a. len \in Nat
    BY <1>3 DEF len
  <2>b. Len(conv) = len /\ (len > 0 => conv[1] = Conv(1))
    BY <2>1, <2>a
  <2>2. /\ Len(conv) = Len(old)
        /\ Len(old) > 0 => conv[1] = LeafAsStruct(p, f.sub, old[1])
    BY <2>b DEF len, Conv
  <2>3. CASE Len(old) > 0
    <3>1. x = conv[1] /\ y = old[1]
      BY <1>5, <2>2, <2>3 DEF Target
    <3>2. QED
      BY <1>a, <2>2, <2>3, <3>1 DEF conv
  <2>4. CASE ~ (Len(old) > 0)
    <3>1. x = none /\ y = zero
      BY <1>5, <2>2, <2>4 DEF Target
    <3>2. QED
      BY <1>1, <3>1 DEF conv
  <2>5. QED
    BY <2>3, <2>4
<1>6. CASE f.kind = "nested"
  <2>1. conv = IF Len(old) = 0 THEN none ELSE LeafAsStruct(p, f.sub, old[1])
    BY <1>6, ValueOfNested
  <2> HIDE DEF conv
  <2>2. x = conv
    BY <1>6 DEF Target
  <2>3. CASE Len(old) > 0
    <3>1. y = old[1]
      BY <1>6, <2>3 DEF Target
    <3>2. QED
      BY <1>a, <1>3, <2>1, <2>2, <2>3, <3>1 DEF conv
  <2>4. CASE ~ (Len(old) > 0)
    <3>1. y = zero
      BY <1>6, <2>4 DEF Target
    <3>2. QED
      BY <1>1, <1>3, <2>1, <2>2, <2>4, <3>1 DEF conv
  <2>5. QED
    BY <2>3, <2>4
<1>7. QED
  BY <1>4, <1>5, <1>6 DEF MessageKinds

\* What ReadMessage makes of the message it has read.
Placed(f, old, m) ==
    CASE f.kind = "nested" -> m
      [] f.kind = "pointer" -> <<m>>
      [] f.kind = "list" -> Append(old, m)

\* Both decoders put the message they have read into the same place.
LEMMA PlacedAgree ==
  ASSUME NEW p, NEW f, NEW g, f.kind \in MessageKinds,
         g.kind = IF f.kind = "nested" THEN "pointer" ELSE f.kind,
         NEW old, LeafSeq(p, f.sub, old), NEW m, DOMAIN m = AllNames(Pulsar(p), f.sub)
  PROVE  /\ LeafSeq(p, f.sub, Placed(g, old, m))
         /\ Placed(f, AsValue(p, f, old), LeafAsStruct(p, f.sub, m))
               = AsValue(p, f, Placed(g, old, m))
<1> DEFINE c == LeafAsStruct(p, f.sub, m)
           y == Placed(g, old, m)
           x == Placed(f, AsValue(p, f, old), c)
<1>1. PICK S : old \in Seq(S) /\ \A e \in S : DOMAIN e = AllNames(Pulsar(p), f.sub)
  BY DEF LeafSeq
<1>2. <<m>> \in Seq({m}) /\ \A e \in {m} : DOMAIN e = AllNames(Pulsar(p), f.sub)
  OBVIOUS
<1>3. Len(<<m>>) = 1 /\ <<m>>[1] = m
  OBVIOUS
<1>4. CASE f.kind = "nested"
  <2>1. y = <<m>> /\ x = c
    BY <1>4 DEF Placed
  <2>2. AsValue(p, f, y) = IF Len(y) = 0 THEN LeafNew(Pb(p), f.sub)
                           ELSE LeafAsStruct(p, f.sub, y[1])
    BY <1>4, ValueOfNested
  <2>3. AsValue(p, f, y) = c
    BY <1>3, <2>1, <2>2
  <2>4. LeafSeq(p, f.sub, <<m>>)
    BY <1>2 DEF LeafSeq
  <2>5. QED
    BY <2>1, <2>3, <2>4
<1>5. CASE f.kind = "pointer"
  <2>1. y = <<m>> /\ x = <<c>>
    BY <1>5 DEF Placed
  <2> DEFINE Conv(i) == LeafAsStruct(p, f.sub, y[i])
  <2>2. AsValue(p, f, y) = [i \in 1 .. Len(y) |-> Conv(i)]
    BY <1>5, ValueOfSeveral
  <2>3. Conv(1) = c /\ Len(y) = 1
    BY <1>3, <2>1
  <2> HIDE DEF Conv, c, x, y
  <2>4. [i \in 1 .. 1 |-> Conv(i)] = <<Conv(1)>>
    OBVIOUS
  <2>5. x = AsValue(p, f, y)
    BY <2>1, <2>2, <2>3, <2>4
  <2>6. LeafSeq(p, f.sub, <<m>>)
    BY <1>2 DEF LeafSeq
  <2>7. QED
    BY <2>1, <2>5, <2>6 DEF x, y, c
<1>6. CASE f.kind = "list"
  <2>1. y = Append(old, m) /\ x = Append(AsValue(p, f, old), c)
    BY <1>6 DEF Placed
  <2> DEFINE T == S \cup {m}
             n == Len(old)
             Conv(i) == LeafAsStruct(p, f.sub, old[i])
             ConvY(i) == LeafAsStruct(p, f.sub, y[i])
  <2>2. old \in Seq(T) /\ m \in T
    <3>1. S \subseteq T
      OBVIOUS
    <3>2. QED
      BY <1>1, <3>1, SeqMonotonic
  <2>3. Append(old, m) \in Seq(T)
    BY <2>2
  <2>4. \A e \in T : DOMAIN e = AllNames(Pulsar(p), f.sub)
    BY <1>1
  <2>5. LeafSeq(p, f.sub, Append(old, m))
    BY <2>3, <2>4 DEF LeafSeq
  <2>6. AsValue(p, f, old) = [i \in 1 .. n |-> Conv(i)]
    BY <1>6, ValueOfSeveral
  <2>7. AsValue(p, f, y) = [i \in 1 .. Len(y) |-> ConvY(i)]
    BY <1>6, ValueOfSeveral
  <2>8. n \in Nat /\ Len(y) = n + 1 /\ y[n + 1] = m /\ \A i \in 1 .. n : y[i] = old[i]
    BY <1>1, <2>1
  <2>9. ConvY(n + 1) = c /\ \A i \in 1 .. n : ConvY(i) = Conv(i)
    BY <2>8
  <2> HIDE DEF Conv, ConvY, c, x, y, n
  <2>10. Append([i \in 1 .. n |-> Conv(i)], c) = [i \in 1 .. n + 1 |-> IF i = n + 1 THEN c ELSE Conv(i)]
    BY <2>8
  <2>11. [i \in 1 .. n + 1 |-> ConvY(i)] = [i \in 1 .. n + 1 |-> IF i = n + 1 THEN c ELSE Conv(i)]
    BY <2>8, <2>9
  <2>12. x = AsValue(p, f, y)
    BY <2>1, <2>6, <2>7, <2>8, <2>10, <2>11
  <2>13. QED
    BY <2>1, <2>5, <2>12 DEF x, y, c
<1>7. QED
  BY <1>4, <1>5, <1>6 DEF MessageKinds

\* ReadMessage, with the names for its parts.
LEMMA ReadMessageParts ==
  ASSUME NEW codec, NEW f, NEW w, NEW old, NEW s, NEW i
  PROVE  LET block == ReadBlock(s, i)
             inner == LeafUnmarshal(codec, f.sub, Target(codec, f, old), block.bytes)
         IN  ReadMessage(codec, f, w, old, s, i) =
               IF w # 2 \/ ~block.ok \/ ~inner.ok THEN Refused
               ELSE [ok |-> TRUE, next |-> block.next, value |-> Placed(f, old, inner.msg)]
BY DEF ReadMessage, NestedCase, Target, Placed

\* Both decoders read the same content of a field that is a message.
LEMMA MessageReadsAgree ==
  ASSUME NEW p, NEW f, NEW g, f.kind \in MessageKinds, f.sub \in Leaves(p), g.sub = f.sub,
         g.kind = IF f.kind = "nested" THEN "pointer" ELSE f.kind,
         NEW old, LeafSeq(p, f.sub, old), NEW w, NEW s \in Seq(Int), NEW i \in Nat
  PROVE  ReadsAgree(p, f, ReadMessage(Pb(p), f, w, AsValue(p, f, old), s, i),
                          ReadMessage(Pulsar(p), g, w, old, s, i))
<1>h. HeldAlike(p, f, g)
  BY DEF HeldAlike
<1>0. TargetsAlike(p, f, g, old)
  BY <1>h, TargetsAgree
<1> DEFINE block == ReadBlock(s, i)
           conv == AsValue(p, f, old)
           ta == Target(Pb(p), f, conv)
           tb == Target(Pulsar(p), g, old)
           ia == LeafUnmarshal(Pb(p), f.sub, ta, block.bytes)
           ib == LeafUnmarshal(Pulsar(p), f.sub, tb, block.bytes)
           x == ReadMessage(Pb(p), f, w, conv, s, i)
           y == ReadMessage(Pulsar(p), g, w, old, s, i)
<1>1. x = IF w # 2 \/ ~block.ok \/ ~ia.ok THEN Refused
          ELSE [ok |-> TRUE, next |-> block.next, value |-> Placed(f, conv, ia.msg)]
  BY ReadMessageParts
<1>2. y = IF w # 2 \/ ~block.ok \/ ~ib.ok THEN Refused
          ELSE [ok |-> TRUE, next |-> block.next, value |-> Placed(g, old, ib.msg)]
  BY ReadMessageParts
<1>3. IsBlock(block)
  BY BlockFields
<1>4. DOMAIN tb = AllNames(Pulsar(p), f.sub) /\ ta = LeafAsStruct(p, f.sub, tb)
  BY <1>0 DEF TargetsAlike
<1> HIDE DEF block, ta, tb
<1>5. block.ok => LeafAgree(p, f.sub, ia, ib)
  BY <1>3, <1>4, LeavesAgree, RefusedFails DEF IsBlock
<1> HIDE DEF ia, ib, conv, x, y
<1>6. CASE w # 2 \/ ~block.ok
  <2>1. x = Refused /\ y = Refused
    BY <1>1, <1>2, <1>6
  <2>2. QED
    BY <2>1 DEF ReadsAgree, x, y, conv
<1>7. CASE ~(w # 2 \/ ~block.ok)
  <2>1. block.next \in Nat
    BY <1>3, <1>7, RefusedFails DEF IsBlock
  <2>2. CASE ia = Refused /\ ib = Refused
    <3>1. x = Refused /\ y = Refused
      BY <1>1, <1>2, <2>2, RefusedFails
    <3>2. QED
      BY <3>1 DEF ReadsAgree, x, y, conv
  <2>3. CASE /\ ia.ok = TRUE /\ ib.ok = TRUE
             /\ DOMAIN ib.msg = AllNames(Pulsar(p), f.sub)
             /\ ia.msg = LeafAsStruct(p, f.sub, ib.msg)
    <3> DEFINE va == Placed(f, conv, ia.msg)
               vb == Placed(g, old, ib.msg)
    <3>1. x = [ok |-> TRUE, next |-> block.next, value |-> va]
      BY <1>1, <1>7, <2>3
    <3>2. y = [ok |-> TRUE, next |-> block.next, value |-> vb]
      BY <1>2, <1>7, <2>3
    <3>3. LeafSeq(p, f.sub, vb) /\ va = AsValue(p, f, vb)
      BY <2>3, PlacedAgree DEF conv
    <3> HIDE DEF va, vb
    <3>4. /\ x.ok = TRUE /\ x.next = block.next /\ x.value = va
          /\ y.ok = TRUE /\ y.next = block.next /\ y.value = vb
      BY <3>1, <3>2
    <3>5. ReadsAgree(p, f, x, y)
      BY <2>1, <3>3, <3>4 DEF ReadsAgree
    <3>6. QED
      BY <3>5 DEF x, y, conv
  <2>4. QED
    BY <1>5, <1>7, <2>2, <2>3 DEF LeafAgree
<1>8. QED
  BY <1>6, <1>7

\* Writing a field, or a field that is not known, keeps the contents the same.
LEMMA MessageWrite ==
  ASSUME NEW p, NEW t \in DOMAIN Pb(p).types, NEW m, Shaped(p, t, m),
         NEW n \in Names(Pb(p), t), NEW v,
         LET f == FieldNamed(Pb(p), t, n) IN f.kind \in MessageKinds => LeafSeq(p, f.sub, v)
  PROVE  /\ Shaped(p, t, Put(m, n, v))
         /\ Put(AsStruct(p, t, m), n, AsValue(p, FieldNamed(Pb(p), t, n), v))
               = AsStruct(p, t, Put(m, n, v))
<1> DEFINE N == Names(Pb(p), t)
           F(x) == FieldNamed(Pb(p), t, x)
           V(x, y) == AsValue(p, F(x), y)
           mb == Put(m, n, v)
<1>1. DOMAIN m = N \cup {"unknownFields"}
  BY TwoVersions DEF Versions, Shaped
<1>2. DOMAIN mb = DOMAIN m /\ mb[n] = v /\ \A x \in N \ {n} : mb[x] = m[x]
  BY <1>1 DEF Put
<1> HIDE DEF mb
<1>3. ASSUME NEW x \in N, F(x).kind \in MessageKinds PROVE LeafSeq(p, F(x).sub, mb[x])
  <2>1. CASE x = n
    BY <1>2, <1>3, <2>1
  <2>2. CASE x # n
    BY <1>2, <1>3, <2>2 DEF Shaped
  <2>3. QED
    BY <2>1, <2>2
<1>4. Shaped(p, t, mb)
  BY <1>2, <1>3 DEF Shaped
<1>5. AsStruct(p, t, m) = [x \in N |-> V(x, m[x])] /\ AsStruct(p, t, mb) = [x \in N |-> V(x, mb[x])]
  BY DEF AsStruct
<1> HIDE DEF V, N
<1>6. [[x \in N |-> V(x, m[x])] EXCEPT ![n] = V(n, v)] = [x \in N |-> V(x, mb[x])]
  BY <1>2
<1>7. Put(AsStruct(p, t, m), n, V(n, v)) = AsStruct(p, t, mb)
  BY <1>5, <1>6 DEF Put
<1>8. QED
  BY <1>4, <1>7 DEF V, mb

\* Keeping the bytes of a field that is not known changes no field of the message.
LEMMA MessageKeep ==
  ASSUME NEW p, NEW t \in DOMAIN Pb(p).types, NEW m, Shaped(p, t, m), NEW v
  PROVE  /\ Shaped(p, t, Put(m, "unknownFields", v))
         /\ AsStruct(p, t, m) = AsStruct(p, t, Put(m, "unknownFields", v))
<1> DEFINE N == Names(Pb(p), t)
           F(x) == FieldNamed(Pb(p), t, x)
           V(x, y) == AsValue(p, F(x), y)
           mb == Put(m, "unknownFields", v)
<1>1. DOMAIN m = N \cup {"unknownFields"} /\ "unknownFields" \notin N
  BY TwoVersions DEF Versions, Shaped
<1>2. DOMAIN mb = DOMAIN m /\ \A x \in N : mb[x] = m[x]
  BY <1>1 DEF Put
<1> HIDE DEF mb
<1>3. Shaped(p, t, mb)
  BY <1>2 DEF Shaped
<1>4. AsStruct(p, t, m) = [x \in N |-> V(x, m[x])] /\ AsStruct(p, t, mb) = [x \in N |-> V(x, mb[x])]
  BY DEF AsStruct
<1> HIDE DEF V, N
<1>5. [x \in N |-> V(x, m[x])] = [x \in N |-> V(x, mb[x])]
  BY <1>2
<1>6. QED
  BY <1>3, <1>4, <1>5 DEF mb

\* The zero values of a field.
LEMMA ZerosAgree ==
  ASSUME NEW p, NEW t \in DOMAIN Pb(p).types, NEW n \in Names(Pb(p), t)
  PROVE  LET f == FieldNamed(Pb(p), t, n)
             z == Zero(Pulsar(p), FieldNamed(Pulsar(p), t, n))
         IN  /\ Zero(Pb(p), f) = AsValue(p, f, z)
             /\ f.kind \in MessageKinds => LeafSeq(p, f.sub, z)
<1> DEFINE f == FieldNamed(Pb(p), t, n)
           g == FieldNamed(Pulsar(p), t, n)
           z == Zero(Pulsar(p), g)
<1>1. /\ f.kind \in ScalarKinds \/ f.kind \in MessageKinds
      /\ g.kind = IF f.kind = "nested" THEN "pointer" ELSE f.kind
  BY TwoVersions DEF Versions, SameField
<1> HIDE DEF f, g
<1>2. CASE f.kind \in ScalarKinds
  <2>1. g.kind = f.kind /\ f.kind # "nested" /\ f.kind \notin MessageKinds
    BY <1>1, <1>2 DEF ScalarKinds, MessageKinds
  <2>2. Zero(Pb(p), f) = ZeroValue(f) /\ z = ZeroValue(g)
    BY <2>1 DEF Zero
  <2>3. ZeroValue(g) = ZeroValue(f)
    BY <2>1 DEF ZeroValue
  <2>4. \A v : AsValue(p, f, v) = v
    BY <1>2 DEF AsValue, ScalarKinds
  <2>5. QED
    BY <2>1, <2>2, <2>3, <2>4 DEF f, g
<1>3. CASE f.kind \in MessageKinds
  <2>1. g.kind \in {"pointer", "list"}
    BY <1>1, <1>3 DEF MessageKinds
  <2>2. z = <<>>
    BY <2>1 DEF Zero, ZeroValue
  <2>3. LeafSeq(p, f.sub, z)
    <3>1. <<>> \in Seq({})
      OBVIOUS
    <3>2. QED
      BY <2>2, <3>1 DEF LeafSeq
  <2>4. CASE f.kind = "nested"
    <3>1. Zero(Pb(p), f) = LeafNew(Pb(p), f.sub)
      BY <2>4 DEF Zero
    <3>2. AsValue(p, f, <<>>) = IF Len(<<>>) = 0 THEN LeafNew(Pb(p), f.sub)
                                ELSE LeafAsStruct(p, f.sub, <<>>[1])
      BY <2>4, ValueOfNested
    <3>3. Len(<<>>) = 0
      OBVIOUS
    <3>4. QED
      BY <2>2, <2>3, <3>1, <3>2, <3>3 DEF f, g
  <2>5. CASE f.kind # "nested"
    <3>1. f.kind \in {"pointer", "list"}
      BY <1>3, <2>5 DEF MessageKinds
    <3>2. Zero(Pb(p), f) = <<>>
      BY <3>1 DEF Zero, ZeroValue
    <3> DEFINE Conv(i) == LeafAsStruct(p, f.sub, <<>>[i])
    <3>3. AsValue(p, f, <<>>) = [i \in 1 .. Len(<<>>) |-> Conv(i)]
      BY <3>1, ValueOfSeveral
    <3> HIDE DEF Conv
    <3>4. [i \in 1 .. Len(<<>>) |-> Conv(i)] = <<>>
      OBVIOUS
    <3>5. QED
      BY <2>2, <2>3, <3>2, <3>3, <3>4 DEF f, g
  <2>6. QED
    BY <2>4, <2>5
<1>4. QED
  BY <1>1, <1>2, <1>3

\* Both decoders begin with an empty message.
LEMMA NewAgree ==
  ASSUME NEW p, NEW t \in DOMAIN Pb(p).types
  PROVE  /\ Shaped(p, t, New(Pulsar(p), t))
         /\ New(Pb(p), t) = AsStruct(p, t, New(Pulsar(p), t))
<1> DEFINE N == Names(Pb(p), t)
           A == AllNames(Pulsar(p), t)
           F(x) == FieldNamed(Pb(p), t, x)
           Za(x) == Zero(Pb(p), F(x))
           Zb(x) == Zero(Pulsar(p), FieldNamed(Pulsar(p), t, x))
           V(x, y) == AsValue(p, F(x), y)
           mb == New(Pulsar(p), t)
<1>1. /\ Names(Pulsar(p), t) = N /\ AllNames(Pb(p), t) = N /\ N \subseteq A
  BY TwoVersions DEF Versions
<1>2. New(Pb(p), t) = [x \in N |-> Za(x)]
  BY <1>1 DEF New
<1>3. mb = [x \in A |-> IF x \in N THEN Zb(x) ELSE <<>>]
  BY <1>1 DEF New
<1>4. AsStruct(p, t, mb) = [x \in N |-> V(x, mb[x])]
  BY DEF AsStruct
<1>5. ASSUME NEW x \in N
      PROVE  Za(x) = V(x, Zb(x)) /\ (F(x).kind \in MessageKinds => LeafSeq(p, F(x).sub, Zb(x)))
  BY ZerosAgree
<1> HIDE DEF mb, V, Za, Zb, N
<1>6. DOMAIN mb = A /\ \A x \in N : mb[x] = Zb(x)
  BY <1>1, <1>3
<1>7. Shaped(p, t, mb)
  BY <1>5, <1>6 DEF Shaped, N
<1>8. [x \in N |-> Za(x)] = [x \in N |-> V(x, mb[x])]
  BY <1>5, <1>6
<1>9. QED
  BY <1>2, <1>4, <1>7, <1>8 DEF mb

\* Two decoders that have given up agree.
LEMMA BothRefused ==
  ASSUME NEW p, NEW t
  PROVE  Agree(p, t, Refused, Refused)
BY DEF Agree

\* The case that MessageRound takes.
CaseRead(codec, f, tag, old, s) ==
    IF f.kind \in {"nested", "pointer", "list"}
    THEN ReadMessage(codec, f, tag.wireType, old, s, tag.next)
    ELSE ReadScalar(f, tag.wireType, s, tag.next)

\* The cases of the two switches for one number read the same content.
LEMMA CasesAgree ==
  ASSUME NEW p, NEW t \in DOMAIN Pb(p).types, NEW m, Shaped(p, t, m),
         NEW i \in DOMAIN Pb(p).types[t].unmarshal,
         NEW s \in Seq(Int), NEW tag, tag.next \in Nat
  PROVE  LET f == Pb(p).types[t].unmarshal[i]
             g == Pulsar(p).types[t].unmarshal[i]
         IN  ReadsAgree(p, f, CaseRead(Pb(p), f, tag, AsStruct(p, t, m)[f.name], s),
                              CaseRead(Pulsar(p), g, tag, m[f.name], s))
<1> DEFINE f == Pb(p).types[t].unmarshal[i]
           g == Pulsar(p).types[t].unmarshal[i]
           n == f.name
           old == m[n]
           w == tag.wireType
           next == tag.next
<1>1. /\ n \in Names(Pb(p), t) /\ g.name = n
      /\ FieldNamed(Pb(p), t, n) = f /\ FieldNamed(Pulsar(p), t, n) = g
  BY TwoVersions DEF Versions, SameCase
<1>2. /\ f.sub = g.sub
      /\ f.kind \in ScalarKinds \/ (f.kind \in MessageKinds /\ f.sub \in Leaves(p))
      /\ g.kind = IF f.kind = "nested" THEN "pointer" ELSE f.kind
  <2>1. SameField(p, t, n)
    BY <1>1, TwoVersions DEF Versions
  <2>2. QED
    BY <1>1, <2>1 DEF SameField
<1>3. AsStruct(p, t, m)[n] = AsValue(p, f, old)
  BY <1>1 DEF AsStruct
<1>4. f.kind \in MessageKinds => LeafSeq(p, f.sub, old)
  BY <1>1 DEF Shaped
<1> HIDE DEF f, g, n, old, w, next
<1>5. CASE f.kind \in ScalarKinds
  <2>1. f.kind \notin {"nested", "pointer", "list"} /\ g.kind = f.kind
    BY <1>2, <1>5 DEF ScalarKinds
  <2>2. /\ CaseRead(Pb(p), f, tag, AsStruct(p, t, m)[n], s) = ReadScalar(f, w, s, next)
        /\ CaseRead(Pulsar(p), g, tag, old, s) = ReadScalar(g, w, s, next)
    BY <2>1 DEF CaseRead, w, next
  <2>3. ReadsAgree(p, f, ReadScalar(f, w, s, next), ReadScalar(g, w, s, next))
    BY <1>5, <2>1, ScalarReadsAgree DEF next
  <2>4. QED
    BY <2>2, <2>3 DEF f, g, n, old
<1>6. CASE f.kind \in MessageKinds /\ f.sub \in Leaves(p)
  <2>1. f.kind \in {"nested", "pointer", "list"} /\ g.kind \in {"nested", "pointer", "list"}
    BY <1>2, <1>6 DEF MessageKinds
  <2>2. /\ CaseRead(Pb(p), f, tag, AsStruct(p, t, m)[n], s)
              = ReadMessage(Pb(p), f, w, AsValue(p, f, old), s, next)
        /\ CaseRead(Pulsar(p), g, tag, old, s) = ReadMessage(Pulsar(p), g, w, old, s, next)
    BY <1>3, <2>1 DEF CaseRead, w, next
  <2>3. ReadsAgree(p, f, ReadMessage(Pb(p), f, w, AsValue(p, f, old), s, next),
                         ReadMessage(Pulsar(p), g, w, old, s, next))
    BY <1>2, <1>4, <1>6, MessageReadsAgree DEF next
  <2>4. QED
    BY <2>2, <2>3 DEF f, g, n, old
<1>7. QED
  BY <1>2, <1>5, <1>6

\* A round of both decoders keeps them at the same place with the same content.
LEMMA MessageRoundsAgree ==
  ASSUME NEW p, NEW t \in DOMAIN Pb(p).types, NEW s \in Seq(Int), NEW a, NEW b,
         Agree(p, t, a, b)
  PROVE  Agree(p, t, MessageRound(Pb(p), t, s, a), MessageRound(Pulsar(p), t, s, b))
<1>2. CASE a = Refused /\ b = Refused
  <2>1. Ended(s, a) /\ Ended(s, b)
    BY <1>2, RefusedFails DEF Ended
  <2>2. QED
    BY <2>1, MessageRoundStays
<1>3. CASE /\ a.ok = TRUE /\ b.ok = TRUE /\ a.next = b.next /\ b.next \in Nat
           /\ Shaped(p, t, b.msg) /\ a.msg = AsStruct(p, t, b.msg)
  <2> DEFINE i == b.next
             tag == ReadTag(s, i)
             k == tag.fieldNum
             cases == Pb(p).types[t].unmarshal
             f == cases[k]
             g == Pulsar(p).types[t].unmarshal[k]
             ra == CaseRead(Pb(p), f, tag, a.msg[f.name], s)
             rb == CaseRead(Pulsar(p), g, tag, b.msg[g.name], s)
             end == Skip(s, i)
             kept == b.msg["unknownFields"] \o SubSeq(s, i + 1, end.next)
             x == MessageRound(Pb(p), t, s, a)
             y == MessageRound(Pulsar(p), t, s, b)
  <2>1. Ended(s, a) <=> Ended(s, b)
    BY <1>3 DEF Ended
  <2>2. CASE Ended(s, b)
    BY <2>1, <2>2, MessageRoundStays
  <2>3. CASE ~Ended(s, b)
    <3>1. /\ x = Round(Pb(p), t, s, a, tag, ra)
          /\ y = Round(Pulsar(p), t, s, b, tag, rb)
      BY <1>3 DEF MessageRound, CaseRead
    <3>2. Pb(p).pulsar = FALSE /\ Pulsar(p).pulsar = TRUE
      BY DEF Pb, Pulsar
    <3>m. /\ x = Moved(Pb(p), t, s, a, tag, ra)
          /\ y = Moved(Pulsar(p), t, s, b, tag, rb)
      BY <2>1, <2>3, <3>1, RoundMoves
    <3>v. /\ DOMAIN Pulsar(p).types[t].unmarshal = DOMAIN cases
          /\ k \in DOMAIN cases =>
                f.name = g.name /\ f.name \in Names(Pb(p), t) /\ FieldNamed(Pb(p), t, f.name) = f
      BY TwoVersions DEF Versions, SameCase
    <3>3. x = IF ~tag.ok THEN Refused
              ELSE IF k \in DOMAIN cases
                   THEN IF ~ra.ok THEN Refused
                        ELSE [ok |-> TRUE, next |-> ra.next,
                              msg |-> [a.msg EXCEPT ![f.name] = ra.value]]
              ELSE IF ~end.ok \/ end.next > Len(s) THEN Refused
              ELSE [ok |-> TRUE, next |-> end.next, msg |-> a.msg]
      BY <1>3, <3>2, <3>m DEF Moved
    <3>4. y = IF ~tag.ok THEN Refused
              ELSE IF k \in DOMAIN cases
                   THEN IF ~rb.ok THEN Refused
                        ELSE [ok |-> TRUE, next |-> rb.next,
                              msg |-> [b.msg EXCEPT ![g.name] = rb.value]]
              ELSE IF ~end.ok \/ end.next > Len(s) THEN Refused
              ELSE [ok |-> TRUE, next |-> end.next,
                    msg |-> [b.msg EXCEPT !["unknownFields"] = kept]]
      BY <3>2, <3>m, <3>v DEF Moved
    <3>5. IsRead(tag)
      BY <1>3, TagFields
    <3>6. tag.ok /\ k \in DOMAIN cases => ReadsAgree(p, f, ra, rb)
      <4>1. SUFFICES ASSUME tag.ok, k \in DOMAIN cases PROVE ReadsAgree(p, f, ra, rb)
        OBVIOUS
      <4>2. tag.next \in Nat
        BY <3>5, <4>1, RefusedFails DEF IsRead
      <4> HIDE DEF tag, k
      <4>3. ReadsAgree(p, f, CaseRead(Pb(p), f, tag, AsStruct(p, t, b.msg)[f.name], s),
                             CaseRead(Pulsar(p), g, tag, b.msg[f.name], s))
        BY <1>3, <4>1, <4>2, CasesAgree
      <4>4. QED
        BY <1>3, <3>v, <4>1, <4>3
    <3>7. IsRead(end)
      BY <1>3, SkipFields
    <3>9. Agree(p, t, x, y)
      <4> HIDE DEF tag, cases, ra, rb, end, kept, x, y, i, k, f, g
      <4>1. CASE ~tag.ok
        BY <3>3, <3>4, <4>1, BothRefused
      <4>2. CASE tag.ok /\ k \in DOMAIN cases
        <5>1. CASE ra = Refused /\ rb = Refused
          BY <3>3, <3>4, <4>2, <5>1, BothRefused, RefusedFails
        <5>2. CASE /\ ra.ok = TRUE /\ rb.ok = TRUE /\ ra.next = rb.next /\ rb.next \in Nat
                   /\ ra.value = AsValue(p, f, rb.value)
                   /\ f.kind \in MessageKinds => LeafSeq(p, f.sub, rb.value)
          <6> DEFINE n == f.name
                     v == rb.value
                     ma == Put(a.msg, n, ra.value)
                     mb == Put(b.msg, n, v)
          <6>1. /\ x = [ok |-> TRUE, next |-> ra.next, msg |-> ma]
                /\ y = [ok |-> TRUE, next |-> rb.next, msg |-> mb]
            BY <3>3, <3>4, <3>v, <4>2, <5>2 DEF Put
          <6>2. n \in Names(Pb(p), t) /\ FieldNamed(Pb(p), t, n) = f
            BY <3>v, <4>2
          <6> HIDE DEF n, v
          <6>3. Shaped(p, t, mb) /\ Put(AsStruct(p, t, b.msg), n, AsValue(p, f, v)) = AsStruct(p, t, mb)
            BY <1>3, <5>2, <6>2, MessageWrite DEF v
          <6>4. ma = AsStruct(p, t, mb)
            BY <1>3, <5>2, <6>3 DEF v
          <6> HIDE DEF ma, mb
          <6>5. /\ x.ok = TRUE /\ y.ok = TRUE /\ x.next = y.next /\ y.next \in Nat
                /\ x.msg = ma /\ y.msg = mb
            BY <5>2, <6>1
          <6>6. QED
            BY <6>3, <6>4, <6>5 DEF Agree
        <5>3. QED
          BY <3>6, <4>2, <5>1, <5>2 DEF ReadsAgree
      <4>3. CASE tag.ok /\ k \notin DOMAIN cases
        <5>1. CASE ~end.ok \/ end.next > Len(s)
          BY <3>3, <3>4, <4>3, <5>1, BothRefused
        <5>2. CASE ~(~end.ok \/ end.next > Len(s))
          <6> DEFINE mb == Put(b.msg, "unknownFields", kept)
          <6>1. /\ x = [ok |-> TRUE, next |-> end.next, msg |-> a.msg]
                /\ y = [ok |-> TRUE, next |-> end.next, msg |-> mb]
            BY <3>3, <3>4, <4>3, <5>2 DEF Put
          <6>2. end.next \in Nat
            BY <3>7, <5>2, RefusedFails DEF IsRead
          <6>4. Shaped(p, t, mb) /\ a.msg = AsStruct(p, t, mb)
            BY <1>3, MessageKeep
          <6> HIDE DEF mb
          <6>5. /\ x.ok = TRUE /\ y.ok = TRUE /\ x.next = y.next /\ y.next \in Nat
                /\ x.msg = a.msg /\ y.msg = mb
            BY <6>1, <6>2
          <6>6. QED
            BY <6>4, <6>5 DEF Agree
        <5>3. QED
          BY <5>1, <5>2
      <4>4. QED
        BY <4>1, <4>2, <4>3
    <3>10. QED
      BY <3>9
  <2>4. QED
    BY <2>2, <2>3
<1>4. QED
  BY <1>2, <1>3 DEF Agree

(***************************************************************************)
(* On any bytes the two decoders of a type refuse, or read the same        *)
(* content.                                                                *)
(***************************************************************************)
THEOREM DecodersAlike ==
  ASSUME NEW p, NEW t \in DOMAIN Pb(p).types, NEW s \in Seq(Int)
  PROVE  Agree(p, t, Unmarshal(Pb(p), t, s), Unmarshal(Pulsar(p), t, s))
<1> DEFINE ma == New(Pb(p), t)
           mb == New(Pulsar(p), t)
<1>1. PICK r : MessageRuns(r, Len(s), Pb(p), t, s) /\ Unmarshal(Pb(p), t, s) = r[Len(s)]
  BY UnmarshalDef
<1>2. PICK q : MessageRuns(q, Len(s), Pulsar(p), t, s) /\ Unmarshal(Pulsar(p), t, s) = q[Len(s)]
  BY UnmarshalDef
<1>3. \A k \in 0 .. Len(s) : r[k] = IF k = 0 THEN [ok |-> TRUE, next |-> 0, msg |-> ma]
                                    ELSE MessageRound(Pb(p), t, s, r[k - 1])
  BY <1>1 DEF MessageRuns
<1>4. \A k \in 0 .. Len(s) : q[k] = IF k = 0 THEN [ok |-> TRUE, next |-> 0, msg |-> mb]
                                    ELSE MessageRound(Pulsar(p), t, s, q[k - 1])
  BY <1>2 DEF MessageRuns
<1>5. Len(s) \in Nat
  OBVIOUS
<1>n. Shaped(p, t, mb) /\ ma = AsStruct(p, t, mb)
  BY NewAgree
<1> DEFINE Good == {n \in Nat : n \in 0 .. Len(s) => Agree(p, t, r[n], q[n])}
<1> HIDE DEF ma, mb
<1>6. 0 \in Good
  <2>a. 0 \in 0 .. Len(s)
    BY <1>5
  <2>b. r[0] = [ok |-> TRUE, next |-> 0, msg |-> ma]
    BY <1>3, <2>a
  <2>c. q[0] = [ok |-> TRUE, next |-> 0, msg |-> mb]
    BY <1>4, <2>a
  <2>2. /\ r[0].ok = TRUE /\ r[0].next = 0 /\ r[0].msg = ma
        /\ q[0].ok = TRUE /\ q[0].next = 0 /\ q[0].msg = mb
    BY <2>b, <2>c
  <2>3. Agree(p, t, r[0], q[0])
    BY <1>n, <2>2 DEF Agree
  <2>4. QED
    BY <2>3
<1>7. ASSUME NEW n \in Nat, n \in Good PROVE n + 1 \in Good
  <2>1. SUFFICES ASSUME n + 1 \in 0 .. Len(s) PROVE Agree(p, t, r[n + 1], q[n + 1])
    OBVIOUS
  <2>2. n \in 0 .. Len(s) /\ n + 1 # 0 /\ (n + 1) - 1 = n
    BY <1>5, <2>1
  <2>3. r[n + 1] = MessageRound(Pb(p), t, s, r[n]) /\ q[n + 1] = MessageRound(Pulsar(p), t, s, q[n])
    BY <1>3, <1>4, <2>1, <2>2
  <2>4. Agree(p, t, r[n], q[n])
    BY <1>7, <2>2
  <2>5. QED
    BY <2>3, <2>4, MessageRoundsAgree
<1> HIDE DEF Good
<1>8. Len(s) \in Good
  BY <1>5, <1>6, <1>7, NatSetInduction
<1>9. Agree(p, t, r[Len(s)], q[Len(s)])
  BY <1>5, <1>8 DEF Good
<1>10. QED
  BY <1>1, <1>2, <1>9
=============================================================================
