------------------------------ MODULE ProtoWire ------------------------------
(***************************************************************************)
(* The generated encoders and decoders.  A codec is a record [pulsar,      *)
(* types]: which of the two versions it is, and the tables of its message  *)
(* types (ProtoFields).  A message is a function from the names of its Go  *)
(* fields to their values; a pulsar message has the bytes it did not       *)
(* understand under "unknownFields".  Strings and bytes are sequences of   *)
(* bytes; an empty slice and a nil slice are both the empty sequence.  A   *)
(* pointer is the sequence of the messages behind it: none or one.         *)
(*                                                                         *)
(* Every message has a function of its own in the generated code.  The     *)
(* messages inside other messages hold no messages themselves: their       *)
(* functions are the ones whose name begins with Leaf.  A loop of the code *)
(* is a recursive function of the number of its rounds.                    *)
(*                                                                         *)
(* Integers have the widths WordBits and IntBits in the place of 64 and    *)
(* 32; a varint still has seven bits in each byte.  The widths are         *)
(* multiples of seven plus one and plus less than seven, as 64 and 32 are, *)
(* so that the last byte of a full varint has one bit that counts and a    *)
(* negative int32 takes more bytes than any positive one.                  *)
(***************************************************************************)
EXTENDS Integers, Sequences, SequencesExt, ProtoFields

CONSTANTS
    WordBits,   \* bits of int and of uint64
    IntBits     \* bits of int32

ASSUME WidthAssumption == WordBits \in Nat /\ IntBits \in 8 .. WordBits

Pow2[n \in Nat] == IF n = 0 THEN 1 ELSE 2 * Pow2[n - 1]

WordSize == Pow2[WordBits]
IntSize == Pow2[IntBits]

Word(x) == x % WordSize

\* The two's complement reading of the low bits of x.
Signed(x, size) == LET u == x % size IN IF u >= size \div 2 THEN u - size ELSE u

\* An error of a function that reads; what it returns otherwise has ok |-> TRUE.
Refused == [ok |-> FALSE]

\* What a write in front of the buffer leaves in the place of the bytes: the
\* Go program panics.
Panicked == <<-1>>

-----------------------------------------------------------------------------
(* The fields of a message.                                                *)

Fields(codec, type) == Range(codec.types[type].struct)

FieldNamed(codec, type, n) == CHOOSE f \in Fields(codec, type) : f.name = n

Names(codec, type) == {f.name : f \in Fields(codec, type)}

AllNames(codec, type) ==
    Names(codec, type) \cup (IF codec.pulsar THEN {"unknownFields"} ELSE {})

\* The zero value of a field that is not a struct.
ZeroValue(f) ==
    CASE f.kind \in {"string", "bytes", "pointer", "list"} -> <<>>
      [] f.kind \in {"int32", "uint64"} -> 0
      [] f.kind = "bool" -> FALSE

LeafNew(codec, type) ==
    [n \in AllNames(codec, type) |->
        IF n \in Names(codec, type) THEN ZeroValue(FieldNamed(codec, type, n)) ELSE <<>>]

Zero(codec, f) == IF f.kind = "nested" THEN LeafNew(codec, f.sub) ELSE ZeroValue(f)

New(codec, type) ==
    [n \in AllNames(codec, type) |->
        IF n \in Names(codec, type) THEN Zero(codec, FieldNamed(codec, type, n)) ELSE <<>>]

\* The condition under which a field takes part in Size and in Marshal.
Present(f, v) ==
    CASE f.kind \in {"string", "bytes", "pointer", "list"} -> Len(v) > 0
      [] f.kind \in {"int32", "uint64"} -> v # 0
      [] f.kind = "bool" -> v
      [] f.kind = "nested" -> TRUE

\* Defect: fields that are not known are dropped.
UnknownDropped(codec, m) == <<>>

\* gogoproto messages have no room for fields that they do not know.
Unknown(codec, m) == IF codec.pulsar THEN m["unknownFields"] ELSE <<>>

-----------------------------------------------------------------------------
(* Sizes.                                                                  *)

\* math/bits.Len64(x | 1)
Len64[x \in Nat] == IF x < 2 THEN 1 ELSE 1 + Len64[x \div 2]

\* Defect: one byte too many when the bits fill the last byte.
SovAtBoundary(x) == (Len64[x] \div 7) + 1

Sov(x) == (Len64[x] + 6) \div 7

DelimitedSize(l) == 1 + l + Sov(l)

\* The block of a field that is no message.
ScalarSize(f, v) ==
    IF ~Present(f, v) THEN 0
    ELSE CASE f.kind \in {"string", "bytes"} -> DelimitedSize(Len(v))
           [] f.kind \in {"int32", "uint64"} -> 1 + Sov(Word(v))
           [] f.kind = "bool" -> 2

LeafSize(codec, type, m) ==
    FoldLeft(LAMBDA n, f : n + ScalarSize(f, m[f.name]),
             Len(Unknown(codec, m)), codec.types[type].size)

FieldSize(codec, f, v) ==
    CASE f.kind = "nested" -> DelimitedSize(LeafSize(codec, f.sub, v))
      [] f.kind \in {"pointer", "list"} ->
            FoldLeft(LAMBDA n, e : n + DelimitedSize(LeafSize(codec, f.sub, e)), 0, v)
      [] OTHER -> ScalarSize(f, v)

Size(codec, type, m) ==
    FoldLeft(LAMBDA n, f : n + FieldSize(codec, f, m[f.name]),
             Len(Unknown(codec, m)), codec.types[type].size)

-----------------------------------------------------------------------------
(* Marshalling: the buffer is allocated from Size and filled from its end. *)

EncodeVarint[v \in Nat] ==
    IF v < 128 THEN <<v>> ELSE <<128 + (v % 128)>> \o EncodeVarint[v \div 128]

Delimited(tag, bytes) == <<tag>> \o EncodeVarint[Len(bytes)] \o bytes

ScalarBytes(f, v) ==
    IF ~Present(f, v) THEN <<>>
    ELSE CASE f.kind \in {"string", "bytes"} -> Delimited(f.tag, v)
           [] f.kind \in {"int32", "uint64"} -> <<f.tag>> \o EncodeVarint[Word(v)]
           [] f.kind = "bool" -> <<f.tag, 1>>

LeafWritten(codec, type, m) ==
    FoldLeft(LAMBDA bytes, f : ScalarBytes(f, m[f.name]) \o bytes,
             Unknown(codec, m), codec.types[type].marshal)

\* gogoproto returns the first n bytes of the buffer, n the number it wrote;
\* pulsar returns the buffer.
Buffer(codec, size, written) ==
    LET slack == size - Len(written)
        buffer == [i \in 1 .. slack |-> 0] \o written
    IN  CASE slack < 0 -> Panicked
          [] slack >= 0 /\ codec.pulsar -> buffer
          [] slack >= 0 /\ ~codec.pulsar -> SubSeq(buffer, 1, Len(written))

\* A pulsar message is marshalled into a buffer of its own and copied, a
\* gogoproto one is written into the buffer of the message around it.
Body(codec, type, m) ==
    IF codec.pulsar
    THEN Buffer(codec, LeafSize(codec, type, m), LeafWritten(codec, type, m))
    ELSE LeafWritten(codec, type, m)

FieldBytes(codec, f, v) ==
    CASE f.kind = "nested" -> Delimited(f.tag, Body(codec, f.sub, v))
      [] f.kind \in {"pointer", "list"} ->
            FoldLeft(LAMBDA bytes, e : bytes \o Delimited(f.tag, Body(codec, f.sub, e)), <<>>, v)
      [] OTHER -> ScalarBytes(f, v)

Written(codec, type, m) ==
    FoldLeft(LAMBDA bytes, f : FieldBytes(codec, f, m[f.name]) \o bytes,
             Unknown(codec, m), codec.types[type].marshal)

Marshal(codec, type, m) == Buffer(codec, Size(codec, type, m), Written(codec, type, m))

-----------------------------------------------------------------------------
(* Unmarshalling.  i is the iNdEx of the code, the bytes read so far.      *)

MaxVarint == (WordBits + 6) \div 7

\* The bits beyond the width are lost.
VarintEnd(varint) ==
    IF ~varint.ok THEN Refused
    ELSE [ok |-> TRUE, value |-> Word(varint.value), next |-> varint.next]

\* The loop "for shift := 0; ; shift += 7": overflow once shift reaches the
\* width of a word, end of input, or the value and the next index.
ReadVarint(s, i) ==
    LET Here(room) == i + (MaxVarint - room) + 1
        rest[room \in 0 .. MaxVarint] ==
            IF room = 0 \/ Here(room) > Len(s) THEN Refused
            ELSE IF s[Here(room)] < 128
            THEN [ok |-> TRUE, value |-> s[Here(room)], next |-> Here(room)]
            ELSE LET tail == rest[room - 1]
                 IN  IF ~tail.ok THEN Refused
                     ELSE [ok |-> TRUE, value |-> (s[Here(room)] - 128) + 128 * tail.value,
                           next |-> tail.next]
    IN  VarintEnd(rest[MaxVarint])

BlockFrom(s, len) ==
    LET size == Signed(len.value, WordSize)
        postIndex == Signed(len.next + size, WordSize)
    IN  IF ~len.ok \/ size < 0 \/ postIndex < 0 \/ postIndex > Len(s)
        THEN Refused
        ELSE [ok |-> TRUE, bytes |-> SubSeq(s, len.next + 1, postIndex), next |-> postIndex]

\* A length and as many bytes: where they begin and end.
ReadBlock(s, i) == BlockFrom(s, ReadVarint(s, i))

\* The loop of skip returns once no group is open.
Onward(next, depth) ==
    IF Signed(next, WordSize) < 0 THEN Refused
    ELSE [ok |-> TRUE, next |-> next, depth |-> depth, done |-> depth = 0]

\* The switch over the wire type; len is the varint behind the tag.
SkipCase(wire, len, depth) ==
    LET wireType == wire.value % 8
    IN  CASE wireType = 0 /\ len.ok -> Onward(len.next, depth)
          [] wireType = 1 -> Onward(wire.next + 8, depth)
          [] wireType = 2 /\ len.ok /\ Signed(len.value, WordSize) >= 0 ->
               Onward(len.next + len.value, depth)
          [] wireType = 3 -> Onward(wire.next, depth + 1)
          [] wireType = 4 /\ depth > 0 -> Onward(wire.next, depth - 1)
          [] wireType = 5 -> Onward(wire.next + 4, depth)
          [] OTHER -> Refused

\* One round of the loop of skip.
SkipRound(s, st) ==
    LET wire == ReadVarint(s, st.next)
    IN  IF ~st.ok \/ st.done THEN st
        ELSE IF st.next >= Len(s) \/ ~wire.ok THEN Refused
        ELSE SkipCase(wire, ReadVarint(s, wire.next), st.depth)

\* The input must not end inside a group.
SkipEnd(st) == IF st.ok /\ st.done THEN st ELSE Refused

\* The end of the field that begins at i, over nested groups; it may lie
\* beyond the input, which the caller checks.
Skip(s, i) ==
    LET after[n \in 0 .. Len(s)] ==
            IF n = 0 THEN [ok |-> TRUE, next |-> i, depth |-> 0, done |-> FALSE]
            ELSE SkipRound(s, after[n - 1])
    IN  SkipEnd(after[CHOOSE n \in 0 .. Len(s) : n = Len(s) \/ ~after[n].ok \/ after[n].done])

TagFrom(wire) ==
    LET fieldNum == Signed(wire.value \div 8, IntSize)
        wireType == wire.value % 8
    IN  IF ~wire.ok \/ wireType = 4 \/ fieldNum <= 0 THEN Refused
        ELSE [ok |-> TRUE, fieldNum |-> fieldNum, wireType |-> wireType, next |-> wire.next]

\* The number and the wire type of the field that begins at i.
ReadTag(s, i) == TagFrom(ReadVarint(s, i))

\* A varint or a block of the wrong wire type is refused.
BytesCase(wireType, block) ==
    IF wireType # 2 \/ ~block.ok THEN Refused
    ELSE [ok |-> TRUE, next |-> block.next, value |-> block.bytes]

NumberCase(f, wireType, varint) ==
    IF wireType # 0 \/ ~varint.ok THEN Refused
    ELSE [ok |-> TRUE, next |-> varint.next,
          value |-> CASE f.kind = "int32" -> Signed(varint.value, IntSize)
                      [] f.kind = "uint64" -> varint.value
                      [] f.kind = "bool" -> varint.value # 0]

\* One case of the switch: the new value of the field, and the next index.
ReadScalar(f, wireType, s, i) ==
    IF f.kind \in {"string", "bytes"} THEN BytesCase(wireType, ReadBlock(s, i))
    ELSE NumberCase(f, wireType, ReadVarint(s, i))

\* The loop has ended in state st.
Ended(s, st) == ~st.ok \/ st.next >= Len(s)

\* The state after the last round.
LoopEnd(s, after) == after[CHOOSE n \in 0 .. Len(s) : n = Len(s) \/ Ended(s, after[n])]

\* The default of the switch: the field is skipped, and kept by pulsar.
DefaultCase(codec, s, st, end) ==
    LET keep == IF codec.pulsar
                THEN [st.msg EXCEPT !["unknownFields"] = @ \o SubSeq(s, st.next + 1, end.next)]
                ELSE st.msg
    IN  IF ~end.ok \/ end.next > Len(s) THEN Refused
        ELSE [ok |-> TRUE, next |-> end.next, msg |-> keep]

\* One round of the loop "for iNdEx < l": read is what the case of the field
\* returns.
Round(codec, type, s, st, tag, read) ==
    LET cases == codec.types[type].unmarshal
    IN  IF Ended(s, st) THEN st
        ELSE IF ~tag.ok THEN Refused
        ELSE IF tag.fieldNum \in DOMAIN cases
             THEN IF ~read.ok THEN Refused
                  ELSE [ok |-> TRUE, next |-> read.next,
                        msg |-> [st.msg EXCEPT ![cases[tag.fieldNum].name] = read.value]]
        ELSE DefaultCase(codec, s, st, Skip(s, st.next))

LeafRound(codec, type, s, st) ==
    LET tag == ReadTag(s, st.next)
        f == codec.types[type].unmarshal[tag.fieldNum]
    IN  Round(codec, type, s, st, tag, ReadScalar(f, tag.wireType, s, tag.next))

\* Every round reads at least one byte.
LeafUnmarshal(codec, type, m, s) ==
    LET after[n \in 0 .. Len(s)] ==
            IF n = 0 THEN [ok |-> TRUE, next |-> 0, msg |-> m]
            ELSE LeafRound(codec, type, s, after[n - 1])
    IN  LoopEnd(s, after)

\* Scalars are overwritten, messages merged into, lists extended.
NestedCase(f, wireType, old, block, inner) ==
    IF wireType # 2 \/ ~block.ok THEN Refused
    ELSE IF ~inner.ok THEN Refused
    ELSE [ok |-> TRUE, next |-> block.next,
          value |-> CASE f.kind = "nested" -> inner.msg
                      [] f.kind = "pointer" -> <<inner.msg>>
                      [] f.kind = "list" -> Append(old, inner.msg)]

\* The case of a field that holds messages.
ReadMessage(codec, f, wireType, old, s, i) ==
    LET block == ReadBlock(s, i)
        target == CASE f.kind = "nested" -> old
                    [] f.kind = "pointer" /\ Len(old) > 0 -> old[1]
                    [] OTHER -> LeafNew(codec, f.sub)
    IN  NestedCase(f, wireType, old, block,
                    LeafUnmarshal(codec, f.sub, target, block.bytes))

MessageRound(codec, type, s, st) ==
    LET tag == ReadTag(s, st.next)
        f == codec.types[type].unmarshal[tag.fieldNum]
    IN  Round(codec, type, s, st, tag,
              IF f.kind \in {"nested", "pointer", "list"}
              THEN ReadMessage(codec, f, tag.wireType, st.msg[f.name], s, tag.next)
              ELSE ReadScalar(f, tag.wireType, s, tag.next))

Unmarshal(codec, type, s) ==
    LET after[n \in 0 .. Len(s)] ==
            IF n = 0 THEN [ok |-> TRUE, next |-> 0, msg |-> New(codec, type)]
            ELSE MessageRound(codec, type, s, after[n - 1])
    IN  LoopEnd(s, after)
=============================================================================
