----------------------------- MODULE ProtoFields -----------------------------
(***************************************************************************)
(* The vocabulary of the message tables.  The generated Go code has, for   *)
(* every message and in both of its versions (gogoproto under x/, pulsar   *)
(* under api/), straight-line functions with one block per field; a table  *)
(* is such a function with one descriptor per block, in the order of the   *)
(* blocks.  ProtoWire says what a block of each kind does.                 *)
(***************************************************************************)
EXTENDS Naturals

Field(name, kind, sub) == [name |-> name, kind |-> kind, sub |-> sub]

Str(name) == Field(name, "string", "")
Bytes(name) == Field(name, "bytes", "")
Int32(name) == Field(name, "int32", "")
Uint64(name) == Field(name, "uint64", "")
Bool(name) == Field(name, "bool", "")
Nested(name, sub) == Field(name, "nested", sub)      \* a message held by value
Pointer(name, sub) == Field(name, "pointer", sub)    \* a message behind a pointer
List(name, sub) == Field(name, "list", sub)          \* a slice of messages

\* The block of a marshalling function that writes the byte tag before field f.
At(tag, f) == [tag |-> tag, name |-> f.name, kind |-> f.kind, sub |-> f.sub]

\* What a message type consists of: the fields of its Go struct and the tables
\* of its functions.
Methods(struct, size, marshal, unmarshal) ==
    [struct |-> struct, size |-> size, marshal |-> marshal, unmarshal |-> unmarshal]

-----------------------------------------------------------------------------
(* The pagination messages of the Cosmos SDK, the same in both versions.   *)

PageRequest ==
    LET fields == <<Bytes("Key"), Uint64("Offset"), Uint64("Limit"), Bool("CountTotal"),
                    Bool("Reverse")>>
    IN  Methods(fields, fields,
            <<At(\h28, Bool("Reverse")), At(\h20, Bool("CountTotal")), At(\h18, Uint64("Limit")),
              At(\h10, Uint64("Offset")), At(\hA, Bytes("Key"))>>, fields)

PageResponse ==
    LET fields == <<Bytes("NextKey"), Uint64("Total")>>
    IN  Methods(fields, fields, <<At(\h10, Uint64("Total")), At(\hA, Bytes("NextKey"))>>, fields)
=============================================================================
