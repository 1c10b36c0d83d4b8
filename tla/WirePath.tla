------------------------------- MODULE WirePath -------------------------------
(***************************************************************************)
(* A message on its way between two programs that were compiled from the   *)
(* same .proto files by two compilers.  The command line fills a pulsar    *)
(* message through proto reflection and marshals it; the node's handlers   *)
(* read the gogoproto message, its signer lookup the pulsar one, from the  *)
(* same bytes.  Answers, stored records and genesis go the other way.  The *)
(* bytes may also come from other encoders: cut short, followed by a       *)
(* second encoding of the same type, with a field of a later version, or   *)
(* with a field whose number, wire type or content is arbitrary.           *)
(*                                                                         *)
(* MsgCreateDenom and MsgUpdateParams go all the way: the handler stores   *)
(* the record, the query reads it back, and the command line shows the     *)
(* answer.                                                                 *)
(***************************************************************************)
EXTENDS ProtoWire

CONSTANTS
    Nil,          \* no bytes, no answer
    Packages,     \* the proto packages whose messages are sent
    LongString,   \* the length of the longest string that is sent
    MaxOps,       \* reflection calls or assignments that fill one message
    MaxChangedOps \* as many on a message whose bytes are changed on the way

ASSUME LongStringAssumption == LongString \in Nat

PbT == INSTANCE PbTokenfactory
PbM == INSTANCE PbMedasdigital
PulsarT == INSTANCE PulsarTokenfactory
PulsarM == INSTANCE PulsarMedasdigital

VARIABLES
    package,   \* the package of the message's type
    type,      \* its name
    sender,    \* "client" (a pulsar message) or "node" (a gogoproto message)
    draft,     \* the message while the sender fills it
    ops,       \* the calls made on it
    wire,      \* its bytes, Nil before they are sent
    source,    \* where the bytes come from: "sender", or how they were changed
    got,       \* what each decoder made of them, Nil before they arrive
    stored,    \* the bytes under the key of the denom or of the parameters,
               \* Nil when there are none
    reply      \* the bytes of the answer to the query, Nil before it

vars == <<package, type, sender, draft, ops, wire, source, got, stored, reply>>

Pb(p) ==
    [pulsar |-> FALSE, types |-> IF p = "tokenfactory" THEN PbT!Types ELSE PbM!Types]

Pulsar(p) ==
    [pulsar |-> TRUE, types |-> IF p = "tokenfactory" THEN PulsarT!Types ELSE PulsarM!Types]

Codec(p, side) == IF side = "client" THEN Pulsar(p) ELSE Pb(p)

Ranges(p) == IF p = "tokenfactory" THEN PulsarT!Ranges ELSE PulsarM!Ranges

\* What the node sends, stores or exports.  Programs that import the api module
\* may fill and send any message.
NodeTypes == {"MsgUpdateParamsResponse", "MsgCreateDenomResponse", "MsgUpdateDenomResponse",
    "MsgDeleteDenomResponse", "QueryParamsResponse", "QueryGetDenomResponse",
    "QueryAllDenomResponse", "Params", "Denom", "GenesisState"}

\* The module configuration exists as a pulsar message only.
Readers(p, t) == IF t \in DOMAIN Pb(p).types THEN {"client", "node"} ELSE {"client"}

-----------------------------------------------------------------------------
(* What the fields are filled with.                                        *)

Text == <<97>>
LongText == [i \in 1 .. LongString |-> 97]

SampleScalar(f) ==
    CASE f.kind \in {"string", "bytes"} -> Text
      [] f.kind = "int32" -> -1
      [] f.kind = "uint64" -> WordSize \div 2
      [] f.kind = "bool" -> TRUE

LeafFilled(codec, t) ==
    [n \in AllNames(codec, t) |->
        IF n \in Names(codec, t) THEN SampleScalar(FieldNamed(codec, t, n)) ELSE <<>>]

Sample(codec, f) ==
    CASE f.kind = "nested" -> LeafFilled(codec, f.sub)
      [] f.kind = "pointer" -> <<LeafFilled(codec, f.sub)>>
      [] f.kind = "list" -> <<LeafFilled(codec, f.sub), LeafNew(codec, f.sub)>>
      [] OTHER -> SampleScalar(f)

\* A message with every field set.
Filled(codec, t) ==
    [n \in AllNames(codec, t) |->
        IF n \in Names(codec, t) THEN Sample(codec, FieldNamed(codec, t, n)) ELSE <<>>]

Values(codec, f) ==
    CASE f.kind \in {"string", "bytes"} -> {Text, LongText}
      [] f.kind = "int32" -> {1, (IntSize \div 2) - 1, -1, -(IntSize \div 2)}
      [] f.kind = "uint64" -> {1, WordSize - 1}
      [] f.kind = "bool" -> BOOLEAN
      [] f.kind = "nested" -> {LeafNew(codec, f.sub), LeafFilled(codec, f.sub)}
      [] f.kind = "pointer" -> {<<LeafNew(codec, f.sub)>>, <<LeafFilled(codec, f.sub)>>}
      [] f.kind = "list" -> {<<>>, <<LeafFilled(codec, f.sub)>>}

\* Fields of a later version of a message, of every wire type: number 15 as a
\* varint, eight bytes, a block, a group around a varint, and four bytes.
LaterFields ==
    {<<\h78, 1>>, <<\h79>> \o [i \in 1 .. 8 |-> 0], <<\h7A, 1, 97>>,
     <<\h7B, \h08, 1, \h7C>>, <<\h7D>> \o [i \in 1 .. 4 |-> 0]}

ForeignField(number, wireType, content) == <<8 * number + wireType>> \o content

\* A field with number 0, one that the messages use for fields of each kind, or the
\* first one that none uses; any of the eight wire types; and a content that ends
\* early, fits, has a negative length, does not fit into a word or never ends.
ForeignFields ==
    {ForeignField(number, wireType, content) :
        number \in {0, 1, 2, 5, 8, 10}, wireType \in 0 .. 7,
        content \in {<<>>, <<1, 97>>, <<127>>, <<128, 128, 1>>, <<255, 255, 127>>,
                    <<128, 128, 128, 1>>}}

-----------------------------------------------------------------------------
Init ==
    /\ package \in Packages
    /\ type \in DOMAIN Pulsar(package).types \ {"PageRequest", "PageResponse"}
    /\ sender \in {"client"} \cup (IF type \in NodeTypes THEN {"node"} ELSE {})
    /\ draft = New(Codec(package, sender), type)
    /\ ops = 0
    /\ wire = Nil /\ source = "sender" /\ got = Nil
    /\ stored = Nil /\ reply = Nil

MayFill == wire = Nil /\ ops < MaxOps

Fill(m) ==
    /\ ops' = ops + 1
    /\ draft' = m
    /\ UNCHANGED <<package, type, sender, wire, source, got, stored, reply>>

DraftFields == Fields(Codec(package, sender), type)

\* Reflection, by the command line.
Set(f, v) == sender = "client" /\ Fill([draft EXCEPT ![f.name] = v])

Clear(f) == sender = "client" /\ Fill([draft EXCEPT ![f.name] = Zero(Pulsar(package), f)])

\* Mutable allocates the message behind a nil pointer; on a scalar it panics.
Mutable(f) ==
    /\ sender = "client"
    /\ f.kind \in {"pointer", "list"}
    /\ Fill(IF f.kind = "pointer" /\ Len(draft[f.name]) = 0
            THEN [draft EXCEPT ![f.name] = <<LeafNew(Pulsar(package), f.sub)>>] ELSE draft)

\* AppendMutable on a list adds a new element.
AppendMutable(f) ==
    /\ sender = "client"
    /\ f.kind = "list"
    /\ Fill([draft EXCEPT ![f.name] = Append(@, LeafNew(Pulsar(package), f.sub))])

\* A positional argument for every field.
SetAll == sender = "client" /\ Fill(Filled(Pulsar(package), type))

\* The node's code fills the struct: one field, or the whole literal.
Assign(f, v) == sender = "node" /\ Fill([draft EXCEPT ![f.name] = v])

AssignAll == sender = "node" /\ Fill(Filled(Pb(package), type))

Send ==
    /\ wire = Nil
    /\ wire' = Marshal(Codec(package, sender), type, draft)
    /\ UNCHANGED <<package, type, sender, draft, ops, source, got, stored, reply>>

OnTheWay == wire # Nil /\ got = Nil

MayChange == OnTheWay /\ source = "sender" /\ ops <= MaxChangedOps

\* The bytes are not the sender's any more.
Change(how, bytes) ==
    /\ source' = how
    /\ wire' = bytes
    /\ UNCHANGED <<package, type, sender, draft, ops, got, stored, reply>>

Cut(n) == Change("cut", SubSeq(wire, 1, n))

Join(m) == Change("joined", wire \o Marshal(Codec(package, sender), type, m))

Later(bytes, front) == Change("later", IF front THEN bytes \o wire ELSE wire \o bytes)

Foreign(bytes, front) == Change("foreign", IF front THEN bytes \o wire ELSE wire \o bytes)

\* Both decoders read the bytes.
Receive ==
    /\ OnTheWay
    /\ got' = [r \in Readers(package, type) |-> Unmarshal(Codec(package, r), type, wire)]
    /\ UNCHANGED <<package, type, sender, draft, ops, wire, source, stored, reply>>

-----------------------------------------------------------------------------
(* The life of a record.                                                   *)

\* Decoder r has read the message without an error.
Accepted(r) == got # Nil /\ r \in DOMAIN got /\ got[r].ok

\* The node stores a record in its gogoproto encoding.
Store(t, record) ==
    /\ stored = Nil
    /\ stored' = Marshal(Pb(package), t, record)
    /\ UNCHANGED <<package, type, sender, draft, ops, wire, source, got, reply>>

\* The node answers a query; MustUnmarshal panics on a record it cannot read.
Answer(t, name, read) ==
    /\ reply = Nil
    /\ reply' = IF ~read.ok THEN Panicked
                ELSE Marshal(Pb(package), t, [n \in {name} |-> read.msg])
    /\ UNCHANGED <<package, type, sender, draft, ops, wire, source, got, stored>>

\* Defect: the two supplies are exchanged.
DenomOfSwapped(msg) == [msg EXCEPT !.MaxSupply = msg.Supply, !.Supply = msg.MaxSupply]

\* The record that the handler makes of the message.
DenomOf(msg) ==
    [Owner |-> msg.Owner, Denom |-> msg.Denom, Description |-> msg.Description,
     Ticker |-> msg.Ticker, Precision |-> msg.Precision, Url |-> msg.Url,
     MaxSupply |-> msg.MaxSupply, Supply |-> msg.Supply,
     CanChangeMaxSupply |-> msg.CanChangeMaxSupply]

CreateDenom ==
    /\ type = "MsgCreateDenom" /\ Accepted("node")
    /\ Store("Denom", DenomOf(got["node"].msg))

QueryDenom ==
    /\ type = "MsgCreateDenom" /\ stored # Nil
    /\ Answer("QueryGetDenomResponse", "Denom", Unmarshal(Pb(package), "Denom", stored))

UpdateParams ==
    /\ type = "MsgUpdateParams" /\ Accepted("node")
    /\ got["node"].msg.Authority = Text
    /\ Store("Params", got["node"].msg.Params)

\* Before the first UpdateParams, GetParams returns the zero value.
QueryParams ==
    /\ type = "MsgUpdateParams"
    /\ Answer("QueryParamsResponse", "Params",
              IF stored = Nil THEN [ok |-> TRUE, msg |-> New(Pb(package), "Params")]
              ELSE Unmarshal(Pb(package), "Params", stored))

Next ==
    \/ /\ MayFill
       /\ \/ \E f \in DraftFields :
                \/ \E v \in Values(Codec(package, sender), f) : Set(f, v) \/ Assign(f, v)
                \/ Clear(f)
                \/ Mutable(f)
                \/ AppendMutable(f)
          \/ SetAll
          \/ AssignAll
    \/ Send
    \/ /\ MayChange
       /\ \/ \E n \in 0 .. Len(wire) - 1 : Cut(n)
          \/ \E m \in {New(Codec(package, sender), type), Filled(Codec(package, sender), type)} :
                Join(m)
          \/ \E bytes \in LaterFields, front \in BOOLEAN : Later(bytes, front)
          \/ \E bytes \in ForeignFields, front \in BOOLEAN : Foreign(bytes, front)
    \/ Receive
    \/ CreateDenom
    \/ QueryDenom
    \/ UpdateParams
    \/ QueryParams

Spec == Init /\ [][Next]_vars

-----------------------------------------------------------------------------
(* Properties.                                                             *)

LeafAsStruct(p, t, m) == [n \in Names(Pb(p), t) |-> m[n]]

\* The value of a gogoproto field for the value of the pulsar field: an absent
\* message that the struct holds by value is an empty one.
AsValue(p, f, v) ==
    CASE f.kind = "nested" ->
            IF Len(v) = 0 THEN LeafNew(Pb(p), f.sub) ELSE LeafAsStruct(p, f.sub, v[1])
      [] f.kind \in {"pointer", "list"} ->
            [i \in 1 .. Len(v) |-> LeafAsStruct(p, f.sub, v[i])]
      [] OTHER -> v

\* The gogoproto message with the content of the pulsar message m; fields that
\* are not known are gone.
AsStruct(p, t, m) ==
    [n \in Names(Pb(p), t) |-> AsValue(p, FieldNamed(Pb(p), t, n), m[n])]

(***************************************************************************)
(* The message whose signer is checked (pulsar) is the message that is     *)
(* executed (gogoproto): on any bytes, whole, cut, joined or of a later    *)
(* version, both decoders refuse or both read the same content.            *)
(***************************************************************************)
DecodersAgree ==
    (got # Nil /\ "node" \in DOMAIN got) =>
        /\ Accepted("client") <=> Accepted("node")
        /\ Accepted("node") => got["node"].msg = AsStruct(package, type, got["client"].msg)

(***************************************************************************)
(* What the sender's encoder wrote, with the buffer sized beforehand and   *)
(* filled from its end, the sender's own decoder reads back exactly;       *)
(* negative numbers, long strings and nested messages included.            *)
(***************************************************************************)
Delivered ==
    (source = "sender" /\ got # Nil) =>
        /\ -1 \notin Range(wire)
        /\ got[sender].ok /\ got[sender].msg = draft

(***************************************************************************)
(* A pulsar program that passes a message on (sign, broadcast, relay)      *)
(* neither drops nor invents bytes: the sender's encoding, and as much of  *)
(* it as was accepted after a cut, comes out as it came in, and fields of  *)
(* a later version go with it, even when they were met first.              *)
(***************************************************************************)
RelayedWhole ==
    Accepted("client") =>
        LET again == Marshal(Pulsar(package), type, got["client"].msg)
        IN  /\ source \in {"sender", "cut"} => again = wire
            /\ source = "later" => Len(again) = Len(wire)
            /\ Unmarshal(Pulsar(package), type, again).ok
            /\ Unmarshal(Pulsar(package), type, again).msg = got["client"].msg

\* The numbers of the fields of an encoding: it is walked from field to field.
FieldNumbers(s) ==
    LET after[n \in 0 .. Len(s)] ==
            IF n = 0 THEN [next |-> 0, numbers |-> {}]
            ELSE LET st == after[n - 1]
                 IN  IF st.next >= Len(s) THEN st
                     ELSE [next |-> Skip(s, st.next).next,
                           numbers |-> st.numbers \cup {ReadVarint(s, st.next).value \div 8}]
        rounds == CHOOSE n \in 0 .. Len(s) : n = Len(s) \/ after[n].next >= Len(s)
    IN  after[rounds].numbers

(***************************************************************************)
(* The fields that reflection reports as set (Has, Range: what the command *)
(* line prints and what the signer lookup sees) are the fields on the      *)
(* wire, under the numbers from which the decoder takes them.              *)
(***************************************************************************)
SetIsOnTheWire ==
    (source = "sender" /\ sender = "client" /\ Accepted("client")) =>
        LET cases == Pulsar(package).types[type].unmarshal
            has == {f \in Range(Ranges(package)[type]) : Present(f, draft[f.name])}
        IN  FieldNumbers(wire) = {i \in DOMAIN cases : cases[i] \in has}

(***************************************************************************)
(* A created denom is shown as it was entered: through the command line's  *)
(* encoder, the node's decoder, the handler, the store, the query and back *)
(* through the other pair of encoder and decoder.  Whatever was received   *)
(* and stored, the answer can be read, and parameters are never absent     *)
(* from it.                                                                *)
(***************************************************************************)
ShownAsCreated ==
    reply # Nil =>
        LET query == IF type = "MsgCreateDenom" THEN "QueryGetDenomResponse"
                     ELSE "QueryParamsResponse"
            shown == Unmarshal(Pulsar(package), query, reply)
        IN  /\ shown.ok
            /\ type = "MsgUpdateParams" => shown.msg["Params"] # <<>>
            /\ (type = "MsgCreateDenom" /\ source = "sender") =>
                    \A f \in DraftFields : shown.msg["Denom"][1][f.name] = draft[f.name]
=============================================================================
