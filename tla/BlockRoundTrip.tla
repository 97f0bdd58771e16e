--------------------------- MODULE BlockRoundTrip ---------------------------
(***************************************************************************)
(* A block is encoded, its body decoded, and what was decoded is encoded   *)
(* and decoded once more.                                                  *)
(*                                                                         *)
(* Between the first encoder and the decoder a body may change in the ways *)
(* that the format allows or that lose or damage it: another producer      *)
(* writes the fields in another order, or twice, or writes fields of a     *)
(* later version or numbers in more bytes than they need; the end is cut   *)
(* off; a number is too large for its type; or a body is fields in any     *)
(* order and number, some of them not whole.                               *)
(***************************************************************************)
EXTENDS TlvDecoder

CONSTANTS
  Blocks,         \* a sequence of the blocks that are sent: type, summary and value
  UnknownFields,  \* fields that no schema has: id, wire type and payload
  Changes,        \* which of the changes below happen
  Noise           \* bodies that nobody meant

\* The blocks are those that frames carry; a field that no schema has is a field anyway;
\* lengths are words.
ASSUME RoundTripAssumption ==
  /\ Untyped \subseteq {"End", "Unknown"}
  /\ \A k \in DOMAIN Blocks :
       LET b == Blocks[k] IN
       /\ b.summary # None => b.summary \in Texts
       /\ \/ b.type \in Untyped /\ b.value \in Seq(Byte) /\ (b.type = "End" => b.value = <<>>)
          \/ b.type \in DOMAIN Schema \ {"FileEntry", "DiffHunk"} /\ IsBlock(b.type, b.value)
  /\ \A f \in UnknownFields :
       /\ f.id \in 0 .. Word - 1 /\ \A t \in DOMAIN Schema : f.id \notin FieldIds(t)
       /\ \/ f.wireType = Scalar /\ f.payload \in 0 .. Word - 1
          \/ f.wireType \in {Bytes, Nested} /\ f.payload \in Seq(Byte) /\ Len(f.payload) < Word
  /\ Changes \subseteq {"none", "moved", "extended", "repeated", "padded", "cut", "widened",
                        "retyped", "noise"}
  /\ Noise \subseteq Seq(Byte) /\ \A b \in Noise : Len(b) < Word

\* The last byte of a varint has room for one bit more than a word has.
ASSUME RoomForMore == \A v \in 0 .. 2 * Word - 1 : Len(EncodeVarint[v]) <= MaxVarintBytes

VARIABLES
  sent,           \* the summary and value sent
  change,         \* what happened to the body
  first           \* once the second pass has begun, what was decoded first

vars == <<type, flagged, body, stack, status, summary, result, sent, change, first>>
-----------------------------------------------------------------------------
(* encode_body.                                                            *)

\* The encodings of one field: none for None, one for each element of a list.
FieldParts(field, id, value, nested) ==
  IF field.kind = "list"
  THEN [i \in DOMAIN value |-> EncodeNestedField(id, nested[field.arg][value[i]])]
  ELSE IF value = None THEN <<>>
  ELSE IF IsNumber(field.kind) THEN <<EncodeVarintField(id, value)>>
  ELSE <<EncodeBytesField(id, value)>>

\* Mutation: optional texts are not written.
PartsOmit(t, value, nested) ==
  FlattenSeq([id \in FieldIds(t) |->
                IF Schema[t][id].kind = "text" /\ ~Schema[t][id].required THEN <<>>
                ELSE FieldParts(Schema[t][id], id, value[id], nested)])

\* The encodings of the fields of a block, in the order of their ids; nested encodes the
\* blocks within it.
Parts(t, value, nested) ==
  FlattenSeq([id \in FieldIds(t) |-> FieldParts(Schema[t][id], id, value[id], nested)])

\* The encoding of each value in which blocks are nested less than n deep.
Encode[n \in Nat] ==
  [t \in DOMAIN Schema |-> [v \in Values[n][t] |-> FlattenSeq(Parts(t, v, Encode[n - 1]))]]

PartsOf(t, value) == Parts(t, value, Encode[Depth - 1])

EncodeBody(t, value) ==
  CASE t = "End"           -> <<>>
    [] t = "Unknown"       -> value
    [] t \in DOMAIN Schema -> FlattenSeq(PartsOf(t, value))
-----------------------------------------------------------------------------
(* What other producers and a lossy transport make of a body.              *)

IdOf(part) == DecodeVarint(part).value

\* A part moves to the front, past no other part with its id.
Moved(parts) ==
  {<<parts[i]>> \o RemoveAt(parts, i) :
     i \in {j \in DOMAIN parts : \A k \in 1 .. j - 1 : IdOf(parts[k]) # IdOf(parts[j])}}

EncodeField(f) ==
  IF f.wireType = Scalar THEN EncodeVarintField(f.id, f.payload)
  ELSE IF f.wireType = Bytes THEN EncodeBytesField(f.id, f.payload)
  ELSE EncodeNestedField(f.id, f.payload)

Extended(parts) ==
  {InsertAt(parts, i, EncodeField(u)) : i \in 1 .. Len(parts) + 1, u \in UnknownFields}

\* Before a field that is not repeated, the same field of another block of the type.
Repeated(t, parts) ==
  {InsertAt(parts, 1, p) :
     p \in {q \in UNION {ToSet(PartsOf(t, Blocks[k].value)) : k \in {j \in DOMAIN Blocks : Blocks[j].type = t}} :
              /\ Schema[t][IdOf(q)].kind # "list"
              /\ \E i \in DOMAIN parts : IdOf(parts[i]) = IdOf(q)}}

\* An enum is given a value larger than a byte.
Widened(t, parts) ==
  {ReplaceAt(parts, i, EncodeVarintField(IdOf(parts[i]), ByteWidth + 1)) :
     i \in {j \in DOMAIN parts : Schema[t][IdOf(parts[j])].kind = "enum"}}

\* A number in as many bytes as a varint may have: zeros behind its digits.
InFull(v) ==
  [i \in 1 .. MaxVarintBytes |->
     Digit(IF i <= Len(EncodeVarint[v]) THEN EncodeVarint[v][i] ELSE 0)
       + (IF i < MaxVarintBytes THEN Base ELSE 0)]

\* A number takes more bytes than it needs, or is larger than a word, of which
\* decode_varint keeps the low bits.
Padded(t, value, parts) ==
  {ReplaceAt(parts, i, EncodeVarint[IdOf(parts[i])] \o EncodeVarint[Scalar]
                         \o InFull(value[IdOf(parts[i])] + more)) :
     i \in {j \in DOMAIN parts : IsNumber(Schema[t][IdOf(parts[j])].kind)}, more \in {0, Word}}

\* A number that the block must have is written as a bytes field.
Retyped(t, parts) ==
  {ReplaceAt(parts, i, EncodeBytesField(IdOf(parts[i]), <<>>)) :
     i \in {j \in DOMAIN parts : LET f == Schema[t][IdOf(parts[j])] IN
                                  f.required /\ IsNumber(f.kind) /\ f.kind # "size"}}

\* The bodies that the decoder gets, after their summary.
Bodies(t, value, c) ==
  LET parts == IF t \in DOMAIN Schema THEN PartsOf(t, value) ELSE <<>> IN
  CASE c = "none"     -> {EncodeBody(t, value)}
    [] c = "moved"    -> {FlattenSeq(p) : p \in Moved(parts)}
    [] c = "extended" -> {FlattenSeq(p) : p \in Extended(parts)}
    [] c = "repeated" -> {FlattenSeq(p) : p \in Repeated(t, parts)}
    [] c = "padded"   -> {FlattenSeq(p) : p \in Padded(t, value, parts)}
    [] c = "cut"      -> {FlattenSeq(parts)}
    [] c = "widened"  -> {FlattenSeq(p) : p \in Widened(t, parts)}
    [] c = "retyped"  -> {FlattenSeq(p) : p \in Retyped(t, parts)}

\* serialize_block_body: the summary first.
WithSummary(text, bytes) == IF text = None THEN bytes ELSE EncodeSummary(text) \o bytes

\* Bound: the length of a body is a word, as it is a usize.
Addressable(bytes) == Len(bytes) < Word

Arriving(t, s, c) ==
  LET whole == {w \in {WithSummary(s.summary, b) : b \in Bodies(t, s.value, c)} : Addressable(w)} IN
  CASE c = "cut"   -> UNION {Prefixes(w) : w \in whole}
    [] c = "noise" -> Noise
    [] OTHER       -> whole

Init ==
  /\ DecoderInit
  /\ \E k \in DOMAIN Blocks :
       /\ type = Blocks[k].type
       /\ sent = [summary |-> Blocks[k].summary, value |-> Blocks[k].value]
  /\ flagged = (sent.summary # None)
  /\ change \in IF type \in Untyped THEN Changes \cap {"none", "noise"} ELSE Changes
  /\ body \in Arriving(type, sent, change)
  /\ first = <<>>

Decode == DecoderNext /\ UNCHANGED <<sent, change, first>>

\* What was decoded is encoded, as by a program that passes blocks on.
PassOn ==
  /\ status = "ok" /\ first = <<>>
  /\ first' = <<[summary |-> summary, value |-> result]>>
  /\ body' = WithSummary(summary, EncodeBody(type, result)) /\ Addressable(body')
  /\ status' = "called" /\ summary' = None /\ result' = <<>>
  /\ UNCHANGED <<type, flagged, stack, sent, change>>

Next == Decode \/ PassOn

Spec == Init /\ [][Next]_vars
-----------------------------------------------------------------------------
Final == status \notin {"called", "stripped", "decoding"}
Got == [summary |-> summary, value |-> result]

\* Whatever the bytes, a decoded block is a value of its type: every required field is
\* there, at every level of nesting, enums are variants, numbers have their width, and
\* texts are UTF-8.
TypeOK ==
  /\ type \in DOMAIN Schema \cup Untyped /\ flagged \in BOOLEAN
  /\ body \in Seq(Byte)
  /\ status = "decoding" <=> stack # <<>>
  /\ summary # None => flagged /\ Lossy(summary) = summary
  /\ status = "ok" /\ type \in DOMAIN Schema => IsBlock(type, result)

\* A body that another producer wrote, in another order, with overwritten fields, with
\* fields of a later version or with overlong numbers, decodes to the block it means, under its summary.
ForwardCompatible ==
  change \in {"none", "moved", "extended", "repeated", "padded"} /\ Final =>
    status = "ok" /\ Got = sent

\* A body that lost its end is refused, or the block lacks optional fields, or the last
\* elements of a list; nothing in it is other than what was sent.
CutShows ==
  change = "cut" /\ status = "ok" /\ type \in DOMAIN Schema =>
    /\ summary = sent.summary
    /\ \A id \in FieldIds(type) :
         \/ result[id] = sent.value[id]
         \/ ~Schema[type][id].required /\ result[id] = None
         \/ Schema[type][id].kind = "list" /\ IsPrefix(result[id], sent.value[id])

\* A block that was decoded, from whatever bytes, survives being encoded and decoded
\* again.
Stable == first # <<>> /\ Final => status = "ok" /\ Got = first[1]
=============================================================================
