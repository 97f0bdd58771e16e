------------------------------- MODULE Fields -------------------------------
(***************************************************************************)
(* The TLV fields of a block body: field id, wire type, payload.           *)
(***************************************************************************)
EXTENDS Varint

\* FieldWireType.
Scalar == 0
Bytes == 1
Nested == 2
WireType == {Scalar, Bytes, Nested}

EncodeVarintField(id, value) == EncodeVarint[id] \o EncodeVarint[Scalar] \o EncodeVarint[value]

EncodeBytesField(id, data) ==
  EncodeVarint[id] \o EncodeVarint[Bytes] \o EncodeVarint[Len(data)] \o data

EncodeNestedField(id, data) ==
  EncodeVarint[id] \o EncodeVarint[Nested] \o EncodeVarint[Len(data)] \o data

-----------------------------------------------------------------------------
\* decode_field_header, with FieldWireType::from_raw.
DecodeFieldHeader(buf) ==
  LET id == DecodeVarint(buf) IN
  IF Failed(id) THEN id ELSE
  LET wt == DecodeVarint(From(buf, id.n)) IN
  IF Failed(wt) THEN wt
  ELSE IF wt.value \notin WireType THEN Err("UnknownFieldWireType")
  ELSE Ok([id |-> id.value, wireType |-> wt.value], id.n + wt.n)

\* decode_varint_value is decode_varint.
DecodeVarintValue(buf) == DecodeVarint(buf)

\* Mutation: of a payload that is cut off, what is there is taken.
DecodeBytesValueLenient(buf) ==
  LET len == DecodeVarint(buf) IN
  IF Failed(len) THEN len
  ELSE IF len.n + len.value > Len(buf) THEN Ok(From(buf, len.n), Len(buf))
  ELSE Ok(SubSeq(buf, len.n + 1, len.n + len.value), len.n + len.value)

\* decode_bytes_value: n counts the length prefix too.
DecodeBytesValue(buf) ==
  LET len == DecodeVarint(buf) IN
  IF Failed(len) THEN len
  ELSE IF len.n + len.value > Len(buf) THEN Err("UnexpectedEof")
  ELSE Ok(SubSeq(buf, len.n + 1, len.n + len.value), len.n + len.value)

\* skip_field: what an unknown field takes up, by its wire type.
SkipField(buf, wireType) ==
  IF wireType = Scalar THEN DecodeVarintValue(buf) ELSE DecodeBytesValue(buf)
=============================================================================
