------------------------------- MODULE Varint -------------------------------
(***************************************************************************)
(* Unsigned LEB128, the integers of the wire format.                       *)
(*                                                                         *)
(* The code has seven data bits in a byte, words of 64 bits, and so at     *)
(* most ten bytes in a varint, the last of which carries one bit.  The     *)
(* three numbers are parameters here, for small instances: with digits     *)
(* 0 .. 7 and words 0 .. 127 three bytes suffice, and the third carries    *)
(* one bit.  A byte is a digit, plus Base when more bytes follow.          *)
(***************************************************************************)
EXTENDS Integers, Sequences, FiniteSetsExt

CONSTANTS
  Base,            \* 128: the values of the data bits of a byte
  MaxVarintBytes,  \* MAX_VARINT_BYTES: 10
  Word             \* 2^64: the values of a u64

ASSUME VarintAssumption ==
  /\ Base \in Nat \ {0, 1}
  /\ MaxVarintBytes \in Nat \ {0}
  /\ Word \in Nat \ {0}

Byte == 0 .. 2 * Base - 1

Digit(byte) == byte % Base
Continues(byte) == byte >= Base

\* A result of a decoding function: a value and the bytes it took, or an error.
Ok(value, n) == [error |-> "none", value |-> value, n |-> n]
Err(error) == [error |-> error]
Failed(r) == r.error # "none"

\* The bytes of buf from its n-th on, counted from zero: &buf[n..].
From(buf, n) == SubSeq(buf, n + 1, Len(buf))

-----------------------------------------------------------------------------
\* encode_varint: the low digit first, with the continuation bit while some remain.
EncodeVarint[v \in Nat] ==
  IF v < Base THEN <<v>> ELSE <<Base + Digit(v)>> \o EncodeVarint[v \div Base]

\* Every word fits into a varint.
ASSUME VarintsFit == \A v \in 0 .. Word - 1 : Len(EncodeVarint[v]) <= MaxVarintBytes

\* The number whose digits the first n bytes carry, cut to a word: what
\* result |= data << shift leaves, as a shift drops the bits above the word.
ValueOf(buf, n) ==
  LET from[i \in 1 .. n + 1] == IF i > n THEN 0 ELSE Digit(buf[i]) + Base * from[i + 1]
  IN  from[1] % Word

\* decode_varint: up to the first byte without continuation bit.
DecodeVarint(buf) ==
  LET last == {i \in 1 .. Len(buf) : ~Continues(buf[i])} IN
  IF last # {} /\ Min(last) <= MaxVarintBytes THEN Ok(ValueOf(buf, Min(last)), Min(last))
  ELSE Err(IF Len(buf) > MaxVarintBytes THEN "VarintTooLong" ELSE "UnexpectedEof")

\* StreamingDecoder::read_varint: byte by byte, refusing the last byte it has room for
\* when that says that more follow.
StreamVarint(buf) ==
  LET last == {i \in 1 .. Len(buf) : ~Continues(buf[i])} IN
  IF last # {} /\ Min(last) <= MaxVarintBytes THEN Ok(ValueOf(buf, Min(last)), Min(last))
  ELSE Err(IF Len(buf) >= MaxVarintBytes THEN "VarintTooLong" ELSE "Io")
=============================================================================
