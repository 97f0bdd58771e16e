------------------------------ MODULE BcpWire ------------------------------
(***************************************************************************)
(* The vocabulary that the encoder and the decoder of the Bit Context      *)
(* Protocol share: body bytes, wire bodies, block frames and streams.      *)
(*                                                                         *)
(* A byte string is a sequence of atoms, and its length in atoms is its    *)
(* size.  The TLV encoding of a block is any such string; a summary prefix *)
(* (length varint and text) is one atom.  Bytes alone do not say where the *)
(* summary ends: the bodies of <<summary x, TLV y>> and of <<no summary,   *)
(* TLV x y>> are the same string, and only the frame's flags tell.         *)
(*                                                                         *)
(* BLAKE3 and zstd are external.  Hash is any injective function (collision *)
(* freedom); zstd is known by the size of its output and by refusing input *)
(* that it did not produce.                                                *)
(***************************************************************************)
EXTENDS Naturals, Sequences, FiniteSets

CONSTANTS
  Letter,               \* the atoms of payload text (not numbers)
  Bytes,                \* the byte strings that bodies are made of
  TlvBytes,             \* those of them that are TLV encodings of a block
  ContentType,          \* the block types that carry content
  ANNOTATION,           \* the block type of annotations
  NoSummary,            \* the summary field of a block that has none
  HashValue,            \* the 32-byte hash values
  Hash(_),              \* BLAKE3 of a body
  ZSize(_),             \* size of zstd(body)
  HashSize,             \* REFERENCE_BODY_SIZE: 32 bytes
  FrameHead,            \* bytes of a frame before its body
  CompressionThreshold, \* COMPRESSION_THRESHOLD: 256 bytes
  MaxBlockBody,         \* MAX_BLOCK_BODY_SIZE: 16 MiB, on both sides
  MaxPayload            \* MAX_PAYLOAD_DECOMPRESSED_SIZE: 256 MiB

Atom == Letter \cup Nat

ASSUME WireAssumption ==
  /\ Bytes \subseteq Seq(Atom) /\ <<>> \in Bytes
  /\ TlvBytes \subseteq Bytes
  /\ \A s \in Letter, t \in TlvBytes : <<s>> \o t \in Bytes
  /\ NoSummary \notin Atom
  /\ ANNOTATION \notin ContentType
  /\ \A x \in Bytes : ZSize(x) \in Nat /\ Hash(x) \in HashValue
  /\ HashSize \in Nat /\ FrameHead \in Nat
  /\ CompressionThreshold \in Nat /\ MaxBlockBody \in Nat /\ MaxPayload \in Nat

\* Collision freedom, the assumption content addressing rests on.
ASSUME HashInjective == \A x, y \in Bytes : Hash(x) = Hash(y) => x = y
-----------------------------------------------------------------------------
(* Blocks as the caller means them, and the body a block serializes to.   *)

Types == ContentType \cup {ANNOTATION}

Block == [type : Types, tlv : TlvBytes, summary : Letter \cup {NoSummary}]

HasSummary(b) == b.summary # NoSummary

\* serialize_block_body without the size check: summary first, then TLV fields.
Body(b) == IF HasSummary(b) THEN <<b.summary>> \o b.tlv ELSE b.tlv
-----------------------------------------------------------------------------
(* What the body of a frame holds: plain bytes, the hash of stored bytes,  *)
(* or a zstd frame.  The decoder never sees "form" directly; it guesses it *)
(* from the flags, and fails the way zstd or a length check fails when the *)
(* guess is wrong.                                                         *)

Plain(x) == [form |-> "plain", data |-> x]
HashOf(x) == [form |-> "hash", data |-> Hash(x)]
Zstd(x) == [form |-> "zstd", data |-> x]

WireBody == [form : {"plain", "zstd"}, data : Bytes]
              \cup [form : {"hash"}, data : HashValue]

\* compression::compress returns Some only when the output is smaller.
Shrinks(x) == ZSize(x) < Len(x)

WireSize(w) ==
  CASE w.form = "plain" -> Len(w.data)
    [] w.form = "hash"  -> HashSize
    [] w.form = "zstd"  -> ZSize(w.data)

\* A block frame; the three flags are the bits of BlockFlags.
FrameOf(type, hasSummary, reference, compressed, w) ==
  [kind |-> "block", type |-> type, hasSummary |-> hasSummary,
   reference |-> reference, compressed |-> compressed, body |-> w]

Frame == [kind : {"block"}, type : Types, hasSummary : BOOLEAN,
          reference : BOOLEAN, compressed : BOOLEAN, body : WireBody]

FrameSize(f) == FrameHead + WireSize(f.body)

\* Stream items that are not blocks: the END sentinel, and a frame (or END)
\* of which only the first bytes arrived.
EndItem == [kind |-> "end"]
CutItem == [kind |-> "cut"]
StreamItem == Frame \cup {EndItem, CutItem}
=============================================================================
