------------------------------- MODULE Decoder -------------------------------
(***************************************************************************)
(* BcpDecoder: decode() and decode_with_store() on a payload held in       *)
(* memory.  The decoder has no state of its own between calls, so each     *)
(* member of Decoders is one call.  It reads the stream one frame at a time *)
(* and asks the content store once per reference frame, so encoders that   *)
(* share the store run in between.                                         *)
(*                                                                         *)
(* A delivery is what reached the decoder of a payload some encoder        *)
(* produced: all of it, a proper prefix, or all of it followed by other    *)
(* bytes.  Behind a zstd stream these may be zstd frames again:            *)
(* zstd::decode_all reads on, and appends what they hold.                  *)
(***************************************************************************)
EXTENDS ContentStore

CONSTANTS
  Decoders,   \* the decode calls
  Damage,     \* what may happen to a payload on its way, of DamageKinds
  Stores      \* the store a call may be given, of StoreKinds

DamageKinds == {"none", "cut", "trailing"}
\* No store (decode), the store the encoders share, or one without its entries.
StoreKinds == {"none", "shared", "other"}

ASSUME DecoderAssumption == Damage \subseteq DamageKinds /\ Stores \subseteq StoreKinds

VARIABLE dec   \* dec[d]: the state of decode call d

Faults == {"InvalidHeader", "DecompressFailed", "DecompressionBomb",
           "MissingContentStore", "UnresolvedReference", "Wire",
           "MissingEndSentinel", "TrailingData"}

Unstarted == [status |-> "idle"]

\* "unzips": zstd::decode_all reads what follows the header to its end; "size" and
\* "items" are then of what it returns.
Delivery ==
  [header : BOOLEAN, intact : BOOLEAN, unzips : BOOLEAN, size : Nat, items : Seq(StreamItem)]

DecInit == dec = [d \in Decoders |-> Unstarted]
-----------------------------------------------------------------------------
(* Delivery.                                                               *)

Whole(p) ==
  [header |-> TRUE, intact |-> TRUE, unzips |-> TRUE, size |-> p.size, items |-> p.items]

\* Damaged so that no zstd stream is left.
Damaged(p, header, items) ==
  [header |-> header, intact |-> FALSE, unzips |-> FALSE, size |-> p.size, items |-> items]

\* Followed by zstd frames that hold n bytes.
Extended(p, n, items) ==
  [header |-> TRUE, intact |-> FALSE, unzips |-> TRUE, size |-> p.size + n, items |-> items]

\* The deliveries of payload p under one kind of damage.  A cut ends inside the
\* header, at a frame boundary or inside a frame, and a zstd stream that is cut is
\* none.  A zstd stream may be followed by bytes that are none, by empty or
\* skippable frames, or by frames whose content follows END.
Deliveries(p, damage) ==
  CASE damage = "none" -> {Whole(p)}
    [] damage = "cut" ->
         {Damaged(p, FALSE, <<>>)} \cup
         IF p.compressed THEN {Damaged(p, TRUE, p.items)}
         ELSE UNION {{Damaged(p, TRUE, SubSeq(p.items, 1, k)),
                      Damaged(p, TRUE, Append(SubSeq(p.items, 1, k), CutItem))}
                     : k \in 0 .. Len(p.items) - 1}
    [] damage = "trailing" ->
         IF p.compressed
         THEN {Damaged(p, TRUE, p.items), Extended(p, 0, p.items)} \cup
              {Extended(p, n, Append(p.items, CutItem)) : n \in {1, MaxPayload + 1}}
         ELSE {Damaged(p, TRUE, Append(p.items, CutItem))}
-----------------------------------------------------------------------------
(* decode_block_frame.                                                     *)

\* Stage 1: does the store of the call hold the hash in the frame's body?
Resolvable(f, kind) == kind = "shared" /\ Contains(f.body.data)

\* The body after reference resolution, for a frame whose reference resolves.
Resolved(f) == IF f.reference THEN Plain(Get(f.body.data)) ELSE f.body

\* The body after stage 2, for a frame that has no fault there.
Uncompressed(f) == Resolved(f).data

\* Mutation: the limit itself is rejected.
AtBlockLimit(x) == Len(x) >= MaxBlockBody

\* decompression::decompress against MAX_BLOCK_DECOMPRESSED_SIZE.
OverBlockLimit(x) == Len(x) > MaxBlockBody

\* The first check that rejects the frame, or "none".
FrameFault(f, kind) ==
  IF f.reference /\ kind = "none" THEN "MissingContentStore"
  ELSE IF f.reference /\ f.body.form # "hash" THEN "Wire"
  ELSE IF f.reference /\ ~Resolvable(f, kind) THEN "UnresolvedReference"
  ELSE IF f.compressed /\ Resolved(f).form # "zstd" THEN "DecompressFailed"
  ELSE IF f.compressed /\ OverBlockLimit(Uncompressed(f)) THEN "DecompressionBomb"
  ELSE IF ~f.compressed /\ Resolved(f).form # "plain" THEN "Wire"  \* not TLV
  ELSE IF f.hasSummary /\ Uncompressed(f) = <<>> THEN "Wire"
  ELSE "none"

\* Mutation: the TLV fields are read from the start of the body, summary included.
DecodedFromStart(f) ==
  [type |-> f.type, tlv |-> Uncompressed(f),
   summary |-> IF f.hasSummary THEN Head(Uncompressed(f)) ELSE NoSummary]

\* Stages 3 and 4 on a frame without a fault: summary off the front, then TLV.
DecodedBlock(f) ==
  LET body == Uncompressed(f) IN
  [type |-> f.type,
   tlv |-> IF f.hasSummary THEN Tail(body) ELSE body,
   summary |-> IF f.hasSummary THEN Head(body) ELSE NoSummary]
-----------------------------------------------------------------------------
(* decode_inner.                                                           *)

\* The header, and the decompression of a whole-payload zstd stream.
OpenFault(p, w) ==
  IF ~w.header THEN "InvalidHeader"
  ELSE IF p.compressed /\ ~w.unzips THEN "DecompressFailed"
  ELSE IF p.compressed /\ w.size > MaxPayload THEN "DecompressionBomb"
  ELSE "none"

Open(d, p, w, kind) ==
  /\ dec[d] = Unstarted
  /\ LET fault == OpenFault(p, w) IN
     dec' = [dec EXCEPT ![d] =
       [status |-> IF fault = "none" THEN "reading" ELSE fault,
        sent |-> p, wire |-> w, store |-> kind, blocks |-> <<>>]]
  /\ UNCHANGED store

Reading(d) == dec[d].status = "reading"
Stop(d, status) == dec' = [dec EXCEPT ![d].status = status] /\ UNCHANGED store

\* One frame has been decoded per block so far.
AtItem(d, kind) ==
  /\ Reading(d)
  /\ Len(dec[d].blocks) < Len(dec[d].wire.items)
  /\ dec[d].wire.items[Len(dec[d].blocks) + 1].kind = kind

Item(d) == dec[d].wire.items[Len(dec[d].blocks) + 1]

DecodeFrame(d) ==
  /\ AtItem(d, "block")
  /\ FrameFault(Item(d), dec[d].store) = "none"
  /\ dec' = [dec EXCEPT ![d].blocks = Append(@, DecodedBlock(Item(d)))]
  /\ UNCHANGED store

RejectFrame(d) ==
  /\ AtItem(d, "block")
  /\ FrameFault(Item(d), dec[d].store) # "none"
  /\ Stop(d, FrameFault(Item(d), dec[d].store))

\* UnexpectedEof from BlockFrame::read_from or end_sentinel_size.
RejectCut(d) == AtItem(d, "cut") /\ Stop(d, "Wire")

\* Mutation: whatever follows END is ignored.
ReadEndOnly(d) == AtItem(d, "end") /\ Stop(d, "ok")

\* The END sentinel: nothing may follow it.
ReadEnd(d) ==
  /\ AtItem(d, "end")
  /\ Stop(d, IF Len(dec[d].blocks) + 1 < Len(dec[d].wire.items)
             THEN "TrailingData" ELSE "ok")

\* Mutation: the end of the bytes counts as the end of the blocks.
RunOutAccepts(d) ==
  /\ Reading(d)
  /\ Len(dec[d].blocks) = Len(dec[d].wire.items)
  /\ Stop(d, "ok")

\* Mutation: the decoder waits for more bytes.
RunOutWaits(d) ==
  /\ Reading(d)
  /\ Len(dec[d].blocks) = Len(dec[d].wire.items)
  /\ UNCHANGED <<dec, store>>

\* The bytes end without END.
RunOut(d) ==
  /\ Reading(d)
  /\ Len(dec[d].blocks) = Len(dec[d].wire.items)
  /\ Stop(d, "MissingEndSentinel")

\* The steps of a decode call that has opened its payload.
Decode(d) ==
  DecodeFrame(d) \/ RejectFrame(d) \/ RejectCut(d) \/ ReadEnd(d) \/ RunOut(d)
=============================================================================
