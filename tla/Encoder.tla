------------------------------- MODULE Encoder -------------------------------
(***************************************************************************)
(* BcpEncoder: the builder and the encode() pipeline.  Several encoders    *)
(* run concurrently and share one content store through an Arc.            *)
(*                                                                         *)
(* The builder methods take &mut self and encode() takes &self, so no      *)
(* builder call of one encoder falls inside its own encode(); encode()     *)
(* may be called again afterwards.  Inside encode() the steps that touch   *)
(* only local data are grouped around the two that lock the store, contains *)
(* and put, because another encoder may run between them.                  *)
(***************************************************************************)
EXTENDS ContentStore

CONSTANTS
  Encoders,    \* the encoders that share the store
  Calls,       \* the builder methods the callers use, by their source name
  Tlv,         \* the TLV bodies the callers add
  MaxBlocks,   \* bound: blocks in one encoder
  MaxEncodes   \* bound: encode() calls of one encoder, after which it is dropped

\* The TLV fields of a priority annotation: its target's index, from 0, and the
\* priority.
PriorityTlv(target, priority) == <<target, priority>>

ASSUME EncoderAssumption ==
  /\ Tlv \subseteq TlvBytes
  /\ MaxBlocks \in Nat /\ MaxEncodes \in Nat
  /\ \A n \in 0 .. MaxBlocks - 1, p \in Letter : PriorityTlv(n, p) \in TlvBytes

VARIABLES
  blocks,      \* blocks[e]: the PendingBlocks of encoder e
  opts,        \* opts[e]: its encoder-level settings
  job,         \* job[e]: the encode() call in progress, if any
  encodes,     \* encodes[e]: the encode() calls made so far
  payloads     \* what the encode() calls that returned Ok produced

encVars == <<blocks, opts, job, encodes, payloads>>

Options == [compressPayload : BOOLEAN, compressAll : BOOLEAN,
            hasStore : BOOLEAN, autoDedup : BOOLEAN]

Pending == [block : Block, compress : BOOLEAN, address : BOOLEAN]

Job == [pc : {"build", "serialize", "address", "register", "emit"},
        body : WireBody, reference : BOOLEAN, out : Seq(Frame), size : Nat]

Payload == [compressed : BOOLEAN, items : Seq(StreamItem), size : Nat,
            message : Seq(Block), by : Options]

Idle == [pc |-> "build", body |-> Plain(<<>>), reference |-> FALSE,
         out |-> <<>>, size |-> 0]

EncTypeOK ==
  /\ blocks \in [Encoders -> Seq(Pending)]
  /\ opts \in [Encoders -> Options]
  /\ job \in [Encoders -> Job]
  /\ encodes \in [Encoders -> 0 .. MaxEncodes]
  /\ payloads \subseteq Payload

EncInit ==
  /\ blocks = [e \in Encoders |-> <<>>]
  /\ opts = [e \in Encoders |-> [compressPayload |-> FALSE, compressAll |-> FALSE,
                                 hasStore |-> FALSE, autoDedup |-> FALSE]]
  /\ job = [e \in Encoders |-> Idle]
  /\ encodes = [e \in Encoders |-> 0]
  /\ payloads = {}
-----------------------------------------------------------------------------
(* Builder methods.                                                        *)

\* The caller owns the encoder exclusively and calls one of its methods.
Building(e, method) ==
  /\ method \in Calls
  /\ job[e].pc = "build"
  /\ encodes[e] < MaxEncodes

\* push_block: the new block inherits compress_all_blocks.
PushBlock(e, b) ==
  /\ Len(blocks[e]) < MaxBlocks
  /\ blocks' = [blocks EXCEPT ![e] =
       Append(@, [block |-> b, compress |-> opts[e].compressAll, address |-> FALSE])]
  /\ UNCHANGED <<opts, job, encodes, payloads, store>>

\* A modifier acts on blocks.last_mut(); NoBlockTarget without one.
LastPending(e) == blocks[e][Len(blocks[e])]

ReplaceLast(e, p) ==
  /\ blocks[e] # <<>>
  /\ blocks' = [blocks EXCEPT ![e][Len(blocks[e])] = p]
  /\ UNCHANGED <<opts, job, encodes, payloads, store>>

SetOpts(e, o) ==
  /\ opts' = [opts EXCEPT ![e] = o]
  /\ UNCHANGED <<job, encodes, payloads, store>>

AddBlock(e, type, tlv) ==
  /\ Building(e, "add_block")
  /\ PushBlock(e, [type |-> type, tlv |-> tlv, summary |-> NoSummary])

\* add_annotation: any target, whether or not such a block exists.
AddAnnotation(e, target, value) ==
  /\ Building(e, "add_annotation")
  /\ PushBlock(e, [type |-> ANNOTATION, tlv |-> PriorityTlv(target, value),
                   summary |-> NoSummary])

WithSummary(e, s) ==
  /\ Building(e, "with_summary")
  /\ ReplaceLast(e, [LastPending(e) EXCEPT !.block.summary = s])

WithPriority(e, priority) ==
  /\ Building(e, "with_priority")
  /\ blocks[e] # <<>>
  /\ PushBlock(e, [type |-> ANNOTATION, summary |-> NoSummary,
                   tlv |-> PriorityTlv(Len(blocks[e]) - 1, priority)])

WithCompression(e) ==
  /\ Building(e, "with_compression")
  /\ ReplaceLast(e, [LastPending(e) EXCEPT !.compress = TRUE])

WithContentAddressing(e) ==
  /\ Building(e, "with_content_addressing")
  /\ ReplaceLast(e, [LastPending(e) EXCEPT !.address = TRUE])

CompressBlocks(e) ==
  /\ Building(e, "compress_blocks")
  /\ blocks' = [blocks EXCEPT ![e] =
       [i \in DOMAIN blocks[e] |-> [blocks[e][i] EXCEPT !.compress = TRUE]]]
  /\ SetOpts(e, [opts[e] EXCEPT !.compressAll = TRUE])

CompressPayload(e) ==
  /\ Building(e, "compress_payload")
  /\ SetOpts(e, [opts[e] EXCEPT !.compressPayload = TRUE])
  /\ UNCHANGED blocks

SetContentStore(e) ==
  /\ Building(e, "set_content_store")
  /\ SetOpts(e, [opts[e] EXCEPT !.hasStore = TRUE])
  /\ UNCHANGED blocks

AutoDedup(e) ==
  /\ Building(e, "auto_dedup")
  /\ SetOpts(e, [opts[e] EXCEPT !.autoDedup = TRUE])
  /\ UNCHANGED blocks
-----------------------------------------------------------------------------
(* encode().                                                               *)

\* The pending block encode() is working on: one frame is written per block.
Current(e) == blocks[e][Len(job[e].out) + 1]

\* encode() returns Err: nothing of it survives but its puts.
Return(e) == job' = [job EXCEPT ![e] = Idle]

NeedsStore(e) ==
  opts[e].autoDedup \/ \E i \in DOMAIN blocks[e] : blocks[e][i].address

BeginEncode(e) ==
  /\ job[e].pc = "build"
  /\ encodes[e] < MaxEncodes
  /\ encodes' = [encodes EXCEPT ![e] = @ + 1]
  /\ IF blocks[e] = <<>> \/ (NeedsStore(e) /\ ~opts[e].hasStore)
     THEN UNCHANGED job   \* EmptyPayload, MissingContentStore
     ELSE job' = [job EXCEPT ![e] = [Idle EXCEPT !.pc = "serialize"]]
  /\ UNCHANGED <<blocks, opts, payloads, store>>

\* Mutation: the size limit is checked before the summary is in front.
SerializeUnchecked(e) ==
  /\ job[e].pc = "serialize"
  /\ Len(job[e].out) < Len(blocks[e])
  /\ IF Len(Current(e).block.tlv) > MaxBlockBody
     THEN Return(e)
     ELSE job' = [job EXCEPT ![e].pc = "address",
                             ![e].body = Plain(Body(Current(e).block))]
  /\ UNCHANGED <<blocks, opts, encodes, payloads, store>>

\* Mutation: a failing encode() clears the store it had been putting bodies in.
SerializeClearsStore(e) ==
  /\ job[e].pc = "serialize"
  /\ Len(job[e].out) < Len(blocks[e])
  /\ LET body == Body(Current(e).block) IN
     IF Len(body) > MaxBlockBody
     THEN Return(e) /\ store' = [h \in {} |-> <<>>]
     ELSE /\ job' = [job EXCEPT ![e].pc = "address", ![e].body = Plain(body)]
          /\ UNCHANGED store
  /\ UNCHANGED <<blocks, opts, encodes, payloads>>

\* serialize_block_body; BlockTooLarge ends the call with the store as it is.
SerializeBlock(e) ==
  /\ job[e].pc = "serialize"
  /\ Len(job[e].out) < Len(blocks[e])
  /\ LET body == Body(Current(e).block) IN
     IF Len(body) > MaxBlockBody
     THEN Return(e)
     ELSE job' = [job EXCEPT ![e].pc = "address", ![e].body = Plain(body)]
  /\ UNCHANGED <<blocks, opts, encodes, payloads, store>>

\* The body is to be written inline, or has become its hash.
Inline(e) == job' = [job EXCEPT ![e].pc = "emit", ![e].reference = FALSE]
Reference(e) ==
  job' = [job EXCEPT ![e].pc = "emit", ![e].reference = TRUE,
                     ![e].body = HashOf(job[e].body.data)]

\* apply_content_addressing without a store, or with nothing asked of it.
KeepInline(e) ==
  /\ ~opts[e].hasStore \/ (~Current(e).address /\ ~opts[e].autoDedup)
  /\ Inline(e)
  /\ UNCHANGED store

\* Mutation: the hash is written, but the body never reaches the store.
AddressWithoutPut(e) ==
  /\ opts[e].hasStore /\ Current(e).address
  /\ Reference(e)
  /\ UNCHANGED store

\* Explicit content addressing: put, then replace the body with the hash.
AddressExplicitly(e) ==
  /\ opts[e].hasStore /\ Current(e).address
  /\ Put(job[e].body.data)
  /\ Reference(e)

\* Auto-dedup: contains() answers, and only then may the body be put.
LookUpDuplicate(e) ==
  /\ opts[e].hasStore /\ ~Current(e).address /\ opts[e].autoDedup
  /\ IF Contains(Hash(job[e].body.data))
     THEN Reference(e)
     ELSE job' = [job EXCEPT ![e].pc = "register"]
  /\ UNCHANGED store

ApplyContentAddressing(e) ==
  /\ job[e].pc = "address"
  /\ KeepInline(e) \/ AddressExplicitly(e) \/ LookUpDuplicate(e)
  /\ UNCHANGED <<blocks, opts, encodes, payloads>>

\* Mutation: the first occurrence stays inline and is forgotten.
RegisterNothing(e) ==
  /\ job[e].pc = "register"
  /\ Inline(e)
  /\ UNCHANGED <<blocks, opts, encodes, payloads, store>>

\* The first occurrence: store.put(body) after the lock was released.
RegisterFirst(e) ==
  /\ job[e].pc = "register"
  /\ Put(job[e].body.data)
  /\ Inline(e)
  /\ UNCHANGED <<blocks, opts, encodes, payloads>>

\* Mutation: per-block compression ignores whole-payload compression.
CompressesInside(e) ==
  /\ ~job[e].reference
  /\ Current(e).compress \/ opts[e].compressAll
  /\ Len(job[e].body.data) >= CompressionThreshold
  /\ Shrinks(job[e].body.data)

\* Stage 3 applies to a body that is still inline.
ShouldCompress(e) ==
  /\ ~job[e].reference /\ ~opts[e].compressPayload
  /\ Current(e).compress \/ opts[e].compressAll
  /\ Len(job[e].body.data) >= CompressionThreshold
  /\ Shrinks(job[e].body.data)

FrameFor(e) ==
  LET p == Current(e)
      z == ShouldCompress(e)
  IN  FrameOf(p.block.type, HasSummary(p.block), job[e].reference, z,
              IF z THEN Zstd(job[e].body.data) ELSE job[e].body)

\* Mutation: the loop does not move on to the next block.
EmitAgain(e) ==
  /\ job[e].pc = "emit"
  /\ job' = [job EXCEPT ![e].pc = "serialize"]
  /\ UNCHANGED <<blocks, opts, encodes, payloads, store>>

\* Per-block compression and BlockFrame::write_to.
EmitFrame(e) ==
  /\ job[e].pc = "emit"
  /\ job' = [job EXCEPT ![e].pc = "serialize",
                        ![e].out = Append(@, FrameFor(e)),
                        ![e].size = @ + FrameSize(FrameFor(e))]
  /\ UNCHANGED <<blocks, opts, encodes, payloads, store>>

\* END, whole-payload compression and the header.  Whether zstd shrinks the
\* stream depends on bytes the model does not keep: both outcomes are possible.
\* "message" and "by" record what was encoded; no decoder reads them.
FinishEncode(e) ==
  /\ job[e].pc = "serialize"
  /\ Len(job[e].out) = Len(blocks[e])
  /\ \E z \in {opts[e].compressPayload, FALSE} :
       payloads' = payloads \cup
         {[compressed |-> z, items |-> Append(job[e].out, EndItem),
           size |-> job[e].size + FrameHead,
           message |-> [i \in DOMAIN blocks[e] |-> blocks[e][i].block],
           by |-> opts[e]]}
  /\ Return(e)
  /\ UNCHANGED <<blocks, opts, encodes, store>>
-----------------------------------------------------------------------------
Build(e) ==
  \/ \E type \in ContentType, tlv \in Tlv : AddBlock(e, type, tlv)
  \/ \E n \in 0 .. MaxBlocks - 1, value \in Letter : AddAnnotation(e, n, value)
  \/ \E s \in Letter : WithSummary(e, s)
  \/ \E priority \in Letter : WithPriority(e, priority)
  \/ WithCompression(e) \/ WithContentAddressing(e)
  \/ CompressBlocks(e) \/ CompressPayload(e)
  \/ SetContentStore(e) \/ AutoDedup(e)

\* The steps of an encode() that has started.
Encode(e) ==
  \/ SerializeBlock(e) \/ ApplyContentAddressing(e) \/ RegisterFirst(e)
  \/ EmitFrame(e) \/ FinishEncode(e)

EncNext(e) == Build(e) \/ BeginEncode(e) \/ Encode(e)
=============================================================================
