----------------------------- MODULE CodecProofs -----------------------------
(***************************************************************************)
(* Proofs about Codec for every value of its constants.                    *)
(***************************************************************************)
EXTENDS Codec, TLAPS
-----------------------------------------------------------------------------
(* Bytes and frames.                                                       *)

\* The body of a block is a byte string, and the summary comes off its front.
LEMMA BodyBytes ==
  ASSUME NEW b \in Block
  PROVE  /\ Body(b) \in Bytes
         /\ HasSummary(b) => /\ Body(b) # <<>>
                             /\ Head(Body(b)) = b.summary
                             /\ Tail(Body(b)) = b.tlv
         /\ ~HasSummary(b) => Body(b) = b.tlv /\ b.summary = NoSummary
<1>1. CASE HasSummary(b)
  <2>1. b.summary \in Letter /\ b.tlv \in TlvBytes /\ b.tlv \in Seq(Atom)
    BY <1>1, WireAssumption DEF Block, HasSummary
  <2>2. <<b.summary>> \in Seq(Atom) /\ Len(<<b.summary>>) = 1
    BY <2>1 DEF Atom
  <2>3. Body(b) = <<b.summary>> \o b.tlv
    BY <1>1 DEF Body
  <2>4. Body(b) \in Bytes
    BY <2>1, <2>3, WireAssumption
  <2>5. Head(Body(b)) = b.summary /\ Body(b) # <<>>
    BY <2>1, <2>2, <2>3
  <2>6. Tail(Body(b)) = b.tlv
    BY <2>1, <2>2, <2>3
  <2>. QED  BY <1>1, <2>4, <2>5, <2>6
<1>2. CASE ~HasSummary(b)
  BY <1>2, WireAssumption DEF Block, HasSummary, Body
<1>. QED  BY <1>1, <1>2

\* put keeps the store sound and files the body under its hash.
LEMMA PutSound ==
  ASSUME NEW x \in Bytes, StoreSound, Put(x)
  PROVE  StoreSound' /\ StoreGrows /\ Contains(Hash(x))'
BY DEF StoreSound, Put, StoreGrows, Contains

\* A store operation only ever adds to the store.
LEMMA GrowsIsReflexive == store' = store => StoreGrows
BY DEF StoreGrows

\* What a frame carries survives any growth of the store.
LEMMA CarriesStable ==
  ASSUME NEW f, NEW b, Carries(f, b), StoreGrows
  PROVE  Carries(f, b)'
BY DEF Carries, StoreGrows, Contains

\* A sound store returns, for the hash of a body, that body.
LEMMA GetOfHash ==
  ASSUME NEW x \in Bytes, StoreSound, Contains(Hash(x))
  PROVE  Get(Hash(x)) = x
BY HashInjective DEF StoreSound, Contains, Get

\* A frame that carries a block decodes to that block, and a call that has the
\* encoders' store finds no fault in it.
LEMMA CarriedDecodes ==
  ASSUME NEW f \in Frame, NEW b \in Block, StoreSound, Carries(f, b)
  PROVE  /\ DecodedBlock(f) = b
         /\ FrameFault(f, "shared") = "none"
<1>1. Uncompressed(f) = Body(b)
  BY BodyBytes, GetOfHash DEF Carries, Uncompressed, Resolved, HashOf, Zstd, Plain
<1>2. b = [type |-> b.type, tlv |-> b.tlv, summary |-> b.summary]
  BY DEF Block
<1>3. DecodedBlock(f) = b
  BY <1>1, <1>2, BodyBytes DEF DecodedBlock, Carries
<1>4. ~OverBlockLimit(Uncompressed(f))
  <2>1. Len(Body(b)) \in Nat
    BY BodyBytes, WireAssumption
  <2>. QED  BY <1>1, <2>1, WireAssumption DEF Carries, OverBlockLimit
<1>5. f.hasSummary => Uncompressed(f) # <<>>
  BY <1>1, BodyBytes DEF Carries
<1>6. f.reference => f.body.form = "hash" /\ Resolvable(f, "shared") /\ ~f.compressed
  BY DEF Carries, Resolvable, HashOf
<1>7. /\ f.compressed => Resolved(f).form = "zstd"
      /\ ~f.compressed => Resolved(f).form = "plain"
  BY DEF Carries, Resolved, Zstd, Plain
<1>8. FrameFault(f, "shared") = "none"
  BY <1>4, <1>5, <1>6, <1>7 DEF FrameFault
<1>. QED  BY <1>3, <1>8
-----------------------------------------------------------------------------
(* The encoders.                                                           *)

\* A builder call touches the blocks and settings of one encoder that is not
\* encoding; the settings play no part in what has been written.
LEMMA BuilderStep ==
  ASSUME NEW e \in Encoders, EncInv, job[e].pc = "build",
         blocks' \in [Encoders -> Seq(Pending)], opts' \in [Encoders -> Options],
         \A e2 \in Encoders \ {e} : blocks'[e2] = blocks[e2],
         UNCHANGED <<job, encodes, payloads, store>>
  PROVE  EncInv'
<1>1. EncTypeOK' /\ StoreSound'
  BY DEF EncInv, EncTypeOK, StoreSound
<1>2. \A p \in payloads : PayloadCarries(p)'
  BY DEF EncInv, FramesCarryBlocks, PayloadCarries, Carries, Contains
<1>3. ASSUME NEW e2 \in Encoders
      PROVE  OutCarries(e2)' /\ InHand(e2)'
  <2>1. CASE e2 = e
    <3>1. job[e].out = <<>> /\ job'[e] = job[e]
      BY DEF EncInv, InHand
    <3>2. Len(blocks'[e]) \in Nat
      OBVIOUS
    <3>3. OutCarries(e)'
      BY <3>1, <3>2 DEF OutCarries
    <3>4. InHand(e)'
      BY <3>1 DEF InHand
    <3>. QED  BY <2>1, <3>3, <3>4
  <2>2. CASE e2 # e
    <3>1. UNCHANGED <<blocks[e2], job[e2], store>>
      BY <2>2
    <3>2. OutCarries(e2)'
      BY <3>1 DEF EncInv, FramesCarryBlocks, OutCarries, Carries, Contains
    <3>3. InHand(e2)'
      BY <3>1 DEF EncInv, InHand, Contains, Current
    <3>. QED  BY <3>2, <3>3
  <2>. QED  BY <2>1, <2>2
<1>. QED  BY <1>1, <1>2, <1>3 DEF EncInv, FramesCarryBlocks

\* push_block appends a well-formed pending block.
LEMMA PushBlockStep ==
  ASSUME NEW e \in Encoders, EncInv, job[e].pc = "build",
         NEW b \in Block, PushBlock(e, b)
  PROVE  EncInv'
<1>1. [block |-> b, compress |-> opts[e].compressAll, address |-> FALSE] \in Pending
  BY DEF EncInv, EncTypeOK, Options, Pending
<1>2. blocks' \in [Encoders -> Seq(Pending)]
  BY <1>1 DEF PushBlock, EncInv, EncTypeOK
<1>. QED  BY <1>2, BuilderStep DEF PushBlock, EncInv, EncTypeOK

\* A modifier replaces the last pending block by a well-formed one.
LEMMA ReplaceLastStep ==
  ASSUME NEW e \in Encoders, EncInv, job[e].pc = "build", NEW p \in Pending,
         blocks[e] # <<>>,
         blocks' = [blocks EXCEPT ![e] = [@ EXCEPT ![Len(blocks[e])] = p]],
         UNCHANGED <<opts, job, encodes, payloads, store>>
  PROVE  EncInv'
<1>1. blocks' \in [Encoders -> Seq(Pending)]
  BY DEF EncInv, EncTypeOK
<1>. QED  BY <1>1, BuilderStep DEF EncInv, EncTypeOK

LEMMA LastIsPending ==
  ASSUME NEW e \in Encoders, EncInv, blocks[e] # <<>>
  PROVE  blocks[e][Len(blocks[e])] \in Pending
BY DEF EncInv, EncTypeOK

\* An encoder-level setting changes no block but, at most, its compress mark.
LEMMA SetOptsStep ==
  ASSUME NEW e \in Encoders, EncInv, job[e].pc = "build", NEW o \in Options,
         SetOpts(e, o), blocks' \in [Encoders -> Seq(Pending)],
         \A e2 \in Encoders \ {e} : blocks'[e2] = blocks[e2]
  PROVE  EncInv'
<1>1. opts' \in [Encoders -> Options]
  BY DEF SetOpts, EncInv, EncTypeOK
<1>. QED  BY <1>1, BuilderStep DEF SetOpts

\* Every builder method keeps the encoders' invariant.
LEMMA BuildStep ==
  ASSUME NEW e \in Encoders, EncInv, Build(e)
  PROVE  EncInv'
<1>1. job[e].pc = "build"
  BY DEF Build, Building, AddBlock, AddAnnotation, WithSummary, WithPriority, WithCompression,
     WithContentAddressing, CompressBlocks, CompressPayload, SetContentStore, AutoDedup
<1>2. ASSUME NEW type \in ContentType, NEW tlv \in Tlv, AddBlock(e, type, tlv)
      PROVE  EncInv'
  <2>1. [type |-> type, tlv |-> tlv, summary |-> NoSummary] \in Block
    BY EncoderAssumption DEF Block, Types
  <2>. QED  BY <1>1, <1>2, <2>1, PushBlockStep DEF AddBlock
<1>3. ASSUME NEW n \in 0 .. MaxBlocks - 1, NEW v \in Letter, AddAnnotation(e, n, v)
      PROVE  EncInv'
  <2>1. [type |-> ANNOTATION, tlv |-> PriorityTlv(n, v), summary |-> NoSummary] \in Block
    BY EncoderAssumption DEF Block, Types
  <2>. QED  BY <1>1, <1>3, <2>1, PushBlockStep DEF AddAnnotation
<1>4. ASSUME NEW s \in Letter, WithSummary(e, s)
      PROVE  EncInv'
  <2>1. [blocks[e][Len(blocks[e])] EXCEPT !.block.summary = s] \in Pending
    BY <1>4, LastIsPending DEF Pending, Block, WithSummary, ReplaceLast
  <2>. QED  BY <1>1, <1>4, <2>1, ReplaceLastStep DEF WithSummary, ReplaceLast, LastPending
<1>5. ASSUME NEW v \in Letter, WithPriority(e, v)
      PROVE  EncInv'
  <2>1. Len(blocks[e]) - 1 \in 0 .. MaxBlocks - 1
    BY <1>5, EncoderAssumption DEF WithPriority, PushBlock, EncInv, EncTypeOK
  <2>2. [type |-> ANNOTATION, summary |-> NoSummary,
         tlv |-> PriorityTlv(Len(blocks[e]) - 1, v)] \in Block
    BY <2>1, EncoderAssumption DEF Block, Types
  <2>. QED  BY <1>1, <1>5, <2>2, PushBlockStep DEF WithPriority
<1>6. ASSUME WithCompression(e)
      PROVE  EncInv'
  <2>1. [blocks[e][Len(blocks[e])] EXCEPT !.compress = TRUE] \in Pending
    BY <1>6, LastIsPending DEF Pending, WithCompression, ReplaceLast
  <2>. QED  BY <1>1, <1>6, <2>1, ReplaceLastStep DEF WithCompression, ReplaceLast, LastPending
<1>7. ASSUME WithContentAddressing(e)
      PROVE  EncInv'
  <2>1. [blocks[e][Len(blocks[e])] EXCEPT !.address = TRUE] \in Pending
    BY <1>7, LastIsPending DEF Pending, WithContentAddressing, ReplaceLast
  <2>. QED  BY <1>1, <1>7, <2>1, ReplaceLastStep
         DEF WithContentAddressing, ReplaceLast, LastPending
<1>8. ASSUME CompressBlocks(e)
      PROVE  EncInv'
  <2>1. [opts[e] EXCEPT !.compressAll = TRUE] \in Options
    BY DEF EncInv, EncTypeOK, Options
  <2>2. [i \in DOMAIN blocks[e] |-> [blocks[e][i] EXCEPT !.compress = TRUE]] \in Seq(Pending)
    <3>1. blocks[e] \in Seq(Pending)
      BY DEF EncInv, EncTypeOK
    <3>2. /\ Len(blocks[e]) \in Nat /\ DOMAIN blocks[e] = 1 .. Len(blocks[e])
          /\ \A i \in 1 .. Len(blocks[e]) : blocks[e][i] \in Pending
      BY <3>1
    <3>3. \A p \in Pending : [p EXCEPT !.compress = TRUE] \in Pending
      BY DEF Pending
    <3>. QED  BY <3>2, <3>3
  <2>3. /\ blocks' \in [Encoders -> Seq(Pending)]
        /\ \A e2 \in Encoders \ {e} : blocks'[e2] = blocks[e2]
    BY <1>8, <2>2 DEF CompressBlocks, EncInv, EncTypeOK
  <2>. QED  BY <1>1, <1>8, <2>1, <2>3, SetOptsStep DEF CompressBlocks
<1>9. ASSUME CompressPayload(e) \/ SetContentStore(e) \/ AutoDedup(e)
      PROVE  EncInv'
  <2>1. /\ [opts[e] EXCEPT !.compressPayload = TRUE] \in Options
        /\ [opts[e] EXCEPT !.hasStore = TRUE] \in Options
        /\ [opts[e] EXCEPT !.autoDedup = TRUE] \in Options
    BY DEF EncInv, EncTypeOK, Options
  <2>2. PICK o \in Options : SetOpts(e, o) /\ UNCHANGED blocks
    BY <1>9, <2>1 DEF CompressPayload, SetContentStore, AutoDedup
  <2>. QED  BY <1>1, <2>2, SetOptsStep DEF EncInv, EncTypeOK
<1>. QED  BY <1>2, <1>3, <1>4, <1>5, <1>6, <1>7, <1>8, <1>9 DEF Build
-----------------------------------------------------------------------------
(* encode().                                                               *)

\* Updating the state of one encode() leaves the others alone.
LEMMA JobUpdate ==
  ASSUME NEW e \in Encoders, NEW j \in Job, job \in [Encoders -> Job],
         job' = [job EXCEPT ![e] = j]
  PROVE  /\ job' \in [Encoders -> Job]
         /\ \A e2 \in Encoders \ {e} : job'[e2] = job[e2]
         /\ job'[e] = j
OBVIOUS

\* A step of one encode() that only adds to the store leaves what the other
\* encoders have in hand and what has been written as they were.
LEMMA EncodeFrame ==
  ASSUME NEW e \in Encoders, EncInv,
         UNCHANGED <<blocks, opts>>, encodes' \in [Encoders -> 0 .. MaxEncodes],
         job' \in [Encoders -> Job],
         \A e2 \in Encoders \ {e} : job'[e2] = job[e2],
         StoreSound', StoreGrows,
         payloads' \subseteq Payload,
         \A p \in payloads' \ payloads : PayloadCarries(p)',
         OutCarries(e)', InHand(e)'
  PROVE  EncInv'
<1>1. EncTypeOK'
  BY DEF EncInv, EncTypeOK
<1>2. ASSUME NEW p \in payloads
      PROVE  PayloadCarries(p)'
  BY CarriesStable DEF EncInv, FramesCarryBlocks, PayloadCarries
<1>3. ASSUME NEW e2 \in Encoders \ {e}
      PROVE  OutCarries(e2)' /\ InHand(e2)'
  <2>1. OutCarries(e2)'
    BY CarriesStable DEF EncInv, FramesCarryBlocks, OutCarries
  <2>2. Current(e2)' = Current(e2)
    BY DEF Current
  <2>3. InHand(e2)'
    BY <2>2 DEF EncInv, InHand, StoreGrows, Contains
  <2>. QED  BY <2>1, <2>3
<1>. QED  BY <1>1, <1>2, <1>3 DEF EncInv, FramesCarryBlocks

\* The pending block an encode() works on has a byte string for its body.
LEMMA CurrentBody ==
  ASSUME NEW e \in Encoders, EncTypeOK, Len(job[e].out) < Len(blocks[e])
  PROVE  /\ Current(e) \in Pending
         /\ Current(e).block \in Block
         /\ Body(Current(e).block) \in Bytes
         /\ Len(Body(Current(e).block)) \in Nat
<1>1. Len(job[e].out) + 1 \in 1 .. Len(blocks[e])
  BY DEF EncTypeOK, Job
<1>2. Current(e) \in Pending
  BY <1>1 DEF Current, EncTypeOK
<1>3. Current(e).block \in Block
  BY <1>2 DEF Pending
<1>4. Body(Current(e).block) \in Bytes
  BY <1>3, BodyBytes
<1>5. Body(Current(e).block) \in Seq(Atom)
  BY <1>4, WireAssumption
<1>. QED  BY <1>2, <1>3, <1>4, <1>5

\* A job that is over, or about to start on its first block.
LEMMA IdleIsJob == Idle \in Job /\ [Idle EXCEPT !.pc = "serialize"] \in Job
<1>1. Plain(<<>>) \in WireBody
  BY WireAssumption DEF Plain, WireBody
<1>2. <<>> \in Seq(Frame)
  OBVIOUS
<1>3. Idle \in Job
  BY <1>1, <1>2 DEF Idle, Job
<1>4. [Idle EXCEPT !.pc = "serialize"] \in Job
  BY <1>3 DEF Job
<1>. QED  BY <1>3, <1>4

\* encode() starts, or is refused at once.
LEMMA BeginEncodeStep ==
  ASSUME NEW e \in Encoders, EncInv, BeginEncode(e)
  PROVE  EncInv'
<1>1. /\ job' \in [Encoders -> Job]
      /\ \A e2 \in Encoders \ {e} : job'[e2] = job[e2]
      /\ job'[e].out = <<>> /\ job'[e].pc \in {"build", "serialize"}
  BY IdleIsJob DEF BeginEncode, EncInv, EncTypeOK, InHand, Idle
<1>2. encodes' \in [Encoders -> 0 .. MaxEncodes]
  BY EncoderAssumption DEF BeginEncode, EncInv, EncTypeOK
<1>3. OutCarries(e)' /\ InHand(e)'
  <2>1. Len(blocks'[e]) \in Nat
    BY DEF BeginEncode, EncInv, EncTypeOK
  <2>. QED  BY <1>1, <2>1 DEF OutCarries, InHand
<1>4. StoreSound' /\ StoreGrows
  BY GrowsIsReflexive DEF BeginEncode, EncInv, StoreSound
<1>5. UNCHANGED <<blocks, opts, payloads>> /\ payloads' \subseteq Payload
  BY DEF BeginEncode, EncInv, EncTypeOK
<1>. QED  BY <1>1, <1>2, <1>3, <1>4, <1>5, EncodeFrame

\* encode() gives up: the output so far is dropped.
LEMMA ReturnStep ==
  ASSUME NEW e \in Encoders, EncInv, Return(e), UNCHANGED <<blocks, opts, encodes, store>>,
         payloads' \subseteq Payload,
         \A p \in payloads' \ payloads : PayloadCarries(p)'
  PROVE  EncInv'
<1>1. /\ job' \in [Encoders -> Job]
      /\ \A e2 \in Encoders \ {e} : job'[e2] = job[e2]
      /\ job'[e].out = <<>> /\ job'[e].pc = "build"
  BY IdleIsJob DEF Return, EncInv, EncTypeOK, Idle
<1>2. OutCarries(e)' /\ InHand(e)'
  <2>1. Len(blocks'[e]) \in Nat
    BY DEF EncInv, EncTypeOK
  <2>. QED  BY <1>1, <2>1 DEF OutCarries, InHand
<1>3. StoreSound' /\ StoreGrows
  BY GrowsIsReflexive DEF EncInv, StoreSound
<1>4. encodes' \in [Encoders -> 0 .. MaxEncodes]
  BY DEF EncInv, EncTypeOK
<1>. QED  BY <1>1, <1>2, <1>3, <1>4, EncodeFrame

\* A stage that leaves the output alone and puts the current block's body, in
\* the form its new pc calls for, in hand.
LEMMA StageStep ==
  ASSUME NEW e \in Encoders, EncInv, UNCHANGED <<blocks, opts, encodes, payloads>>,
         Len(job[e].out) < Len(blocks[e]),
         Len(Body(Current(e).block)) <= MaxBlockBody,
         StoreSound', StoreGrows,
         job' \in [Encoders -> Job],
         \A e2 \in Encoders \ {e} : job'[e2] = job[e2],
         job'[e].out = job[e].out, job'[e].pc \in {"address", "register", "emit"},
         job'[e].pc # "emit" \/ ~job'[e].reference =>
           job'[e].body = Plain(Body(Current(e).block)),
         job'[e].pc = "emit" /\ job'[e].reference =>
           /\ job'[e].body = HashOf(Body(Current(e).block))
           /\ Hash(Body(Current(e).block)) \in DOMAIN store'
  PROVE  EncInv'
<1>1. OutCarries(e)'
  BY CarriesStable DEF EncInv, FramesCarryBlocks, OutCarries
<1>2. Current(e)' = Current(e)
  BY DEF Current
<1>3. InHand(e)'
  BY <1>2 DEF InHand, Contains
<1>4. payloads' \subseteq Payload /\ encodes' \in [Encoders -> 0 .. MaxEncodes]
  BY DEF EncInv, EncTypeOK
<1>. QED  BY <1>1, <1>3, <1>4, EncodeFrame

\* serialize_block_body.
LEMMA SerializeStep ==
  ASSUME NEW e \in Encoders, EncInv, SerializeBlock(e)
  PROVE  EncInv'
<1>. DEFINE body == Body(Current(e).block)
<1>1. Current(e).block \in Block /\ body \in Bytes /\ Len(body) \in Nat
  BY CurrentBody DEF SerializeBlock, EncInv
<1>2. CASE Len(body) > MaxBlockBody
  <2>1. Return(e) /\ UNCHANGED <<blocks, opts, encodes, payloads, store>>
    BY <1>2 DEF SerializeBlock
  <2>. QED  BY <2>1, ReturnStep DEF EncInv, EncTypeOK
<1>3. CASE ~(Len(body) > MaxBlockBody)
  <2>1. Plain(body) \in WireBody
    BY <1>1 DEF Plain, WireBody
  <2>2. /\ job' \in [Encoders -> Job]
        /\ \A e2 \in Encoders \ {e} : job'[e2] = job[e2]
        /\ job'[e].out = job[e].out /\ job'[e].pc = "address"
        /\ job'[e].body = Plain(body)
    <3>1. job' = [job EXCEPT ![e].pc = "address", ![e].body = Plain(body)]
      BY <1>3 DEF SerializeBlock
    <3>. QED  BY <2>1, <3>1 DEF EncInv, EncTypeOK, Job
  <2>3. Len(body) <= MaxBlockBody
    BY <1>1, <1>3, WireAssumption
  <2>4. StoreSound' /\ StoreGrows
    BY GrowsIsReflexive DEF SerializeBlock, EncInv, StoreSound
  <2>. QED  BY <1>1, <2>2, <2>3, <2>4, StageStep DEF SerializeBlock
<1>. QED  BY <1>2, <1>3

\* apply_content_addressing up to the first store operation.
LEMMA AddressStep ==
  ASSUME NEW e \in Encoders, EncInv, ApplyContentAddressing(e)
  PROVE  EncInv'
<1>. DEFINE body == Body(Current(e).block)
<1>1. /\ job[e].body = Plain(body) /\ Len(job[e].out) < Len(blocks[e])
      /\ Len(body) <= MaxBlockBody
      /\ UNCHANGED <<blocks, opts, encodes, payloads>>
  BY DEF ApplyContentAddressing, EncInv, InHand
<1>2. body \in Bytes
  BY <1>1, CurrentBody DEF EncInv
<1>3. job[e].body.data = body
  BY <1>1 DEF Plain
<1>4. /\ Plain(body) \in WireBody /\ HashOf(body) \in WireBody
      /\ job[e].reference \in BOOLEAN
  BY <1>2, WireAssumption DEF Plain, HashOf, WireBody, EncInv, EncTypeOK, Job
<1>5. ASSUME store' = store
      PROVE  StoreSound' /\ StoreGrows
  BY <1>5, GrowsIsReflexive DEF EncInv, StoreSound
<1>6. CASE KeepInline(e)
  <2>1. /\ job' \in [Encoders -> Job]
        /\ \A e2 \in Encoders \ {e} : job'[e2] = job[e2]
        /\ job'[e].out = job[e].out /\ job'[e].pc = "emit"
        /\ job'[e].reference = FALSE
        /\ job'[e].body = Plain(body)
    BY <1>1, <1>6 DEF KeepInline, Inline, EncInv, EncTypeOK, Job
  <2>2. store' = store
    BY <1>6 DEF KeepInline
  <2>. QED  BY <1>1, <1>4, <1>5, <2>1, <2>2, StageStep
<1>7. CASE AddressExplicitly(e)
  <2>1. /\ job' \in [Encoders -> Job]
        /\ \A e2 \in Encoders \ {e} : job'[e2] = job[e2]
        /\ job'[e].out = job[e].out /\ job'[e].pc = "emit"
        /\ job'[e].reference = TRUE
        /\ job'[e].body = HashOf(body)
    <3>. DEFINE j == [job[e] EXCEPT !.pc = "emit", !.reference = TRUE, !.body = HashOf(body)]
    <3>1. job' = [job EXCEPT ![e] = j]
      BY <1>3, <1>7 DEF AddressExplicitly, Reference
    <3>2. /\ j \in Job /\ j.out = job[e].out /\ j.pc = "emit"
          /\ j.reference = TRUE /\ j.body = HashOf(body)
      BY <1>4 DEF EncInv, EncTypeOK, Job
    <3>. HIDE DEF j
    <3>. QED  BY <3>1, <3>2, JobUpdate DEF EncInv, EncTypeOK
  <2>2. StoreSound' /\ StoreGrows /\ Hash(body) \in DOMAIN store'
    BY <1>2, <1>3, <1>7, PutSound DEF AddressExplicitly, EncInv, Contains
  <2>. QED  BY <1>1, <1>4, <2>1, <2>2, StageStep
<1>8. CASE LookUpDuplicate(e) /\ Contains(Hash(body))
  <2>1. /\ job' \in [Encoders -> Job]
        /\ \A e2 \in Encoders \ {e} : job'[e2] = job[e2]
        /\ job'[e].out = job[e].out /\ job'[e].pc = "emit"
        /\ job'[e].reference = TRUE
        /\ job'[e].body = HashOf(body)
    <3>. DEFINE j == [job[e] EXCEPT !.pc = "emit", !.reference = TRUE, !.body = HashOf(body)]
    <3>1. job' = [job EXCEPT ![e] = j]
      BY <1>3, <1>8 DEF LookUpDuplicate, Reference
    <3>2. /\ j \in Job /\ j.out = job[e].out /\ j.pc = "emit"
          /\ j.reference = TRUE /\ j.body = HashOf(body)
      BY <1>4 DEF EncInv, EncTypeOK, Job
    <3>. HIDE DEF j
    <3>. QED  BY <3>1, <3>2, JobUpdate DEF EncInv, EncTypeOK
  <2>2. store' = store /\ Hash(body) \in DOMAIN store'
    BY <1>8 DEF LookUpDuplicate, Contains
  <2>. QED  BY <1>1, <1>4, <1>5, <2>1, <2>2, StageStep
<1>9. CASE LookUpDuplicate(e) /\ ~Contains(Hash(body))
  <2>1. /\ job' \in [Encoders -> Job]
        /\ \A e2 \in Encoders \ {e} : job'[e2] = job[e2]
        /\ job'[e].out = job[e].out /\ job'[e].pc = "register"
        /\ job'[e].body = Plain(body)
    <3>1. job' = [job EXCEPT ![e].pc = "register"]
      BY <1>3, <1>9 DEF LookUpDuplicate
    <3>. QED  BY <1>1, <3>1 DEF EncInv, EncTypeOK, Job
  <2>2. store' = store
    BY <1>9 DEF LookUpDuplicate
  <2>. QED  BY <1>1, <1>4, <1>5, <2>1, <2>2, StageStep
<1>. QED  BY <1>6, <1>7, <1>8, <1>9 DEF ApplyContentAddressing

\* The put that follows a contains() that said no.  What other encoders put in
\* between does not matter: put keeps the entry that is there.
LEMMA RegisterStep ==
  ASSUME NEW e \in Encoders, EncInv, RegisterFirst(e)
  PROVE  EncInv'
<1>. DEFINE body == Body(Current(e).block)
<1>1. /\ job[e].body = Plain(body) /\ Len(job[e].out) < Len(blocks[e])
      /\ Len(body) <= MaxBlockBody
      /\ UNCHANGED <<blocks, opts, encodes, payloads>>
  BY DEF RegisterFirst, EncInv, InHand
<1>2. body \in Bytes
  BY <1>1, CurrentBody DEF EncInv
<1>3. job[e].body.data = body /\ Plain(body) \in WireBody
  BY <1>1, <1>2 DEF Plain, WireBody
<1>4. StoreSound' /\ StoreGrows
  BY <1>2, <1>3, PutSound DEF RegisterFirst, EncInv
<1>5. /\ job' \in [Encoders -> Job]
      /\ \A e2 \in Encoders \ {e} : job'[e2] = job[e2]
      /\ job'[e].out = job[e].out /\ job'[e].pc = "emit"
      /\ job'[e].reference = FALSE
      /\ job'[e].body = Plain(body)
  BY <1>1 DEF RegisterFirst, Inline, EncInv, EncTypeOK, Job
<1>. QED  BY <1>1, <1>3, <1>4, <1>5, StageStep

\* The frame made from what is in hand carries the current block.
LEMMA FrameForCarries ==
  ASSUME NEW e \in Encoders, EncInv, job[e].pc = "emit"
  PROVE  /\ FrameFor(e) \in Frame
         /\ Carries(FrameFor(e), Current(e).block)
         /\ FrameSize(FrameFor(e)) \in Nat
<1>. DEFINE body == Body(Current(e).block)
<1>1. /\ Len(job[e].out) < Len(blocks[e]) /\ Len(body) <= MaxBlockBody
      /\ ~job[e].reference => job[e].body = Plain(body)
      /\ job[e].reference => job[e].body = HashOf(body) /\ Contains(Hash(body))
  BY DEF EncInv, InHand
<1>2. Current(e).block \in Block /\ body \in Bytes /\ Len(body) \in Nat
  BY <1>1, CurrentBody DEF EncInv
<1>3. job[e].reference \in BOOLEAN /\ job[e].body \in WireBody
  BY DEF EncInv, EncTypeOK, Job
<1>4. ShouldCompress(e) \in BOOLEAN /\ (ShouldCompress(e) => ~job[e].reference)
  BY DEF ShouldCompress
<1>5. Plain(body).data = body /\ Zstd(body) \in WireBody
  BY <1>2 DEF Plain, Zstd, WireBody
<1>6. FrameFor(e).body = IF job[e].reference THEN HashOf(body)
                         ELSE IF ShouldCompress(e) THEN Zstd(body) ELSE Plain(body)
  BY <1>1, <1>4, <1>5 DEF FrameFor, FrameOf
<1>7. FrameFor(e) \in Frame
  BY <1>2, <1>3, <1>4, <1>1, <1>5 DEF FrameFor, FrameOf, Frame, HasSummary, Block
<1>8. Carries(FrameFor(e), Current(e).block)
  BY <1>1, <1>4, <1>6 DEF FrameFor, FrameOf, Carries, HasSummary
<1>9. FrameSize(FrameFor(e)) \in Nat
  <2>1. WireSize(Plain(body)) \in Nat
    BY <1>2 DEF WireSize, Plain
  <2>2. WireSize(HashOf(body)) \in Nat /\ WireSize(Zstd(body)) \in Nat
    BY <1>2, WireAssumption DEF WireSize, HashOf, Zstd
  <2>. QED  BY <1>6, <2>1, <2>2, WireAssumption DEF FrameSize
<1>. QED  BY <1>7, <1>8, <1>9

\* Compression and BlockFrame::write_to.
LEMMA EmitStep ==
  ASSUME NEW e \in Encoders, EncInv, EmitFrame(e)
  PROVE  EncInv'
<1>1. /\ Len(job[e].out) < Len(blocks[e]) /\ job[e].out \in Seq(Frame)
      /\ job[e].size \in Nat /\ blocks[e] \in Seq(Pending)
      /\ UNCHANGED <<blocks, opts, encodes, payloads, store>>
  BY DEF EmitFrame, EncInv, InHand, EncTypeOK, Job
<1>2. FrameFor(e) \in Frame /\ FrameSize(FrameFor(e)) \in Nat
      /\ Carries(FrameFor(e), Current(e).block)
  BY FrameForCarries DEF EmitFrame
<1>3. /\ job' \in [Encoders -> Job]
      /\ \A e2 \in Encoders \ {e} : job'[e2] = job[e2]
      /\ job'[e].out = Append(job[e].out, FrameFor(e)) /\ job'[e].pc = "serialize"
  <2>1. Append(job[e].out, FrameFor(e)) \in Seq(Frame)
        /\ job[e].size + FrameSize(FrameFor(e)) \in Nat
    BY <1>1, <1>2
  <2>. DEFINE j == [job[e] EXCEPT !.pc = "serialize",
                                  !.out = Append(job[e].out, FrameFor(e)),
                                  !.size = job[e].size + FrameSize(FrameFor(e))]
  <2>2. job' = [job EXCEPT ![e] = j]
    BY DEF EmitFrame
  <2>3. j \in Job /\ j.out = Append(job[e].out, FrameFor(e)) /\ j.pc = "serialize"
    BY <2>1 DEF EncInv, EncTypeOK, Job
  <2>. HIDE DEF j
  <2>. QED  BY <2>2, <2>3, JobUpdate DEF EncInv, EncTypeOK
<1>4. StoreSound' /\ StoreGrows
  BY <1>1, GrowsIsReflexive DEF EncInv, StoreSound
<1>5. OutCarries(e)'
  <2>1. Len(job'[e].out) = Len(job[e].out) + 1 /\ Len(job'[e].out) <= Len(blocks'[e])
    BY <1>1, <1>2, <1>3
  <2>2. ASSUME NEW i \in DOMAIN job'[e].out
        PROVE  Carries(job'[e].out[i], blocks'[e][i].block)
    <3>1. CASE i \in DOMAIN job[e].out
      <4>1. job'[e].out[i] = job[e].out[i]
        BY <1>1, <1>2, <1>3, <3>1
      <4>. QED  BY <1>1, <3>1, <4>1 DEF EncInv, FramesCarryBlocks, OutCarries
    <3>2. CASE i = Len(job[e].out) + 1
      BY <1>1, <1>2, <1>3, <3>2 DEF Current
    <3>. QED  BY <1>1, <1>2, <1>3, <2>1, <2>2, <3>1, <3>2
  <2>3. \A i \in DOMAIN job'[e].out : Carries(job[e].out[i], blocks[e][i].block)'
    BY <1>1, <2>2 DEF Carries, Contains
  <2>. QED  BY <2>1, <2>3 DEF OutCarries
<1>6. InHand(e)'
  BY <1>3 DEF InHand
<1>7. payloads' \subseteq Payload /\ encodes' \in [Encoders -> 0 .. MaxEncodes]
  BY <1>1 DEF EncInv, EncTypeOK
<1>. QED  BY <1>1, <1>3, <1>4, <1>5, <1>6, <1>7, EncodeFrame

\* END, whole-payload compression and the header: what is returned carries
\* every block of the encoder.
LEMMA FinishStep ==
  ASSUME NEW e \in Encoders, EncInv, FinishEncode(e)
  PROVE  EncInv'
<1>. DEFINE message == [i \in DOMAIN blocks[e] |-> blocks[e][i].block]
            items == Append(job[e].out, EndItem)
<1>1. /\ job[e].out \in Seq(Frame) /\ Len(job[e].out) = Len(blocks[e])
      /\ blocks[e] \in Seq(Pending) /\ opts[e] \in Options
      /\ OutCarries(e) /\ job[e].size \in Nat
      /\ UNCHANGED <<blocks, opts, encodes, store>>
  BY DEF FinishEncode, EncInv, EncTypeOK, Job, FramesCarryBlocks
<1>2. PICK z \in BOOLEAN : payloads' = payloads \cup
        {[compressed |-> z, items |-> items, size |-> job[e].size + FrameHead,
          message |-> message, by |-> opts[e]]}
  BY <1>1 DEF FinishEncode, Options
<1>. DEFINE p == [compressed |-> z, items |-> items, size |-> job[e].size + FrameHead,
                  message |-> message, by |-> opts[e]]
<1>3. message \in Seq(Block) /\ Len(message) = Len(blocks[e])
      /\ DOMAIN message = 1 .. Len(blocks[e])
  <2>1. DOMAIN blocks[e] = 1 .. Len(blocks[e]) /\ Len(blocks[e]) \in Nat
    BY <1>1
  <2>2. \A i \in 1 .. Len(blocks[e]) : blocks[e][i] \in Pending
    BY <1>1
  <2>3. \A q \in Pending : q.block \in Block
    BY DEF Pending
  <2>. QED  BY <2>1, <2>2, <2>3
<1>4. job[e].out \in Seq(StreamItem)
  BY <1>1 DEF StreamItem
<1>5. items \in Seq(StreamItem) /\ Len(items) = Len(message) + 1
      /\ items[Len(items)] = EndItem
      /\ \A i \in DOMAIN message : items[i] = job[e].out[i]
  <2>1. EndItem \in StreamItem /\ Len(job[e].out) \in Nat
    BY <1>1 DEF StreamItem
  <2>2. items \in Seq(StreamItem) /\ Len(items) = Len(job[e].out) + 1
    BY <1>4, <2>1
  <2>3. items[Len(items)] = EndItem
    BY <1>4, <2>1, <2>2
  <2>4. \A i \in 1 .. Len(job[e].out) : items[i] = job[e].out[i]
    BY <1>4, <2>1
  <2>. QED  BY <1>1, <1>3, <2>2, <2>3, <2>4
<1>6. job[e].size + FrameHead \in Nat
  BY <1>1, WireAssumption
<1>7. p \in Payload
  BY <1>1, <1>3, <1>5, <1>6 DEF Payload
<1>8. PayloadCarries(p)
  <2>1. ASSUME NEW i \in DOMAIN message
        PROVE  Carries(items[i], message[i])
    <3>1. i \in DOMAIN blocks[e] /\ i \in DOMAIN job[e].out
      BY <1>1, <1>3
    <3>2. Carries(job[e].out[i], blocks[e][i].block)
      BY <1>1, <3>1 DEF OutCarries
    <3>3. items[i] = job[e].out[i] /\ message[i] = blocks[e][i].block
      BY <1>5, <3>1
    <3>. QED  BY <3>2, <3>3
  <2>. QED  BY <1>5, <2>1 DEF PayloadCarries
<1>9. \A q \in payloads' \ payloads : PayloadCarries(q)'
  <2>1. \A q \in payloads' \ payloads : q = p
    BY <1>2
  <2>2. StoreGrows
    BY <1>1, GrowsIsReflexive
  <2>3. ASSUME NEW q, q = p
        PROVE  PayloadCarries(q)'
    BY <1>8, <2>2, <2>3, CarriesStable DEF PayloadCarries
  <2>. QED  BY <2>1, <2>3
<1>10. payloads' \subseteq Payload
  BY <1>2, <1>7 DEF EncInv, EncTypeOK
<1>. QED  BY <1>1, <1>9, <1>10, ReturnStep DEF FinishEncode

\* What the decoders may rely on, whatever an encoder does.
EncGuarantee == EncInv' /\ StoreGrows /\ payloads \subseteq payloads'

LEMMA EncoderStep ==
  ASSUME NEW e \in Encoders, EncInv, EncNext(e)
  PROVE  EncGuarantee
<1>1. EncInv'
  BY BuildStep, BeginEncodeStep, SerializeStep, AddressStep, RegisterStep, EmitStep,
     FinishStep DEF EncNext, Encode
<1>2. payloads \subseteq payloads'
  <2>1. ASSUME Build(e) PROVE payloads \subseteq payloads'
    BY <2>1 DEF Build, AddBlock, AddAnnotation, WithSummary, WithPriority, WithCompression,
       WithContentAddressing, CompressBlocks, CompressPayload, SetContentStore, AutoDedup,
       PushBlock, ReplaceLast, SetOpts
  <2>2. ASSUME FinishEncode(e) PROVE payloads \subseteq payloads'
    BY <2>2 DEF FinishEncode
  <2>. QED  BY <2>1, <2>2 DEF EncNext, Encode, BeginEncode, SerializeBlock,
       ApplyContentAddressing, RegisterFirst, EmitFrame
<1>3. StoreGrows
  <2>1. store' = store \/ (/\ Len(job[e].out) < Len(blocks[e])
                          /\ job[e].body = Plain(Body(Current(e).block))
                          /\ Put(job[e].body.data))
    <3>1. ASSUME Build(e) PROVE store' = store
      BY <3>1 DEF Build, AddBlock, AddAnnotation, WithSummary, WithPriority, WithCompression,
         WithContentAddressing, CompressBlocks, CompressPayload, SetContentStore, AutoDedup,
         PushBlock, ReplaceLast, SetOpts
    <3>2. ASSUME ApplyContentAddressing(e) \/ RegisterFirst(e)
          PROVE  store' = store \/ (/\ Len(job[e].out) < Len(blocks[e])
                                   /\ job[e].body = Plain(Body(Current(e).block))
                                   /\ Put(job[e].body.data))
      BY <3>2 DEF ApplyContentAddressing, RegisterFirst, KeepInline, AddressExplicitly,
         LookUpDuplicate, EncInv, InHand
    <3>. QED  BY <3>1, <3>2 DEF EncNext, Encode, BeginEncode, SerializeBlock, EmitFrame,
         FinishEncode
  <2>2. CASE store' = store
    BY <2>2, GrowsIsReflexive
  <2>3. CASE /\ Len(job[e].out) < Len(blocks[e])
             /\ job[e].body = Plain(Body(Current(e).block))
             /\ Put(job[e].body.data)
    BY <2>3, CurrentBody, PutSound DEF EncInv, Plain
  <2>. QED  BY <2>1, <2>2, <2>3
<1>. QED  BY <1>1, <1>2, <1>3 DEF EncGuarantee
-----------------------------------------------------------------------------
(* The decode calls.                                                       *)

\* DecInv, for the one call that a step may change.
CallInv(d) ==
  LET c == dec[d] IN
  dec[d] # Unstarted =>
    /\ dec[d] \in DecodeCall
    /\ c.sent \in payloads
    /\ DeliveryOf(c.wire, c.sent)
    /\ c.sent.compressed /\ ~c.wire.unzips => c.status \notin {"reading", "ok"}
    /\ Len(c.blocks) <= Len(c.sent.message)
    /\ \A i \in DOMAIN c.blocks : c.blocks[i] = c.sent.message[i]
    /\ c.status = "ok" => Len(c.blocks) = Len(c.sent.message) /\ SentWhole(c.wire, c.sent)
    /\ (/\ c.wire.intact /\ c.store = "shared"
        /\ c.sent.compressed => c.sent.size <= MaxPayload)
       => c.status \in {"reading", "ok"}

LEMMA DecInvByCall ==
  DecInv <=> (DOMAIN dec = Decoders /\ \A d \in Decoders : CallInv(d))
BY DEF DecInv, DecTypeOK, DecodingSent, DecodedIsSent, AcceptedIsWhole, IntactDecodes,
   Started, WellServed, CallInv

LEMMA DecInvByCallNext ==
  DecInv' <=> (DOMAIN dec' = Decoders /\ \A d \in Decoders : CallInv(d)')
BY DEF DecInv, DecTypeOK, DecodingSent, DecodedIsSent, AcceptedIsWhole, IntactDecodes,
   Started, WellServed, CallInv

\* An encoder step takes nothing from a decode call.
LEMMA CallsUndisturbed ==
  ASSUME DecInv, UNCHANGED dec, payloads \subseteq payloads'
  PROVE  DecInv'
<1>1. ASSUME NEW d \in Decoders PROVE CallInv(d)'
  <2>1. CallInv(d)
    BY DecInvByCall
  <2>. QED  BY <2>1 DEF CallInv, DeliveryOf
<1>. QED  BY <1>1, DecInvByCall, DecInvByCallNext

\* A step of one call leaves the others and the encoders alone.
LEMMA CallFrame ==
  ASSUME NEW d \in Decoders, DecInv, NEW c, dec' = [dec EXCEPT ![d] = c],
         CallInv(d)', UNCHANGED payloads
  PROVE  DecInv'
<1>1. DOMAIN dec' = Decoders /\ \A d2 \in Decoders \ {d} : dec'[d2] = dec[d2]
  BY DecInvByCall
<1>2. ASSUME NEW d2 \in Decoders \ {d} PROVE CallInv(d2)'
  <2>1. CallInv(d2)
    BY DecInvByCall
  <2>. QED  BY <1>1, <2>1 DEF CallInv, DeliveryOf
<1>. QED  BY <1>1, <1>2, DecInvByCallNext

\* What the encoders wrote is not touched by a decoder.
LEMMA EncodersUndisturbed ==
  ASSUME EncInv, UNCHANGED <<encVars, store>>
  PROVE  EncInv'
<1>1. EncTypeOK' /\ StoreSound'
  BY DEF EncInv, EncTypeOK, StoreSound, encVars
<1>2. FramesCarryBlocks'
  BY DEF EncInv, FramesCarryBlocks, OutCarries, PayloadCarries, Carries, Contains, encVars
<1>3. \A e \in Encoders : InHand(e)'
  BY DEF EncInv, InHand, Contains, Current, encVars
<1>. QED  BY <1>1, <1>2, <1>3 DEF EncInv

\* What is left of a damaged payload is well-typed.
Leftover(w, items) == w \in Delivery /\ ~w.intact /\ w.items = items

LEMMA DamagedTyped ==
  ASSUME NEW p, p.size \in Nat, NEW items \in Seq(StreamItem)
  PROVE  Leftover(Damaged(p, TRUE, items), items)
BY DEF Leftover, Damaged, Delivery

LEMMA ExtendedTyped ==
  ASSUME NEW p, p.size \in Nat, NEW items \in Seq(StreamItem), NEW n \in Nat
  PROVE  Leftover(Extended(p, n, items), items)
<1>. DEFINE size == p.size + n
<1>1. size \in Nat
  OBVIOUS
<1>. HIDE DEF size
<1>2. Extended(p, n, items) = [header |-> TRUE, intact |-> FALSE, unzips |-> TRUE,
                               size |-> size, items |-> items]
  BY DEF Extended, size
<1>. QED  BY <1>1, <1>2 DEF Leftover, Delivery

\* Every delivery is a DeliveryOf its payload, and well-typed.
LEMMA DeliveriesDeliver ==
  ASSUME NEW p \in Payload, PayloadCarries(p), NEW damage \in DamageKinds,
         NEW w \in Deliveries(p, damage)
  PROVE  w \in Delivery /\ DeliveryOf(w, p)
<1>1. /\ p.items \in Seq(StreamItem) /\ Len(p.items) \in Nat /\ Len(p.items) >= 1
      /\ p.items[Len(p.items)] = EndItem /\ p.size \in Nat
  BY DEF Payload, PayloadCarries
<1>2. CutItem \in StreamItem /\ EndItem # CutItem
  BY DEF StreamItem, CutItem, EndItem
<1>3. CASE w = Whole(p)
  BY <1>1, <1>3 DEF Whole, Delivery, DeliveryOf
<1>4. CASE w = Damaged(p, FALSE, <<>>)
  <2>1. <<>> \in Seq(StreamItem) /\ Len(<<>>) = 0
    OBVIOUS
  <2>2. w \in Delivery /\ ~w.intact /\ ~w.unzips /\ w.items = <<>>
    BY <1>1, <1>4, <2>1 DEF Damaged, Delivery
  <2>. QED  BY <1>1, <2>1, <2>2 DEF DeliveryOf
<1>5. CASE p.compressed /\ (w = Damaged(p, TRUE, p.items) \/ w = Extended(p, 0, p.items))
  <2>1. 0 \in Nat
    OBVIOUS
  <2>2. Leftover(Damaged(p, TRUE, p.items), p.items)
    BY <1>1, DamagedTyped
  <2>3. Leftover(Extended(p, 0, p.items), p.items)
    BY <1>1, <2>1, ExtendedTyped
  <2>4. Leftover(w, p.items)
    BY <1>5, <2>2, <2>3
  <2>5. w \in Delivery /\ ~w.intact /\ w.items = p.items
    BY <2>4 DEF Leftover
  <2>. QED  BY <1>1, <1>5, <2>5 DEF DeliveryOf
<1>6. ASSUME NEW k \in 0 .. Len(p.items) - 1, ~p.compressed,
             w = Damaged(p, TRUE, SubSeq(p.items, 1, k))
      PROVE  w \in Delivery /\ DeliveryOf(w, p)
  <2>. DEFINE cut == SubSeq(p.items, 1, k)
  <2>1. /\ cut \in Seq(StreamItem) /\ Len(cut) = k
        /\ \A i \in 1 .. k : cut[i] = p.items[i]
    BY <1>1
  <2>2. w \in Delivery /\ w.items = cut /\ ~w.intact
    <3>. HIDE DEF cut
    <3>1. w = Damaged(p, TRUE, cut)
      BY <1>6 DEF cut
    <3>2. Leftover(Damaged(p, TRUE, cut), cut)
      BY <1>1, <2>1, DamagedTyped
    <3>3. Leftover(w, cut)
      BY <3>1, <3>2
    <3>. QED  BY <3>3 DEF Leftover, cut
  <2>3. Len(cut) # Len(p.items) /\ DOMAIN cut = 1 .. k /\ \A i \in 1 .. k : i <= Len(p.items)
    BY <1>1, <2>1
  <2>. HIDE DEF cut
  <2>4. ~p.compressed /\ Len(w.items) # Len(p.items) /\ ~w.intact
    BY <1>6, <2>2, <2>3
  <2>5. \A i \in DOMAIN w.items : i <= Len(p.items) /\ w.items[i] = p.items[i]
    BY <2>1, <2>2, <2>3
  <2>. QED  BY <2>2, <2>4, <2>5 DEF DeliveryOf
<1>7. ASSUME NEW k \in 0 .. Len(p.items) - 1, ~p.compressed,
             w = Damaged(p, TRUE, Append(SubSeq(p.items, 1, k), CutItem))
      PROVE  w \in Delivery /\ DeliveryOf(w, p)
  <2>. DEFINE cut == SubSeq(p.items, 1, k)
  <2>1. /\ cut \in Seq(StreamItem) /\ Len(cut) = k
        /\ \A i \in 1 .. k : cut[i] = p.items[i]
    BY <1>1
  <2>2. /\ w \in Delivery /\ ~w.intact /\ Len(w.items) = k + 1
        /\ w.items[k + 1] = CutItem /\ \A i \in 1 .. k : w.items[i] = p.items[i]
    <3>. HIDE DEF cut
    <3>1. Append(cut, CutItem) \in Seq(StreamItem)
      BY <1>2, <2>1
    <3>2. w = Damaged(p, TRUE, Append(cut, CutItem))
      BY <1>7 DEF cut
    <3>3. w \in Delivery /\ ~w.intact /\ w.items = Append(cut, CutItem)
      <4>. DEFINE items == Append(cut, CutItem)
      <4>. HIDE DEF items
      <4>1. Leftover(Damaged(p, TRUE, items), items)
        BY <1>1, <3>1, DamagedTyped DEF items
      <4>2. Leftover(w, items)
        BY <3>2, <4>1 DEF items
      <4>. QED  BY <4>2 DEF Leftover, items
    <3>4. /\ Len(Append(cut, CutItem)) = k + 1 /\ Append(cut, CutItem)[k + 1] = CutItem
          /\ \A i \in 1 .. k : Append(cut, CutItem)[i] = cut[i]
      BY <1>2, <2>1
    <3>5. \A i \in 1 .. k : w.items[i] = p.items[i]
      BY <2>1, <3>3, <3>4
    <3>. QED  BY <3>3, <3>4, <3>5
  <2>3. \A i \in DOMAIN w.items : i \in 1 .. k \/ i = k + 1
    BY <2>2 DEF Delivery
  <2>4. \A i \in 1 .. k : i <= Len(p.items)
    BY <1>1
  <2>. HIDE DEF cut
  <2>. QED  BY <1>7, <2>2, <2>3, <2>4 DEF DeliveryOf
<1>8. CASE \/ ~p.compressed /\ w = Damaged(p, TRUE, Append(p.items, CutItem))
           \/ p.compressed /\ \E n \in Nat : w = Extended(p, n, Append(p.items, CutItem))
  <2>1. /\ w \in Delivery /\ ~w.intact /\ w.items = Append(p.items, CutItem)
        /\ Len(w.items) = Len(p.items) + 1
        /\ w.items[Len(p.items) + 1] = CutItem
        /\ \A i \in 1 .. Len(p.items) : w.items[i] = p.items[i]
    <3>1. Append(p.items, CutItem) \in Seq(StreamItem)
      BY <1>1, <1>2
    <3>2. w \in Delivery /\ ~w.intact /\ w.items = Append(p.items, CutItem)
      <4>. DEFINE items == Append(p.items, CutItem)
      <4>. HIDE DEF items
      <4>1. items \in Seq(StreamItem)
        BY <3>1 DEF items
      <4>2. Leftover(Damaged(p, TRUE, items), items)
        BY <1>1, <4>1, DamagedTyped
      <4>3. \A n \in Nat : Leftover(Extended(p, n, items), items)
        BY <1>1, <4>1, ExtendedTyped
      <4>4. w = Damaged(p, TRUE, items) \/ \E n \in Nat : w = Extended(p, n, items)
        BY <1>8 DEF items
      <4>5. Leftover(w, items)
        BY <4>2, <4>3, <4>4
      <4>. QED  BY <4>5 DEF Leftover, items
    <3>3. /\ Len(Append(p.items, CutItem)) = Len(p.items) + 1
          /\ Append(p.items, CutItem)[Len(p.items) + 1] = CutItem
          /\ \A i \in 1 .. Len(p.items) : Append(p.items, CutItem)[i] = p.items[i]
      BY <1>1, <1>2
    <3>. QED  BY <3>2, <3>3
  <2>. QED  BY <1>1, <2>1 DEF DeliveryOf
<1>9. damage \in {"none", "cut", "trailing"}
  BY DEF DamageKinds
<1>10. CASE damage = "none"
  BY <1>3, <1>10 DEF Deliveries
<1>11. CASE damage = "cut"
  BY <1>4, <1>5, <1>6, <1>7, <1>11 DEF Deliveries
<1>12. CASE damage = "trailing"
  <2>1. 1 \in Nat /\ MaxPayload + 1 \in Nat
    BY WireAssumption
  <2>. QED  BY <1>5, <1>8, <1>12, <2>1 DEF Deliveries
<1>. QED  BY <1>9, <1>10, <1>11, <1>12

\* The header, and the decompression of a whole-payload stream.
LEMMA OpenStep ==
  ASSUME NEW d \in Decoders, EncInv, DecInv, Receive(d), UNCHANGED payloads
  PROVE  DecInv'
<1>0. PICK p \in payloads, damage \in Damage, kind \in Stores :
        \E w \in Deliveries(p, damage) : Open(d, p, w, kind)
  BY DEF Receive
<1>1. PICK w \in Deliveries(p, damage) : Open(d, p, w, kind)
  BY <1>0
<1>. DEFINE fault == OpenFault(p, w)
            c == [status |-> IF fault = "none" THEN "reading" ELSE fault,
                  sent |-> p, wire |-> w, store |-> kind, blocks |-> <<>>]
<1>2. dec' = [dec EXCEPT ![d] = c] /\ payloads' = payloads
  BY <1>1 DEF Open
<1>3. p \in Payload /\ PayloadCarries(p)
  BY DEF EncInv, EncTypeOK, FramesCarryBlocks
<1>4. w \in Delivery /\ DeliveryOf(w, p)
  BY <1>3, DeliveriesDeliver, DecoderAssumption
<1>5. kind \in StoreKinds
  BY DecoderAssumption
<1>6. fault \in Faults \cup {"none"}
  BY DEF OpenFault, Faults
<1>7. c \in DecodeCall
  <2>1. c.status \in {"reading", "ok"} \cup Faults
    BY <1>6
  <2>2. <<>> \in Seq(Block)
    OBVIOUS
  <2>. QED  BY <1>3, <1>4, <1>5, <2>1, <2>2 DEF DecodeCall
<1>8. w.intact => w.header /\ w.unzips /\ w.size = p.size
  BY <1>4 DEF DeliveryOf
<1>9. /\ p.compressed /\ ~w.unzips => c.status \notin {"reading", "ok"}
      /\ c.status # "ok"
      /\ w.intact /\ (p.compressed => p.size <= MaxPayload) => c.status = "reading"
  <2>1. p.size \in Nat
    BY <1>3 DEF Payload
  <2>. QED  BY <1>8, <2>1, WireAssumption DEF OpenFault
<1>10. dec'[d] = c
  BY <1>2, DecInvByCall
<1>11. CallInv(d)'
  <2>1. Len(<<>>) <= Len(p.message) /\ DOMAIN <<>> = {}
    BY <1>3 DEF Payload
  <2>. QED  BY <1>2, <1>4, <1>7, <1>9, <1>10, <2>1 DEF CallInv, DeliveryOf
<1>. QED  BY <1>2, <1>11, CallFrame

\* Between two frames of a call: what it is given and what it has read.
LEMMA ReadingCall ==
  ASSUME NEW d \in Decoders, EncInv, DecInv, Reading(d)
  PROVE  LET c == dec[d] IN
         /\ c \in DecodeCall /\ CallInv(d) /\ c # Unstarted
         /\ c.sent \in Payload /\ PayloadCarries(c.sent) /\ c.sent \in payloads
         /\ DeliveryOf(c.wire, c.sent)
         /\ c.blocks \in Seq(Block) /\ Len(c.blocks) \in Nat
         /\ c.wire.items \in Seq(StreamItem) /\ c.sent.message \in Seq(Block)
         /\ Len(c.sent.items) = Len(c.sent.message) + 1
         /\ c.sent.compressed => c.wire.unzips
<1>1. dec[d] # Unstarted /\ CallInv(d)
  BY DecInvByCall DEF Reading, Unstarted
<1>2. dec[d] \in DecodeCall /\ dec[d].sent \in payloads /\ DeliveryOf(dec[d].wire, dec[d].sent)
      /\ (dec[d].sent.compressed => dec[d].wire.unzips)
  BY <1>1 DEF CallInv, Reading
<1>3. dec[d].sent \in Payload /\ PayloadCarries(dec[d].sent)
  BY <1>2 DEF EncInv, EncTypeOK, FramesCarryBlocks
<1>4. dec[d].blocks \in Seq(Block) /\ dec[d].wire.items \in Seq(StreamItem)
  BY <1>2 DEF DecodeCall, Delivery
<1>. QED  BY <1>1, <1>2, <1>3, <1>4 DEF Payload, PayloadCarries

\* The next item of a call, when it is a whole one, is the encoder's.
LEMMA NextIsSent ==
  ASSUME NEW d \in Decoders, EncInv, DecInv, Reading(d),
         Len(dec[d].blocks) < Len(dec[d].wire.items), Item(d) # CutItem
  PROVE  LET n == Len(dec[d].blocks) + 1  p == dec[d].sent IN
         /\ n \in 1 .. Len(p.items) /\ Item(d) = p.items[n]
         /\ Item(d).kind = "block" => /\ n \in DOMAIN p.message
                                      /\ Item(d) \in Frame
                                      /\ Carries(Item(d), p.message[n])
                                      /\ p.message[n] \in Block
         /\ Item(d).kind = "end" => n = Len(p.items)
<1>. DEFINE n == Len(dec[d].blocks) + 1
            p == dec[d].sent
<1>1. /\ p.message \in Seq(Block) /\ Len(p.items) = Len(p.message) + 1
      /\ PayloadCarries(p) /\ n \in Nat /\ n >= 1
      /\ dec[d].wire.items \in Seq(StreamItem) /\ DeliveryOf(dec[d].wire, p)
      /\ p.items \in Seq(StreamItem)
  BY ReadingCall DEF Payload
<1>2. n <= Len(dec[d].wire.items) /\ Item(d) = dec[d].wire.items[n]
  BY <1>1 DEF Item
<1>. HIDE DEF n, p
<1>3. n \in DOMAIN dec[d].wire.items
  BY <1>1, <1>2
<1>4. n <= Len(p.items) /\ Item(d) = p.items[n]
  BY <1>2, <1>3, <1>1 DEF DeliveryOf
<1>5. n \in 1 .. Len(p.items) /\ Len(p.message) \in Nat /\ Len(p.items) \in Nat
  BY <1>1, <1>4
<1>6. Item(d) \in StreamItem
  BY <1>1, <1>4, <1>5
<1>7. /\ \A i \in DOMAIN p.message : Carries(p.items[i], p.message[i])
      /\ p.items[Len(p.items)].kind = "end"
  BY <1>1 DEF PayloadCarries, EndItem
<1>8. n = Len(p.items) \/ n \in 1 .. Len(p.message)
  BY <1>1, <1>5
<1>9. n \in 1 .. Len(p.message) => n \in DOMAIN p.message /\ p.message[n] \in Block
  BY <1>1
<1>10. ASSUME Item(d).kind = "block"
       PROVE  n \in DOMAIN p.message /\ Item(d) \in Frame /\ Carries(Item(d), p.message[n])
              /\ p.message[n] \in Block
  <2>1. n # Len(p.items)
    BY <1>4, <1>7, <1>10
  <2>2. n \in DOMAIN p.message /\ p.message[n] \in Block
    BY <1>8, <1>9, <2>1
  <2>3. Item(d) \in Frame
    BY <1>6, <1>10 DEF StreamItem, EndItem, CutItem
  <2>4. Carries(Item(d), p.message[n])
    BY <1>4, <1>7, <2>2
  <2>. QED  BY <2>2, <2>3, <2>4
<1>11. ASSUME Item(d).kind = "end" PROVE n = Len(p.items)
  <2>1. n \notin DOMAIN p.message
    BY <1>4, <1>7, <1>11 DEF Carries
  <2>. QED  BY <1>8, <1>9, <2>1
<1>. QED  BY <1>4, <1>5, <1>10, <1>11 DEF n, p

\* A call may stop: with Ok when it has read every block of a payload that is whole,
\* with an error when it lacked bytes or a store.
LEMMA StopStep ==
  ASSUME NEW d \in Decoders, EncInv, DecInv, Reading(d), UNCHANGED payloads,
         NEW s \in Faults \cup {"ok"}, Stop(d, s),
         s = "ok" => /\ Len(dec[d].blocks) = Len(dec[d].sent.message)
                     /\ SentWhole(dec[d].wire, dec[d].sent),
         s # "ok" => ~(dec[d].wire.intact /\ dec[d].store = "shared")
  PROVE  DecInv'
<1>. DEFINE c == [dec[d] EXCEPT !.status = s]
<1>1. dec[d] \in DecodeCall /\ CallInv(d) /\ dec[d] # Unstarted
      /\ (dec[d].sent.compressed => dec[d].wire.unzips)
  BY ReadingCall
<1>2. dec' = [dec EXCEPT ![d] = c] /\ dec'[d] = c
  BY DecInvByCall DEF Stop
<1>3. c \in DecodeCall /\ s # "reading"
  BY <1>1 DEF DecodeCall, Faults
<1>4. c.status = s /\ c.sent = dec[d].sent /\ c.wire = dec[d].wire
      /\ c.store = dec[d].store /\ c.blocks = dec[d].blocks
  BY <1>1 DEF DecodeCall
<1>. HIDE DEF c
<1>5. /\ c.sent \in payloads' /\ DeliveryOf(c.wire, c.sent)
      /\ c.sent.compressed /\ ~c.wire.unzips => c.status \notin {"reading", "ok"}
      /\ Len(c.blocks) <= Len(c.sent.message)
      /\ \A i \in DOMAIN c.blocks : c.blocks[i] = c.sent.message[i]
  BY <1>1, <1>4 DEF CallInv
<1>6. c.status = "ok" => Len(c.blocks) = Len(c.sent.message) /\ SentWhole(c.wire, c.sent)
  BY <1>4
<1>7. c.wire.intact /\ c.store = "shared" => c.status \in {"reading", "ok"}
  BY <1>4
<1>8. CallInv(d)'
  BY <1>2, <1>3, <1>5, <1>6, <1>7 DEF CallInv, DeliveryOf, SentWhole
<1>. QED  BY <1>2, <1>8, CallFrame

LEMMA DecodeFrameStep ==
  ASSUME NEW d \in Decoders, EncInv, DecInv, DecodeFrame(d), UNCHANGED payloads
  PROVE  DecInv'
<1>. DEFINE b == DecodedBlock(Item(d))
            n == Len(dec[d].blocks) + 1
            c == [dec[d] EXCEPT !.blocks = Append(dec[d].blocks, b)]
            message == dec[d].sent.message
<1>1. /\ Reading(d) /\ Len(dec[d].blocks) < Len(dec[d].wire.items)
      /\ Item(d).kind = "block" /\ Item(d) # CutItem
      /\ dec' = [dec EXCEPT ![d] = c]
  BY DEF DecodeFrame, AtItem, Item, CutItem
<1>2. /\ dec[d] \in DecodeCall /\ CallInv(d) /\ dec[d] # Unstarted
      /\ dec[d].blocks \in Seq(Block) /\ message \in Seq(Block)
  BY <1>1, ReadingCall
<1>3. n \in DOMAIN message /\ Item(d) \in Frame /\ Carries(Item(d), message[n])
      /\ message[n] \in Block
  BY <1>1, NextIsSent
<1>4. b = message[n]
  BY <1>3, CarriedDecodes DEF EncInv
<1>. HIDE DEF b
<1>5. Append(dec[d].blocks, b) \in Seq(Block)
  BY <1>2, <1>3, <1>4
<1>6. c \in DecodeCall /\ c.status = dec[d].status /\ c.sent = dec[d].sent
      /\ c.wire = dec[d].wire /\ c.store = dec[d].store
      /\ c.blocks = Append(dec[d].blocks, b)
  BY <1>2, <1>5 DEF DecodeCall
<1>7. dec'[d] = c
  BY <1>1, DecInvByCall
<1>. HIDE DEF c
<1>8. Len(c.blocks) <= Len(message) /\ \A i \in DOMAIN c.blocks : c.blocks[i] = message[i]
  <2>1. \A i \in DOMAIN dec[d].blocks : dec[d].blocks[i] = message[i]
    BY <1>2 DEF CallInv
  <2>2. /\ Len(c.blocks) = n /\ n \in Nat /\ c.blocks[n] = b
        /\ \A i \in DOMAIN c.blocks : i = n \/ i \in DOMAIN dec[d].blocks
        /\ \A i \in DOMAIN dec[d].blocks : c.blocks[i] = dec[d].blocks[i]
    BY <1>2, <1>4, <1>3, <1>6
  <2>3. n <= Len(message)
    BY <1>2, <1>3
  <2>. QED  BY <1>4, <2>1, <2>2, <2>3
<1>9. /\ c.sent \in payloads' /\ DeliveryOf(c.wire, c.sent)
      /\ (c.sent.compressed => c.wire.unzips) /\ c.status = "reading"
  BY <1>1, <1>2, <1>6 DEF CallInv, Reading
<1>10. CallInv(d)'
  BY <1>6, <1>7, <1>8, <1>9 DEF CallInv, DeliveryOf
<1>. QED  BY <1>1, <1>10, CallFrame

LEMMA RejectFrameStep ==
  ASSUME NEW d \in Decoders, EncInv, DecInv, RejectFrame(d), UNCHANGED payloads
  PROVE  DecInv'
<1>. DEFINE s == FrameFault(Item(d), dec[d].store)
<1>1. Reading(d) /\ Len(dec[d].blocks) < Len(dec[d].wire.items)
      /\ Item(d).kind = "block" /\ Item(d) # CutItem /\ Stop(d, s) /\ s # "none"
  BY DEF RejectFrame, AtItem, Item, CutItem
<1>2. s \in Faults
  BY <1>1 DEF FrameFault, Faults
<1>3. dec[d].store # "shared"
  <2>1. \E b \in Block : Item(d) \in Frame /\ Carries(Item(d), b)
    BY <1>1, NextIsSent
  <2>2. FrameFault(Item(d), "shared") = "none"
    BY <2>1, CarriedDecodes DEF EncInv
  <2>. QED  BY <1>1, <2>2
<1>4. s # "ok"
  BY <1>2 DEF Faults
<1>. QED  BY <1>1, <1>2, <1>3, <1>4, StopStep

\* An intact payload has no cut item and ends with END.
LEMMA IntactItems ==
  ASSUME NEW d \in Decoders, EncInv, DecInv, Reading(d), dec[d].wire.intact
  PROVE  /\ Len(dec[d].blocks) < Len(dec[d].wire.items)
         /\ dec[d].wire.items = dec[d].sent.items
         /\ Item(d).kind # "cut"
<1>. DEFINE p == dec[d].sent
            n == Len(dec[d].blocks) + 1
<1>1. /\ CallInv(d) /\ dec[d] # Unstarted /\ PayloadCarries(p)
      /\ p.message \in Seq(Block) /\ Len(p.items) = Len(p.message) + 1
      /\ DeliveryOf(dec[d].wire, p) /\ Len(dec[d].blocks) \in Nat
  BY ReadingCall
<1>2. Len(dec[d].blocks) <= Len(p.message)
  BY <1>1 DEF CallInv
<1>3. dec[d].wire.items = p.items
  BY <1>1 DEF DeliveryOf
<1>4. Len(p.message) \in Nat /\ DOMAIN p.message = 1 .. Len(p.message)
  BY <1>1
<1>5. Item(d) = p.items[n]
  BY <1>3 DEF Item
<1>6. ASSUME n = Len(p.items) PROVE Item(d).kind # "cut"
  BY <1>1, <1>5, <1>6 DEF PayloadCarries, EndItem
<1>7. ASSUME n # Len(p.items) PROVE Item(d).kind # "cut"
  <2>1. n \in DOMAIN p.message
    <3>. HIDE DEF p
    <3>. QED  BY <1>1, <1>2, <1>4, <1>7
  <2>. QED  BY <1>1, <1>5, <2>1 DEF PayloadCarries, Carries
<1>8. Len(dec[d].blocks) < Len(dec[d].wire.items)
  <2>. HIDE DEF p
  <2>. QED  BY <1>1, <1>2, <1>3, <1>4
<1>. QED  BY <1>3, <1>6, <1>7, <1>8

LEMMA ReadEndStep ==
  ASSUME NEW d \in Decoders, EncInv, DecInv, ReadEnd(d), UNCHANGED payloads
  PROVE  DecInv'
<1>. DEFINE n == Len(dec[d].blocks) + 1
            p == dec[d].sent
            w == dec[d].wire
            s == IF n < Len(w.items) THEN "TrailingData" ELSE "ok"
<1>1. Reading(d) /\ Len(dec[d].blocks) < Len(w.items)
      /\ Item(d).kind = "end" /\ Item(d) # CutItem /\ Stop(d, s)
  BY DEF ReadEnd, AtItem, Item, CutItem
<1>2. /\ Len(p.items) = Len(p.message) + 1 /\ p.message \in Seq(Block)
      /\ w.items \in Seq(StreamItem) /\ DeliveryOf(w, p)
      /\ (p.compressed => w.unzips) /\ Len(dec[d].blocks) \in Nat
      /\ p.items \in Seq(StreamItem)
  BY <1>1, ReadingCall DEF Payload
<1>3. n = Len(p.items) /\ Item(d) = w.items[n]
  BY <1>1, NextIsSent DEF Item
<1>4. Len(p.message) \in Nat /\ Len(w.items) \in Nat
  <2>. HIDE DEF p, w
  <2>. QED  BY <1>2
<1>5. s \in Faults \cup {"ok"}
  BY DEF Faults
<1>6. ASSUME s = "ok"
      PROVE  Len(dec[d].blocks) = Len(p.message) /\ SentWhole(w, p)
  <2>1. n = Len(w.items)
    BY <1>1, <1>2, <1>4, <1>6
  <2>2. ~w.intact => p.compressed
    BY <1>1, <1>2, <1>3, <2>1 DEF DeliveryOf
  <2>3. p.compressed => w.unzips /\ w.items = p.items
    <3>. HIDE DEF p, w
    <3>1. CutItem \in StreamItem
      BY DEF StreamItem
    <3>2. Len(Append(p.items, CutItem)) = Len(p.items) + 1 /\ Len(p.items) \in Nat
      BY <1>2, <3>1
    <3>3. w.items # Append(p.items, CutItem)
      BY <1>3, <2>1, <3>2
    <3>. QED  BY <1>2, <3>3 DEF DeliveryOf
  <2>4. SentWhole(w, p)
    BY <2>2, <2>3 DEF SentWhole
  <2>. QED  BY <1>2, <1>3, <1>4, <2>4
<1>7. ASSUME s # "ok"
      PROVE  ~w.intact
  BY <1>2, <1>3, <1>7 DEF DeliveryOf
<1>. HIDE DEF s
<1>. QED  BY <1>1, <1>5, <1>6, <1>7, StopStep

LEMMA DecoderStep ==
  ASSUME NEW d \in Decoders, EncInv, DecInv, Receive(d) \/ Decode(d), UNCHANGED encVars
  PROVE  EncInv' /\ DecInv'
<1>1. UNCHANGED payloads
  BY DEF encVars
<1>2. UNCHANGED store
  BY DEF Receive, Open, Decode, DecodeFrame, RejectFrame, RejectCut, ReadEnd, RunOut, Stop
<1>3. EncInv'
  BY <1>2, EncodersUndisturbed
<1>4. CASE Receive(d)
  BY <1>1, <1>3, <1>4, OpenStep
<1>5. CASE DecodeFrame(d)
  BY <1>1, <1>3, <1>5, DecodeFrameStep
<1>6. CASE RejectFrame(d)
  BY <1>1, <1>3, <1>6, RejectFrameStep
<1>7. CASE RejectCut(d)
  <2>1. Reading(d) /\ Item(d).kind = "cut" /\ Stop(d, "Wire")
    BY <1>7 DEF RejectCut, AtItem, Item
  <2>. QED  BY <1>1, <1>3, <2>1, IntactItems, StopStep DEF Faults
<1>8. CASE ReadEnd(d)
  BY <1>1, <1>3, <1>8, ReadEndStep
<1>9. CASE RunOut(d)
  <2>1. Reading(d) /\ Len(dec[d].blocks) = Len(dec[d].wire.items)
        /\ Stop(d, "MissingEndSentinel")
    BY <1>9 DEF RunOut
  <2>2. Len(dec[d].blocks) \in Nat
    BY <2>1, ReadingCall
  <2>. QED  BY <1>1, <1>3, <2>1, <2>2, IntactItems, StopStep DEF Faults
<1>. QED  BY <1>3, <1>4, <1>5, <1>6, <1>7, <1>8, <1>9 DEF Decode
-----------------------------------------------------------------------------
(* The invariant, and what it implies.                                     *)

LEMMA InitInv == Init => IInv
<1>. SUFFICES ASSUME Init PROVE IInv
  OBVIOUS
<1>. USE DEF Init, StoreInit, EncInit, DecInit
<1>1. StoreSound
  BY DEF StoreSound
<1>2. EncTypeOK
  <2>1. <<>> \in Seq(Pending) /\ <<>> \in Seq(Frame)
    OBVIOUS
  <2>2. Idle \in Job
    BY <2>1, IdleIsJob
  <2>. QED  BY <2>1, <2>2, EncoderAssumption DEF EncTypeOK, Options
<1>3. FramesCarryBlocks
  <2>1. ASSUME NEW e \in Encoders PROVE OutCarries(e)
    BY DEF OutCarries, Idle
  <2>. QED  BY <2>1 DEF FramesCarryBlocks
<1>4. \A e \in Encoders : InHand(e)
  BY DEF InHand, Idle
<1>5. DecInv
  BY DecInvByCall DEF CallInv
<1>. QED  BY <1>1, <1>2, <1>3, <1>4, <1>5 DEF IInv, EncInv

LEMMA NextInv == IInv /\ [Next]_vars => IInv'
<1>. SUFFICES ASSUME IInv, [Next]_vars PROVE IInv'
  OBVIOUS
<1>1. ASSUME NEW e \in Encoders, EncNext(e), UNCHANGED dec PROVE IInv'
  <2>1. EncGuarantee
    BY <1>1, EncoderStep DEF IInv
  <2>. QED  BY <1>1, <2>1, CallsUndisturbed DEF IInv, EncGuarantee
<1>2. ASSUME NEW d \in Decoders, Receive(d) \/ Decode(d), UNCHANGED encVars PROVE IInv'
  BY <1>2, DecoderStep DEF IInv
<1>3. CASE UNCHANGED vars
  BY <1>3, EncodersUndisturbed, CallsUndisturbed DEF IInv, vars, encVars
<1>. QED  BY <1>1, <1>2, <1>3 DEF Next

\* The inductive invariant holds of every behaviour.
THEOREM InvariantHolds == Spec => []IInv
BY InitInv, NextInv, PTL DEF Spec

\* Every variable keeps its type, and every stored body stays under its own hash.
THEOREM TypeCorrect == Spec => []TypeOK
<1>1. IInv => TypeOK
  BY DEF IInv, EncInv, DecInv, TypeOK
<1>. QED  BY <1>1, InvariantHolds, PTL

\* Any number of encoders on one store, interleaved at any of their store
\* operations, write frames that carry exactly their blocks.
THEOREM FramesCarry == Spec => []FramesCarryBlocks
<1>1. IInv => FramesCarryBlocks
  BY DEF IInv, EncInv
<1>. QED  BY <1>1, InvariantHolds, PTL

\* A decode call never yields a block that was not encoded there, and returns Ok
\* only with all of them.
THEOREM DecodedWasSent == Spec => []DecodedIsSent
<1>1. IInv => DecodedIsSent
  BY DEF IInv, DecInv
<1>. QED  BY <1>1, InvariantHolds, PTL

\* What is accepted arrived whole: a cut or extended payload never is, except a compressed
\* one that was extended by zstd frames without content.
THEOREM DamageDetected == Spec => []AcceptedIsWhole
<1>1. IInv => AcceptedIsWhole
  BY DEF IInv, DecInv
<1>. QED  BY <1>1, InvariantHolds, PTL

\* decode inverts encode, up to the decoder's limit on compressed payloads.
THEOREM IntactAccepted == Spec => []IntactDecodes
<1>1. IInv => IntactDecodes
  BY DEF IInv, DecInv
<1>. QED  BY <1>1, InvariantHolds, PTL
-----------------------------------------------------------------------------
(* Codec implements ContextTransfer: every step of an encoder or of a      *)
(* decode call is a step of the abstract specification or leaves it alone. *)

\* The refinement mapping.
Sent == {p.message : p \in payloads}
Accepted == {d \in Started : dec[d].status = "ok"}
Got == [d \in Accepted |-> dec[d].blocks]

\* A call that has returned Ok is among those that have started.
LEMMA AcceptedCalls == Accepted = {d \in Decoders : dec[d].status = "ok"}
BY DEF Accepted, Started, Unstarted

LEMMA InitMaps == Init => Transfer!Init
<1>. SUFFICES ASSUME Init PROVE Transfer!Init
  OBVIOUS
<1>1. Sent = {}
  BY DEF Init, EncInit, Sent
<1>2. Accepted = {}
  BY DEF Init, DecInit, Accepted, Started
<1>3. Got = [r \in {} |-> {}]
  BY <1>2 DEF Got
<1>. QED  BY <1>1, <1>3 DEF Transfer!Init, Sent, Got, Accepted

\* An encoder sends at most one message and takes nothing back.
LEMMA EncoderMaps ==
  ASSUME NEW e \in Encoders, EncNext(e), UNCHANGED dec
  PROVE  Transfer!Send \/ UNCHANGED Transfer!transferVars
<1>1. Got' = Got
  BY DEF Got, Accepted, Started
<1>2. ASSUME Build(e) PROVE UNCHANGED payloads
  BY <1>2 DEF Build, AddBlock, AddAnnotation, WithSummary, WithPriority, WithCompression,
     WithContentAddressing, CompressBlocks, CompressPayload, SetContentStore, AutoDedup,
     PushBlock, ReplaceLast, SetOpts
<1>3. ASSUME FinishEncode(e) PROVE \E p : payloads' = payloads \cup {p}
  BY <1>3 DEF FinishEncode
<1>4. UNCHANGED payloads \/ \E p : payloads' = payloads \cup {p}
  BY <1>2, <1>3 DEF EncNext, Encode, BeginEncode, SerializeBlock, ApplyContentAddressing,
     RegisterFirst, EmitFrame
<1>5. CASE UNCHANGED payloads
  <2>1. Sent' = Sent
    BY <1>5 DEF Sent
  <2>. QED  BY <1>1, <2>1 DEF Transfer!transferVars, Sent, Got, Accepted
<1>6. ASSUME NEW p, payloads' = payloads \cup {p} PROVE Transfer!Send
  <2>1. Sent' = Sent \cup {p.message} /\ p.message \in Sent'
    BY <1>6 DEF Sent
  <2>. QED  BY <1>1, <2>1 DEF Transfer!Send, Sent, Got, Accepted
<1>. QED  BY <1>4, <1>5, <1>6

\* A step of a decode call that does not return Ok is invisible.
LEMMA QuietMaps ==
  ASSUME UNCHANGED payloads, Accepted' = Accepted,
         \A d \in Accepted : dec'[d] = dec[d]
  PROVE  UNCHANGED Transfer!transferVars
<1>1. Sent' = Sent
  BY DEF Sent
<1>2. Got' = Got
  BY DEF Got
<1>. QED  BY <1>1, <1>2 DEF Transfer!transferVars, Sent, Got, Accepted

\* Returning Ok receives the message of the payload.
LEMMA AcceptMaps ==
  ASSUME NEW d \in Decoders, IInv', DOMAIN dec' = Decoders, UNCHANGED payloads,
         dec[d].status # "ok", dec'[d].status = "ok",
         \A c \in Decoders \ {d} : dec'[c] = dec[c]
  PROVE  Transfer!Receive(d)
<1>1. Accepted' = Accepted \cup {d} /\ d \notin Accepted /\ Accepted \subseteq Decoders
  <2>1. Accepted' = {c \in Decoders : dec'[c].status = "ok"}
    BY DEF Accepted, Started, Unstarted
  <2>. QED  BY <2>1, AcceptedCalls
<1>2. dec'[d].sent.message \in Sent /\ dec'[d].blocks = dec'[d].sent.message
  <2>1. CallInv(d)' /\ dec'[d] # Unstarted
    BY DecInvByCallNext DEF IInv, Unstarted
  <2>2. /\ dec'[d].sent \in payloads /\ dec'[d] \in DecodeCall
        /\ Len(dec'[d].blocks) = Len(dec'[d].sent.message)
        /\ \A i \in DOMAIN dec'[d].blocks : dec'[d].blocks[i] = dec'[d].sent.message[i]
    BY <2>1 DEF CallInv
  <2>3. dec'[d].blocks \in Seq(Block) /\ dec'[d].sent.message \in Seq(Block)
    BY <2>2 DEF DecodeCall, Payload
  <2>4. dec'[d].blocks = dec'[d].sent.message
    BY <2>2, <2>3
  <2>. QED  BY <2>2, <2>4 DEF Sent
<1>3. Got' = [c \in Accepted \cup {d} |->
               IF c = d THEN dec'[d].sent.message ELSE Got[c]]
  BY <1>1, <1>2 DEF Got
<1>4. Sent' = Sent /\ DOMAIN Got = Accepted
  BY DEF Sent, Got
<1>. QED  BY <1>1, <1>2, <1>3, <1>4 DEF Transfer!Receive, Sent, Got, Accepted

LEMMA DecoderMaps ==
  ASSUME NEW d \in Decoders, IInv, IInv', Receive(d) \/ Decode(d), UNCHANGED encVars
  PROVE  (\E r \in Decoders : Transfer!Receive(r)) \/ UNCHANGED Transfer!transferVars
<1>1. UNCHANGED payloads /\ DOMAIN dec = Decoders /\ DOMAIN dec' = Decoders
  BY DecInvByCall, DecInvByCallNext DEF encVars, IInv
<1>2. dec[d].status # "ok" /\ \A c \in Decoders \ {d} : dec'[c] = dec[c]
  BY <1>1 DEF Receive, Open, Unstarted, Decode, DecodeFrame, RejectFrame, RejectCut, ReadEnd,
     RunOut, AtItem, Reading, Stop
<1>3. CASE dec'[d].status = "ok"
  BY <1>1, <1>2, <1>3, AcceptMaps
<1>4. CASE dec'[d].status # "ok"
  <2>1. Accepted' = {c \in Decoders : dec'[c].status = "ok"}
    BY DEF Accepted, Started, Unstarted
  <2>2. Accepted' = Accepted /\ \A c \in Accepted : dec'[c] = dec[c]
    BY <1>2, <1>4, <2>1, AcceptedCalls
  <2>. QED  BY <1>1, <2>2, QuietMaps
<1>. QED  BY <1>3, <1>4

\* Encoders and decode calls, with their frames, flags, store and zstd streams,
\* transfer messages: the refinement that the run about features checks.
THEOREM CodecImplementsTransfer == Spec => ImplementsTransfer
<1>1. IInv /\ IInv' /\ [Next]_vars => [Transfer!Next]_(Transfer!transferVars)
  <2>. SUFFICES ASSUME IInv, IInv', [Next]_vars
                PROVE  Transfer!Next \/ UNCHANGED Transfer!transferVars
    OBVIOUS
  <2>1. ASSUME NEW e \in Encoders, EncNext(e), UNCHANGED dec
        PROVE  Transfer!Next \/ UNCHANGED Transfer!transferVars
    BY <2>1, EncoderMaps DEF Transfer!Next
  <2>2. ASSUME NEW d \in Decoders, Receive(d) \/ Decode(d), UNCHANGED encVars
        PROVE  Transfer!Next \/ UNCHANGED Transfer!transferVars
    BY <2>2, DecoderMaps DEF Transfer!Next
  <2>3. CASE UNCHANGED vars
    <3>1. UNCHANGED <<payloads, dec>>
      BY <2>3 DEF vars, encVars
    <3>. QED  BY <3>1, QuietMaps DEF Accepted, Started
  <2>. QED  BY <2>1, <2>2, <2>3 DEF Next
<1>. QED  BY <1>1, InitMaps, InvariantHolds, PTL DEF Spec, ImplementsTransfer, Transfer!Spec
-----------------------------------------------------------------------------
(* What encode() saves: under auto-dedup no payload has a body inline      *)
(* twice, and no frame of a compressed payload is compressed on its own.   *)
(* Both are about a payload that is returned; SavingInv says what they     *)
(* need of the output of an encode() that is still running.                *)

\* InlineOnce and NoDoubleCompression, of one payload.
PayloadSaves(p) ==
  /\ p.by.autoDedup =>
       \A i, j \in DOMAIN p.message :
         (i < j /\ ~p.items[i].reference /\ ~p.items[j].reference)
         => Body(p.message[i]) # Body(p.message[j])
  /\ p.compressed => \A i \in DOMAIN p.message : ~p.items[i].compressed

LEMMA SavingByPayload ==
  (\A p \in payloads : PayloadSaves(p)) <=> InlineOnce /\ NoDoubleCompression
BY DEF PayloadSaves, InlineOnce, NoDoubleCompression

\* A step of one encoder that only adds to the store leaves the others' output and
\* the payloads that are out as they were.
LEMMA SavingFrame ==
  ASSUME NEW e \in Encoders, SavingInv, StoreGrows,
         \A f \in Encoders \ {e} :
           job'[f] = job[f] /\ opts'[f] = opts[f] /\ blocks'[f] = blocks[f],
         OutUncompressed(e)', FirstsOnce(e)',
         \A p \in payloads' \ payloads : PayloadSaves(p)
  PROVE  SavingInv'
<1>1. ASSUME NEW f \in Encoders \ {e}
      PROVE  OutUncompressed(f)' /\ FirstsOnce(f)'
  <2>1. job'[f] = job[f] /\ opts'[f] = opts[f] /\ blocks'[f] = blocks[f]
    OBVIOUS
  <2>2. OutUncompressed(f)'
    BY <2>1 DEF SavingInv, OutUncompressed
  <2>3. FirstsOnce(f)'
    BY <2>1 DEF SavingInv, FirstsOnce, WrittenOnce, InlineIsNew, BodiesOut, Current, StoreGrows,
                Contains
  <2>. QED  BY <2>2, <2>3
<1>2. \A p \in payloads' : PayloadSaves(p)
  BY SavingByPayload DEF SavingInv
<1>3. (InlineOnce /\ NoDoubleCompression)'
  BY <1>2 DEF PayloadSaves, InlineOnce, NoDoubleCompression
<1>. QED  BY <1>1, <1>3 DEF SavingInv

\* An encoder with no encode() in progress has written nothing.
LEMMA NothingOut ==
  ASSUME NEW e, job'[e].pc = "build", job'[e].out = <<>>
  PROVE  OutUncompressed(e)' /\ FirstsOnce(e)'
BY DEF OutUncompressed, FirstsOnce

\* A stage that appends no frame keeps what is said of the frames that are out.
LEMMA StageKeeps ==
  ASSUME NEW e \in Encoders, SavingInv, StoreGrows, UNCHANGED <<blocks, opts>>,
         job[e].pc # "build", job'[e].out = job[e].out
  PROVE  /\ OutUncompressed(e)'
         /\ opts[e].autoDedup => WrittenOnce(e)'
         /\ BodiesOut(e)' = BodiesOut(e)
         /\ Current(e)' = Current(e)
<1>1. OutUncompressed(e)'
  BY DEF SavingInv, OutUncompressed
<1>2. BodiesOut(e)' = BodiesOut(e) /\ Current(e)' = Current(e)
  BY DEF BodiesOut, Current
<1>3. opts[e].autoDedup => WrittenOnce(e)'
  BY <1>2 DEF SavingInv, FirstsOnce, WrittenOnce, StoreGrows, Contains
<1>. QED  BY <1>1, <1>2, <1>3

LEMMA SavingBuild ==
  ASSUME NEW e \in Encoders, EncInv, SavingInv, Build(e)
  PROVE  SavingInv'
<1>1. job[e].pc = "build" /\ UNCHANGED <<job, payloads, store>>
  BY DEF Build, Building, AddBlock, AddAnnotation, WithSummary, WithPriority, WithCompression,
     WithContentAddressing, CompressBlocks, CompressPayload, SetContentStore, AutoDedup,
     PushBlock, ReplaceLast, SetOpts
<1>2. \A f \in Encoders \ {e} : opts'[f] = opts[f] /\ blocks'[f] = blocks[f]
  BY DEF Build, AddBlock, AddAnnotation, WithSummary, WithPriority, WithCompression,
     WithContentAddressing, CompressBlocks, CompressPayload, SetContentStore, AutoDedup,
     PushBlock, ReplaceLast, SetOpts, EncInv, EncTypeOK
<1>3. OutUncompressed(e)' /\ FirstsOnce(e)'
  BY <1>1, NothingOut DEF EncInv, InHand
<1>. QED  BY <1>1, <1>2, <1>3, GrowsIsReflexive, SavingFrame

\* Validation has made sure of a store when deduplication needs one.
LEMMA SavingBegin ==
  ASSUME NEW e \in Encoders, EncInv, SavingInv, BeginEncode(e)
  PROVE  SavingInv'
<1>1. UNCHANGED <<blocks, opts, payloads, store>>
      /\ \A f \in Encoders \ {e} : job'[f] = job[f]
  BY DEF BeginEncode, EncInv, EncTypeOK
<1>2. CASE blocks[e] = <<>> \/ (NeedsStore(e) /\ ~opts[e].hasStore)
  <2>1. job'[e].pc = "build" /\ job'[e].out = <<>>
    BY <1>2 DEF BeginEncode, EncInv, InHand
  <2>. QED  BY <1>1, <2>1, NothingOut, GrowsIsReflexive, SavingFrame
<1>3. CASE ~(blocks[e] = <<>> \/ (NeedsStore(e) /\ ~opts[e].hasStore))
  <2>1. job'[e].pc = "serialize" /\ job'[e].out = <<>>
    BY <1>3 DEF BeginEncode, Idle, EncInv, EncTypeOK
  <2>2. OutUncompressed(e)'
    BY <2>1 DEF OutUncompressed
  <2>3. opts[e].autoDedup => opts[e].hasStore
    BY <1>3 DEF NeedsStore
  <2>4. FirstsOnce(e)'
    BY <1>1, <2>1, <2>3 DEF FirstsOnce, WrittenOnce, InlineIsNew, BodiesOut
  <2>. QED  BY <1>1, <2>2, <2>4, GrowsIsReflexive, SavingFrame
<1>. QED  BY <1>2, <1>3

\* A stage on the current block: what it says of the body in hand is all that is new.
LEMMA SavingStage ==
  ASSUME NEW e \in Encoders, SavingInv, StoreGrows, UNCHANGED <<blocks, opts, payloads>>,
         \A f \in Encoders \ {e} : job'[f] = job[f],
         job[e].pc # "build", job'[e].out = job[e].out,
         opts[e].autoDedup => InlineIsNew(e)'
  PROVE  SavingInv'
<1>1. OutUncompressed(e)' /\ FirstsOnce(e)'
  BY StageKeeps DEF FirstsOnce
<1>. QED  BY <1>1, SavingFrame

LEMMA SavingSerialize ==
  ASSUME NEW e \in Encoders, EncInv, SavingInv, SerializeBlock(e)
  PROVE  SavingInv'
<1>. DEFINE body == Body(Current(e).block)
<1>1. job[e].pc = "serialize" /\ UNCHANGED <<blocks, opts, payloads, store>> /\ StoreGrows
  BY GrowsIsReflexive DEF SerializeBlock
<1>2. CASE Len(body) > MaxBlockBody
  <2>1. /\ job'[e].pc = "build" /\ job'[e].out = <<>>
        /\ \A f \in Encoders \ {e} : job'[f] = job[f]
    BY <1>2 DEF SerializeBlock, Return, Idle, EncInv, EncTypeOK
  <2>. QED  BY <1>1, <2>1, NothingOut, SavingFrame
<1>3. CASE ~(Len(body) > MaxBlockBody)
  <2>1. /\ job'[e].pc = "address" /\ job'[e].out = job[e].out
        /\ \A f \in Encoders \ {e} : job'[f] = job[f]
    BY <1>3 DEF SerializeBlock, EncInv, EncTypeOK, Job
  <2>2. InlineIsNew(e)'
    BY <2>1 DEF InlineIsNew
  <2>. QED  BY <1>1, <2>1, <2>2, SavingStage
<1>. QED  BY <1>2, <1>3

\* Under auto-dedup a body is kept inline only when contains() has said no: every
\* body that is out is in the store, so it is none of them.
LEMMA SavingAddress ==
  ASSUME NEW e \in Encoders, EncInv, SavingInv, ApplyContentAddressing(e)
  PROVE  SavingInv'
<1>. DEFINE body == Body(Current(e).block)
<1>1. /\ job[e].pc = "address" /\ UNCHANGED <<blocks, opts, encodes, payloads>>
      /\ job[e].body = Plain(body) /\ Len(job[e].out) < Len(blocks[e])
  BY DEF ApplyContentAddressing, EncInv, InHand
<1>2. body \in Bytes /\ job[e].body.data = body
  BY <1>1, CurrentBody DEF EncInv, Plain
<1>3. StoreGrows /\ (AddressExplicitly(e) => Hash(body) \in DOMAIN store')
  <2>1. CASE AddressExplicitly(e)
    <3>1. Put(body)
      BY <1>2, <2>1 DEF AddressExplicitly
    <3>. QED  BY <1>2, <3>1, PutSound DEF EncInv, Contains
  <2>2. CASE ~AddressExplicitly(e)
    BY <2>2, GrowsIsReflexive DEF ApplyContentAddressing, KeepInline, LookUpDuplicate
  <2>. QED  BY <2>1, <2>2
<1>4. /\ job'[e].out = job[e].out
      /\ \A f \in Encoders \ {e} : job'[f] = job[f]
      /\ KeepInline(e) => job'[e].pc = "emit"
      /\ AddressExplicitly(e) => job'[e].pc = "emit" /\ job'[e].reference = TRUE
      /\ LookUpDuplicate(e) =>
           IF Contains(Hash(body)) THEN job'[e].pc = "emit" /\ job'[e].reference = TRUE
           ELSE job'[e].pc = "register"
  BY <1>2 DEF ApplyContentAddressing, KeepInline, AddressExplicitly, LookUpDuplicate, Inline,
     Reference, EncInv, EncTypeOK, Job
<1>5. BodiesOut(e)' = BodiesOut(e) /\ Current(e)' = Current(e)
  BY <1>1, <1>3, <1>4, StageKeeps
<1>6. ASSUME opts[e].autoDedup
      PROVE  InlineIsNew(e)'
  <2>1. WrittenOnce(e)
    BY <1>1, <1>6 DEF SavingInv, FirstsOnce
  <2>2. ~KeepInline(e)
    BY <1>6, <2>1 DEF KeepInline, WrittenOnce
  <2>3. CASE AddressExplicitly(e)
    BY <1>3, <1>4, <1>5, <2>3 DEF InlineIsNew, Contains
  <2>4. CASE LookUpDuplicate(e) /\ Contains(Hash(body))
    <3>1. Hash(body) \in DOMAIN store'
      BY <1>3, <2>4 DEF Contains, StoreGrows
    <3>. QED  BY <1>4, <1>5, <2>4, <3>1 DEF InlineIsNew, Contains
  <2>5. CASE LookUpDuplicate(e) /\ ~Contains(Hash(body))
    <3>1. body \notin BodiesOut(e)
      BY <2>1, <2>5 DEF WrittenOnce
    <3>. QED  BY <1>4, <1>5, <2>5, <3>1 DEF InlineIsNew
  <2>. QED  BY <2>2, <2>3, <2>4, <2>5 DEF ApplyContentAddressing
<1>. QED  BY <1>1, <1>3, <1>4, <1>6, SavingStage

\* Others may have put the body in between: it is still none that this encode() has
\* written.
LEMMA SavingRegister ==
  ASSUME NEW e \in Encoders, EncInv, SavingInv, RegisterFirst(e)
  PROVE  SavingInv'
<1>. DEFINE body == Body(Current(e).block)
<1>1. /\ job[e].pc = "register" /\ UNCHANGED <<blocks, opts, payloads>>
      /\ job[e].body = Plain(body) /\ Len(job[e].out) < Len(blocks[e])
  BY DEF RegisterFirst, EncInv, InHand
<1>2. body \in Bytes /\ job[e].body.data = body
  BY <1>1, CurrentBody DEF EncInv, Plain
<1>3. StoreGrows /\ Hash(body) \in DOMAIN store'
  <2>1. Put(body)
    BY <1>2 DEF RegisterFirst
  <2>. QED  BY <1>2, <2>1, PutSound DEF EncInv, Contains
<1>4. /\ job'[e].out = job[e].out /\ job'[e].pc = "emit"
      /\ \A f \in Encoders \ {e} : job'[f] = job[f]
  BY DEF RegisterFirst, Inline, EncInv, EncTypeOK, Job
<1>5. BodiesOut(e)' = BodiesOut(e) /\ Current(e)' = Current(e)
  BY <1>1, <1>3, <1>4, StageKeeps
<1>6. opts[e].autoDedup => InlineIsNew(e)'
  BY <1>1, <1>3, <1>4, <1>5 DEF InlineIsNew, SavingInv, FirstsOnce, Contains
<1>. QED  BY <1>1, <1>3, <1>4, <1>6, SavingStage

\* A frame is inline only if its body is none of those written before it, and it is
\* compressed only if the payload will not be.
LEMMA SavingEmit ==
  ASSUME NEW e \in Encoders, EncInv, SavingInv, EmitFrame(e)
  PROVE  SavingInv'
<1>. DEFINE out == job[e].out
            body == Body(Current(e).block)
<1>1. /\ job[e].pc = "emit" /\ UNCHANGED <<blocks, opts, payloads, store>>
      /\ StoreGrows
      /\ \A f \in Encoders \ {e} : job'[f] = job[f]
      /\ job'[e].pc = "serialize" /\ job'[e].out = Append(out, FrameFor(e))
      /\ out \in Seq(Frame)
  BY GrowsIsReflexive DEF EmitFrame, EncInv, EncTypeOK, Job
<1>2. /\ FrameFor(e).reference = job[e].reference
      /\ opts[e].compressPayload => ~FrameFor(e).compressed
  BY DEF FrameFor, FrameOf, ShouldCompress
<1>3. FrameFor(e) \in Frame
  BY <1>1, FrameForCarries
<1>4. /\ Len(out) \in Nat /\ DOMAIN out = 1 .. Len(out)
      /\ DOMAIN job'[e].out = 1 .. Len(out) + 1
      /\ \A i \in 1 .. Len(out) : job'[e].out[i] = out[i]
      /\ job'[e].out[Len(out) + 1] = FrameFor(e)
  BY <1>1, <1>3
<1>5. OutUncompressed(e)'
  BY <1>1, <1>2, <1>4 DEF SavingInv, OutUncompressed
<1>6. body = Body(blocks[e][Len(out) + 1].block)
  BY DEF Current
<1>7. ASSUME opts[e].autoDedup
      PROVE  WrittenOnce(e)' /\ InlineIsNew(e)'
  <2>1. WrittenOnce(e) /\ InlineIsNew(e)
    BY <1>1, <1>7 DEF SavingInv, FirstsOnce
  <2>2. Contains(Hash(body)) /\ (~job[e].reference => body \notin BodiesOut(e))
    BY <1>1, <2>1 DEF InlineIsNew
  <2>3. \A i \in 1 .. Len(out) + 1 : Contains(Hash(Body(blocks[e][i].block)))
    BY <1>4, <1>6, <2>1, <2>2 DEF WrittenOnce, BodiesOut
  <2>4. (\A b \in BodiesOut(e) : Contains(Hash(b)))'
    BY <1>1, <1>4, <2>3 DEF BodiesOut, Contains
  <2>5. ASSUME NEW i \in 1 .. Len(out) + 1, NEW k \in 1 .. Len(out) + 1, i < k,
               ~job'[e].out[i].reference, ~job'[e].out[k].reference
        PROVE  Body(blocks[e][i].block) # Body(blocks[e][k].block)
    <3>1. i \in 1 .. Len(out) /\ job'[e].out[i] = out[i]
      BY <1>4, <2>5
    <3>2. CASE k \in 1 .. Len(out)
      BY <1>4, <2>1, <2>5, <3>1, <3>2 DEF WrittenOnce
    <3>3. CASE k = Len(out) + 1
      <4>1. body \notin BodiesOut(e)
        BY <1>2, <1>4, <2>2, <2>5, <3>3
      <4>. QED  BY <1>4, <1>6, <3>1, <3>3, <4>1 DEF BodiesOut
    <3>. QED  BY <1>4, <3>2, <3>3
  <2>6. WrittenOnce(e)'
    BY <1>1, <1>4, <2>1, <2>4, <2>5 DEF WrittenOnce
  <2>7. InlineIsNew(e)'
    BY <1>1 DEF InlineIsNew
  <2>. QED  BY <2>6, <2>7
<1>8. FirstsOnce(e)'
  BY <1>1, <1>7 DEF FirstsOnce
<1>. QED  BY <1>1, <1>5, <1>8, SavingFrame

\* What holds of the output holds of the payload made of it.
LEMMA SavingFinish ==
  ASSUME NEW e \in Encoders, EncInv, SavingInv, FinishEncode(e)
  PROVE  SavingInv'
<1>. DEFINE message == [i \in DOMAIN blocks[e] |-> blocks[e][i].block]
            items == Append(job[e].out, EndItem)
<1>1. /\ job[e].pc = "serialize" /\ Len(job[e].out) = Len(blocks[e])
      /\ job[e].out \in Seq(Frame) /\ blocks[e] \in Seq(Pending)
      /\ UNCHANGED <<blocks, opts, store>> /\ StoreGrows
      /\ \A f \in Encoders \ {e} : job'[f] = job[f]
      /\ job'[e].pc = "build" /\ job'[e].out = <<>>
  BY GrowsIsReflexive DEF FinishEncode, Return, Idle, EncInv, EncTypeOK, Job
<1>2. PICK z \in {opts[e].compressPayload, FALSE} : payloads' = payloads \cup
        {[compressed |-> z, items |-> items, size |-> job[e].size + FrameHead,
          message |-> message, by |-> opts[e]]}
  BY DEF FinishEncode
<1>. DEFINE p == [compressed |-> z, items |-> items, size |-> job[e].size + FrameHead,
                  message |-> message, by |-> opts[e]]
<1>3. /\ DOMAIN message = DOMAIN job[e].out
      /\ \A i \in DOMAIN message : items[i] = job[e].out[i]
      /\ \A i \in DOMAIN message : message[i] = blocks[e][i].block
  BY <1>1
<1>4. PayloadSaves(p)
  <2>1. ASSUME opts[e].autoDedup,
               NEW i \in DOMAIN message, NEW k \in DOMAIN message, i < k,
               ~items[i].reference, ~items[k].reference
        PROVE  Body(message[i]) # Body(message[k])
    BY <1>1, <1>3, <2>1 DEF SavingInv, FirstsOnce, WrittenOnce
  <2>2. ASSUME z, NEW i \in DOMAIN message
        PROVE  ~items[i].compressed
    BY <1>3, <2>2 DEF SavingInv, OutUncompressed
  <2>. QED  BY <2>1, <2>2 DEF PayloadSaves
<1>5. \A q \in payloads' \ payloads : PayloadSaves(q)
  BY <1>2, <1>4
<1>. QED  BY <1>1, <1>5, NothingOut, SavingFrame
-----------------------------------------------------------------------------
(* The theorems.                                                           *)

LEMMA SavingStep ==
  ASSUME IInv, SavingInv, [Next]_vars
  PROVE  SavingInv'
<1>1. ASSUME NEW e \in Encoders, EncNext(e)
      PROVE  SavingInv'
  BY <1>1, SavingBuild, SavingBegin, SavingSerialize, SavingAddress, SavingRegister,
     SavingEmit, SavingFinish DEF IInv, EncNext, Encode
<1>2. CASE UNCHANGED <<encVars, store>>
  <2>1. UNCHANGED <<blocks, opts, job, payloads, store>>
    BY <1>2 DEF encVars
  <2>. QED  BY <2>1 DEF SavingInv, OutUncompressed, FirstsOnce, WrittenOnce, InlineIsNew,
            BodiesOut, Current, Contains, InlineOnce, NoDoubleCompression
<1>3. ASSUME NEW d \in Decoders, (Receive(d) \/ Decode(d)) /\ UNCHANGED encVars
      PROVE  UNCHANGED <<encVars, store>>
  BY <1>3 DEF Receive, Open, Decode, DecodeFrame, RejectFrame, RejectCut, ReadEnd, RunOut,
         Stop
<1>. QED  BY <1>1, <1>2, <1>3 DEF Next, vars

\* The inductive invariant of what encode() saves, on top of IInv.
THEOREM SavingHolds == Spec => []SavingInv
<1>1. Init => SavingInv
  BY DEF Init, StoreInit, EncInit, Idle, SavingInv, OutUncompressed, FirstsOnce, InlineOnce,
         NoDoubleCompression
<1>2. IInv /\ SavingInv /\ [Next]_vars => SavingInv'
  BY SavingStep
<1>. QED  BY <1>1, <1>2, InvariantHolds, PTL DEF Spec

\* With auto_dedup no payload has a body inline twice, whatever other encoders put
\* between this one's contains() and its put() (encoder.rs, apply_content_addressing).
THEOREM InlinedOnce == Spec => []InlineOnce
<1>1. SavingInv => InlineOnce
  BY DEF SavingInv
<1>. QED  BY <1>1, SavingHolds, PTL

\* The frames of a compressed payload are not compressed on their own (encoder.rs,
\* encode).
THEOREM CompressedOnce == Spec => []NoDoubleCompression
<1>1. SavingInv => NoDoubleCompression
  BY DEF SavingInv
<1>. QED  BY <1>1, SavingHolds, PTL
=============================================================================
