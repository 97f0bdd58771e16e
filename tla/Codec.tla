-------------------------------- MODULE Codec --------------------------------
(***************************************************************************)
(* Encoders and decode calls around one shared content store: what is      *)
(* encoded, possibly damaged on its way, is decoded.                       *)
(***************************************************************************)
EXTENDS Encoder, Decoder

vars == <<encVars, store, dec>>

Init == StoreInit /\ EncInit /\ DecInit

\* A decode call starts on some delivery of some payload.
Receive(d) ==
  \E p \in payloads, damage \in Damage, kind \in Stores :
    \E w \in Deliveries(p, damage) : Open(d, p, w, kind)

Next ==
  \/ \E e \in Encoders : EncNext(e) /\ UNCHANGED dec
  \/ \E d \in Decoders : (Receive(d) \/ Decode(d)) /\ UNCHANGED encVars

Spec == Init /\ [][Next]_vars

\* encode() and decode() are straight-line loops on their caller's thread: once
\* started they keep running.  Nothing obliges a caller to start one.
Fairness ==
  /\ \A e \in Encoders : WF_vars(Encode(e) /\ UNCHANGED dec)
  /\ \A d \in Decoders : WF_vars(Decode(d) /\ UNCHANGED encVars)

FairSpec == Spec /\ Fairness
-----------------------------------------------------------------------------
DecodeCall ==
  [status : {"reading", "ok"} \cup Faults, sent : Payload, wire : Delivery,
   store : StoreKinds, blocks : Seq(Block)]

DecTypeOK ==
  /\ DOMAIN dec = Decoders
  /\ \A d \in Decoders : dec[d] = Unstarted \/ dec[d] \in DecodeCall

\* Every variable has its type, and the store files each body under its hash
\* (content_store.rs, put).
TypeOK == EncTypeOK /\ StoreSound /\ DecTypeOK

\* Frame f carries block b: its flags say what its body is, a reference names
\* bytes the store has, and no decoder limit is below what the encoder wrote.
Carries(f, b) ==
  /\ f.kind = "block" /\ f.type = b.type
  /\ f.hasSummary = HasSummary(b)
  /\ f.body = IF f.reference THEN HashOf(Body(b))
              ELSE IF f.compressed THEN Zstd(Body(b)) ELSE Plain(Body(b))
  /\ f.reference => ~f.compressed /\ Contains(Hash(Body(b)))
  /\ Len(Body(b)) <= MaxBlockBody

\* The output of a running encode(), and a payload one has returned.
OutCarries(e) ==
  /\ Len(job[e].out) <= Len(blocks[e])
  /\ \A i \in DOMAIN job[e].out : Carries(job[e].out[i], blocks[e][i].block)

PayloadCarries(p) ==
  /\ Len(p.items) = Len(p.message) + 1
  /\ p.items[Len(p.items)] = EndItem
  /\ \A i \in DOMAIN p.message : Carries(p.items[i], p.message[i])

\* Whatever an encoder has written, in a returned payload or in the output of a
\* call still running, carries the caller's blocks, in order, one frame each,
\* whatever other encoders did to the store in between (encoder.rs, encode).
FramesCarryBlocks ==
  /\ \A e \in Encoders : OutCarries(e)
  /\ \A p \in payloads : PayloadCarries(p)

\* The decode calls that have started, and those that may find every reference
\* and every byte they need.
Started == {d \in Decoders : dec[d] # Unstarted}
WellServed == {d \in Started : dec[d].wire.intact /\ dec[d].store = "shared"}

\* A decode call yields the blocks that were encoded, with their types and
\* summaries, in order: a prefix of them while it reads, all of them when it
\* returns Ok, whatever happened to the payload on its way.
DecodedIsSent ==
  \A d \in Started :
    LET got == dec[d].blocks  sent == dec[d].sent.message IN
    /\ Len(got) <= Len(sent)
    /\ \A i \in DOMAIN got : got[i] = sent[i]
    /\ dec[d].status = "ok" => Len(got) = Len(sent)

\* What arrived is what was sent, but for zstd frames without content behind the stream
\* of a compressed payload.
SentWhole(w, p) == w.intact \/ (p.compressed /\ w.unzips /\ w.items = p.items)

\* A payload that lost bytes is never accepted, nor one that gained some, unless they
\* add nothing to a compressed one that decompresses (decoder.rs, decode_inner;
\* decompression.rs, decompress).
AcceptedIsWhole ==
  \A d \in Started : dec[d].status = "ok" => SentWhole(dec[d].wire, dec[d].sent)

\* The decoder inverts the encoder (decoder.rs:40): an undamaged payload read
\* with the encoders' store decodes.  The one exception is a compressed payload
\* beyond the decoder's own limit, which encode() does not have.
IntactDecodes ==
  \A d \in WellServed :
    (dec[d].sent.compressed => dec[d].sent.size <= MaxPayload)
    => dec[d].status \in {"reading", "ok"}

\* auto_dedup: within one payload a body is inline at most once, even when
\* other encoders register bodies between this one's contains() and put().
InlineOnce ==
  \A p \in payloads : p.by.autoDedup =>
    \A i, j \in DOMAIN p.message :
      (i < j /\ ~p.items[i].reference /\ ~p.items[j].reference)
      => Body(p.message[i]) # Body(p.message[j])

\* A body is never compressed twice: the frames inside a whole-payload zstd
\* stream are not compressed on their own.
NoDoubleCompression ==
  \A p \in payloads : p.compressed =>
    \A i \in DOMAIN p.message : ~p.items[i].compressed

\* Every encode() that passed validation returns.
EncodeReturns ==
  \A e \in Encoders : job[e].pc # "build" ~> job[e].pc = "build"

\* Every decode call returns, on damaged input too.
DecodeReturns ==
  \A d \in Decoders : dec[d].status = "reading" ~> dec[d].status # "reading"
-----------------------------------------------------------------------------
(* The inductive invariant behind FramesCarryBlocks and DecodedIsSent.     *)

\* Between the stages of one block, the body in hand is still that block's.
InHand(e) ==
  LET j == job[e]  body == Body(Current(e).block) IN
  /\ j.pc = "build" => j.out = <<>>
  /\ j.pc \in {"address", "register", "emit"} =>
       Len(j.out) < Len(blocks[e]) /\ Len(body) <= MaxBlockBody
  /\ j.pc \in {"address", "register"} => j.body = Plain(body)
  /\ j.pc = "emit" /\ ~j.reference => j.body = Plain(body)
  /\ j.pc = "emit" /\ j.reference => j.body = HashOf(body) /\ Contains(Hash(body))

EncInv ==
  EncTypeOK /\ StoreSound /\ FramesCarryBlocks /\ \A e \in Encoders : InHand(e)

\* What a delivery has in common with the payload it comes from.
DeliveryOf(w, p) ==
  /\ w.intact => w.header /\ w.unzips /\ w.size = p.size /\ w.items = p.items
  /\ \A i \in DOMAIN w.items :
       w.items[i] # CutItem => i <= Len(p.items) /\ w.items[i] = p.items[i]
  /\ (~w.intact /\ ~p.compressed) =>
       (Len(w.items) = Len(p.items) => w.items[Len(w.items)] = CutItem)
  /\ p.compressed /\ w.unzips => w.items \in {p.items, Append(p.items, CutItem)}

\* A decode call reads what an encoder sent; a zstd stream that does not decompress
\* has already ended the call.
DecodingSent ==
  \A d \in Started :
    /\ dec[d].sent \in payloads
    /\ DeliveryOf(dec[d].wire, dec[d].sent)
    /\ dec[d].sent.compressed /\ ~dec[d].wire.unzips
         => dec[d].status \notin {"reading", "ok"}

DecInv ==
  DecTypeOK /\ DecodingSent /\ DecodedIsSent /\ AcceptedIsWhole /\ IntactDecodes

IInv == EncInv /\ DecInv

\* What InlineOnce and NoDoubleCompression need of an encode() in progress: under
\* whole-payload compression its output has no compressed frame; under auto-dedup
\* every body it has written is in the store, and a body that is to be inline is
\* not among them.
OutUncompressed(e) ==
  opts[e].compressPayload => \A i \in DOMAIN job[e].out : ~job[e].out[i].compressed

BodiesOut(e) == {Body(blocks[e][i].block) : i \in DOMAIN job[e].out}

WrittenOnce(e) ==
  LET out == job[e].out IN
  /\ opts[e].hasStore
  /\ \A b \in BodiesOut(e) : Contains(Hash(b))
  /\ \A i, k \in DOMAIN out :
       (i < k /\ ~out[i].reference /\ ~out[k].reference)
       => Body(blocks[e][i].block) # Body(blocks[e][k].block)

InlineIsNew(e) ==
  LET j == job[e]  body == Body(Current(e).block) IN
  /\ j.pc = "register" => body \notin BodiesOut(e)
  /\ j.pc = "emit" /\ ~j.reference => body \notin BodiesOut(e)
  /\ j.pc = "emit" => Contains(Hash(body))

FirstsOnce(e) ==
  opts[e].autoDedup /\ job[e].pc # "build" => WrittenOnce(e) /\ InlineIsNew(e)

SavingInv ==
  /\ \A e \in Encoders : OutUncompressed(e) /\ FirstsOnce(e)
  /\ InlineOnce /\ NoDoubleCompression
-----------------------------------------------------------------------------
(* The abstract specification: BcpEncoder and BcpDecoder transfer messages. *)

Transfer == INSTANCE ContextTransfer WITH
  Receivers <- Decoders,
  sent <- {p.message : p \in payloads},
  got <- [d \in {c \in Started : dec[c].status = "ok"} |-> dec[d].blocks]

\* An encode() that returns Ok sends its blocks in one step, a decode call that
\* returns Ok receives all the blocks of one encode() in one step, and every other
\* step of either is invisible (encoder.rs, encode; decoder.rs, decode_inner).
ImplementsTransfer == Transfer!Spec
-----------------------------------------------------------------------------
(* Statements of the repository that the code does not bear out.           *)

\* decoder.rs:40 without the exception: every undamaged payload decodes.
DecodeInvertsEncode ==
  \A d \in WellServed : dec[d].status \in {"reading", "ok"}

\* "with_priority targets the last non-annotation block": no priority
\* annotation is about another annotation.
PriorityTargetsContent ==
  \A e \in Encoders : \A i, j \in DOMAIN blocks[e] :
    (/\ blocks[e][i].block.type = ANNOTATION
     /\ blocks[e][i].block.tlv[1] = j - 1)
    => blocks[e][j].block.type # ANNOTATION
=============================================================================
