------------------------------ MODULE StreamCodec ------------------------------
(***************************************************************************)
(* Streaming decoders beside the encoders, the store and the synchronous   *)
(* decode calls of Codec.                                                  *)
(***************************************************************************)
EXTENDS Codec, StreamingDecoder

streamVars == <<vars, str>>

SInit == Init /\ StreamInit

\* A streaming decoder is opened on some source of some payload.
Listen(s) ==
  \E p \in payloads, damage \in StreamDamage, kind \in StreamStores :
    \E source \in Sources(p, damage) : OpenStream(s, p, source, kind)

SNext ==
  \/ Next /\ UNCHANGED str
  \/ \E s \in Streams : (Listen(s) \/ Stream(s)) /\ UNCHANGED vars

SSpec == SInit /\ [][SNext]_streamVars

\* The other end of the reader sends on or closes, so a call that waits is answered;
\* the caller asks until it sees None, as the loop of streaming.rs:80 does.
StreamFairness ==
  /\ \A s \in Streams : WF_streamVars(Answer(s) /\ UNCHANGED vars)
  /\ \A s \in Streams : WF_streamVars((CallNext(s) \/ CallDone(s)) /\ UNCHANGED vars)

SFairSpec == SSpec /\ Fairness /\ StreamFairness
-----------------------------------------------------------------------------
OpenStreams == {s \in Streams : Opened(s)}

StreamSource ==
  [header : BOOLEAN, unzips : BOOLEAN, intact : BOOLEAN, items : Seq(StreamItem),
   compressed : BOOLEAN, size : Nat]

StreamRecord ==
  [state : {"ReadHeader", "ReadBlocks", "Done"}, pc : {"ready", "called", "unzip"},
   sent : Payload, source : StreamSource, store : StoreKinds, buffered : BOOLEAN,
   at : Nat, part : 0 .. 3, aligned : BOOLEAN, interrupts : 0 .. MaxInterrupts,
   got : Seq(Block), errs : SUBSET (Faults \cup {"Io"}), garbage : BOOLEAN,
   ended : BOOLEAN]

\* The stream record has its type.
StreamTypeOK == \A s \in OpenStreams : str[s] \in StreamRecord

\* The blocks a stream yields before it has lost its place are blocks that were
\* sent, in their order: all of those in front of the first error, and across
\* frames that were refused (decode_frame consumes them) no other ones
\* (streaming.rs, read_next_block).
StreamedIsSent ==
  \A s \in OpenStreams :
    LET got == str[s].got  sent == str[s].sent.message IN
    /\ str[s].errs = {} => Len(got) <= Len(sent) /\ \A i \in DOMAIN got : got[i] = sent[i]
    /\ \E f \in [DOMAIN got -> DOMAIN sent] :
         /\ \A i, j \in DOMAIN got : i < j => f[i] < f[j]
         /\ \A i \in DOMAIN got : got[i] = sent[f[i]]

\* next() returns None without an error before it only when every block that was
\* sent has been yielded: a payload cut at a frame boundary never looks like a
\* shorter one (streaming.rs, StreamState and read_end_frame_tail).
NoneMeansWhole ==
  \A s \in OpenStreams :
    (str[s].ended /\ str[s].errs = {} /\ str[s].aligned) => str[s].got = str[s].sent.message

\* A decode call and an undisturbed stream over the same bytes with the same store.
SameInput(d, s) ==
  /\ d \in Started /\ str[s].interrupts = 0
  /\ dec[d].sent = str[s].sent /\ dec[d].store = str[s].store
  /\ str[s].source = Source(dec[d].sent, dec[d].wire)

\* The two decoders agree (streaming.rs, streaming_matches_sync_decoder): what
\* decode() accepts streams without an error, to the same blocks, and a stream that
\* ends without an error is either accepted by decode() or carries trailing bytes.
AgreesWithDecode ==
  \A s \in OpenStreams : \A d \in Decoders : SameInput(d, s) =>
    /\ dec[d].status = "ok" =>
         /\ str[s].errs = {}
         /\ str[s].ended => str[s].got = dec[d].blocks
    /\ (str[s].ended /\ str[s].errs = {}) => dec[d].status \in {"reading", "ok", "TrailingData"}

\* An error of framing is final while the reader keeps its place: the stream never
\* goes back, and no later call yields a block, on a drained reader as on a buffer
\* whose cursor did not move (streaming.rs, read_next_block).
NothingAfterTruncation ==
  [][\A s \in OpenStreams :
       LET framing == str[s].errs \cap {"Io", "MissingEndSentinel"} # {} \/ Before(s, "cut")
       IN  /\ str'[s].at >= str[s].at
           /\ (str[s].interrupts = 0 /\ framing) => str'[s].got = str[s].got]_streamVars

\* The loop of the documentation over an undamaged payload with the encoders'
\* store: it sees None, unless a call was cut off inside a frame or the payload is
\* over the limit (streaming.rs:80).
Unharmed(s) ==
  Opened(s) /\ str[s].source.intact /\ str[s].store = "shared"
    /\ (str[s].source.compressed => str[s].source.size <= MaxPayload)

StreamEnds ==
  \A s \in Streams : Unharmed(s) ~> (Opened(s) /\ (str[s].ended \/ ~str[s].aligned))
-----------------------------------------------------------------------------
(* The inductive invariant behind StreamedIsSent and NoneMeansWhole.       *)

\* The reader has items of the payload that was sent, each at its place, and items
\* that break off.
SourceOf(source, p) ==
  \A i \in DOMAIN source.items :
    source.items[i] # CutItem => i <= Len(p.items) /\ source.items[i] = p.items[i]

\* Where the stream is.  It has lost its place past the header only if a call was
\* interrupted; without that, an error of framing leaves nothing to be read.
InPlace(r) ==
  /\ r.at <= Len(r.source.items)
  /\ r.pc = "unzip" => r.state = "ReadHeader" /\ r.aligned
  /\ ~r.aligned /\ r.state # "ReadHeader" => r.interrupts > 0
  /\ r.state = "Done" => r.pc = "ready" /\ (r.ended \/ r.errs # {})
  /\ r.ended => r.state = "Done"
  /\ r.interrupts = 0 /\ r.errs \cap {"Io", "MissingEndSentinel"} # {}
       => r.state = "Done" \/ r.at = Len(r.source.items)

\* The ways in which the blocks of got stand in sent in their order, none behind at.
Places(got, sent, at) ==
  {f \in [DOMAIN got -> DOMAIN sent] :
     /\ \A i, j \in DOMAIN got : i < j => f[i] < f[j]
     /\ \A i \in DOMAIN got : f[i] <= at /\ got[i] = sent[f[i]]}

\* What it has yielded: as far as it has read without an error, the blocks in front;
\* and in every case blocks it has read, in their order.
Yielded(r) ==
  LET sent == r.sent.message IN
  /\ r.errs = {} =>
       /\ Len(r.got) <= Len(sent)
       /\ \A i \in DOMAIN r.got : r.got[i] = sent[i]
       /\ ~r.ended => Len(r.got) = r.at
       /\ r.ended /\ r.aligned => Len(r.got) = Len(sent)
  /\ Places(r.got, sent, r.at) # {}

StreamSafe(r) ==
  r \in StreamRecord /\ SourceOf(r.source, r.sent) /\ InPlace(r) /\ Yielded(r)

StreamInv ==
  /\ DOMAIN str = Streams
  /\ \A s \in OpenStreams : str[s].sent \in payloads /\ StreamSafe(str[s])
-----------------------------------------------------------------------------
(* The inductive invariant behind AgreesWithDecode: why a decode call or a *)
(* stream has failed, in terms of bytes and store alone.                   *)

\* What both decoders need to read a frame that an encoder wrote.
Readable(f, kind) == f.reference => kind = "shared"

\* Of the n frames and END that were sent, one is missing or cannot be read.
Faulty(items, n, kind) ==
  \E i \in 1 .. n + 1 :
    i > Len(items) \/ items[i] = CutItem \/ (i <= n /\ ~Readable(items[i], kind))

SourceOpens(source) ==
  source.header /\ (source.compressed => source.unzips /\ source.size <= MaxPayload)

CallCause(c) ==
  /\ c.status \in {"reading", "ok"} =>
       OpenFault(c.sent, c.wire) = "none"
         /\ \A i \in DOMAIN c.blocks : Readable(c.wire.items[i], c.store)
  /\ c.status \notin {"reading", "ok", "TrailingData"} =>
       OpenFault(c.sent, c.wire) # "none"
         \/ Faulty(c.wire.items, Len(c.sent.message), c.store)

\* A stream that was never interrupted.
StreamCause(r) ==
  LET n == Len(r.sent.message) IN
  /\ r.source.compressed = r.sent.compressed
  /\ r.interrupts = 0 =>
       /\ r.pc = "unzip" => r.source.header /\ r.source.compressed
       /\ r.state # "ReadHeader" => SourceOpens(r.source)
       /\ r.errs # {} => ~SourceOpens(r.source) \/ Faulty(r.source.items, n, r.store)
       /\ r.errs = {} =>
            /\ r.aligned /\ (r.ended => r.at = n + 1)
            /\ \A i \in 1 .. r.at : r.source.items[i] # CutItem
                 /\ (i <= n => Readable(r.source.items[i], r.store))

CauseInv ==
  /\ \A d \in Started : CallCause(dec[d])
  /\ \A s \in OpenStreams : StreamCause(str[s])
=============================================================================
