---------------------------- MODULE StreamProofs ----------------------------
(***************************************************************************)
(* Proofs about StreamCodec for every value of its constants: what streams *)
(* yield while encoders write the store, readers fail and calls are        *)
(* cancelled.                                                              *)
(***************************************************************************)
EXTENDS StreamCodec, CodecProofs
-----------------------------------------------------------------------------
(* What has been yielded.                                                  *)

\* A stream that reads on keeps the places of what it has yielded.
LEMMA PlacesStay ==
  ASSUME NEW got, NEW sent \in Seq(Block), NEW a \in Nat, NEW b \in Nat, a <= b,
         Places(got, sent, a) # {}
  PROVE  Places(got, sent, b) # {}
<1>1. PICK f \in [DOMAIN got -> DOMAIN sent] :
        /\ \A i, j \in DOMAIN got : i < j => f[i] < f[j]
        /\ \A i \in DOMAIN got : f[i] <= a /\ got[i] = sent[f[i]]
  BY DEF Places
<1>2. ASSUME NEW i \in DOMAIN got PROVE f[i] <= b
  <2>1. f[i] \in DOMAIN sent /\ DOMAIN sent \subseteq Nat
    OBVIOUS
  <2>. DEFINE x == f[i]
  <2>2. x \in Nat /\ x <= a
    BY <1>1, <2>1
  <2>. HIDE DEF x
  <2>3. x <= b
    BY <2>2
  <2>. QED  BY <2>3 DEF x
<1>3. f \in Places(got, sent, b)
  BY <1>1, <1>2 DEF Places
<1>. QED  BY <1>3

\* The block behind the places read so far is yielded.
LEMMA PlacesAppend ==
  ASSUME NEW got \in Seq(Block), NEW sent \in Seq(Block), NEW a \in Nat,
         a + 1 \in DOMAIN sent, Places(got, sent, a) # {}
  PROVE  Places(Append(got, sent[a + 1]), sent, a + 1) # {}
<1>. DEFINE n == a + 1
            m == Len(got)
            b == sent[n]
            more == Append(got, b)
<1>0. n \in Nat /\ n \in DOMAIN sent /\ DOMAIN sent \subseteq Nat /\ b \in Block
  OBVIOUS
<1>. HIDE DEF b
<1>1. /\ m \in Nat /\ DOMAIN got = 1 .. m /\ DOMAIN more = 1 .. m + 1
      /\ \A i \in 1 .. m : more[i] = got[i]
      /\ more[m + 1] = b
  BY <1>0
<1>2. PICK f \in [DOMAIN got -> DOMAIN sent] :
        /\ \A i, j \in DOMAIN got : i < j => f[i] < f[j]
        /\ \A i \in DOMAIN got : f[i] <= a /\ got[i] = sent[f[i]]
  BY DEF Places
<1>. DEFINE g == [i \in 1 .. m + 1 |-> IF i = m + 1 THEN n ELSE f[i]]
<1>3. ASSUME NEW i \in 1 .. m
      PROVE  i \in DOMAIN got /\ i # m + 1 /\ f[i] \in DOMAIN sent /\ f[i] \in Nat /\ f[i] <= a
  BY <1>0, <1>1, <1>2
<1>4. ASSUME NEW i \in 1 .. m PROVE f[i] < n /\ f[i] <= n
  <2>. DEFINE x == f[i]
  <2>1. x \in Nat /\ x <= a
    BY <1>3
  <2>. HIDE DEF x
  <2>2. x < n /\ x <= n
    BY <2>1
  <2>. QED  BY <2>2 DEF x
<1>. HIDE DEF n, m, more
<1>5. /\ g \in [1 .. m + 1 -> DOMAIN sent] /\ g[m + 1] = n
      /\ \A i \in 1 .. m : g[i] = f[i]
  BY <1>0, <1>1, <1>3
<1>. HIDE DEF g
<1>6. \A i \in 1 .. m + 1 : i \in 1 .. m \/ i = m + 1
  BY <1>1
<1>7. ASSUME NEW i \in 1 .. m + 1, NEW j \in 1 .. m + 1, i < j
      PROVE  g[i] < g[j]
  <2>1. i \in 1 .. m
    BY <1>1, <1>7
  <2>2. CASE j \in 1 .. m
    BY <1>2, <1>3, <1>5, <1>7, <2>1, <2>2
  <2>3. CASE j = m + 1
    BY <1>4, <1>5, <2>1, <2>3
  <2>. QED  BY <1>6, <2>2, <2>3
<1>8. ASSUME NEW i \in 1 .. m + 1
      PROVE  g[i] <= n /\ more[i] = sent[g[i]]
  <2>1. CASE i \in 1 .. m
    BY <1>1, <1>2, <1>3, <1>4, <1>5, <2>1
  <2>2. CASE i = m + 1
    BY <1>0, <1>1, <1>5, <2>2 DEF b
  <2>. QED  BY <1>6, <2>1, <2>2
<1>9. g \in Places(more, sent, n)
  BY <1>1, <1>5, <1>7, <1>8 DEF Places
<1>. QED  BY <1>9 DEF n, more, b
-----------------------------------------------------------------------------
(* What the steps of a stream have in common.                              *)

\* An open stream, and the payload it reads.
LEMMA OpenIsSafe ==
  ASSUME NEW s \in Streams, EncInv, StreamInv, Opened(s)
  PROVE  LET q == str[s] IN
         /\ q \in StreamRecord /\ SourceOf(q.source, q.sent) /\ InPlace(q) /\ Yielded(q)
         /\ q.sent \in payloads /\ q.sent \in Payload /\ PayloadCarries(q.sent)
BY DEF StreamInv, StreamSafe, OpenStreams, EncInv, EncTypeOK, FramesCarryBlocks

\* A step of one stream leaves the others alone.
LEMMA StreamFrame ==
  ASSUME NEW s \in Streams, NEW r, StreamInv, UNCHANGED payloads,
         StreamSafe(r), r.sent \in payloads, str' = [str EXCEPT ![s] = r]
  PROVE  StreamInv'
<1>1. DOMAIN str' = Streams /\ str'[s] = r /\ \A s2 \in Streams \ {s} : str'[s2] = str[s2]
  BY DEF StreamInv
<1>2. ASSUME NEW s2 \in OpenStreams'
      PROVE  str'[s2].sent \in payloads' /\ StreamSafe(str'[s2])
  <2>1. CASE s2 = s
    BY <1>1, <2>1
  <2>2. CASE s2 # s
    <3>1. s2 \in OpenStreams /\ str'[s2] = str[s2]
      BY <1>1, <2>2 DEF OpenStreams, Opened, Unopened
    <3>. QED  BY <3>1 DEF StreamInv
  <2>. QED  BY <2>1, <2>2
<1>. QED  BY <1>1, <1>2 DEF StreamInv

\* A step that neither reads an item nor yields a block.
LEMMA StayStep ==
  ASSUME NEW s \in Streams, EncInv, StreamInv, Opened(s), UNCHANGED payloads,
         NEW r \in StreamRecord, InPlace(r), str' = [str EXCEPT ![s] = r],
         r.sent = str[s].sent, r.source = str[s].source, r.at = str[s].at,
         r.got = str[s].got, str[s].errs \subseteq r.errs,
         str[s].ended => r.ended /\ (r.aligned => str[s].aligned),
         r.ended /\ ~str[s].ended => ~r.aligned \/ r.errs # {}
  PROVE  StreamInv'
<1>1. Yielded(r)
  BY OpenIsSafe DEF Yielded
<1>. QED  BY <1>1, OpenIsSafe, StreamFrame DEF StreamSafe

\* A step that reads items without yielding, and has returned an error.
LEMMA LossStep ==
  ASSUME NEW s \in Streams, EncInv, StreamInv, Opened(s), UNCHANGED payloads,
         NEW r \in StreamRecord, InPlace(r), str' = [str EXCEPT ![s] = r],
         r.sent = str[s].sent, r.source = str[s].source, str[s].at <= r.at,
         r.got = str[s].got, r.errs # {}
  PROVE  StreamInv'
<1>1. str[s].at \in Nat /\ r.at \in Nat /\ r.sent.message \in Seq(Block)
  BY OpenIsSafe DEF StreamRecord, Payload
<1>2. Places(str[s].got, str[s].sent.message, str[s].at) # {}
  BY OpenIsSafe DEF Yielded
<1>3. Places(r.got, r.sent.message, r.at) # {}
  BY <1>1, <1>2, PlacesStay
<1>4. Yielded(r)
  BY <1>3 DEF Yielded
<1>. QED  BY <1>4, OpenIsSafe, StreamFrame DEF StreamSafe

\* The next item, when it is a whole one, is the encoder's.
LEMMA StreamedItem ==
  ASSUME NEW s \in Streams, EncInv, StreamInv, Opened(s), ItemsLeft(s), NextItem(s) # CutItem
  PROVE  LET p == str[s].sent  n == str[s].at + 1 IN
         /\ NextItem(s).kind = "block" => /\ n \in DOMAIN p.message
                                          /\ NextItem(s) \in Frame
                                          /\ Carries(NextItem(s), p.message[n])
                                          /\ p.message[n] \in Block
         /\ NextItem(s).kind = "end" => str[s].at = Len(p.message)
<1>. DEFINE p == str[s].sent
            items == str[s].source.items
            at == str[s].at
            n == at + 1
<1>1. /\ p.message \in Seq(Block) /\ p.items \in Seq(StreamItem)
      /\ Len(p.items) = Len(p.message) + 1
      /\ \A i \in DOMAIN p.message : Carries(p.items[i], p.message[i])
      /\ p.items[Len(p.items)].kind = "end"
      /\ items \in Seq(StreamItem) /\ at \in Nat /\ SourceOf(str[s].source, p)
  BY OpenIsSafe DEF Payload, PayloadCarries, StreamRecord, StreamSource, EndItem
<1>2. n \in Nat /\ n >= 1 /\ n <= Len(items) /\ NextItem(s) = items[n]
  BY <1>1 DEF ItemsLeft, NextItem
<1>3. \A i \in DOMAIN items : items[i] # CutItem => i <= Len(p.items) /\ items[i] = p.items[i]
  BY <1>1 DEF SourceOf
<1>. HIDE DEF p, items, n
<1>4. n \in DOMAIN items
  BY <1>1, <1>2
<1>5. n <= Len(p.items) /\ NextItem(s) = p.items[n]
  BY <1>2, <1>3, <1>4
<1>6. n \in 1 .. Len(p.items) /\ Len(p.message) \in Nat /\ Len(p.items) \in Nat
      /\ DOMAIN p.message = 1 .. Len(p.message)
  BY <1>1, <1>2, <1>5
<1>7. NextItem(s) \in StreamItem
  BY <1>1, <1>5, <1>6
<1>8. n = Len(p.items) \/ n \in 1 .. Len(p.message)
  BY <1>1, <1>6
<1>9. ASSUME NextItem(s).kind = "block"
      PROVE  n \in DOMAIN p.message /\ NextItem(s) \in Frame
             /\ Carries(NextItem(s), p.message[n]) /\ p.message[n] \in Block
  <2>1. n \in 1 .. Len(p.message)
    BY <1>1, <1>5, <1>8, <1>9
  <2>2. n \in DOMAIN p.message /\ p.message[n] \in Block
    BY <1>1, <1>6, <2>1
  <2>3. NextItem(s) \in Frame
    BY <1>7, <1>9 DEF StreamItem, EndItem, CutItem
  <2>. QED  BY <1>1, <1>5, <2>2, <2>3
<1>10. ASSUME NextItem(s).kind = "end" PROVE at = Len(p.message)
  <2>1. n \notin DOMAIN p.message
    BY <1>1, <1>5, <1>10 DEF Carries
  <2>2. n = Len(p.message) + 1
    BY <1>1, <1>6, <1>8, <2>1
  <2>. QED  BY <1>1, <1>6, <2>2 DEF n
<1>. QED  BY <1>9, <1>10 DEF p, n
-----------------------------------------------------------------------------
(* One lemma for each kind of step.                                        *)

\* A call in progress has returned nothing yet, so the stream is not over.
LEMMA CallGoesOn ==
  ASSUME NEW s \in Streams, EncInv, StreamInv, Opened(s), str[s].pc # "ready"
  PROVE  /\ str[s] \in StreamRecord /\ InPlace(str[s])
         /\ str[s].state # "Done" /\ ~str[s].ended
BY OpenIsSafe DEF InPlace

\* A call that fails where the stream stands, with a fault that is not one of framing
\* or leaves nothing to read.
LEMMA FailInPlace ==
  ASSUME NEW s \in Streams, EncInv, StreamInv, Opened(s), str[s].pc # "ready",
         UNCHANGED payloads, NEW fault \in Faults \cup {"Io"},
         NEW r \in StreamRecord, Fails(s, r, fault),
         r.sent = str[s].sent, r.source = str[s].source, r.at = str[s].at,
         r.got = str[s].got, r.errs = str[s].errs, r.ended = str[s].ended,
         r.interrupts >= str[s].interrupts,
         ~r.aligned /\ r.state # "ReadHeader" => r.interrupts > 0,
         fault \in {"Io", "MissingEndSentinel"} => r.interrupts > 0 \/ r.state = "Done"
  PROVE  StreamInv'
<1>. DEFINE t == [r EXCEPT !.pc = "ready", !.errs = r.errs \cup {fault}]
<1>1. str' = [str EXCEPT ![s] = t]
  BY DEF Fails
<1>2. /\ t \in StreamRecord /\ t.pc = "ready" /\ t.errs = str[s].errs \cup {fault}
      /\ t.state = r.state /\ t.sent = str[s].sent /\ t.source = str[s].source
      /\ t.at = str[s].at /\ t.aligned = r.aligned /\ t.interrupts = r.interrupts
      /\ t.got = str[s].got /\ t.ended = FALSE /\ fault \in t.errs
  BY CallGoesOn DEF StreamRecord
<1>. HIDE DEF t
<1>3. InPlace(str[s]) /\ str[s].state # "Done" /\ str[s] \in StreamRecord
  BY CallGoesOn
<1>4. str[s].interrupts \in Nat /\ r.interrupts \in Nat
  BY <1>3, StreamAssumption DEF StreamRecord
<1>5. r.interrupts = 0 => str[s].interrupts = 0
  BY <1>4
<1>6. InPlace(t)
  BY <1>2, <1>3, <1>4, <1>5 DEF InPlace
<1>. QED  BY <1>1, <1>2, <1>3, <1>6, CallGoesOn, StayStep

\* next() is called, in state Done too.
LEMMA CallStep ==
  ASSUME NEW s \in Streams, EncInv, StreamInv, UNCHANGED payloads,
         CallNext(s) \/ CallDone(s)
  PROVE  StreamInv'
<1>1. CASE CallNext(s)
  <2>. DEFINE r == [str[s] EXCEPT !.pc = "called"]
  <2>1. Opened(s) /\ str[s].state # "Done" /\ str' = [str EXCEPT ![s] = r]
    BY <1>1 DEF CallNext
  <2>2. str[s] \in StreamRecord /\ InPlace(str[s])
    BY <2>1, OpenIsSafe
  <2>3. r \in StreamRecord /\ InPlace(r)
    BY <2>1, <2>2 DEF StreamRecord, InPlace
  <2>. QED  BY <2>1, <2>2, <2>3, StayStep DEF StreamRecord
<1>2. CASE CallDone(s)
  <2>. DEFINE r == [str[s] EXCEPT !.ended = TRUE]
  <2>1. Opened(s) /\ str[s].state = "Done" /\ ~str[s].ended /\ str' = [str EXCEPT ![s] = r]
    BY <1>2 DEF CallDone
  <2>2. str[s] \in StreamRecord /\ InPlace(str[s])
    BY <2>1, OpenIsSafe
  <2>3. r \in StreamRecord /\ InPlace(r) /\ r.errs # {}
    BY <2>1, <2>2 DEF StreamRecord, InPlace
  <2>. QED  BY <2>1, <2>2, <2>3, StayStep DEF StreamRecord
<1>. QED  BY <1>1, <1>2

\* read_header, with the decompression of the payload.
LEMMA HeaderStep ==
  ASSUME NEW s \in Streams, EncInv, StreamInv, UNCHANGED payloads,
         ReadHeader(s) \/ UnzipPayload(s)
  PROVE  StreamInv'
<1>. DEFINE q == str[s]
            unzip == [q EXCEPT !.pc = "unzip"]
            read == [q EXCEPT !.pc = "ready", !.state = "ReadBlocks"]
            unzipped == [q EXCEPT !.pc = "ready", !.state = "ReadBlocks", !.buffered = TRUE]
            lost == [q EXCEPT !.aligned = FALSE]
<1>1. Opened(s) /\ q.pc # "ready" /\ q \in StreamRecord /\ InPlace(q)
      /\ q.state = "ReadHeader" /\ q.aligned
  BY CallGoesOn DEF ReadHeader, UnzipPayload, Called, InPlace
<1>2. /\ "InvalidHeader" \in Faults /\ "DecompressFailed" \in Faults
      /\ "DecompressionBomb" \in Faults
  BY DEF Faults
<1>3. \/ Fails(s, q, "InvalidHeader") \/ Fails(s, lost, "DecompressFailed")
      \/ Fails(s, lost, "DecompressionBomb") \/ str' = [str EXCEPT ![s] = unzip]
      \/ str' = [str EXCEPT ![s] = read] \/ str' = [str EXCEPT ![s] = unzipped]
  BY DEF ReadHeader, UnzipPayload
<1>4. CASE Fails(s, q, "InvalidHeader")
  <2>1. q.interrupts >= q.interrupts
    BY <1>1, StreamAssumption DEF StreamRecord
  <2>. QED  BY <1>1, <1>2, <1>4, <2>1, FailInPlace
<1>5. CASE Fails(s, lost, "DecompressFailed") \/ Fails(s, lost, "DecompressionBomb")
  <2>1. /\ lost \in StreamRecord /\ lost.sent = q.sent /\ lost.source = q.source
        /\ lost.at = q.at /\ lost.got = q.got /\ lost.errs = q.errs /\ lost.ended = q.ended
        /\ lost.state = "ReadHeader" /\ lost.interrupts = q.interrupts
    BY <1>1 DEF StreamRecord
  <2>2. lost.interrupts >= q.interrupts
    BY <1>1, <2>1, StreamAssumption DEF StreamRecord
  <2>. HIDE DEF lost
  <2>. QED  BY <1>1, <1>2, <1>5, <2>1, <2>2, FailInPlace
<1>6. ASSUME NEW r \in {unzip, read, unzipped}, str' = [str EXCEPT ![s] = r]
      PROVE  StreamInv'
  <2>1. /\ r \in StreamRecord /\ r.sent = q.sent /\ r.source = q.source /\ r.at = q.at
        /\ r.got = q.got /\ r.errs = q.errs /\ r.ended = q.ended
        /\ r.aligned = q.aligned /\ r.interrupts = q.interrupts
        /\ r.state # "Done" /\ (r.pc = "unzip" => r.state = "ReadHeader")
    BY <1>1 DEF StreamRecord
  <2>. HIDE DEF unzip, read, unzipped
  <2>2. InPlace(r)
    BY <1>1, <2>1 DEF InPlace
  <2>. QED  BY <1>1, <1>6, <2>1, <2>2, StayStep
<1>. QED  BY <1>3, <1>4, <1>5, <1>6

\* decode_frame on the next frame, in the buffer or from the reader.
LEMMA YieldStep ==
  ASSUME NEW s \in Streams, EncInv, StreamInv, UNCHANGED payloads,
         Called(s, "ReadBlocks"), Before(s, "block"), Yield(s)
  PROVE  StreamInv'
<1>. DEFINE q == str[s]
            b == DecodedBlock(NextItem(s))
            n == q.at + 1
            fault == FrameFault(NextItem(s), q.store)
            message == q.sent.message
<1>1. /\ Opened(s) /\ q.pc = "called" /\ q.state = "ReadBlocks" /\ ItemsLeft(s)
      /\ NextItem(s).kind = "block" /\ NextItem(s) # CutItem
      /\ q \in StreamRecord /\ InPlace(q) /\ Yielded(q) /\ ~q.ended /\ q.sent \in payloads
  BY CallGoesOn, OpenIsSafe DEF Called, Before, CutItem
<1>2. n \in DOMAIN message /\ message[n] \in Block /\ b = message[n]
  BY <1>1, StreamedItem, CarriedDecodes DEF EncInv
<1>3. /\ q.at \in Nat /\ n \in Nat /\ n <= Len(q.source.items) /\ q.at < Len(q.source.items)
      /\ Len(q.source.items) \in Nat
      /\ q.got \in Seq(Block) /\ message \in Seq(Block)
  BY <1>1, OpenIsSafe DEF StreamRecord, StreamSource, ItemsLeft, Payload
<1>4. q.interrupts = 0 => q.errs \cap {"Io", "MissingEndSentinel"} = {}
  BY <1>1, <1>3 DEF InPlace
<1>5. fault # "none" => fault \in Faults /\ fault \notin {"Io", "MissingEndSentinel"}
  BY DEF FrameFault, Faults
<1>. HIDE DEF b, fault
<1>. DEFINE c == Consumed(s)
<1>read. /\ c \in StreamRecord /\ c.sent = q.sent /\ c.source = q.source /\ c.at = n
      /\ c.got = q.got /\ c.errs = q.errs /\ c.ended = q.ended /\ c.ended \in BOOLEAN
      /\ c.aligned = q.aligned /\ c.interrupts = q.interrupts /\ c.state = q.state
  <2>1. q \in StreamRecord /\ n \in Nat /\ 0 \in 0 .. 3
    BY <1>1, <1>3
  <2>2. c = [q EXCEPT !.at = n, !.part = 0]
    BY <2>1 DEF Consumed
  <2>. HIDE DEF q, n, c
  <2>. QED  BY <2>1, <2>2 DEF StreamRecord
<1>6. CASE fault = "none"
  <2>. DEFINE r == [c EXCEPT !.pc = "ready", !.got = Append(q.got, b)]
  <2>1. str' = [str EXCEPT ![s] = r]
    BY <1>1, <1>6 DEF Yield, fault, Consumed, b, StreamRecord
  <2>2. Append(q.got, b) \in Seq(Block)
    BY <1>2, <1>3
  <2>3. /\ r \in StreamRecord /\ r.sent = q.sent /\ r.source = q.source /\ r.at = n
        /\ r.got = Append(q.got, b) /\ r.errs = q.errs /\ r.ended = FALSE
        /\ r.aligned = q.aligned /\ r.interrupts = q.interrupts
        /\ r.state = "ReadBlocks" /\ r.pc = "ready"
    <3>. HIDE DEF c
    <3>1. r \in StreamRecord
      BY <1>read, <2>2 DEF StreamRecord
    <3>2. r.ended = FALSE
      BY <1>1, <1>read DEF StreamRecord
    <3>. QED  BY <1>1, <1>read, <3>1, <3>2 DEF StreamRecord
  <2>. HIDE DEF r
  <2>4. InPlace(r)
    BY <1>1, <1>3, <1>4, <2>3 DEF InPlace
  <2>5. Places(r.got, message, r.at) # {}
    <3>1. Places(q.got, message, q.at) # {}
      BY <1>1 DEF Yielded
    <3>2. Places(Append(q.got, message[q.at + 1]), message, q.at + 1) # {}
      BY <1>2, <1>3, <3>1, PlacesAppend
    <3>. QED  BY <1>2, <2>3, <3>2
  <2>6. ASSUME r.errs = {}
        PROVE  /\ Len(r.got) <= Len(message) /\ Len(r.got) = r.at
               /\ \A i \in DOMAIN r.got : r.got[i] = message[i]
    <3>1. Len(q.got) = q.at /\ \A i \in DOMAIN q.got : q.got[i] = message[i]
      BY <1>1, <2>3, <2>6 DEF Yielded
    <3>2. /\ Len(r.got) = n /\ r.got[n] = b
          /\ \A i \in DOMAIN r.got : i = n \/ i \in DOMAIN q.got
          /\ \A i \in DOMAIN q.got : r.got[i] = q.got[i]
      <4>. DEFINE got == q.got
                  m == Len(got)
      <4>1. got \in Seq(Block) /\ b \in Block /\ n = m + 1
        BY <1>2, <1>3, <3>1
      <4>. HIDE DEF got, b
      <4>2. /\ Len(Append(got, b)) = m + 1 /\ Append(got, b)[m + 1] = b
            /\ DOMAIN got = 1 .. m /\ DOMAIN Append(got, b) = 1 .. m + 1 /\ m \in Nat
            /\ \A i \in 1 .. m : Append(got, b)[i] = got[i]
        BY <4>1
      <4>3. \A i \in 1 .. m + 1 : i = m + 1 \/ i \in 1 .. m
        BY <4>2
      <4>4. r.got = Append(got, b)
        BY <2>3 DEF got
      <4>. HIDE DEF m, n
      <4>. QED  BY <4>1, <4>2, <4>3, <4>4 DEF got
    <3>3. n <= Len(message)
      BY <1>2, <1>3
    <3>. QED  BY <1>2, <2>3, <3>1, <3>2, <3>3
  <2>7. Yielded(r)
    BY <2>3, <2>5, <2>6 DEF Yielded
  <2>. QED  BY <1>1, <2>1, <2>3, <2>4, <2>7, OpenIsSafe, StreamFrame DEF StreamSafe
<1>7. CASE fault # "none"
  <2>. DEFINE r == [c EXCEPT !.pc = "ready", !.errs = q.errs \cup {fault}]
  <2>1. str' = [str EXCEPT ![s] = r]
    BY <1>1, <1>7 DEF Yield, Fails, fault, Consumed, StreamRecord
  <2>2. /\ r \in StreamRecord /\ r.sent = q.sent /\ r.source = q.source /\ r.at = n
        /\ r.got = q.got /\ r.errs = q.errs \cup {fault} /\ r.ended = FALSE
        /\ r.aligned = q.aligned /\ r.interrupts = q.interrupts
        /\ r.state = "ReadBlocks" /\ r.pc = "ready"
    <3>. HIDE DEF c
    <3>1. q.errs \cup {fault} \in SUBSET (Faults \cup {"Io"})
      BY <1>1, <1>5, <1>7 DEF StreamRecord
    <3>2. r \in StreamRecord
      BY <1>read, <3>1 DEF StreamRecord
    <3>3. r.ended = FALSE
      BY <1>1, <1>read DEF StreamRecord
    <3>. QED  BY <1>1, <1>read, <3>2, <3>3 DEF StreamRecord
  <2>. HIDE DEF r
  <2>3. InPlace(r)
    BY <1>1, <1>3, <1>4, <1>5, <1>7, <2>2 DEF InPlace
  <2>4. q.at <= r.at /\ r.errs # {}
    BY <1>3, <2>2
  <2>. QED  BY <1>1, <2>1, <2>2, <2>3, <2>4, LossStep
<1>. QED  BY <1>6, <1>7

\* END is read: without an error before it, everything has been yielded.
LEMMA EndStep ==
  ASSUME NEW s \in Streams, EncInv, StreamInv, UNCHANGED payloads,
         Called(s, "ReadBlocks"), Before(s, "end"), Finish(s)
  PROVE  StreamInv'
<1>. DEFINE q == str[s]
            n == q.at + 1
            r == [Consumed(s) EXCEPT !.pc = "ready", !.state = "Done", !.ended = TRUE]
            message == q.sent.message
<1>1. /\ Opened(s) /\ q.state = "ReadBlocks" /\ ItemsLeft(s)
      /\ NextItem(s).kind = "end" /\ NextItem(s) # CutItem
      /\ q \in StreamRecord /\ InPlace(q) /\ Yielded(q) /\ ~q.ended /\ q.sent \in payloads
  BY CallGoesOn, OpenIsSafe DEF Called, Before, CutItem
<1>2. q.at = Len(message)
  BY <1>1, StreamedItem
<1>3. /\ q.at \in Nat /\ n \in Nat /\ q.at <= n /\ n <= Len(q.source.items)
      /\ message \in Seq(Block)
  BY <1>1, OpenIsSafe DEF StreamRecord, StreamSource, ItemsLeft, Payload
<1>4. /\ r \in StreamRecord /\ r.sent = q.sent /\ r.source = q.source /\ r.at = n
      /\ r.got = q.got /\ r.errs = q.errs /\ r.ended = TRUE
      /\ r.aligned = q.aligned /\ r.interrupts = q.interrupts
      /\ r.state = "Done" /\ r.pc = "ready"
  <2>1. q \in StreamRecord /\ n \in Nat /\ 0 \in 0 .. 3
    BY <1>1, <1>3
  <2>2. r = [q EXCEPT !.at = n, !.part = 0, !.pc = "ready", !.state = "Done", !.ended = TRUE]
    BY <2>1 DEF Consumed, StreamRecord
  <2>. HIDE DEF q, n, r
  <2>. QED  BY <2>1, <2>2 DEF StreamRecord
<1>5. str' = [str EXCEPT ![s] = r]
  BY DEF Finish
<1>. HIDE DEF r
<1>6. InPlace(r)
  BY <1>1, <1>3, <1>4 DEF InPlace
<1>7. Places(r.got, message, r.at) # {}
  <2>1. Places(q.got, message, q.at) # {}
    BY <1>1 DEF Yielded
  <2>2. Places(q.got, message, n) # {}
    BY <1>3, <2>1, PlacesStay
  <2>. QED  BY <1>4, <2>2
<1>8. r.errs = {} => /\ Len(r.got) = Len(message) /\ Len(r.got) <= Len(message)
                     /\ \A i \in DOMAIN r.got : r.got[i] = message[i]
  BY <1>1, <1>2, <1>3, <1>4 DEF Yielded
<1>9. Yielded(r)
  BY <1>4, <1>7, <1>8 DEF Yielded
<1>. QED  BY <1>1, <1>4, <1>5, <1>6, <1>9, OpenIsSafe, StreamFrame DEF StreamSafe

\* A frame of the buffer that breaks off, and the end of the buffer without END.
LEMMA BufferFailsStep ==
  ASSUME NEW s \in Streams, EncInv, StreamInv, UNCHANGED payloads,
         BufferedCut(s) \/ BufferedRunOut(s)
  PROVE  StreamInv'
<1>. DEFINE q == str[s]
            done == [q EXCEPT !.state = "Done"]
<1>1. Opened(s) /\ q.pc # "ready" /\ q.state = "ReadBlocks" /\ q \in StreamRecord /\ InPlace(q)
  BY CallGoesOn DEF BufferedCut, BufferedRunOut, InBuffer, Called
<1>2. q.interrupts >= q.interrupts /\ (~q.aligned => q.interrupts > 0)
  BY <1>1, StreamAssumption DEF StreamRecord, InPlace
<1>3. "Wire" \in Faults /\ "MissingEndSentinel" \in Faults
  BY DEF Faults
<1>4. CASE Fails(s, q, "Wire")
  BY <1>1, <1>2, <1>3, <1>4, FailInPlace
<1>5. CASE Fails(s, done, "MissingEndSentinel")
  <2>1. /\ done \in StreamRecord /\ done.sent = q.sent /\ done.source = q.source
        /\ done.at = q.at /\ done.got = q.got /\ done.errs = q.errs /\ done.ended = q.ended
        /\ done.state = "Done" /\ done.interrupts = q.interrupts /\ done.aligned = q.aligned
    BY <1>1 DEF StreamRecord
  <2>. HIDE DEF done
  <2>2. done.interrupts >= q.interrupts
    BY <1>2, <2>1
  <2>3. ~done.aligned /\ done.state # "ReadHeader" => done.interrupts > 0
    BY <1>2, <2>1
  <2>. QED  BY <1>1, <1>3, <1>5, <2>1, <2>2, <2>3, FailInPlace
<1>. QED  BY <1>4, <1>5 DEF BufferedCut, BufferedRunOut

\* A part of a frame arrives.
LEMMA ReadPartStep ==
  ASSUME NEW s \in Streams, EncInv, StreamInv, UNCHANGED payloads, ReadPart(s)
  PROVE  StreamInv'
<1>. DEFINE q == str[s]
            more == q.part + 1
            r == [q EXCEPT !.part = more]
<1>1. /\ Opened(s) /\ q.pc # "ready" /\ q.part < PartsBefore(NextItem(s))
      /\ str' = [str EXCEPT ![s] = r]
  BY DEF ReadPart, FromReader, Called
<1>2. q \in StreamRecord /\ InPlace(q)
  BY <1>1, CallGoesOn
<1>3. q.part \in 0 .. 3 /\ PartsBefore(NextItem(s)) \in {2, 3}
  BY <1>2 DEF StreamRecord, PartsBefore
<1>4. more \in 0 .. 3
  BY <1>1, <1>3
<1>5. /\ r \in StreamRecord /\ r.sent = q.sent /\ r.source = q.source /\ r.at = q.at
      /\ r.got = q.got /\ r.errs = q.errs /\ r.ended = q.ended
      /\ r.aligned = q.aligned /\ r.interrupts = q.interrupts /\ r.state = q.state
      /\ r.pc = q.pc
  <2>. HIDE DEF more, q
  <2>. QED  BY <1>2, <1>4 DEF StreamRecord
<1>. HIDE DEF r
<1>6. InPlace(r)
  BY <1>2, <1>5 DEF InPlace
<1>. QED  BY <1>1, <1>2, <1>5, <1>6, StayStep

\* The reader has no more bytes.
LEMMA HitEofStep ==
  ASSUME NEW s \in Streams, EncInv, StreamInv, UNCHANGED payloads, HitEof(s)
  PROVE  StreamInv'
<1>. DEFINE q == str[s]
            n == Len(q.source.items)
            r == [q EXCEPT !.at = n, !.pc = "ready", !.errs = q.errs \cup {"Io"}]
<1>1. Opened(s) /\ q.pc # "ready" /\ q.state = "ReadBlocks" /\ q.aligned
  BY DEF HitEof, FromReader, Called
<1>2. q \in StreamRecord /\ InPlace(q) /\ ~q.ended
  BY <1>1, CallGoesOn
<1>3. q.at \in Nat /\ n \in Nat /\ q.at <= n
  BY <1>2 DEF StreamRecord, StreamSource, InPlace
<1>4. str' = [str EXCEPT ![s] = r]
  <2>1. Fails(s, [q EXCEPT !.at = n], "Io")
    BY DEF HitEof
  <2>. QED  BY <1>2, <2>1 DEF Fails, StreamRecord
<1>5. q.errs \cup {"Io"} \in SUBSET (Faults \cup {"Io"})
  BY <1>2 DEF StreamRecord
<1>6. /\ r \in StreamRecord /\ r.sent = q.sent /\ r.source = q.source /\ r.at = n
      /\ r.got = q.got /\ r.errs = q.errs \cup {"Io"} /\ r.ended = q.ended
      /\ r.aligned = q.aligned /\ r.interrupts = q.interrupts /\ r.state = q.state
      /\ r.pc = "ready"
  <2>. HIDE DEF n, q
  <2>. QED  BY <1>2, <1>3, <1>5 DEF StreamRecord
<1>. HIDE DEF r
<1>7. InPlace(r)
  <2>1. Len(r.source.items) = n
    BY <1>6
  <2>. QED  BY <1>1, <1>2, <1>3, <1>6, <2>1 DEF InPlace
<1>. QED  BY <1>1, <1>3, <1>4, <1>6, <1>7, LossStep

\* A call that starts in the middle of a frame.
LEMMA MisreadStep ==
  ASSUME NEW s \in Streams, EncInv, StreamInv, UNCHANGED payloads, Misread(s)
  PROVE  StreamInv'
<1>. DEFINE q == str[s]
            garbled == [q EXCEPT !.pc = "ready", !.garbage = TRUE]
            over == [q EXCEPT !.pc = "ready", !.state = "Done", !.ended = TRUE]
<1>1. Opened(s) /\ q.pc # "ready" /\ ~q.aligned
  BY DEF Misread
<1>2. q \in StreamRecord /\ InPlace(q) /\ ~q.ended /\ q.state # "Done"
  BY <1>1, CallGoesOn
<1>3. q.interrupts >= q.interrupts /\ (q.state # "ReadHeader" => q.interrupts > 0)
  BY <1>1, <1>2, StreamAssumption DEF StreamRecord, InPlace
<1>4. ASSUME NEW fault \in Faults \cup {"Io"}, Fails(s, q, fault),
             q.state = "ReadHeader" => fault = "InvalidHeader"
      PROVE  StreamInv'
  <2>1. fault \in {"Io", "MissingEndSentinel"} => q.interrupts > 0 \/ q.state = "Done"
    BY <1>3, <1>4
  <2>. QED  BY <1>1, <1>2, <1>3, <1>4, <2>1, FailInPlace
<1>5. CASE str' = [str EXCEPT ![s] = garbled]
  <2>1. /\ garbled \in StreamRecord /\ garbled.sent = q.sent /\ garbled.source = q.source
        /\ garbled.at = q.at /\ garbled.got = q.got /\ garbled.errs = q.errs
        /\ garbled.ended = q.ended /\ garbled.aligned = q.aligned
        /\ garbled.interrupts = q.interrupts /\ garbled.state = q.state
        /\ garbled.pc = "ready"
    BY <1>2 DEF StreamRecord
  <2>. HIDE DEF garbled
  <2>2. InPlace(garbled)
    BY <1>2, <2>1 DEF InPlace
  <2>. QED  BY <1>1, <1>2, <1>5, <2>1, <2>2, StayStep
<1>6. CASE str' = [str EXCEPT ![s] = over] /\ q.state # "ReadHeader"
  <2>1. /\ over \in StreamRecord /\ over.sent = q.sent /\ over.source = q.source
        /\ over.at = q.at /\ over.got = q.got /\ over.errs = q.errs
        /\ over.ended = TRUE /\ over.aligned = q.aligned
        /\ over.interrupts = q.interrupts /\ over.state = "Done" /\ over.pc = "ready"
    BY <1>2 DEF StreamRecord
  <2>. HIDE DEF over
  <2>2. InPlace(over)
    BY <1>2, <1>3, <1>6, <2>1 DEF InPlace
  <2>3. ~over.aligned /\ ~q.ended
    BY <1>1, <1>2, <2>1
  <2>4. q.errs \subseteq over.errs
    BY <2>1
  <2>. QED  BY <1>1, <1>6, <2>1, <2>2, <2>3, <2>4, StayStep
<1>7. "InvalidHeader" \in Faults
  BY DEF Faults
<1>. QED  BY <1>4, <1>5, <1>6, <1>7 DEF Misread

\* A call that is given up.
LEMMA InterruptStep ==
  ASSUME NEW s \in Streams, EncInv, StreamInv, UNCHANGED payloads, Interrupt(s)
  PROVE  StreamInv'
<1>. DEFINE q == str[s]
<1>1. /\ Opened(s) /\ q.pc # "ready" /\ q.interrupts < MaxInterrupts
  BY DEF Interrupt, Cancel, ReaderFails, Waiting
<1>2. q \in StreamRecord /\ InPlace(q) /\ ~q.ended /\ q.state # "Done"
  BY <1>1, CallGoesOn
<1>3. PICK lost \in BOOLEAN :
        \/ str' = [str EXCEPT ![s] = Torn(s, lost)]
        \/ Fails(s, Torn(s, lost), "InvalidHeader")
        \/ Fails(s, Torn(s, lost), "Io")
  <2>1. Lost(s) \subseteq BOOLEAN
    BY DEF Lost
  <2>. QED  BY <2>1 DEF Interrupt, Cancel, ReaderFails
<1>. DEFINE more == q.interrupts + 1
            r == Torn(s, lost)
<1>4. more \in 0 .. MaxInterrupts /\ more > 0 /\ more >= q.interrupts
  BY <1>1, <1>2, StreamAssumption DEF StreamRecord
<1>5. /\ r \in StreamRecord /\ r.sent = q.sent /\ r.source = q.source /\ r.at = q.at
      /\ r.got = q.got /\ r.errs = q.errs /\ r.ended = q.ended
      /\ r.interrupts = more /\ r.state = q.state /\ r.pc = "ready"
  <2>1. r = [q EXCEPT !.pc = "ready", !.part = 0, !.aligned = ~lost, !.interrupts = more]
    BY DEF Torn
  <2>2. q \in StreamRecord /\ (~lost) \in BOOLEAN /\ 0 \in 0 .. 3 /\ more \in 0 .. MaxInterrupts
    BY <1>2, <1>4
  <2>. HIDE DEF q, more, r
  <2>. QED  BY <2>1, <2>2 DEF StreamRecord
<1>. HIDE DEF r
<1>6. CASE str' = [str EXCEPT ![s] = r]
  <2>1. InPlace(r)
    BY <1>2, <1>4, <1>5 DEF InPlace
  <2>. QED  BY <1>1, <1>2, <1>5, <1>6, <2>1, StayStep
<1>7. CASE Fails(s, r, "InvalidHeader") \/ Fails(s, r, "Io")
  <2>1. "InvalidHeader" \in Faults
    BY DEF Faults
  <2>. QED  BY <1>1, <1>2, <1>4, <1>5, <1>7, <2>1, FailInPlace
<1>. QED  BY <1>3, <1>6, <1>7 DEF r

\* A stream is opened on a delivery of a payload.
LEMMA ListenStep ==
  ASSUME NEW s \in Streams, EncInv, StreamInv, UNCHANGED payloads, Listen(s)
  PROVE  StreamInv'
<1>1. PICK p \in payloads, damage \in StreamDamage, kind \in StreamStores :
        \E source \in Sources(p, damage) : OpenStream(s, p, source, kind)
  BY DEF Listen
<1>2. PICK source \in Sources(p, damage) : OpenStream(s, p, source, kind)
  BY <1>1
<1>3. p \in Payload /\ PayloadCarries(p)
  BY DEF EncInv, EncTypeOK, FramesCarryBlocks
<1>4. kind \in StoreKinds /\ damage \in StreamDamageKinds
  BY StreamAssumption
<1>5. ASSUME NEW q, q \in {p, [p EXCEPT !.compressed = FALSE]}, NEW k \in DamageKinds,
             NEW w \in Deliveries(q, k)
      PROVE  /\ w \in Delivery /\ [w EXCEPT !.unzips = TRUE] \in Delivery
             /\ DeliveryOf(w, q) /\ q.items = p.items
  <2>1. q \in Payload /\ PayloadCarries(q) /\ q.items = p.items
    BY <1>3, <1>5 DEF Payload, PayloadCarries
  <2>2. w \in Delivery /\ DeliveryOf(w, q)
    BY <2>1, DeliveriesDeliver
  <2>. QED  BY <2>1, <2>2 DEF Delivery
<1>6. source \in StreamSource /\ SourceOf(source, p)
  <2>1. CASE damage # "repacked"
    <3>1. PICK w \in Deliveries(p, damage) : source = Source(p, w)
      BY <2>1 DEF Sources
    <3>2. damage \in DamageKinds
      BY <1>4, <2>1 DEF StreamDamageKinds
    <3>3. w \in Delivery /\ DeliveryOf(w, p)
      BY <1>5, <3>2
    <3>4. source.items = w.items /\ source \in StreamSource
      BY <1>3, <3>1, <3>3 DEF Source, StreamSource, Delivery, Payload
    <3>. QED  BY <3>3, <3>4 DEF SourceOf, DeliveryOf
  <2>2. CASE damage = "repacked"
    <3>. DEFINE q == [p EXCEPT !.compressed = FALSE]
    <3>1. PICK k \in {"cut", "trailing"} :
            \E v \in Deliveries(q, k) : source = Source(p, [v EXCEPT !.unzips = TRUE])
      BY <2>2 DEF Sources
    <3>2. PICK v \in Deliveries(q, k) : source = Source(p, [v EXCEPT !.unzips = TRUE])
      BY <3>1
    <3>. DEFINE w == [v EXCEPT !.unzips = TRUE]
    <3>3. v \in Delivery /\ w \in Delivery /\ DeliveryOf(v, q) /\ q.items = p.items
      BY <1>5, <3>1 DEF DamageKinds
    <3>4. w.items = v.items
      BY <3>3 DEF Delivery
    <3>. HIDE DEF w
    <3>5. source.items = w.items /\ source \in StreamSource
      BY <1>3, <3>2, <3>3 DEF Source, StreamSource, Delivery, Payload, w
    <3>. QED  BY <3>3, <3>4, <3>5 DEF SourceOf, DeliveryOf
  <2>. QED  BY <2>1, <2>2
<1>. DEFINE r == [state |-> "ReadHeader", pc |-> "ready", sent |-> p, source |-> source,
                  store |-> kind, buffered |-> FALSE, at |-> 0, part |-> 0, aligned |-> TRUE,
                  interrupts |-> 0, got |-> <<>>, errs |-> {}, garbage |-> FALSE,
                  ended |-> FALSE]
<1>7. str' = [str EXCEPT ![s] = r]
  BY <1>2 DEF OpenStream
<1>8. r \in StreamRecord
  <2>1. <<>> \in Seq(Block) /\ 0 \in 0 .. MaxInterrupts /\ 0 \in 0 .. 3
    BY StreamAssumption
  <2>. QED  BY <1>3, <1>4, <1>6, <2>1 DEF StreamRecord
<1>9. InPlace(r)
  <2>1. 0 <= Len(source.items)
    BY <1>6 DEF StreamSource
  <2>. QED  BY <2>1 DEF InPlace
<1>10. Yielded(r)
  <2>1. Len(<<>>) = 0 /\ DOMAIN <<>> = {} /\ 0 <= Len(p.message)
    BY <1>3 DEF Payload
  <2>2. <<>> \in Places(<<>>, p.message, 0)
    <3>1. <<>> \in [{} -> DOMAIN p.message]
      BY <2>1
    <3>. QED  BY <2>1, <3>1 DEF Places
  <2>. QED  BY <2>1, <2>2 DEF Yielded
<1>. QED  BY <1>6, <1>7, <1>8, <1>9, <1>10, StreamFrame DEF StreamSafe
-----------------------------------------------------------------------------
(* The theorems.                                                           *)

LEMMA StreamStep ==
  ASSUME NEW s \in Streams, EncInv, StreamInv, UNCHANGED payloads, Listen(s) \/ Stream(s)
  PROVE  StreamInv'
<1>1. CASE BufferedFrame(s) \/ ReadBody(s)
  BY <1>1, YieldStep DEF BufferedFrame, InBuffer, ReadBody, FromReader
<1>2. CASE BufferedEnd(s) \/ ReadEndTail(s)
  BY <1>2, EndStep DEF BufferedEnd, InBuffer, ReadEndTail, FromReader
<1>. QED  BY <1>1, <1>2, ListenStep, CallStep, HeaderStep, BufferFailsStep, ReadPartStep,
     HitEofStep, MisreadStep, InterruptStep DEF Stream, Answer

\* What the encoders and the synchronous calls do takes nothing from a stream.
LEMMA StreamsUndisturbed ==
  ASSUME StreamInv, UNCHANGED str, payloads \subseteq payloads'
  PROVE  StreamInv'
BY DEF StreamInv, OpenStreams, Opened

\* The invariant of encoders, decode calls and streams.
THEOREM StreamInvariantHolds == SSpec => [](IInv /\ StreamInv)
<1>1. SInit => IInv /\ StreamInv
  <2>1. SInit => IInv
    BY InitInv DEF SInit
  <2>2. SInit => StreamInv
    BY DEF SInit, StreamInit, StreamInv, OpenStreams, Opened
  <2>. QED  BY <2>1, <2>2
<1>2. IInv /\ StreamInv /\ [SNext]_streamVars => (IInv /\ StreamInv)'
  <2>. SUFFICES ASSUME IInv, StreamInv, [SNext]_streamVars
                PROVE  IInv' /\ StreamInv'
    OBVIOUS
  <2>1. CASE Next /\ UNCHANGED str
    <3>1. payloads \subseteq payloads'
      BY <2>1, EncoderStep DEF Next, IInv, EncGuarantee, encVars
    <3>. QED  BY <2>1, <3>1, NextInv, StreamsUndisturbed
  <2>2. ASSUME NEW s \in Streams, Listen(s) \/ Stream(s), UNCHANGED vars
        PROVE  IInv' /\ StreamInv'
    <3>1. IInv'
      BY <2>2, NextInv
    <3>2. UNCHANGED payloads
      BY <2>2 DEF vars, encVars
    <3>. QED  BY <2>2, <3>1, <3>2, StreamStep DEF IInv
  <2>3. CASE UNCHANGED streamVars
    <3>1. UNCHANGED vars /\ UNCHANGED payloads /\ UNCHANGED str
      BY <2>3 DEF streamVars, vars, encVars
    <3>. QED  BY <3>1, NextInv, StreamsUndisturbed
  <2>. QED  BY <2>1, <2>2, <2>3 DEF SNext
<1>. QED  BY <1>1, <1>2, PTL DEF SSpec

\* Every open stream has its type (streaming.rs, StreamingDecoder).
THEOREM StreamTypeCorrect == SSpec => []StreamTypeOK
<1>1. IInv /\ StreamInv => StreamTypeOK
  BY DEF StreamInv, StreamSafe, StreamTypeOK
<1>. QED  BY <1>1, StreamInvariantHolds, PTL

\* Before its first error a stream yields a prefix of what was sent, and across
\* refused frames only blocks that were sent, in their order, whatever was cut,
\* cancelled or unreadable (streaming.rs, read_next_block).
THEOREM StreamYieldsSent == SSpec => []StreamedIsSent
<1>1. IInv /\ StreamInv => StreamedIsSent
  BY DEF StreamInv, StreamSafe, StreamedIsSent, Yielded, Places
<1>. QED  BY <1>1, StreamInvariantHolds, PTL

\* None without an error before it means that every block has been yielded
\* (streaming.rs, read_end_frame_tail).
THEOREM NoneIsWhole == SSpec => []NoneMeansWhole
<1>1. ASSUME IInv, StreamInv, NEW s \in OpenStreams,
             str[s].ended, str[s].errs = {}, str[s].aligned
      PROVE  str[s].got = str[s].sent.message
  <2>. DEFINE got == str[s].got
              message == str[s].sent.message
  <2>1. StreamSafe(str[s]) /\ str[s].sent \in payloads
    BY <1>1 DEF StreamInv
  <2>2. got \in Seq(Block) /\ message \in Seq(Block)
    BY <2>1 DEF StreamSafe, StreamRecord, Payload
  <2>3. Len(got) = Len(message) /\ \A i \in DOMAIN got : got[i] = message[i]
    BY <1>1, <2>1 DEF StreamSafe, Yielded
  <2>. HIDE DEF got, message
  <2>4. got = message
    BY <2>2, <2>3
  <2>. QED  BY <2>4 DEF got, message
<1>2. IInv /\ StreamInv => NoneMeansWhole
  BY <1>1 DEF NoneMeansWhole, OpenStreams
<1>. QED  BY <1>2, StreamInvariantHolds, PTL

LEMMA SetStays ==
  ASSUME NEW s \in Streams, DOMAIN str = Streams, NEW r, str' = [str EXCEPT ![s] = r],
         r.at = str[s].at, r.got = str[s].got
  PROVE  str'[s].at = str[s].at /\ str'[s].got = str[s].got
OBVIOUS

LEMMA FailStays ==
  ASSUME NEW s \in Streams, DOMAIN str = Streams, NEW r, NEW fault, Fails(s, r, fault),
         r.at = str[s].at, r.got = str[s].got
  PROVE  str'[s].at = str[s].at /\ str'[s].got = str[s].got
<1>1. str'[s] = [r EXCEPT !.pc = "ready", !.errs = @ \cup {fault}]
  BY DEF Fails
<1>. QED  BY <1>1

\* The steps that read no item and yield no block.
LEMMA OtherStepsStay ==
  ASSUME NEW s \in Streams, EncInv, StreamInv, Opened(s),
         \/ CallNext(s) \/ CallDone(s) \/ ReadHeader(s) \/ UnzipPayload(s)
         \/ BufferedCut(s) \/ BufferedRunOut(s) \/ ReadPart(s) \/ Misread(s)
         \/ Interrupt(s)
  PROVE  str'[s].at = str[s].at /\ str'[s].got = str[s].got
<1>1. str[s] \in StreamRecord /\ DOMAIN str = Streams
  BY OpenIsSafe DEF StreamInv
<1>. DEFINE called == [str[s] EXCEPT !.pc = "called"]
            over == [str[s] EXCEPT !.ended = TRUE]
            part == [str[s] EXCEPT !.part = @ + 1]
            unzip == [str[s] EXCEPT !.pc = "unzip"]
            read == [str[s] EXCEPT !.pc = "ready", !.state = "ReadBlocks"]
            unzipped == [str[s] EXCEPT !.pc = "ready", !.state = "ReadBlocks",
                                       !.buffered = TRUE]
            garbled == [str[s] EXCEPT !.pc = "ready", !.garbage = TRUE]
            ended == [str[s] EXCEPT !.pc = "ready", !.state = "Done", !.ended = TRUE]
            lost == [str[s] EXCEPT !.aligned = FALSE]
            done == [str[s] EXCEPT !.state = "Done"]
            Same(r) == r.at = str[s].at /\ r.got = str[s].got
<1>2. /\ Same(called) /\ Same(over) /\ Same(part) /\ Same(unzip) /\ Same(read)
      /\ Same(unzipped) /\ Same(garbled) /\ Same(ended) /\ Same(lost) /\ Same(done)
      /\ \A b \in BOOLEAN : Same(Torn(s, b))
  BY <1>1 DEF StreamRecord, Torn
<1>3. CASE CallNext(s)
  BY <1>1, <1>2, <1>3, SetStays DEF CallNext
<1>4. CASE CallDone(s)
  BY <1>1, <1>2, <1>4, SetStays DEF CallDone
<1>5. CASE ReadPart(s)
  BY <1>1, <1>2, <1>5, SetStays DEF ReadPart
<1>6. CASE ReadHeader(s)
  <2>1. \/ Fails(s, str[s], "InvalidHeader")
        \/ str' = [str EXCEPT ![s] = unzip] \/ str' = [str EXCEPT ![s] = read]
    BY <1>6 DEF ReadHeader
  <2>. HIDE DEF unzip, read
  <2>. QED  BY <1>1, <1>2, <2>1, SetStays, FailStays
<1>7. CASE UnzipPayload(s)
  <2>1. \/ Fails(s, lost, "DecompressFailed") \/ Fails(s, lost, "DecompressionBomb")
        \/ str' = [str EXCEPT ![s] = unzipped]
    BY <1>7 DEF UnzipPayload
  <2>. HIDE DEF lost, unzipped
  <2>. QED  BY <1>1, <1>2, <2>1, SetStays, FailStays
<1>8. CASE BufferedCut(s) \/ BufferedRunOut(s)
  <2>1. Fails(s, str[s], "Wire") \/ Fails(s, done, "MissingEndSentinel")
    BY <1>8 DEF BufferedCut, BufferedRunOut
  <2>. HIDE DEF done
  <2>. QED  BY <1>1, <1>2, <2>1, FailStays
<1>9. CASE Misread(s)
  <2>1. \/ \E fault : Fails(s, str[s], fault)
        \/ str' = [str EXCEPT ![s] = garbled] \/ str' = [str EXCEPT ![s] = ended]
    BY <1>9 DEF Misread
  <2>. HIDE DEF garbled, ended
  <2>. QED  BY <1>1, <1>2, <2>1, SetStays, FailStays
<1>10. CASE Interrupt(s)
  <2>1. PICK b \in BOOLEAN :
          \/ str' = [str EXCEPT ![s] = Torn(s, b)]
          \/ Fails(s, Torn(s, b), "InvalidHeader") \/ Fails(s, Torn(s, b), "Io")
    BY <1>10 DEF Interrupt, Cancel, ReaderFails, Lost
  <2>. QED  BY <1>1, <1>2, <2>1, SetStays, FailStays
<1>. QED  BY <1>3, <1>4, <1>5, <1>6, <1>7, <1>8, <1>9, <1>10

\* A stream never goes back, and yields nothing after an error of framing unless a
\* call was given up (streaming.rs, read_next_block).
THEOREM TruncationIsFinal == SSpec => NothingAfterTruncation
<1>. DEFINE Framing(s) == str[s].errs \cap {"Io", "MissingEndSentinel"} # {} \/ Before(s, "cut")
            Forward(s) == /\ str'[s].at >= str[s].at
                          /\ str[s].interrupts = 0 /\ Framing(s) => str'[s].got = str[s].got
<1>1. ASSUME IInv, StreamInv, [SNext]_streamVars, NEW s \in OpenStreams
      PROVE  Forward(s)
  <2>. DEFINE q == str[s]
  <2>1. /\ Opened(s) /\ s \in Streams /\ DOMAIN str = Streams
        /\ q \in StreamRecord /\ InPlace(q) /\ q.at \in Nat
        /\ q.source.items \in Seq(StreamItem)
    BY <1>1, OpenIsSafe DEF OpenStreams, IInv, StreamInv, StreamRecord, StreamSource
  <2>2. CASE str'[s] = str[s]
    BY <2>1, <2>2
  <2>3. ASSUME Stream(s)
        PROVE  Forward(s)
    <3>1. CASE Called(s, "ReadBlocks") /\ Before(s, "block") /\ Yield(s)
      <4>1. /\ q.state = "ReadBlocks" /\ q.at < Len(q.source.items)
            /\ Len(q.source.items) \in Nat
        BY <2>1, <3>1 DEF Called, Before, ItemsLeft
      <4>2. ~Before(s, "cut")
        BY <3>1 DEF Before
      <4>3. q.interrupts = 0 => ~Framing(s)
        BY <2>1, <4>1, <4>2 DEF InPlace
      <4>4. str'[s].at = q.at + 1
        BY <2>1, <3>1 DEF Yield, Fails, Consumed, StreamRecord
      <4>. QED  BY <2>1, <4>3, <4>4
    <3>2. CASE Called(s, "ReadBlocks") /\ Finish(s)
      <4>1. str'[s].at = q.at + 1 /\ str'[s].got = q.got
        BY <2>1, <3>2 DEF Finish, Consumed, StreamRecord
      <4>. QED  BY <2>1, <4>1
    <3>3. CASE HitEof(s)
      <4>1. str'[s].at = Len(q.source.items) /\ str'[s].got = q.got
        BY <2>1, <3>3 DEF HitEof, Fails, StreamRecord
      <4>. QED  BY <2>1, <4>1 DEF InPlace
    <3>4. CASE \/ CallNext(s) \/ CallDone(s) \/ ReadHeader(s) \/ UnzipPayload(s)
               \/ BufferedCut(s) \/ BufferedRunOut(s) \/ ReadPart(s) \/ Misread(s)
               \/ Interrupt(s)
      <4>1. str'[s].at = q.at /\ str'[s].got = q.got
        BY <1>1, <2>1, <3>4, OtherStepsStay DEF IInv
      <4>. QED  BY <2>1, <4>1
    <3>. QED  BY <2>3, <3>1, <3>2, <3>3, <3>4 DEF Stream, Answer, BufferedFrame, ReadBody,
         BufferedEnd, ReadEndTail, InBuffer, FromReader
  <2>4. ASSUME NEW s2 \in Streams, s2 # s, Listen(s2) \/ Stream(s2)
        PROVE  str'[s] = str[s]
    BY <2>1, <2>4 DEF Listen, OpenStream, Stream, Answer, Interrupt, CallNext, CallDone,
       ReadHeader, UnzipPayload, BufferedFrame, BufferedEnd, BufferedCut, BufferedRunOut,
       ReadPart, ReadBody, ReadEndTail, HitEof, Misread, Cancel, ReaderFails, Yield, Finish,
       Fails
  <2>5. ~Listen(s)
    BY <2>1 DEF Listen, OpenStream
  <2>6. \/ str' = str
        \/ \E s2 \in Streams : Listen(s2) \/ Stream(s2)
    BY <1>1 DEF SNext, streamVars
  <2>. QED  BY <2>2, <2>3, <2>4, <2>5, <2>6
<1>2. IInv /\ StreamInv /\ [SNext]_streamVars
        => [\A s \in OpenStreams : Forward(s)]_streamVars
  BY <1>1
<1>. QED  BY <1>2, StreamInvariantHolds, PTL DEF SSpec, NothingAfterTruncation
-----------------------------------------------------------------------------
(* The two decoders agree.                                                 *)

\* A frame that carries a block is refused for one reason only: it is a reference, and
\* the decoder does not have the encoders' store.
LEMMA RefusedIsUnreadable ==
  ASSUME NEW f \in Frame, NEW b \in Block, StoreSound, Carries(f, b), NEW kind
  PROVE  FrameFault(f, kind) = "none" <=> Readable(f, kind)
<1>1. FrameFault(f, "shared") = "none"
  BY CarriedDecodes
<1>2. CASE ~f.reference
  BY <1>1, <1>2 DEF FrameFault, Readable
<1>3. CASE f.reference /\ kind = "shared"
  BY <1>1, <1>3 DEF Readable
<1>4. CASE f.reference /\ kind # "shared"
  <2>1. f.body.form = "hash" /\ ~Resolvable(f, kind)
    BY <1>4 DEF Carries, HashOf, Resolvable
  <2>2. FrameFault(f, kind) \in {"MissingContentStore", "UnresolvedReference"}
    BY <1>4, <2>1 DEF FrameFault
  <2>. QED  BY <1>4, <2>2 DEF Readable
<1>. QED  BY <1>2, <1>3, <1>4

\* A step of one call leaves the causes of the others as they were.
LEMMA CallCauseFrame ==
  ASSUME NEW d \in Decoders, DecInv, CauseInv, NEW c, dec' = [dec EXCEPT ![d] = c],
         CallCause(c), UNCHANGED str
  PROVE  CauseInv'
<1>1. dec'[d] = c /\ \A d2 \in Decoders \ {d} : dec'[d2] = dec[d2]
  BY DecInvByCall
<1>2. ASSUME NEW d2 \in Started' PROVE CallCause(dec'[d2])
  <2>1. CASE d2 = d
    BY <1>1, <2>1
  <2>2. CASE d2 # d
    BY <1>1, <1>2, <2>2 DEF CauseInv, Started
  <2>. QED  BY <2>1, <2>2
<1>. QED  BY <1>2 DEF CauseInv, OpenStreams, Opened

\* A call opens its payload.
LEMMA ReceiveCause ==
  ASSUME NEW d \in Decoders, EncInv, DecInv, CauseInv, Receive(d), UNCHANGED str
  PROVE  CauseInv'
<1>1. PICK p \in payloads, damage \in Damage, kind \in Stores :
        \E w \in Deliveries(p, damage) : Open(d, p, w, kind)
  BY DEF Receive
<1>2. PICK w \in Deliveries(p, damage) : Open(d, p, w, kind)
  BY <1>1
<1>. DEFINE c == [status |-> IF OpenFault(p, w) = "none" THEN "reading" ELSE OpenFault(p, w),
                  sent |-> p, wire |-> w, store |-> kind, blocks |-> <<>>]
<1>5. OpenFault(p, w) \notin {"reading", "ok"}
  BY DEF OpenFault
<1>6. c.status \in {"reading", "ok"} => OpenFault(p, w) = "none"
  BY <1>5
<1>7. c.status # "reading" => OpenFault(p, w) # "none"
  OBVIOUS
<1>8. /\ c.sent = p /\ c.wire = w /\ c.store = kind /\ DOMAIN c.blocks = {}
      /\ dec' = [dec EXCEPT ![d] = c]
  BY <1>2 DEF Open
<1>. HIDE DEF c
<1>9. CallCause(c)
  BY <1>6, <1>7, <1>8 DEF CallCause
<1>. QED  BY <1>8, <1>9, CallCauseFrame

\* A call reads a frame, or stops at an item.
LEMMA DecodeCause ==
  ASSUME NEW d \in Decoders, EncInv, DecInv, CauseInv, Decode(d), UNCHANGED str
  PROVE  CauseInv'
<1>. DEFINE q == dec[d]
            n == Len(q.blocks) + 1
            size == Len(q.sent.message)
            Bad == Faulty(q.wire.items, size, q.store)
<1>1. Reading(d)
  BY DEF Decode, DecodeFrame, RejectFrame, RejectCut, ReadEnd, RunOut, AtItem
<1>2. /\ q \in DecodeCall /\ q # Unstarted /\ q.blocks \in Seq(Block) /\ Len(q.blocks) \in Nat
      /\ q.wire.items \in Seq(StreamItem) /\ q.sent.message \in Seq(Block)
      /\ Len(q.blocks) <= size /\ q.status = "reading"
  BY <1>1, ReadingCall DEF CallInv, Reading
<1>3. CallCause(q)
  BY <1>2 DEF CauseInv, Started
<1>4. n \in 1 .. size + 1 /\ n \in Nat /\ size \in Nat
  <2>. DEFINE k == Len(q.blocks)
  <2>1. k \in Nat /\ size \in Nat /\ k <= size
    BY <1>2
  <2>. HIDE DEF k, size
  <2>2. k + 1 \in 1 .. size + 1 /\ k + 1 \in Nat
    BY <2>1
  <2>. QED  BY <2>1, <2>2 DEF k
<1>5. ASSUME NEW s, Stop(d, s), s # "reading", s \in {"ok", "TrailingData"} \/ Bad
      PROVE  CauseInv'
  <2>. DEFINE c == [q EXCEPT !.status = s]
  <2>1. /\ dec' = [dec EXCEPT ![d] = c] /\ c.status = s /\ c.sent = q.sent /\ c.wire = q.wire
        /\ c.store = q.store /\ c.blocks = q.blocks
    BY <1>2, <1>5 DEF Stop, DecodeCall
  <2>. HIDE DEF c
  <2>2. CallCause(c)
    BY <1>2, <1>3, <1>5, <2>1 DEF CallCause
  <2>. QED  BY <2>1, <2>2, CallCauseFrame
<1>6. ASSUME AtItem(d, "block")
      PROVE  /\ n <= size /\ n <= Len(q.wire.items)
             /\ FrameFault(Item(d), q.store) = "none" <=> Readable(q.wire.items[n], q.store)
  <2>1. Item(d) = q.wire.items[n] /\ Item(d) # CutItem /\ Len(q.blocks) < Len(q.wire.items)
    BY <1>6 DEF AtItem, Item, CutItem
  <2>2. /\ n \in DOMAIN q.sent.message /\ Item(d) \in Frame
        /\ Carries(Item(d), q.sent.message[n]) /\ q.sent.message[n] \in Block
    BY <1>1, <1>6, <2>1, NextIsSent DEF AtItem, Item
  <2>3. FrameFault(Item(d), q.store) = "none" <=> Readable(Item(d), q.store)
    BY <2>2, RefusedIsUnreadable DEF EncInv
  <2>4. n <= size
    BY <1>2, <2>2
  <2>5. n <= Len(q.wire.items)
    BY <1>2, <2>1
  <2>. QED  BY <2>1, <2>3, <2>4, <2>5
<1>7. CASE DecodeFrame(d)
  <2>. DEFINE b == DecodedBlock(Item(d))
              more == Append(q.blocks, b)
              c == [q EXCEPT !.blocks = more]
  <2>1. /\ dec' = [dec EXCEPT ![d] = c] /\ c.status = q.status /\ c.sent = q.sent
        /\ c.wire = q.wire /\ c.store = q.store /\ c.blocks = more
    BY <1>2, <1>7 DEF DecodeFrame, DecodeCall
  <2>2. Readable(q.wire.items[n], q.store)
    BY <1>6, <1>7 DEF DecodeFrame
  <2>3. \A i \in DOMAIN more : i = n \/ i \in DOMAIN q.blocks
    BY <1>2
  <2>. HIDE DEF c, more, n
  <2>4. CallCause(c)
    BY <1>2, <1>3, <2>1, <2>2, <2>3 DEF CallCause
  <2>. QED  BY <2>1, <2>4, CallCauseFrame
<1>8. CASE RejectFrame(d)
  <2>1. n <= size /\ ~Readable(q.wire.items[n], q.store)
    BY <1>6, <1>8 DEF RejectFrame
  <2>2. Bad
    BY <1>4, <2>1 DEF Faulty
  <2>3. FrameFault(Item(d), q.store) # "reading"
    BY DEF FrameFault
  <2>. QED  BY <1>5, <1>8, <2>2, <2>3 DEF RejectFrame
<1>9. CASE RejectCut(d)
  <2>1. q.wire.items[n] \in StreamItem /\ q.wire.items[n].kind = "cut"
    BY <1>2, <1>9 DEF RejectCut, AtItem
  <2>2. q.wire.items[n] = CutItem
    BY <2>1 DEF StreamItem, Frame, EndItem, CutItem
  <2>3. Bad
    BY <1>4, <2>2 DEF Faulty
  <2>. QED  BY <1>5, <1>9, <2>3 DEF RejectCut
<1>10. CASE ReadEnd(d)
  BY <1>5, <1>10 DEF ReadEnd
<1>11. CASE RunOut(d)
  <2>1. n > Len(q.wire.items)
    BY <1>2, <1>11 DEF RunOut
  <2>2. Bad
    BY <1>4, <2>1 DEF Faulty
  <2>. QED  BY <1>5, <1>11, <2>2 DEF RunOut
<1>. QED  BY <1>7, <1>8, <1>9, <1>10, <1>11 DEF Decode

\* A step of one stream leaves the causes of the others as they were.
LEMMA StreamCauseFrame ==
  ASSUME NEW s \in Streams, StreamInv, CauseInv, NEW r, str' = [str EXCEPT ![s] = r],
         StreamCause(r), UNCHANGED dec
  PROVE  CauseInv'
<1>1. str'[s] = r /\ \A s2 \in Streams \ {s} : str'[s2] = str[s2]
  BY DEF StreamInv
<1>2. ASSUME NEW s2 \in OpenStreams' PROVE StreamCause(str'[s2])
  <2>1. CASE s2 = s
    BY <1>1, <2>1
  <2>2. CASE s2 # s
    BY <1>1, <1>2, <2>2 DEF CauseInv, OpenStreams, Opened
  <2>. QED  BY <2>1, <2>2
<1>. QED  BY <1>2 DEF CauseInv, Started

\* A step that neither reads an item nor opens the payload nor fails first.
LEMMA QuietCause ==
  ASSUME NEW s \in Streams, EncInv, StreamInv, CauseInv, Opened(s), UNCHANGED dec,
         NEW r \in StreamRecord, str' = [str EXCEPT ![s] = r],
         r.sent = str[s].sent, r.source = str[s].source, r.store = str[s].store,
         \/ r.interrupts > 0
         \/ /\ r.interrupts = str[s].interrupts /\ r.at = str[s].at
            /\ r.errs = {} <=> str[s].errs = {}
            /\ r.errs = {} => r.aligned = str[s].aligned /\ r.ended = str[s].ended
            /\ r.pc # "unzip" /\ (r.state = "ReadHeader" \/ str[s].state # "ReadHeader")
  PROVE  CauseInv'
<1>. DEFINE q == str[s]
<1>1. q \in StreamRecord /\ StreamCause(q)
  BY OpenIsSafe DEF CauseInv, OpenStreams
<1>2. r.interrupts \in Nat
  BY StreamAssumption DEF StreamRecord
<1>3. StreamCause(r)
  BY <1>1, <1>2 DEF StreamCause
<1>. QED  BY <1>3, StreamCauseFrame

\* A call that fails for a reason that is in the bytes or in the store.
LEMMA FailCause ==
  ASSUME NEW s \in Streams, EncInv, StreamInv, CauseInv, Opened(s), UNCHANGED dec,
         NEW r \in StreamRecord, NEW fault, str' = [str EXCEPT ![s] = r],
         r.sent = str[s].sent, r.source = str[s].source, r.store = str[s].store,
         r.interrupts = str[s].interrupts, r.errs = str[s].errs \cup {fault},
         r.pc # "unzip", r.state = "ReadHeader" \/ str[s].state # "ReadHeader",
         (str[s].interrupts = 0 /\ str[s].errs = {}) =>
           \/ ~SourceOpens(str[s].source)
           \/ Faulty(str[s].source.items, Len(str[s].sent.message), str[s].store)
  PROVE  CauseInv'
<1>1. StreamCause(str[s])
  BY DEF CauseInv, OpenStreams
<1>2. StreamCause(r)
  BY <1>1 DEF StreamCause
<1>. QED  BY <1>2, StreamCauseFrame

\* read_header, with the decompression of the payload.
LEMMA HeaderCause ==
  ASSUME NEW s \in Streams, EncInv, StreamInv, CauseInv, UNCHANGED dec,
         ReadHeader(s) \/ UnzipPayload(s)
  PROVE  CauseInv'
<1>. DEFINE q == str[s]
            unzip == [q EXCEPT !.pc = "unzip"]
            read == [q EXCEPT !.pc = "ready", !.state = "ReadBlocks"]
            unzipped == [q EXCEPT !.pc = "ready", !.state = "ReadBlocks", !.buffered = TRUE]
<1>1. Opened(s) /\ q.pc # "ready" /\ q \in StreamRecord /\ InPlace(q)
      /\ q.state = "ReadHeader" /\ q.aligned
  BY CallGoesOn DEF ReadHeader, UnzipPayload, Called, InPlace
<1>2. StreamCause(q)
  BY <1>1 DEF CauseInv, OpenStreams
<1>3. q.source.size \in Nat /\ MaxPayload \in Nat
  BY <1>1, WireAssumption DEF StreamRecord, StreamSource
<1>4. ASSUME NEW fault \in Faults, NEW aligned \in BOOLEAN,
             str' = [str EXCEPT ![s] = [q EXCEPT !.pc = "ready", !.aligned = aligned,
                                                 !.errs = q.errs \cup {fault}]],
             q.interrupts = 0 => ~SourceOpens(q.source)
      PROVE  CauseInv'
  <2>. DEFINE r == [q EXCEPT !.pc = "ready", !.aligned = aligned,
                             !.errs = q.errs \cup {fault}]
  <2>1. /\ r \in StreamRecord /\ r.sent = q.sent /\ r.source = q.source /\ r.store = q.store
        /\ r.interrupts = q.interrupts /\ r.errs = q.errs \cup {fault} /\ r.pc = "ready"
        /\ r.state = "ReadHeader"
    BY <1>1 DEF StreamRecord
  <2>. HIDE DEF r
  <2>. QED  BY <1>1, <1>4, <2>1, FailCause DEF r
<1>5. ASSUME NEW r \in {unzip, read, unzipped}, str' = [str EXCEPT ![s] = r],
             q.interrupts = 0 =>
               /\ r.pc = "unzip" => q.source.header /\ q.source.compressed
               /\ r.state # "ReadHeader" => SourceOpens(q.source)
      PROVE  CauseInv'
  <2>1. /\ r.sent = q.sent /\ r.source = q.source /\ r.store = q.store /\ r.at = q.at
        /\ r.errs = q.errs /\ r.ended = q.ended /\ r.aligned = q.aligned
        /\ r.interrupts = q.interrupts
    BY <1>1 DEF StreamRecord
  <2>2. StreamCause(r)
    BY <1>2, <1>5, <2>1 DEF StreamCause
  <2>. QED  BY <1>5, <2>2, StreamCauseFrame
<1>6. "InvalidHeader" \in Faults /\ "DecompressFailed" \in Faults
      /\ "DecompressionBomb" \in Faults
  BY DEF Faults
<1>7. CASE ReadHeader(s)
  <2>1. CASE ~q.source.header
    <3>1. str' = [str EXCEPT ![s] = [q EXCEPT !.pc = "ready",
                                              !.errs = q.errs \cup {"InvalidHeader"}]]
      BY <1>7, <2>1 DEF ReadHeader, Fails
    <3>2. [q EXCEPT !.pc = "ready", !.errs = q.errs \cup {"InvalidHeader"}]
            = [q EXCEPT !.pc = "ready", !.aligned = TRUE,
                        !.errs = q.errs \cup {"InvalidHeader"}]
      BY <1>1 DEF StreamRecord
    <3>. QED  BY <1>4, <1>6, <2>1, <3>1, <3>2 DEF SourceOpens
  <2>2. CASE q.source.header /\ q.source.compressed
    <3>1. str' = [str EXCEPT ![s] = unzip] /\ unzip.pc = "unzip" /\ unzip.state = "ReadHeader"
      BY <1>1, <1>7, <2>2 DEF ReadHeader, StreamRecord
    <3>. HIDE DEF unzip, read, unzipped
    <3>. QED  BY <1>5, <2>2, <3>1
  <2>3. CASE q.source.header /\ ~q.source.compressed
    <3>1. str' = [str EXCEPT ![s] = read] /\ read.pc = "ready"
      BY <1>1, <1>7, <2>3 DEF ReadHeader, StreamRecord
    <3>2. SourceOpens(q.source)
      BY <2>3 DEF SourceOpens
    <3>. HIDE DEF unzip, read, unzipped
    <3>. QED  BY <1>5, <3>1, <3>2
  <2>. QED  BY <2>1, <2>2, <2>3
<1>8. CASE UnzipPayload(s)
  <2>1. q.interrupts = 0 => q.source.header /\ q.source.compressed
    BY <1>2, <1>8 DEF StreamCause, UnzipPayload
  <2>2. ASSUME NEW fault \in {"DecompressFailed", "DecompressionBomb"},
               Fails(s, [q EXCEPT !.aligned = FALSE], fault),
               ~q.source.unzips \/ q.source.size > MaxPayload
        PROVE  CauseInv'
    <3>1. str' = [str EXCEPT ![s] = [q EXCEPT !.pc = "ready", !.aligned = FALSE,
                                              !.errs = q.errs \cup {fault}]]
      BY <1>1, <2>2 DEF Fails, StreamRecord
    <3>2. q.interrupts = 0 => ~SourceOpens(q.source)
      BY <1>3, <2>1, <2>2 DEF SourceOpens
    <3>. QED  BY <1>4, <1>6, <3>1, <3>2
  <2>3. CASE q.source.unzips /\ ~(q.source.size > MaxPayload)
    <3>1. str' = [str EXCEPT ![s] = unzipped] /\ unzipped.pc = "ready"
      BY <1>1, <1>8, <2>3 DEF UnzipPayload, StreamRecord
    <3>2. q.interrupts = 0 => SourceOpens(q.source)
      BY <1>3, <2>1, <2>3 DEF SourceOpens
    <3>. HIDE DEF unzip, read, unzipped
    <3>. QED  BY <1>5, <3>1, <3>2
  <2>. QED  BY <1>8, <2>2, <2>3 DEF UnzipPayload
<1>. QED  BY <1>7, <1>8

\* The item a stream stands before, when it has had no error: one of those that were sent,
\* or the place of one.
LEMMA PlaceSoFar ==
  ASSUME NEW s \in Streams, EncInv, StreamInv, Opened(s), ~str[s].ended, str[s].errs = {}
  PROVE  /\ str[s].at \in Nat /\ Len(str[s].sent.message) \in Nat
         /\ str[s].at + 1 \in 1 .. Len(str[s].sent.message) + 1
<1>. DEFINE at == str[s].at
            n == Len(str[s].sent.message)
<1>1. at = Len(str[s].got) /\ at <= n /\ n \in Nat /\ at \in Nat
  BY OpenIsSafe DEF Yielded, StreamRecord, Payload
<1>. HIDE DEF at, n
<1>2. at + 1 \in 1 .. n + 1
  BY <1>1
<1>. QED  BY <1>1, <1>2 DEF at, n

\* decode_frame on the next frame.
LEMMA YieldCause ==
  ASSUME NEW s \in Streams, EncInv, StreamInv, CauseInv, UNCHANGED dec,
         Called(s, "ReadBlocks"), Before(s, "block"), Yield(s)
  PROVE  CauseInv'
<1>. DEFINE q == str[s]
            f == NextItem(s)
            n == q.at + 1
            size == Len(q.sent.message)
            fault == FrameFault(f, q.store)
            b == DecodedBlock(f)
            c == [q EXCEPT !.at = n, !.part = 0]
<1>1. /\ Opened(s) /\ q.pc = "called" /\ q.state = "ReadBlocks" /\ ItemsLeft(s)
      /\ f.kind = "block" /\ f # CutItem /\ q \in StreamRecord /\ ~q.ended
      /\ DOMAIN str = Streams
  BY CallGoesOn DEF Called, Before, CutItem, StreamInv
<1>2. /\ n \in DOMAIN q.sent.message /\ f \in Frame /\ Carries(f, q.sent.message[n])
      /\ q.sent.message[n] \in Block
  BY <1>1, StreamedItem
<1>3. fault = "none" <=> Readable(f, q.store)
  BY <1>2, RefusedIsUnreadable DEF EncInv
<1>4. /\ q.at \in Nat /\ n \in Nat /\ size \in Nat /\ n <= size /\ n \in 1 .. size + 1
      /\ f = q.source.items[n]
  <2>1. q.at \in Nat /\ q.sent.message \in Seq(Block)
    BY <1>1, OpenIsSafe DEF StreamRecord, Payload
  <2>2. f = q.source.items[n]
    BY DEF NextItem
  <2>3. DOMAIN q.sent.message = 1 .. size /\ size \in Nat
    BY <2>1
  <2>. HIDE DEF size
  <2>. QED  BY <1>2, <2>1, <2>2, <2>3
<1>5. StreamCause(q)
  BY <1>1 DEF CauseInv, OpenStreams
<1>6. c = Consumed(s)
  BY DEF Consumed
<1>7. /\ c \in StreamRecord /\ c.sent = q.sent /\ c.source = q.source /\ c.store = q.store
      /\ c.at = n /\ c.errs = q.errs /\ c.ended = FALSE /\ c.aligned = q.aligned
      /\ c.interrupts = q.interrupts /\ c.state = "ReadBlocks" /\ c.got = q.got
  <2>1. q.ended = FALSE /\ 0 \in 0 .. 3
    BY <1>1 DEF StreamRecord
  <2>. HIDE DEF n
  <2>. QED  BY <1>1, <1>4, <2>1 DEF StreamRecord
<1>8. CASE fault = "none"
  <2>. DEFINE r == [c EXCEPT !.pc = "ready", !.got = Append(c.got, b)]
  <2>1. str' = [str EXCEPT ![s] = r]
    BY <1>6, <1>8 DEF Yield
  <2>2. /\ r.sent = q.sent /\ r.source = q.source /\ r.store = q.store /\ r.at = n
        /\ r.errs = q.errs /\ r.ended = FALSE /\ r.aligned = q.aligned
        /\ r.interrupts = q.interrupts /\ r.state = "ReadBlocks" /\ r.pc = "ready"
    <3>1. b \in Block
      BY <1>2, CarriedDecodes DEF EncInv
    <3>. HIDE DEF c, b
    <3>2. Append(c.got, b) \in Seq(Block)
      BY <1>7, <3>1 DEF StreamRecord
    <3>. QED  BY <1>7, <3>2 DEF StreamRecord
  <2>. HIDE DEF r
  <2>3. \A i \in 1 .. n : i = n \/ i \in 1 .. q.at
    BY <1>4
  <2>4. q.source.items[n] # CutItem /\ Readable(q.source.items[n], q.store)
    BY <1>1, <1>3, <1>4, <1>8
  <2>. HIDE DEF n
  <2>5. StreamCause(r)
    BY <1>1, <1>5, <2>2, <2>3, <2>4 DEF StreamCause
  <2>. QED  BY <1>1, <2>1, <2>5, StreamCauseFrame
<1>9. CASE fault # "none"
  <2>. DEFINE r == [c EXCEPT !.pc = "ready", !.errs = c.errs \cup {fault}]
  <2>1. str' = [str EXCEPT ![s] = r]
    BY <1>6, <1>9 DEF Yield, Fails
  <2>2. /\ r \in StreamRecord /\ r.sent = q.sent /\ r.source = q.source /\ r.store = q.store
        /\ r.errs = q.errs \cup {fault} /\ r.interrupts = q.interrupts
        /\ r.state = "ReadBlocks" /\ r.pc = "ready"
    <3>1. fault \in Faults
      BY <1>9 DEF FrameFault, Faults
    <3>. HIDE DEF c, fault
    <3>. QED  BY <1>7, <3>1 DEF StreamRecord
  <2>. HIDE DEF r
  <2>3. Faulty(q.source.items, size, q.store)
    BY <1>3, <1>4, <1>9 DEF Faulty
  <2>. QED  BY <1>1, <2>1, <2>2, <2>3, FailCause
<1>. QED  BY <1>8, <1>9

\* END is read.
LEMMA EndCause ==
  ASSUME NEW s \in Streams, EncInv, StreamInv, CauseInv, UNCHANGED dec,
         Called(s, "ReadBlocks"), Before(s, "end"), Finish(s)
  PROVE  CauseInv'
<1>. DEFINE q == str[s]
            n == q.at + 1
            size == Len(q.sent.message)
            r == [q EXCEPT !.at = n, !.part = 0, !.pc = "ready", !.state = "Done", !.ended = TRUE]
<1>1. /\ Opened(s) /\ q.state = "ReadBlocks" /\ ItemsLeft(s)
      /\ NextItem(s).kind = "end" /\ NextItem(s) # CutItem /\ q \in StreamRecord
  BY CallGoesOn DEF Called, Before, CutItem
<1>2. q.at = size /\ q.at \in Nat
  BY <1>1, StreamedItem DEF StreamRecord
<1>3. StreamCause(q)
  BY <1>1 DEF CauseInv, OpenStreams
<1>4. str' = [str EXCEPT ![s] = r]
  <2>1. [Consumed(s) EXCEPT !.pc = "ready", !.state = "Done", !.ended = TRUE] = r
    BY <1>1 DEF Consumed, StreamRecord
  <2>. QED  BY <2>1 DEF Finish
<1>5. /\ r.sent = q.sent /\ r.source = q.source /\ r.store = q.store /\ r.at = n
      /\ r.errs = q.errs /\ r.ended = TRUE /\ r.aligned = q.aligned
      /\ r.interrupts = q.interrupts /\ r.state = "Done" /\ r.pc = "ready"
  BY <1>1 DEF StreamRecord
<1>6. \A i \in 1 .. n : (i = n /\ ~(i <= size)) \/ i \in 1 .. q.at
  BY <1>2
<1>7. q.source.items[n] # CutItem /\ n = size + 1
  BY <1>1, <1>2 DEF NextItem
<1>. HIDE DEF r, n
<1>8. StreamCause(r)
  BY <1>1, <1>3, <1>5, <1>6, <1>7 DEF StreamCause
<1>. QED  BY <1>4, <1>8, StreamCauseFrame

\* The items end, or one breaks off.
LEMMA ShortCause ==
  ASSUME NEW s \in Streams, EncInv, StreamInv, CauseInv, UNCHANGED dec,
         BufferedCut(s) \/ BufferedRunOut(s) \/ HitEof(s)
  PROVE  CauseInv'
<1>. DEFINE q == str[s]
            n == q.at + 1
            size == Len(q.sent.message)
            items == q.source.items
            Bad == Faulty(items, size, q.store)
<1>1. /\ Opened(s) /\ q.pc # "ready" /\ q.state = "ReadBlocks" /\ q \in StreamRecord
      /\ ~q.ended /\ items \in Seq(StreamItem) /\ q.at \in Nat
      /\ ItemsLeft(s) => NextItem(s).kind = "cut"
  BY CallGoesOn DEF BufferedCut, BufferedRunOut, HitEof, InBuffer, FromReader, Called, Before,
     StreamRecord, StreamSource
<1>2. q.errs = {} => Bad
  <2>1. q.errs = {} => n \in 1 .. size + 1
    BY <1>1, PlaceSoFar
  <2>2. CASE ~ItemsLeft(s)
    <3>1. n > Len(items)
      BY <1>1, <2>2 DEF ItemsLeft
    <3>. QED  BY <2>1, <3>1 DEF Faulty
  <2>3. CASE ItemsLeft(s)
    <3>1. items[n] \in StreamItem /\ items[n].kind = "cut"
      BY <1>1, <2>3 DEF ItemsLeft, NextItem
    <3>2. items[n] = CutItem
      BY <3>1 DEF StreamItem, Frame, EndItem, CutItem
    <3>. QED  BY <2>1, <3>2 DEF Faulty
  <2>. QED  BY <2>2, <2>3
<1>. HIDE DEF Bad
<1>3. ASSUME NEW state \in {"ReadBlocks", "Done"}, NEW at \in Nat,
             NEW fault \in Faults \cup {"Io"},
             str' = [str EXCEPT ![s] = [q EXCEPT !.pc = "ready", !.state = state, !.at = at,
                                                 !.errs = q.errs \cup {fault}]]
      PROVE  CauseInv'
  <2>. DEFINE r == [q EXCEPT !.pc = "ready", !.state = state, !.at = at,
                             !.errs = q.errs \cup {fault}]
  <2>1. /\ r \in StreamRecord /\ r.sent = q.sent /\ r.source = q.source /\ r.store = q.store
        /\ r.interrupts = q.interrupts /\ r.errs = q.errs \cup {fault} /\ r.pc = "ready"
    BY <1>1 DEF StreamRecord
  <2>. HIDE DEF r
  <2>. QED  BY <1>1, <1>2, <1>3, <2>1, FailCause DEF r, Bad
<1>4. "Wire" \in Faults /\ "MissingEndSentinel" \in Faults
  BY DEF Faults
<1>5. CASE BufferedCut(s)
  <2>1. [q EXCEPT !.pc = "ready", !.state = "ReadBlocks", !.at = q.at,
                  !.errs = q.errs \cup {"Wire"}]
          = [q EXCEPT !.pc = "ready", !.errs = q.errs \cup {"Wire"}]
    BY <1>1 DEF StreamRecord
  <2>. QED  BY <1>1, <1>3, <1>4, <1>5, <2>1 DEF BufferedCut, Fails
<1>6. CASE BufferedRunOut(s)
  <2>1. [[q EXCEPT !.state = "Done"] EXCEPT !.pc = "ready", !.errs = @ \cup {"MissingEndSentinel"}]
          = [q EXCEPT !.pc = "ready", !.state = "Done", !.at = q.at,
                      !.errs = q.errs \cup {"MissingEndSentinel"}]
    BY <1>1 DEF StreamRecord
  <2>. QED  BY <1>1, <1>3, <1>4, <1>6, <2>1 DEF BufferedRunOut, Fails
<1>7. CASE HitEof(s)
  <2>. DEFINE end == Len(items)
  <2>1. end \in Nat
    BY <1>1
  <2>2. str' = [str EXCEPT ![s] = [[q EXCEPT !.at = end] EXCEPT !.pc = "ready",
                                                                !.errs = @ \cup {"Io"}]]
    BY <1>7 DEF HitEof, Fails
  <2>. HIDE DEF end
  <2>3. [[q EXCEPT !.at = end] EXCEPT !.pc = "ready", !.errs = @ \cup {"Io"}]
          = [q EXCEPT !.pc = "ready", !.state = "ReadBlocks", !.at = end,
                      !.errs = q.errs \cup {"Io"}]
    BY <1>1 DEF StreamRecord
  <2>. QED  BY <1>1, <1>3, <2>1, <2>2, <2>3
<1>. QED  BY <1>5, <1>6, <1>7

\* next() is called, a part of a frame arrives, a call reads from the middle of a frame
\* or is given up.
LEMMA OtherCause ==
  ASSUME NEW s \in Streams, EncInv, StreamInv, CauseInv, UNCHANGED dec,
         CallNext(s) \/ CallDone(s) \/ ReadPart(s) \/ Misread(s) \/ Interrupt(s)
  PROVE  CauseInv'
<1>. DEFINE q == str[s]
<1>1. /\ Opened(s) /\ q \in StreamRecord /\ InPlace(q) /\ StreamCause(q)
      /\ q.interrupts \in Nat
  <2>1. Opened(s)
    BY DEF CallNext, CallDone, ReadPart, FromReader, Called, Misread, Interrupt, Cancel,
       ReaderFails, Waiting
  <2>. QED  BY <2>1, OpenIsSafe, StreamAssumption DEF StreamRecord, CauseInv, OpenStreams
<1>2. CASE CallNext(s)
  <2>. DEFINE r == [q EXCEPT !.pc = "called"]
  <2>1. /\ str' = [str EXCEPT ![s] = r]
        /\ r \in StreamRecord /\ r.sent = q.sent /\ r.source = q.source /\ r.store = q.store
        /\ r.interrupts = q.interrupts /\ r.at = q.at /\ r.errs = q.errs
        /\ r.aligned = q.aligned /\ r.ended = q.ended /\ r.pc = "called" /\ r.state = q.state
    BY <1>1, <1>2 DEF CallNext, StreamRecord
  <2>. HIDE DEF r
  <2>. QED  BY <1>1, <2>1, QuietCause
<1>3. CASE CallDone(s)
  <2>. DEFINE r == [q EXCEPT !.ended = TRUE]
  <2>1. q.state = "Done" /\ ~q.ended
    BY <1>3 DEF CallDone
  <2>2. q.errs # {} /\ q.pc = "ready"
    BY <1>1, <2>1 DEF InPlace
  <2>3. /\ str' = [str EXCEPT ![s] = r]
        /\ r \in StreamRecord /\ r.sent = q.sent /\ r.source = q.source /\ r.store = q.store
        /\ r.interrupts = q.interrupts /\ r.at = q.at /\ r.errs = q.errs
        /\ r.pc = "ready" /\ r.state = q.state
    BY <1>1, <1>3, <2>2 DEF CallDone, StreamRecord
  <2>. HIDE DEF r
  <2>. QED  BY <1>1, <2>2, <2>3, QuietCause
<1>4. CASE ReadPart(s)
  <2>. DEFINE more == q.part + 1
              r == [q EXCEPT !.part = more]
  <2>1. /\ q.pc = "called" /\ q.part < PartsBefore(NextItem(s))
        /\ str' = [str EXCEPT ![s] = r]
    BY <1>4 DEF ReadPart, FromReader, Called
  <2>2. q.part \in 0 .. 3 /\ PartsBefore(NextItem(s)) \in {2, 3}
    BY <1>1 DEF StreamRecord, PartsBefore
  <2>3. more \in 0 .. 3
    BY <2>1, <2>2
  <2>4. /\ r \in StreamRecord /\ r.sent = q.sent /\ r.source = q.source /\ r.store = q.store
        /\ r.interrupts = q.interrupts /\ r.at = q.at /\ r.errs = q.errs
        /\ r.aligned = q.aligned /\ r.ended = q.ended /\ r.pc = "called" /\ r.state = q.state
    <3>. HIDE DEF more
    <3>. QED  BY <1>1, <2>1, <2>3 DEF StreamRecord
  <2>. HIDE DEF r
  <2>. QED  BY <1>1, <2>1, <2>4, QuietCause
<1>5. CASE Misread(s)
  <2>1. q.pc # "ready" /\ q.pc = "called" /\ ~q.aligned
    BY <1>5 DEF Misread
  <2>2. q.state # "ReadHeader" => q.interrupts > 0
    BY <1>1, <2>1 DEF InPlace
  <2>3. q.interrupts = 0 => q.errs # {}
    BY <1>1, <2>1 DEF StreamCause
  <2>4. ASSUME NEW fault \in Faults \cup {"Io"}, Fails(s, q, fault),
               q.interrupts > 0 \/ q.state = "ReadHeader"
        PROVE  CauseInv'
    <3>. DEFINE r == [q EXCEPT !.pc = "ready", !.errs = q.errs \cup {fault}]
    <3>1. /\ str' = [str EXCEPT ![s] = r]
          /\ r \in StreamRecord /\ r.sent = q.sent /\ r.source = q.source /\ r.store = q.store
          /\ r.interrupts = q.interrupts /\ r.at = q.at /\ r.errs = q.errs \cup {fault}
          /\ r.pc = "ready" /\ r.state = q.state
      BY <1>1, <2>4 DEF Fails, StreamRecord
    <3>. HIDE DEF r
    <3>2. r.interrupts = 0 => r.errs # {} /\ q.errs # {}
      BY <2>3, <3>1
    <3>3. r.interrupts \in Nat
      BY <1>1, <3>1
    <3>4. r.interrupts > 0 \/ (r.errs # {} /\ q.errs # {})
      BY <3>2, <3>3
    <3>. QED  BY <1>1, <3>1, <3>4, QuietCause
  <2>5. ASSUME NEW r \in {[q EXCEPT !.pc = "ready", !.garbage = TRUE],
                          [q EXCEPT !.pc = "ready", !.state = "Done", !.ended = TRUE]},
               str' = [str EXCEPT ![s] = r], q.interrupts > 0
        PROVE  CauseInv'
    <3>1. /\ r \in StreamRecord /\ r.sent = q.sent /\ r.source = q.source /\ r.store = q.store
          /\ r.interrupts = q.interrupts
      BY <1>1 DEF StreamRecord
    <3>. QED  BY <1>1, <2>5, <3>1, QuietCause
  <2>6. "InvalidHeader" \in Faults
    BY DEF Faults
  <2>. QED  BY <1>5, <2>2, <2>4, <2>5, <2>6 DEF Misread
<1>6. CASE Interrupt(s)
  <2>1. q.interrupts < MaxInterrupts
    BY <1>6 DEF Interrupt, Cancel, ReaderFails
  <2>2. PICK lost \in BOOLEAN :
          \/ str' = [str EXCEPT ![s] = Torn(s, lost)]
          \/ Fails(s, Torn(s, lost), "InvalidHeader")
          \/ Fails(s, Torn(s, lost), "Io")
    <3>1. Lost(s) \subseteq BOOLEAN
      BY DEF Lost
    <3>. QED  BY <1>6, <3>1 DEF Interrupt, Cancel, ReaderFails
  <2>. DEFINE more == q.interrupts + 1
              t == [q EXCEPT !.pc = "ready", !.part = 0, !.aligned = ~lost, !.interrupts = more]
  <2>3. more \in 0 .. MaxInterrupts /\ more > 0
    BY <1>1, <2>1, StreamAssumption DEF StreamRecord
  <2>4. Torn(s, lost) = t
    BY DEF Torn
  <2>5. t \in StreamRecord /\ t.sent = q.sent /\ t.source = q.source /\ t.store = q.store
        /\ t.interrupts = more
    <3>1. (~lost) \in BOOLEAN /\ 0 \in 0 .. 3
      OBVIOUS
    <3>. HIDE DEF more
    <3>. QED  BY <1>1, <2>3, <3>1 DEF StreamRecord
  <2>. HIDE DEF t, more
  <2>6. CASE str' = [str EXCEPT ![s] = t]
    BY <1>1, <2>3, <2>5, <2>6, QuietCause
  <2>7. ASSUME NEW fault \in Faults \cup {"Io"}, Fails(s, t, fault)
        PROVE  CauseInv'
    <3>. DEFINE r == [t EXCEPT !.pc = "ready", !.errs = t.errs \cup {fault}]
    <3>1. /\ str' = [str EXCEPT ![s] = r]
          /\ r \in StreamRecord /\ r.sent = q.sent /\ r.source = q.source /\ r.store = q.store
          /\ r.interrupts = more
      BY <2>5, <2>7 DEF Fails, StreamRecord
    <3>. HIDE DEF r
    <3>. QED  BY <1>1, <2>3, <3>1, QuietCause
  <2>8. "InvalidHeader" \in Faults \cup {"Io"} /\ "Io" \in Faults \cup {"Io"}
    BY DEF Faults
  <2>. QED  BY <2>2, <2>4, <2>6, <2>7, <2>8
<1>. QED  BY <1>2, <1>3, <1>4, <1>5, <1>6

\* A stream is opened.
LEMMA ListenCause ==
  ASSUME NEW s \in Streams, EncInv, StreamInv, CauseInv, Listen(s), UNCHANGED dec
  PROVE  CauseInv'
<1>1. PICK p \in payloads, damage \in StreamDamage, kind \in StreamStores :
        \E source \in Sources(p, damage) : OpenStream(s, p, source, kind)
  BY DEF Listen
<1>2. PICK source \in Sources(p, damage) : OpenStream(s, p, source, kind)
  BY <1>1
<1>4. source.compressed = p.compressed
  BY <1>2 DEF Sources, Source
<1>. DEFINE r == [state |-> "ReadHeader", pc |-> "ready", sent |-> p, source |-> source,
                  store |-> kind, buffered |-> FALSE, at |-> 0, part |-> 0, aligned |-> TRUE,
                  interrupts |-> 0, got |-> <<>>, errs |-> {}, garbage |-> FALSE,
                  ended |-> FALSE]
<1>5. str' = [str EXCEPT ![s] = r]
  BY <1>2 DEF OpenStream
<1>6. StreamCause(r)
  BY <1>4 DEF StreamCause
<1>. QED  BY <1>5, <1>6, StreamCauseFrame

LEMMA CauseStep ==
  ASSUME NEW s \in Streams, EncInv, StreamInv, CauseInv, UNCHANGED <<payloads, dec>>,
         Listen(s) \/ Stream(s)
  PROVE  CauseInv'
<1>1. CASE BufferedFrame(s) \/ ReadBody(s)
  BY <1>1, YieldCause DEF BufferedFrame, InBuffer, ReadBody, FromReader
<1>2. CASE BufferedEnd(s) \/ ReadEndTail(s)
  BY <1>2, EndCause DEF BufferedEnd, InBuffer, ReadEndTail, FromReader
<1>. QED  BY <1>1, <1>2, ListenCause, HeaderCause, ShortCause, OtherCause DEF Stream, Answer

\* Both decoders agree, for the reasons that they have to fail.
LEMMA CausesAgree == ASSUME IInv, StreamInv, CauseInv PROVE AgreesWithDecode
<1>1. ASSUME NEW s \in OpenStreams, NEW d \in Decoders, SameInput(d, s)
      PROVE  /\ dec[d].status = "ok" =>
                  /\ str[s].errs = {}
                  /\ str[s].ended => str[s].got = dec[d].blocks
             /\ (str[s].ended /\ str[s].errs = {}) =>
                  dec[d].status \in {"reading", "ok", "TrailingData"}
  <2>. DEFINE q == str[s]
              c == dec[d]
              p == q.sent
              n == Len(p.message)
              items == q.source.items
  <2>1. /\ d \in Started /\ q.interrupts = 0 /\ c.sent = p /\ c.store = q.store
        /\ c.wire.header = q.source.header /\ c.wire.unzips = q.source.unzips
        /\ c.wire.size = q.source.size /\ c.wire.items = items
        /\ q.source.compressed = p.compressed
    BY <1>1 DEF SameInput, Source
  <2>2. /\ q \in StreamRecord /\ SourceOf(q.source, p) /\ InPlace(q) /\ Yielded(q)
        /\ p \in Payload /\ PayloadCarries(p) /\ StreamCause(q) /\ CallCause(c)
    BY <1>1, <2>1, OpenIsSafe DEF CauseInv, OpenStreams, IInv
  <2>3. /\ p.message \in Seq(Block) /\ n \in Nat /\ items \in Seq(StreamItem)
        /\ p.items \in Seq(StreamItem) /\ Len(p.items) = n + 1 /\ p.items[n + 1] = EndItem
        /\ \A i \in 1 .. n : p.items[i].kind = "block"
        /\ q.source.size \in Nat /\ MaxPayload \in Nat
    <3>1. q.source \in StreamSource
      BY <2>2 DEF StreamRecord
    <3>2. items \in Seq(StreamItem) /\ q.source.size \in Nat
      BY <3>1 DEF StreamSource
    <3>3. p.message \in Seq(Block) /\ p.items \in Seq(StreamItem)
      BY <2>2 DEF Payload
    <3>4. /\ Len(p.items) = n + 1 /\ p.items[n + 1] = EndItem
          /\ \A i \in 1 .. n : p.items[i].kind = "block"
      BY <2>2, <3>3 DEF PayloadCarries, Carries
    <3>. QED  BY <3>2, <3>3, <3>4, WireAssumption
  <2>4. ASSUME c.status = "ok" PROVE q.errs = {} /\ (q.ended => q.got = c.blocks)
    <3>1. /\ c.blocks \in Seq(Block) /\ Len(c.blocks) = n
          /\ \A i \in DOMAIN c.blocks : c.blocks[i] = p.message[i]
          /\ SentWhole(c.wire, p) /\ DeliveryOf(c.wire, p)
      BY <2>1, <2>4 DEF IInv, DecInv, DecTypeOK, DecodeCall, DecodedIsSent,
         AcceptedIsWhole, DecodingSent, Started
    <3>2. OpenFault(p, c.wire) = "none" /\ \A i \in 1 .. n : Readable(items[i], q.store)
      BY <2>1, <2>2, <2>4, <3>1 DEF CallCause
    <3>3. items = p.items
      BY <2>1, <3>1 DEF SentWhole, DeliveryOf
    <3>4. SourceOpens(q.source)
      BY <2>1, <2>3, <3>2 DEF OpenFault, SourceOpens
    <3>5. ~Faulty(items, n, q.store)
      <4> SUFFICES ASSUME NEW i \in 1 .. n + 1
                   PROVE  /\ ~(i > Len(items)) /\ items[i] # CutItem
                          /\ ~(i <= n /\ ~Readable(items[i], q.store))
        BY DEF Faulty
      <4>1. i \in 1 .. n \/ i = n + 1
        BY <2>3
      <4>2. ~(i > Len(items))
        BY <2>3, <3>3
      <4>3. items[i] # CutItem
        BY <2>3, <3>3, <4>1 DEF EndItem, CutItem
      <4>. QED  BY <2>3, <3>2, <4>1, <4>2, <4>3
    <3>6. q.errs = {}
      BY <2>1, <2>2, <3>4, <3>5 DEF StreamCause
    <3>7. ASSUME q.ended PROVE q.got = c.blocks
      <4>1. q.aligned
        BY <2>1, <2>2, <3>6 DEF StreamCause
      <4>2. /\ Len(q.got) = n /\ q.got \in Seq(Block)
            /\ \A i \in DOMAIN q.got : q.got[i] = p.message[i]
        BY <2>2, <3>6, <3>7, <4>1 DEF Yielded, StreamRecord
      <4>. HIDE DEF q, c, n
      <4>. QED  BY <3>1, <4>2
    <3>. QED  BY <3>6, <3>7
  <2>5. ASSUME q.ended, q.errs = {}
        PROVE  c.status \in {"reading", "ok", "TrailingData"}
    <3>1. /\ q.at = n + 1 /\ q.at <= Len(items) /\ SourceOpens(q.source)
          /\ \A i \in 1 .. n + 1 :
               items[i] # CutItem /\ (i <= n => Readable(items[i], q.store))
      BY <2>1, <2>2, <2>5 DEF StreamCause, InPlace
    <3>2. ~Faulty(items, n, q.store)
      <4>1. \A i \in 1 .. n + 1 : ~(i > Len(items))
        BY <2>3, <3>1
      <4>. QED  BY <3>1, <4>1 DEF Faulty
    <3>3. OpenFault(p, c.wire) = "none"
      <4>1. ~(p.compressed /\ c.wire.size > MaxPayload)
        BY <2>1, <2>3, <3>1 DEF SourceOpens
      <4>. QED  BY <2>1, <3>1, <4>1 DEF OpenFault, SourceOpens
    <3>. QED  BY <2>1, <2>2, <3>2, <3>3 DEF CallCause
  <2>. QED  BY <2>4, <2>5
<1>. QED  BY <1>1 DEF AgreesWithDecode

\* A decode call and a stream that is not interrupted make the same of the same bytes,
\* whatever encoders do to the store they share, and though each has read at its own
\* times: what decode() accepts streams without an error and to the same blocks
\* (streaming.rs, streaming_matches_sync_decoder).
THEOREM DecodersAgree == SSpec => []AgreesWithDecode
<1>1. SInit => CauseInv
  BY DEF SInit, Init, DecInit, StreamInit, CauseInv, Started, OpenStreams, Opened
<1>2. IInv /\ StreamInv /\ CauseInv /\ [SNext]_streamVars => CauseInv'
  <2>. SUFFICES ASSUME IInv, StreamInv, CauseInv, [SNext]_streamVars
                PROVE  CauseInv'
    OBVIOUS
  <2>1. ASSUME UNCHANGED <<dec, str>> PROVE CauseInv'
    BY <2>1 DEF CauseInv, Started, OpenStreams, Opened
  <2>2. CASE Next /\ UNCHANGED str
    <3>1. CASE \E e \in Encoders : EncNext(e) /\ UNCHANGED dec
      BY <2>1, <2>2, <3>1
    <3>2. ASSUME NEW d \in Decoders, Receive(d) \/ Decode(d)
          PROVE  CauseInv'
      BY <2>2, <3>2, ReceiveCause, DecodeCause DEF IInv
    <3>. QED  BY <2>2, <3>1, <3>2 DEF Next
  <2>3. ASSUME NEW s \in Streams, Listen(s) \/ Stream(s), UNCHANGED vars
        PROVE  CauseInv'
    BY <2>3, CauseStep DEF IInv, vars, encVars
  <2>4. CASE UNCHANGED streamVars
    BY <2>1, <2>4 DEF streamVars, vars
  <2>. QED  BY <2>2, <2>3, <2>4 DEF SNext
<1>3. IInv /\ StreamInv /\ CauseInv => AgreesWithDecode
  BY CausesAgree
<1>. QED  BY <1>1, <1>2, <1>3, StreamInvariantHolds, PTL DEF SSpec
=============================================================================
