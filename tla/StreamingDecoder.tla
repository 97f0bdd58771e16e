--------------------------- MODULE StreamingDecoder ---------------------------
(***************************************************************************)
(* StreamingDecoder: next() on an async reader.  Each member of Streams is *)
(* one decoder with its caller.  The decoder suspends at every read, so a  *)
(* frame is read part by part (type, flags, length, body; END has no body), *)
(* and at each of these points the caller may drop the future of next()    *)
(* (a timeout, a select) or the reader may fail.  What had been read of the *)
(* frame is lost then, and the next call starts in the middle of it.       *)
(*                                                                         *)
(* A payload compressed as a whole is read to its end and decompressed by  *)
(* the call that reads the header; from then on next() does not suspend.   *)
(***************************************************************************)
EXTENDS Decoder

CONSTANTS
  Streams,        \* the streaming decoders
  StreamDamage,   \* what may happen to their payloads, of StreamDamageKinds
  StreamStores,   \* the store with_content_store gives them, of StoreKinds
  MaxInterrupts   \* bound: cancelled calls and failing reads of one stream

\* "repacked": a zstd stream whose frames were damaged before they were compressed.
StreamDamageKinds == DamageKinds \cup {"repacked"}

ASSUME StreamAssumption ==
  StreamDamage \subseteq StreamDamageKinds /\ StreamStores \subseteq StoreKinds
    /\ MaxInterrupts \in Nat

VARIABLE str   \* str[s]: the state of stream s

\* What the async reader has in it.
Source(p, w) ==
  [header |-> w.header, unzips |-> w.unzips, intact |-> w.intact, items |-> w.items,
   compressed |-> p.compressed, size |-> w.size]

Sources(p, damage) ==
  IF damage # "repacked"
  THEN {Source(p, w) : w \in Deliveries(p, damage)}
  ELSE {Source(p, [w EXCEPT !.unzips = TRUE]) : w \in
          {v \in UNION {Deliveries([p EXCEPT !.compressed = FALSE], k) : k \in {"cut", "trailing"}} :
             p.compressed /\ v.header}}

Unopened == [state |-> "unopened"]

StreamInit == str = [s \in Streams |-> Unopened]

Opened(s) == str[s] # Unopened

\* new() and with_content_store().  "pc" is where the call of next() in progress
\* waits, "ready" between calls; "got", "errs" and "ended" are what the calls have
\* returned so far; "aligned": the reader stands at the start of a header or frame.
OpenStream(s, sent, source, kind) ==
  /\ ~Opened(s)
  /\ str' = [str EXCEPT ![s] =
       [state |-> "ReadHeader", pc |-> "ready", sent |-> sent, source |-> source,
        store |-> kind, buffered |-> FALSE, at |-> 0, part |-> 0, aligned |-> TRUE,
        interrupts |-> 0, got |-> <<>>, errs |-> {}, garbage |-> FALSE, ended |-> FALSE]]
-----------------------------------------------------------------------------
(* next().                                                                 *)

\* The caller awaits next().
CallNext(s) ==
  /\ Opened(s) /\ str[s].pc = "ready" /\ str[s].state # "Done"
  /\ str' = [str EXCEPT ![s].pc = "called"]

\* In state Done, next() returns None.
CallDone(s) ==
  /\ Opened(s) /\ str[s].state = "Done" /\ ~str[s].ended
  /\ str' = [str EXCEPT ![s].ended = TRUE]

Called(s, state) == Opened(s) /\ str[s].pc = "called" /\ str[s].state = state

\* The call returns Err(fault) after it moved the stream to r.
Fails(s, r, fault) ==
  str' = [str EXCEPT ![s] = [r EXCEPT !.pc = "ready", !.errs = @ \cup {fault}]]

\* read_header up to the payload.
ReadHeader(s) ==
  /\ Called(s, "ReadHeader") /\ str[s].aligned
  /\ IF ~str[s].source.header THEN Fails(s, str[s], "InvalidHeader")
     ELSE IF str[s].source.compressed THEN str' = [str EXCEPT ![s].pc = "unzip"]
     ELSE str' = [str EXCEPT ![s].pc = "ready", ![s].state = "ReadBlocks"]

\* read_to_end and decompress.  When that fails the state is still ReadHeader, and
\* the reader has nothing left that could be a header.
UnzipPayload(s) ==
  /\ Opened(s) /\ str[s].pc = "unzip"
  /\ IF ~str[s].source.unzips
     THEN Fails(s, [str[s] EXCEPT !.aligned = FALSE], "DecompressFailed")
     ELSE IF str[s].source.size > MaxPayload
     THEN Fails(s, [str[s] EXCEPT !.aligned = FALSE], "DecompressionBomb")
     ELSE str' = [str EXCEPT ![s].pc = "ready", ![s].state = "ReadBlocks",
                             ![s].buffered = TRUE]
-----------------------------------------------------------------------------
(* The item the stream stands before.                                      *)

ItemsLeft(s) == str[s].at < Len(str[s].source.items)
NextItem(s) == str[s].source.items[str[s].at + 1]
Before(s, kind) == ItemsLeft(s) /\ NextItem(s).kind = kind

\* Past the item, with all of its parts read.
Consumed(s) == [str[s] EXCEPT !.at = @ + 1, !.part = 0]

\* Mutation: the call does not look references up in the store it was given.
YieldWithoutStore(s) ==
  LET fault == FrameFault(NextItem(s), "none") IN
  IF fault = "none"
  THEN str' = [str EXCEPT ![s] = [Consumed(s) EXCEPT !.pc = "ready",
                                     !.got = Append(@, DecodedBlock(NextItem(s)))]]
  ELSE Fails(s, Consumed(s), fault)

\* Mutation: a block is returned and its frame not consumed.
YieldInPlace(s) ==
  LET fault == FrameFault(NextItem(s), str[s].store) IN
  IF fault = "none"
  THEN str' = [str EXCEPT ![s].pc = "ready", ![s].part = 0,
                          ![s].got = Append(@, DecodedBlock(NextItem(s)))]
  ELSE Fails(s, Consumed(s), fault)

\* decode_frame on the frame just read: a block, or an error with the frame consumed.
Yield(s) ==
  LET fault == FrameFault(NextItem(s), str[s].store) IN
  IF fault = "none"
  THEN str' = [str EXCEPT ![s] = [Consumed(s) EXCEPT !.pc = "ready",
                                     !.got = Append(@, DecodedBlock(NextItem(s)))]]
  ELSE Fails(s, Consumed(s), fault)

\* END is read: the call returns None.
Finish(s) ==
  str' = [str EXCEPT ![s] = [Consumed(s) EXCEPT !.pc = "ready", !.state = "Done",
                                                !.ended = TRUE]]
-----------------------------------------------------------------------------
(* read_next_block on the decompressed payload: one step.                  *)

InBuffer(s) == Called(s, "ReadBlocks") /\ str[s].buffered

BufferedFrame(s) == InBuffer(s) /\ Before(s, "block") /\ Yield(s)

BufferedEnd(s) == InBuffer(s) /\ Before(s, "end") /\ Finish(s)

\* Mutation: after an error the buffer is read from its start.
BufferedCutRewinds(s) ==
  InBuffer(s) /\ Before(s, "cut") /\ Fails(s, [str[s] EXCEPT !.at = 0], "Wire")

\* A frame or END that breaks off: the cursor stays where it is.
BufferedCut(s) == InBuffer(s) /\ Before(s, "cut") /\ Fails(s, str[s], "Wire")

BufferedRunOut(s) ==
  /\ InBuffer(s) /\ ~ItemsLeft(s)
  /\ Fails(s, [str[s] EXCEPT !.state = "Done"], "MissingEndSentinel")
-----------------------------------------------------------------------------
(* read_next_block_from_reader: one step for every part that is awaited.   *)

FromReader(s) == Called(s, "ReadBlocks") /\ ~str[s].buffered /\ str[s].aligned

\* Mutation: the body of a block is taken for two parts.
OnePartMore(item) == IF item.kind = "end" THEN 2 ELSE 4

\* The parts of an item before the one that completes it.
PartsBefore(item) == IF item.kind = "end" THEN 2 ELSE 3

ReadPart(s) ==
  /\ FromReader(s) /\ ItemsLeft(s) /\ NextItem(s).kind # "cut"
  /\ str[s].part < PartsBefore(NextItem(s))
  /\ str' = [str EXCEPT ![s].part = @ + 1]

\* The body arrives.
ReadBody(s) ==
  /\ FromReader(s) /\ Before(s, "block") /\ str[s].part = PartsBefore(NextItem(s))
  /\ Yield(s)

\* Mutation: the call waits for bytes behind END.
ReadEndTailWaits(s) ==
  /\ FromReader(s) /\ Before(s, "end") /\ str[s].part = PartsBefore(NextItem(s))
  /\ UNCHANGED str

\* read_end_frame_tail is through.  Nothing after END is looked at.
ReadEndTail(s) ==
  /\ FromReader(s) /\ Before(s, "end") /\ str[s].part = PartsBefore(NextItem(s))
  /\ Finish(s)

\* Mutation: the end of the bytes counts as the end of the stream.
HitEofEnds(s) ==
  /\ FromReader(s) /\ (ItemsLeft(s) => NextItem(s).kind = "cut")
  /\ str' = [str EXCEPT ![s].pc = "ready", ![s].state = "Done", ![s].ended = TRUE]

\* The bytes end, between two frames or inside one: an Io error, and the reader is
\* drained.
HitEof(s) ==
  /\ FromReader(s) /\ (ItemsLeft(s) => NextItem(s).kind = "cut")
  /\ Fails(s, [str[s] EXCEPT !.at = Len(str[s].source.items)], "Io")
-----------------------------------------------------------------------------
(* Calls that do not run to their end.                                     *)

\* The call waits for the reader.
Waiting(s) == Opened(s) /\ str[s].pc # "ready" /\ ~str[s].buffered

\* Whether bytes are lost when the call is given up here: none if it has consumed
\* none, perhaps if it is inside its first varint or the header.  The type of a
\* block is a single byte.
Lost(s) ==
  IF str[s].part > 0 \/ str[s].pc = "unzip" \/ ~str[s].aligned THEN {TRUE}
  ELSE IF str[s].state = "ReadBlocks" /\ Before(s, "block") THEN {FALSE}
  ELSE BOOLEAN

\* The stream after such a call.
Torn(s, lost) ==
  [str[s] EXCEPT !.pc = "ready", !.part = 0, !.aligned = ~lost, !.interrupts = @ + 1]

\* The caller drops the future.
Cancel(s) ==
  /\ Waiting(s) /\ str[s].interrupts < MaxInterrupts
  /\ \E lost \in Lost(s) : str' = [str EXCEPT ![s] = Torn(s, lost)]

\* poll_read returns an error that is not the end of the bytes.
ReaderFails(s) ==
  /\ Waiting(s) /\ str[s].interrupts < MaxInterrupts
  /\ \E lost \in Lost(s) :
       Fails(s, Torn(s, lost), IF str[s].state = "ReadHeader" /\ str[s].pc = "called"
                               THEN "InvalidHeader" ELSE "Io")

\* A call that starts in the middle of a frame takes its bytes for a header or a
\* frame.  No rest of a header is a header; a rest of a frame may be anything, also a
\* length that no buffer has: a panic leaves the stream as an error does, and is one here.
Misread(s) ==
  /\ Opened(s) /\ str[s].pc = "called" /\ ~str[s].aligned
  /\ IF str[s].state = "ReadHeader" THEN Fails(s, str[s], "InvalidHeader")
     ELSE \/ \E fault \in Faults \cup {"Io"} :
               fault \notin {"InvalidHeader", "MissingEndSentinel", "TrailingData"}
                 /\ Fails(s, str[s], fault)
          \/ str' = [str EXCEPT ![s].pc = "ready", ![s].garbage = TRUE]
          \/ str' = [str EXCEPT ![s].pc = "ready", ![s].state = "Done", ![s].ended = TRUE]
-----------------------------------------------------------------------------
\* The steps by which a call of next() runs to its end.
Answer(s) ==
  \/ ReadHeader(s) \/ UnzipPayload(s)
  \/ BufferedFrame(s) \/ BufferedEnd(s) \/ BufferedCut(s) \/ BufferedRunOut(s)
  \/ ReadPart(s) \/ ReadBody(s) \/ ReadEndTail(s) \/ HitEof(s)
  \/ Misread(s)

Interrupt(s) == Cancel(s) \/ ReaderFails(s)

Stream(s) == CallNext(s) \/ CallDone(s) \/ Answer(s) \/ Interrupt(s)
=============================================================================
