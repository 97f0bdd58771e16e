------------------------------ MODULE Framing ------------------------------
(***************************************************************************)
(* A file of the protocol, byte by byte: header, block frames, END.  It is *)
(* written once and read by both decoders; between writer and readers it   *)
(* may lose its end, gain bytes, or have one byte changed, and another     *)
(* producer may write a block type that is larger than a byte, or an END   *)
(* of its type alone.                                                      *)
(*                                                                         *)
(* Decoder and StreamingDecoder model what becomes of a frame, and start   *)
(* from frames; here is how the frames come out of the bytes.  A body is   *)
(* never looked into, and of a compressed payload only its flag is known.  *)
(***************************************************************************)
EXTENDS Varint, SequencesExt

CONSTANTS
  Magic,          \* BCP_MAGIC
  VersionMajor, VersionMinor,
  HeaderFlags,    \* flag bytes that headers are written with
  Memory,         \* the largest buffer a program can have; isize::MAX bytes at most
  Frames,         \* frames: type, flag byte and body
  MaxFrames,      \* bound: frames in a file
  Changes         \* what may happen between writer and readers

VARIABLES
  sent,           \* the header flags and frames written
  change,         \* what happened to the file
  at,             \* where it happened: how many of its bytes precede
  bytes,          \* the file as it is read
  sync,           \* BcpDecoder: cursor, frames decoded, status
  stream          \* StreamingDecoder: the same

vars == <<sent, change, at, bytes, sync, stream>>

END == 2 * Base - 1
Wide(blockType) == blockType > END

\* HeaderFlags::is_compressed: bit 0.  None of these files is a zstd frame.
IsCompressed(flags) == flags % 2 = 1

\* A frame that is written has a type of one byte; block types and lengths are words.
ASSUME FramingAssumption ==
  /\ Magic \in Seq(Byte) /\ Magic # <<>> /\ {VersionMajor, VersionMinor} \subseteq Byte
  /\ HeaderFlags \subseteq Byte /\ \A flags \in HeaderFlags : ~IsCompressed(flags)
  /\ Frames \subseteq [type : 0 .. END - 1, flags : Byte, body : Seq(Byte)]
  /\ \A f \in Frames : Len(f.body) < Word
  /\ Memory \in Nat /\ 2 * Memory < Word
  /\ 2 * END + 1 < Word
  /\ MaxFrames \in Nat
  /\ Changes \subseteq {"none", "cut", "longer", "damaged", "wide", "bare"}
-----------------------------------------------------------------------------
(* Writing.                                                                *)

\* BcpHeader::write_to; the last byte is reserved.
WriteHeader(flags) == Magic \o <<VersionMajor, VersionMinor, flags, 0>>
HeaderSize == Len(Magic) + 4

\* BlockFrame::write_to.
WriteFrame(f) == EncodeVarint[f.type] \o <<f.flags>> \o EncodeVarint[Len(f.body)] \o f.body

EndFrame == [type |-> END, flags |-> 0, body |-> <<>>]

Written(s) == WriteHeader(s.flags) \o FlattenSeq([i \in DOMAIN s.frames |-> WriteFrame(s.frames[i])])
File(s) == Written(s) \o WriteFrame(EndFrame)

\* A file whose frame has a type that another producer made wider than a byte.
WideFile(s, g) ==
  WriteHeader(s.flags) \o WriteFrame([g EXCEPT !.type = @ + END + 1]) \o WriteFrame(EndFrame)

\* The files that readers get, and the number of bytes before the change.
Changed(s, c) ==
  LET f == File(s) IN
  CASE c = "none"    -> {<<f, Len(f)>>}
    [] c = "cut"     -> {<<SubSeq(f, 1, n), n>> : n \in 0 .. Len(f) - 1}
    [] c = "longer"  -> {<<Append(f, b), Len(f)>> : b \in Byte}
    [] c = "damaged" -> {<<ReplaceAt(f, n, b), n - 1>> : n \in DOMAIN f, b \in Byte}
                          \ {<<f, n - 1>> : n \in DOMAIN f}
    [] c = "wide"    -> {<<WideFile(s, g), HeaderSize>> : g \in Frames \cup {EndFrame}}
    [] c = "bare"    -> {<<Written(s) \o EncodeVarint[END], Len(Written(s)) + 2>>}

Reader == [cursor |-> 0, frames |-> <<>>, status |-> "header"]

\* decode() is given the whole file as a slice, so files are no longer than a buffer.
Init ==
  /\ \E n \in 0 .. MaxFrames : sent \in [flags : HeaderFlags, frames : [1 .. n -> Frames]]
  /\ change \in Changes
  /\ \E p \in Changed(sent, change) : bytes = p[1] /\ at = p[2]
  /\ Len(bytes) <= Memory
  /\ sync = Reader /\ stream = Reader
-----------------------------------------------------------------------------
(* Reading.                                                                *)

\* Mutation: the major version is not looked at.
ReadHeaderAnyVersion(buf) ==
  IF Len(buf) < HeaderSize THEN Err("UnexpectedEof")
  ELSE IF SubSeq(buf, 1, Len(Magic)) # Magic THEN Err("InvalidMagic")
  ELSE IF buf[HeaderSize] # 0 THEN Err("ReservedNonZero")
  ELSE Ok(buf[HeaderSize - 1], HeaderSize)

\* BcpHeader::read_from: the minor version and the reserved flag bits are not checked.
ReadHeader(buf) ==
  IF Len(buf) < HeaderSize THEN Err("UnexpectedEof")
  ELSE IF SubSeq(buf, 1, Len(Magic)) # Magic THEN Err("InvalidMagic")
  ELSE IF buf[Len(Magic) + 1] # VersionMajor THEN Err("UnsupportedVersion")
  ELSE IF buf[HeaderSize] # 0 THEN Err("ReservedNonZero")
  ELSE Ok(buf[HeaderSize - 1], HeaderSize)

\* Both decoders open the file alike.
Opened(r) ==
  LET h == ReadHeader(bytes) IN
  [r EXCEPT !.status = IF Failed(h) THEN h.error
                       ELSE IF IsCompressed(h.value) THEN "DecompressFailed" ELSE "frames",
            !.cursor = IF Failed(h) THEN 0 ELSE h.n]

\* What both decoders read after the block type: flags, length and body.
\* len is what they make of the length, eof their error when the bytes end first.
ReadRest(blockType, buf, len, eof) ==
  IF buf = <<>> THEN Err(eof)
  ELSE IF Failed(len) THEN len
  ELSE IF 1 + len.n + len.value > Len(buf) THEN Err(eof)
  ELSE Ok([type |-> blockType, flags |-> buf[1],
           body |-> SubSeq(buf, 2 + len.n, 1 + len.n + len.value)], 1 + len.n + len.value)

\* Mutation: only this decoder refuses reserved flag bits.
ReadFrameStrict(buf) ==
  LET t == DecodeVarint(buf) IN
  IF Failed(t) THEN t
  ELSE IF t.value = END THEN Ok(EndFrame, t.n)
  ELSE IF Wide(t.value) THEN Err("InvalidBlockType")
  ELSE LET rest == ReadRest(t.value, From(buf, t.n), DecodeVarint(From(buf, t.n + 1)), "UnexpectedEof") IN
       IF Failed(rest) THEN rest
       ELSE IF rest.value.flags > 7 THEN Err("ReservedNonZero")
       ELSE Ok(rest.value, t.n + rest.n)

\* BlockFrame::read_from.  END is known by its type and takes up only that.
ReadFrame(buf) ==
  LET t == DecodeVarint(buf) IN
  IF Failed(t) THEN t
  ELSE IF t.value = END THEN Ok(EndFrame, t.n)
  ELSE IF Wide(t.value) THEN Err("InvalidBlockType")
  ELSE LET rest == ReadRest(t.value, From(buf, t.n), DecodeVarint(From(buf, t.n + 1)), "UnexpectedEof") IN
       IF Failed(rest) THEN rest ELSE Ok(rest.value, t.n + rest.n)

\* Mutation: whatever follows the type of END, four bytes are counted.
EndSizeFixed(buf, typeLen) == Ok(0, 4)

\* Mutation: the flags are counted twice.
EndSizeOver(buf, typeLen) ==
  IF typeLen >= Len(buf) THEN Err("UnexpectedEof") ELSE
  LET len == DecodeVarint(From(buf, typeLen + 1)) IN
  IF Failed(len) THEN len ELSE Ok(0, typeLen + 2 + len.n)

\* end_sentinel_size: flags and length must be there; the length is not looked at.
EndSize(buf, typeLen) ==
  IF typeLen >= Len(buf) THEN Err("UnexpectedEof") ELSE
  LET len == DecodeVarint(From(buf, typeLen + 1)) IN
  IF Failed(len) THEN len ELSE Ok(0, typeLen + 1 + len.n)

Delivered(r, f, n) ==
  [r EXCEPT !.cursor = @ + n, !.frames = Append(@, f)]
Stopped(r, status) == [r EXCEPT !.status = status]

SyncOpen == sync.status = "header" /\ sync' = Opened(sync)

SyncFrame ==
  /\ sync.status = "frames" /\ sync.cursor < Len(bytes)
  /\ LET buf == From(bytes, sync.cursor)
         f == ReadFrame(buf)
         end == EndSize(buf, f.n) IN
     sync' = IF Failed(f) THEN Stopped(sync, f.error)
             ELSE IF f.value.type # END THEN Delivered(sync, f.value, f.n)
             ELSE IF Failed(end) THEN Stopped(sync, end.error)
             ELSE IF sync.cursor + end.n < Len(bytes) THEN Stopped(sync, "TrailingData")
             ELSE Stopped(sync, "ok")

SyncRunOut ==
  /\ sync.status = "frames" /\ sync.cursor = Len(bytes)
  /\ sync' = Stopped(sync, "MissingEndSentinel")

StreamOpen == stream.status = "header" /\ stream' = Opened(stream)

\* The stream makes room for a body before it reads a byte of it, whatever the length
\* says: one that no buffer can have ends the task, by a panic or an abort.
Resized(len) == IF ~Failed(len) /\ len.value > Memory THEN Err("Died") ELSE len

\* read_next_block_from_reader up to the frame: the block type is cut to a byte before
\* anything looks at it.
ReadNextBlock(buf) ==
  LET t == StreamVarint(buf)
      blockType == t.value % (END + 1)
      len == Resized(StreamVarint(From(buf, t.n + 1)))
      rest == ReadRest(blockType, From(buf, t.n), len, "Io") IN
  IF Failed(t) THEN t
  ELSE IF blockType = END THEN Ok(EndFrame, t.n)
  ELSE IF Failed(rest) THEN rest ELSE Ok(rest.value, t.n + rest.n)

\* read_end_frame_tail: flags and length, neither of which is looked at.
ReadEndTail(buf, typeLen) ==
  IF typeLen >= Len(buf) THEN Err("Io") ELSE StreamVarint(From(buf, typeLen + 1))

StreamFrame ==
  /\ stream.status = "frames"
  /\ LET buf == From(bytes, stream.cursor)
         f == ReadNextBlock(buf)
         tail == ReadEndTail(buf, f.n) IN
     stream' = IF Failed(f) THEN Stopped(stream, f.error)
               ELSE IF f.value.type # END THEN Delivered(stream, f.value, f.n)
               ELSE Stopped(stream, IF Failed(tail) THEN tail.error ELSE "ok")

SyncNext == (SyncOpen \/ SyncFrame \/ SyncRunOut) /\ UNCHANGED <<sent, change, at, bytes, stream>>

\* The decoders share nothing, so one may as well wait until the other is through.
StreamNext ==
  /\ sync.status \notin {"header", "frames"}
  /\ StreamOpen \/ StreamFrame
  /\ UNCHANGED <<sent, change, at, bytes, sync>>

Next == SyncNext \/ StreamNext

Spec == Init /\ [][Next]_vars
-----------------------------------------------------------------------------
Readers == {sync, stream}

\* The bytes of a file up to the end of its k-th frame.
SizeOf(s, k) == HeaderSize + Len(FlattenSeq([i \in 1 .. k |-> WriteFrame(s.frames[i])]))

Done(r) == r.status \notin {"header", "frames"}

\* Of a file that lost its end or not, both decoders deliver the first frames sent, and
\* succeed exactly when nothing was lost; then they have delivered every frame.
FramesArrive ==
  \A r \in Readers :
    /\ change \in {"none", "cut"} =>
         /\ IsPrefix(r.frames, sent.frames)
         /\ Done(r) => (r.status = "ok" <=> change = "none")
    /\ change = "none" /\ Done(r) => r.frames = sent.frames

\* Bytes after END are an error for the decoder that has the whole file, and cost no
\* reader a frame: whatever it says of them, it has delivered every one.
TrailingRefused ==
  change = "longer" =>
    /\ Done(sync) => sync.status = "TrailingData"
    /\ \A r \in Readers : Done(r) => r.frames = sent.frames

\* A changed byte spoils nothing that came before it: the frames that end before the
\* byte arrive whole, even from a stream that a damaged length makes die, and a file
\* whose magic, major version or reserved byte is damaged delivers nothing.
DamageStaysBehind ==
  change = "damaged" =>
    \A r \in Readers :
      /\ \A k \in 1 .. Len(sent.frames) :
           (SizeOf(sent, k) <= at /\ Len(r.frames) >= k) => r.frames[k] = sent.frames[k]
      /\ \A k \in 1 .. Len(sent.frames) :
           (SizeOf(sent, k) <= at /\ Done(r)) => Len(r.frames) >= k
      /\ at \in (0 .. Len(Magic)) \cup {HeaderSize - 1} => r.frames = <<>> /\ r.status # "ok"

\* Whatever bytes come, unless one decoder refuses a block type, both deliver the same
\* frames, and what the one with the whole file accepts the other accepts.
ReadersAgree ==
  Done(sync) /\ Done(stream) /\ sync.status # "InvalidBlockType" =>
    /\ sync.frames = stream.frames
    /\ sync.status = "ok" => stream.status = "ok"
-----------------------------------------------------------------------------
(* The inductive invariant.                                                *)

Sendable == [flags : HeaderFlags, frames : Seq(Frames)]
Frame == [type : 0 .. END, flags : Byte, body : Seq(Byte)]
Faults ==
  {"InvalidMagic", "UnsupportedVersion", "ReservedNonZero", "DecompressFailed", "Io",
   "Died", "UnexpectedEof", "VarintTooLong", "InvalidBlockType", "TrailingData", "MissingEndSentinel"}

FileKept ==
  /\ sent \in Sendable /\ change \in Changes
  /\ \E p \in Changed(sent, change) : bytes = p[1] /\ at = p[2]
  /\ Len(bytes) <= Memory

ReaderTyped(r) ==
  r \in [cursor : 0 .. Len(bytes), frames : Seq(Frame),
         status : Faults \cup {"header", "frames", "ok"}]

\* Whether the header lets a reader go on to the frames.
Opens == Opened(Reader).status = "frames"

HeaderRead(r) ==
  /\ r.status = "header" => r = Reader
  /\ r.status # "header" /\ ~Opens => r = Opened(Reader)

\* The first k frames of the file are as they were written, and so is the header if a
\* reader accepts it.
Intact(k) == k = 0 \/ SizeOf(sent, k) <= at

\* A reader of a file that was written here and then changed delivers the frames in
\* front of the change, and stands behind the last of them.
Follows(r) ==
  LET n == Len(r.frames)  all == Len(sent.frames) IN
  change \in {"none", "cut", "longer", "damaged"} /\ Opens /\ r.status # "header" =>
    /\ \A k \in 1 .. all : Intact(k) =>
         /\ n >= k => r.frames[k] = sent.frames[k]
         /\ Done(r) => n >= k
    /\ n <= all /\ Intact(n) => r.cursor = SizeOf(sent, n)
    /\ change # "damaged" => n <= all /\ Intact(n)

\* How it ends; trailing is what it makes of a byte after END.
EndsAs(r, trailing) ==
  Opens /\ Done(r) =>
    /\ change = "none" => r.status = "ok"
    /\ change = "cut" => r.status # "ok"
    /\ change = "longer" => r.status = trailing

\* What the decoder with the whole file found where it stopped.
SyncStopped ==
  LET f == ReadFrame(From(bytes, sync.cursor)) IN
  Opens /\ Done(sync) =>
    \/ sync.status = "MissingEndSentinel" /\ sync.cursor = Len(bytes)
    \/ Failed(f) /\ sync.status = f.error
    \/ /\ ~Failed(f) /\ f.value.type = END
       /\ sync.status = "ok" => ~Failed(EndSize(From(bytes, sync.cursor), f.n))

\* The frames of r lie in the file one behind the other: the i-th ends at c[i].
Walked(r, c) ==
  /\ c[0] = HeaderSize /\ c[Len(r.frames)] = r.cursor
  /\ \A i \in 1 .. Len(r.frames) :
       /\ ReadFrame(From(bytes, c[i - 1])) = Ok(r.frames[i], c[i] - c[i - 1])
       /\ r.frames[i].type # END

\* The stream comes by the same places, and stops at the last.
Tracks(r, c) ==
  LET k == Len(r.frames) IN
  /\ k <= Len(sync.frames) /\ r.cursor = c[k]
  /\ \A i \in 1 .. k : r.frames[i] = sync.frames[i]
  /\ Done(r) => k = Len(sync.frames) /\ (sync.status = "ok" => r.status = "ok")

ReadAlike ==
  /\ stream.status # "header" => Done(sync)
  /\ Opens /\ sync.status # "header" =>
       \E c \in [0 .. Len(sync.frames) -> 0 .. Len(bytes)] :
         /\ Walked(sync, c)
         /\ stream.status # "header" /\ sync.status # "InvalidBlockType" => Tracks(stream, c)

IInv ==
  /\ FileKept /\ \A r \in Readers : ReaderTyped(r) /\ HeaderRead(r) /\ Follows(r)
  /\ EndsAs(sync, "TrailingData") /\ EndsAs(stream, "ok")
  /\ SyncStopped /\ ReadAlike
-----------------------------------------------------------------------------
(* Statements of the repository that the code does not bear out.           *)

\* block_frame.rs: a cast of the block type would falsely match types whose low byte is
\* that of END, so a type that does not fit a byte is an error.
WideTypesRefused == change = "wide" => stream.frames = <<>> /\ stream.status # "ok"

\* errors.md: bytes after END are TrailingData, from the stream as from decode().
TrailingReported == change = "longer" /\ Done(stream) => stream.status = "TrailingData"

\* errors.md: a corrupted length is an error that is returned, by the stream as well.
LengthsRefused == change = "damaged" => stream.status # "Died"
=============================================================================
