# Verification of the Bit Context Protocol

TLA+ models of `bit-context-protocol`, TLC configurations that check them on small
instances, and TLAPS proofs of their main properties for every value of the constants.

## 1. The system

The repository is a Rust workspace. A tool builds a *context payload* out of typed blocks
(code, conversation, documents ...), another process decodes it and renders it as text for
a language model under a token budget.

| Component | State | Operations | What makes it correct |
|---|---|---|---|
| **Encoder** (`bcp-encoder/src/encoder.rs`) | pending blocks with their modifiers; payload compression, compress-all, dedup, an `Arc` of a content store | eleven `add_*`, `with_summary/priority/compression/content_addressing`, `compress_blocks`, `compress_payload`, `set_content_store`, `auto_dedup`, `encode` | every frame's flags say what its body is; every reference it writes is resolvable; limits match the decoder's; a failed or repeated `encode` harms nothing |
| **Content store** (`bcp-encoder/src/content_store.rs`, trait in `bcp-types`) | map from hash to body behind a `RwLock` | `put`, `get`, `contains`, each one lock | entries never change and never leave; filed under their own hash |
| **Synchronous decoder** (`bcp-decoder/src/decoder.rs`, `decompression.rs`) | none between calls; cursor, blocks, found-END inside one | `decode`, `decode_with_store` | yields what was encoded; refuses what lost or gained bytes; always returns |
| **Streaming decoder** (`bcp-decoder/src/streaming.rs`) | ReadHeader / ReadBlocks / Done, a buffer and a cursor for compressed payloads, the position in an async reader | `new`, `with_content_store`, `next` | same blocks as the synchronous decoder; an error or a cancelled `next` leaves a defined state; None means that all was there |
| **Block frames, header, varints** (`bcp-wire`) | none | write and read of frames, header, varints | reading inverts writing; short or overlong input is an error; both decoders read alike |
| **Block types and TLV** (`bcp-types`) | none between calls | field encoding and the decode loop of each type; summary prefix | fields in any order, repeated or unknown; required ones present |
| **Budget engine** (`bcp-driver/src/budget.rs`) | decisions so far, budget left | resolve priorities, scan, allocate | Critical and High are never lost; a priority reaches its own target under every filter; the greedy order is kept |
| **Driver and renderers** (`bcp-driver`) | none between calls | filter, dispatch on verbosity, render | decisions line up with blocks |
| **Commands** (`bcp-cli`) | files | encode, decode, validate, inspect, stats | what `encode` writes, the others accept and show; a file that broke off is not taken for a whole one |

Interactions. Encoders are owned by one caller each (`&mut self`), but share one content
store through an `Arc`, from any number of threads; decoders read the same store while
encoders still write it. `encode` reaches the store twice for a body that auto-dedup sees for
the first time (`contains`, then `put`), and other threads run in between. A streaming decoder
waits at every read, and its caller may drop the future there. Payloads travel through files
and pipes. The driver works on a decoder's blocks; annotations refer to other blocks by their
index in the stream.

What is hard: the store operations of several encoders and decoders in any order; encoding
stages whose order and flags must match the decoders' (summary, reference, compression of the
block, compression of the payload); limits on both sides; an `encode` that fails halfway
after it has written to the store; payloads that are cut, extended or damaged; a stream that is
asked again after an error or a cancelled call; annotation indices after filtering; a greedy
allocation in one order and a rendering in another; bodies of another producer; a command that
is killed while it writes. `PROJECT.json` lists each hazard at its line.

## 2. Modules

Four groups compose with each other only through the values they pass, so each is
explored by itself.

| Module | Models |
|---|---|
| `BcpWire` | Bytes, blocks, wire bodies and frames: what encoder and decoders agree on. The assumptions on constants, among them that hashes do not collide. |
| `ContentStore` | The shared store: `Put`, `Get`, `Contains`. |
| `Encoder` | Builder methods and the stages of `encode()`, for a set of encoders that share the store. |
| `Decoder` | Deliveries (whole, cut, extended) and decode calls, one frame a step. |
| `Codec` | Encoders, store and decode calls together, their properties and inductive invariant, and the refinement mapping. |
| `ContextTransfer` | The abstract specification: messages are sent, and received whole, at most once by a receiver. |
| `StreamingDecoder` | `next()`, one step for every read that it awaits; cancelled calls and failing readers. |
| `StreamCodec` | Streams beside everything in `Codec`, their properties and inductive invariant. |
| `Budget`, `Renderers` | Token estimates, priorities and decisions; the fields that each renderer shows. |
| `Driver` | A call of `DefaultDriver::render`: filter, decisions with or without the budget engine, rendering. |
| `Varint`, `Fields`, `BlockTypes` | Varints; TLV fields; the schema of each block type. |
| `TlvDecoder`, `BlockRoundTrip` | The decode loops, field by field; bodies that another producer wrote or that were damaged, decoded, encoded and decoded again. |
| `Framing` | A file byte by byte, read by both decoders. |
| `Names`, `Commands` | The tables of names in three crates; the commands on the files of a directory. |
| `MCCodec`, `MCStreamCodec`, `MCDriver`, `MCBlockRoundTrip`, `MCFraming`, `MCCommands` | Constants for the runs. |
| `CodecProofs`, `StreamProofs`, `DriverProofs`, `CommandsProofs`, `FramingProofs`, `BlockProofs` | Theorems. |
| `WireProofs` | Lemmas on varints and on byte strings one behind the other, for the proofs of `Framing` and `BlockRoundTrip`. |
| `Induction` | Lemmas on natural numbers, recursion and lists of positions, for the proofs. |

A mutation of an operator, marked as such and used in no specification, stands before the
operator it is a variant of.

### Codec

A builder method is one action. `encode()` is `BeginEncode` (validation), then for
every block `SerializeBlock`, `ApplyContentAddressing`, possibly `RegisterFirst`, and
`EmitFrame`; at last `FinishEncode`. The cuts between them are where another thread can be
noticed: around `contains` and `put`. Everything else in `encode()` touches only local data. A
decode call is `Receive` (header, decompression of the payload), one step for every frame, and
a step for END, or for whatever stands where END should be.

A byte string is a sequence of atoms and its length is its size. A summary prefix is
one atom, so a body does not show where the summary ends: summary `x` with fields `y` and no
summary with fields `x y` have the same bytes and the same hash, as in the code, and only the
frame's flags tell them apart. A wire body carries a tag (plain, hash, zstd) that no decoder
reads as such: a decoder acts on the flags, and fails as zstd or a length check fails when
they are wrong. The TLV encoding of a block's fields is an opaque string here; the block type
modules open it. BLAKE3 is any injective function (the assumption `HashInjective`). zstd is
known by the size of its output. A stream of it that is cut does not decompress, nor does one followed by bytes that are
no zstd frame; but `zstd::decode_all` reads on over further zstd frames (`Extended`), so a compressed payload may also be
followed by empty or skippable frames, which add nothing, and by frames whose content then follows END, little of it or
more than the decoder's limit. Whether a whole payload shrinks is left open: both outcomes are explored.

`message` and `by` in a payload and `sent` in a decode call or a stream are ghosts that record
what was encoded. No guard reads them, except that `Open` looks at a payload's `compressed`
flag, which the header gives the real decoder. `intact` is a ghost too: whether a delivery decompresses, and to how much, is `unzips` and `size`.

### Streaming decoder

`next()` is a coroutine on an async reader. On an uncompressed payload a frame is awaited in
parts, the type, the flags, the length and the body (END has no body), and each part is a step
(`ReadPart`, `ReadBody`, `ReadEndTail`); `HitEof` is the end of the bytes, between frames or
inside one. A compressed payload is read and decompressed by the call that reads the header
(`UnzipPayload`), and from then on a call is one step (`BufferedFrame`, `BufferedEnd`,
`BufferedCut`, `BufferedRunOut`). Errors do not close the stream: the caller may call again,
and the state the error left decides what follows.

While a call waits, the caller may drop its future (`Cancel`) or the reader may fail
(`ReaderFails`). The parts read so far were in the future and are gone: the stream is no
longer `aligned`, unless nothing had been consumed (`Lost`). What a stream reads that has lost its
place is arbitrary: `Misread` returns any block, any error, or the end. A panic over a length that it misreads counts as an error,
since a caller that catches it finds the stream as an error leaves it; an abort ends everything.

### Driver

The arguments never change; a step handles one block of one loop of `render`: `Filter`,
`Resolve` (the priority map), `Allocate*` (one arm for every priority, in the order of the stable sort),
`Render`. `original` is `original_indices`. A text is its length, its lines and its indented lines,
which is all the default estimator looks at; a rendered piece is the set of fields that it shows.
The renderers' `render_all` is an operator, for comparison.

### Block types

`Schema` gives each type its fields, with ids, kinds, defaults and whether they are required.
`TlvDecoder` decodes one body, a field a step, with a stack of calls for nested entries and hunks.
`BlockRoundTrip` decodes a body that was changed on its way, encodes what came out and decodes
that. `Values[n]` are the values of each type in which blocks nest less than `n` deep, and `Encode[n]` encodes them, as functions
over `n` where the code recurses. `Depth` bounds the nesting without excluding anything: a nested block is at least three bytes shorter than the one it is in, and the
length of a body is a word (`Addressable`), as it is a `usize`. Varints have digits 0 to 7, words 0 to 127, and at most three bytes instead of ten, so that the last byte holds
one bit of a word, as in the code; an `as u8` keeps 4 bits and an `as u32` 5. One byte stands for what is no UTF-8.

### Framing

Header, frames and END as bytes, and what `BcpDecoder` and `StreamingDecoder`, which have read
code of their own, make of them, a frame a step. Varints are scaled in the same way; END is the largest
block type, and as in the code its varint is two bytes long. Bodies are opaque and uncompressed: a file whose header says that it is
compressed fails to decompress.

The two readers treat a length differently. The synchronous one compares it with the bytes it has. The stream makes a buffer
of that length before it reads a byte of the body (`Resized`), and dies, by a panic or an abort, if no buffer can be so long:
`Memory` is the length of the longest, at most half of the words, as `isize::MAX` is of a `usize`. Files are no longer than that, because
`decode()` is given them in a buffer. How much a machine can really allocate is for the constant to say; below it, a length
that the file does not hold is an `Io` error.

### Commands

A file is a sequence of cells: header, a cell for each frame, END; or rendered text. A command reads its
manifest or file, works on it entry by entry, and writes its output: `fs::write` empties the file
and then fills it, a cell a step, and may find the disk full; stdout may fail under whatever prints (exit `stdout`:
`decode` and the errors of `validate` by then have changed no file, `encode` has written all of its own); `Kill` may end a command anywhere. Commands
run one at a time. `encode` has its stages of `run`: parse, check and apply every entry in order (`apply_meta` puts
the summary first and the priority after it), encode, write. `decode` renders with the operators of `Renderers`.
`Names` holds the tables by which a name in a manifest becomes a wire byte and a wire byte a name.
`before` and `origin` are ghosts: the disk when the command began, and what an encode meant to write.

## 3. Runs

`CHECK_DEADLOCK` is off everywhere, since every caller may be done.

| Run | Instance | Shows |
|---|---|---|
| `features` | 1 encoder, every builder method in any order, 2 blocks, 1 decode call; payloads of bare blocks also under every cut and extension, with the right store, a wrong store, none; fairness | `TypeOK`, `FramesCarryBlocks`, `DecodedIsSent`, `IntactDecodes`, `NoDoubleCompression`, `AcceptedIsWhole`, `ImplementsTransfer`, `EncodeReturns`, `DecodeReturns` |
| `sharing` | 2 encoders (symmetric), 2 blocks each, auto-dedup and explicit addressing: the race between `contains` and `put`, and decoding while others encode; or 1 of them, 2 `encode()` calls, a block that may be too large: bodies left by a failed call, blocks changed between calls | `IntactDecodes`, `InlineOnce` |
| `streams` | 1 encoder, a stream on a payload that is whole, cut, extended or repacked, alone with up to one interruption or beside a decode call on the same bytes; fairness | `StreamTypeOK`, `AgreesWithDecode`, `StreamedIsSent`, `NoneMeansWhole`, `NothingAfterTruncation`, `StreamEnds` |
| `driver` | up to 3 blocks and 2 priority annotations under four budgets; annotations of every kind and value anywhere among blocks, with and without filter; pairs of every type in every mode and verbosity | `TypeOK`, `PriorityReachesTarget`, `DegradationPath`, `BudgetHeld`, `NoInversion`, `OutputComplete`, `FailsOnlyOnShown`, `SummaryIsRenderAll` |
| `blocks` | two blocks of each type, every change to their bodies, and up to 4 fields at random | `TypeOK`, `ForwardCompatible`, `CutShows`, `Stable` |
| `framing` | up to 2 frames, whole, cut anywhere, one byte longer, any byte changed to any other, a wide type, a bare END; lengths up to 39 that fit the file, up to 63 that do not, up to 127 that kill the stream | `FramesArrive`, `TrailingRefused`, `DamageStaysBehind`, `ReadersAgree` |
| `commands` | every name and every set of flags on one file; mixes of up to 3 entries; 4 commands on 2 files, 2 of them encodes; a stdout that fails | `TypeOK`, `ShownAsWritten`, `MetaOnOwnBlock`, `RefusedForDuplicatesOnly`, `SuccessMeansWhole`, `FailureLeavesFiles` |
| `inverse`, `priority`, `widetypes`, `trailing`, `lengths` | violations expected | section 5 |

The properties are stated with a comment each, at the end of the module they are about.

**Bounds.** The codec runs use two letters, `x` and `y`, and the TLV bodies `y` and `x y`. With
limits in place of 256 bytes, 16 MiB and 256 MiB this gives a body below the compression
threshold, one that shrinks, one that does not, one at the size limit and one above it, and two
different blocks with the same bytes. `MaxBlocks` blocks in an encoder: two are the least for a duplicate, for a
target other than the last block, and for a failure after a success; three are needed for two priorities on one
block. `MaxEncodes` calls of `encode()`: two for a failure and another try. `MaxInterrupts` is 1: a
stream that has lost its place can already do anything `Misread` allows. In `driver` three blocks are enough for a
block that is refused, one that comes later and fits, and one between them; the budgets lie between the cost of one
small block and of all. In `blocks`, `MaxScraps` is 4, enough for a required field, an overwritten one, a damaged one and a cut. In `framing`,
`MaxFrames` is 2: damage in a frame, and a frame before or behind it; and `Memory` is 63
where words go to 127 and files to 39 bytes, so that a damaged length may fit, be too long for the file, or be too long for any buffer. In `commands`, `MaxShown` is 2 for
`--block`, and `MaxEncodes` 2 with `MaxCommands` 4 allow a file to be written, replaced by an encode that fails or is
killed, and read; the scenario of a behaviour (`names`, `mixes`, `rewrites`) says which inputs vary in it.

**Reductions.** `MCCodec` joins cases that have the same constants: in `features` only payloads of blocks without summary and
compression of their own are damaged or read without the encoders' store (`Sheltered`), since damage is the same to any frame; in `sharing` the
encoders either race (`Together`) or one of them repeats `encode()` (`Alone`). `MCStreamCodec` opens a stream when the decode call beside it is over, on the
same bytes with the same store, or alone, and lets encoders rest from then on. A decode call and a stream share
the store only, which neither writes, so their order does not matter. Encoders only add to the store: a
stream beside running encoders sees a larger one, and differs from the same stream later only in references that were not
resolvable, which `sharing` shows do not exist for the encoders' own store. Only a stream that is alone and reads with
the encoders' store is interrupted: an interrupted one is not compared with a decode call, and what an interruption loses is no matter of the store. The theorems of `StreamProofs` are about `SSpec`, without
these restrictions.

**Fairness.** `encode` and `decode` are synchronous loops on the caller's thread: a call
that has started keeps taking steps, hence weak fairness of each call's own steps. No caller is
obliged to start one, and `BeginEncode` and `Receive` have no fairness. For a stream, `Answer` is
weakly fair: whoever feeds the reader sends on or closes it, and the read returns. So is the next
call, as in the loop of `streaming.rs:80`, which asks until it sees None; `StreamEnds` is about such a caller.
Dropping a future is never required.

## 4. Proofs

TLAPS proves, for any sets of encoders, decode calls and streams, any bytes, blocks, limits and bounds
that satisfy the assumptions in `BcpWire`, `Encoder`, `Decoder` and `StreamingDecoder`, for any
streams of blocks and configurations of a driver, for any manifests, files and flags of
commands that satisfy those in `Names` and `Commands`, and for any base, word size, frames and
changes of a file that satisfy those in `Varint` and `Framing`, and for any blocks, unknown fields and
noise that satisfy those in `Varint`, `BlockTypes` and `BlockRoundTrip`:

| Module | Theorems | Properties |
|---|---|---|
| `CodecProofs` | `InvariantHolds`; `TypeCorrect`, `FramesCarry`, `DecodedWasSent`, `DamageDetected`, `IntactAccepted`; `CodecImplementsTransfer`; `InlinedOnce`, `CompressedOnce` | `TypeOK`, `FramesCarryBlocks`, `DecodedIsSent`, `AcceptedIsWhole`, `IntactDecodes`, `ImplementsTransfer`, `InlineOnce`, `NoDoubleCompression` |
| `StreamProofs` | `StreamInvariantHolds`; `StreamTypeCorrect`, `StreamYieldsSent`, `NoneIsWhole`, `TruncationIsFinal`, `DecodersAgree` | `StreamTypeOK`, `StreamedIsSent`, `NoneMeansWhole`, `NothingAfterTruncation`, `AgreesWithDecode` |
| `DriverProofs` | `InvariantHolds`; `TypeCorrect`, `PrioritiesReachTargets`, `DegradationHolds`, `InversionFree`, `BudgetIsHeld`, `OutputIsComplete`, `FailuresAreShown`, `SummaryPathsAgree` (the last three from `OutputExact`) | `TypeOK`, `PriorityReachesTarget`, `DegradationPath`, `NoInversion`, `BudgetHeld`, `OutputComplete`, `FailsOnlyOnShown`, `SummaryIsRenderAll` |
| `CommandsProofs` | `InvariantHolds`; `TypeCorrect`, `FailuresLeaveFiles`, `SuccessIsWhole`, `RefusalsAreDuplicates`, `MetaStaysWithBlock`, `DecodeShowsManifest` | `TypeOK`, `FailureLeavesFiles`, `SuccessMeansWhole`, `RefusedForDuplicatesOnly`, `MetaOnOwnBlock`, `ShownAsWritten` |
| `FramingProofs` | `InvariantHolds`; `FramesDoArrive`, `TrailingIsRefused`, `DamageIsContained`, `DecodersReadAlike` | `FramesArrive`, `TrailingRefused`, `DamageStaysBehind`, `ReadersAgree` |
| `BlockProofs` | `DecodedIsTyped`, `BodiesAreForwardCompatible`, `CutBodiesShow`, `DecodedBlocksAreStable` | `TypeOK`, `ForwardCompatible`, `CutShows`, `Stable` |

**Codec.** The properties are not inductive by themselves. `FramesCarryBlocks` speaks of frames that have
been written, and says nothing about the body in hand between two stages: `InHand` adds
that it still is the current block's body, plain, or its hash with the body in the store.
`DecodedIsSent` speaks of what has been read: `DecodingSent` adds that a call reads some payload's items,
where damage either shows as a missing END, as an item that breaks off, or has already ended
the call. `IInv` is the conjunction.

The argument: a body that is put stays in the store under its hash (`PutSound`), so a reference
that was resolvable stays so (`CarriesStable`) whatever other encoders do, and that is all
that one encoder needs to know of another. `contains` answers for good, even though the lock is released.
A frame that carries a block decodes to that block
(`CarriedDecodes`), by collision freedom and because both sides put the summary first.
The END item occurs once and last, so a cut payload lacks it, and an extended one has something behind it or, if it is compressed, was
extended by zstd frames without content (`SentWhole`); that is the one kind of damage that `AcceptedIsWhole` lets pass, and then the message is the one sent.
Each encoder and decoder step has a lemma of its own; `EncoderStep` and `DecoderStep` collect them.

**Deduplication.** What `InlineOnce` needs is the converse of resolvability: a body that a deduplicating call has
written inline is in the store, so when `contains` says no, none of the frames so far has that body. `SavingInv` says so
for the frames out and for the body between `contains` and `put`, on top of `IInv`.

**Streams.** `StreamInv` says of every open stream that its items are those of a payload, each at its
place (`SourceOf`); that it has lost its place past the header only by an interruption, and that without one an error
of framing leaves nothing to read (`InPlace`); and that its blocks so far are blocks
of the message in front of the cursor, in their order (`Yielded`). `Places` is the set of order-preserving maps
that witness it; a step that yields a block extends such a map by one. Frames that are refused are consumed, so without the maps
an error would break the correspondence of positions.

`AgreesWithDecode` compares two readers that see the store at different moments. `CauseInv` says of each by itself why it failed, in terms
of the bytes and of the kind of store only: a frame on its way is unreadable if it broke off, is missing, or is a
reference and the store is not the encoders' (`Faulty`). Both readers fail exactly on `Faulty` bytes, so they agree, whatever was put in between.

**Driver.** `ResolvedUpTo` describes the map after the first n blocks as the last valid annotation for each position, from which
`PriorityReachesTarget` follows at the end of the loop. `NoInversion` is not inductive: `SortedOrder` adds that what is pending
sorts behind what is allocated, and `Degraded` that a Normal block that was refused in full does not fit what is left, which only shrinks.
`OutputInv` is about what comes out: `original` lists the renderable blocks in the order of the stream, each decision fits its block
and the configuration, and the pieces so far are those of the decided blocks that were not omitted, in order; a call has failed only on a block
that the renderer would have shown. `SpentExactly` is an equation, what the allocated blocks cost and what is left of the budget; its
sum is over a set that grows by one element, at any position (`SumsGrow`).

**Commands.** A file that an encode wrote whole is the encoding of `Built` blocks: a map from the manifest's entries to positions gives
every entry its block and, right behind that, its annotation if it has a priority. `RunningKept` has the same of the entries
applied so far, so an entry that is applied makes the map longer by one (`BuiltGrows`). `FilesKept` says of what an encode meant to write that it is
such an encoding, and `LastKept` that what the last command reported holds of the files as they are now. What a write left behind when it stopped
is refused by every reader, because END is missing (`NoEndRefused`), and of a whole file the map gives back the blocks of the manifest (`MadeFileRead`).
That a byte is read as what it was written for, and a name shown parses to what it was shown for (`BytesMean`, `ShownNamesParse`), is proved of the tables in `Names`.

**Framing.** The numbers of the code are one instance: digits of 7 bits, words of 64, ten bytes (`VarintsFit` says that these hold any word).
A varint is read as what was written, whatever follows it, and one that breaks off is an error for both decoders (`WordArrives`, `WordBreaks`,
by induction on the number, `EncodeSays`, in `WireProofs`). So is a frame (`FrameArrives`, `FrameBreaks`), and END, whose type alone the readers of a frame consume (`EndArrives`,
`EndBreaks`). `FileLaid` says where in the file each frame lies, and `ChangeIs` what a change leaves of it, so that `FrameFound` gives what either reader finds
behind the n-th intact frame. The properties speak of frames delivered and not of positions, hence the invariant `Follows`:
a reader that has delivered n intact frames stands behind the n-th. Damage in a frame's length may put a reader anywhere, and
`ReadersAgree` has to hold there too: `ReadAlike` keeps the places `c` that the first decoder came by, and the stream comes by the same ones, because on
any bytes at all the two readers of a frame agree or one refuses the type (`FramesAlike`), and so do the two readers of what follows END (`TailsAlike`).

**Blocks.** Two invariants. `TypeInv` is about any bytes: each call on the stack has the fields of its type so far, of the kind the schema
says (`HasFields`), and each has at least three bytes fewer than the call it is nested in, since an element of a list comes behind its id, its
wire type and its length. So a body of less than `Word` bytes nests less than `Depth` deep, and what decodes is in `Values[Depth]`: this is
`DecodedIsTyped`.

`SourceInv` is about bodies that mean something: those of the first pass that were not damaged otherwise than by a cut, and all of the second pass. Its
core is `Reads(t, s, F, v, cut)`: the fields `s`, read one after the other, take the decoder through the partial blocks `F` to the block `v`.
The fields an encoder writes do so from a blank block (`PartsRead`), each at its step (`Read`), and every harmless change gives
another such sequence (`RemadeMeans`): a field that moves to the front past none with its own id commutes with those it passes, an unknown one
changes nothing, one that is overwritten later leaves no trace, an overlong number is cut to the word it was (the last byte a varint may have holds one bit more than a word, `RoomForMore`, as ten bytes of seven bits do). `Leads` says the same of what is left of a body
in the middle of decoding, and `StackMeans` of all the calls on the stack: each will complete its block, once the one above it
has returned (`Waits`). A step of the loop takes one field off (`Goes`), calls for a nested one, or returns. That
nested bodies mean what they should is by induction on the depth.

For a body that may be cut, `Within` adds that what has been read so far is in the block sent, field by field and each list from its start; only
the outermost call can reach the end early, as a nested one has its length checked before it begins. `CutShows` is `Within` at the end of the body. In the second pass the
block sent is the one decoded first, which by `TypeInv` is a value of its type; hence `Stable`, for all bytes.

**Induction.** The library's induction theorems take an operator as a parameter. `Induction` states the same facts with sets: that a set of
numbers with zero and the successor of each of its members is `Nat` (`NatUpward`), that a recursion has a solution (`ByRecursion`), that a set of positions has a list in order
(`ListExists`). Sums, sequences of pieces and the filters of lists are recursive functions in the models, and these lemmas give their equations.

**Only model-checked.** Liveness (`EncodeReturns`, `DecodeReturns`, `StreamEnds`), which needs ENABLED.

## 5. Findings

Each has a run with a counterexample.

1. `inverse`: `decoder.rs:40` calls the decoder "the inverse of `BcpEncoder::encode`". `encode()` has no limit for a
   whole payload and `decode()` has one: a compressed payload over 256 MiB encodes and does not decode.
2. `priority`: `render_integration.rs:178` says that "with_priority targets the last non-annotation block". It targets the
   last block, which may be the annotation of an earlier `with_priority`.
3. `widetypes`: `block_frame.rs:144-146` explains why a block type must not be cut to a byte, and `error.rs:24-26` makes a wide one
   InvalidBlockType. `streaming.rs:245` cuts it, so that a type of 0x1FF ends a stream with success.
4. `trailing`: `docs/errors.md:61` says of the decode errors "Raised by both sync and streaming decoders", and `:70` lists `TrailingData`
   for "Extra bytes after END sentinel". A stream is done when it has read END (`streaming.rs:253`) and ends with success in front of anything.
   `TrailingRefused` therefore asks it only for every frame.
5. `lengths`: `docs/errors.md:66` promises `BlockTooLarge` for "Corrupted content_len or oversized block", from both decoders by `:61`. No code
   raises it. The synchronous reader checks a length against its bytes (`block_frame.rs:172-189`); the stream resizes its buffer to it first
   (`streaming.rs:273`), and a length that no buffer can have is a panic or an abort.

### Divergences met while modelling, without a run of their own

The models do what the code does here, and these are differences from what the repository says:

- A payload cut between two frames gives `Io` from a stream, however often `next()` is called, and `MissingEndSentinel` only if it
  was compressed (`streaming.rs:208-210`, `238`). `docs/errors.md:61` says "Raised by both sync and streaming decoders" and
  `docs/errors.md:69` gives MissingEndSentinel for "Truncated payload or missing 0xFF terminator".
- Behind a compressed payload zstd frames without content are accepted, since `zstd::decode_all` reads over them (`decompression.rs:31`):
  `AcceptedIsWhole` exempts them. `docs/crate-bcp-decoder.md:98`: "END sentinel must be present. No trailing data allowed."
- After the END type both decoders require flags and a length (`decoder.rs:261`). `docs/wire-primitives.md:221`: "The END block has no flags,
  length, or body on the wire", and `end.rs:16-21` draws it so.
- A decision Summary shows the summary of Code blocks only (`render_xml.rs:149`, `render_markdown.rs:121`, `render_minimal.rs:114`).
  `budget.rs:47`: "Render the summary text only. If the block has no summary, the renderer falls back to full content."
- The description in a placeholder is not escaped (`placeholder.rs:36`). `render_xml.rs:367`: "Escape XML special characters in attribute values."
- Placeholders of Normal and Low blocks are neither compared nor charged (`budget.rs:457`), so the output may exceed the budget.
  `docs/crate-bcp-driver.md:5`: "fits blocks within a token limit".
- Enum fields are cut to a byte before the lookup (`conversation.rs:62` and others), so 257 is accepted as System.
  `enums.rs:172-174`: "unrecognized role bytes produce an error"; `file_tree.rs:95-107` checks the whole word.
- `decode_body` uses a field's wire type for unknown fields only (`annotation.rs:59`). `fields.rs:121-122`: the caller "uses `wire_type`
  to know how to read the payload."
- `encode --dedup` writes references into a store that ends with the command (`cmd_encode.rs:177`), and no command can read the file.
  `docs/crate-bcp-cli.md:23` and `:174` offer it without saying so.
- ToolResult and StructuredData entries drop `summary` and `priority` (`cmd_encode.rs:123`). `cmd_encode.rs:64`: "Optional fields for all blocks";
  `docs/crate-bcp-cli.md:232`: "Optional on any block".
- An unknown `lang` becomes Unknown (`cmd_encode.rs:369`). `cmd_encode.rs:159-160` lists it among the errors, and `:103` says "must be a
  recognised language name".

## 6. Not modelled, and the plan

Not modelled: `BlockWriter` and `BlockReader`, which nothing but their own tests call (the block types use
`fields.rs`); `HeuristicEstimator`, which `DefaultDriver` does not use; `target_model`, which no code reads; the layout of rendered and printed text;
argument parsing; commands that run at the same time; the compression and budget flags of the commands, whose effect is in `Codec`
and `Driver`; the insides of zstd and BLAKE3; the tests, benches, fuzz targets and the generator of golden files. Three hazards have no
property: the end of a summary is computed without an overflow check (`summary.rs:50`), and either way the block is not decoded; the
high bits of a tenth varint byte are dropped (`varint.rs:62`), which the models take for right; and nested file entries are decoded by
recursion (`file_tree.rs:117`), where the stack of `TlvDecoder` has no limit, so that a thread that runs out of stack is no behaviour of it.

Possible next steps, in this order:

1. Commands that run at the same time on one file, where a reader may see what a writer has not finished.
2. A stream that feeds the driver block by block, which no command does yet.
