------------------------------- MODULE Commands -------------------------------
(***************************************************************************)
(* The bcp commands (bcp-cli), one after another on the files of one       *)
(* directory.  encode turns a manifest into a file; validate, inspect,     *)
(* stats and decode read one.  fs::write empties its file and then fills   *)
(* it, so a command that is killed, or a full disk, leaves part of it.     *)
(*                                                                         *)
(* A file is a sequence of cells: the header, a cell for each frame, END;  *)
(* or one cell of rendered text.  Compression is left out: the commands    *)
(* see a payload before it and after it (Codec is about what is between).  *)
(***************************************************************************)
EXTENDS Names, FiniteSetsExt

CONSTANTS
  Files,         \* the files that commands write and read
  Foreign,       \* what may be in a file before the first command
  Manifests,     \* the manifests, Unparsed among them
  Unparsed,      \* one that is no JSON of the right shape
  Sources,       \* the files that content_file can name, with their contents
  NotText,       \* the contents that are not UTF-8
  TooLarge,      \* the contents that encode() refuses
  DecodeArgs,    \* the flags of decode
  None,          \* an Option that is None
  Missing,       \* a file that is not there
  MaxShown,      \* bound: positions that --block names
  MaxEncodes,    \* bound: how many of the commands are encodes
  MaxCommands    \* bound: commands in one behaviour

ASSUME CommandsAssumption ==
  /\ MaxCommands \in Nat /\ MaxEncodes \in Nat /\ MaxShown \in Nat
  /\ \A a \in DecodeArgs : DOMAIN a = {"mode", "verbosity", "include"}

\* The manifests that parse, and their entries.  Only the status of a tool result and
\* the format of a document may be left out.
Parsed == Manifests \ {Unparsed}
Entries == UNION {{m[i] : i \in DOMAIN m} : m \in Parsed}

ASSUME CommandsInputs ==
  /\ \A m \in Parsed : m \in Seq({m[i] : i \in DOMAIN m})
  /\ \A e \in Entries :
       /\ e.type \in DOMAIN EnumOf \ {"Annotation"}
       /\ e.name = None => e.type \in {"ToolResult", "Document"}

R == INSTANCE Renderers WITH NoText <- None

VARIABLES
  disk,       \* disk[f]: the cells of file f, or Missing
  running,    \* the command that runs
  last,       \* how the last command ended, and what it showed
  commands,   \* commands started so far
  encodes,    \* encodes among them
  before,     \* (ghost) the disk when the last command started
  origin      \* (ghost) what encode was writing when it last opened the file

counts == <<commands, encodes>>
vars == <<disk, running, last, counts, before, origin>>

Nothing == [cmd |-> "none"]
Header == [cell |-> "header"]
End == [cell |-> "end"]
TextCell == [cell |-> "text"]

\* The elements of s at the positions in S, in their order: those up to each position,
\* and all of them.
Picks(s, S) ==
  LET upTo[n \in Nat] == IF n = 0 THEN <<>>
                         ELSE IF n \in S THEN Append(upTo[n - 1], s[n]) ELSE upTo[n - 1]
  IN  upTo
Selected(s, S) == Picks(s, S)[Len(s)]

Init ==
  /\ disk \in [Files -> Foreign \cup {Missing}]
  /\ running = Nothing /\ last = Nothing
  /\ commands = 0 /\ encodes = 0
  /\ before = disk
  /\ origin = [f \in Files |-> None]

Idle == running = Nothing /\ commands < MaxCommands

Start ==
  /\ Idle
  /\ commands' = commands + 1
  /\ before' = disk

\* The command ends and has shown this; an exit other than "ok" is an exit code
\* other than 0.
Exit(cmd, args, exit, shown) ==
  /\ running' = Nothing
  /\ last' = [cmd |-> cmd, args |-> args, exit |-> exit, shown |-> shown]
-----------------------------------------------------------------------------
(* Manifest entries.                                                       *)

\* resolve_content: what is inline comes before content_file.
ResolveContent(entry) ==
  IF entry.content # None THEN entry.content
  ELSE IF entry.content_file \in DOMAIN Sources THEN Sources[entry.content_file]
  ELSE None

\* The value of the enum of the entry's type.
Variant(entry) ==
  IF entry.name # None THEN Parse(EnumOf[entry.type], entry.name)
  ELSE IF entry.type = "ToolResult" THEN "Ok" ELSE "Markdown"

\* The entries whose summary and priority are read at all.
WithMeta == {"Code", "Conversation", "Document"}

\* The first error of apply_block.
EntryFault(entry) ==
  IF ResolveContent(entry) = None THEN "content"
  ELSE IF Variant(entry) = NotAName THEN "name"
  ELSE IF /\ entry.type \in WithMeta /\ entry.priority # None
          /\ Parse("Priority", entry.priority) = NotAName
    THEN "priority"
  ELSE "none"

AddBlock(blocks, entry) ==
  Append(blocks, [type |-> entry.type, byte |-> ToWireByte[EnumOf[entry.type]][Variant(entry)],
                  content |-> ResolveContent(entry), summary |-> None, target |-> None])

\* BcpEncoder::with_summary and with_priority, on the last block.
WithSummary(blocks, summary) ==
  IF summary = None THEN blocks ELSE [blocks EXCEPT ![Len(blocks)].summary = summary]

\* Mutation: the index is taken after the annotation is in.
WithPriorityOwn(blocks, priority) ==
  IF priority = None THEN blocks
  ELSE Append(blocks, [type |-> "Annotation", content |-> None, summary |-> None,
                       byte |-> ToWireByte["Priority"][Parse("Priority", priority)],
                       target |-> Len(blocks) + 1])

WithPriority(blocks, priority) ==
  IF priority = None THEN blocks
  ELSE Append(blocks, [type |-> "Annotation", content |-> None, summary |-> None,
                       byte |-> ToWireByte["Priority"][Parse("Priority", priority)],
                       target |-> Len(blocks)])

\* Mutation: the priority comes first, and its annotation gets the summary.
ApplyMetaReversed(blocks, entry) ==
  WithSummary(WithPriority(blocks, entry.priority), entry.summary)

ApplyMeta(blocks, entry) ==
  WithPriority(WithSummary(blocks, entry.summary), entry.priority)

ApplyBlock(blocks, entry) ==
  IF entry.type \in WithMeta THEN ApplyMeta(AddBlock(blocks, entry), entry)
  ELSE AddBlock(blocks, entry)

\* The cells of the files that commands write.
Body ==
  [type : DOMAIN EnumOf, byte : Nat, content : {ResolveContent(e) : e \in Entries} \cup {None},
   summary : {e.summary : e \in Entries} \cup {None}, target : Nat \cup {None}]
Cell ==
  [cell : {"header", "end", "text"}] \cup [cell : {"block"}, block : Body, reference : BOOLEAN]

\* An encode: its manifest, its flag, and the cells of its file.
Origin == [manifest : Parsed, dedup : BOOLEAN, cells : Seq(Cell)]

ASSUME CommandsMarks ==
  /\ None \notin Nat \cup Origin /\ Missing \notin Seq(Cell)
  /\ \A types \in SUBSET {BlockTypeNames[n] : n \in DOMAIN BlockTypeNames} : types # None
-----------------------------------------------------------------------------
(* encode.                                                                 *)

\* Mutation: bodies are told apart by their content alone.
EncodedByContent(blocks, dedup) ==
  LET again(i) == dedup /\ \E j \in 1 .. i - 1 : blocks[j].content = blocks[i].content
  IN  <<Header>>
      \o [i \in DOMAIN blocks |-> [cell |-> "block", block |-> blocks[i], reference |-> again(i)]]
      \o <<End>>

\* A new content store for the command, which is gone with it: of equal bodies only
\* the first is in the file.
Encoded(blocks, dedup) ==
  LET again(i) == dedup /\ \E j \in 1 .. i - 1 : blocks[j] = blocks[i]
  IN  <<Header>>
      \o [i \in DOMAIN blocks |-> [cell |-> "block", block |-> blocks[i], reference |-> again(i)]]
      \o <<End>>

StartAnEncode ==
  /\ Start
  /\ encodes < MaxEncodes
  /\ encodes' = encodes + 1

\* Mutation: the output is emptied before the manifest has been gone through.
StartEncodeEarly(m, out, dedup) ==
  /\ StartAnEncode /\ m # Unparsed
  /\ running' = [cmd |-> "encode", manifest |-> m, out |-> out, dedup |-> dedup,
                 at |-> 0, blocks |-> <<>>]
  /\ last' = Nothing
  /\ disk' = [disk EXCEPT ![out] = <<>>]
  /\ UNCHANGED origin

StartEncode(m, out, dedup) ==
  /\ StartAnEncode
  /\ IF m = Unparsed
     THEN Exit("encode", out, "manifest", <<>>)
     ELSE /\ running' = [cmd |-> "encode", manifest |-> m, out |-> out, dedup |-> dedup,
                         at |-> 0, blocks |-> <<>>]
          /\ last' = Nothing
  /\ UNCHANGED <<disk, origin>>

Encoding == running.cmd = "encode"
NextEntry == running.manifest[running.at + 1]

ApplyEntry ==
  /\ Encoding /\ running.at < Len(running.manifest)
  /\ IF EntryFault(NextEntry) # "none"
     THEN Exit("encode", running.out, EntryFault(NextEntry), <<>>)
     ELSE /\ running' = [running EXCEPT !.at = @ + 1,
                                        !.blocks = ApplyBlock(@, NextEntry)]
          /\ UNCHANGED last
  /\ UNCHANGED <<disk, counts, before, origin>>

AllApplied == Encoding /\ running.at = Len(running.manifest)

\* encode() fails: EmptyPayload, BlockTooLarge.
EncodeFails ==
  running.blocks = <<>> \/ \E i \in DOMAIN running.blocks : running.blocks[i].content \in TooLarge

RefusePayload ==
  /\ AllApplied /\ EncodeFails
  /\ Exit("encode", running.out, "payload", <<>>)
  /\ UNCHANGED <<disk, counts, before, origin>>

\* fs::write begins; if the file cannot be opened nothing has happened to it.
Open(cmd, args, out, cells, shown, from) ==
  \/ /\ disk' = [disk EXCEPT ![out] = <<>>]
     /\ origin' = [origin EXCEPT ![out] = from]
     /\ running' = [cmd |-> "write", for |-> cmd, args |-> args, out |-> out,
                    cells |-> cells, shown |-> shown]
     /\ last' = Nothing
  \/ Exit(cmd, args, "write", <<>>) /\ UNCHANGED <<disk, origin>>

WriteOutput ==
  /\ AllApplied /\ ~EncodeFails
  /\ LET cells == Encoded(running.blocks, running.dedup) IN
     Open("encode", running.out, running.out, cells, <<>>,
          [manifest |-> running.manifest, dedup |-> running.dedup, cells |-> cells])
  /\ UNCHANGED <<counts, before>>
-----------------------------------------------------------------------------
(* fs::write, and the ends of a command that are not its own.              *)

Writing == running.cmd = "write"
Written == Len(disk[running.out])

WriteCell ==
  /\ Writing /\ Written < Len(running.cells)
  /\ disk' = [disk EXCEPT ![running.out] = Append(@, running.cells[Written + 1])]
  /\ UNCHANGED <<running, last, counts, before, origin>>

\* encode says so in the end, and may fail to; what it wrote stays.
FinishWrite ==
  /\ Writing /\ Written = Len(running.cells)
  /\ \/ Exit(running.for, running.args, "ok", running.shown)
     \/ running.for = "encode" /\ Exit("encode", running.args, "stdout", <<>>)
  /\ UNCHANGED <<disk, counts, before, origin>>

WriteFails ==
  /\ Writing /\ Written < Len(running.cells)
  /\ Exit(running.for, running.args, "write", <<>>)
  /\ UNCHANGED <<disk, counts, before, origin>>

Kill ==
  /\ running # Nothing
  /\ Exit(IF Writing THEN running.for ELSE running.cmd, None, "killed", <<>>)
  /\ UNCHANGED <<disk, counts, before, origin>>
-----------------------------------------------------------------------------
(* The commands that read a file.                                          *)

DecodedBlock(b) ==
  [type |-> b.type, variant |-> FromWireByte(EnumOf[b.type], b.byte), content |-> b.content,
   summary |-> b.summary, target |-> b.target]

Failed(status) == [status |-> status, blocks |-> <<>>]
Blocks(cells) == [i \in 1 .. Len(cells) - 1 |-> DecodedBlock(cells[i + 1].block)]

\* Mutation: the end of the file counts as the end of the blocks.
UnterminatedAccepted(cells) == [status |-> "ok", blocks |-> Blocks(cells)]

\* Nothing but good frames, and no END.
Unterminated(cells) == Failed("MissingEndSentinel")

\* BcpDecoder::decode, without a content store.
DecodeFile(cells) ==
  LET ends == {i \in 2 .. Len(cells) : cells[i].cell = "end"}
      references == {i \in 2 .. Len(cells) : cells[i].cell = "block" /\ cells[i].reference}
      invalid == {i \in 2 .. Len(cells) :
                    /\ cells[i].cell = "block" /\ cells[i].block.type # "Annotation"
                    /\ DecodedBlock(cells[i].block).variant = NotAName}
      stop == Min(ends \cup references \cup invalid)
  IN
  IF cells = <<>> \/ cells[1] # Header THEN Failed("InvalidHeader")
  ELSE IF ends \cup references \cup invalid = {} THEN Unterminated(cells)
  ELSE IF stop \in references THEN Failed("MissingContentStore")
  ELSE IF stop \in invalid THEN Failed("Type")
  ELSE IF stop < Len(cells) THEN Failed("TrailingData")
  ELSE [status |-> "ok", blocks |-> Blocks(SubSeq(cells, 1, stop - 1))]

ReadFile(f) ==
  IF disk[f] = Missing THEN Failed("Io") ELSE DecodeFile(disk[f])

\* A command prints what it has read; validate also what is wrong with it.
Prints(cmd, exit) == exit = "ok" \/ (cmd = "validate" /\ exit # "Io")

\* A command that reads and prints, and stdout may fail.
Report(cmd, f, exit, shown) ==
  /\ Start
  /\ \/ Exit(cmd, f, exit, shown)
     \/ Prints(cmd, exit) /\ Exit(cmd, f, "stdout", <<>>)
  /\ UNCHANGED <<disk, encodes, origin>>

Validate(f) == Report("validate", f, ReadFile(f).status, <<>>)

\* inspect shows all blocks, or with --block one of them if there is such a block.
Inspect(f, block) ==
  LET read == ReadFile(f) IN
  Report("inspect", [file |-> f, block |-> block], read.status,
         IF block = None THEN read.blocks
         ELSE IF block \in DOMAIN read.blocks THEN <<read.blocks[block]>>
         ELSE <<>>)

\* DefaultDriver::render of blocks that pass the filter (Driver is about the rest):
\* what is shown of each, or why nothing is.
Render(blocks, mode, verbosity, include) ==
  LET kept == Selected(blocks, {i \in DOMAIN blocks :
                 /\ blocks[i].type # "Annotation"
                 /\ include = None \/ blocks[i].type \in include})
      short == verbosity = "Summary"
      known(b) == [type |-> b.type, summary |-> b.summary, utf8 |-> b.content \notin NotText]
      piece(b) ==
        LET summarized == R!Summarized(known(b), short)
            named == R!Fields(mode, b.type, summarized)
                       \cap {"lang", "role", "status", "format", "format_hint"}
        IN  [type |-> b.type, text |-> IF summarized THEN b.summary ELSE b.content,
             name |-> IF named = {} THEN None ELSE DisplayName[EnumOf[b.type]][b.variant]]
  IN
  IF kept = <<>> THEN [status |-> "EmptyInput", shown |-> <<>>]
  ELSE IF \E i \in DOMAIN kept : R!InvalidContent(known(kept[i]), short)
    THEN [status |-> "InvalidContent", shown |-> <<>>]
  ELSE [status |-> "ok", shown |-> [i \in DOMAIN kept |-> piece(kept[i])]]

\* The token counts of a file that cannot be rendered are 0.
Stats(f) ==
  LET read == ReadFile(f)
      number(type) == Cardinality({i \in DOMAIN read.blocks : read.blocks[i].type = type})
      byType == [type \in {read.blocks[i].type : i \in DOMAIN read.blocks} |-> number(type)]
      tokens == [mode \in {"Xml", "Markdown", "Minimal"} |->
                   Render(read.blocks, mode, "Full", None).status = "ok"]
  IN  Report("stats", f, read.status,
             IF read.status = "ok" THEN [blocks |-> byType, tokens |-> tokens] ELSE <<>>)

\* The first error of decode: the file, then the flags, then the rendering.
DecodeResult(f, a) ==
  LET read == ReadFile(f)
      mode == ParseOutputMode(a.mode)
      verbosity == ParseVerbosity(a.verbosity)
      include == IF a.include = None THEN None ELSE ParseIncludeTypes(a.include)
  IN
  IF read.status # "ok" THEN [status |-> read.status, shown |-> <<>>]
  ELSE IF NotAName \in {mode, verbosity} \/ include = NotAName
    THEN [status |-> "flag", shown |-> <<>>]
  ELSE Render(read.blocks, mode, verbosity, include)

DecodeArgsOf(f, a) == [file |-> f, flags |-> a]

\* To stdout.
DecodePrint(f, a) ==
  LET result == DecodeResult(f, a) IN
  Report("decode", DecodeArgsOf(f, a), result.status, result.shown)

\* To a file, with -o.
DecodeWrite(f, a, out) ==
  LET result == DecodeResult(f, a) IN
  /\ Start /\ UNCHANGED encodes
  /\ IF result.status = "ok"
     THEN Open("decode", DecodeArgsOf(f, a), out, <<TextCell>>, result.shown, None)
     ELSE Exit("decode", DecodeArgsOf(f, a), result.status, <<>>)
          /\ UNCHANGED <<disk, origin>>
-----------------------------------------------------------------------------
\* A step of commands on these files, with these manifests and these flags of decode.
Step(files, manifests, flags) ==
  \/ \E m \in manifests, f \in files, dedup \in BOOLEAN : StartEncode(m, f, dedup)
  \/ ApplyEntry \/ RefusePayload \/ WriteOutput
  \/ WriteCell \/ FinishWrite \/ WriteFails \/ Kill
  \/ \E f \in files : Validate(f) \/ Stats(f)
  \/ \E f \in files, n \in {None} \cup 1 .. MaxShown : Inspect(f, n)
  \/ \E f \in files, a \in flags :
       DecodePrint(f, a) \/ (\E out \in files : DecodeWrite(f, a, out))

Next == Step(Files, Manifests, DecodeArgs)

Spec == Init /\ [][Next]_vars
-----------------------------------------------------------------------------
(* Properties.                                                             *)

\* part is the first cells of cells, some, all or none.
IsPartOf(part, cells) ==
  /\ part \in Seq({cells[i] : i \in DOMAIN cells}) /\ Len(part) <= Len(cells)
  /\ \A i \in DOMAIN part : part[i] = cells[i]

\* A running encode has only known names behind it, and priorities that are about a
\* block; a file that an encode opened holds a first part of what it was to be
\* (cmd_encode.rs, run), any other is as it was found, empty, or rendered text.
TypeOK ==
  /\ commands \in 0 .. MaxCommands /\ encodes \in 0 .. MaxEncodes
  /\ Encoding => \A i \in DOMAIN running.blocks :
       LET b == running.blocks[i] IN
       /\ HasByte(EnumOf[b.type], b.byte) # {}
       /\ IF b.type = "Annotation" THEN b.target \in 1 .. i - 1 ELSE b.target = None
  /\ \A f \in Files :
       IF origin[f] = None THEN disk[f] \in Foreign \cup {Missing, <<>>, <<TextCell>>}
       ELSE IsPartOf(disk[f], origin[f].cells)

\* All that an encode wrote to f is there, and nothing else.
Whole(f) == origin[f] # None /\ disk[f] = origin[f].cells

FileRead ==
  CASE last.cmd \in {"validate", "stats"} -> last.args
    [] last.cmd \in {"inspect", "decode"} -> last.args.file

Succeeded(cmds) == last.cmd \in cmds /\ last.exit = "ok"

\* Exit code 0 vouches for the file: of an encode that all of its payload is on the
\* disk, of a command that reads that what it read is all of what one encode wrote,
\* though an encode before it may have been killed or run out of space (fs::write).
SuccessMeansWhole ==
  /\ Succeeded({"encode"}) => Whole(last.args)
  /\ Succeeded({"validate", "inspect", "stats", "decode"}) =>
       origin[FileRead] = None \/ Whole(FileRead)

\* A command that fails for any other reason than writing its output leaves every file
\* as it was, but for an encode that only fails to print: all of its payload is on the
\* disk.  No command touches a file other than its output.
FailureLeavesFiles ==
  last # Nothing =>
    /\ last.exit \notin {"ok", "write", "killed", "stdout"} => disk = before
    /\ last.exit = "stdout" =>
         IF last.cmd = "encode" THEN Whole(last.args) ELSE disk = before
    /\ last.cmd \in {"validate", "inspect", "stats"} => disk = before
    /\ \A f, g \in Files : disk[f] # before[f] /\ disk[g] # before[g] => f = g

\* What the entry says of its summary and its priority, where that is read.
KeptSummary(entry) == IF entry.type \in WithMeta THEN entry.summary ELSE None
KeptPriority(entry) ==
  IF entry.type \in WithMeta /\ entry.priority # None
  THEN {Parse("Priority", entry.priority)} ELSE {}

\* inspect shows, entry by entry, the blocks of the manifest, each with its own
\* summary and with the annotation of its own priority aimed at it, whatever
\* annotations came in between (apply_meta).
MetaOnOwnBlock ==
  (Succeeded({"inspect"}) /\ last.args.block = None /\ origin[FileRead] # None) =>
    LET m == origin[FileRead].manifest
        b == last.shown
        own == Selected([i \in DOMAIN b |-> i], {i \in DOMAIN b : b[i].type # "Annotation"})
    IN  /\ Len(own) = Len(m)
        /\ \A k \in DOMAIN m :
             /\ b[own[k]].type = m[k].type
             /\ b[own[k]].summary = KeptSummary(m[k])
             /\ {b[i].variant : i \in {n \in DOMAIN b : b[n].target = own[k]}}
                  = KeptPriority(m[k])

\* decode shows the entries of the types it was asked for, in order, with their
\* contents, and names each by a name that means in a manifest what the entry's own
\* name means, default or alias, by way of its byte on the wire.
ShownAsWritten ==
  (Succeeded({"decode"}) /\ origin[FileRead] # None) =>
    LET a == last.args.flags
        types == IF a.include = None THEN DOMAIN EnumOf ELSE ParseIncludeTypes(a.include)
        entries == origin[FileRead].manifest
        m == Selected(entries, {i \in DOMAIN entries : entries[i].type \in types})
    IN  /\ Len(last.shown) = Len(m)
        /\ \A k \in DOMAIN m :
             LET piece == last.shown[k] IN
             /\ piece.type = m[k].type
             /\ piece.text = IF /\ ParseVerbosity(a.verbosity) = "Summary"
                                /\ piece.type = "Code" /\ m[k].summary # None
                             THEN m[k].summary ELSE ResolveContent(m[k])
             /\ piece.name # None =>
                  Parse(EnumOf[piece.type], piece.name) = Variant(m[k])

\* Two entries whose bodies are the same bytes.
SameBody(e, f) ==
  /\ e.type = f.type /\ Variant(e) = Variant(f) /\ KeptSummary(e) = KeptSummary(f)
  /\ ResolveContent(e) = ResolveContent(f)

Duplicates(o) ==
  o.dedup /\ \E i, j \in DOMAIN o.manifest : i < j /\ SameBody(o.manifest[i], o.manifest[j])

\* A whole file is refused in one case only: it was made with --dedup and there was
\* something to deduplicate (cmd_encode.rs, run: the store ends with the command).
RefusedForDuplicatesOnly ==
  (last.cmd = "validate" /\ last.exit # "stdout" /\ Whole(last.args)) =>
    last.exit = IF Duplicates(origin[last.args]) THEN "MissingContentStore" ELSE "ok"
-----------------------------------------------------------------------------
(* The inductive invariant.                                                *)

HasNote(entry) == entry.type \in WithMeta /\ entry.priority # None

BodyOf(entry) ==
  [type |-> entry.type, byte |-> ToWireByte[EnumOf[entry.type]][Variant(entry)],
   content |-> ResolveContent(entry), summary |-> KeptSummary(entry), target |-> None]

NoteFor(entry, target) ==
  [type |-> "Annotation", content |-> None, summary |-> None,
   byte |-> ToWireByte["Priority"][Parse("Priority", entry.priority)], target |-> target]

\* The blocks are those of the first n entries of m: the block of entry k is at own[k],
\* and right after it the annotation for it, if the entry has a priority.
Built(m, n, blocks, own) ==
  /\ own \in [1 .. n -> DOMAIN blocks]
  /\ \A j, k \in 1 .. n : j < k => own[j] < own[k]
  /\ \A k \in 1 .. n :
       /\ EntryFault(m[k]) = "none" /\ blocks[own[k]] = BodyOf(m[k])
       /\ HasNote(m[k]) => /\ own[k] + 1 \in DOMAIN blocks
                           /\ blocks[own[k] + 1] = NoteFor(m[k], own[k])
  /\ \A i \in DOMAIN blocks :
       \E k \in 1 .. n : own[k] = i \/ (HasNote(m[k]) /\ own[k] + 1 = i)

BuiltFrom(m, n, blocks) == \E own \in [1 .. n -> DOMAIN blocks] : Built(m, n, blocks, own)

\* The blocks in the cells of a file, and what makes the cells those of an encode.
BodiesOf(cells) == [i \in 1 .. Len(cells) - 2 |-> cells[i + 1].block]
MadeBy(o) ==
  LET blocks == BodiesOf(o.cells) IN
  /\ o \in Origin /\ Len(o.cells) > 2 /\ blocks \in Seq(Body)
  /\ o.cells = Encoded(blocks, o.dedup) /\ BuiltFrom(o.manifest, Len(o.manifest), blocks)

FilesKept ==
  /\ disk \in [Files -> {disk[f] : f \in Files}] /\ origin \in [Files -> Origin \cup {None}]
  /\ \A f \in Files : origin[f] # None => MadeBy(origin[f])

\* What a decode is to show of a file is what rendering the file gives.
Shows(args, shown) ==
  /\ args.file \in Files /\ args.flags \in DecodeArgs
  /\ origin[args.file] # None =>
       DecodeResult(args.file, args.flags) = [status |-> "ok", shown |-> shown]

RunningKept ==
  /\ running.cmd \in {"none", "encode", "write"} /\ (running.cmd = "none" => running = Nothing)
  /\ Encoding =>
       /\ running \in [cmd : {"encode"}, manifest : Parsed, out : Files, dedup : BOOLEAN,
                       at : Nat, blocks : Seq(Body)]
       /\ running.at <= Len(running.manifest)
       /\ BuiltFrom(running.manifest, running.at, running.blocks)
       /\ disk = before
  /\ Writing =>
       /\ running \in [cmd : {"write"}, for : {"encode", "decode"}, args : {running.args},
                       out : Files, cells : Seq(Cell), shown : {running.shown}]
       /\ IsPartOf(disk[running.out], running.cells)
       /\ \A f \in Files : f # running.out => disk[f] = before[f]
       /\ running.for = "encode" =>
            /\ running.args = running.out
            /\ origin[running.out] # None /\ origin[running.out].cells = running.cells
       /\ running.for = "decode" =>
            /\ origin[running.out] = None /\ running.cells = <<TextCell>>
            /\ Shows(running.args, running.shown)

\* What the last command said is true of the files as they are.
LastKept ==
  /\ last = Nothing \/ (running = Nothing /\ last.cmd \in {"encode", "decode", "validate", "inspect", "stats"})
  /\ Succeeded({"encode"}) => last.args \in Files /\ Whole(last.args)
  /\ last.cmd \in {"validate", "stats"} =>
       last.args \in Files /\ last.exit \in {"stdout", ReadFile(last.args).status}
  /\ last.cmd = "inspect" =>
       /\ last.args.file \in Files
       /\ last.exit # "stdout" =>
            /\ last.exit = ReadFile(last.args.file).status
            /\ last.args.block = None => last.shown = ReadFile(last.args.file).blocks
  /\ Succeeded({"decode"}) => Shows(last.args, last.shown)

IInv == TypeOK /\ FilesKept /\ RunningKept /\ LastKept /\ FailureLeavesFiles

=============================================================================
