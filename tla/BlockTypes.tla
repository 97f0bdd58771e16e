----------------------------- MODULE BlockTypes -----------------------------
(***************************************************************************)
(* The typed bodies of blocks: which fields a block of each type has, what *)
(* each field holds, and what a decoder makes of its payload.              *)
(*                                                                         *)
(* The value of a block is the tuple of its fields, indexed by field id;   *)
(* an Option that is None is the value None, a repeated field is a         *)
(* sequence.  All decode_body methods are the same loop over a schema.     *)
(***************************************************************************)
EXTENDS Fields

CONSTANTS
  None,         \* Option::None
  ByteWidth,    \* 2^8: what "as u8" leaves of a word
  ShortWidth,   \* 2^32: what "as u32" leaves
  Replacement   \* the byte that stands for U+FFFD in a text

\* None is no value of another type; a byte has room for the variants of every enum, and
\* bytes and shorts are words.
ASSUME BlockTypesAssumption ==
  /\ None \notin Int /\ None \notin Seq(Byte)
  /\ ByteWidth \in 6 .. Word /\ ShortWidth \in 1 .. Word
  /\ Replacement \in Byte

\* A schema: for each field id the kind of its payload and whether the block must
\* have it.  Enums carry the number of their variants, which are numbered from 1;
\* lists the schema of their elements.
Required(kind) == [kind |-> kind, required |-> TRUE, arg |-> 0]
Optional(kind) == [kind |-> kind, required |-> FALSE, arg |-> 0]
Enum(variants) == [kind |-> "enum", required |-> TRUE, arg |-> variants]
ListOf(type) == [kind |-> "list", required |-> FALSE, arg |-> type]

\* lang, path, content, line_start, line_end.  Lang takes any byte.
CodeFields == <<Required("u8"), Required("text"), Required("bytes"),
                Optional("u32"), Optional("u32")>>

\* role, content, tool_call_id.
ConversationFields == <<Enum(4), Required("bytes"), Optional("text")>>

\* root_path, entries.
FileTreeFields == <<Required("text"), ListOf("FileEntry")>>

\* name, kind, size (zero when missing), children.
FileEntryFields == <<Required("text"), Required("entry_kind"), Required("size"),
                     ListOf("FileEntry")>>

\* tool_name, status, content, schema_hint.
ToolResultFields == <<Required("text"), Enum(3), Required("bytes"), Optional("text")>>

\* title, content, format_hint.
DocumentFields == <<Required("text"), Required("bytes"), Enum(3)>>

\* format, schema, content.
StructuredDataFields == <<Enum(4), Optional("text"), Required("bytes")>>

\* path, hunks.
DiffFields == <<Required("text"), ListOf("DiffHunk")>>

\* old_start, new_start, lines.
DiffHunkFields == <<Required("u32"), Required("u32"), Required("bytes")>>

\* target_block_id, kind, value.
AnnotationFields == <<Required("u32"), Enum(3), Required("bytes")>>

\* vector_id, source_hash, model.
EmbeddingRefFields == <<Required("bytes"), Required("bytes"), Required("text")>>

\* media_type, alt_text, data.
ImageFields == <<Enum(5), Required("text"), Required("bytes")>>

\* namespace, type_name, content.
ExtensionFields == <<Required("text"), Required("text"), Required("bytes")>>

Schema == [
  Code           |-> CodeFields,
  Conversation   |-> ConversationFields,
  FileTree       |-> FileTreeFields,
  FileEntry      |-> FileEntryFields,
  ToolResult     |-> ToolResultFields,
  Document       |-> DocumentFields,
  StructuredData |-> StructuredDataFields,
  Diff           |-> DiffFields,
  DiffHunk       |-> DiffHunkFields,
  Annotation     |-> AnnotationFields,
  EmbeddingRef   |-> EmbeddingRefFields,
  Image          |-> ImageFields,
  Extension      |-> ExtensionFields]

FieldIds(type) == DOMAIN Schema[type]
-----------------------------------------------------------------------------
(* The payload of a field.                                                 *)

IsNumber(kind) == kind \in {"u8", "enum", "entry_kind", "size", "u32"}

\* String::from_utf8_lossy: a byte that is no character becomes the replacement
\* character, and everything else, that character included, stays.
Lossy(data) == [i \in 1 .. Len(data) |-> IF data[i] < Base THEN data[i] ELSE Replacement]

\* What a field can hold, given the values of the blocks nested in it: a String holds
\* UTF-8.
Texts == {s \in Seq(Byte) : Lossy(s) = s}

PlainValues(field) ==
  CASE field.kind = "u8"         -> 0 .. ByteWidth - 1
    [] field.kind = "enum"       -> 1 .. field.arg
    [] field.kind = "entry_kind" -> {0, 1}
    [] field.kind = "u32"        -> 0 .. ShortWidth - 1
    [] field.kind = "size"       -> 0 .. Word - 1
    [] field.kind = "text"       -> Texts
    [] field.kind = "bytes"      -> Seq(Byte)

FieldValues(field, nested) ==
  IF field.kind = "list" THEN Seq(nested[field.arg])
  ELSE IF field.required THEN PlainValues(field)
  ELSE {None} \cup PlainValues(field)

Tuples(s, nested) ==
  CASE Len(s) = 2 -> FieldValues(s[1], nested) \X FieldValues(s[2], nested)
    [] Len(s) = 3 -> FieldValues(s[1], nested) \X FieldValues(s[2], nested)
                       \X FieldValues(s[3], nested)
    [] Len(s) = 4 -> FieldValues(s[1], nested) \X FieldValues(s[2], nested)
                       \X FieldValues(s[3], nested) \X FieldValues(s[4], nested)
    [] Len(s) = 5 -> FieldValues(s[1], nested) \X FieldValues(s[2], nested)
                       \X FieldValues(s[3], nested) \X FieldValues(s[4], nested)
                       \X FieldValues(s[5], nested)

\* The values of each type in which blocks are nested less than n deep.  A line range
\* has both its ends or is None.
Values[n \in Nat] ==
  [t \in DOMAIN Schema |->
     IF n = 0 THEN {}
     ELSE {v \in Tuples(Schema[t], Values[n - 1]) :
             t = "Code" => (v[4] = None <=> v[5] = None)}]

\* A nested block is three bytes shorter than the one it is in, and lengths are words.
Depth == Word \div 3 + 1

IsBlock(t, value) == value \in Values[Depth][t]

\* Summary::encode and Summary::decode.  The end of the text is computed without a check
\* for overflow: past the largest word the sum panics or wraps around, by the build, and
\* a range that ends before it starts is out of bounds like one that is too long.
EncodeSummary(text) == EncodeVarint[Len(text)] \o text

DecodeSummary(buf) ==
  LET len == DecodeVarint(buf) IN
  IF Failed(len) THEN len
  ELSE IF len.n + len.value > Len(buf) THEN Err("UnexpectedEof")
  ELSE Ok(Lossy(SubSeq(buf, len.n + 1, len.n + len.value)), len.n + len.value)

\* Which payloads a field refuses, once it has read them: an enum looks at the low
\* byte, FileEntryKind at the whole word.
Refuses(field, payload) ==
  \/ field.kind = "enum" /\ payload % ByteWidth \notin 1 .. field.arg
  \/ field.kind = "entry_kind" /\ payload \notin {0, 1}

\* What a field keeps of a payload it accepts.
Accepted(field, payload) ==
  CASE field.kind \in {"u8", "enum"}         -> payload % ByteWidth
    [] field.kind = "u32"                    -> payload % ShortWidth
    [] field.kind = "text"                   -> Lossy(payload)
    [] field.kind \in {"entry_kind", "size", "bytes"} -> payload

\* The fields before any is read.
Blank(type) ==
  [id \in FieldIds(type) |->
     CASE Schema[type][id].kind = "list" -> <<>>
       [] Schema[type][id].kind = "size" -> 0
       [] OTHER                          -> None]

Missing(type, fields) ==
  \E id \in FieldIds(type) : Schema[type][id].required /\ fields[id] = None

\* The block made of the fields read.  A line range needs both its ends.
Assembled(type, fields) ==
  IF type = "Code" /\ None \in {fields[4], fields[5]}
  THEN [fields EXCEPT ![4] = None, ![5] = None] ELSE fields
=============================================================================
