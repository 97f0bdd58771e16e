-------------------------- MODULE MCBlockRoundTrip --------------------------
(***************************************************************************)
(* BlockRoundTrip with digits 0 .. 7, words 0 .. 127, bytes (as u8) of 4   *)
(* bits and shorts (as u32) of 5.                                          *)
(*                                                                         *)
(* Two blocks of each type: one with the least in it, one with optional    *)
(* fields, several list elements, numbers of two bytes and content that    *)
(* looks like fields; some have a summary.                                 *)
(***************************************************************************)
EXTENDS BlockRoundTrip

\* Bound: fields and scraps in a body that nobody meant.
MaxScraps == 4

MCUntyped == {"End", "Unknown"}

B(t, value) == [type |-> t, summary |-> None, value |-> value]
S(t, text, value) == [type |-> t, summary |-> text, value |-> value]

\* A name, a text with a replacement character, content that is no text, content that
\* reads like a field.
n == <<1>>
m == <<2, Replacement>>
x == <<9>>
y == <<1, 0, 1>>

File(name, size) == <<name, 0, size, <<>>>>
Dir(name, children) == <<name, 1, 0, children>>

MCBlocks ==
  <<B("Code", <<1, n, y, None, None>>), S("Code", m, <<15, m, x, 9, 31>>),
    B("Conversation", <<1, x, None>>), S("Conversation", n, <<4, y, m>>),
    B("FileTree", <<n, <<>>>>),
    S("FileTree", <<>>, <<m, <<Dir(n, <<File(m, 127), File(n, 0)>>), File(<<>>, 8)>>>>),
    B("ToolResult", <<n, 3, x, None>>), B("ToolResult", <<m, 1, y, n>>),
    B("Document", <<n, x, 1>>), B("Document", <<m, y, 3>>),
    B("StructuredData", <<1, None, x>>), B("StructuredData", <<4, m, y>>),
    B("Diff", <<n, <<>>>>), S("Diff", m, <<m, <<<<1, 31, x>>, <<8, 9, y>>>>>>),
    B("Annotation", <<0, 1, x>>), B("Annotation", <<31, 3, y>>),
    B("EmbeddingRef", <<x, y, n>>), B("EmbeddingRef", <<y, x, m>>),
    B("Image", <<1, n, x>>), S("Image", <<1, 1, 1>>, <<5, m, y>>),
    B("Extension", <<n, m, x>>), B("Extension", <<m, n, y>>),
    B("End", <<>>), S("Unknown", n, y)>>

\* One unknown field of each wire type.
MCUnknownFields ==
  {[id |-> 6, wireType |-> Scalar, payload |-> 12], [id |-> 9, wireType |-> Bytes, payload |-> <<1, 0>>],
   [id |-> 7, wireType |-> Nested, payload |-> <<1, 0, 9>>]}

\* Fields of other types, fields whose numbers are too large, and the start of one.
Scraps ==
  {EncodeVarintField(1, 17), EncodeVarintField(2, 1), EncodeVarintField(3, 34),
   EncodeVarintField(4, 40), EncodeBytesField(1, <<9>>), EncodeBytesField(2, <<>>),
   EncodeBytesField(3, <<1, 1>>), EncodeNestedField(2, <<1, 1, 0, 2, 0, 1>>), <<1>>}

MCNoise == {FlattenSeq(s) : s \in UNION {[1 .. k -> Scraps] : k \in 0 .. MaxScraps}}
=============================================================================
