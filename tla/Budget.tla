-------------------------------- MODULE Budget --------------------------------
(***************************************************************************)
(* What the budget engine (bcp-driver, budget.rs) knows of one block: its  *)
(* estimated costs, its priority, and the placeholder that can stand for   *)
(* it.  A text is known by its length and by its lines, since that is what *)
(* an estimate depends on.                                                 *)
(***************************************************************************)
EXTENDS Integers, Sequences

CONSTANT NoText     \* the summary of a block that has none

Text == [bytes : Nat, lines : Nat, indented : Nat]

\* Types whose content must be UTF-8 to be rendered.
StrictTypes ==
  {"Code", "Conversation", "ToolResult", "Document", "StructuredData", "Image", "Extension"}
ContentTypes == StrictTypes \cup {"FileTree", "Diff", "EmbeddingRef", "Unknown"}

\* `text` is what the renderers extract: the content, the hunks of a diff, the lines
\* of a file tree, "embedding: <model>".
ContentBlock ==
  [type : ContentTypes, text : Text, utf8 : BOOLEAN, summary : Text \cup {NoText}]
EndBlock == [type : {"End"}]
\* A target is the position of a block in the stream; the code counts from 0.
AnnotationBlock ==
  [type : {"Annotation"}, kind : {"Priority", "Summary", "Tag"}, target : Nat, value : Seq(Nat)]

Block == ContentBlock \cup EndBlock \cup AnnotationBlock
-----------------------------------------------------------------------------
(* Estimates.                                                              *)

CodeLike(text) == text.lines > 0 /\ (text.indented * 100) \div text.lines > 30

\* More than nothing costs at least one token.
AtLeastOne(n) == IF n < 1 THEN 1 ELSE n

\* CodeAwareEstimator, the estimator of DefaultDriver.
Estimate(text) ==
  IF text.bytes = 0 THEN 0
  ELSE AtLeastOne(text.bytes \div (IF CodeLike(text) THEN 3 ELSE 4))

\* A run of x's stands for bytes that are no text.
EstimatedText(b) ==
  IF b.type = "Unknown" \/ (b.type \in StrictTypes /\ ~b.utf8)
  THEN [bytes |-> b.text.bytes, lines |-> 1, indented |-> 0]
  ELSE b.text

PLACEHOLDER_TOKEN_COST == 10

\* Rust's saturating_sub.
SaturatingSub(a, b) == IF b <= a THEN a - b ELSE 0
-----------------------------------------------------------------------------
(* Priorities, as the bytes they are on the wire and in the order of use.  *)

Critical == 1
High == 2
Normal == 3
Low == 4
Background == 5
Priorities == Critical .. Background

\* The annotation is one of priority and its first byte is one.
SetsPriority(b) ==
  /\ b.type = "Annotation" /\ b.kind = "Priority"
  /\ Len(b.value) > 0 /\ b.value[1] \in Priorities

FullTokens(b) == Estimate(EstimatedText(b))
HasSummary(b) == b.summary # NoText
SummaryTokens(b) == IF HasSummary(b) THEN Estimate(b.summary) ELSE 0
-----------------------------------------------------------------------------
(* Placeholders.                                                           *)

Label(type) ==
  CASE type = "Code" -> "code"
    [] type = "Conversation" -> "conversation"
    [] type = "FileTree" -> "file-tree"
    [] type = "ToolResult" -> "tool-result"
    [] type = "Document" -> "document"
    [] type = "StructuredData" -> "data"
    [] type = "Diff" -> "diff"
    [] type = "Image" -> "image"
    [] type = "Extension" -> "extension"
    [] OTHER -> "block"

\* The fields that describe a block.
Description(type) ==
  CASE type \in {"Code", "Diff"} -> {"path"}
    [] type = "Conversation" -> {"role"}
    [] type = "FileTree" -> {"root_path"}
    [] type = "ToolResult" -> {"tool_name"}
    [] type = "Document" -> {"title"}
    [] type = "StructuredData" -> {"format"}
    [] type = "EmbeddingRef" -> {"model"}
    [] type = "Image" -> {"alt_text"}
    [] type = "Extension" -> {"namespace", "type_name"}
    [] type = "Unknown" -> {"type_id"}

\* RenderDecision: Full, Summary, Omit, or a placeholder with the type whose label
\* and description it will show.
Plain(render) == [render |-> render]
MakePlaceholder(b) ==
  [render |-> "Placeholder", of |-> b.type, omitted |-> FullTokens(b)]

Decision ==
  [render : {"Full", "Summary", "Omit"}]
    \cup [render : {"Placeholder"}, of : ContentTypes, omitted : Nat]
=============================================================================
