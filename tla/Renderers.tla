------------------------------ MODULE Renderers ------------------------------
(***************************************************************************)
(* The three renderers and the placeholder line (bcp-driver, render_xml.rs,*)
(* render_markdown.rs, render_minimal.rs, placeholder.rs).  A piece of     *)
(* output is known by the fields it shows and the text it carries; how it  *)
(* is laid out is not.                                                     *)
(***************************************************************************)
EXTENDS Budget

Modes == {"Xml", "Markdown", "Minimal"}

\* Fields a producer fills with any text; the others are names of enum values.
FreeText ==
  {"path", "root_path", "tool_name", "title", "model", "alt_text", "namespace", "type_name"}

\* The fields beside the content that a renderer shows.
XmlFields(type, summarized) ==
  CASE type = "Code" -> {"lang", "path"}
    [] type = "Conversation" -> {"role"}
    [] type = "FileTree" -> {"root_path"}
    [] type = "ToolResult" -> {"tool_name", "status"}
    [] type = "Document" -> {"title", "format_hint"}
    [] type = "StructuredData" -> {"format"}
    [] type = "Diff" -> {"path"}
    [] type = "EmbeddingRef" -> {"model"}
    [] type = "Image" -> {"media_type", "alt_text"}
    [] type = "Extension" -> {"namespace", "type_name"}
    [] type = "Unknown" -> {"type_id"}

\* The summary of code is no code, so its language is not named.
MarkdownFields(type, summarized) ==
  IF type = "Code" /\ summarized THEN {"path"} ELSE XmlFields(type, summarized)

MinimalFields(type, summarized) ==
  IF type = "Document" THEN {"title"} ELSE XmlFields(type, summarized)

Fields(mode, type, summarized) ==
  CASE mode = "Xml" -> XmlFields(type, summarized)
    [] mode = "Markdown" -> MarkdownFields(type, summarized)
    [] mode = "Minimal" -> MinimalFields(type, summarized)

\* The renderers look at a summary for code only.
Summarized(b, use_summary) == use_summary /\ HasSummary(b) /\ b.type = "Code"

\* Mutation: the content is read even when the summary is shown.
InvalidContentAnyway(b, use_summary) == b.type \in StrictTypes /\ ~b.utf8

\* content_to_string fails, where it is called.
InvalidContent(b, use_summary) ==
  b.type \in StrictTypes /\ ~b.utf8 /\ ~Summarized(b, use_summary)

\* render_block_inner: free text is escaped where it becomes an attribute of XML.
RenderInner(mode, b, use_summary) ==
  LET summarized == Summarized(b, use_summary) IN
  [shows |-> IF summarized THEN "summary" ELSE "content",
   type |-> b.type, fields |-> Fields(mode, b.type, summarized),
   escaped |-> mode = "Xml", tokens |-> 0]

\* render_placeholder: the description is put in as it is.
RenderPlaceholder(d) ==
  [shows |-> Label(d.of), type |-> d.of, fields |-> Description(d.of),
   escaped |-> FALSE, tokens |-> d.omitted]

\* What one block with its decision adds to the output.
RenderItem(mode, b, d) ==
  CASE d.render = "Full" -> RenderInner(mode, b, FALSE)
    [] d.render = "Summary" -> RenderInner(mode, b, TRUE)
    [] d.render = "Placeholder" -> RenderPlaceholder(d)

\* render_all and render_block, the path without decisions: every block, by its
\* summary if it has one, up to the first that fails.
RenderAll(mode, blocks) ==
  LET bad == {i \in DOMAIN blocks : InvalidContent(blocks[i], TRUE)} IN
  IF bad # {}
  THEN [status |-> "InvalidContent", parts |-> <<>>]
  ELSE [status |-> "ok",
        parts |-> [i \in DOMAIN blocks |-> RenderInner(mode, blocks[i], TRUE)]]
=============================================================================
