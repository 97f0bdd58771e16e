-------------------------------- MODULE Names --------------------------------
(***************************************************************************)
(* The names people use for enum values and the bytes the wire uses: what  *)
(* a manifest or a flag may say (bcp-cli), the wire byte (bcp-types,       *)
(* enums.rs), and the name an output shows (bcp-driver, render_xml.rs).    *)
(* A variant is known by its Rust name.  The parsers ignore case, so only  *)
(* lower-case names are given here.                                        *)
(***************************************************************************)
EXTENDS Naturals, Sequences

CONSTANT NotAName    \* what a parser makes of anything else

\* The enum whose value the type of a block carries.
EnumOf == [Code |-> "Lang", Conversation |-> "Role", ToolResult |-> "Status",
           Document |-> "FormatHint", StructuredData |-> "DataFormat",
           Annotation |-> "Priority"]
-----------------------------------------------------------------------------
(* Wire bytes.                                                             *)

LangByte ==
  [Rust |-> 1, TypeScript |-> 2, JavaScript |-> 3, Python |-> 4, Go |-> 5, Java |-> 6,
   C |-> 7, Cpp |-> 8, Ruby |-> 9, Shell |-> 10, Sql |-> 11, Html |-> 12, Css |-> 13,
   Json |-> 14, Yaml |-> 15, Toml |-> 16, Markdown |-> 17, Unknown |-> 255]

ToWireByte == [
  Lang |-> LangByte,
  Role |-> [System |-> 1, User |-> 2, Assistant |-> 3, Tool |-> 4],
  Status |-> [Ok |-> 1, Error |-> 2, Timeout |-> 3],
  FormatHint |-> [Markdown |-> 1, Plain |-> 2, Html |-> 3],
  DataFormat |-> [Json |-> 1, Yaml |-> 2, Toml |-> 3, Csv |-> 4],
  Priority |-> [Critical |-> 1, High |-> 2, Normal |-> 3, Low |-> 4, Background |-> 5]]

Variants(enum) == DOMAIN ToWireByte[enum]
HasByte(enum, byte) == {v \in Variants(enum) : ToWireByte[enum][v] = byte}

\* Mutation: the bytes of the named variants start at zero.
FromWireByteZeroBased(enum, byte) ==
  IF HasByte(enum, byte + 1) # {} THEN CHOOSE v \in HasByte(enum, byte + 1) : TRUE
  ELSE IF enum = "Lang" THEN "Other"
  ELSE NotAName

\* Only Lang has a variant for the bytes it does not name.
FromWireByte(enum, byte) ==
  IF HasByte(enum, byte) # {} THEN CHOOSE v \in HasByte(enum, byte) : TRUE
  ELSE IF enum = "Lang" THEN "Other"
  ELSE NotAName

\* What stands for an error is none of the variants.
ASSUME NamesAssumption ==
  NotAName # "Other" /\ \A enum \in DOMAIN ToWireByte : NotAName \notin Variants(enum)
-----------------------------------------------------------------------------
(* Names in an output.                                                     *)

DisplayName == [
  Lang |-> [Rust |-> "rust", TypeScript |-> "typescript", JavaScript |-> "javascript",
            Python |-> "python", Go |-> "go", Java |-> "java", C |-> "c", Cpp |-> "cpp",
            Ruby |-> "ruby", Shell |-> "shell", Sql |-> "sql", Html |-> "html",
            Css |-> "css", Json |-> "json", Yaml |-> "yaml", Toml |-> "toml",
            Markdown |-> "markdown", Unknown |-> "text", Other |-> "text"],
  Role |-> [System |-> "system", User |-> "user", Assistant |-> "assistant", Tool |-> "tool"],
  Status |-> [Ok |-> "ok", Error |-> "error", Timeout |-> "timeout"],
  FormatHint |-> [Markdown |-> "markdown", Plain |-> "plain", Html |-> "html"],
  DataFormat |-> [Json |-> "json", Yaml |-> "yaml", Toml |-> "toml", Csv |-> "csv"]]
-----------------------------------------------------------------------------
(* Names in a manifest and in flags.                                       *)

PlainLangNames ==
  [rust |-> "Rust", typescript |-> "TypeScript", ts |-> "TypeScript",
   javascript |-> "JavaScript", js |-> "JavaScript", python |-> "Python", py |-> "Python",
   go |-> "Go", java |-> "Java", c |-> "C", cpp |-> "Cpp", ruby |-> "Ruby", rb |-> "Ruby",
   shell |-> "Shell", sh |-> "Shell", bash |-> "Shell", sql |-> "Sql", html |-> "Html",
   css |-> "Css", json |-> "Json", yaml |-> "Yaml", yml |-> "Yaml", toml |-> "Toml",
   markdown |-> "Markdown", md |-> "Markdown"]
LangNames ==
  [name \in DOMAIN PlainLangNames \cup {"c++"} |->
     IF name = "c++" THEN "Cpp" ELSE PlainLangNames[name]]

NamesOf == [
  Lang |-> LangNames,
  Role |-> [system |-> "System", user |-> "User", assistant |-> "Assistant", tool |-> "Tool"],
  Status |-> [ok |-> "Ok", error |-> "Error", err |-> "Error", timeout |-> "Timeout"],
  FormatHint |-> [markdown |-> "Markdown", md |-> "Markdown", plain |-> "Plain",
                  text |-> "Plain", txt |-> "Plain", html |-> "Html"],
  DataFormat |-> [json |-> "Json", yaml |-> "Yaml", yml |-> "Yaml", toml |-> "Toml",
                  csv |-> "Csv"],
  Priority |-> [critical |-> "Critical", high |-> "High", normal |-> "Normal", low |-> "Low",
                background |-> "Background"]]

ParseIn(table, name) == IF name \in DOMAIN table THEN table[name] ELSE NotAName

\* parse_lang, parse_role, parse_status, parse_format_hint, parse_data_format and
\* parse_priority: a language nobody knows is Unknown, any other such name an error.
Parse(enum, name) ==
  IF enum = "Lang" /\ name \notin DOMAIN LangNames THEN "Unknown"
  ELSE ParseIn(NamesOf[enum], name)

ModeNames == [xml |-> "Xml", markdown |-> "Markdown", md |-> "Markdown", minimal |-> "Minimal"]
VerbosityNames == [full |-> "Full", summary |-> "Summary", adaptive |-> "Adaptive"]

ParseOutputMode(name) == ParseIn(ModeNames, name)
ParseVerbosity(name) == ParseIn(VerbosityNames, name)

BlockTypeNames ==
  [code |-> "Code", conversation |-> "Conversation", file_tree |-> "FileTree",
   filetree |-> "FileTree", tool_result |-> "ToolResult", toolresult |-> "ToolResult",
   document |-> "Document", structured_data |-> "StructuredData",
   structureddata |-> "StructuredData", diff |-> "Diff", annotation |-> "Annotation",
   embedding_ref |-> "EmbeddingRef", embeddingref |-> "EmbeddingRef", image |-> "Image",
   extension |-> "Extension"]

\* parse_include_types, of the tokens between the commas: empty ones are dropped, and
\* one that is no name of a type refuses the list.
ParseIncludeTypes(tokens) ==
  LET named == {i \in DOMAIN tokens : tokens[i] # ""}
      types == {ParseIn(BlockTypeNames, tokens[i]) : i \in named}
  IN  IF NotAName \in types THEN NotAName ELSE types
=============================================================================
