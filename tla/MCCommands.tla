------------------------------ MODULE MCCommands ------------------------------
(***************************************************************************)
(* The commands on small manifests.                                        *)
(***************************************************************************)
EXTENDS Commands, SequencesExt

CONSTANTS hello, binary, huge, note   \* contents and a summary

MCSources == [notes |-> hello, photo |-> binary, dump |-> huge]

Entry(type, name, content, content_file, summary, priority) ==
  [type |-> type, name |-> name, content |-> content, content_file |-> content_file,
   summary |-> summary, priority |-> priority]

\* Every name of every enum, one that is none, and the default.
NamesFor(type) ==
  DOMAIN NamesOf[EnumOf[type]] \cup {"zig"}
    \cup IF type \in {"ToolResult", "Document"} THEN {None} ELSE {}
NamedEntries ==
  UNION {{Entry(type, name, hello, None, None, None) : name \in NamesFor(type)}
         : type \in DOMAIN EnumOf \ {"Annotation"}}

\* Entries that differ in what they say beside their names.
MixedEntries ==
  {Entry("Code", "ts", hello, None, note, "high"),
   Entry("Code", "ts", None, "notes", note, None),
   Entry("Conversation", "user", None, "photo", None, "background"),
   Entry("Document", None, hello, "gone", None, "urgent"),
   Entry("ToolResult", None, hello, None, note, "urgent"),
   Entry("StructuredData", "yml", None, "notes", note, "low"),
   Entry("Document", "md", None, "dump", None, None),
   Entry("Conversation", "tool", None, "gone", None, None)}

NameManifests == {<<e>> : e \in NamedEntries}
MixedManifests == SeqOf(MixedEntries, 3) \cup {Unparsed}

\* For several commands in a row: files that replace each other.
ShortManifests ==
  {<<Entry("Code", "rust", hello, None, note, "low")>>,
   <<Entry("Conversation", "user", hello, None, None, None),
     Entry("Conversation", "user", hello, None, None, None)>>,
   <<Entry("Conversation", "nobody", hello, None, None, None)>>}

Args(mode, verbosity, include) == [mode |-> mode, verbosity |-> verbosity, include |-> include]
AllArgs ==
  {Args("xml", "adaptive", None), Args("md", "summary", None), Args("minimal", "full", None),
   Args("xml", "full", <<"code", "">>), Args("xml", "full", <<"">>),
   Args("xml", "full", <<"code", "prose">>), Args("html", "full", None),
   Args("xml", "brief", None), Args("markdown", "adaptive", <<"toolresult", "document">>)}
PlainArgs == {Args("xml", "adaptive", None)}

\* Files of other producers: a language of a later version, a role that is none, and
\* bytes after END.
ForeignFile(type, byte, more) ==
  <<Header,
    [cell |-> "block", reference |-> FALSE,
     block |-> [type |-> type, byte |-> byte, content |-> hello, summary |-> None,
                target |-> None]],
    End>> \o more
ForeignFiles ==
  {ForeignFile("Code", 18, <<>>), ForeignFile("Conversation", 9, <<>>),
   ForeignFile("Document", 3, <<End>>)}
-----------------------------------------------------------------------------
\* Three kinds of behaviour, each with what makes its cases happen: every name of
\* every enum and every set of flags on one file; every mix of entries;
\* commands that replace each other's files.
MCManifests == NameManifests \cup MixedManifests \cup ShortManifests

Scenario(files, foreign, manifests, flags, most) ==
  [files |-> files, foreign |-> foreign, manifests |-> manifests, flags |-> flags,
   encodes |-> most[1], commands |-> most[2]]
Scenarios ==
  [names |-> Scenario({"a.bcp"}, ForeignFiles, NameManifests, AllArgs, <<1, 2>>),
   mixes |-> Scenario({"a.bcp"}, {}, MixedManifests, AllArgs, <<1, 2>>),
   rewrites |-> Scenario(Files, ForeignFiles, ShortManifests, PlainArgs, <<2, 4>>)]

VARIABLE scenario   \* which of them this behaviour is

MCInit ==
  /\ Init
  /\ scenario \in DOMAIN Scenarios
  /\ \A f \in Files :
       \/ disk[f] = Missing
       \/ f \in Scenarios[scenario].files /\ disk[f] \in Scenarios[scenario].foreign

MCNext ==
  LET s == Scenarios[scenario] IN
  /\ running = Nothing => commands < s.commands
  /\ Step(s.files, IF encodes < s.encodes THEN s.manifests ELSE {}, s.flags)
  /\ UNCHANGED scenario

MCSpec == MCInit /\ [][MCNext]_<<vars, scenario>>
=============================================================================
