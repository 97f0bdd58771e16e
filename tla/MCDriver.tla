------------------------------- MODULE MCDriver -------------------------------
(***************************************************************************)
(* Driver on small streams.  Four bytes of prose or three of code are one  *)
(* token; the budgets are between one small block and all of them.         *)
(***************************************************************************)
EXTENDS Driver, SequencesExt

Configurations(modes, includes, budgets, verbosities) ==
  [mode : modes, include : includes, budget : budgets, verbosity : verbosities]

Prose(n) == [bytes |-> n, lines |-> 2, indented |-> 0]
Source(n) == [bytes |-> n, lines |-> 3, indented |-> 1]

Content(type, text, utf8, summary) ==
  [type |-> type, text |-> text, utf8 |-> utf8, summary |-> summary]
Note(kind, target, value) ==
  [type |-> "Annotation", kind |-> kind, target |-> target, value |-> value]
End == [type |-> "End"]

\* 8 tokens, or 2 by its summary; 5 tokens; 3, or 4 by a summary longer than the text.
code == Content("Code", Source(24), TRUE, Prose(8))
tool == Content("ToolResult", Prose(20), TRUE, NoText)
doc == Content("Document", Prose(12), TRUE, Prose(16))

\* Up to three blocks, then up to two annotations for any of them.
BudgetInputs ==
  LET notes == {Note("Priority", t, <<p>>) : t \in 1 .. 3, p \in Priorities} IN
  {blocks \o after : blocks \in SeqOf({code, tool, doc}, 3) \ {<<>>},
                     after \in SeqOf(notes, 2)}
BudgetConfigs == Configurations({"Xml"}, {AllTypes}, {4, 9, 13, 24}, {"Adaptive"})

\* Annotations of every kind and value anywhere among blocks that differ in what
\* can be read and summarized.
binary == Content("Code", Prose(9), FALSE, Prose(3))
image == Content("Image", Prose(40), FALSE, Prose(8))
diff == Content("Diff", Prose(0), FALSE, NoText)
MixedNotes ==
  {Note("Priority", t, <<p>>) : t \in {1, 2}, p \in {High, Low, Background, 9}}
    \cup {Note("Priority", 1, <<>>), Note("Tag", 2, <<Critical>>)}
MixedInputs == SeqOf({binary, image, diff, End} \cup MixedNotes, 3)
MixedConfigs ==
  Configurations({"Xml", "Minimal"}, {AllTypes, {"Code", "Diff"}}, {NoBudget, 2, 11}, {"Adaptive"})

\* One block of every type, in pairs.
EveryType ==
  {Content(type, Source(6), utf8, summary) :
     type \in ContentTypes, utf8 \in BOOLEAN, summary \in {NoText, Prose(4)}}
TypeInputs == SeqOf(EveryType, 2)
TypeConfigs ==
  Configurations(Modes, {AllTypes}, {NoBudget, 1, 5}, {"Full", "Summary", "Adaptive"})

\* The calls of the run: streams of each kind, with the configurations that tell them
\* apart.
MCInputs == BudgetInputs \cup MixedInputs \cup TypeInputs
MCConfigs == BudgetConfigs \cup MixedConfigs \cup TypeConfigs
MCInit ==
  /\ Init
  /\ \/ stream \in BudgetInputs /\ config \in BudgetConfigs
     \/ stream \in MixedInputs /\ config \in MixedConfigs
     \/ stream \in TypeInputs /\ config \in TypeConfigs

MCSpec == MCInit /\ [][Next]_vars
=============================================================================
