-------------------------------- MODULE Driver --------------------------------
(***************************************************************************)
(* One call of DefaultDriver::render (bcp-driver, driver.rs): filter the   *)
(* blocks, decide how each is rendered, if need be with the budget engine  *)
(* (budget.rs), and render.  A step handles one block of one loop.         *)
(***************************************************************************)
EXTENDS Renderers

CONSTANTS
  Inputs,      \* the streams of blocks a caller may pass
  Configs,     \* and the configurations
  AllTypes,    \* include_types when it is not set
  NoBudget     \* token_budget when it is not set

Config ==
  [mode : Modes, include : SUBSET (ContentTypes \cup {"End", "Annotation"}) \cup {AllTypes},
   budget : Nat \cup {NoBudget}, verbosity : {"Full", "Summary", "Adaptive"}]

ASSUME DriverInputs == Inputs \subseteq Seq(Block) /\ Configs \subseteq Config
ASSUME DriverMarks == NoBudget \notin Nat /\ NoText \notin Text

VARIABLES
  stream, config,     \* the arguments
  pc,                 \* the loop the call is in
  at,                 \* blocks of the stream, or of the filtered ones, that it has seen
  original,           \* original_indices: the filtered blocks' positions in the stream
  priorities,         \* the map of resolve_priorities: positions to priorities
  pending,            \* filtered blocks the allocation has not reached
  remaining,          \* budget left
  decisions,          \* one for each filtered block
  parts,              \* output, and (a ghost) the position of the block each piece is for
  result

args == <<stream, config>>
engine == <<priorities, pending, remaining, decisions>>
vars == <<args, pc, at, original, engine, parts, result>>

Init ==
  /\ stream \in Inputs
  /\ config \in Configs
  /\ pc = "filter" /\ at = 0
  /\ original = <<>>
  /\ priorities = [p \in {} |-> Normal]
  /\ pending = {} /\ remaining = 0 /\ decisions = <<>>
  /\ parts = <<>> /\ result = "none"

Filtered == DOMAIN original
FilteredBlock(k) == stream[original[k]]
NoFiltered == Len(original) = 0

Return(r) ==
  /\ pc' = "done" /\ result' = r
  /\ UNCHANGED <<args, at, original, engine, parts>>

Goto(loop) == pc' = loop /\ at' = 0
-----------------------------------------------------------------------------
(* Filter.                                                                 *)

Renderable(b) ==
  /\ b.type \notin {"Annotation", "End"}
  /\ config.include = AllTypes \/ b.type \in config.include

Filter ==
  /\ pc = "filter" /\ at < Len(stream)
  /\ at' = at + 1
  /\ original' = IF Renderable(stream[at + 1]) THEN Append(original, at + 1) ELSE original
  /\ UNCHANGED <<args, pc, engine, parts, result>>

NothingLeft ==
  /\ pc = "filter" /\ at = Len(stream) /\ NoFiltered
  /\ Return("EmptyInput")

AfterFilter == pc = "filter" /\ at = Len(stream) /\ ~NoFiltered
-----------------------------------------------------------------------------
(* Decide.                                                                 *)

\* Without the engine: summaries where there are any, or everything in full.
Decide(d) ==
  /\ decisions' = d
  /\ Goto("render")
  /\ UNCHANGED <<args, original, priorities, pending, remaining, parts, result>>

\* Mutation: the condition is inverted.
DecideSummariesInverted ==
  /\ AfterFilter /\ config.verbosity = "Summary"
  /\ Decide([k \in Filtered |->
               Plain(IF HasSummary(FilteredBlock(k)) THEN "Full" ELSE "Summary")])

DecideSummaries ==
  /\ AfterFilter /\ config.verbosity = "Summary"
  /\ Decide([k \in Filtered |->
               Plain(IF HasSummary(FilteredBlock(k)) THEN "Summary" ELSE "Full")])

DecideFull ==
  /\ AfterFilter
  /\ config.verbosity = "Full" \/ (config.verbosity = "Adaptive" /\ config.budget = NoBudget)
  /\ Decide([k \in Filtered |-> Plain("Full")])

\* compute_budget_decisions.
BeginBudget ==
  /\ AfterFilter /\ config.verbosity = "Adaptive" /\ config.budget # NoBudget
  /\ Goto("resolve")
  /\ UNCHANGED <<args, original, engine, parts, result>>
-----------------------------------------------------------------------------
(* resolve_priorities, over all blocks of the stream.                      *)

Resolve ==
  /\ pc = "resolve" /\ at < Len(stream)
  /\ LET b == stream[at + 1] IN
       priorities' = IF SetsPriority(b)
                     THEN [p \in DOMAIN priorities \cup {b.target} |->
                             IF p = b.target THEN b.value[1] ELSE priorities[p]]
                     ELSE priorities
  /\ at' = at + 1
  /\ UNCHANGED <<args, pc, original, pending, remaining, decisions, parts, result>>

BeginAllocate ==
  /\ pc = "resolve" /\ at = Len(stream)
  /\ Goto("allocate")
  /\ pending' = Filtered
  /\ remaining' = config.budget
  /\ decisions' = [k \in Filtered |-> Plain("Omit")]
  /\ UNCHANGED <<args, original, priorities, parts, result>>
-----------------------------------------------------------------------------
(* allocate_budget.  The infos of scan_blocks are operators here: nothing  *)
(* they depend on changes any more.                                        *)

\* Mutation: the priorities are looked up by the position among the filtered blocks.
PriorityByFiltered(k) == IF k \in DOMAIN priorities THEN priorities[k] ELSE Normal

Priority(k) ==
  IF original[k] \in DOMAIN priorities THEN priorities[original[k]] ELSE Normal

Full(k) == FullTokens(FilteredBlock(k))
Short(k) == SummaryTokens(FilteredBlock(k))

FullFits(k) == Full(k) <= remaining
SummaryFits(k) == HasSummary(FilteredBlock(k)) /\ Short(k) <= remaining

\* Mutation: the blocks are not sorted.
SoonerByPosition(j, k) == j <= k

\* Mutation: the sort is not stable.
SoonerUnstable(j, k) == Priority(j) < Priority(k) \/ (Priority(j) = Priority(k) /\ j >= k)

\* The order of the stable sort.
Sooner(j, k) == Priority(j) < Priority(k) \/ (Priority(j) = Priority(k) /\ j <= k)

IsNext(k) == pc = "allocate" /\ k \in pending /\ \A j \in pending : Sooner(k, j)

Assign(k, decision, left) ==
  /\ decisions' = [decisions EXCEPT ![k] = decision]
  /\ remaining' = left
  /\ pending' = pending \ {k}
  /\ UNCHANGED <<args, pc, at, original, priorities, parts, result>>

AllocateCritical(k) ==
  /\ IsNext(k) /\ Priority(k) = Critical
  /\ Assign(k, Plain("Full"), SaturatingSub(remaining, Full(k)))

\* Mutation: a High block that does not fit is withheld like a Normal one.
AllocateHighWithheld(k) ==
  /\ IsNext(k) /\ Priority(k) = High
  /\ \/ FullFits(k) /\ Assign(k, Plain("Full"), remaining - Full(k))
     \/ ~FullFits(k) /\ SummaryFits(k) /\ Assign(k, Plain("Summary"), remaining - Short(k))
     \/ /\ ~FullFits(k) /\ ~SummaryFits(k)
        /\ Assign(k, MakePlaceholder(FilteredBlock(k)), remaining)

\* Full if it fits, else the summary if that fits, else full over the budget.
AllocateHigh(k) ==
  /\ IsNext(k) /\ Priority(k) = High
  /\ \/ FullFits(k) /\ Assign(k, Plain("Full"), remaining - Full(k))
     \/ ~FullFits(k) /\ SummaryFits(k) /\ Assign(k, Plain("Summary"), remaining - Short(k))
     \/ ~FullFits(k) /\ ~SummaryFits(k) /\ Assign(k, Plain("Full"), 0)

Withhold(k) == Assign(k, MakePlaceholder(FilteredBlock(k)), remaining)

AllocateNormal(k) ==
  /\ IsNext(k) /\ Priority(k) = Normal
  /\ \/ FullFits(k) /\ Assign(k, Plain("Full"), remaining - Full(k))
     \/ ~FullFits(k) /\ SummaryFits(k) /\ Assign(k, Plain("Summary"), remaining - Short(k))
     \/ ~FullFits(k) /\ ~SummaryFits(k) /\ Withhold(k)

AllocateLow(k) ==
  /\ IsNext(k) /\ Priority(k) = Low
  /\ \/ SummaryFits(k) /\ Assign(k, Plain("Summary"), remaining - Short(k))
     \/ ~SummaryFits(k) /\ Withhold(k)

\* Mutation: the placeholder is paid for without a look at what is left.
AllocateBackgroundUnchecked(k) ==
  /\ IsNext(k) /\ Priority(k) = Background
  /\ Assign(k, MakePlaceholder(FilteredBlock(k)), remaining - PLACEHOLDER_TOKEN_COST)

AllocateBackground(k) ==
  /\ IsNext(k) /\ Priority(k) = Background
  /\ \/ /\ PLACEHOLDER_TOKEN_COST <= remaining
        /\ Assign(k, MakePlaceholder(FilteredBlock(k)), remaining - PLACEHOLDER_TOKEN_COST)
     \/ PLACEHOLDER_TOKEN_COST > remaining /\ Assign(k, Plain("Omit"), remaining)

Allocate(k) ==
  \/ AllocateCritical(k) \/ AllocateHigh(k) \/ AllocateNormal(k)
  \/ AllocateLow(k) \/ AllocateBackground(k)

EndAllocate ==
  /\ pc = "allocate" /\ pending = {}
  /\ Goto("render")
  /\ UNCHANGED <<args, original, engine, parts, result>>
-----------------------------------------------------------------------------
(* render_all_with_decisions.                                              *)

NeedsContent(d) == d.render \in {"Full", "Summary"}

Fails(k) ==
  /\ NeedsContent(decisions[k])
  /\ InvalidContent(FilteredBlock(k), decisions[k].render = "Summary")

\* Mutation: placeholders are skipped too.
RenderDropsPlaceholders ==
  /\ pc = "render" /\ at < Len(original) /\ ~Fails(at + 1)
  /\ LET k == at + 1  d == decisions[k] IN
       parts' = IF ~NeedsContent(d) THEN parts
                ELSE Append(parts, [block |-> original[k],
                                    shown |-> RenderItem(config.mode, FilteredBlock(k), d)])
  /\ at' = at + 1
  /\ UNCHANGED <<args, pc, original, engine, result>>

Render ==
  /\ pc = "render" /\ at < Len(original) /\ ~Fails(at + 1)
  /\ LET k == at + 1  d == decisions[k] IN
       parts' = IF d.render = "Omit" THEN parts
                ELSE Append(parts, [block |-> original[k],
                                    shown |-> RenderItem(config.mode, FilteredBlock(k), d)])
  /\ at' = at + 1
  /\ UNCHANGED <<args, pc, original, engine, result>>

RenderFails ==
  /\ pc = "render" /\ at < Len(original) /\ Fails(at + 1)
  /\ Return("InvalidContent")

AllOmitted == pc = "render" /\ at = Len(original) /\ parts = <<>> /\ Return("EmptyInput")
Rendered == pc = "render" /\ at = Len(original) /\ parts # <<>> /\ Return("ok")
-----------------------------------------------------------------------------
Next ==
  \/ Filter \/ NothingLeft
  \/ DecideSummaries \/ DecideFull \/ BeginBudget
  \/ Resolve \/ BeginAllocate \/ (\E k \in pending : Allocate(k)) \/ EndAllocate
  \/ Render \/ RenderFails \/ AllOmitted \/ Rendered

Spec == Init /\ [][Next]_vars
-----------------------------------------------------------------------------
(* Properties.                                                             *)

\* The variables have their types, and every budget that is left is a natural number.
TypeOK ==
  /\ stream \in Inputs /\ config \in Configs
  /\ pc \in {"filter", "resolve", "allocate", "render", "done"}
  /\ at \in Nat
  /\ original \in Seq(DOMAIN stream)
  /\ DOMAIN priorities \subseteq Nat /\ \A p \in DOMAIN priorities : priorities[p] \in Priorities
  /\ pending \subseteq Filtered
  /\ remaining \in Nat
  /\ decisions \in Seq(Decision) /\ Len(decisions) \in {0, Len(original)}
  /\ result \in {"none", "ok", "EmptyInput", "InvalidContent"}

Allocated == Filtered \ pending

\* The engine has filled in the decisions, all or some.
Budgeted == config.verbosity = "Adaptive" /\ config.budget # NoBudget /\ decisions # <<>>

\* The priority that the last valid priority annotation for a position gives it.
Annotated(p) ==
  LET notes == {i \in DOMAIN stream : SetsPriority(stream[i]) /\ stream[i].target = p} IN
  IF notes = {} THEN Normal
  ELSE stream[CHOOSE i \in notes : \A j \in notes : j <= i].value[1]

\* A block is allocated by the priority of the annotations for its own position in
\* the whole stream, whatever include_types filters out around it and wherever the
\* annotations stand (scan_blocks, original_indices).
PriorityReachesTarget ==
  Budgeted => \A k \in Filtered : Priority(k) = Annotated(original[k])

\* The table of RenderDecision: Critical blocks are decided Full, High ones Full or
\* Summary, Low ones never Full, and only Background ones are omitted.
DegradationPath ==
  Budgeted =>
    \A k \in Allocated :
      LET d == decisions[k].render  p == Annotated(original[k]) IN
      /\ p = Critical => d = "Full"
      /\ p = High => d \in {"Full", "Summary"}
      /\ p \in {Low, Background} => d # "Full"
      /\ d = "Omit" => p = Background

CostOf(k, d) ==
  CASE d.render = "Full" -> Full(k)
    [] d.render = "Summary" -> Short(k)
    [] d.render = "Placeholder" -> IF Priority(k) = Background THEN PLACEHOLDER_TOKEN_COST ELSE 0
    [] d.render = "Omit" -> 0

Costs(S) == [k \in Nat |-> IF k \in S THEN CostOf(k, decisions[k]) ELSE 0]

\* The sums of the first values of c.
Sums(c) == LET sum[n \in Nat] == IF n = 0 THEN 0 ELSE sum[n - 1] + c[n] IN sum

\* What the decisions for the filtered blocks in S cost.
Total(S) == Sums(Costs(S))[Len(original)]

Urgent == {k \in Allocated : Priority(k) \in {Critical, High}}

\* What is decided for Normal, Low and Background blocks costs no more than the
\* Critical and High blocks leave of the budget (allocate_budget; the placeholders
\* of Normal and Low blocks are free).
BudgetHeld ==
  Budgeted => Total(Allocated \ Urgent) <= SaturatingSub(config.budget, Total(Urgent))

\* The greedy order: a Normal block that was refused in full would still not fit
\* now, so no Normal block decided after it that costs as much is in full.
NoInversion ==
  Budgeted =>
    \A j, k \in Allocated :
      (/\ Priority(j) = Normal /\ Priority(k) = Normal /\ j < k
       /\ decisions[j].render # "Full" /\ decisions[k].render = "Full")
      => Full(k) < Full(j)

\* A finished output has, in the order of the stream, a piece for every block that
\* passes the filter, but for Background blocks under a budget, and each piece was
\* made from that block: no decision slips to a neighbour.
OutputComplete ==
  result = "ok" =>
    LET kept == {i \in DOMAIN stream : Renderable(stream[i])}
        shown == {parts[n].block : n \in DOMAIN parts} IN
    /\ \A m, n \in DOMAIN parts : m < n => parts[m].block < parts[n].block
    /\ shown \subseteq kept
    /\ \A i \in kept \ shown : Budgeted /\ Annotated(i) = Background
    /\ \A n \in DOMAIN parts :
         LET b == stream[parts[n].block]  piece == parts[n].shown IN
         /\ piece.type = b.type
         /\ Description(b.type) \subseteq piece.fields
         /\ piece.tokens \in {0, FullTokens(b)}

\* Bytes that are not text fail a call only if its output would have to show them:
\* never behind a placeholder, an omission or the summary of a code block.
FailsOnlyOnShown ==
  result = "InvalidContent" =>
    \E i \in DOMAIN stream :
      /\ Renderable(stream[i]) /\ stream[i].type \in StrictTypes /\ ~stream[i].utf8
      /\ Budgeted =>
           /\ Annotated(i) # Background
           /\ Annotated(i) = Low => HasSummary(stream[i]) /\ stream[i].type # "Code"

\* Under Verbosity::Summary the driver writes what render_all, the path without
\* decisions, writes for the blocks that pass the filter.
SummaryIsRenderAll ==
  (config.verbosity = "Summary" /\ pc = "done" /\ ~NoFiltered) =>
    LET all == RenderAll(config.mode, [k \in Filtered |-> FilteredBlock(k)]) IN
    /\ result = all.status
    /\ result = "ok" => [n \in DOMAIN parts |-> parts[n].shown] = all.parts
-----------------------------------------------------------------------------
(* The inductive invariant.                                                *)

\* Only blocks that can be rendered pass the filter.
FilterKeeps == \A k \in Filtered : FilteredBlock(k) \in ContentBlock

\* The valid priority annotations for position p among the first n blocks.
Notes(p, n) == {i \in 1 .. n : SetsPriority(stream[i]) /\ stream[i].target = p}

\* The map holds the last annotation among the first n blocks for each position.
ResolvedUpTo(n) ==
  /\ \A p \in Nat : p \in DOMAIN priorities <=> Notes(p, n) # {}
  /\ \A p \in DOMAIN priorities :
       \E i \in Notes(p, n) :
         priorities[p] = stream[i].value[1] /\ \A j \in Notes(p, n) : j <= i

LoopsInOrder ==
  /\ pc \in {"filter", "resolve"} => decisions = <<>> /\ parts = <<>>
  /\ pc = "filter" => priorities = [p \in {} |-> Normal]
  /\ pc \in {"resolve", "allocate"} => config.verbosity = "Adaptive" /\ config.budget # NoBudget
  /\ pc = "resolve" => ResolvedUpTo(at)
  /\ pc = "allocate" => Len(decisions) = Len(original)
  /\ pc # "allocate" => pending = {}
  /\ Budgeted => ResolvedUpTo(Len(stream))

\* What is allocated comes before what is pending, in the order of the sort.
SortedOrder ==
  Budgeted => \A k \in Allocated : \A j \in pending : Sooner(k, j)

\* A decision stays on the degradation path of the priority the engine has found,
\* and what was refused in full does not fit what is left.
Degraded ==
  Budgeted =>
    \A k \in Allocated :
      LET d == decisions[k].render  p == Priority(k) IN
      /\ p = Critical => d = "Full"
      /\ p = High => d \in {"Full", "Summary"}
      /\ p \in {Low, Background} => d # "Full"
      /\ d = "Omit" => p = Background
      /\ (p = Normal /\ d # "Full") => Full(k) > remaining

IInv ==
  /\ TypeOK /\ FilterKeeps /\ LoopsInOrder /\ SortedOrder /\ Degraded /\ NoInversion

\* The filtered blocks are, in the order of the stream, those of the blocks seen that
\* can be rendered.
FilterExact ==
  LET seen == IF pc = "filter" THEN 1 .. at ELSE DOMAIN stream IN
  /\ pc = "filter" => at <= Len(stream)
  /\ \A j, k \in Filtered : j < k => original[j] < original[k]
  /\ \A k \in Filtered : original[k] \in seen /\ Renderable(FilteredBlock(k))
  /\ \A i \in seen : Renderable(stream[i]) => \E k \in Filtered : original[k] = i

\* A decision is about the block it was made for.
DecisionsFit ==
  \A k \in DOMAIN decisions :
    LET b == FilteredBlock(k)  d == decisions[k] IN
    /\ d.render = "Summary" => HasSummary(b)
    /\ d.render = "Placeholder" => d = MakePlaceholder(b)
    /\ IF Budgeted
       THEN Priority(k) = Background => ~NeedsContent(d)
       ELSE d = Plain(IF config.verbosity = "Summary" /\ HasSummary(b) THEN "Summary" ELSE "Full")

Piece(k) ==
  [block |-> original[k], shown |-> RenderItem(config.mode, FilteredBlock(k), decisions[k])]

Looked == {k \in Filtered : k <= at}
Kept == {k \in Looked : decisions[k].render # "Omit"}

\* The output is the pieces of the blocks looked at and not omitted, in their order.
PiecesInOrder ==
  /\ parts \in Seq({Piece(k) : k \in Kept})
  /\ \A m, n \in DOMAIN parts : m < n => parts[m].block < parts[n].block
  /\ \A k \in Kept : \E n \in DOMAIN parts : parts[n] = Piece(k)
  /\ ~Budgeted => DOMAIN parts = Looked /\ \A k \in Looked : parts[k] = Piece(k)

RenderExact ==
  /\ pc \notin {"render", "done"} => parts = <<>>
  /\ pc = "render" => at <= Len(original) /\ Len(decisions) = Len(original)
  /\ pc \in {"render", "done"} => PiecesInOrder /\ \A k \in Looked : ~Fails(k)

\* A call ends with the result that the blocks looked at give it.
ResultExact ==
  /\ pc = "done" <=> result # "none"
  /\ pc = "done" /\ ~NoFiltered => Len(decisions) = Len(original)
  /\ result = "InvalidContent" => at + 1 \in Filtered /\ Fails(at + 1)
  /\ result = "ok" => ~NoFiltered /\ at = Len(original)
  /\ result = "EmptyInput" => NoFiltered \/ (at = Len(original) /\ parts = <<>>)

OutputInv == FilterExact /\ DecisionsFit /\ RenderExact /\ ResultExact

\* What is left of the budget is what the decisions have not cost.
SpentExactly ==
  Budgeted => Total(Allocated \ Urgent) + remaining = SaturatingSub(config.budget, Total(Urgent))
=============================================================================
