----------------------------- MODULE DriverProofs -----------------------------
(***************************************************************************)
(* Proofs about Driver for every stream and configuration.                 *)
(***************************************************************************)
EXTENDS Driver, Induction
-----------------------------------------------------------------------------
(* Estimates and priorities.                                               *)

\* An estimate is a natural number.
LEMMA EstimateNat ==
  ASSUME NEW text \in Text
  PROVE  Estimate(text) \in Nat
<1>1. text.bytes \in Nat
  BY DEF Text
<1>2. text.bytes \div 3 \in Nat /\ text.bytes \div 4 \in Nat
  BY <1>1
<1>. QED  BY <1>1, <1>2 DEF Estimate, AtLeastOne

\* So are the costs of a block.
LEMMA TokensNat ==
  ASSUME NEW b \in ContentBlock
  PROVE  FullTokens(b) \in Nat /\ SummaryTokens(b) \in Nat
<1>1. EstimatedText(b) \in Text
  BY DEF EstimatedText, ContentBlock, Text
<1>2. HasSummary(b) => b.summary \in Text
  BY DEF HasSummary, ContentBlock
<1>. QED  BY <1>1, <1>2, EstimateNat DEF FullTokens, SummaryTokens

\* Decisions are decisions.
LEMMA Decisions ==
  /\ \A r \in {"Full", "Summary", "Omit"} : Plain(r) \in Decision /\ Plain(r).render = r
  /\ \A b \in ContentBlock :
       MakePlaceholder(b) \in Decision /\ MakePlaceholder(b).render = "Placeholder"
BY TokensNat DEF Plain, MakePlaceholder, Decision, ContentBlock

\* The streams are sequences of blocks.
LEMMA StreamOfBlocks ==
  ASSUME TypeOK
  PROVE  /\ stream \in Seq(Block) /\ config \in Config
         /\ Len(stream) \in Nat /\ Len(original) \in Nat
         /\ Filtered = 1 .. Len(original)
         /\ \A k \in Filtered : original[k] \in 1 .. Len(stream)
BY DriverInputs DEF TypeOK, Filtered

\* Every block has a priority, and a cost.
LEMMA PriorityKnown ==
  ASSUME TypeOK, FilterKeeps, NEW k \in Filtered
  PROVE  /\ Priority(k) \in Priorities
         /\ Full(k) \in Nat /\ Short(k) \in Nat
BY TokensNat DEF TypeOK, FilterKeeps, Priority, Priorities, Critical, Normal, Background,
     Full, Short

\* The order of the sort is total.
LEMMA SoonerTotal ==
  ASSUME TypeOK, FilterKeeps, NEW j \in Filtered, NEW k \in Filtered
  PROVE  /\ Sooner(j, k) \/ Sooner(k, j)
         /\ (Sooner(j, k) /\ Priority(j) = Priority(k)) => j <= k
<1>1. Priority(j) \in Int /\ Priority(k) \in Int
  BY PriorityKnown DEF Priorities, Critical, Background
<1>2. j \in Int /\ k \in Int
  BY StreamOfBlocks
<1>. QED  BY <1>1, <1>2 DEF Sooner
-----------------------------------------------------------------------------
(* One step of the allocation.                                             *)

\* The conditions under which an arm of allocate_budget gives block k decision d
\* and leaves `left` of the budget.
Lawful(k, d, left) ==
  /\ d \in Decision
  /\ left \in Nat /\ left <= remaining
  /\ Priority(k) = Critical => d.render = "Full"
  /\ Priority(k) = High => d.render \in {"Full", "Summary"}
  /\ Priority(k) \in {Low, Background} => d.render # "Full"
  /\ d.render = "Omit" => Priority(k) = Background
  /\ Priority(k) = Normal =>
       IF d.render = "Full" THEN Full(k) <= remaining ELSE Full(k) > left

\* A lawful assignment to the next block in the order keeps the invariant.
LEMMA AssignKeeps ==
  ASSUME IInv, NEW k, IsNext(k), NEW d, NEW left, Lawful(k, d, left), Assign(k, d, left)
  PROVE  IInv'
<1>. USE DEF Assign, args, IsNext
<1>1. /\ UNCHANGED <<stream, config, pc, at, original, priorities, parts, result>>
      /\ pc = "allocate" /\ k \in pending /\ pending' = pending \ {k}
      /\ remaining' = left /\ decisions' = [decisions EXCEPT ![k] = d]
  OBVIOUS
<1>2. TypeOK /\ FilterKeeps /\ LoopsInOrder /\ SortedOrder /\ Degraded /\ NoInversion
  BY DEF IInv
<1>3. Len(decisions) = Len(original) /\ decisions \in Seq(Decision)
  BY <1>1, <1>2 DEF LoopsInOrder, TypeOK
<1>4. k \in Filtered /\ pending \subseteq Filtered /\ Filtered = 1 .. Len(original)
      /\ Len(original) \in Nat /\ DOMAIN decisions = Filtered
  BY <1>1, <1>2, <1>3, StreamOfBlocks DEF TypeOK
<1>5. /\ decisions' \in Seq(Decision) /\ Len(decisions') = Len(original)
      /\ decisions'[k] = d /\ \A j \in Filtered \ {k} : decisions'[j] = decisions[j]
  BY <1>1, <1>3, <1>4 DEF Lawful
<1>6. /\ Filtered' = Filtered /\ Allocated' = Allocated \cup {k}
      /\ \A j : Priority(j)' = Priority(j) /\ Full(j)' = Full(j)
      /\ \A i, j : Sooner(i, j)' = Sooner(i, j)
  BY <1>1, <1>4 DEF Filtered, Allocated, Priority, Full, FilteredBlock, Sooner
<1>7. Budgeted
  <2>1. decisions # <<>>
    BY <1>3, <1>4
  <2>. QED  BY <2>1, <1>1, <1>2 DEF LoopsInOrder, Budgeted
<1>8. TypeOK'
  BY <1>1, <1>2, <1>5, <1>6 DEF TypeOK, Lawful, Filtered
<1>9. FilterKeeps'
  BY <1>1, <1>2 DEF FilterKeeps, Filtered, FilteredBlock
<1>10. LoopsInOrder'
  <2>1. ResolvedUpTo(Len(stream))'
    BY <1>1, <1>2, <1>7 DEF LoopsInOrder, ResolvedUpTo, Notes
  <2>. QED  BY <2>1, <1>1, <1>2, <1>5 DEF LoopsInOrder
<1>11. SortedOrder'
  <2>1. \A j \in pending' : Sooner(k, j)
    BY <1>1
  <2>. QED  BY <2>1, <1>1, <1>2, <1>6, <1>7 DEF SortedOrder
<1>12. Degraded'
  <2> SUFFICES ASSUME NEW j \in Allocated'
               PROVE  /\ Priority(j) = Critical => decisions'[j].render = "Full"
                      /\ Priority(j) = High => decisions'[j].render \in {"Full", "Summary"}
                      /\ Priority(j) \in {Low, Background} => decisions'[j].render # "Full"
                      /\ decisions'[j].render = "Omit" => Priority(j) = Background
                      /\ (Priority(j) = Normal /\ decisions'[j].render # "Full")
                         => Full(j) > left
    BY <1>1, <1>6 DEF Degraded
  <2>1. CASE j = k
    BY <2>1, <1>5 DEF Lawful
  <2>2. CASE j # k
    <3>1. j \in Allocated /\ decisions'[j] = decisions[j]
      BY <2>2, <1>5, <1>6 DEF Allocated
    <3>2. Full(j) \in Nat /\ remaining \in Nat /\ left \in Nat /\ left <= remaining
      BY <3>1, <1>2, PriorityKnown DEF Allocated, Lawful, TypeOK
    <3>. QED  BY <3>1, <3>2, <1>2, <1>7 DEF Degraded
  <2>. QED  BY <2>1, <2>2
<1>13. NoInversion'
  <2> SUFFICES ASSUME NEW i \in Allocated', NEW j \in Allocated',
                      Priority(i) = Normal, Priority(j) = Normal, i < j,
                      decisions'[i].render # "Full", decisions'[j].render = "Full"
               PROVE  Full(j) < Full(i)
    BY <1>6 DEF NoInversion
  <2>0. i \in Filtered /\ j \in Filtered /\ Full(i) \in Nat /\ Full(j) \in Nat
        /\ i \in Int /\ j \in Int
    BY <1>2, <1>4, <1>6, PriorityKnown DEF Allocated
  <2>1. CASE i # k /\ j # k
    BY <2>1, <1>2, <1>5, <1>6, <1>7 DEF NoInversion, Allocated
  <2>2. CASE j = k
    <3>1. i \in Allocated /\ decisions'[i] = decisions[i]
      BY <2>0, <2>2, <1>5, <1>6
    <3>2. Full(i) > remaining
      BY <3>1, <1>2, <1>7 DEF Degraded
    <3>3. Full(j) <= remaining
      BY <2>2, <1>5 DEF Lawful
    <3>. QED  BY <2>0, <3>2, <3>3, <1>2 DEF TypeOK
  <2>3. CASE i = k
    <3>1. j \in Allocated
      BY <2>0, <2>3, <1>6
    <3>2. Sooner(j, i)
      BY <2>3, <3>1, <1>1, <1>2, <1>7 DEF SortedOrder
    <3>3. j <= i
      BY <3>2, <2>0, <1>2, SoonerTotal
    <3>. QED  BY <2>0, <3>3
  <2>. QED  BY <2>1, <2>2, <2>3
<1>. QED  BY <1>8, <1>9, <1>10, <1>11, <1>12, <1>13 DEF IInv

\* What an arm may use: the block's costs and priority, and what is left.
LEMMA NextInHand ==
  ASSUME IInv, NEW k, IsNext(k)
  PROVE  /\ k \in Filtered /\ FilteredBlock(k) \in ContentBlock
         /\ Full(k) \in Nat /\ Short(k) \in Nat /\ remaining \in Nat
         /\ Priority(k) \in Priorities
<1>1. k \in Filtered /\ TypeOK /\ FilterKeeps
  BY DEF IInv, TypeOK, IsNext
<1>. QED  BY <1>1, PriorityKnown DEF TypeOK, FilterKeeps

\* Every arm of the allocation keeps the invariant.
LEMMA AllocateKeeps ==
  ASSUME IInv, NEW k \in pending, Allocate(k)
  PROVE  IInv'
<1>. USE DEF Priorities, Critical, High, Normal, Low, Background
<1>1. IsNext(k)
  BY DEF Allocate, AllocateCritical, AllocateHigh, AllocateNormal, AllocateLow,
     AllocateBackground
<1>2. /\ FilteredBlock(k) \in ContentBlock
      /\ Full(k) \in Nat /\ Short(k) \in Nat /\ remaining \in Nat
  BY <1>1, NextInHand
<1>3. /\ \A r \in {"Full", "Summary", "Omit"} : Plain(r) \in Decision /\ Plain(r).render = r
      /\ MakePlaceholder(FilteredBlock(k)) \in Decision
      /\ MakePlaceholder(FilteredBlock(k)).render = "Placeholder"
  BY <1>2, Decisions
<1>4. CASE AllocateCritical(k)
  <2>1. Lawful(k, Plain("Full"), SaturatingSub(remaining, Full(k)))
    BY <1>2, <1>3, <1>4 DEF AllocateCritical, Lawful, SaturatingSub
  <2>. QED  BY <1>1, <1>4, <2>1, AssignKeeps DEF AllocateCritical
<1>5. CASE AllocateHigh(k)
  <2>1. FullFits(k) => Lawful(k, Plain("Full"), remaining - Full(k))
    BY <1>2, <1>3, <1>5 DEF AllocateHigh, Lawful, FullFits
  <2>2. SummaryFits(k) => Lawful(k, Plain("Summary"), remaining - Short(k))
    BY <1>2, <1>3, <1>5 DEF AllocateHigh, Lawful, SummaryFits
  <2>3. Lawful(k, Plain("Full"), 0)
    BY <1>2, <1>3, <1>5 DEF AllocateHigh, Lawful
  <2>. QED  BY <1>1, <1>5, <2>1, <2>2, <2>3, AssignKeeps DEF AllocateHigh
<1>6. CASE AllocateNormal(k)
  <2>1. FullFits(k) => Lawful(k, Plain("Full"), remaining - Full(k))
    BY <1>2, <1>3, <1>6 DEF AllocateNormal, Lawful, FullFits
  <2>2. ~FullFits(k) /\ SummaryFits(k) => Lawful(k, Plain("Summary"), remaining - Short(k))
    BY <1>2, <1>3, <1>6 DEF AllocateNormal, Lawful, SummaryFits, FullFits
  <2>3. ~FullFits(k) => Lawful(k, MakePlaceholder(FilteredBlock(k)), remaining)
    BY <1>2, <1>3, <1>6 DEF AllocateNormal, Lawful, FullFits
  <2>. QED  BY <1>1, <1>6, <2>1, <2>2, <2>3, AssignKeeps DEF AllocateNormal, Withhold
<1>7. CASE AllocateLow(k)
  <2>1. SummaryFits(k) => Lawful(k, Plain("Summary"), remaining - Short(k))
    BY <1>2, <1>3, <1>7 DEF AllocateLow, Lawful, SummaryFits
  <2>2. Lawful(k, MakePlaceholder(FilteredBlock(k)), remaining)
    BY <1>2, <1>3, <1>7 DEF AllocateLow, Lawful
  <2>. QED  BY <1>1, <1>7, <2>1, <2>2, AssignKeeps DEF AllocateLow, Withhold
<1>8. CASE AllocateBackground(k)
  <2>1. PLACEHOLDER_TOKEN_COST <= remaining =>
          Lawful(k, MakePlaceholder(FilteredBlock(k)), remaining - PLACEHOLDER_TOKEN_COST)
    BY <1>2, <1>3, <1>8 DEF AllocateBackground, Lawful, PLACEHOLDER_TOKEN_COST
  <2>2. Lawful(k, Plain("Omit"), remaining)
    BY <1>2, <1>3, <1>8 DEF AllocateBackground, Lawful
  <2>. QED  BY <1>1, <1>8, <2>1, <2>2, AssignKeeps DEF AllocateBackground
<1>. QED  BY <1>4, <1>5, <1>6, <1>7, <1>8 DEF Allocate
-----------------------------------------------------------------------------
(* The other steps.                                                        *)

\* Nothing is resolved at the start.
LEMMA InitInv == Init => IInv
<1> SUFFICES ASSUME Init PROVE IInv
  OBVIOUS
<1>. USE DEF Init
<1>1. stream \in Seq(Block) /\ Len(stream) \in Nat
  BY DriverInputs
<1>2. TypeOK
  BY <1>1 DEF TypeOK, Filtered
<1>. QED
  BY <1>2 DEF IInv, FilterKeeps, LoopsInOrder, SortedOrder, Degraded, NoInversion, Budgeted,
     Filtered

\* The filter lets through blocks with content only.
LEMMA FilterStep ==
  ASSUME IInv, Filter
  PROVE  IInv'
<1>. USE DEF Filter, args, engine
<1>1. TypeOK /\ FilterKeeps /\ LoopsInOrder /\ decisions = <<>>
  BY DEF IInv, LoopsInOrder
<1>2. /\ stream \in Seq(Block) /\ at + 1 \in 1 .. Len(stream) /\ at \in Nat
      /\ original \in Seq(DOMAIN stream) /\ Len(stream) \in Nat
  BY <1>1, StreamOfBlocks DEF TypeOK
<1>3. stream[at + 1] \in Block
  BY <1>2
<1>4. /\ original' \in Seq(DOMAIN stream)
      /\ \A k \in DOMAIN original' :
           \/ original'[k] = at + 1 /\ Renderable(stream[at + 1])
           \/ k \in Filtered /\ original'[k] = original[k]
      /\ Filtered \subseteq DOMAIN original'
  <2>1. CASE Renderable(stream[at + 1])
    BY <2>1, <1>2 DEF Filtered
  <2>2. CASE ~Renderable(stream[at + 1])
    BY <2>2, <1>2 DEF Filtered
  <2>. QED  BY <2>1, <2>2
<1>5. Renderable(stream[at + 1]) => stream[at + 1] \in ContentBlock
  BY <1>3 DEF Renderable, Block, EndBlock, AnnotationBlock
<1>6. FilterKeeps'
  BY <1>1, <1>4, <1>5 DEF FilterKeeps, Filtered, FilteredBlock
<1>7. TypeOK'
  <2>1. at' \in Nat /\ Len(decisions) = 0
    BY <1>1, <1>2
  <2>2. pending' \subseteq Filtered'
    BY <1>1, <1>4 DEF TypeOK, Filtered
  <2>. QED  BY <2>1, <2>2, <1>1, <1>4 DEF TypeOK
<1>8. LoopsInOrder' /\ ~Budgeted'
  BY <1>1 DEF LoopsInOrder, Budgeted
<1>. QED  BY <1>6, <1>7, <1>8 DEF IInv, SortedOrder, Degraded, NoInversion

\* One more block of the stream is looked at for its priority.
LEMMA ResolveStep ==
  ASSUME IInv, Resolve
  PROVE  IInv'
<1>. USE DEF Resolve, args
<1>. DEFINE b == stream[at + 1]
<1>1. TypeOK /\ FilterKeeps /\ LoopsInOrder /\ ResolvedUpTo(at) /\ decisions = <<>>
  BY DEF IInv, LoopsInOrder
<1>2. /\ stream \in Seq(Block) /\ at + 1 \in 1 .. Len(stream) /\ at \in Nat /\ Len(stream) \in Nat
  BY <1>1, StreamOfBlocks DEF TypeOK
<1>3. b \in Block
  BY <1>2
<1>4. SetsPriority(b) => b.target \in Nat /\ b.value[1] \in Priorities
  BY <1>3 DEF SetsPriority, Block, ContentBlock, EndBlock, AnnotationBlock, ContentTypes,
     StrictTypes
<1>5. \A p : Notes(p, at + 1) =
        Notes(p, at) \cup (IF SetsPriority(b) /\ b.target = p THEN {at + 1} ELSE {})
  <2>1. 1 .. (at + 1) = (1 .. at) \cup {at + 1}
    BY <1>2
  <2>. QED  BY <2>1 DEF Notes
<1>6. \A p : \A i \in Notes(p, at) : i \in Int /\ i <= at
  BY <1>2 DEF Notes
<1>7. ResolvedUpTo(at)'
  <2>1. \A p : Notes(p, at)' = Notes(p, at + 1)
    BY DEF Notes
  <2>2. CASE SetsPriority(b)
    <3>1. /\ DOMAIN priorities' = DOMAIN priorities \cup {b.target}
          /\ \A p \in DOMAIN priorities' :
               priorities'[p] = IF p = b.target THEN b.value[1] ELSE priorities[p]
      BY <2>2
    <3>2. \A p \in Nat : p \in DOMAIN priorities' <=> Notes(p, at + 1) # {}
      BY <3>1, <2>2, <1>1, <1>4, <1>5 DEF ResolvedUpTo
    <3>3. ASSUME NEW p \in DOMAIN priorities'
          PROVE  \E i \in Notes(p, at + 1) :
                   /\ priorities'[p] = stream[i].value[1]
                   /\ \A j \in Notes(p, at + 1) : j <= i
      <4>1. CASE p = b.target
        <5>1. at + 1 \in Notes(p, at + 1)
          BY <4>1, <2>2, <1>5
        <5>2. \A j \in Notes(p, at + 1) : j <= at + 1
          BY <1>2, <1>5, <1>6
        <5>. QED  BY <5>1, <5>2, <4>1, <3>1
      <4>2. CASE p # b.target
        <5>1. Notes(p, at + 1) = Notes(p, at)
          BY <4>2, <1>5
        <5>2. p \in DOMAIN priorities /\ priorities'[p] = priorities[p]
          BY <4>2, <3>1
        <5>. QED  BY <5>1, <5>2, <1>1 DEF ResolvedUpTo
      <4>. QED  BY <4>1, <4>2
    <3>. QED  BY <2>1, <3>2, <3>3 DEF ResolvedUpTo
  <2>3. CASE ~SetsPriority(b)
    <3>1. priorities' = priorities /\ \A p : Notes(p, at + 1) = Notes(p, at)
      BY <2>3, <1>5
    <3>. QED  BY <2>1, <3>1, <1>1 DEF ResolvedUpTo
  <2>. QED  BY <2>2, <2>3
<1>8. TypeOK'
  BY <1>1, <1>2, <1>4 DEF TypeOK, Filtered
<1>9. FilterKeeps'
  BY <1>1 DEF FilterKeeps, Filtered, FilteredBlock
<1>10. LoopsInOrder' /\ ~Budgeted'
  BY <1>1, <1>7 DEF LoopsInOrder, Budgeted
<1>. QED  BY <1>8, <1>9, <1>10 DEF IInv, SortedOrder, Degraded, NoInversion

\* The loops follow each other; the last step of each sets up the next.
LEMMA DecideStep ==
  ASSUME IInv, DecideSummaries \/ DecideFull
  PROVE  IInv'
<1>. USE DEF AfterFilter, Goto, args
<1>1. TypeOK /\ FilterKeeps /\ LoopsInOrder /\ pc = "filter"
  BY DEF IInv, DecideSummaries, DecideFull
<1>2. /\ UNCHANGED <<stream, config, original, priorities, pending, remaining, parts, result>>
      /\ pc' = "render" /\ at' = 0
      /\ config.verbosity # "Adaptive" \/ config.budget = NoBudget
  BY DEF DecideSummaries, DecideFull, Decide
<1>3. Filtered = 1 .. Len(original) /\ Len(original) \in Nat /\ Len(stream) \in Nat
  BY <1>1, StreamOfBlocks
<1>4. decisions' \in Seq(Decision) /\ Len(decisions') = Len(original)
  <2>1. \E f \in [Filtered -> Decision] : decisions' = f
    <3>1. CASE DecideSummaries
      BY <3>1, Decisions DEF DecideSummaries, Decide
    <3>2. CASE DecideFull
      BY <3>2, Decisions DEF DecideFull, Decide
    <3>. QED  BY <3>1, <3>2
  <2>. QED  BY <2>1, <1>3
<1>5. pending = {}
  BY <1>1 DEF LoopsInOrder
<1>6. TypeOK'
  BY <1>1, <1>2, <1>3, <1>4 DEF TypeOK, Filtered
<1>7. FilterKeeps'
  BY <1>1, <1>2 DEF FilterKeeps, Filtered, FilteredBlock
<1>8. LoopsInOrder' /\ ~Budgeted'
  BY <1>1, <1>2, <1>5 DEF LoopsInOrder, Budgeted
<1>. QED  BY <1>6, <1>7, <1>8 DEF IInv, SortedOrder, Degraded, NoInversion

LEMMA BeginStep ==
  ASSUME IInv, BeginBudget \/ BeginAllocate
  PROVE  IInv'
<1>. USE DEF AfterFilter, Goto, args, engine
<1>1. TypeOK /\ FilterKeeps /\ LoopsInOrder
  BY DEF IInv
<1>2. Filtered = 1 .. Len(original) /\ Len(original) \in Nat /\ Len(stream) \in Nat
  BY <1>1, StreamOfBlocks
<1>3. CASE BeginBudget
  <2>1. decisions = <<>> /\ decisions' = <<>> /\ priorities' = [p \in {} |-> Normal]
        /\ pc' = "resolve" /\ at' = 0 /\ UNCHANGED <<stream, config, original>>
    BY <1>1, <1>3 DEF BeginBudget, LoopsInOrder
  <2>2. \A p : Notes(p, 0)' = {}
    BY <1>2, <2>1 DEF Notes
  <2>3. ResolvedUpTo(0)'
    BY <2>1, <2>2 DEF ResolvedUpTo
  <2>4. TypeOK'
    BY <1>1, <1>2, <1>3, <2>1 DEF TypeOK, BeginBudget, Filtered
  <2>5. FilterKeeps'
    BY <1>1, <2>1 DEF FilterKeeps, Filtered, FilteredBlock
  <2>6. LoopsInOrder' /\ ~Budgeted'
    BY <1>1, <1>3, <2>1, <2>3 DEF BeginBudget, LoopsInOrder, Budgeted
  <2>. QED  BY <2>4, <2>5, <2>6 DEF IInv, SortedOrder, Degraded, NoInversion
<1>4. CASE BeginAllocate
  <2>. USE DEF BeginAllocate
  <2>1. /\ UNCHANGED <<stream, config, original, priorities, parts, result>>
        /\ pc' = "allocate" /\ at' = 0 /\ pending' = Filtered
        /\ remaining' = config.budget /\ decisions' = [k \in Filtered |-> Plain("Omit")]
        /\ pc = "resolve"
    BY <1>4
  <2>2. remaining' \in Nat
    BY <1>1, <2>1, StreamOfBlocks DEF LoopsInOrder, Config
  <2>3. decisions' \in Seq(Decision) /\ Len(decisions') = Len(original)
    BY <1>2, <2>1, Decisions
  <2>4. ResolvedUpTo(Len(stream))'
    BY <1>1, <1>4, <2>1 DEF LoopsInOrder, ResolvedUpTo, Notes
  <2>5. TypeOK'
    BY <1>1, <1>2, <2>1, <2>2, <2>3 DEF TypeOK, Filtered
  <2>6. FilterKeeps'
    BY <1>1, <2>1 DEF FilterKeeps, Filtered, FilteredBlock
  <2>7. LoopsInOrder' /\ Allocated' = {}
    BY <1>1, <2>1, <2>3, <2>4 DEF LoopsInOrder, Allocated, Filtered
  <2>. QED  BY <2>5, <2>6, <2>7 DEF IInv, SortedOrder, Degraded, NoInversion
<1>. QED  BY <1>3, <1>4

\* Steps that leave the filter's and the engine's work alone.
LEMMA SameDecisions ==
  ASSUME IInv, UNCHANGED <<stream, config, original, priorities, pending, remaining, decisions>>,
         at' \in Nat,
         pc' \in {"render", "done"}, pending = {},
         result' \in {"none", "ok", "EmptyInput", "InvalidContent"}
  PROVE  IInv'
<1>1. TypeOK /\ FilterKeeps /\ LoopsInOrder /\ SortedOrder /\ Degraded /\ NoInversion
  BY DEF IInv
<1>2. TypeOK'
  BY <1>1 DEF TypeOK, Filtered
<1>3. FilterKeeps'
  BY <1>1 DEF FilterKeeps, Filtered, FilteredBlock
<1>4. LoopsInOrder'
  BY <1>1 DEF LoopsInOrder, Budgeted, ResolvedUpTo, Notes
<1>5. SortedOrder'
  BY DEF SortedOrder
<1>6. Degraded' /\ NoInversion'
  BY <1>1 DEF Degraded, NoInversion, Budgeted, Allocated, Filtered, Priority, Full, FilteredBlock
<1>. QED  BY <1>2, <1>3, <1>4, <1>5, <1>6 DEF IInv

LEMMA RenderStep ==
  ASSUME IInv,
         NothingLeft \/ EndAllocate \/ Render \/ RenderFails \/ AllOmitted \/ Rendered
  PROVE  IInv'
<1>. USE DEF Return, Goto, args, engine
<1>1. TypeOK /\ LoopsInOrder
  BY DEF IInv
<1>2. at \in Nat /\ Len(stream) \in Nat
  BY <1>1, StreamOfBlocks DEF TypeOK
<1>3. CASE NothingLeft
  BY <1>1, <1>2, <1>3, SameDecisions DEF NothingLeft, LoopsInOrder, TypeOK
<1>4. CASE EndAllocate
  BY <1>1, <1>2, <1>4, SameDecisions DEF EndAllocate, TypeOK
<1>5. CASE Render
  BY <1>1, <1>2, <1>5, SameDecisions DEF Render, LoopsInOrder, TypeOK
<1>6. CASE RenderFails
  BY <1>1, <1>2, <1>6, SameDecisions DEF RenderFails, LoopsInOrder, TypeOK
<1>7. CASE AllOmitted \/ Rendered
  BY <1>1, <1>2, <1>7, SameDecisions DEF AllOmitted, Rendered, LoopsInOrder, TypeOK
<1>. QED  BY <1>3, <1>4, <1>5, <1>6, <1>7
-----------------------------------------------------------------------------
(* The invariant, and what follows.                                        *)

\* Every step keeps the invariant.
LEMMA NextInv == IInv /\ [Next]_vars => IInv'
<1> SUFFICES ASSUME IInv, [Next]_vars PROVE IInv'
  OBVIOUS
<1>1. CASE Next
  BY <1>1, FilterStep, DecideStep, BeginStep, ResolveStep, AllocateKeeps, RenderStep DEF Next
<1>2. CASE UNCHANGED vars
  <2>. USE <1>2 DEF vars, args, engine
  <2>1. TypeOK'
    BY DEF IInv, TypeOK, Filtered
  <2>2. FilterKeeps' /\ LoopsInOrder'
    BY DEF IInv, FilterKeeps, Filtered, FilteredBlock, LoopsInOrder, Budgeted,
       ResolvedUpTo, Notes
  <2>3. SortedOrder' /\ Degraded' /\ NoInversion'
    BY DEF IInv, SortedOrder, Degraded, NoInversion, Budgeted, Allocated, Filtered,
       Priority, Full, FilteredBlock, Sooner
  <2>. QED  BY <2>1, <2>2, <2>3 DEF IInv
<1>. QED  BY <1>1, <1>2

\* The invariant holds in every reachable state.
THEOREM InvariantHolds == Spec => []IInv
BY InitInv, NextInv, PTL DEF Spec

\* The variables keep their types: in particular the budget never wraps around.
THEOREM TypeCorrect == Spec => []TypeOK
<1>1. IInv => TypeOK
  BY DEF IInv
<1>. QED  BY <1>1, InvariantHolds, PTL

\* The priority the engine uses is the one that was annotated.
LEMMA PriorityIsAnnotated ==
  ASSUME IInv, Budgeted, NEW k \in Filtered
  PROVE  Priority(k) = Annotated(original[k])
<1>. DEFINE p == original[k]
            notes == {i \in DOMAIN stream : SetsPriority(stream[i]) /\ stream[i].target = p}
<1>1. TypeOK /\ ResolvedUpTo(Len(stream))
  BY DEF IInv, LoopsInOrder
<1>2. p \in Nat /\ DOMAIN stream = 1 .. Len(stream) /\ Len(stream) \in Nat
  BY <1>1, StreamOfBlocks
<1>3. Notes(p, Len(stream)) = notes
  BY <1>2 DEF Notes
<1>4. CASE notes = {}
  BY <1>1, <1>2, <1>3, <1>4 DEF ResolvedUpTo, Priority, Annotated
<1>5. CASE notes # {}
  <2>1. p \in DOMAIN priorities /\ Priority(k) = priorities[p]
    BY <1>1, <1>2, <1>3, <1>5 DEF ResolvedUpTo, Priority
  <2>2. PICK i \in notes : priorities[p] = stream[i].value[1] /\ \A j \in notes : j <= i
    BY <2>1, <1>1, <1>3 DEF ResolvedUpTo
  <2>3. \A m \in notes : (\A j \in notes : j <= m) => m = i
    BY <2>2, <1>2
  <2>4. (CHOOSE m \in notes : \A j \in notes : j <= m) = i
    BY <2>2, <2>3
  <2>. QED  BY <1>5, <2>1, <2>2, <2>4 DEF Annotated
<1>. QED  BY <1>4, <1>5

\* For every stream, filter and budget, a block is allocated by the last valid
\* priority annotation for its position in the whole stream.
THEOREM PrioritiesReachTargets == Spec => []PriorityReachesTarget
<1>1. IInv => PriorityReachesTarget
  BY PriorityIsAnnotated DEF PriorityReachesTarget
<1>. QED  BY <1>1, InvariantHolds, PTL

\* For every stream and budget, Critical and High blocks are never withheld and only
\* Background blocks are omitted.
THEOREM DegradationHolds == Spec => []DegradationPath
<1>1. IInv => DegradationPath
  <2> SUFFICES ASSUME IInv, Budgeted, NEW k \in Allocated
               PROVE  LET d == decisions[k].render  p == Annotated(original[k]) IN
                      /\ p = Critical => d = "Full"
                      /\ p = High => d \in {"Full", "Summary"}
                      /\ p \in {Low, Background} => d # "Full"
                      /\ d = "Omit" => p = Background
    BY DEF DegradationPath
  <2>1. Priority(k) = Annotated(original[k])
    BY PriorityIsAnnotated DEF Allocated
  <2>. QED  BY <2>1 DEF IInv, Degraded
<1>. QED  BY <1>1, InvariantHolds, PTL

\* For every stream and budget, a Normal block that costs at least as much as one
\* refused before it is not in full.
THEOREM InversionFree == Spec => []NoInversion
<1>1. IInv => NoInversion
  BY DEF IInv
<1>. QED  BY <1>1, InvariantHolds, PTL
-----------------------------------------------------------------------------
(* The output.                                                             *)

\* No block is filtered and nothing is decided at the start.
LEMMA InitOutput == Init => OutputInv
<1> SUFFICES ASSUME Init PROVE OutputInv
  OBVIOUS
<1>. USE DEF Init, Filtered
<1>1. stream \in Seq(Block) /\ Len(stream) \in Nat
  BY DriverInputs
<1>. QED
  BY <1>1 DEF OutputInv, FilterExact, DecisionsFit, RenderExact, ResultExact

\* The filter sees one more block, and takes it if it can be rendered.
LEMMA FilterStepExact ==
  ASSUME IInv, OutputInv, Filter
  PROVE  OutputInv'
<1>. USE DEF Filter, args, engine
<1>1. TypeOK /\ decisions = <<>> /\ parts = <<>>
  BY DEF IInv, LoopsInOrder
<1>2. /\ stream \in Seq(Block) /\ at \in Nat /\ Len(stream) \in Nat /\ at + 1 <= Len(stream)
      /\ original \in Seq(DOMAIN stream) /\ Len(original) \in Nat
      /\ Filtered = 1 .. Len(original) /\ \A k \in Filtered : original[k] \in Nat
  BY <1>1, StreamOfBlocks DEF TypeOK
<1>3. /\ \A j, k \in Filtered : j < k => original[j] < original[k]
      /\ \A k \in Filtered : original[k] \in 1 .. at /\ Renderable(stream[original[k]])
      /\ \A i \in 1 .. at : Renderable(stream[i]) => \E k \in Filtered : original[k] = i
  BY DEF OutputInv, FilterExact, FilteredBlock
<1>4. \A b : Renderable(b)' <=> Renderable(b)
  BY DEF Renderable
<1>5. /\ \A j, k \in Filtered' : j < k => original'[j] < original'[k]
      /\ \A k \in Filtered' : original'[k] \in 1 .. at + 1 /\ Renderable(stream[original'[k]])
      /\ \A i \in 1 .. at + 1 : Renderable(stream[i]) => \E k \in Filtered' : original'[k] = i
  <2>1. CASE Renderable(stream[at + 1])
    <3>1. /\ Filtered' = 1 .. Len(original) + 1
          /\ original'[Len(original) + 1] = at + 1
          /\ \A k \in Filtered : original'[k] = original[k]
      BY <2>1, <1>2 DEF Filtered
    <3>2. ASSUME NEW j \in Filtered', NEW k \in Filtered', j < k
          PROVE  original'[j] < original'[k]
      <4>1. j \in Filtered
        BY <3>1, <3>2, <1>2
      <4>2. k \in Filtered \/ k = Len(original) + 1
        BY <3>1, <1>2
      <4>. QED  BY <4>1, <4>2, <3>1, <3>2, <1>2, <1>3
    <3>3. ASSUME NEW k \in Filtered'
          PROVE  original'[k] \in 1 .. at + 1 /\ Renderable(stream[original'[k]])
      <4>1. k \in Filtered \/ k = Len(original) + 1
        BY <3>1, <1>2
      <4>. QED  BY <4>1, <3>1, <2>1, <1>2, <1>3
    <3>4. ASSUME NEW i \in 1 .. at + 1, Renderable(stream[i])
          PROVE  \E k \in Filtered' : original'[k] = i
      <4>1. CASE i = at + 1
        <5>1. Len(original) + 1 \in Filtered'
          BY <3>1, <1>2
        <5>. QED  BY <5>1, <4>1, <3>1
      <4>2. CASE i \in 1 .. at
        <5>1. PICK k \in Filtered : original[k] = i
          BY <4>2, <3>4, <1>3
        <5>. QED  BY <5>1, <3>1, <1>2
      <4>3. i = at + 1 \/ i \in 1 .. at
        BY <1>2
      <4>. QED  BY <4>1, <4>2, <4>3
    <3>. QED  BY <3>2, <3>3, <3>4
  <2>2. CASE ~Renderable(stream[at + 1])
    <3>1. Filtered' = Filtered /\ original' = original
      BY <2>2 DEF Filtered
    <3>2. \A i \in 1 .. at + 1 : i \in 1 .. at \/ i = at + 1
      BY <1>2
    <3>. QED  BY <2>2, <3>1, <3>2, <1>2, <1>3
  <2>. QED  BY <2>1, <2>2
<1>6. FilterExact'
  BY <1>2, <1>4, <1>5 DEF FilterExact, FilteredBlock
<1>7. DecisionsFit' /\ RenderExact'
  BY <1>1 DEF DecisionsFit, RenderExact
<1>8. ResultExact'
  BY <1>1 DEF OutputInv, ResultExact
<1>. QED  BY <1>6, <1>7, <1>8 DEF OutputInv

\* Past the filter, the filtered blocks stay what they are.
LEMMA FilterDone ==
  ASSUME TypeOK, FilterExact, UNCHANGED <<stream, config, original>>, pc' # "filter",
         pc = "filter" => at = Len(stream)
  PROVE  FilterExact'
<1>1. pc = "filter" => 1 .. at = DOMAIN stream
  BY StreamOfBlocks
<1>. QED  BY <1>1 DEF FilterExact, Filtered, FilteredBlock, Renderable

\* So do the decisions.
LEMMA SameFit ==
  ASSUME DecisionsFit, UNCHANGED <<stream, config, original, priorities, decisions>>
  PROVE  DecisionsFit'
BY DEF DecisionsFit, FilteredBlock, Budgeted, Priority

\* Before the rendering there is no output.
LEMMA NoPiecesYet ==
  ASSUME TypeOK, parts' = <<>>, at' = 0, UNCHANGED <<stream, config, original>>
  PROVE  PiecesInOrder' /\ \A k \in Looked' : ~Fails(k)'
<1>1. Looked' = {}
  BY StreamOfBlocks DEF Looked, Filtered
<1>. QED  BY <1>1 DEF PiecesInOrder, Kept

\* The decisions of the paths without the engine.
LEMMA DecideStepExact ==
  ASSUME IInv, OutputInv, DecideSummaries \/ DecideFull
  PROVE  OutputInv'
<1>. USE DEF AfterFilter, Goto, args
<1>1. TypeOK /\ pc = "filter" /\ at = Len(stream) /\ parts = <<>>
  BY DEF IInv, LoopsInOrder, DecideSummaries, DecideFull
<1>2. /\ UNCHANGED <<stream, config, original, parts, result>> /\ pc' = "render" /\ at' = 0
      /\ config.verbosity # "Adaptive" \/ config.budget = NoBudget
  BY DEF DecideSummaries, DecideFull, Decide
<1>3. Filtered = 1 .. Len(original) /\ Len(original) \in Nat
  BY <1>1, StreamOfBlocks
<1>4. decisions' = [k \in Filtered |->
        Plain(IF config.verbosity = "Summary" /\ HasSummary(FilteredBlock(k))
              THEN "Summary" ELSE "Full")]
  <2>1. CASE DecideSummaries
    BY <2>1 DEF DecideSummaries, Decide
  <2>2. CASE DecideFull
    <3>1. config.verbosity # "Summary"
      BY <2>2 DEF DecideFull
    <3>. QED  BY <2>2, <3>1 DEF DecideFull, Decide
  <2>. QED  BY <2>1, <2>2
<1>5. FilterExact'
  BY <1>1, <1>2, FilterDone DEF OutputInv
<1>6. DecisionsFit'
  BY <1>2, <1>4, Decisions DEF DecisionsFit, FilteredBlock, Budgeted, Plain
<1>7. Len(decisions') = Len(original)
  BY <1>3, <1>4
<1>8. RenderExact'
  BY <1>1, <1>2, <1>3, <1>7, NoPiecesYet DEF RenderExact
<1>9. ResultExact'
  BY <1>1, <1>2 DEF OutputInv, ResultExact
<1>. QED  BY <1>5, <1>6, <1>8, <1>9 DEF OutputInv

\* What the engine decides of a block fits the block.
LEMMA ArmFits ==
  ASSUME IInv, NEW k \in pending, Allocate(k)
  PROVE  \E d, left :
           /\ Assign(k, d, left)
           /\ d.render = "Summary" => HasSummary(FilteredBlock(k))
           /\ d.render = "Placeholder" => d = MakePlaceholder(FilteredBlock(k))
           /\ Priority(k) = Background => ~NeedsContent(d)
<1>. USE DEF Critical, High, Normal, Low, Background, NeedsContent
<1>1. IsNext(k)
  BY DEF Allocate, AllocateCritical, AllocateHigh, AllocateNormal, AllocateLow,
     AllocateBackground
<1>2. FilteredBlock(k) \in ContentBlock
  BY <1>1, NextInHand
<1>3. /\ \A r \in {"Full", "Summary", "Omit"} : Plain(r).render = r
      /\ MakePlaceholder(FilteredBlock(k)).render = "Placeholder"
  BY <1>2, Decisions
<1>4. CASE AllocateCritical(k)
  BY <1>3, <1>4 DEF AllocateCritical
<1>5. CASE AllocateHigh(k)
  BY <1>3, <1>5 DEF AllocateHigh, SummaryFits
<1>6. CASE AllocateNormal(k)
  BY <1>3, <1>6 DEF AllocateNormal, SummaryFits, Withhold
<1>7. CASE AllocateLow(k)
  BY <1>3, <1>7 DEF AllocateLow, SummaryFits, Withhold
<1>8. CASE AllocateBackground(k)
  BY <1>3, <1>8 DEF AllocateBackground
<1>. QED  BY <1>4, <1>5, <1>6, <1>7, <1>8 DEF Allocate

\* Steps of the engine.
LEMMA EngineStepExact ==
  ASSUME IInv, OutputInv,
         BeginBudget \/ Resolve \/ BeginAllocate \/ \E k \in pending : Allocate(k)
  PROVE  OutputInv'
<1>. USE DEF AfterFilter, Goto, args, engine
<1>1. TypeOK /\ LoopsInOrder /\ parts = <<>>
  BY DEF IInv, LoopsInOrder, OutputInv, RenderExact, BeginBudget, Resolve, BeginAllocate,
     Allocate, AllocateCritical, AllocateHigh, AllocateNormal, AllocateLow,
     AllocateBackground, IsNext
<1>2. CASE BeginBudget
  <2>1. FilterExact'
    BY <1>1, <1>2, FilterDone DEF BeginBudget, OutputInv
  <2>2. DecisionsFit' /\ RenderExact'
    BY <1>1, <1>2 DEF BeginBudget, LoopsInOrder, DecisionsFit, RenderExact
  <2>3. ResultExact'
    BY <1>1, <1>2 DEF BeginBudget, OutputInv, ResultExact
  <2>. QED  BY <2>1, <2>2, <2>3 DEF OutputInv
<1>3. CASE Resolve
  <2>1. FilterExact'
    BY <1>1, <1>3, FilterDone DEF Resolve, OutputInv
  <2>2. DecisionsFit' /\ RenderExact'
    BY <1>1, <1>3 DEF Resolve, LoopsInOrder, DecisionsFit, RenderExact
  <2>3. ResultExact'
    BY <1>1, <1>3 DEF Resolve, OutputInv, ResultExact
  <2>. QED  BY <2>1, <2>2, <2>3 DEF OutputInv
<1>4. CASE BeginAllocate
  <2>1. FilterExact'
    BY <1>1, <1>4, FilterDone DEF BeginAllocate, OutputInv
  <2>2. DecisionsFit'
    <3>1. decisions' = [k \in Filtered |-> Plain("Omit")] /\ UNCHANGED config
          /\ config.verbosity = "Adaptive" /\ config.budget # NoBudget
      BY <1>1, <1>4 DEF BeginAllocate, LoopsInOrder
    <3>2. DOMAIN decisions' # {} => Budgeted'
      BY <3>1 DEF Budgeted
    <3>. QED  BY <3>1, <3>2, Decisions DEF DecisionsFit, NeedsContent
  <2>3. RenderExact'
    BY <1>1, <1>4 DEF BeginAllocate, RenderExact
  <2>4. ResultExact'
    BY <1>1, <1>4 DEF BeginAllocate, OutputInv, ResultExact
  <2>. QED  BY <2>1, <2>2, <2>3, <2>4 DEF OutputInv
<1>5. ASSUME NEW k \in pending, Allocate(k)
      PROVE  OutputInv'
  <2>1. PICK d, left :
          /\ Assign(k, d, left)
          /\ d.render = "Summary" => HasSummary(FilteredBlock(k))
          /\ d.render = "Placeholder" => d = MakePlaceholder(FilteredBlock(k))
          /\ Priority(k) = Background => ~NeedsContent(d)
    BY <1>5, ArmFits
  <2>2. pc = "allocate"
    BY <1>5 DEF Allocate, AllocateCritical, AllocateHigh, AllocateNormal, AllocateLow,
       AllocateBackground, IsNext
  <2>3. UNCHANGED <<stream, config, pc, at, original, priorities, parts, result>>
    BY <2>1 DEF Assign
  <2>4. FilterExact'
    BY <1>1, <2>2, <2>3, FilterDone DEF OutputInv
  <2>5. DecisionsFit'
    <3>1. decisions' = [decisions EXCEPT ![k] = d] /\ DOMAIN decisions' = DOMAIN decisions
      BY <2>1 DEF Assign
    <3>2. \A j : Priority(j)' = Priority(j) /\ FilteredBlock(j)' = FilteredBlock(j)
      BY <2>3 DEF Priority, FilteredBlock
    <3>3. DOMAIN decisions # {} => Budgeted /\ Budgeted'
      BY <1>1, <2>2, <2>3, <3>1 DEF LoopsInOrder, Budgeted
    <3>4. ASSUME NEW j \in DOMAIN decisions
          PROVE  LET b == FilteredBlock(j)  e == decisions'[j] IN
                 /\ e.render = "Summary" => HasSummary(b)
                 /\ e.render = "Placeholder" => e = MakePlaceholder(b)
                 /\ Priority(j) = Background => ~NeedsContent(e)
      <4>1. CASE j = k
        BY <4>1, <3>1, <2>1
      <4>2. CASE j # k
        <5>1. decisions'[j] = decisions[j]
          BY <4>2, <3>1
        <5>. QED  BY <5>1, <3>3 DEF OutputInv, DecisionsFit
      <4>. QED  BY <4>1, <4>2
    <3>. QED  BY <3>1, <3>2, <3>3, <3>4 DEF DecisionsFit
  <2>6. RenderExact'
    BY <1>1, <2>2, <2>3 DEF RenderExact
  <2>7. ResultExact'
    BY <1>1, <2>2, <2>3 DEF OutputInv, ResultExact
  <2>. QED  BY <2>4, <2>5, <2>6, <2>7 DEF OutputInv
<1>. QED  BY <1>2, <1>3, <1>4, <1>5

\* The piece of a block that is not omitted is added at the end.
LEMMA RenderAdds ==
  ASSUME IInv, OutputInv, Render
  PROVE  PiecesInOrder' /\ \A k \in Looked' : ~Fails(k)'
<1>. USE DEF Render, args, engine
<1>. DEFINE k == at + 1
            omitted == decisions[k].render = "Omit"
<1>1. /\ TypeOK /\ FilterExact /\ DecisionsFit /\ PiecesInOrder
      /\ Len(decisions) = Len(original) /\ \A j \in Looked : ~Fails(j)
  BY DEF IInv, OutputInv, RenderExact
<1>2. /\ at \in Nat /\ Len(original) \in Nat /\ at < Len(original)
      /\ Filtered = 1 .. Len(original) /\ decisions \in Seq(Decision)
      /\ \A j \in Filtered : original[j] \in Nat
  BY <1>1, StreamOfBlocks DEF TypeOK
<1>3. k \in Filtered /\ k \notin Looked /\ Looked = 1 .. at /\ Looked' = Looked \cup {k}
  BY <1>2 DEF Looked, Filtered
<1>4. /\ \A j : Piece(j)' = Piece(j) /\ (Fails(j)' <=> Fails(j))
      /\ Budgeted' <=> Budgeted
  BY DEF Piece, Fails, NeedsContent, FilteredBlock, Budgeted
<1>5. \A j \in Looked' : ~Fails(j)'
  BY <1>1, <1>3, <1>4
<1>6. Kept' = IF omitted THEN Kept ELSE Kept \cup {k}
  BY <1>3 DEF Kept
<1>7. /\ \A j \in Kept : j \in Looked /\ Piece(j).block = original[j]
      /\ Piece(k).block = original[k]
  BY DEF Kept, Piece
<1>8. \A j \in Looked : original[j] < original[k]
  BY <1>1, <1>2, <1>3 DEF FilterExact, Looked
<1>9. /\ parts \in Seq({Piece(j) : j \in Kept})
      /\ \A m, n \in DOMAIN parts : m < n => parts[m].block < parts[n].block
      /\ \A j \in Kept : \E n \in DOMAIN parts : parts[n] = Piece(j)
      /\ ~Budgeted => DOMAIN parts = Looked /\ \A j \in Looked : parts[j] = Piece(j)
  BY <1>1 DEF PiecesInOrder
<1>10. CASE omitted
  <2>1. parts' = parts /\ Kept' = Kept
    BY <1>6, <1>10
  <2>2. Budgeted
    <3>1. k \in DOMAIN decisions
      BY <1>1, <1>2, <1>3
    <3>. QED  BY <3>1, <1>1, <1>10, Decisions DEF DecisionsFit
  <2>3. {Piece(j) : j \in Kept}' = {Piece(j) : j \in Kept}
    BY <2>1, <1>4
  <2>. QED  BY <2>1, <2>2, <2>3, <1>4, <1>5, <1>9 DEF PiecesInOrder
<1>11. CASE ~omitted
  <2>1. parts' = Append(parts, Piece(k)) /\ Kept' = Kept \cup {k}
    BY <1>6, <1>11 DEF Piece
  <2>. DEFINE old == {Piece(j) : j \in Kept}
              new == {Piece(j) : j \in Kept \cup {k}}
  <2>2. old \subseteq new /\ Piece(k) \in new /\ {Piece(j) : j \in Kept}' = new
    BY <2>1, <1>4
  <2>3. parts \in Seq(old) /\ parts \in Seq(new) /\ Len(parts) \in Nat
    <3>1. parts \in Seq(old)
      BY <1>9
    <3>. HIDE DEF old, new
    <3>. QED  BY <3>1, <2>2
  <2>4. \A n \in DOMAIN parts : parts[n].block < original[k] /\ parts[n].block \in Nat
    <3> SUFFICES ASSUME NEW n \in DOMAIN parts
                 PROVE  parts[n].block < original[k] /\ parts[n].block \in Nat
      OBVIOUS
    <3>1. parts[n] \in old
      <4>. HIDE DEF old
      <4>. QED  BY <2>3
    <3>2. PICK j \in Kept : parts[n] = Piece(j)
      BY <3>1
    <3>. QED  BY <3>2, <1>2, <1>7, <1>8 DEF Looked
  <2>. HIDE DEF old, new, k
  <2>5. /\ parts' \in Seq(new) /\ DOMAIN parts = 1 .. Len(parts)
        /\ DOMAIN parts' = 1 .. Len(parts) + 1
        /\ \A n \in DOMAIN parts : parts'[n] = parts[n]
        /\ parts'[Len(parts) + 1] = Piece(k)
    BY <2>1, <2>2, <2>3
  <2>6. ASSUME NEW m \in DOMAIN parts', NEW n \in DOMAIN parts', m < n
        PROVE  parts'[m].block < parts'[n].block
    <3>1. m \in DOMAIN parts
      BY <2>3, <2>5, <2>6
    <3>2. n \in DOMAIN parts \/ n = Len(parts) + 1
      BY <2>3, <2>5
    <3>. QED  BY <3>1, <3>2, <2>4, <2>5, <2>6, <1>7, <1>9
  <2>7. ASSUME NEW j \in Kept'
        PROVE  \E n \in DOMAIN parts' : parts'[n] = Piece(j)
    <3>1. Len(parts) + 1 \in DOMAIN parts' /\ DOMAIN parts \subseteq DOMAIN parts'
      BY <2>3, <2>5
    <3>2. j \in Kept \/ j = k
      BY <2>1
    <3>. QED  BY <3>1, <3>2, <2>5, <1>9
  <2>8. ASSUME ~Budgeted
        PROVE  DOMAIN parts' = Looked' /\ \A j \in Looked' : parts'[j] = Piece(j)
    <3>1. DOMAIN parts = 1 .. at
      BY <2>8, <1>3, <1>9
    <3>2. Len(parts) = at
      BY <3>1, <2>3, <2>5, <1>2
    <3>. QED  BY <3>2, <2>5, <2>8, <1>2, <1>3, <1>9 DEF k
  <2>. QED  BY <2>2, <2>5, <2>6, <2>7, <2>8, <1>4, <1>5 DEF PiecesInOrder
<1>. QED  BY <1>10, <1>11

\* Steps of the rendering, and the ends of a call.
LEMMA RenderStepExact ==
  ASSUME IInv, OutputInv,
         NothingLeft \/ EndAllocate \/ Render \/ RenderFails \/ AllOmitted \/ Rendered
  PROVE  OutputInv'
<1>. USE DEF Return, Goto, args, engine
<1>1. TypeOK /\ LoopsInOrder
  BY DEF IInv
<1>2. /\ UNCHANGED <<stream, config, original, priorities, decisions>> /\ pc' # "filter"
      /\ pc = "filter" => at = Len(stream)
  BY DEF NothingLeft, EndAllocate, Render, RenderFails, AllOmitted, Rendered
<1>3. FilterExact' /\ DecisionsFit'
  BY <1>1, <1>2, FilterDone, SameFit DEF OutputInv
<1>4. /\ Filtered = 1 .. Len(original) /\ Len(original) \in Nat /\ Filtered' = Filtered
      /\ \A k : Fails(k)' <=> Fails(k)
  BY <1>1, <1>2, StreamOfBlocks DEF Filtered, Fails, NeedsContent, FilteredBlock
<1>5. CASE NothingLeft
  <2>1. Filtered = {} /\ parts = <<>> /\ decisions = <<>>
    BY <1>1, <1>4, <1>5 DEF NothingLeft, NoFiltered, LoopsInOrder
  <2>2. PiecesInOrder' /\ \A k \in Looked' : ~Fails(k)'
    BY <2>1, <1>4, <1>5 DEF NothingLeft, PiecesInOrder, Looked, Kept
  <2>3. RenderExact' /\ ResultExact'
    BY <2>1, <2>2, <1>2, <1>5 DEF NothingLeft, RenderExact, ResultExact, NoFiltered
  <2>. QED  BY <2>3, <1>3 DEF OutputInv
<1>6. CASE EndAllocate
  <2>1. RenderExact'
    BY <1>1, <1>4, <1>6, NoPiecesYet
    DEF EndAllocate, OutputInv, RenderExact, LoopsInOrder
  <2>2. ResultExact'
    BY <1>6 DEF EndAllocate, OutputInv, ResultExact
  <2>. QED  BY <2>1, <2>2, <1>3 DEF OutputInv
<1>7. CASE Render
  <2>1. RenderExact'
    <3>1. at + 1 <= Len(original)
      BY <1>1, <1>4, <1>7 DEF Render, TypeOK
    <3>. QED  BY <3>1, <1>7, RenderAdds DEF Render, OutputInv, RenderExact
  <2>2. ResultExact'
    BY <1>7 DEF Render, OutputInv, ResultExact
  <2>. QED  BY <2>1, <2>2, <1>3 DEF OutputInv
<1>8. CASE RenderFails \/ AllOmitted \/ Rendered
  <2>1. /\ pc = "render" /\ pc' = "done" /\ UNCHANGED <<at, parts>>
        /\ PiecesInOrder /\ Len(decisions) = Len(original)
        /\ \A k \in Looked : ~Fails(k)
    BY <1>8 DEF RenderFails, AllOmitted, Rendered, OutputInv, RenderExact
  <2>2. PiecesInOrder' /\ \A k \in Looked' : ~Fails(k)'
    BY <2>1, <1>2, <1>4 DEF PiecesInOrder, Looked, Kept, Piece, FilteredBlock, Budgeted
  <2>3. RenderExact'
    BY <2>1, <2>2 DEF RenderExact
  <2>4. RenderFails => at + 1 \in Filtered
    BY <1>1, <1>4 DEF RenderFails, TypeOK
  <2>5. Rendered => Filtered # {}
    BY <2>1 DEF Rendered, PiecesInOrder, Kept, Looked
  <2>6. ResultExact'
    BY <2>1, <2>4, <2>5, <1>2, <1>4, <1>8
    DEF RenderFails, AllOmitted, Rendered, ResultExact, NoFiltered
  <2>. QED  BY <2>3, <2>6, <1>3 DEF OutputInv
<1>. QED  BY <1>5, <1>6, <1>7, <1>8

\* Every step keeps both invariants.
LEMMA NextOutput == IInv /\ OutputInv /\ [Next]_vars => OutputInv'
<1> SUFFICES ASSUME IInv, OutputInv, [Next]_vars PROVE OutputInv'
  OBVIOUS
<1>1. CASE Next
  BY <1>1, FilterStepExact, DecideStepExact, EngineStepExact, RenderStepExact DEF Next
<1>2. CASE UNCHANGED vars
  <2>. USE <1>2 DEF vars, args, engine
  <2>1. FilterExact' /\ DecisionsFit'
    BY SameFit DEF OutputInv, FilterExact, Filtered, FilteredBlock, Renderable
  <2>2. RenderExact'
    BY DEF OutputInv, RenderExact, PiecesInOrder, Looked, Kept, Piece, Fails, NeedsContent,
       Filtered, FilteredBlock, Budgeted
  <2>3. ResultExact'
    BY DEF OutputInv, ResultExact, NoFiltered, Filtered, Fails, NeedsContent, FilteredBlock
  <2>. QED  BY <2>1, <2>2, <2>3 DEF OutputInv
<1>. QED  BY <1>1, <1>2

\* The output is at every moment what the decisions make of the blocks looked at.
THEOREM OutputExact == Spec => []OutputInv
BY InitOutput, NextOutput, InvariantHolds, PTL DEF Spec

\* Whatever piece is made of a block shows its type, what describes it, and no count of
\* tokens but its own.
LEMMA PieceOfBlock ==
  ASSUME IInv, OutputInv, Len(decisions) = Len(original), NEW k \in Filtered,
         decisions[k].render # "Omit"
  PROVE  LET b == FilteredBlock(k)  piece == Piece(k).shown IN
         /\ piece.type = b.type
         /\ Description(b.type) \subseteq piece.fields
         /\ piece.tokens \in {0, FullTokens(b)}
<1>. DEFINE b == FilteredBlock(k)
            d == decisions[k]
<1>1. /\ TypeOK /\ FilterKeeps /\ DecisionsFit /\ k \in DOMAIN decisions
      /\ b \in ContentBlock /\ config.mode \in Modes /\ d \in Decision
  <2>1. TypeOK /\ FilterKeeps /\ DecisionsFit
    BY DEF IInv, OutputInv
  <2>2. k \in DOMAIN decisions /\ decisions \in Seq(Decision)
    BY <2>1, StreamOfBlocks DEF TypeOK
  <2>3. config.mode \in Modes
    BY <2>1, StreamOfBlocks DEF Config
  <2>. QED  BY <2>1, <2>2, <2>3 DEF FilterKeeps
<1>2. \A summarized \in BOOLEAN :
        Description(b.type) \subseteq Fields(config.mode, b.type, summarized)
  <2>1. b.type \in ContentTypes
    BY <1>1 DEF ContentBlock
  <2>. QED
    BY <2>1, <1>1 DEF Modes, Description, Fields, XmlFields, MarkdownFields, MinimalFields,
       ContentTypes, StrictTypes
<1>3. \A use \in BOOLEAN :
        LET piece == RenderInner(config.mode, b, use) IN
        /\ piece.type = b.type /\ Description(b.type) \subseteq piece.fields /\ piece.tokens = 0
  BY <1>2 DEF RenderInner, Summarized
<1>4. CASE d.render \in {"Full", "Summary"}
  <2>1. Piece(k).shown \in {RenderInner(config.mode, b, use) : use \in BOOLEAN}
    BY <1>4 DEF Piece, RenderItem
  <2>. QED  BY <2>1, <1>3
<1>5. CASE d.render = "Placeholder"
  <2>1. Piece(k).shown = RenderPlaceholder(MakePlaceholder(b))
    BY <1>1, <1>5 DEF DecisionsFit, Piece, RenderItem
  <2>. QED  BY <2>1 DEF RenderPlaceholder, MakePlaceholder
<1>6. d.render \in {"Full", "Summary", "Omit", "Placeholder"}
  BY <1>1 DEF Decision
<1>. QED  BY <1>4, <1>5, <1>6

\* For every stream, filter and budget, a finished output has a piece of its own, in
\* order, for every block that passes the filter, but for Background ones.
THEOREM OutputIsComplete == Spec => []OutputComplete
<1>1. IInv /\ OutputInv => OutputComplete
  <2> SUFFICES ASSUME IInv, OutputInv, result = "ok" PROVE OutputComplete
    BY DEF OutputComplete
  <2>. DEFINE kept == {i \in DOMAIN stream : Renderable(stream[i])}
              shown == {parts[n].block : n \in DOMAIN parts}
  <2>1. /\ TypeOK /\ FilterExact /\ PiecesInOrder /\ pc = "done" /\ at = Len(original)
        /\ Len(decisions) = Len(original) /\ Degraded /\ DecisionsFit /\ pending = {}
    BY DEF IInv, OutputInv, ResultExact, RenderExact, LoopsInOrder
  <2>2. /\ Filtered = 1 .. Len(original) /\ Len(original) \in Nat /\ Looked = Filtered
        /\ DOMAIN decisions = Filtered /\ Allocated = Filtered
    BY <2>1, StreamOfBlocks DEF TypeOK, Looked, Allocated
  <2>3. ASSUME NEW n \in DOMAIN parts
        PROVE  \E k \in Filtered : decisions[k].render # "Omit" /\ parts[n] = Piece(k)
    <3>. DEFINE pieces == {Piece(k) : k \in Kept}
    <3>1. parts \in Seq(pieces)
      BY <2>1 DEF PiecesInOrder
    <3>2. parts[n] \in pieces
      <4>. HIDE DEF pieces
      <4>. QED  BY <3>1
    <3>. QED  BY <3>2 DEF Kept, Looked
  <2>4. ASSUME NEW n \in DOMAIN parts
        PROVE  LET b == stream[parts[n].block]  piece == parts[n].shown IN
               /\ parts[n].block \in kept
               /\ piece.type = b.type
               /\ Description(b.type) \subseteq piece.fields
               /\ piece.tokens \in {0, FullTokens(b)}
    <3>1. PICK k \in Filtered : decisions[k].render # "Omit" /\ parts[n] = Piece(k)
      BY <2>3
    <3>2. parts[n].block = original[k] /\ stream[parts[n].block] = FilteredBlock(k)
      BY <3>1 DEF Piece, FilteredBlock
    <3>3. original[k] \in kept
      BY <2>1 DEF FilterExact, FilteredBlock
    <3>. QED  BY <3>1, <3>2, <3>3, <2>1, PieceOfBlock
  <2>5. ASSUME NEW i \in kept \ shown
        PROVE  Budgeted /\ Annotated(i) = Background
    <3>1. PICK k \in Filtered : original[k] = i
      BY <2>1 DEF FilterExact
    <3>2. decisions[k].render = "Omit"
      <4> SUFFICES ASSUME decisions[k].render # "Omit" PROVE FALSE
        OBVIOUS
      <4>1. PICK n \in DOMAIN parts : parts[n] = Piece(k)
        BY <2>1, <2>2 DEF PiecesInOrder, Kept
      <4>. QED  BY <4>1, <3>1 DEF Piece
    <3>3. Budgeted
      BY <3>2, <2>1, <2>2, Decisions DEF DecisionsFit
    <3>4. Priority(k) = Background
      BY <3>2, <3>3, <2>1, <2>2 DEF Degraded
    <3>. QED  BY <3>1, <3>3, <3>4, PriorityIsAnnotated
  <2>6. \A m, n \in DOMAIN parts : m < n => parts[m].block < parts[n].block
    BY <2>1 DEF PiecesInOrder
  <2>. QED  BY <2>4, <2>5, <2>6 DEF OutputComplete
<1>. QED  BY <1>1, InvariantHolds, OutputExact, PTL

\* For every stream, filter and budget, a call fails only on bytes its output would
\* have to show.
THEOREM FailuresAreShown == Spec => []FailsOnlyOnShown
<1>1. IInv /\ OutputInv => FailsOnlyOnShown
  <2> SUFFICES ASSUME IInv, OutputInv, result = "InvalidContent"
               PROVE  \E i \in DOMAIN stream :
                        /\ Renderable(stream[i]) /\ stream[i].type \in StrictTypes
                        /\ ~stream[i].utf8
                        /\ Budgeted =>
                             /\ Annotated(i) # Background
                             /\ Annotated(i) = Low =>
                                  HasSummary(stream[i]) /\ stream[i].type # "Code"
    BY DEF FailsOnlyOnShown
  <2>. DEFINE k == at + 1
              i == original[k]
  <2>1. /\ TypeOK /\ FilterExact /\ DecisionsFit /\ Degraded
        /\ pc = "done" /\ pending = {} /\ k \in Filtered /\ Fails(k)
        /\ Len(decisions) = Len(original)
    BY DEF IInv, OutputInv, ResultExact, LoopsInOrder, NoFiltered, Filtered
  <2>2. k \in DOMAIN decisions /\ Allocated = Filtered
    BY <2>1, StreamOfBlocks DEF TypeOK, Allocated
  <2>3. i \in DOMAIN stream /\ Renderable(stream[i])
    BY <2>1 DEF FilterExact, FilteredBlock
  <2>4. /\ NeedsContent(decisions[k])
        /\ stream[i].type \in StrictTypes /\ ~stream[i].utf8
        /\ ~Summarized(stream[i], decisions[k].render = "Summary")
    BY <2>1 DEF Fails, InvalidContent, FilteredBlock
  <2>5. ASSUME Budgeted
        PROVE  /\ Annotated(i) # Background
               /\ Annotated(i) = Low => HasSummary(stream[i]) /\ stream[i].type # "Code"
    <3>1. Priority(k) = Annotated(i)
      BY <2>1, <2>5, PriorityIsAnnotated
    <3>2. Priority(k) # Background
      BY <2>1, <2>2, <2>4, <2>5 DEF DecisionsFit
    <3>3. ASSUME Priority(k) = Low
          PROVE  HasSummary(stream[i]) /\ stream[i].type # "Code"
      <4>1. decisions[k].render # "Full"
        BY <2>1, <2>2, <2>5, <3>3 DEF Degraded
      <4>2. decisions[k].render = "Summary"
        BY <4>1, <2>4 DEF NeedsContent
      <4>3. HasSummary(stream[i])
        BY <4>2, <2>1, <2>2 DEF DecisionsFit, FilteredBlock
      <4>. QED  BY <4>2, <4>3, <2>4 DEF Summarized
    <3>. QED  BY <3>1, <3>2, <3>3
  <2>. QED  BY <2>3, <2>4, <2>5
<1>. QED  BY <1>1, InvariantHolds, OutputExact, PTL

\* For every stream and filter, Verbosity::Summary gives the output of render_all.
THEOREM SummaryPathsAgree == Spec => []SummaryIsRenderAll
<1>1. IInv /\ OutputInv => SummaryIsRenderAll
  <2>. DEFINE blocks == [k \in Filtered |-> FilteredBlock(k)]
              bad == {k \in DOMAIN blocks : InvalidContent(blocks[k], TRUE)}
              pieces == [k \in DOMAIN blocks |-> RenderInner(config.mode, blocks[k], TRUE)]
  <2> SUFFICES ASSUME IInv, OutputInv,
                      config.verbosity = "Summary", pc = "done", ~NoFiltered
               PROVE  IF bad # {} THEN result = "InvalidContent"
                      ELSE result = "ok" /\ [n \in DOMAIN parts |-> parts[n].shown] = pieces
    BY DEF SummaryIsRenderAll, RenderAll
  <2>1. /\ TypeOK /\ DecisionsFit /\ PiecesInOrder /\ ResultExact
        /\ \A k \in Looked : ~Fails(k)
        /\ Len(decisions) = Len(original) /\ ~Budgeted
    BY DEF IInv, OutputInv, ResultExact, RenderExact, Budgeted
  <2>2. /\ DOMAIN decisions = Filtered /\ Filtered = 1 .. Len(original) /\ Filtered # {}
        /\ Len(original) \in Nat
    BY <2>1, StreamOfBlocks DEF TypeOK, NoFiltered
  <2>3. \A k \in Filtered :
          decisions[k] = Plain(IF HasSummary(FilteredBlock(k)) THEN "Summary" ELSE "Full")
    BY <2>1, <2>2 DEF DecisionsFit
  <2>4. \A k \in Filtered :
          /\ Fails(k) <=> InvalidContent(FilteredBlock(k), TRUE)
          /\ Piece(k).shown = RenderInner(config.mode, FilteredBlock(k), TRUE)
    BY <2>3, Decisions
    DEF Fails, NeedsContent, InvalidContent, Summarized, Piece, RenderItem, RenderInner
  <2>5. CASE result = "InvalidContent"
    BY <2>1, <2>4, <2>5 DEF ResultExact
  <2>6. CASE at = Len(original)
    <3>1. Looked = Filtered
      BY <2>2, <2>6 DEF Looked
    <3>2. bad = {}
      BY <2>1, <2>4, <3>1
    <3>3. DOMAIN parts = Filtered /\ \A k \in Filtered : parts[k] = Piece(k)
      BY <2>1, <3>1 DEF PiecesInOrder
    <3>4. [n \in DOMAIN parts |-> parts[n].shown] = pieces
      BY <3>3, <2>4
    <3>5. result \in {"ok", "EmptyInput", "InvalidContent"} /\ parts # <<>>
      <4>1. result # "none"
        BY <2>1 DEF ResultExact
      <4>2. DOMAIN <<>> = 1 .. 0
        OBVIOUS
      <4>. QED  BY <4>1, <4>2, <3>3, <2>1, <2>2 DEF TypeOK
    <3>6. result = "ok"
      <4>1. result # "EmptyInput"
        BY <3>5, <2>1 DEF ResultExact
      <4>2. result # "InvalidContent"
        BY <2>1, <2>2, <2>6 DEF ResultExact
      <4>. QED  BY <3>5, <4>1, <4>2
    <3>. QED  BY <3>2, <3>4, <3>6
  <2>7. result = "InvalidContent" \/ at = Len(original)
    BY <2>1 DEF TypeOK, ResultExact
  <2>. QED  BY <2>5, <2>6, <2>7
<1>. QED  BY <1>1, InvariantHolds, OutputExact, PTL

-----------------------------------------------------------------------------
(* What the decisions cost.                                                *)

\* The sums of natural numbers are natural numbers, each the one before plus a value.
LEMMA SumsStep ==
  ASSUME NEW c \in [Nat -> Nat]
  PROVE  /\ Sums(c) \in [Nat -> Nat] /\ Sums(c)[0] = 0
         /\ \A n \in Nat : Sums(c)[n + 1] = Sums(c)[n] + c[n + 1]
<1>. DEFINE h == [p \in Nat \X Nat |-> p[2] + c[p[1] + 1]]
            s == Sums(c)
            T == {n \in Nat : s[n] \in Nat}
<1>1. PICK f : Recursion(f, Nat, 0, h)
  <2>1. \A n \in Nat : \A x \in Nat : h[<<n, x>>] \in Nat
    OBVIOUS
  <2>2. 0 \in Nat
    OBVIOUS
  <2>. HIDE DEF h
  <2>. QED  BY <2>1, <2>2, ByRecursion
<1>2. f \in [Nat -> Nat] /\ f[0] = 0 /\ \A n \in Nat : f[n + 1] = f[n] + c[n + 1]
  BY <1>1 DEF Recursion
<1>3. f = [n \in Nat |-> IF n = 0 THEN 0 ELSE f[n - 1] + c[n]]
  <2>1. ASSUME NEW n \in Nat, n # 0
        PROVE  f[n] = f[n - 1] + c[n]
    <3>1. n - 1 \in Nat /\ (n - 1) + 1 = n
      BY <2>1
    <3>. QED  BY <3>1, <1>2
  <2>. QED  BY <1>2, <2>1
<1>4. s = [n \in Nat |-> IF n = 0 THEN 0 ELSE s[n - 1] + c[n]]
  BY <1>3, Zenon DEF Sums
<1>. HIDE DEF s
<1>5. s[0] = 0
  BY <1>4
<1>6. ASSUME NEW n \in Nat
      PROVE  s[n + 1] = s[n] + c[n + 1]
  <2>1. n + 1 \in Nat /\ n + 1 # 0 /\ (n + 1) - 1 = n
    OBVIOUS
  <2>. QED  BY <2>1, <1>4
<1>7. Nat \subseteq T
  <2>1. 0 \in T
    BY <1>5
  <2>2. \A n \in Nat : n \in T => n + 1 \in T
    BY <1>6
  <2>. HIDE DEF T
  <2>. QED  BY <2>1, <2>2, NatUpward
<1>8. s \in [Nat -> Nat]
  BY <1>4, <1>7
<1>. QED  BY <1>5, <1>6, <1>8 DEF s

\* e is c but for the value at k, which is x more.
Grown(c, e, k, x) ==
  /\ c \in [Nat -> Nat] /\ e \in [Nat -> Nat] /\ k \in Nat \ {0} /\ x \in Nat
  /\ e[k] = c[k] + x /\ \A n \in Nat : n # k => e[n] = c[n]

\* Where one value grows by x, so does every sum that has it, and no other.
LEMMA SumsGrow ==
  ASSUME NEW c, NEW e, NEW k, NEW x, Grown(c, e, k, x)
  PROVE  \A n \in Nat : Sums(e)[n] = Sums(c)[n] + (IF k <= n THEN x ELSE 0)
<1>. USE DEF Grown
<1>. DEFINE T == {n \in Nat : Sums(e)[n] = Sums(c)[n] + (IF k <= n THEN x ELSE 0)}
<1>1. /\ Sums(c) \in [Nat -> Nat] /\ Sums(c)[0] = 0
      /\ \A n \in Nat : Sums(c)[n + 1] = Sums(c)[n] + c[n + 1]
      /\ Sums(e) \in [Nat -> Nat] /\ Sums(e)[0] = 0
      /\ \A n \in Nat : Sums(e)[n + 1] = Sums(e)[n] + e[n + 1]
  BY SumsStep
<1>2. 0 \in T
  BY <1>1
<1>3. ASSUME NEW n \in Nat, n \in T
      PROVE  n + 1 \in T
  <2>1. e[n + 1] = c[n + 1] + (IF n + 1 = k THEN x ELSE 0)
    BY DEF T
  <2>2. Sums(e)[n] = Sums(c)[n] + (IF k <= n THEN x ELSE 0)
    BY <1>3
  <2>3. Sums(c)[n] \in Nat /\ c[n + 1] \in Nat /\ n + 1 \in Nat
    <3>1. Sums(c)[n] \in Nat
      BY <1>1
    <3>. QED  BY <3>1
  <2>4. /\ Sums(e)[n + 1] = Sums(e)[n] + e[n + 1]
        /\ Sums(c)[n + 1] = Sums(c)[n] + c[n + 1]
    BY <1>1
  <2>5. CASE k <= n
    BY <2>1, <2>2, <2>3, <2>4, <2>5
  <2>6. CASE k = n + 1
    BY <2>1, <2>2, <2>3, <2>4, <2>6
  <2>7. CASE k > n + 1
    BY <2>1, <2>2, <2>3, <2>4, <2>7
  <2>. QED  BY <2>5, <2>6, <2>7
<1>4. Nat \subseteq T
  <2>. HIDE DEF T
  <2>. QED  BY <1>2, <1>3, NatUpward
<1>. QED  BY <1>4

\* Where all values are zero, so are the sums.
LEMMA SumsOfNothing ==
  ASSUME NEW c \in [Nat -> Nat], \A n \in Nat : c[n] = 0
  PROVE  \A n \in Nat : Sums(c)[n] = 0
<1>. DEFINE T == {n \in Nat : Sums(c)[n] = 0}
<1>1. 0 \in T /\ \A n \in Nat : n \in T => n + 1 \in T
  BY SumsStep
<1>2. Nat \subseteq T
  <2>. HIDE DEF T
  <2>. QED  BY <1>1, NatUpward
<1>. QED  BY <1>2

\* What an arm pays for a block: its decision's cost, as far as the budget goes for
\* an urgent block and no more than is left for any other.
Pays(k, d, left) ==
  /\ CostOf(k, d) \in Nat
  /\ IF Priority(k) \in {Critical, High}
     THEN left = SaturatingSub(remaining, CostOf(k, d))
     ELSE CostOf(k, d) <= remaining /\ left = remaining - CostOf(k, d)

\* A decision for a filtered block costs a number of tokens.
LEMMA CostNat ==
  ASSUME TypeOK, FilterKeeps, NEW k \in Filtered, NEW d \in Decision
  PROVE  CostOf(k, d) \in Nat
<1>1. Full(k) \in Nat /\ Short(k) \in Nat
  BY PriorityKnown
<1>2. d.render \in {"Full", "Summary", "Omit", "Placeholder"}
  BY DEF Decision
<1>. QED  BY <1>1, <1>2 DEF CostOf, PLACEHOLDER_TOKEN_COST

LEMMA CostsNat ==
  ASSUME TypeOK, FilterKeeps, Len(decisions) = Len(original), NEW S, S \subseteq Filtered
  PROVE  Costs(S) \in [Nat -> Nat]
<1>1. \A k \in S : decisions[k] \in Decision
  BY StreamOfBlocks DEF TypeOK
<1>. QED  BY <1>1, CostNat DEF Costs

\* A payment to the next block in the order keeps the account.
LEMMA AssignSpends ==
  ASSUME IInv, SpentExactly, NEW k, IsNext(k), NEW d \in Decision, NEW left,
         Pays(k, d, left), Assign(k, d, left)
  PROVE  SpentExactly'
<1>. DEFINE x == CostOf(k, d)
            N == Len(original)
            rest == Allocated \ Urgent
<1>1. /\ UNCHANGED <<stream, config, pc, original, priorities>>
      /\ pc = "allocate" /\ k \in pending /\ pending' = pending \ {k}
      /\ remaining' = left /\ decisions' = [decisions EXCEPT ![k] = d]
  BY DEF Assign, IsNext, args
<1>2. /\ TypeOK /\ FilterKeeps /\ SortedOrder /\ Len(decisions) = N
      /\ config.verbosity = "Adaptive" /\ config.budget # NoBudget
  BY <1>1 DEF IInv, LoopsInOrder
<1>3. /\ Filtered = 1 .. N /\ N \in Nat /\ k \in Filtered /\ k \in Nat /\ k > 0 /\ k <= N
      /\ decisions \in Seq(Decision) /\ DOMAIN decisions = Filtered
      /\ remaining \in Nat /\ config.budget \in Nat
  BY <1>1, <1>2, StreamOfBlocks DEF TypeOK, Config
<1>4. Budgeted
  BY <1>2, <1>3 DEF Budgeted
<1>5. /\ \A j : Priority(j)' = Priority(j) /\ Full(j)' = Full(j) /\ Short(j)' = Short(j)
      /\ \A j, e : CostOf(j, e)' = CostOf(j, e)
      /\ Filtered' = Filtered /\ N' = N
  BY <1>1 DEF Priority, Full, Short, FilteredBlock, CostOf, Filtered
<1>6. /\ k \notin Allocated /\ Allocated' = Allocated \cup {k}
      /\ Urgent' = IF Priority(k) \in {Critical, High} THEN Urgent \cup {k} ELSE Urgent
      /\ Urgent \subseteq Allocated /\ Allocated \subseteq Filtered
  BY <1>1, <1>3, <1>5 DEF Allocated, Urgent
<1>7. decisions'[k] = d /\ \A j \in Allocated : decisions'[j] = decisions[j]
  BY <1>1, <1>3, <1>6
<1>8. ASSUME NEW S, S \subseteq Allocated, NEW R, R = S \/ R = S \cup {k}
      PROVE  LET e == [j \in Nat |-> IF j \in R THEN CostOf(j, decisions'[j]) ELSE 0] IN
             /\ Costs(S) \in [Nat -> Nat] /\ e \in [Nat -> Nat]
             /\ Sums(Costs(S))[N] \in Nat
             /\ Sums(e)[N] = Sums(Costs(S))[N] + (IF k \in R THEN x ELSE 0)
  <2>. DEFINE c == Costs(S)
              e == [j \in Nat |-> IF j \in R THEN CostOf(j, decisions'[j]) ELSE 0]
              y == IF k \in R THEN x ELSE 0
  <2>1. c \in [Nat -> Nat]
    BY <1>2, <1>6, <1>8, CostsNat
  <2>2. y \in Nat /\ c[k] = 0
    BY <1>3, <1>6, <1>8 DEF Pays, Costs
  <2>3. e[k] = c[k] + y /\ \A j \in Nat : j # k => e[j] = c[j]
    BY <2>2, <1>3, <1>6, <1>7, <1>8 DEF Costs
  <2>4. e \in [Nat -> Nat]
    <3>1. \A j \in Nat : e[j] \in Nat
      BY <2>1, <2>2, <2>3
    <3>. QED  BY <3>1
  <2>. HIDE DEF c, e, y
  <2>5. Sums(e)[N] = Sums(c)[N] + y
    <3>1. \A n \in Nat : Sums(e)[n] = Sums(c)[n] + (IF k <= n THEN y ELSE 0)
      <4>1. Grown(c, e, k, y)
        <5>1. k \in Nat \ {0} /\ y \in Nat /\ e[k] = c[k] + y
          BY <2>2, <2>3, <1>3
        <5>2. \A j \in Nat : j # k => e[j] = c[j]
          BY <2>3
        <5>. QED  BY <2>1, <2>4, <5>1, <5>2, Zenon DEF Grown
      <4>. QED  BY <4>1, SumsGrow
    <3>2. Sums(e)[N] = Sums(c)[N] + (IF k <= N THEN y ELSE 0)
      BY <3>1, <1>3
    <3>. QED  BY <3>2, <1>3
  <2>6. Sums(c)[N] \in Nat
    BY <2>1, <1>3, SumsStep
  <2>. QED  BY <2>1, <2>4, <2>5, <2>6 DEF c, e, y
<1>9. \A S : Total(S) = Sums(Costs(S))[N]
  BY DEF Total
<1>10. /\ Total(Urgent)' = Total(Urgent) + (IF Priority(k) \in {Critical, High} THEN x ELSE 0)
       /\ Total(Urgent) \in Nat
  <2>1. Costs(Urgent)' = [j \in Nat |-> IF j \in Urgent' THEN CostOf(j, decisions'[j]) ELSE 0]
    BY <1>5 DEF Costs
  <2>2. k \in Urgent' <=> Priority(k) \in {Critical, High}
    BY <1>6
  <2>. QED  BY <2>1, <2>2, <1>5, <1>6, <1>8, <1>9 DEF Total
<1>11. /\ Total(rest)' = Total(rest) + (IF Priority(k) \in {Critical, High} THEN 0 ELSE x)
       /\ Total(rest) \in Nat
  <2>1. Costs(rest)' = [j \in Nat |-> IF j \in rest' THEN CostOf(j, decisions'[j]) ELSE 0]
    BY <1>5 DEF Costs
  <2>2. /\ rest' = IF Priority(k) \in {Critical, High} THEN rest ELSE rest \cup {k}
        /\ k \notin rest /\ rest \subseteq Allocated
    BY <1>6
  <2>3. /\ k \in rest' <=> Priority(k) \notin {Critical, High}
        /\ rest' = rest \/ rest' = rest \cup {k}
    BY <2>2
  <2>4. Total(rest)' = Sums(Costs(rest)')[N]
    BY <1>5 DEF Total
  <2>. HIDE DEF rest
  <2>5. /\ Sums(Costs(rest)')[N] = Sums(Costs(rest))[N] + (IF k \in rest' THEN x ELSE 0)
        /\ Sums(Costs(rest))[N] \in Nat
    BY <2>1, <2>2, <2>3, <1>8
  <2>. QED  BY <2>3, <2>4, <2>5, <1>9
<1>12. Total(rest) + remaining = SaturatingSub(config.budget, Total(Urgent))
  BY <1>4 DEF SpentExactly
<1>13. x \in Nat /\ remaining' = left /\ config' = config
  BY <1>1 DEF Pays
<1>14. CASE Priority(k) \in {Critical, High}
  <2>1. rest = {}
    <3> SUFFICES ASSUME NEW j \in rest PROVE FALSE
      OBVIOUS
    <3>1. Sooner(j, k)
      BY <1>1, <1>2, <1>4 DEF SortedOrder
    <3>2. Priority(j) \in Priorities /\ Priority(j) \notin {Critical, High}
      BY <1>2, <1>6, PriorityKnown DEF Urgent
    <3>. QED
      BY <3>1, <3>2, <1>14
      DEF Sooner, Priorities, Critical, High, Normal, Low, Background
  <2>2. Total(rest) = 0
    <3>1. Costs({}) \in [Nat -> Nat] /\ \A n \in Nat : Costs({})[n] = 0
      BY DEF Costs
    <3>. QED  BY <3>1, <2>1, <1>3, <1>9, SumsOfNothing
  <2>3. left = SaturatingSub(remaining, x)
    BY <1>14 DEF Pays
  <2>4. Total(rest)' + remaining' = SaturatingSub(config.budget, Total(Urgent)')
    <3>1. remaining = SaturatingSub(config.budget, Total(Urgent))
      BY <2>2, <1>3, <1>12
    <3>2. Total(Urgent)' = Total(Urgent) + x
      BY <1>10, <1>14
    <3>3. Total(rest)' = 0 /\ remaining' = SaturatingSub(remaining, x)
      BY <2>2, <2>3, <1>11, <1>13, <1>14
    <3>4. SaturatingSub(remaining, x) = SaturatingSub(config.budget, Total(Urgent) + x)
      BY <3>1, <1>3, <1>10, <1>13 DEF SaturatingSub
    <3>5. SaturatingSub(remaining, x) \in Nat
      BY <1>3, <1>13 DEF SaturatingSub
    <3>. QED  BY <3>2, <3>3, <3>4, <3>5
  <2>. QED  BY <2>4, <1>13 DEF SpentExactly, SaturatingSub
<1>15. CASE Priority(k) \notin {Critical, High}
  <2>1. x <= remaining /\ left = remaining - x
    BY <1>15 DEF Pays
  <2>2. Total(rest)' + remaining' = SaturatingSub(config.budget, Total(Urgent)')
    BY <2>1, <1>3, <1>10, <1>11, <1>12, <1>13, <1>15 DEF SaturatingSub
  <2>. QED  BY <2>2, <1>13 DEF SpentExactly, SaturatingSub
<1>. QED  BY <1>14, <1>15

\* Every arm of the allocation pays for what it decides.
LEMMA ArmPays ==
  ASSUME IInv, NEW k \in pending, Allocate(k)
  PROVE  \E d \in Decision : \E left : Pays(k, d, left) /\ Assign(k, d, left)
<1>. USE DEF Priorities, Critical, High, Normal, Low, Background
<1>1. IsNext(k)
  BY DEF Allocate, AllocateCritical, AllocateHigh, AllocateNormal, AllocateLow,
     AllocateBackground
<1>2. /\ FilteredBlock(k) \in ContentBlock
      /\ Full(k) \in Nat /\ Short(k) \in Nat /\ remaining \in Nat
  BY <1>1, NextInHand
<1>. DEFINE withheld == MakePlaceholder(FilteredBlock(k))
<1>3. /\ Plain("Full") \in Decision /\ CostOf(k, Plain("Full")) = Full(k)
      /\ Plain("Summary") \in Decision /\ CostOf(k, Plain("Summary")) = Short(k)
      /\ Plain("Omit") \in Decision /\ CostOf(k, Plain("Omit")) = 0
      /\ withheld \in Decision
      /\ CostOf(k, withheld) = IF Priority(k) = Background THEN PLACEHOLDER_TOKEN_COST ELSE 0
  <2>1. /\ \A r \in {"Full", "Summary", "Omit"} : Plain(r) \in Decision /\ Plain(r).render = r
        /\ withheld \in Decision /\ withheld.render = "Placeholder"
    BY <1>2, Decisions
  <2>. HIDE DEF withheld
  <2>. QED  BY <2>1 DEF CostOf
<1>. HIDE DEF withheld
<1>4. CASE AllocateCritical(k)
  <2>1. Pays(k, Plain("Full"), SaturatingSub(remaining, Full(k)))
    BY <1>2, <1>3, <1>4 DEF AllocateCritical, Pays
  <2>. QED  BY <1>3, <1>4, <2>1 DEF AllocateCritical
<1>5. CASE AllocateHigh(k)
  <2>1. FullFits(k) => Pays(k, Plain("Full"), remaining - Full(k))
    BY <1>2, <1>3, <1>5 DEF AllocateHigh, Pays, FullFits, SaturatingSub
  <2>2. SummaryFits(k) => Pays(k, Plain("Summary"), remaining - Short(k))
    BY <1>2, <1>3, <1>5 DEF AllocateHigh, Pays, SummaryFits, SaturatingSub
  <2>3. ~FullFits(k) => Pays(k, Plain("Full"), 0)
    BY <1>2, <1>3, <1>5 DEF AllocateHigh, Pays, FullFits, SaturatingSub
  <2>. QED  BY <1>3, <1>5, <2>1, <2>2, <2>3 DEF AllocateHigh
<1>6. CASE AllocateNormal(k)
  <2>1. FullFits(k) => Pays(k, Plain("Full"), remaining - Full(k))
    BY <1>2, <1>3, <1>6 DEF AllocateNormal, Pays, FullFits
  <2>2. SummaryFits(k) => Pays(k, Plain("Summary"), remaining - Short(k))
    BY <1>2, <1>3, <1>6 DEF AllocateNormal, Pays, SummaryFits
  <2>3. Pays(k, withheld, remaining)
    BY <1>2, <1>3, <1>6 DEF AllocateNormal, Pays
  <2>. QED  BY <1>3, <1>6, <2>1, <2>2, <2>3 DEF AllocateNormal, Withhold, withheld
<1>7. CASE AllocateLow(k)
  <2>1. SummaryFits(k) => Pays(k, Plain("Summary"), remaining - Short(k))
    BY <1>2, <1>3, <1>7 DEF AllocateLow, Pays, SummaryFits
  <2>2. Pays(k, withheld, remaining)
    BY <1>2, <1>3, <1>7 DEF AllocateLow, Pays
  <2>. QED  BY <1>3, <1>7, <2>1, <2>2 DEF AllocateLow, Withhold, withheld
<1>8. CASE AllocateBackground(k)
  <2>1. PLACEHOLDER_TOKEN_COST <= remaining =>
          Pays(k, withheld, remaining - PLACEHOLDER_TOKEN_COST)
    BY <1>2, <1>3, <1>8 DEF AllocateBackground, Pays, PLACEHOLDER_TOKEN_COST
  <2>2. Pays(k, Plain("Omit"), remaining)
    BY <1>2, <1>3, <1>8 DEF AllocateBackground, Pays
  <2>. QED  BY <1>3, <1>8, <2>1, <2>2 DEF AllocateBackground, withheld
<1>. QED  BY <1>4, <1>5, <1>6, <1>7, <1>8 DEF Allocate

\* No cost is counted for no blocks.
LEMMA NothingSpent ==
  ASSUME TypeOK
  PROVE  Total({}) = 0
<1>1. Costs({}) \in [Nat -> Nat] /\ \A n \in Nat : Costs({})[n] = 0
  BY DEF Costs
<1>. QED  BY <1>1, StreamOfBlocks, SumsOfNothing DEF Total

\* Steps that leave the engine's work alone leave its account alone.
LEMMA SameSpending ==
  ASSUME SpentExactly,
         UNCHANGED <<stream, config, original, priorities, pending, remaining, decisions>>
  PROVE  SpentExactly'
<1>1. /\ Urgent' = Urgent /\ Allocated' = Allocated
      /\ Budgeted' <=> Budgeted
  BY DEF Urgent, Allocated, Filtered, Priority, Budgeted
<1>2. \A S : Costs(S)' = Costs(S)
  BY DEF Costs, CostOf, Full, Short, FilteredBlock, Priority
<1>3. \A S : Total(S)' = Total(S)
  BY <1>2 DEF Total
<1>4. SaturatingSub(config.budget, Total(Urgent))' = SaturatingSub(config.budget, Total(Urgent))
  BY <1>1, <1>3 DEF SaturatingSub
<1>. QED  BY <1>1, <1>3, <1>4 DEF SpentExactly

\* Every step keeps the account.
LEMMA NextSpends == IInv /\ SpentExactly /\ [Next]_vars => SpentExactly'
<1> SUFFICES ASSUME IInv, SpentExactly, [Next]_vars PROVE SpentExactly'
  OBVIOUS
<1>1. CASE Filter \/ BeginBudget \/ Resolve
  <2>1. decisions' = <<>>
    BY <1>1 DEF Filter, AfterFilter, BeginBudget, Resolve, IInv, LoopsInOrder, engine
  <2>. QED  BY <2>1 DEF SpentExactly, Budgeted
<1>2. CASE DecideSummaries \/ DecideFull
  <2>1. ~Budgeted'
    BY <1>2 DEF DecideSummaries, DecideFull, Decide, Budgeted, args
  <2>. QED  BY <2>1 DEF SpentExactly
<1>3. CASE BeginAllocate
  <2>1. /\ Allocated' = {} /\ Urgent' = {} /\ remaining' = config.budget /\ config' = config
        /\ config.budget # NoBudget
    BY <1>3 DEF BeginAllocate, Allocated, Urgent, Filtered, args, IInv, LoopsInOrder
  <2>2. TypeOK' /\ config.budget \in Nat
    BY <2>1, NextInv, StreamOfBlocks DEF IInv, TypeOK, Config
  <2>3. Total({})' = 0
    <3>1. Costs({})' = Costs({}) /\ original' = original
      BY <1>3 DEF Costs, BeginAllocate
    <3>. QED  BY <3>1, NothingSpent DEF IInv, Total
  <2>4. (Allocated \ Urgent)' = {}
    BY <2>1
  <2>5. Total(Allocated \ Urgent)' = 0 /\ Total(Urgent)' = 0
    BY <2>1, <2>3, <2>4 DEF Total, Costs
  <2>. QED  BY <2>1, <2>2, <2>5 DEF SpentExactly, SaturatingSub
<1>4. ASSUME NEW k \in pending, Allocate(k)
      PROVE  SpentExactly'
  <2>1. IsNext(k)
    BY <1>4 DEF Allocate, AllocateCritical, AllocateHigh, AllocateNormal, AllocateLow,
       AllocateBackground
  <2>. QED  BY <2>1, <1>4, ArmPays, AssignSpends
<1>5. CASE NothingLeft \/ EndAllocate \/ Render \/ RenderFails \/ AllOmitted \/ Rendered
  <2>1. UNCHANGED <<stream, config, original, priorities, pending, remaining, decisions>>
    BY <1>5 DEF NothingLeft, EndAllocate, Render, RenderFails, AllOmitted, Rendered, Return,
       Goto, args, engine
  <2>. QED  BY <2>1, SameSpending
<1>6. CASE UNCHANGED vars
  BY <1>6, SameSpending DEF vars, args, engine
<1>. QED  BY <1>1, <1>2, <1>3, <1>4, <1>5, <1>6 DEF Next

\* For every stream and budget, what is decided for Normal, Low and Background blocks
\* costs no more than the Critical and High blocks leave of the budget.
THEOREM BudgetIsHeld == Spec => []BudgetHeld
<1>1. Init => SpentExactly
  BY DEF Init, SpentExactly, Budgeted
<1>2. Spec => []SpentExactly
  BY <1>1, NextSpends, InvariantHolds, PTL DEF Spec
<1>3. IInv /\ SpentExactly => BudgetHeld
  <2> SUFFICES ASSUME IInv, SpentExactly, Budgeted
               PROVE  Total(Allocated \ Urgent) <= SaturatingSub(config.budget, Total(Urgent))
    BY DEF BudgetHeld
  <2>1. /\ TypeOK /\ FilterKeeps /\ remaining \in Nat /\ Allocated \subseteq Filtered
        /\ Len(original) \in Nat /\ Len(decisions) = Len(original)
    BY StreamOfBlocks DEF IInv, TypeOK, Allocated, Budgeted
  <2>2. Costs(Allocated \ Urgent) \in [Nat -> Nat]
    BY <2>1, CostsNat
  <2>3. Total(Allocated \ Urgent) \in Nat
    BY <2>1, <2>2, SumsStep DEF Total
  <2>. QED  BY <2>1, <2>3 DEF SpentExactly
<1>. QED  BY <1>2, <1>3, InvariantHolds, PTL

=============================================================================
