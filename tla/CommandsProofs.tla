---------------------------- MODULE CommandsProofs ----------------------------
(***************************************************************************)
(* Proofs about Commands for every manifest, directory and set of flags.   *)
(***************************************************************************)
EXTENDS Commands, Induction
-----------------------------------------------------------------------------
(* Names.                                                                  *)

\* The type of every block has an enum, and every enum but Priority has display names.
LEMMA EnumKnown ==
  \A t \in DOMAIN EnumOf :
    /\ EnumOf[t] \in DOMAIN ToWireByte
    /\ t # "Annotation" => EnumOf[t] \in DOMAIN DisplayName
BY DEF EnumOf, ToWireByte, DisplayName

\* A byte is read back as the variant it was written for.
LEMMA BytesMean ==
  ASSUME NEW enum \in DOMAIN ToWireByte, NEW v \in Variants(enum)
  PROVE  /\ ToWireByte[enum][v] \in Nat
         /\ FromWireByte(enum, ToWireByte[enum][v]) = v
         /\ HasByte(enum, ToWireByte[enum][v]) # {}
<1>1. ToWireByte[enum][v] \in Nat
  BY DEF Variants, ToWireByte, LangByte
<1>2. ASSUME NEW u \in Variants(enum), ToWireByte[enum][u] = ToWireByte[enum][v]
      PROVE  u = v
  BY <1>2 DEF Variants, ToWireByte, LangByte
<1>3. HasByte(enum, ToWireByte[enum][v]) = {v}
  BY <1>2 DEF HasByte
<1>. QED  BY <1>1, <1>3 DEF FromWireByte

\* What a parser makes of a name is an error or a variant.
LEMMA NamesMean ==
  ASSUME NEW enum \in DOMAIN NamesOf, NEW name, Parse(enum, name) # NotAName
  PROVE  Parse(enum, name) \in Variants(enum)
BY DEF Parse, ParseIn, NamesOf, LangNames, PlainLangNames, Variants, ToWireByte, LangByte

\* The name that an output shows is one that a manifest may use for the same thing.
LEMMA ShownNamesParse ==
  ASSUME NEW enum \in DOMAIN DisplayName, NEW v \in Variants(enum)
  PROVE  Parse(enum, DisplayName[enum][v]) = v
BY DEF Parse, ParseIn, NamesOf, LangNames, PlainLangNames, Variants, ToWireByte, LangByte,
     DisplayName

\* An entry without a fault has a variant of the enum of its type.
LEMMA VariantKnown ==
  ASSUME NEW e \in Entries, EntryFault(e) = "none"
  PROVE  /\ e.type \in DOMAIN EnumOf \ {"Annotation"}
         /\ Variant(e) \in Variants(EnumOf[e.type])
         /\ HasNote(e) => Parse("Priority", e.priority) \in Variants("Priority")
<1>1. e.type \in DOMAIN EnumOf \ {"Annotation"} /\ EnumOf[e.type] \in DOMAIN NamesOf
  BY CommandsInputs DEF EnumOf, NamesOf
<1>2. Variant(e) # NotAName
  BY DEF EntryFault
<1>3. Variant(e) \in Variants(EnumOf[e.type])
  <2>1. CASE e.name # None
    BY <2>1, <1>1, <1>2, NamesMean DEF Variant
  <2>2. CASE e.name = None
    <3>1. e.type \in {"ToolResult", "Document"}
      BY <2>2, CommandsInputs
    <3>. QED  BY <3>1, <2>2 DEF Variant, Variants, EnumOf, ToWireByte
  <2>. QED  BY <2>1, <2>2
<1>4. HasNote(e) => Parse("Priority", e.priority) # NotAName
  BY DEF EntryFault, HasNote
<1>5. "Priority" \in DOMAIN NamesOf
  BY DEF NamesOf
<1>. QED  BY <1>1, <1>3, <1>4, <1>5, NamesMean
-----------------------------------------------------------------------------
(* Selections.                                                             *)

\* The first c of the n that own lists are those up to m, and they are picked first.
Picked(s, S, n, own, m, c) ==
  /\ c \in 0 .. n
  /\ \A k \in 1 .. n : k <= c <=> own[k] <= m
  /\ Picks(s, S)[m] = [k \in 1 .. c |-> s[own[k]]]

\* Picking is a recursion.
LEMMA PicksStep ==
  ASSUME NEW X, NEW s \in Seq(X), NEW S, S \subseteq 1 .. Len(s)
  PROVE  /\ Picks(s, S)[0] = <<>>
         /\ \A n \in Nat : Picks(s, S)[n + 1] =
              IF n + 1 \in S THEN Append(Picks(s, S)[n], s[n + 1]) ELSE Picks(s, S)[n]
<1>. DEFINE h == [p \in Nat \X Seq(X) |->
                    IF p[1] + 1 \in S THEN Append(p[2], s[p[1] + 1]) ELSE p[2]]
            U(f) == f = [n \in Nat |->
                    IF n = 0 THEN <<>>
                    ELSE IF n \in S THEN Append(f[n - 1], s[n]) ELSE f[n - 1]]
<1>1. \A n \in Nat : \A x \in Seq(X) : h[<<n, x>>] \in Seq(X)
  <2>1. \A n \in Nat : n + 1 \in S => s[n + 1] \in X
    OBVIOUS
  <2>. QED  BY <2>1
<1>2. <<>> \in Seq(X)
  OBVIOUS
<1>3. PICK f : Recursion(f, Seq(X), <<>>, h)
  <2>. HIDE DEF h
  <2>. QED  BY <1>1, <1>2, ByRecursion
<1>4. f \in [Nat -> Seq(X)] /\ f[0] = <<>>
  BY <1>3 DEF Recursion
<1>5. ASSUME NEW n \in Nat
      PROVE  f[n + 1] = IF n + 1 \in S THEN Append(f[n], s[n + 1]) ELSE f[n]
  <2>1. f[n + 1] = h[<<n, f[n]>>] /\ f[n] \in Seq(X)
    <3>. HIDE DEF h
    <3>. QED  BY <1>3, <1>4 DEF Recursion
  <2>2. <<n, f[n]>> \in Nat \X Seq(X)
    BY <2>1
  <2>. QED  BY <2>1, <2>2
<1>6. U(f)
  <2>1. ASSUME NEW n \in Nat
        PROVE  f[n] = IF n = 0 THEN <<>>
                      ELSE IF n \in S THEN Append(f[n - 1], s[n]) ELSE f[n - 1]
    <3>1. CASE n = 0
      BY <3>1, <1>4
    <3>2. CASE n # 0
      <4>1. n - 1 \in Nat /\ (n - 1) + 1 = n
        BY <3>2
      <4>. QED  BY <3>2, <4>1, <1>5
    <3>. QED  BY <3>1, <3>2
  <2>. QED  BY <2>1, <1>4
<1>7. U(Picks(s, S))
  <2>1. \E g : U(g)
    BY <1>6
  <2>. QED  BY <2>1, Zenon DEF Picks
<1>. HIDE DEF h
<1>8. Picks(s, S)[0] = <<>>
  BY <1>7
<1>9. ASSUME NEW n \in Nat
      PROVE  Picks(s, S)[n + 1] =
               IF n + 1 \in S THEN Append(Picks(s, S)[n], s[n + 1]) ELSE Picks(s, S)[n]
  <2>1. n + 1 \in Nat /\ n + 1 # 0 /\ (n + 1) - 1 = n
    OBVIOUS
  <2>. QED  BY <1>7, <2>1
<1>. QED  BY <1>8, <1>9

\* What is selected is what the list of positions lists.
SelectedBy(own, n, s, S) == Selected(s, S) = [k \in 1 .. n |-> s[own[k]]]

LEMMA SelectedByList ==
  ASSUME NEW X, NEW s \in Seq(X), NEW S, S \subseteq 1 .. Len(s), NEW n, NEW own,
         Lists(own, n, S)
  PROVE  SelectedBy(own, n, s, S)
<1>. DEFINE Good == {m \in Nat : m <= Len(s) => \E c : Picked(s, S, n, own, m, c)}
<1>0. n \in Nat /\ own \in [1 .. n -> S] /\ Len(s) \in Nat
  BY DEF Lists
<1>00. \A i \in S : i \in Nat /\ 1 <= i /\ i <= Len(s)
  BY <1>0
<1>01. \A k \in 1 .. n : own[k] \in S
  BY <1>0
<1>02. \A k \in 1 .. n : own[k] \in Nat /\ 1 <= own[k] /\ own[k] <= Len(s)
  BY <1>00, <1>01
<1>1. 0 \in Good
  <2>1. \A k \in 1 .. n : k <= 0 <=> own[k] <= 0
    BY <1>0, <1>02
  <2>2. Picks(s, S)[0] = [k \in 1 .. 0 |-> s[own[k]]]
    <3>1. <<>> = [k \in 1 .. 0 |-> s[own[k]]]
      OBVIOUS
    <3>2. Picks(s, S)[0] = <<>>
      BY PicksStep
    <3>. QED  BY <3>1, <3>2
  <2>3. Picked(s, S, n, own, 0, 0)
    BY <1>0, <2>1, <2>2 DEF Picked
  <2>. QED  BY <2>3
<1>2. ASSUME NEW m \in Nat, m \in Good
      PROVE  m + 1 \in Good
  <2> SUFFICES ASSUME m + 1 <= Len(s)
               PROVE  \E c : Picked(s, S, n, own, m + 1, c)
    OBVIOUS
  <2>1. PICK c : Picked(s, S, n, own, m, c)
    BY <1>2, <1>0
  <2>2. c \in 0 .. n /\ \A k \in 1 .. n : k <= c <=> own[k] <= m
    BY <2>1 DEF Picked
  <2>3. CASE m + 1 \in S
    <3>1. PICK k \in 1 .. n : own[k] = m + 1
      BY <2>3 DEF Lists
    <3>2. k = c + 1
      <4>1. k > c
        BY <3>1, <2>2, <1>0
      <4>0. \A i, j \in 1 .. n : i < j => own[i] < own[j]
        BY DEF Lists
      <4>2. ~(c + 1 < k)
        <5> SUFFICES ASSUME c + 1 < k PROVE FALSE
          OBVIOUS
        <5>1. c + 1 \in 1 .. n /\ ~(c + 1 <= c)
          BY <2>2, <1>0
        <5>2. own[c + 1] < own[k] /\ ~(own[c + 1] <= m) /\ own[c + 1] \in Nat
          BY <5>1, <2>2, <3>1, <1>02, <4>0
        <5>. QED  BY <5>2, <3>1
      <4>. QED  BY <4>1, <4>2, <2>2, <1>0
    <3>3. \A j \in 1 .. n : j <= c + 1 <=> own[j] <= m + 1
      <4> SUFFICES ASSUME NEW j \in 1 .. n PROVE j <= c + 1 <=> own[j] <= m + 1
        OBVIOUS
      <4>1. own[j] \in Nat /\ (j < k => own[j] < own[k]) /\ (k < j => own[k] < own[j])
        BY <1>02 DEF Lists
      <4>. QED  BY <4>1, <3>1, <3>2, <2>2, <1>0
    <3>4. Picks(s, S)[m + 1] = Append(Picks(s, S)[m], s[m + 1])
      BY <2>3, PicksStep
    <3>5. Append([j \in 1 .. c |-> s[own[j]]], s[m + 1]) = [j \in 1 .. c + 1 |-> s[own[j]]]
      <4>. DEFINE q == [j \in 1 .. c |-> s[own[j]]]
      <4>1. q \in Seq({s[own[j]] : j \in 1 .. c}) /\ Len(q) = c
        BY <2>2
      <4>2. \A j \in 1 .. c : q[j] = s[own[j]]
        OBVIOUS
      <4>. HIDE DEF q
      <4>3. Append(q, s[m + 1]) = [j \in 1 .. c + 1 |-> IF j <= c THEN q[j] ELSE s[m + 1]]
        BY <4>1, <2>2
      <4>4. \A j \in 1 .. c + 1 : (IF j <= c THEN q[j] ELSE s[m + 1]) = s[own[j]]
        BY <4>2, <3>1, <3>2, <2>2
      <4>5. Append(q, s[m + 1]) = [j \in 1 .. c + 1 |-> s[own[j]]]
        BY <4>3, <4>4
      <4>. QED  BY <4>5 DEF q
    <3>6. c + 1 \in 0 .. n
      BY <3>2, <1>0
    <3>7. Picks(s, S)[m + 1] = [j \in 1 .. c + 1 |-> s[own[j]]]
      BY <3>4, <3>5, <2>1 DEF Picked
    <3>. QED  BY <3>3, <3>6, <3>7 DEF Picked
  <2>4. CASE m + 1 \notin S
    <3>1. \A j \in 1 .. n : own[j] <= m <=> own[j] <= m + 1
      BY <2>4, <1>01, <1>02
    <3>2. Picks(s, S)[m + 1] = Picks(s, S)[m]
      BY <2>4, PicksStep
    <3>. QED  BY <3>1, <3>2, <2>1 DEF Picked
  <2>. QED  BY <2>3, <2>4
<1>3. Nat \subseteq Good
  <2>. HIDE DEF Good
  <2>. QED  BY <1>1, <1>2, NatUpward
<1>4. PICK c : Picked(s, S, n, own, Len(s), c)
  BY <1>0, <1>3
<1>5. c = n
  <2>1. c \in 0 .. n /\ \A k \in 1 .. n : k <= c <=> own[k] <= Len(s)
    BY <1>4 DEF Picked
  <2>2. CASE n = 0
    BY <2>1, <2>2
  <2>3. CASE n > 0
    <3>1. n \in 1 .. n /\ own[n] <= Len(s)
      BY <2>3, <1>0, <1>02
    <3>. QED  BY <2>1, <3>1, <1>0
  <2>. QED  BY <2>2, <2>3, <1>0
<1>. QED  BY <1>4, <1>5 DEF Picked, Selected, SelectedBy
-----------------------------------------------------------------------------
(* The blocks of an encode.                                                *)

\* A sequence with one more element, by its positions.
LEMMA AppendIs ==
  ASSUME NEW X, NEW s \in Seq(X), NEW x
  PROVE  Append(s, x) = [i \in 1 .. Len(s) + 1 |-> IF i <= Len(s) THEN s[i] ELSE x]
<1>1. PICK n \in Nat : Len(s) = n
  OBVIOUS
<1>2. s \in Seq(X \cup {x})
  OBVIOUS
<1>3. /\ Append(s, x) \in Seq(X \cup {x}) /\ Len(Append(s, x)) = n + 1
      /\ Append(s, x)[n + 1] = x /\ \A i \in 1 .. n : Append(s, x)[i] = s[i]
  BY <1>1, <1>2
<1>4. Append(s, x) \in [1 .. n + 1 -> X \cup {x}]
  <2>1. \A Y, t : t \in Seq(Y) => t \in [1 .. Len(t) -> Y]
    OBVIOUS
  <2>. QED  BY <1>3, <2>1, Zenon
<1>. DEFINE f == [i \in 1 .. n + 1 |-> IF i <= n THEN s[i] ELSE x]
<1>5. f \in [1 .. n + 1 -> X \cup {x}]
  BY <1>1
<1>6. \A i \in 1 .. n + 1 : Append(s, x)[i] = f[i]
  BY <1>3
<1>7. Append(s, x) = f
  <2>. HIDE DEF f
  <2>. QED  BY <1>4, <1>5, <1>6
<1>. QED  BY <1>1, <1>7

\* The blocks that an entry adds are blocks.
LEMMA Bodies ==
  ASSUME NEW e \in Entries, EntryFault(e) = "none"
  PROVE  /\ BodyOf(e) \in Body
         /\ HasNote(e) => \A t \in Nat : NoteFor(e, t) \in Body
<1>1. /\ e.type \in DOMAIN EnumOf \ {"Annotation"}
      /\ ToWireByte[EnumOf[e.type]][Variant(e)] \in Nat
  BY VariantKnown, EnumKnown, BytesMean
<1>2. ResolveContent(e) \in {ResolveContent(f) : f \in Entries}
  OBVIOUS
<1>3. KeptSummary(e) \in {f.summary : f \in Entries} \cup {None}
  BY DEF KeptSummary
<1>4. BodyOf(e) \in Body
  BY <1>1, <1>2, <1>3 DEF BodyOf, Body
<1>5. HasNote(e) => ToWireByte["Priority"][Parse("Priority", e.priority)] \in Nat
  <2>1. "Priority" \in DOMAIN ToWireByte
    BY DEF ToWireByte
  <2>. QED  BY <2>1, VariantKnown, BytesMean
<1>6. "Annotation" \in DOMAIN EnumOf
  BY DEF EnumOf
<1>7. HasNote(e) => \A t \in Nat : NoteFor(e, t) \in Body
  BY <1>5, <1>6 DEF NoteFor, Body
<1>. QED  BY <1>4, <1>7

\* apply_block appends the block of the entry, and the annotation with its priority.
LEMMA ApplyBlockAppends ==
  ASSUME NEW blocks \in Seq(Body), NEW e \in Entries, EntryFault(e) = "none"
  PROVE  ApplyBlock(blocks, e) =
           IF HasNote(e)
           THEN Append(Append(blocks, BodyOf(e)), NoteFor(e, Len(blocks) + 1))
           ELSE Append(blocks, BodyOf(e))
<1>. DEFINE plain == [BodyOf(e) EXCEPT !.summary = None]
            added == AddBlock(blocks, e)
<1>1. added = Append(blocks, plain)
  BY DEF AddBlock, BodyOf
<1>2. Len(blocks) \in Nat /\ blocks \in [1 .. Len(blocks) -> Body]
  OBVIOUS
<1>3. BodyOf(e) \in Body
  BY Bodies
<1>4. plain \in Body
  BY <1>3 DEF Body
<1>5. added \in Seq(Body) /\ Len(added) = Len(blocks) + 1 /\ added[Len(added)] = plain
  BY <1>1, <1>4
<1>6. CASE e.type \in WithMeta
  <2>1. KeptSummary(e) = e.summary /\ BodyOf(e).summary = e.summary
    BY <1>6 DEF KeptSummary, BodyOf
  <2>2. WithSummary(added, e.summary) = Append(blocks, BodyOf(e))
    <3>1. CASE e.summary = None
      <4>1. plain = BodyOf(e)
        BY <3>1, <2>1 DEF BodyOf
      <4>. QED  BY <3>1, <4>1, <1>1 DEF WithSummary
    <3>2. CASE e.summary # None
      <4>1. WithSummary(added, e.summary) = [added EXCEPT ![Len(added)].summary = e.summary]
        BY <3>2 DEF WithSummary
      <4>2. [plain EXCEPT !.summary = e.summary] = BodyOf(e)
        BY <2>1 DEF BodyOf
      <4>3. [added EXCEPT ![Len(added)] = BodyOf(e)] = Append(blocks, BodyOf(e))
        <5>. DEFINE n == Len(blocks)
        <5>1. \A x \in Body : Append(blocks, x)
                = [i \in 1 .. n + 1 |-> IF i <= n THEN blocks[i] ELSE x]
          BY AppendIs
        <5>. HIDE DEF plain, added
        <5>2. Append(blocks, plain)
                = [i \in 1 .. n + 1 |-> IF i <= n THEN blocks[i] ELSE plain]
          BY <5>1, <1>4
        <5>3. Append(blocks, BodyOf(e))
                = [i \in 1 .. n + 1 |-> IF i <= n THEN blocks[i] ELSE BodyOf(e)]
          BY <5>1, <1>3
        <5>4. added = [i \in 1 .. n + 1 |-> IF i <= n THEN blocks[i] ELSE plain]
          BY <5>2, <1>1
        <5>. QED  BY <5>3, <5>4, <1>2, <1>5
      <4>4. [added EXCEPT ![Len(added)].summary = e.summary]
              = [added EXCEPT ![Len(added)] = BodyOf(e)]
        <5>. HIDE DEF plain, added
        <5>. QED  BY <1>5, <4>2
      <4>. QED  BY <4>1, <4>3, <4>4
    <3>. QED  BY <3>1, <3>2
  <2>3. Len(Append(blocks, BodyOf(e))) = Len(blocks) + 1
    BY <1>2, <1>3
  <2>. HIDE DEF added
  <2>. QED  BY <1>6, <2>2, <2>3 DEF ApplyBlock, ApplyMeta, WithPriority, HasNote, NoteFor, added
<1>7. CASE e.type \notin WithMeta
  <2>1. plain = BodyOf(e)
    BY <1>7 DEF BodyOf, KeptSummary
  <2>. QED  BY <1>7, <2>1, <1>1 DEF ApplyBlock, HasNote
<1>. QED  BY <1>6, <1>7
\* What apply_block adds to the blocks, position by position.
LEMMA ApplyBlockIs ==
  ASSUME NEW blocks \in Seq(Body), NEW e \in Entries, EntryFault(e) = "none"
  PROVE  LET new == ApplyBlock(blocks, e)
             n == Len(blocks)
         IN  /\ new \in Seq(Body) /\ Len(new) = IF HasNote(e) THEN n + 2 ELSE n + 1
             /\ \A i \in 1 .. n : new[i] = blocks[i]
             /\ new[n + 1] = BodyOf(e)
             /\ HasNote(e) => new[n + 2] = NoteFor(e, n + 1)
<1>. DEFINE n == Len(blocks)
            one == Append(blocks, BodyOf(e))
            two == Append(one, NoteFor(e, n + 1))
<1>1. n \in Nat
  OBVIOUS
<1>2. BodyOf(e) \in Body /\ (HasNote(e) => NoteFor(e, n + 1) \in Body)
  BY <1>1, Bodies
<1>3. /\ one \in Seq(Body) /\ Len(one) = n + 1 /\ one[n + 1] = BodyOf(e)
      /\ \A i \in 1 .. n : one[i] = blocks[i]
  BY <1>2
<1>4. CASE HasNote(e)
  <2>1. /\ two \in Seq(Body) /\ Len(two) = n + 2 /\ two[n + 2] = NoteFor(e, n + 1)
        /\ \A i \in 1 .. n + 1 : two[i] = one[i]
    <3>. HIDE DEF one
    <3>. QED  BY <1>1, <1>2, <1>3, <1>4
  <2>2. ApplyBlock(blocks, e) = two
    BY <1>4, ApplyBlockAppends
  <2>. HIDE DEF one, two
  <2>3. \A i \in 1 .. n : i \in 1 .. n + 1
    BY <1>1
  <2>4. n + 1 \in 1 .. n + 1
    BY <1>1
  <2>. QED  BY <2>1, <2>2, <2>3, <2>4, <1>3, <1>4
<1>5. CASE ~HasNote(e)
  <2>1. ApplyBlock(blocks, e) = one
    BY <1>5, ApplyBlockAppends
  <2>. HIDE DEF one
  <2>. QED  BY <2>1, <1>3, <1>5
<1>. QED  BY <1>4, <1>5

\* The blocks of n entries and what apply_block adds are those of n + 1.
LEMMA BuiltGrows ==
  ASSUME NEW m, NEW n \in Nat, NEW blocks \in Seq(Body), BuiltFrom(m, n, blocks),
         m[n + 1] \in Entries, EntryFault(m[n + 1]) = "none"
  PROVE  /\ ApplyBlock(blocks, m[n + 1]) \in Seq(Body)
         /\ BuiltFrom(m, n + 1, ApplyBlock(blocks, m[n + 1]))
<1>. DEFINE e == m[n + 1]
            new == ApplyBlock(blocks, e)
            N == Len(blocks)
<1>1. PICK own \in [1 .. n -> DOMAIN blocks] : Built(m, n, blocks, own)
  BY DEF BuiltFrom
<1>. DEFINE more == [k \in 1 .. n + 1 |-> IF k <= n THEN own[k] ELSE N + 1]
<1>2. /\ new \in Seq(Body) /\ Len(new) = IF HasNote(e) THEN N + 2 ELSE N + 1
      /\ \A i \in 1 .. N : new[i] = blocks[i]
      /\ new[N + 1] = BodyOf(e)
      /\ HasNote(e) => new[N + 2] = NoteFor(e, N + 1)
  BY ApplyBlockIs
<1>. HIDE DEF new, e
<1>3. /\ N \in Nat /\ DOMAIN blocks = 1 .. N /\ DOMAIN new = 1 .. Len(new)
      /\ N + 1 \in DOMAIN new /\ \A i \in 1 .. N : i \in DOMAIN new
      /\ \A i \in DOMAIN new : i \in 1 .. N \/ i = N + 1 \/ (HasNote(e) /\ i = N + 2)
      /\ HasNote(e) => N + 2 \in DOMAIN new
  <2>1. N \in Nat /\ DOMAIN blocks = 1 .. N /\ DOMAIN new = 1 .. Len(new)
    BY <1>2
  <2>. HIDE DEF N
  <2>2. CASE HasNote(e)
    <3>1. Len(new) = N + 2
      BY <1>2, <2>2
    <3>. QED  BY <2>1, <2>2, <3>1
  <2>3. CASE ~HasNote(e)
    <3>1. Len(new) = N + 1
      BY <1>2, <2>3
    <3>. QED  BY <2>1, <2>3, <3>1
  <2>. QED  BY <2>2, <2>3
<1>4. /\ \A k \in 1 .. n : more[k] = own[k] /\ k \in 1 .. n + 1 /\ own[k] \in 1 .. N
      /\ more[n + 1] = N + 1 /\ n + 1 \in 1 .. n + 1
      /\ \A k \in 1 .. n + 1 : k \in 1 .. n \/ k = n + 1
  BY <1>3
<1>5. more \in [1 .. n + 1 -> DOMAIN new]
  <2>1. \A k \in 1 .. n + 1 : more[k] \in DOMAIN new
    BY <1>3, <1>4
  <2>. QED  BY <2>1
<1>. HIDE DEF more, N
<1>6. ASSUME NEW j \in 1 .. n + 1, NEW k \in 1 .. n + 1, j < k
      PROVE  more[j] < more[k]
  <2>1. j \in 1 .. n
    BY <1>4, <1>6
  <2>2. CASE k \in 1 .. n
    BY <2>1, <2>2, <1>1, <1>4, <1>6 DEF Built
  <2>3. CASE k = n + 1
    BY <2>1, <2>3, <1>3, <1>4
  <2>. QED  BY <2>2, <2>3, <1>4
<1>7. ASSUME NEW k \in 1 .. n + 1
      PROVE  /\ EntryFault(m[k]) = "none" /\ new[more[k]] = BodyOf(m[k])
             /\ HasNote(m[k]) => /\ more[k] + 1 \in DOMAIN new
                                 /\ new[more[k] + 1] = NoteFor(m[k], more[k])
  <2>1. CASE k \in 1 .. n
    <3>1. /\ EntryFault(m[k]) = "none" /\ blocks[own[k]] = BodyOf(m[k])
          /\ HasNote(m[k]) => /\ own[k] + 1 \in DOMAIN blocks
                              /\ blocks[own[k] + 1] = NoteFor(m[k], own[k])
      BY <2>1, <1>1 DEF Built
    <3>. QED  BY <2>1, <3>1, <1>2, <1>3, <1>4
  <2>2. CASE k = n + 1
    <3>1. (N + 1) + 1 = N + 2
      BY <1>3
    <3>. QED  BY <2>2, <3>1, <1>2, <1>3, <1>4 DEF e
  <2>. QED  BY <2>1, <2>2, <1>4
<1>8. ASSUME NEW i \in DOMAIN new
      PROVE  \E k \in 1 .. n + 1 : more[k] = i \/ (HasNote(m[k]) /\ more[k] + 1 = i)
  <2>1. CASE i \in 1 .. N
    <3>1. PICK k \in 1 .. n : own[k] = i \/ (HasNote(m[k]) /\ own[k] + 1 = i)
      BY <2>1, <1>1, <1>3 DEF Built
    <3>. QED  BY <3>1, <1>4
  <2>2. CASE i = N + 1
    BY <2>2, <1>4
  <2>3. CASE HasNote(e) /\ i = N + 2
    <3>1. more[n + 1] + 1 = i
      BY <2>3, <1>3, <1>4
    <3>. QED  BY <2>3, <3>1, <1>4 DEF e
  <2>. QED  BY <2>1, <2>2, <2>3, <1>3
<1>9. BuiltFrom(m, n + 1, new)
  BY <1>5, <1>6, <1>7, <1>8 DEF Built, BuiltFrom
<1>. QED  BY <1>2, <1>9 DEF new, e
\* Block i is the block of entry k, or the annotation after it.
StandsFor(m, blocks, own, i, k) ==
  \/ /\ own[k] = i /\ blocks[i].type = m[k].type /\ blocks[i].type # "Annotation"
     /\ blocks[i].target = None
     /\ FromWireByte(EnumOf[blocks[i].type], blocks[i].byte) = Variant(m[k])
  \/ /\ HasNote(m[k]) /\ own[k] + 1 = i /\ blocks[i].type = "Annotation"
     /\ blocks[i].target = own[k] /\ own[k] \in 1 .. i - 1
     /\ FromWireByte(EnumOf[blocks[i].type], blocks[i].byte)
          = Parse("Priority", m[k].priority)

\* Every block of n entries does, and has a value of the enum of its type.
LEMMA BuiltBlock ==
  ASSUME NEW m, NEW n \in Nat, \A k \in 1 .. n : m[k] \in Entries,
         NEW blocks \in Seq(Body), NEW own, Built(m, n, blocks, own), NEW i \in DOMAIN blocks
  PROVE  /\ HasByte(EnumOf[blocks[i].type], blocks[i].byte) # {}
         /\ FromWireByte(EnumOf[blocks[i].type], blocks[i].byte)
              \in Variants(EnumOf[blocks[i].type])
         /\ \E k \in 1 .. n : StandsFor(m, blocks, own, i, k)
<1>1. PICK k \in 1 .. n : own[k] = i \/ (HasNote(m[k]) /\ own[k] + 1 = i)
  BY DEF Built
<1>2. /\ EntryFault(m[k]) = "none" /\ blocks[own[k]] = BodyOf(m[k])
      /\ HasNote(m[k]) => blocks[own[k] + 1] = NoteFor(m[k], own[k])
  BY DEF Built
<1>3. m[k] \in Entries /\ own[k] \in DOMAIN blocks /\ DOMAIN blocks = 1 .. Len(blocks)
  BY DEF Built
<1>4. /\ m[k].type \in DOMAIN EnumOf \ {"Annotation"}
      /\ Variant(m[k]) \in Variants(EnumOf[m[k].type])
      /\ HasNote(m[k]) => Parse("Priority", m[k].priority) \in Variants("Priority")
  BY <1>2, <1>3, VariantKnown
<1>5. CASE own[k] = i
  <2>1. /\ blocks[i].type = m[k].type /\ blocks[i].target = None
        /\ blocks[i].byte = ToWireByte[EnumOf[m[k].type]][Variant(m[k])]
    BY <1>2, <1>5 DEF BodyOf
  <2>. QED  BY <2>1, <1>4, <1>5, EnumKnown, BytesMean DEF StandsFor
<1>6. CASE HasNote(m[k]) /\ own[k] + 1 = i
  <2>1. /\ blocks[i].type = "Annotation" /\ blocks[i].target = own[k]
        /\ blocks[i].byte = ToWireByte["Priority"][Parse("Priority", m[k].priority)]
    BY <1>2, <1>6 DEF NoteFor
  <2>2. EnumOf["Annotation"] = "Priority" /\ "Priority" \in DOMAIN ToWireByte
    BY DEF EnumOf, ToWireByte
  <2>3. own[k] \in 1 .. i - 1
    BY <1>3, <1>6
  <2>. QED  BY <2>1, <2>2, <2>3, <1>4, <1>6, BytesMean DEF StandsFor
<1>. QED  BY <1>1, <1>5, <1>6

\* Equal blocks stand for entries with the same body, so what is told apart is told
\* apart on the wire.
LEMMA SameBlocks ==
  ASSUME NEW e \in Entries, NEW f \in Entries,
         EntryFault(e) = "none", EntryFault(f) = "none"
  PROVE  BodyOf(e) = BodyOf(f) <=> SameBody(e, f)
<1>1. SameBody(e, f) => BodyOf(e) = BodyOf(f)
  BY DEF SameBody, BodyOf
<1>2. ASSUME BodyOf(e) = BodyOf(f)
      PROVE  SameBody(e, f)
  <2>1. /\ e.type = f.type /\ KeptSummary(e) = KeptSummary(f)
        /\ ResolveContent(e) = ResolveContent(f)
        /\ ToWireByte[EnumOf[e.type]][Variant(e)] = ToWireByte[EnumOf[f.type]][Variant(f)]
    BY <1>2 DEF BodyOf
  <2>2. /\ EnumOf[e.type] \in DOMAIN ToWireByte
        /\ Variant(e) \in Variants(EnumOf[e.type]) /\ Variant(f) \in Variants(EnumOf[e.type])
    BY <2>1, VariantKnown, EnumKnown
  <2>3. Variant(e) = Variant(f)
    BY <2>1, <2>2, BytesMean
  <2>. QED  BY <2>1, <2>3 DEF SameBody
<1>. QED  BY <1>1, <1>2
-----------------------------------------------------------------------------
(* What is in a file.                                                      *)

\* Where encode writes a reference.
Again(blocks, dedup, i) == dedup /\ \E j \in 1 .. i - 1 : blocks[j] = blocks[i]

\* The cell of a block.
BlockCell(blocks, dedup, i) ==
  [cell |-> "block", block |-> blocks[i], reference |-> Again(blocks, dedup, i)]

\* The cells are a header, a cell for each of n blocks, and END.
FileOf(cells, blocks, dedup, n) ==
  /\ cells \in Seq(Cell) /\ Len(cells) = n + 2
  /\ cells[1] = Header /\ cells[n + 2] = End
  /\ \A i \in 1 .. n : cells[i + 1] = BlockCell(blocks, dedup, i)

\* The cells of an encode are.
LEMMA EncodedCells ==
  ASSUME NEW blocks \in Seq(Body), NEW dedup \in BOOLEAN
  PROVE  FileOf(Encoded(blocks, dedup), blocks, dedup, Len(blocks))
<1>. DEFINE n == Len(blocks)
            middle == [i \in 1 .. n |-> BlockCell(blocks, dedup, i)]
<1>1. n \in Nat /\ DOMAIN blocks = 1 .. n
  OBVIOUS
<1>2. Header \in Cell /\ End \in Cell
  BY DEF Header, End, Cell
<1>3. \A i \in 1 .. n : middle[i] \in Cell
  BY DEF Cell, Again, BlockCell
<1>4. middle \in Seq(Cell) /\ Len(middle) = n
  BY <1>1, <1>3
<1>5. \A i \in 1 .. n : middle[i] = BlockCell(blocks, dedup, i)
  OBVIOUS
<1>6. Encoded(blocks, dedup) = <<Header>> \o middle \o <<End>>
  BY <1>1 DEF Encoded, Again, BlockCell
<1>. HIDE DEF middle
<1>7. /\ <<Header>> \in Seq(Cell) /\ Len(<<Header>>) = 1 /\ <<Header>>[1] = Header
      /\ <<End>> \in Seq(Cell) /\ Len(<<End>>) = 1 /\ <<End>>[1] = End
  BY <1>2
<1>. DEFINE first == <<Header>> \o middle
<1>8. /\ first \in Seq(Cell) /\ Len(first) = n + 1 /\ first[1] = Header
      /\ \A i \in 1 .. n : first[i + 1] = middle[i]
  BY <1>1, <1>4, <1>7
<1>. HIDE DEF first
<1>9. /\ first \o <<End>> \in Seq(Cell) /\ Len(first \o <<End>>) = n + 2
      /\ \A i \in 1 .. n + 1 : (first \o <<End>>)[i] = first[i]
      /\ (first \o <<End>>)[n + 2] = End
  BY <1>1, <1>7, <1>8
<1>10. Encoded(blocks, dedup) = first \o <<End>>
  BY <1>6 DEF first
<1>11. 1 \in 1 .. n + 1 /\ \A i \in 1 .. n : i + 1 \in 1 .. n + 1
  BY <1>1
<1>12. \A i \in 1 .. n : (first \o <<End>>)[i + 1] = BlockCell(blocks, dedup, i)
  BY <1>5, <1>8, <1>9, <1>11
<1>13. (first \o <<End>>)[1] = Header
  BY <1>8, <1>9, <1>11
<1>. QED  BY <1>9, <1>10, <1>12, <1>13 DEF FileOf

\* The blocks of the cells are the blocks that were encoded.
LEMMA BodiesBack ==
  ASSUME NEW blocks \in Seq(Body), NEW dedup \in BOOLEAN
  PROVE  BodiesOf(Encoded(blocks, dedup)) = blocks
<1>1. PICK n \in Nat : Len(blocks) = n
  OBVIOUS
<1>2. Len(Encoded(blocks, dedup)) = n + 2
  BY <1>1, EncodedCells DEF FileOf
<1>3. \A i \in 1 .. n : Encoded(blocks, dedup)[i + 1].block = blocks[i]
  <2>1. \A i \in 1 .. n : Encoded(blocks, dedup)[i + 1] = BlockCell(blocks, dedup, i)
    BY <1>1, EncodedCells DEF FileOf
  <2>2. ASSUME NEW i \in 1 .. n
        PROVE  Encoded(blocks, dedup)[i + 1].block = blocks[i]
    <3>1. Encoded(blocks, dedup)[i + 1] = BlockCell(blocks, dedup, i)
      BY <2>1
    <3>2. BlockCell(blocks, dedup, i).block = blocks[i]
      BY DEF BlockCell
    <3>. QED  BY <3>1, <3>2
  <2>. QED  BY <2>2
<1>4. BodiesOf(Encoded(blocks, dedup)) = [i \in 1 .. n |-> blocks[i]]
  BY <1>2, <1>3 DEF BodiesOf
<1>. QED  BY <1>1, <1>4
-----------------------------------------------------------------------------
(* Reading a file.                                                         *)

\* The cells that decide how decode ends.
Ends(cells) == {i \in 2 .. Len(cells) : cells[i].cell = "end"}
References(cells) == {i \in 2 .. Len(cells) : cells[i].cell = "block" /\ cells[i].reference}
Invalid(cells) ==
  {i \in 2 .. Len(cells) : /\ cells[i].cell = "block" /\ cells[i].block.type # "Annotation"
                           /\ DecodedBlock(cells[i].block).variant = NotAName}

\* The least of some numbers is one of them and no more than any of them.
LEMMA MinIsLeast ==
  ASSUME NEW T, T \subseteq Nat, T # {}
  PROVE  Min(T) \in T /\ \A y \in T : Min(T) <= y
<1>1. \E x \in T : \A y \in T : x =< y
  BY LeastNumber
<1>. QED  BY <1>1 DEF Min

\* A file with no END and a file that is empty are refused.
LEMMA NoEndRefused ==
  ASSUME NEW cells, Len(cells) \in Nat, cells = <<>> \/ Ends(cells) = {}
  PROVE  DecodeFile(cells).status # "ok"
<1>. DEFINE stops == Ends(cells) \cup References(cells) \cup Invalid(cells)
<1>1. CASE cells = <<>> \/ cells[1] # Header
  BY <1>1 DEF DecodeFile, Failed
<1>2. CASE ~(cells = <<>> \/ cells[1] # Header) /\ stops = {}
  BY <1>2 DEF DecodeFile, Failed, Unterminated, Ends, References, Invalid
<1>3. CASE ~(cells = <<>> \/ cells[1] # Header) /\ stops # {}
  <2>1. stops \subseteq Nat
    BY DEF Ends, References, Invalid
  <2>2. Min(stops) \in stops
    <3>. HIDE DEF stops
    <3>. QED  BY <2>1, <1>3, MinIsLeast
  <2>3. Min(stops) \in References(cells) \/ Min(stops) \in Invalid(cells)
    BY <2>2, <1>3
  <2>. QED  BY <2>3, <1>3 DEF DecodeFile, Failed, Ends, References, Invalid
<1>. QED  BY <1>1, <1>2, <1>3

\* decode of a whole file: refused if it has references, else its blocks in order.
LEMMA WholeFileRead ==
  ASSUME NEW cells, NEW blocks \in Seq(Body), NEW dedup \in BOOLEAN, NEW n \in Nat,
         n = Len(blocks), FileOf(cells, blocks, dedup, n),
         \A i \in 1 .. n : DecodedBlock(blocks[i]).variant # NotAName
  PROVE  DecodeFile(cells) =
           IF \E i \in 1 .. n : Again(blocks, dedup, i) THEN Failed("MissingContentStore")
           ELSE [status |-> "ok", blocks |-> [i \in 1 .. n |-> DecodedBlock(blocks[i])]]
<1>. DEFINE stops == Ends(cells) \cup References(cells) \cup Invalid(cells)
<1>1. /\ cells # <<>> /\ cells[1] = Header /\ Len(cells) = n + 2 /\ cells \in Seq(Cell)
      /\ cells[n + 2].cell = "end"
  BY DEF FileOf, End
<1>2. ASSUME NEW i \in 2 .. n + 1
      PROVE  /\ i - 1 \in 1 .. n
             /\ cells[i].cell = "block" /\ cells[i].block = blocks[i - 1]
             /\ cells[i].reference = Again(blocks, dedup, i - 1)
  <2>1. i - 1 \in 1 .. n /\ (i - 1) + 1 = i
    OBVIOUS
  <2>2. cells[i] = BlockCell(blocks, dedup, i - 1)
    BY <2>1 DEF FileOf
  <2>. QED  BY <2>1, <2>2 DEF BlockCell
<1>3. \A i \in 2 .. Len(cells) : i \in 2 .. n + 1 \/ i = n + 2
  BY <1>1
<1>4. Ends(cells) = {n + 2}
  BY <1>1, <1>2, <1>3 DEF Ends
<1>5. Invalid(cells) = {}
  BY <1>1, <1>2, <1>3 DEF Invalid
<1>6. \A i \in References(cells) : i \in 2 .. n + 1 /\ Again(blocks, dedup, i - 1)
  BY <1>1, <1>2, <1>3 DEF References
<1>7. \A i \in 1 .. n : Again(blocks, dedup, i) => i + 1 \in References(cells)
  <2> SUFFICES ASSUME NEW i \in 1 .. n, Again(blocks, dedup, i)
               PROVE  i + 1 \in References(cells)
    OBVIOUS
  <2>1. i + 1 \in 2 .. n + 1 /\ (i + 1) - 1 = i /\ i + 1 \in 2 .. Len(cells)
    BY <1>1
  <2>2. cells[i + 1].cell = "block" /\ cells[i + 1].reference = Again(blocks, dedup, (i + 1) - 1)
    BY <2>1, <1>2
  <2>. QED  BY <2>1, <2>2 DEF References
<1>8. Min(stops) \in stops /\ \A y \in stops : Min(stops) <= y
  <2>1. stops \subseteq Nat /\ stops # {}
    BY <1>4 DEF Ends, References, Invalid
  <2>. HIDE DEF stops
  <2>. QED  BY <2>1, MinIsLeast
<1>9. CASE \E i \in 1 .. n : Again(blocks, dedup, i)
  <2>1. PICK i \in 1 .. n : Again(blocks, dedup, i)
    BY <1>9
  <2>2. Min(stops) <= i + 1
    BY <2>1, <1>7, <1>8
  <2>3. Min(stops) # n + 2
    BY <2>2
  <2>4. Min(stops) \in References(cells)
    BY <2>3, <1>4, <1>5, <1>8
  <2>. QED  BY <2>4, <1>1, <1>4, <1>9 DEF DecodeFile, Ends, References, Invalid
<1>10. CASE ~\E i \in 1 .. n : Again(blocks, dedup, i)
  <2>1. References(cells) = {}
    BY <1>6, <1>10
  <2>2. stops = {n + 2} /\ Min(stops) = n + 2
    BY <2>1, <1>4, <1>5, <1>8
  <2>. DEFINE body == SubSeq(cells, 1, (n + 2) - 1)
  <2>3. DecodeFile(cells) = [status |-> "ok", blocks |-> Blocks(body)]
    <3>1. /\ ~(cells = <<>> \/ cells[1] # Header) /\ stops # {}
          /\ Min(stops) \notin References(cells) /\ Min(stops) \notin Invalid(cells)
          /\ ~(Min(stops) < Len(cells))
      <4>1. stops # {} /\ Min(stops) \notin References(cells) /\ Min(stops) \notin Invalid(cells)
        BY <2>1, <2>2, <1>5
      <4>2. ~(cells = <<>> \/ cells[1] # Header)
        BY <1>1
      <4>. HIDE DEF stops
      <4>3. ~(Min(stops) < Len(cells))
        BY <2>2, <1>1
      <4>. QED  BY <4>1, <4>2, <4>3
    <3>2. DecodeFile(cells)
            = [status |-> "ok", blocks |-> Blocks(SubSeq(cells, 1, Min(stops) - 1))]
      BY <3>1 DEF DecodeFile, Ends, References, Invalid
    <3>. HIDE DEF stops
    <3>. QED  BY <3>2, <2>2
  <2>4. Len(body) = n + 1 /\ \A i \in 1 .. n + 1 : body[i] = cells[i]
    BY <1>1
  <2>5. \A i \in 1 .. n : body[i + 1].block = blocks[i]
    <3> SUFFICES ASSUME NEW i \in 1 .. n PROVE body[i + 1].block = blocks[i]
      OBVIOUS
    <3>1. i + 1 \in 2 .. n + 1 /\ (i + 1) - 1 = i /\ i + 1 \in 1 .. n + 1
      OBVIOUS
    <3>2. cells[i + 1].block = blocks[(i + 1) - 1]
      BY <3>1, <1>2
    <3>. QED  BY <3>1, <3>2, <2>4
  <2>. HIDE DEF body
  <2>6. Blocks(body) = [i \in 1 .. n |-> DecodedBlock(blocks[i])]
    BY <2>4, <2>5 DEF Blocks
  <2>. QED  BY <2>3, <2>6, <1>10
<1>. QED  BY <1>9, <1>10
\* The manifests that parse are sequences of entries.
LEMMA ManifestOfEntries ==
  ASSUME NEW m \in Parsed
  PROVE  /\ Len(m) \in Nat /\ DOMAIN m = 1 .. Len(m)
         /\ \A k \in DOMAIN m : m[k] \in Entries
<1>1. m \in Seq({m[i] : i \in DOMAIN m})
  BY CommandsInputs
<1>. QED  BY <1>1 DEF Entries

\* What an encode wrote, by its blocks and by the positions of its entries.
LEMMA MadeFile ==
  ASSUME NEW o, MadeBy(o)
  PROVE  /\ o.manifest \in Parsed /\ o.dedup \in BOOLEAN
         /\ BodiesOf(o.cells) \in Seq(Body) /\ Len(BodiesOf(o.cells)) \in Nat
         /\ FileOf(o.cells, BodiesOf(o.cells), o.dedup, Len(BodiesOf(o.cells)))
         /\ \E own : Built(o.manifest, Len(o.manifest), BodiesOf(o.cells), own)
<1>1. o.manifest \in Parsed /\ o.dedup \in BOOLEAN /\ BodiesOf(o.cells) \in Seq(Body)
  BY DEF MadeBy, Origin
<1>2. FileOf(Encoded(BodiesOf(o.cells), o.dedup), BodiesOf(o.cells), o.dedup,
             Len(BodiesOf(o.cells)))
  BY <1>1, EncodedCells
<1>3. o.cells = Encoded(BodiesOf(o.cells), o.dedup)
  BY DEF MadeBy
<1>. QED  BY <1>1, <1>2, <1>3 DEF MadeBy, BuiltFrom

\* A first part of what an encode was to write is refused, unless it is all of it.
LEMMA PartRefused ==
  ASSUME NEW o, MadeBy(o), NEW part, IsPartOf(part, o.cells), part # o.cells
  PROVE  DecodeFile(part).status # "ok"
<1>. DEFINE blocks == BodiesOf(o.cells)
            n == Len(blocks)
<1>1. /\ n \in Nat /\ o.cells \in Seq(Cell) /\ Len(o.cells) = n + 2
      /\ \A i \in 1 .. n : o.cells[i + 1] = BlockCell(blocks, o.dedup, i)
  BY MadeFile DEF FileOf
<1>2. /\ part \in Seq({o.cells[i] : i \in DOMAIN o.cells}) /\ Len(part) <= n + 2
      /\ \A i \in 1 .. Len(part) : part[i] = o.cells[i]
  BY <1>1 DEF IsPartOf
<1>3. Len(part) # n + 2
  <2> SUFFICES ASSUME Len(part) = n + 2 PROVE part = o.cells
    OBVIOUS
  <2>. QED  BY <1>1, <1>2
<1>4. Len(part) \in Nat /\ Len(part) <= n + 1
  BY <1>1, <1>2, <1>3
<1>5. Ends(part) = {}
  <2> SUFFICES ASSUME NEW i \in 2 .. Len(part) PROVE part[i].cell # "end"
    BY DEF Ends
  <2>1. i - 1 \in 1 .. n /\ (i - 1) + 1 = i /\ i \in 1 .. Len(part)
    BY <1>1, <1>4
  <2>2. part[i] = BlockCell(blocks, o.dedup, i - 1)
    BY <2>1, <1>1, <1>2
  <2>. QED  BY <2>2 DEF BlockCell
<1>. QED  BY <1>4, <1>5, NoEndRefused

\* Two equal blocks come from two entries with the same body.
LEMMA AgainMeansDuplicates ==
  ASSUME NEW m \in Parsed, NEW blocks \in Seq(Body), NEW own,
         Built(m, Len(m), blocks, own)
  PROVE  (\E i \in 1 .. Len(blocks) : Again(blocks, TRUE, i))
           <=> (\E i, j \in DOMAIN m : i < j /\ SameBody(m[i], m[j]))
<1>. DEFINE n == Len(m)
<1>1. n \in Nat /\ DOMAIN m = 1 .. n /\ \A k \in 1 .. n : m[k] \in Entries
  BY ManifestOfEntries
<1>2. DOMAIN blocks = 1 .. Len(blocks) /\ Len(blocks) \in Nat
  OBVIOUS
<1>3. /\ \A k \in 1 .. n : own[k] \in 1 .. Len(blocks)
      /\ \A k \in 1 .. n : EntryFault(m[k]) = "none" /\ blocks[own[k]] = BodyOf(m[k])
  BY <1>2 DEF Built
<1>4. \A j, k \in 1 .. n : j < k => own[j] < own[k]
  BY DEF Built
<1>5. ASSUME NEW i \in 1 .. n, NEW j \in 1 .. n, i < j, SameBody(m[i], m[j])
      PROVE  \E p \in 1 .. Len(blocks) : Again(blocks, TRUE, p)
  <2>1. blocks[own[i]] = blocks[own[j]]
    BY <1>1, <1>3, <1>5, SameBlocks
  <2>2. own[i] < own[j] /\ own[i] \in 1 .. Len(blocks) /\ own[j] \in 1 .. Len(blocks)
    BY <1>3, <1>4, <1>5
  <2>3. own[i] \in 1 .. own[j] - 1
    BY <2>2, <1>2
  <2>. QED  BY <2>1, <2>2, <2>3 DEF Again
<1>6. ASSUME NEW p \in 1 .. Len(blocks), Again(blocks, TRUE, p)
      PROVE  \E i, j \in 1 .. n : i < j /\ SameBody(m[i], m[j])
  <2>1. PICK q \in 1 .. p - 1 : blocks[q] = blocks[p]
    BY <1>6 DEF Again
  <2>2. q \in DOMAIN blocks /\ p \in DOMAIN blocks /\ q < p /\ q \in Nat /\ p \in Nat
    BY <2>1, <1>2
  <2>3. PICK j \in 1 .. n : StandsFor(m, blocks, own, p, j)
    BY <2>2, <1>1, BuiltBlock
  <2>4. PICK i \in 1 .. n : StandsFor(m, blocks, own, q, i)
    BY <2>2, <1>1, BuiltBlock
  <2>5. own[i] \in Nat /\ own[j] \in Nat /\ i \in Nat /\ j \in Nat
    BY <1>2, <1>3
  <2>6. own[i] = q /\ own[j] = p
    BY <2>1, <2>2, <2>3, <2>4, <2>5 DEF StandsFor
  <2>7. i < j
    <3>1. ~(j < i) /\ i # j
      BY <2>2, <2>5, <2>6, <1>4
    <3>. QED  BY <3>1, <2>5
  <2>8. BodyOf(m[i]) = BodyOf(m[j])
    BY <2>1, <2>6, <1>3
  <2>9. SameBody(m[i], m[j])
    BY <2>8, <1>1, <1>3, SameBlocks
  <2>. QED  BY <2>7, <2>9
<1>. QED  BY <1>1, <1>5, <1>6

\* What decode makes of all that an encode wrote.
LEMMA MadeFileRead ==
  ASSUME NEW o, MadeBy(o)
  PROVE  DecodeFile(o.cells) =
           IF Duplicates(o) THEN Failed("MissingContentStore")
           ELSE [status |-> "ok", blocks |-> [i \in 1 .. Len(BodiesOf(o.cells)) |->
                                                DecodedBlock(BodiesOf(o.cells)[i])]]
<1>. DEFINE blocks == BodiesOf(o.cells)
            n == Len(blocks)
<1>1. /\ o.manifest \in Parsed /\ o.dedup \in BOOLEAN
      /\ blocks \in Seq(Body) /\ n \in Nat /\ FileOf(o.cells, blocks, o.dedup, n)
  BY MadeFile
<1>2. PICK own : Built(o.manifest, Len(o.manifest), blocks, own)
  BY MadeFile
<1>3. /\ Len(o.manifest) \in Nat /\ DOMAIN o.manifest = 1 .. Len(o.manifest)
      /\ \A k \in 1 .. Len(o.manifest) : o.manifest[k] \in Entries
  BY <1>1, ManifestOfEntries
<1>. HIDE DEF blocks
<1>4. ASSUME NEW i \in 1 .. n
      PROVE  DecodedBlock(blocks[i]).variant # NotAName
  <2>1. i \in DOMAIN blocks
    BY <1>1, <1>4
  <2>2. FromWireByte(EnumOf[blocks[i].type], blocks[i].byte)
          \in Variants(EnumOf[blocks[i].type])
    BY <2>1, <1>1, <1>2, <1>3, BuiltBlock
  <2>3. blocks[i].type \in DOMAIN EnumOf
    <3>1. blocks[i] \in Body
      BY <2>1, <1>1
    <3>. QED  BY <3>1 DEF Body
  <2>. QED  BY <2>2, <2>3, EnumKnown, NamesAssumption DEF DecodedBlock
<1>5. (\E i \in 1 .. n : Again(blocks, o.dedup, i)) <=> Duplicates(o)
  <2>1. CASE o.dedup
    <3>1. (\E i \in 1 .. n : Again(blocks, TRUE, i))
            <=> (\E i, j \in DOMAIN o.manifest :
                   i < j /\ SameBody(o.manifest[i], o.manifest[j]))
      BY <1>1, <1>2, AgainMeansDuplicates
    <3>. QED  BY <2>1, <3>1 DEF Duplicates, Again
  <2>2. CASE ~o.dedup
    BY <2>2 DEF Duplicates, Again
  <2>. QED  BY <2>1, <2>2
<1>6. DecodeFile(o.cells) =
        IF \E i \in 1 .. n : Again(blocks, o.dedup, i) THEN Failed("MissingContentStore")
        ELSE [status |-> "ok", blocks |-> [i \in 1 .. n |-> DecodedBlock(blocks[i])]]
  BY <1>1, <1>4, WholeFileRead
<1>. QED  BY <1>5, <1>6 DEF blocks
-----------------------------------------------------------------------------
(* The steps.                                                              *)

\* The part of TypeOK about the blocks of a running encode follows from how they
\* were built.
LEMMA BuiltIsTyped ==
  ASSUME NEW m \in Parsed, NEW n \in 0 .. Len(m), NEW blocks \in Seq(Body),
         BuiltFrom(m, n, blocks)
  PROVE  \A i \in DOMAIN blocks :
           LET b == blocks[i] IN
           /\ HasByte(EnumOf[b.type], b.byte) # {}
           /\ IF b.type = "Annotation" THEN b.target \in 1 .. i - 1 ELSE b.target = None
<1> SUFFICES ASSUME NEW i \in DOMAIN blocks
             PROVE  /\ HasByte(EnumOf[blocks[i].type], blocks[i].byte) # {}
                    /\ IF blocks[i].type = "Annotation" THEN blocks[i].target \in 1 .. i - 1
                       ELSE blocks[i].target = None
  OBVIOUS
<1>1. PICK own : Built(m, n, blocks, own)
  BY DEF BuiltFrom
<1>2. n \in Nat /\ \A k \in 1 .. n : m[k] \in Entries
  BY ManifestOfEntries
<1>3. /\ HasByte(EnumOf[blocks[i].type], blocks[i].byte) # {}
      /\ \E k \in 1 .. n : StandsFor(m, blocks, own, i, k)
  BY <1>1, <1>2, BuiltBlock
<1>. QED  BY <1>3 DEF StandsFor

\* A part that is as long as the whole is the whole.
LEMMA PartWhole ==
  ASSUME NEW cells \in Seq(Cell), NEW part, IsPartOf(part, cells), Len(part) = Len(cells)
  PROVE  part = cells
<1>1. /\ part \in Seq({cells[i] : i \in DOMAIN cells}) /\ Len(cells) \in Nat
      /\ \A i \in DOMAIN part : part[i] = cells[i]
  BY DEF IsPartOf
<1>. QED  BY <1>1

\* A part and the next cell are a part; nothing is a part.
LEMMA PartGrows ==
  ASSUME NEW cells \in Seq(Cell)
  PROVE  /\ IsPartOf(<<>>, cells)
         /\ \A part : IsPartOf(part, cells) /\ Len(part) < Len(cells) =>
              IsPartOf(Append(part, cells[Len(part) + 1]), cells)
<1>1. IsPartOf(<<>>, cells)
  BY DEF IsPartOf
<1>2. ASSUME NEW part, IsPartOf(part, cells), Len(part) < Len(cells)
      PROVE  IsPartOf(Append(part, cells[Len(part) + 1]), cells)
  <2>. DEFINE X == {cells[i] : i \in DOMAIN cells}
              c == cells[Len(part) + 1]
              n == Len(part)
  <2>1. part \in Seq(X) /\ n \in Nat /\ \A i \in 1 .. n : part[i] = cells[i]
    BY <1>2 DEF IsPartOf
  <2>2. n + 1 \in DOMAIN cells /\ c \in X
    BY <1>2, <2>1
  <2>3. Len(cells) \in Nat
    OBVIOUS
  <2>. HIDE DEF X, c
  <2>4. /\ Append(part, c) \in Seq(X) /\ Len(Append(part, c)) = n + 1
        /\ \A i \in 1 .. n : Append(part, c)[i] = part[i]
        /\ Append(part, c)[n + 1] = c
    BY <2>1, <2>2
  <2>5. ASSUME NEW i \in DOMAIN Append(part, c)
        PROVE  Append(part, c)[i] = cells[i]
    <3>1. i \in 1 .. n \/ i = n + 1
      BY <2>1, <2>4
    <3>. QED  BY <3>1, <2>1, <2>4 DEF c
  <2>6. Len(Append(part, c)) <= Len(cells)
    BY <2>1, <2>3, <2>4, <1>2
  <2>. QED  BY <2>4, <2>5, <2>6 DEF IsPartOf, X, c
<1>. QED  BY <1>1, <1>2

\* What decode gives back is a status and what it shows, and depends on the file alone.
LEMMA ResultIsRecord ==
  ASSUME NEW f \in Files, NEW a \in DecodeArgs
  PROVE  DecodeResult(f, a) = [status |-> DecodeResult(f, a).status,
                               shown |-> DecodeResult(f, a).shown]
<1>1. ASSUME NEW blocks, NEW mode, NEW verbosity, NEW include
      PROVE  Render(blocks, mode, verbosity, include)
               = [status |-> Render(blocks, mode, verbosity, include).status,
                  shown |-> Render(blocks, mode, verbosity, include).shown]
  <2>1. \E status, shown : Render(blocks, mode, verbosity, include)
                              = [status |-> status, shown |-> shown]
    BY Zenon DEF Render
  <2>. QED  BY <2>1
<1>. QED  BY <1>1 DEF DecodeResult

\* A command that leaves all files as they are keeps what is known about them.
LEMMA FilesSame ==
  ASSUME TypeOK, FilesKept, UNCHANGED <<disk, origin>>
  PROVE  /\ FilesKept'
         /\ \A f \in Files :
              IF origin'[f] = None THEN disk'[f] \in Foreign \cup {Missing, <<>>, <<TextCell>>}
              ELSE IsPartOf(disk'[f], origin'[f].cells)
BY DEF TypeOK, FilesKept

\* A command that has ended runs no more.
LEMMA EndedKept ==
  ASSUME running' = Nothing
  PROVE  RunningKept' /\ ~Encoding' /\ ~Writing'
BY DEF RunningKept, Nothing, Encoding, Writing
\* How a command that prints may end.
Ended(cmd, f, exit, shown) ==
  \/ last' = [cmd |-> cmd, args |-> f, exit |-> exit, shown |-> shown]
  \/ last' = [cmd |-> cmd, args |-> f, exit |-> "stdout", shown |-> <<>>]

\* A command that starts and ends in one step keeps the rest of the invariant.
LEMMA ReportKeeps ==
  ASSUME IInv, NEW cmd \in {"validate", "inspect", "stats", "decode"}, NEW f, NEW exit,
         NEW shown, Report(cmd, f, exit, shown)
  PROVE  /\ TypeOK' /\ FilesKept' /\ RunningKept' /\ FailureLeavesFiles'
         /\ Ended(cmd, f, exit, shown)
         /\ running' = Nothing /\ disk' = disk /\ origin' = origin
<1>1. /\ running' = Nothing /\ disk' = disk /\ origin' = origin /\ encodes' = encodes
      /\ commands' = commands + 1 /\ commands < MaxCommands /\ before' = disk
      /\ Ended(cmd, f, exit, shown)
  BY DEF Report, Start, Idle, Exit, Ended
<1>2. RunningKept' /\ ~Encoding'
  BY <1>1, EndedKept
<1>3. FilesKept' /\ \A g \in Files :
        IF origin'[g] = None THEN disk'[g] \in Foreign \cup {Missing, <<>>, <<TextCell>>}
        ELSE IsPartOf(disk'[g], origin'[g].cells)
  BY <1>1, FilesSame DEF IInv
<1>4. commands' \in 0 .. MaxCommands /\ encodes' \in 0 .. MaxEncodes
  BY <1>1, CommandsAssumption DEF IInv, TypeOK
<1>5. TypeOK'
  BY <1>2, <1>3, <1>4 DEF TypeOK
<1>6. FailureLeavesFiles'
  BY <1>1 DEF FailureLeavesFiles, Ended
<1>. QED  BY <1>1, <1>2, <1>3, <1>5, <1>6

LEMMA ValidateStep ==
  ASSUME IInv, NEW f \in Files, Validate(f)
  PROVE  IInv'
<1>1. Report("validate", f, ReadFile(f).status, <<>>)
  BY DEF Validate
<1>2. /\ TypeOK' /\ FilesKept' /\ RunningKept' /\ FailureLeavesFiles'
      /\ Ended("validate", f, ReadFile(f).status, <<>>)
      /\ running' = Nothing /\ disk' = disk
  BY <1>1, ReportKeeps
<1>3. LastKept'
  BY <1>2 DEF LastKept, Succeeded, ReadFile, Ended
<1>. QED  BY <1>2, <1>3 DEF IInv

LEMMA StatsStep ==
  ASSUME IInv, NEW f \in Files, Stats(f)
  PROVE  IInv'
<1>1. PICK shown : Report("stats", f, ReadFile(f).status, shown)
  BY Zenon DEF Stats
<1>2. /\ TypeOK' /\ FilesKept' /\ RunningKept' /\ FailureLeavesFiles'
      /\ Ended("stats", f, ReadFile(f).status, shown)
      /\ running' = Nothing /\ disk' = disk
  BY <1>1, ReportKeeps
<1>3. LastKept'
  BY <1>2 DEF LastKept, Succeeded, ReadFile, Ended
<1>. QED  BY <1>2, <1>3 DEF IInv

LEMMA InspectStep ==
  ASSUME IInv, NEW f \in Files, NEW block, Inspect(f, block)
  PROVE  IInv'
<1>. DEFINE read == ReadFile(f)
            shown == IF block = None THEN read.blocks
                     ELSE IF block \in DOMAIN read.blocks THEN <<read.blocks[block]>>
                     ELSE <<>>
            args == [file |-> f, block |-> block]
<1>1. Report("inspect", args, read.status, shown)
  BY DEF Inspect
<1>2. /\ TypeOK' /\ FilesKept' /\ RunningKept' /\ FailureLeavesFiles'
      /\ Ended("inspect", args, read.status, shown)
      /\ running' = Nothing /\ disk' = disk
  <2>. HIDE DEF args, read, shown
  <2>. QED  BY <1>1, ReportKeeps
<1>3. LastKept'
  BY <1>2 DEF LastKept, Succeeded, ReadFile, Ended
<1>. QED  BY <1>2, <1>3 DEF IInv

\* What a decode shows of files that stay as they are, it would show again.
LEMMA ShowsStays ==
  ASSUME NEW f \in Files, NEW a \in DecodeArgs, NEW shown, DecodeResult(f, a).status = "ok",
         shown = DecodeResult(f, a).shown,
         origin'[f] # None => disk'[f] = disk[f]
  PROVE  Shows(DecodeArgsOf(f, a), shown)'
<1>1. DecodeResult(f, a) = [status |-> "ok", shown |-> shown]
  BY ResultIsRecord
<1>2. origin'[f] # None => DecodeResult(f, a)' = DecodeResult(f, a)
  BY DEF DecodeResult, ReadFile
<1>3. DecodeArgsOf(f, a).file = f /\ DecodeArgsOf(f, a).flags = a
  BY DEF DecodeArgsOf
<1>. QED  BY <1>1, <1>2, <1>3 DEF Shows

LEMMA DecodePrintStep ==
  ASSUME IInv, NEW f \in Files, NEW a \in DecodeArgs, DecodePrint(f, a)
  PROVE  IInv'
<1>. DEFINE args == DecodeArgsOf(f, a)
<1>1. PICK status, shown : status = DecodeResult(f, a).status /\ shown = DecodeResult(f, a).shown
  OBVIOUS
<1>2. Report("decode", args, status, shown)
  BY <1>1 DEF DecodePrint
<1>3. /\ TypeOK' /\ FilesKept' /\ RunningKept' /\ FailureLeavesFiles'
      /\ Ended("decode", args, status, shown)
      /\ running' = Nothing /\ disk' = disk
  <2>. HIDE DEF args
  <2>. QED  BY <1>2, ReportKeeps
<1>4. status = "ok" => Shows(args, shown)'
  BY <1>1, <1>3, ShowsStays
<1>5. LastKept'
  <2>. HIDE DEF args
  <2>. QED  BY <1>3, <1>4 DEF LastKept, Succeeded, Ended
<1>. QED  BY <1>3, <1>5 DEF IInv
\* What is known of a running encode.
LEMMA EncodingKnown ==
  ASSUME IInv, Encoding
  PROVE  /\ running.manifest \in Parsed /\ running.out \in Files /\ running.dedup \in BOOLEAN
         /\ running.at \in 0 .. Len(running.manifest) /\ running.blocks \in Seq(Body)
         /\ running = [cmd |-> "encode", manifest |-> running.manifest, out |-> running.out,
                       dedup |-> running.dedup, at |-> running.at, blocks |-> running.blocks]
         /\ BuiltFrom(running.manifest, running.at, running.blocks)
         /\ disk = before
<1>1. /\ running \in [cmd : {"encode"}, manifest : Parsed, out : Files, dedup : BOOLEAN,
                      at : Nat, blocks : Seq(Body)]
      /\ running.at <= Len(running.manifest)
      /\ BuiltFrom(running.manifest, running.at, running.blocks)
      /\ disk = before
  BY DEF IInv, RunningKept
<1>2. Len(running.manifest) \in Nat
  BY <1>1, ManifestOfEntries
<1>. QED  BY <1>1, <1>2

\* A command that ends after its files were read or written, with this exit.
LEMMA EndKeeps ==
  ASSUME IInv, NEW cmd \in {"encode", "decode"}, NEW args, NEW exit, NEW shown,
         Exit(cmd, args, exit, shown), UNCHANGED <<disk, counts, before, origin>>,
         exit = "ok" /\ cmd = "encode" => args \in Files /\ Whole(args),
         exit = "ok" /\ cmd = "decode" => Shows(args, shown),
         exit \notin {"ok", "write", "killed", "stdout"} => disk = before,
         exit = "stdout" => cmd = "encode" /\ Whole(args),
         \A f, g \in Files : disk[f] # before[f] /\ disk[g] # before[g] => f = g
  PROVE  IInv'
<1>1. /\ running' = Nothing /\ disk' = disk /\ origin' = origin /\ before' = before
      /\ commands' = commands /\ encodes' = encodes
      /\ last' = [cmd |-> cmd, args |-> args, exit |-> exit, shown |-> shown]
  BY DEF Exit, counts
<1>2. RunningKept' /\ ~Encoding'
  BY <1>1, EndedKept
<1>3. FilesKept' /\ \A g \in Files :
        IF origin'[g] = None THEN disk'[g] \in Foreign \cup {Missing, <<>>, <<TextCell>>}
        ELSE IsPartOf(disk'[g], origin'[g].cells)
  BY <1>1, FilesSame DEF IInv
<1>4. TypeOK'
  BY <1>1, <1>2, <1>3 DEF IInv, TypeOK
<1>5. FailureLeavesFiles'
  BY <1>1 DEF FailureLeavesFiles, Whole
<1>6. exit = "ok" /\ cmd = "encode" => args \in Files /\ Whole(args)'
  BY <1>1 DEF Whole
<1>7. exit = "ok" /\ cmd = "decode" => Shows(args, shown)'
  BY <1>1 DEF Shows, DecodeResult, ReadFile
<1>8. LastKept'
  BY <1>1, <1>6, <1>7 DEF LastKept, Succeeded
<1>. QED  BY <1>2, <1>3, <1>4, <1>5, <1>8 DEF IInv

LEMMA StartEncodeStep ==
  ASSUME IInv, NEW m \in Manifests, NEW out \in Files, NEW dedup \in BOOLEAN,
         StartEncode(m, out, dedup)
  PROVE  IInv'
<1>1. /\ disk' = disk /\ origin' = origin /\ before' = disk
      /\ commands' \in 0 .. MaxCommands /\ encodes' \in 0 .. MaxEncodes
  BY CommandsAssumption DEF StartEncode, StartAnEncode, Start, Idle, IInv, TypeOK
<1>2. FilesKept' /\ \A g \in Files :
        IF origin'[g] = None THEN disk'[g] \in Foreign \cup {Missing, <<>>, <<TextCell>>}
        ELSE IsPartOf(disk'[g], origin'[g].cells)
  BY <1>1, FilesSame DEF IInv
<1>3. FailureLeavesFiles'
  BY <1>1 DEF FailureLeavesFiles, StartEncode, Exit, Nothing
<1>4. CASE m = Unparsed
  <2>1. /\ running' = Nothing
        /\ last' = [cmd |-> "encode", args |-> out, exit |-> "manifest", shown |-> <<>>]
    BY <1>4 DEF StartEncode, Exit
  <2>2. RunningKept' /\ ~Encoding'
    BY <2>1, EndedKept
  <2>3. TypeOK'
    BY <2>2, <1>1, <1>2 DEF TypeOK
  <2>4. LastKept'
    BY <2>1 DEF LastKept, Succeeded
  <2>. QED  BY <2>2, <2>3, <2>4, <1>2, <1>3 DEF IInv
<1>5. CASE m # Unparsed
  <2>1. /\ running' = [cmd |-> "encode", manifest |-> m, out |-> out, dedup |-> dedup,
                       at |-> 0, blocks |-> <<>>]
        /\ last' = Nothing
    BY <1>5 DEF StartEncode
  <2>2. m \in Parsed /\ Len(m) \in Nat
    BY <1>5, ManifestOfEntries DEF Parsed
  <2>3. BuiltFrom(m, 0, <<>>)
    <3>1. <<>> \in [1 .. 0 -> DOMAIN <<>>] /\ DOMAIN <<>> = {}
      OBVIOUS
    <3>2. Built(m, 0, <<>>, <<>>)
      BY <3>1 DEF Built
    <3>. QED  BY <3>1, <3>2 DEF BuiltFrom
  <2>4. RunningKept'
    <3>1. running'.cmd = "encode" /\ ~Writing'
      BY <2>1 DEF Writing
    <3>2. running' \in [cmd : {"encode"}, manifest : Parsed, out : Files, dedup : BOOLEAN,
                        at : Nat, blocks : Seq(Body)]
      BY <2>1, <2>2
    <3>3. /\ running'.at <= Len(running'.manifest)
          /\ BuiltFrom(running'.manifest, running'.at, running'.blocks)
      BY <2>1, <2>2, <2>3
    <3>. QED  BY <3>1, <3>2, <3>3, <1>1 DEF RunningKept
  <2>5. TypeOK'
    BY <2>1, <1>1, <1>2 DEF TypeOK
  <2>6. LastKept'
    BY <2>1 DEF LastKept, Succeeded, Nothing
  <2>. QED  BY <2>4, <2>5, <2>6, <1>2, <1>3 DEF IInv
<1>. QED  BY <1>4, <1>5

LEMMA ApplyEntryStep ==
  ASSUME IInv, ApplyEntry
  PROVE  IInv'
<1>1. /\ running.manifest \in Parsed /\ running.out \in Files /\ running.dedup \in BOOLEAN
      /\ running.at \in 0 .. Len(running.manifest) /\ running.blocks \in Seq(Body)
      /\ running = [cmd |-> "encode", manifest |-> running.manifest, out |-> running.out,
                    dedup |-> running.dedup, at |-> running.at, blocks |-> running.blocks]
      /\ BuiltFrom(running.manifest, running.at, running.blocks)
      /\ disk = before
  BY EncodingKnown DEF ApplyEntry
<1>2. /\ running.at < Len(running.manifest) /\ UNCHANGED <<disk, counts, before, origin>>
      /\ Encoding
  BY DEF ApplyEntry
<1>3. Len(running.manifest) \in Nat /\ running.at + 1 \in DOMAIN running.manifest
      /\ NextEntry \in Entries
  BY <1>1, <1>2, ManifestOfEntries DEF NextEntry
<1>4. CASE EntryFault(NextEntry) # "none"
  <2>1. Exit("encode", running.out, EntryFault(NextEntry), <<>>)
    BY <1>4 DEF ApplyEntry
  <2>2. EntryFault(NextEntry) \notin {"ok", "stdout"}
    BY DEF EntryFault
  <2>. QED  BY <2>1, <2>2, <1>1, <1>2, EndKeeps
<1>5. CASE EntryFault(NextEntry) = "none"
  <2>. DEFINE new == ApplyBlock(running.blocks, NextEntry)
              n == running.at + 1
  <2>1. running' = [running EXCEPT !.at = running.at + 1,
                                   !.blocks = ApplyBlock(running.blocks, NextEntry)]
    BY <1>5 DEF ApplyEntry
  <2>2. /\ running'.cmd = "encode" /\ running'.manifest = running.manifest
        /\ running'.at = n /\ running'.blocks = new
        /\ running' \in [cmd : {"encode"}, manifest : {running.manifest}, out : {running.out},
                         dedup : {running.dedup}, at : {n}, blocks : {new}]
    <3>. HIDE DEF n, new
    <3>1. running' = [running EXCEPT !.at = n, !.blocks = new]
      BY <2>1 DEF n, new
    <3>2. PICK m, o, d, a, b :
             running = [cmd |-> "encode", manifest |-> m, out |-> o, dedup |-> d, at |-> a,
                        blocks |-> b]
      BY <1>1
    <3>3. /\ running'.cmd = "encode" /\ running'.manifest = m
          /\ running'.at = n /\ running'.blocks = new
          /\ running' \in [cmd : {"encode"}, manifest : {m}, out : {o}, dedup : {d}, at : {n},
                           blocks : {new}]
      BY <3>1, <3>2
    <3>. QED  BY <3>2, <3>3
  <2>3. last' = last /\ disk' = disk /\ before' = before /\ origin' = origin
        /\ commands' = commands /\ encodes' = encodes
    BY <1>2, <1>5 DEF ApplyEntry, counts
  <2>4. new \in Seq(Body) /\ BuiltFrom(running.manifest, n, new)
    BY <1>1, <1>3, <1>5, BuiltGrows DEF NextEntry
  <2>5. n \in 0 .. Len(running.manifest) /\ n \in Nat
    BY <1>1, <1>2, <1>3
  <2>. HIDE DEF new, n
  <2>6. RunningKept'
    <3>1. running'.cmd = "encode" /\ ~Writing'
      BY <2>2 DEF Writing
    <3>2. running' \in [cmd : {"encode"}, manifest : Parsed, out : Files, dedup : BOOLEAN,
                        at : Nat, blocks : Seq(Body)]
      BY <2>2, <2>4, <2>5, <1>1
    <3>3. /\ running'.at <= Len(running'.manifest)
          /\ BuiltFrom(running'.manifest, running'.at, running'.blocks)
      BY <2>2, <2>4, <2>5
    <3>. QED  BY <3>1, <3>2, <3>3, <2>3, <1>1 DEF RunningKept
  <2>7. \A i \in DOMAIN new :
          LET b == new[i] IN
          /\ HasByte(EnumOf[b.type], b.byte) # {}
          /\ IF b.type = "Annotation" THEN b.target \in 1 .. i - 1 ELSE b.target = None
    BY <2>4, <2>5, <1>1, BuiltIsTyped
  <2>8. FilesKept' /\ \A g \in Files :
          IF origin'[g] = None THEN disk'[g] \in Foreign \cup {Missing, <<>>, <<TextCell>>}
          ELSE IsPartOf(disk'[g], origin'[g].cells)
    BY <2>3, FilesSame DEF IInv
  <2>9. TypeOK'
    BY <2>2, <2>3, <2>7, <2>8 DEF IInv, TypeOK
  <2>10. last = Nothing
    BY <1>2 DEF IInv, LastKept, Encoding, Nothing
  <2>11. LastKept' /\ FailureLeavesFiles'
    BY <2>3, <2>10 DEF LastKept, Succeeded, Nothing, FailureLeavesFiles
  <2>. QED  BY <2>6, <2>8, <2>9, <2>11 DEF IInv
<1>. QED  BY <1>4, <1>5

LEMMA RefusePayloadStep ==
  ASSUME IInv, RefusePayload
  PROVE  IInv'
<1>1. /\ Exit("encode", running.out, "payload", <<>>) /\ Encoding
      /\ UNCHANGED <<disk, counts, before, origin>>
  BY DEF RefusePayload, AllApplied
<1>2. disk = before
  BY <1>1, EncodingKnown
<1>. QED  BY <1>1, <1>2, EndKeeps
\* What is known of a running write.
LEMMA WritingKnown ==
  ASSUME IInv, Writing
  PROVE  /\ running.out \in Files /\ running.cells \in Seq(Cell)
         /\ running.for \in {"encode", "decode"} /\ running.cmd = "write"
         /\ IsPartOf(disk[running.out], running.cells)
         /\ \A f \in Files : f # running.out => disk[f] = before[f]
         /\ running.for = "encode" =>
              /\ running.args = running.out
              /\ origin[running.out] # None /\ origin[running.out].cells = running.cells
         /\ running.for = "decode" =>
              /\ origin[running.out] = None /\ running.cells = <<TextCell>>
              /\ Shows(running.args, running.shown)
         /\ last = Nothing
<1>1. last = Nothing
  BY DEF IInv, LastKept, Writing, Nothing
<1>2. running \in [cmd : {"write"}, for : {"encode", "decode"}, args : {running.args},
                   out : Files, cells : Seq(Cell), shown : {running.shown}]
  BY DEF IInv, RunningKept
<1>3. /\ running.out \in Files /\ running.cells \in Seq(Cell)
      /\ running.for \in {"encode", "decode"} /\ running.cmd = "write"
  BY <1>2
<1>. QED  BY <1>1, <1>3 DEF IInv, RunningKept

\* A file that cannot be opened, or is opened and emptied for what is to be in it.
LEMMA OpenKeeps ==
  ASSUME TypeOK, FilesKept, NEW cmd \in {"encode", "decode"}, NEW args, NEW out \in Files,
         NEW cells \in Seq(Cell), NEW shown, NEW from,
         /\ disk' = [disk EXCEPT ![out] = <<>>]
         /\ origin' = [origin EXCEPT ![out] = from]
         /\ running' = [cmd |-> "write", for |-> cmd, args |-> args, out |-> out,
                        cells |-> cells, shown |-> shown]
         /\ last' = Nothing,
         \A f \in Files : f # out => disk[f] = before'[f],
         commands' \in 0 .. MaxCommands, encodes' \in 0 .. MaxEncodes,
         cmd = "encode" => args = out /\ MadeBy(from) /\ from.cells = cells,
         cmd = "decode" => from = None /\ cells = <<TextCell>> /\ Shows(args, shown)'
  PROVE  IInv'
<1>1. DOMAIN disk = Files /\ origin \in [Files -> Origin \cup {None}]
  BY DEF FilesKept
<1>2. cmd = "encode" => from \in Origin /\ from # None
  BY CommandsMarks DEF MadeBy
<1>3. /\ disk'[out] = <<>> /\ origin'[out] = from
      /\ \A f \in Files : f # out => disk'[f] = disk[f] /\ origin'[f] = origin[f]
  BY <1>1
<1>4. disk' \in [Files -> {disk'[f] : f \in Files}] /\ origin' \in [Files -> Origin \cup {None}]
  BY <1>1, <1>2
<1>5. ASSUME NEW f \in Files
      PROVE  origin'[f] # None => MadeBy(origin'[f])
  <2>1. CASE f = out
    BY <2>1, <1>3
  <2>2. CASE f # out
    BY <2>2, <1>3 DEF FilesKept
  <2>. QED  BY <2>1, <2>2
<1>6. FilesKept'
  BY <1>4, <1>5 DEF FilesKept
<1>7. ASSUME NEW f \in Files
      PROVE  IF origin'[f] = None THEN disk'[f] \in Foreign \cup {Missing, <<>>, <<TextCell>>}
             ELSE IsPartOf(disk'[f], origin'[f].cells)
  <2>1. CASE f = out
    BY <2>1, <1>2, <1>3, PartGrows
  <2>2. CASE f # out
    BY <2>2, <1>3 DEF TypeOK
  <2>. QED  BY <2>1, <2>2
<1>8. ~Encoding' /\ running'.cmd = "write"
  BY DEF Encoding
<1>9. TypeOK'
  BY <1>7, <1>8 DEF TypeOK
<1>10. LastKept' /\ FailureLeavesFiles'
  BY DEF LastKept, Succeeded, Nothing, FailureLeavesFiles
<1>11. running' \in [cmd : {"write"}, for : {"encode", "decode"}, args : {running'.args},
                     out : Files, cells : Seq(Cell), shown : {running'.shown}]
  OBVIOUS
<1>12. /\ running'.for = cmd /\ running'.args = args /\ running'.out = out
       /\ running'.cells = cells /\ running'.shown = shown
  OBVIOUS
<1>13. /\ IsPartOf(disk'[out], cells) /\ \A f \in Files : f # out => disk'[f] = before'[f]
       /\ cmd = "encode" => args = out /\ origin'[out] # None /\ origin'[out].cells = cells
       /\ cmd = "decode" => origin'[out] = None
  BY <1>2, <1>3, PartGrows
<1>14. cmd = "decode" => Shows(running.args, running.shown)'
  BY <1>12 DEF Shows
<1>15. RunningKept'
  BY <1>8, <1>11, <1>12, <1>13, <1>14 DEF RunningKept
<1>. QED  BY <1>6, <1>9, <1>10, <1>15 DEF IInv

LEMMA WriteOutputStep ==
  ASSUME IInv, WriteOutput
  PROVE  IInv'
<1>. DEFINE cells == Encoded(running.blocks, running.dedup)
            from == [manifest |-> running.manifest, dedup |-> running.dedup, cells |-> cells]
<1>1. /\ Encoding /\ running.at = Len(running.manifest) /\ ~EncodeFails
      /\ UNCHANGED <<counts, before>>
      /\ Open("encode", running.out, running.out, cells, <<>>, from)
  BY DEF WriteOutput, AllApplied
<1>2. /\ running.manifest \in Parsed /\ running.out \in Files /\ running.dedup \in BOOLEAN
      /\ running.blocks \in Seq(Body)
      /\ BuiltFrom(running.manifest, Len(running.manifest), running.blocks)
      /\ disk = before
  BY <1>1, EncodingKnown
<1>3. cells \in Seq(Cell) /\ Len(cells) = Len(running.blocks) + 2
  BY <1>2, EncodedCells DEF FileOf
<1>4. Len(cells) > 2
  <2>1. running.blocks # <<>>
    BY <1>1 DEF EncodeFails
  <2>2. Len(running.blocks) \in Nat /\ Len(running.blocks) # 0
    BY <2>1, <1>2
  <2>. QED  BY <2>2, <1>3
<1>5. BodiesOf(cells) = running.blocks
  BY <1>2, BodiesBack
<1>. HIDE DEF cells
<1>6. MadeBy(from)
  <2>1. from \in Origin
    BY <1>2, <1>3 DEF Origin
  <2>. QED  BY <2>1, <1>2, <1>4, <1>5 DEF MadeBy, cells
<1>7. from.cells = cells
  OBVIOUS
<1>. HIDE DEF from
<1>8. CASE Exit("encode", running.out, "write", <<>>) /\ UNCHANGED <<disk, origin>>
  BY <1>1, <1>2, <1>8, EndKeeps
<1>9. CASE /\ disk' = [disk EXCEPT ![running.out] = <<>>]
           /\ origin' = [origin EXCEPT ![running.out] = from]
           /\ running' = [cmd |-> "write", for |-> "encode", args |-> running.out,
                          out |-> running.out, cells |-> cells, shown |-> <<>>]
           /\ last' = Nothing
  <2>1. commands' \in 0 .. MaxCommands /\ encodes' \in 0 .. MaxEncodes /\ before' = before
    BY <1>1 DEF counts, IInv, TypeOK
  <2>2. TypeOK /\ FilesKept
    BY DEF IInv
  <2>. QED  BY <2>1, <2>2, <1>2, <1>3, <1>6, <1>7, <1>9, OpenKeeps
<1>. QED  BY <1>1, <1>8, <1>9 DEF Open

LEMMA WriteCellStep ==
  ASSUME IInv, WriteCell
  PROVE  IInv'
<1>. DEFINE out == running.out
            cells == running.cells
            next == cells[Len(disk[out]) + 1]
<1>1. /\ Writing /\ Len(disk[out]) < Len(cells)
      /\ disk' = [disk EXCEPT ![out] = Append(disk[out], next)]
      /\ running' = running /\ last' = last /\ before' = before /\ origin' = origin
      /\ commands' = commands /\ encodes' = encodes
  BY DEF WriteCell, Written, counts
<1>2. /\ out \in Files /\ cells \in Seq(Cell) /\ running.for \in {"encode", "decode"}
      /\ running.cmd = "write" /\ IsPartOf(disk[out], cells)
      /\ \A f \in Files : f # out => disk[f] = before[f]
      /\ running.for = "encode" =>
           running.args = out /\ origin[out] # None /\ origin[out].cells = cells
      /\ running.for = "decode" =>
           origin[out] = None /\ cells = <<TextCell>> /\ Shows(running.args, running.shown)
      /\ last = Nothing
  BY <1>1, WritingKnown
<1>3. DOMAIN disk = Files
  BY DEF IInv, FilesKept
<1>4. IsPartOf(Append(disk[out], next), cells)
  BY <1>1, <1>2, PartGrows
<1>5. /\ disk'[out] = Append(disk[out], next)
      /\ \A f \in Files : f # out => disk'[f] = disk[f]
  BY <1>1, <1>2, <1>3
<1>6. disk' \in [Files -> {disk'[f] : f \in Files}]
  BY <1>1, <1>3
<1>7. FilesKept'
  BY <1>1, <1>6 DEF IInv, FilesKept
<1>8. running.for = "decode" => disk'[out] = <<TextCell>>
  <2> SUFFICES ASSUME running.for = "decode" PROVE Append(disk[out], next) = <<TextCell>>
    BY <1>5
  <2>1. cells = <<TextCell>> /\ Len(cells) = 1
    BY <1>2
  <2>2. Len(disk[out]) = 0 /\ disk[out] = <<>>
    BY <2>1, <1>1, <1>2 DEF IsPartOf
  <2>3. next = TextCell
    BY <2>1, <2>2
  <2>. QED  BY <2>2, <2>3
<1>9. ASSUME NEW f \in Files
      PROVE  IF origin'[f] = None THEN disk'[f] \in Foreign \cup {Missing, <<>>, <<TextCell>>}
             ELSE IsPartOf(disk'[f], origin'[f].cells)
  <2>. HIDE DEF out, cells, next
  <2>1. CASE f = out
    BY <2>1, <1>1, <1>2, <1>4, <1>5, <1>8
  <2>2. CASE f # out
    BY <2>2, <1>1, <1>5 DEF IInv, TypeOK
  <2>. QED  BY <2>1, <2>2
<1>10. TypeOK'
  BY <1>1, <1>2, <1>9 DEF IInv, TypeOK, Encoding
<1>11. LastKept' /\ FailureLeavesFiles'
  BY <1>1, <1>2 DEF LastKept, Succeeded, Nothing, FailureLeavesFiles
<1>12. running.for = "decode" => Shows(running.args, running.shown)'
  BY <1>1, <1>2, <1>5 DEF Shows, DecodeResult, ReadFile
<1>13. RunningKept'
  <2>1. running' \in [cmd : {"write"}, for : {"encode", "decode"}, args : {running'.args},
                     out : Files, cells : Seq(Cell), shown : {running'.shown}]
    BY <1>1 DEF IInv, RunningKept
  <2>2. running' = running /\ out' = out /\ cells' = cells
    BY <1>1
  <2>3. IsPartOf(disk'[out], cells) /\ \A f \in Files : f # out => disk'[f] = before'[f]
    BY <1>1, <1>2, <1>4, <1>5
  <2>. QED  BY <2>1, <2>2, <2>3, <1>1, <1>2, <1>12 DEF RunningKept, Encoding
<1>. QED  BY <1>7, <1>10, <1>11, <1>13 DEF IInv

LEMMA FinishWriteStep ==
  ASSUME IInv, FinishWrite
  PROVE  IInv'
<1>1. /\ Writing /\ Len(disk[running.out]) = Len(running.cells)
      /\ \/ Exit(running.for, running.args, "ok", running.shown)
         \/ running.for = "encode" /\ Exit("encode", running.args, "stdout", <<>>)
      /\ UNCHANGED <<disk, counts, before, origin>>
  BY DEF FinishWrite, Written
<1>2. /\ running.out \in Files /\ running.for \in {"encode", "decode"}
      /\ disk[running.out] = running.cells
    BY <1>1, WritingKnown, PartWhole
<1>3. running.for = "encode" => running.args \in Files /\ Whole(running.args)
  BY <1>1, <1>2, WritingKnown DEF Whole
<1>4. running.for = "decode" => Shows(running.args, running.shown)
  BY <1>1, WritingKnown
<1>5. \A f, g \in Files : disk[f] # before[f] /\ disk[g] # before[g] => f = g
  BY <1>1, WritingKnown
<1>6. CASE Exit(running.for, running.args, "ok", running.shown)
  BY <1>1, <1>2, <1>3, <1>4, <1>5, <1>6, EndKeeps
<1>7. CASE running.for = "encode" /\ Exit("encode", running.args, "stdout", <<>>)
  BY <1>1, <1>3, <1>5, <1>7, EndKeeps
<1>. QED  BY <1>1, <1>6, <1>7

LEMMA WriteFailsStep ==
  ASSUME IInv, WriteFails
  PROVE  IInv'
<1>1. /\ Writing /\ Exit(running.for, running.args, "write", <<>>)
      /\ UNCHANGED <<disk, counts, before, origin>>
  BY DEF WriteFails
<1>2. running.for \in {"encode", "decode"}
    BY <1>1, WritingKnown
<1>3. \A f, g \in Files : disk[f] # before[f] /\ disk[g] # before[g] => f = g
  BY <1>1, WritingKnown
<1>. QED  BY <1>1, <1>2, <1>3, EndKeeps

LEMMA KillStep ==
  ASSUME IInv, Kill
  PROVE  IInv'
<1>1. UNCHANGED <<disk, counts, before, origin>> /\ running # Nothing
  BY DEF Kill
<1>2. CASE Writing
  <2>1. running.for \in {"encode", "decode"} /\ Exit(running.for, None, "killed", <<>>)
    BY <1>2, WritingKnown DEF Kill
  <2>2. \A f, g \in Files : disk[f] # before[f] /\ disk[g] # before[g] => f = g
    BY <1>2, WritingKnown
  <2>. QED  BY <2>1, <2>2, <1>1, EndKeeps
<1>3. CASE ~Writing
  <2>1. Encoding
    BY <1>1, <1>3 DEF IInv, RunningKept, Encoding, Writing
  <2>2. Exit("encode", None, "killed", <<>>)
    BY <2>1, <1>3 DEF Kill, Encoding
  <2>3. disk = before
    BY <2>1, EncodingKnown
  <2>. QED  BY <2>2, <2>3, <1>1, EndKeeps
<1>. QED  BY <1>2, <1>3

LEMMA DecodeWriteStep ==
  ASSUME IInv, NEW f \in Files, NEW a \in DecodeArgs, NEW out \in Files,
         DecodeWrite(f, a, out)
  PROVE  IInv'
<1>. DEFINE args == DecodeArgsOf(f, a)
<1>1. PICK status, shown : status = DecodeResult(f, a).status /\ shown = DecodeResult(f, a).shown
  OBVIOUS
<1>2. /\ Start /\ encodes' = encodes
      /\ IF status = "ok" THEN Open("decode", args, out, <<TextCell>>, shown, None)
         ELSE Exit("decode", args, status, <<>>) /\ UNCHANGED <<disk, origin>>
  BY <1>1 DEF DecodeWrite
<1>3. /\ before' = disk /\ commands' \in 0 .. MaxCommands /\ encodes' \in 0 .. MaxEncodes
  BY <1>2, CommandsAssumption DEF Start, Idle, IInv, TypeOK
<1>. HIDE DEF args
<1>4. CASE \E exit, what : /\ exit # "ok" /\ Exit("decode", args, exit, what)
                           /\ UNCHANGED <<disk, origin>>
  <2>1. PICK exit, what : exit # "ok" /\ Exit("decode", args, exit, what)
    BY <1>4
  <2>2. disk' = disk /\ origin' = origin
    BY <1>4
  <2>3. /\ running' = Nothing
        /\ last' = [cmd |-> "decode", args |-> args, exit |-> exit, shown |-> what]
    BY <2>1 DEF Exit
  <2>4. RunningKept' /\ ~Encoding'
    BY <2>3, EndedKept
  <2>5. FilesKept' /\ \A g \in Files :
          IF origin'[g] = None THEN disk'[g] \in Foreign \cup {Missing, <<>>, <<TextCell>>}
          ELSE IsPartOf(disk'[g], origin'[g].cells)
    BY <2>2, FilesSame DEF IInv
  <2>6. TypeOK'
    BY <2>4, <2>5, <1>3 DEF TypeOK
  <2>7. LastKept' /\ FailureLeavesFiles'
    BY <2>1, <2>2, <2>3, <1>3 DEF LastKept, Succeeded, FailureLeavesFiles
  <2>. QED  BY <2>4, <2>5, <2>6, <2>7 DEF IInv
<1>5. CASE /\ disk' = [disk EXCEPT ![out] = <<>>]
           /\ origin' = [origin EXCEPT ![out] = None]
           /\ running' = [cmd |-> "write", for |-> "decode", args |-> args, out |-> out,
                          cells |-> <<TextCell>>, shown |-> shown]
           /\ last' = Nothing /\ status = "ok"
  <2>1. TypeOK /\ FilesKept
    BY DEF IInv
  <2>2. origin'[f] # None => disk'[f] = disk[f]
    BY <2>1, <1>5 DEF FilesKept
  <2>3. Shows(args, shown)'
    BY <2>2, <1>1, <1>5, ShowsStays DEF args
  <2>4. <<TextCell>> \in Seq(Cell)
    BY DEF TextCell, Cell
  <2>. QED  BY <2>1, <2>3, <2>4, <1>3, <1>5, OpenKeeps
<1>6. CASE status = "ok"
  BY <1>2, <1>4, <1>5, <1>6 DEF Open
<1>7. CASE status # "ok"
  BY <1>2, <1>4, <1>7
<1>. QED  BY <1>6, <1>7
\* The invariant is inductive.
LEMMA InitIInv == Init => IInv
<1> SUFFICES ASSUME Init PROVE IInv
  OBVIOUS
<1>1. /\ disk \in [Files -> Foreign \cup {Missing}] /\ running = Nothing /\ last = Nothing
      /\ commands = 0 /\ encodes = 0 /\ origin = [f \in Files |-> None]
  BY DEF Init
<1>2. TypeOK
  BY <1>1, CommandsAssumption DEF TypeOK, Encoding, Nothing
<1>3. FilesKept
  BY <1>1 DEF FilesKept
<1>4. RunningKept
  BY <1>1 DEF RunningKept, Nothing, Encoding, Writing
<1>5. LastKept /\ FailureLeavesFiles
  BY <1>1 DEF LastKept, Succeeded, Nothing, FailureLeavesFiles
<1>. QED  BY <1>2, <1>3, <1>4, <1>5 DEF IInv

LEMMA NextIInv == IInv /\ [Next]_vars => IInv'
<1> SUFFICES ASSUME IInv, [Next]_vars PROVE IInv'
  OBVIOUS
<1>1. ASSUME NEW m \in Manifests, NEW f \in Files, NEW dedup \in BOOLEAN,
             StartEncode(m, f, dedup)
      PROVE  IInv'
  BY <1>1, StartEncodeStep
<1>2. CASE ApplyEntry
  BY <1>2, ApplyEntryStep
<1>3. CASE RefusePayload
  BY <1>3, RefusePayloadStep
<1>4. CASE WriteOutput
  BY <1>4, WriteOutputStep
<1>5. CASE WriteCell
  BY <1>5, WriteCellStep
<1>6. CASE FinishWrite
  BY <1>6, FinishWriteStep
<1>7. CASE WriteFails
  BY <1>7, WriteFailsStep
<1>8. CASE Kill
  BY <1>8, KillStep
<1>9. ASSUME NEW f \in Files, Validate(f)
      PROVE  IInv'
  BY <1>9, ValidateStep
<1>10. ASSUME NEW f \in Files, Stats(f)
       PROVE  IInv'
  BY <1>10, StatsStep
<1>11. ASSUME NEW f \in Files, NEW n \in {None} \cup 1 .. MaxShown, Inspect(f, n)
       PROVE  IInv'
  BY <1>11, InspectStep
<1>12. ASSUME NEW f \in Files, NEW a \in DecodeArgs, DecodePrint(f, a)
       PROVE  IInv'
  BY <1>12, DecodePrintStep
<1>13. ASSUME NEW f \in Files, NEW a \in DecodeArgs, NEW out \in Files, DecodeWrite(f, a, out)
       PROVE  IInv'
  BY <1>13, DecodeWriteStep
<1>14. CASE UNCHANGED vars
  BY <1>14 DEF vars, counts, IInv, TypeOK, FilesKept, RunningKept, LastKept,
     FailureLeavesFiles, Encoding, Writing, Shows, DecodeResult, ReadFile, Succeeded, Whole
<1>. QED  BY <1>1, <1>2, <1>3, <1>4, <1>5, <1>6, <1>7, <1>8, <1>9, <1>10, <1>11, <1>12, <1>13,
             <1>14 DEF Next, Step

\* In every behaviour of the commands, what is on the disk, what runs and what was
\* said fit together.
THEOREM InvariantHolds == Spec => []IInv
BY InitIInv, NextIInv, PTL DEF Spec

\* A running encode has only known names behind it, and priorities about a block that
\* comes before them; every file that an encode opened holds a first part of what it
\* was to be (cmd_encode.rs, run).
THEOREM TypeCorrect == Spec => []TypeOK
<1>1. IInv => TypeOK
  BY DEF IInv
<1>. QED  BY <1>1, InvariantHolds, PTL

\* A command that fails for any other reason than writing its output leaves every file
\* as it was, but for an encode that only fails to print; no command touches a file other
\* than its output (cmd_encode.rs, cmd_decode.rs).
THEOREM FailuresLeaveFiles == Spec => []FailureLeavesFiles
<1>1. IInv => FailureLeavesFiles
  BY DEF IInv
<1>. QED  BY <1>1, InvariantHolds, PTL
-----------------------------------------------------------------------------
(* What the commands say.                                                  *)

\* How decode ends for all that an encode wrote, and which blocks it gives back.
LEMMA MadeFileStatus ==
  ASSUME NEW o, MadeBy(o)
  PROVE  /\ DecodeFile(o.cells).status =
              IF Duplicates(o) THEN "MissingContentStore" ELSE "ok"
         /\ ~Duplicates(o) =>
              DecodeFile(o.cells).blocks = [i \in 1 .. Len(BodiesOf(o.cells)) |->
                                              DecodedBlock(BodiesOf(o.cells)[i])]
<1>1. DecodeFile(o.cells) =
        IF Duplicates(o) THEN Failed("MissingContentStore")
        ELSE [status |-> "ok", blocks |-> [i \in 1 .. Len(BodiesOf(o.cells)) |->
                                             DecodedBlock(BodiesOf(o.cells)[i])]]
  BY MadeFileRead
<1>. QED  BY <1>1 DEF Failed

\* A file that decode accepts and that an encode opened is all that the encode wrote.
LEMMA AcceptedIsWhole ==
  ASSUME IInv, NEW f \in Files, origin[f] # None, ReadFile(f).status = "ok"
  PROVE  Whole(f) /\ MadeBy(origin[f])
<1>1. MadeBy(origin[f]) /\ IsPartOf(disk[f], origin[f].cells)
  BY DEF IInv, FilesKept, TypeOK
<1>2. disk[f] # Missing
  BY DEF ReadFile, Failed
<1>3. DecodeFile(disk[f]).status = "ok"
  BY <1>2 DEF ReadFile
<1>. QED  BY <1>1, <1>3, PartRefused DEF Whole

\* What decode makes of such a file, block by block.
LEMMA AcceptedBlocks ==
  ASSUME IInv, NEW f \in Files, origin[f] # None, ReadFile(f).status = "ok"
  PROVE  ReadFile(f).blocks = [i \in 1 .. Len(BodiesOf(origin[f].cells)) |->
                                 DecodedBlock(BodiesOf(origin[f].cells)[i])]
<1>1. MadeBy(origin[f]) /\ disk[f] = origin[f].cells
  BY AcceptedIsWhole DEF Whole
<1>2. ReadFile(f) = DecodeFile(origin[f].cells)
  BY <1>1 DEF ReadFile, Failed
<1>3. ~Duplicates(origin[f])
  BY <1>1, <1>2, MadeFileStatus
<1>. QED  BY <1>1, <1>2, <1>3, MadeFileStatus

\* Exit code 0 vouches for the file: of an encode that all of its payload is on the
\* disk, of a command that reads that what it read is all of what one encode wrote,
\* though an encode before it may have been killed or run out of space (fs::write).
THEOREM SuccessIsWhole == Spec => []SuccessMeansWhole
<1>1. IInv => SuccessMeansWhole
  <2> SUFFICES ASSUME IInv PROVE SuccessMeansWhole
    OBVIOUS
  <2>1. Succeeded({"encode"}) => Whole(last.args)
    BY DEF IInv, LastKept
  <2>2. ASSUME Succeeded({"validate", "inspect", "stats", "decode"})
        PROVE  FileRead \in Files
               /\ (origin[FileRead] # None => ReadFile(FileRead).status = "ok")
    <3>1. CASE last.cmd \in {"validate", "stats"}
      BY <3>1, <2>2 DEF IInv, LastKept, FileRead, Succeeded
    <3>2. CASE last.cmd = "inspect"
      BY <3>2, <2>2 DEF IInv, LastKept, FileRead, Succeeded
    <3>3. CASE last.cmd = "decode"
      <4>1. Shows(last.args, last.shown) /\ FileRead = last.args.file
        BY <3>3, <2>2 DEF IInv, LastKept, FileRead, Succeeded
      <4>2. origin[FileRead] # None =>
              DecodeResult(last.args.file, last.args.flags).status = "ok"
        BY <4>1 DEF Shows
      <4>3. ReadFile(last.args.file).status # "ok" =>
              DecodeResult(last.args.file, last.args.flags).status
                = ReadFile(last.args.file).status
        BY DEF DecodeResult
      <4>. QED  BY <4>1, <4>2, <4>3 DEF Shows
    <3>. QED  BY <3>1, <3>2, <3>3, <2>2 DEF Succeeded
  <2>3. Succeeded({"validate", "inspect", "stats", "decode"}) =>
          origin[FileRead] = None \/ Whole(FileRead)
    BY <2>2, AcceptedIsWhole
  <2>. QED  BY <2>1, <2>3 DEF SuccessMeansWhole
<1>. QED  BY <1>1, InvariantHolds, PTL

\* A whole file is refused in one case only: it was made with --dedup and there was
\* something to deduplicate (cmd_encode.rs, run: the store ends with the command).
THEOREM RefusalsAreDuplicates == Spec => []RefusedForDuplicatesOnly
<1>1. IInv => RefusedForDuplicatesOnly
  <2> SUFFICES ASSUME IInv, last.cmd = "validate", last.exit # "stdout", Whole(last.args)
               PROVE  last.exit = IF Duplicates(origin[last.args]) THEN "MissingContentStore"
                                  ELSE "ok"
    BY DEF RefusedForDuplicatesOnly
  <2>1. last.args \in Files /\ last.exit = ReadFile(last.args).status
    BY DEF IInv, LastKept
  <2>2. MadeBy(origin[last.args]) /\ disk[last.args] = origin[last.args].cells
    BY <2>1 DEF IInv, FilesKept, Whole
  <2>3. origin[last.args].cells \in Seq(Cell)
    BY <2>2 DEF MadeBy, Origin
  <2>4. disk[last.args] # Missing
    BY <2>2, <2>3, CommandsMarks
  <2>5. last.exit = DecodeFile(origin[last.args].cells).status
    BY <2>1, <2>2, <2>4 DEF ReadFile
  <2>. QED  BY <2>2, <2>5, MadeFileStatus
<1>. QED  BY <1>1, InvariantHolds, PTL
\* The positions of the entries list the blocks that are no annotations.
LEMMA OwnListsBlocks ==
  ASSUME NEW m \in Parsed, NEW blocks \in Seq(Body), NEW own,
         Built(m, Len(m), blocks, own)
  PROVE  /\ Lists(own, Len(m), {i \in 1 .. Len(blocks) : blocks[i].type # "Annotation"})
         /\ \A k \in 1 .. Len(m) :
              /\ own[k] \in 1 .. Len(blocks) /\ blocks[own[k]] = BodyOf(m[k])
              /\ StandsFor(m, blocks, own, own[k], k)
<1>. DEFINE n == Len(m)
            S == {i \in 1 .. Len(blocks) : blocks[i].type # "Annotation"}
<1>1. n \in Nat /\ DOMAIN m = 1 .. n /\ \A k \in 1 .. n : m[k] \in Entries
  BY ManifestOfEntries
<1>2. DOMAIN blocks = 1 .. Len(blocks) /\ Len(blocks) \in Nat
  OBVIOUS
<1>3. own \in [1 .. n -> 1 .. Len(blocks)] /\ \A j, k \in 1 .. n : j < k => own[j] < own[k]
  BY <1>2 DEF Built
<1>4. ASSUME NEW k \in 1 .. n
      PROVE  /\ blocks[own[k]] = BodyOf(m[k]) /\ own[k] \in S
             /\ StandsFor(m, blocks, own, own[k], k)
  <2>1. EntryFault(m[k]) = "none" /\ blocks[own[k]] = BodyOf(m[k])
    BY DEF Built
  <2>2. m[k].type # "Annotation" /\ m[k].type \in DOMAIN EnumOf
        /\ Variant(m[k]) \in Variants(EnumOf[m[k].type])
    BY <2>1, <1>1, VariantKnown
  <2>3. blocks[own[k]].type = m[k].type /\ blocks[own[k]].target = None
        /\ blocks[own[k]].byte = ToWireByte[EnumOf[m[k].type]][Variant(m[k])]
    BY <2>1 DEF BodyOf
  <2>4. FromWireByte(EnumOf[blocks[own[k]].type], blocks[own[k]].byte) = Variant(m[k])
    BY <2>2, <2>3, EnumKnown, BytesMean
  <2>. QED  BY <2>1, <2>2, <2>3, <2>4, <1>3 DEF StandsFor
<1>5. ASSUME NEW i \in S
      PROVE  \E k \in 1 .. n : own[k] = i
  <2>1. i \in DOMAIN blocks
    BY <1>2
  <2>2. PICK k \in 1 .. n : StandsFor(m, blocks, own, i, k)
    BY <2>1, <1>1, BuiltBlock
  <2>. QED  BY <2>2 DEF StandsFor
<1>6. own \in [1 .. n -> S]
  BY <1>3, <1>4
<1>7. Lists(own, n, S)
  <2>. HIDE DEF S
  <2>. QED  BY <1>1, <1>3, <1>5, <1>6 DEF Lists
<1>. QED  BY <1>3, <1>4, <1>7

\* The priorities in the annotations about position t.
PrioritiesAbout(blocks, t) ==
  {FromWireByte(EnumOf[blocks[i].type], blocks[i].byte) :
     i \in {x \in 1 .. Len(blocks) : blocks[x].target = t}}

\* The annotations about the block of an entry are the one for it.
LEMMA NotesAboutBlock ==
  ASSUME NEW m \in Parsed, NEW blocks \in Seq(Body), NEW own,
         Built(m, Len(m), blocks, own), NEW k \in 1 .. Len(m)
  PROVE  PrioritiesAbout(blocks, own[k]) = KeptPriority(m[k])
<1>. DEFINE n == Len(m)
            variant(i) == FromWireByte(EnumOf[blocks[i].type], blocks[i].byte)
            About == {x \in 1 .. Len(blocks) : blocks[x].target = own[k]}
<1>1. n \in Nat /\ DOMAIN m = 1 .. n /\ \A j \in 1 .. n : m[j] \in Entries
  BY ManifestOfEntries
<1>2. DOMAIN blocks = 1 .. Len(blocks) /\ Len(blocks) \in Nat
  OBVIOUS
<1>3. /\ \A j \in 1 .. n : own[j] \in Nat
      /\ \A i, j \in 1 .. n : i < j => own[i] < own[j]
  <2>1. own \in [1 .. n -> 1 .. Len(blocks)]
    BY <1>2 DEF Built
  <2>2. \A j \in 1 .. n : own[j] \in 1 .. Len(blocks)
    BY <2>1
  <2>3. \A i, j \in 1 .. n : i < j => own[i] < own[j]
    BY DEF Built
  <2>. QED  BY <2>2, <2>3, <1>2
<1>4. \A j \in 1 .. n : own[j] = own[k] => j = k
  <2> SUFFICES ASSUME NEW j \in 1 .. n, own[j] = own[k] PROVE j = k
    OBVIOUS
  <2>1. ~(j < k) /\ ~(k < j) /\ j \in Nat /\ k \in Nat
    BY <1>1, <1>3
  <2>. QED  BY <2>1
<1>5. own[k] # None
  BY <1>3, CommandsMarks
<1>6. ASSUME NEW x \in About
      PROVE  HasNote(m[k]) /\ variant(x) = Parse("Priority", m[k].priority)
  <2>1. x \in DOMAIN blocks /\ blocks[x].target = own[k]
    BY <1>2
  <2>2. PICK j \in 1 .. n : StandsFor(m, blocks, own, x, j)
    BY <2>1, <1>1, BuiltBlock
  <2>. QED  BY <2>1, <2>2, <1>4, <1>5 DEF StandsFor
<1>7. ASSUME HasNote(m[k])
      PROVE  own[k] + 1 \in About
  <2>1. own[k] + 1 \in DOMAIN blocks /\ blocks[own[k] + 1] = NoteFor(m[k], own[k])
    BY <1>7 DEF Built
  <2>. QED  BY <2>1, <1>2 DEF NoteFor
<1>8. KeptPriority(m[k]) = IF HasNote(m[k]) THEN {Parse("Priority", m[k].priority)} ELSE {}
  BY DEF KeptPriority, HasNote
<1>. HIDE DEF About, variant
<1>9. {variant(i) : i \in About} = KeptPriority(m[k])
  BY <1>6, <1>7, <1>8
<1>. QED  BY <1>9 DEF About, variant, PrioritiesAbout

\* inspect shows, entry by entry, the blocks of the manifest, each with its own summary
\* and with the annotation of its own priority aimed at it, whatever annotations came
\* in between (apply_meta).
THEOREM MetaStaysWithBlock == Spec => []MetaOnOwnBlock
<1>1. IInv => MetaOnOwnBlock
  <2> SUFFICES ASSUME IInv, Succeeded({"inspect"}), last.args.block = None,
                      origin[FileRead] # None
               PROVE  MetaOnOwnBlock
    BY DEF MetaOnOwnBlock
  <2>. DEFINE f == last.args.file
              m == origin[f].manifest
              n == Len(m)
              blocks == BodiesOf(origin[f].cells)
              N == Len(blocks)
              b == last.shown
              S == {i \in DOMAIN b : b[i].type # "Annotation"}
              own == Selected([i \in DOMAIN b |-> i], S)
  <2>1. f \in Files /\ FileRead = f /\ ReadFile(f).status = "ok" /\ b = ReadFile(f).blocks
    BY DEF IInv, LastKept, Succeeded, FileRead
  <2>2. b = [i \in 1 .. N |-> DecodedBlock(blocks[i])]
    BY <2>1, AcceptedBlocks
  <2>3. MadeBy(origin[f])
    BY <2>1, AcceptedIsWhole
  <2>4. m \in Parsed /\ blocks \in Seq(Body) /\ N \in Nat
    BY <2>3, MadeFile
  <2>5. PICK at : Built(m, n, blocks, at)
    BY <2>3, MadeFile
  <2>6. n \in Nat /\ DOMAIN m = 1 .. n
    BY <2>4, ManifestOfEntries
  <2>. HIDE DEF blocks, N, b, m, n
  <2>7. /\ DOMAIN b = 1 .. N
        /\ \A i \in 1 .. N : /\ b[i].type = blocks[i].type /\ b[i].summary = blocks[i].summary
                             /\ b[i].target = blocks[i].target
                             /\ b[i].variant = FromWireByte(EnumOf[blocks[i].type], blocks[i].byte)
    BY <2>2 DEF DecodedBlock
  <2>8. S = {i \in 1 .. N : blocks[i].type # "Annotation"}
    BY <2>7
  <2>9. /\ Lists(at, n, S)
        /\ \A k \in 1 .. n : at[k] \in 1 .. N /\ blocks[at[k]] = BodyOf(m[k])
    BY <2>4, <2>5, <2>8, OwnListsBlocks DEF n, N
  <2>10. own = [k \in 1 .. n |-> at[k]]
    <3>. DEFINE s == [i \in 1 .. N |-> i]
    <3>1. s \in Seq(Nat) /\ S \subseteq 1 .. Len(s)
      BY <2>4, <2>8
    <3>2. \A i \in 1 .. N : s[i] = i
      OBVIOUS
    <3>. HIDE DEF s, S
    <3>3. Selected(s, S) = [k \in 1 .. n |-> s[at[k]]]
      <4>1. SelectedBy(at, n, s, S)
        BY <3>1, <2>9, SelectedByList
      <4>. QED  BY <4>1 DEF SelectedBy
    <3>4. [i \in DOMAIN b |-> i] = s
      BY <2>7 DEF s
    <3>5. \A k \in 1 .. n : s[at[k]] = at[k]
      BY <3>2, <2>9
    <3>6. Selected(s, S) = [k \in 1 .. n |-> at[k]]
      BY <3>3, <3>5
    <3>. QED  BY <3>4, <3>6, Zenon
  <2>. HIDE DEF own, S
  <2>11. Len(own) = n /\ \A k \in 1 .. n : own[k] = at[k]
    BY <2>6, <2>10
  <2>12. ASSUME NEW k \in 1 .. n
         PROVE  /\ b[own[k]].type = m[k].type
                /\ b[own[k]].summary = KeptSummary(m[k])
                /\ {b[i].variant : i \in {x \in DOMAIN b : b[x].target = own[k]}}
                     = KeptPriority(m[k])
    <3>1. at[k] \in 1 .. N /\ blocks[at[k]] = BodyOf(m[k]) /\ own[k] = at[k]
      BY <2>9, <2>11
    <3>2. /\ b[own[k]].type = m[k].type /\ b[own[k]].summary = KeptSummary(m[k])
      BY <3>1, <2>7 DEF BodyOf
    <3>. DEFINE variant(i) == FromWireByte(EnumOf[blocks[i].type], blocks[i].byte)
    <3>3. {variant(i) : i \in {x \in 1 .. N : blocks[x].target = at[k]}} = KeptPriority(m[k])
      <4>1. PrioritiesAbout(blocks, at[k]) = KeptPriority(m[k])
        BY <2>4, <2>5, NotesAboutBlock DEF n
      <4>. QED  BY <4>1 DEF PrioritiesAbout, N
    <3>4. {x \in DOMAIN b : b[x].target = own[k]} = {x \in 1 .. N : blocks[x].target = at[k]}
      BY <3>1, <2>7
    <3>5. \A i \in 1 .. N : b[i].variant = variant(i)
      BY <2>7
    <3>. HIDE DEF variant
    <3>6. {b[i].variant : i \in {x \in 1 .. N : blocks[x].target = at[k]}}
            = {variant(i) : i \in {x \in 1 .. N : blocks[x].target = at[k]}}
      BY <3>5
    <3>. QED  BY <3>2, <3>3, <3>4, <3>6
  <2>. QED  BY <2>1, <2>6, <2>11, <2>12 DEF MetaOnOwnBlock, m, n, b, own, S
<1>. QED  BY <1>1, InvariantHolds, PTL
\* The types that a flag names are types, or the list is refused.
LEMMA IncludedTypes ==
  ASSUME NEW tokens, ParseIncludeTypes(tokens) # NotAName
  PROVE  ParseIncludeTypes(tokens) # None
<1>. DEFINE named == {i \in DOMAIN tokens : tokens[i] # ""}
            types == {ParseIn(BlockTypeNames, tokens[i]) : i \in named}
<1>1. NotAName \notin types /\ ParseIncludeTypes(tokens) = types
  BY DEF ParseIncludeTypes
<1>2. \A i \in named : ParseIn(BlockTypeNames, tokens[i])
                         \in {BlockTypeNames[n] : n \in DOMAIN BlockTypeNames}
  <2> SUFFICES ASSUME NEW i \in named
               PROVE  ParseIn(BlockTypeNames, tokens[i])
                        \in {BlockTypeNames[n] : n \in DOMAIN BlockTypeNames}
    OBVIOUS
  <2>1. ParseIn(BlockTypeNames, tokens[i]) # NotAName
    BY <1>1
  <2>. QED  BY <2>1 DEF ParseIn
<1>3. types \in SUBSET {BlockTypeNames[n] : n \in DOMAIN BlockTypeNames}
  BY <1>2
<1>. QED  BY <1>1, <1>3, CommandsMarks

\* What a rendering shows of one block.
PieceOf(b, mode, verbosity) ==
  LET known == [type |-> b.type, summary |-> b.summary, utf8 |-> b.content \notin NotText]
      summarized == R!Summarized(known, verbosity = "Summary")
      named == R!Fields(mode, b.type, summarized)
                 \cap {"lang", "role", "status", "format", "format_hint"}
  IN  [type |-> b.type, text |-> IF summarized THEN b.summary ELSE b.content,
       name |-> IF named = {} THEN None ELSE DisplayName[EnumOf[b.type]][b.variant]]

\* A rendering that does not fail shows the blocks it kept, each by its piece.
LEMMA RenderedPieces ==
  ASSUME NEW blocks, NEW mode, NEW verbosity, NEW include,
         Render(blocks, mode, verbosity, include).status = "ok"
  PROVE  LET kept == Selected(blocks, {i \in DOMAIN blocks :
                       /\ blocks[i].type # "Annotation"
                       /\ include = None \/ blocks[i].type \in include})
         IN  Render(blocks, mode, verbosity, include).shown
               = [i \in DOMAIN kept |-> PieceOf(kept[i], mode, verbosity)]
BY DEF Render, PieceOf

\* A piece has the type of its block, its text or its summary, and a name that means
\* in a manifest what its variant means, or no name.
LEMMA PieceSays ==
  ASSUME NEW b, NEW mode, NEW verbosity, b.type \in DOMAIN EnumOf \ {"Annotation"},
         b.variant \in Variants(EnumOf[b.type])
  PROVE  /\ PieceOf(b, mode, verbosity).type = b.type
         /\ PieceOf(b, mode, verbosity).text =
              IF verbosity = "Summary" /\ b.type = "Code" /\ b.summary # None
              THEN b.summary ELSE b.content
         /\ PieceOf(b, mode, verbosity).name # None =>
              Parse(EnumOf[b.type], PieceOf(b, mode, verbosity).name) = b.variant
<1>1. EnumOf[b.type] \in DOMAIN DisplayName
  BY EnumKnown
<1>2. Parse(EnumOf[b.type], DisplayName[EnumOf[b.type]][b.variant]) = b.variant
  BY <1>1, ShownNamesParse
<1>3. PieceOf(b, mode, verbosity).type = b.type
  BY DEF PieceOf
<1>4. PieceOf(b, mode, verbosity).text =
        IF verbosity = "Summary" /\ b.type = "Code" /\ b.summary # None
        THEN b.summary ELSE b.content
  BY DEF PieceOf, R!Summarized, R!HasSummary
<1>5. PieceOf(b, mode, verbosity).name
        \in {None, DisplayName[EnumOf[b.type]][b.variant]}
  BY DEF PieceOf
<1>. QED  BY <1>2, <1>3, <1>4, <1>5
\* The entries and the blocks of these types.
EntriesOf(m, types) == {k \in DOMAIN m : m[k].type \in types}
BlocksOf(b, types) == {i \in 1 .. Len(b) : b[i].type # "Annotation" /\ b[i].type \in types}

\* A selection of blocks by the types of their entries goes with the selection of the
\* entries themselves.
LEMMA SelectionsAgree ==
  ASSUME NEW m \in Parsed, NEW blocks \in Seq(Body), NEW own,
         Built(m, Len(m), blocks, own), NEW X, NEW b \in Seq(X), Len(b) = Len(blocks),
         \A i \in 1 .. Len(b) : b[i].type = blocks[i].type,
         NEW types
  PROVE  \E n, at :
           /\ Lists(at, n, EntriesOf(m, types)) /\ SelectedBy(at, n, m, EntriesOf(m, types))
           /\ SelectedBy([k \in 1 .. n |-> own[at[k]]], n, b, BlocksOf(b, types))
<1>. DEFINE T == EntriesOf(m, types)
            K == BlocksOf(b, types)
<1>1. Len(m) \in Nat /\ DOMAIN m = 1 .. Len(m) /\ m \in Seq({m[i] : i \in DOMAIN m})
  BY ManifestOfEntries, CommandsInputs
<1>2. T \subseteq 1 .. Len(m)
  BY <1>1 DEF EntriesOf
<1>3. PICK n, at : Lists(at, n, T)
  <2>. HIDE DEF T
  <2>. QED  BY <1>1, <1>2, ListExists
<1>4. /\ \A k \in 1 .. Len(m) : /\ own[k] \in 1 .. Len(b) /\ b[own[k]].type = m[k].type
                                /\ b[own[k]].type # "Annotation"
      /\ \A i \in 1 .. Len(b) : b[i].type # "Annotation" =>
           \E k \in 1 .. Len(m) : own[k] = i
      /\ \A j, k \in 1 .. Len(m) : j < k => own[j] < own[k]
  <2>1. Lists(own, Len(m), {i \in 1 .. Len(blocks) : blocks[i].type # "Annotation"})
    BY OwnListsBlocks
  <2>2. \A k \in 1 .. Len(m) : own[k] \in 1 .. Len(blocks) /\ blocks[own[k]] = BodyOf(m[k])
    BY OwnListsBlocks
  <2>3. \A k \in 1 .. Len(m) : blocks[own[k]].type # "Annotation"
    BY <2>1 DEF Lists
  <2>4. ASSUME NEW k \in 1 .. Len(m)
        PROVE  blocks[own[k]].type = m[k].type
    <3>1. blocks[own[k]] = BodyOf(m[k])
      BY <2>2
    <3>. QED  BY <3>1 DEF BodyOf
  <2>5. \A i \in 1 .. Len(blocks) : blocks[i].type # "Annotation" =>
          \E k \in 1 .. Len(m) : own[k] = i
    BY <2>1 DEF Lists
  <2>6. \A j, k \in 1 .. Len(m) : j < k => own[j] < own[k]
    BY <2>1 DEF Lists
  <2>. QED  BY <2>2, <2>3, <2>4, <2>5, <2>6
<1>5. n \in Nat /\ at \in [1 .. n -> T] /\ \A j, k \in 1 .. n : j < k => at[j] < at[k]
  BY <1>3 DEF Lists
<1>. DEFINE both == [k \in 1 .. n |-> own[at[k]]]
<1>. HIDE DEF T
<1>6. \A k \in 1 .. n : at[k] \in 1 .. Len(m) /\ at[k] \in T
  BY <1>2, <1>5
<1>7. \A k \in T : m[k].type \in types
  BY DEF T, EntriesOf
<1>8. Lists(both, n, K)
  <2>1. both \in [1 .. n -> K]
    <3>1. \A k \in 1 .. n : own[at[k]] \in K
      BY <1>4, <1>6, <1>7 DEF BlocksOf
    <3>. QED  BY <3>1
  <2>2. \A j, k \in 1 .. n : j < k => both[j] < both[k]
    BY <1>4, <1>5, <1>6
  <2>3. ASSUME NEW i \in K
        PROVE  \E k \in 1 .. n : both[k] = i
    <3>1. PICK j \in 1 .. Len(m) : own[j] = i
      BY <1>4 DEF BlocksOf
    <3>2. j \in T
      BY <3>1, <1>1, <1>4 DEF BlocksOf, T, EntriesOf
    <3>3. PICK k \in 1 .. n : at[k] = j
      BY <3>2, <1>3 DEF Lists
    <3>. QED  BY <3>1, <3>3
  <2>. HIDE DEF both, K
  <2>. QED  BY <2>1, <2>2, <2>3, <1>5 DEF Lists
<1>9. SelectedBy(at, n, m, T)
  BY <1>1, <1>2, <1>3, SelectedByList
<1>10. SelectedBy([k \in 1 .. n |-> own[at[k]]], n, b, K)
  <2>1. K \subseteq 1 .. Len(b)
    BY DEF BlocksOf
  <2>. HIDE DEF both, K
  <2>2. SelectedBy(both, n, b, K)
    BY <2>1, <1>8, SelectedByList
  <2>. QED  BY <2>2 DEF both
<1>. HIDE DEF K
<1>. QED  BY <1>3, <1>9, <1>10 DEF T, K

\* decode shows the entries of the types it was asked for, in order, with their
\* contents, and names each by a name that means in a manifest what the entry's own
\* name means, default or alias, by way of its byte on the wire.
THEOREM DecodeShowsManifest == Spec => []ShownAsWritten
<1>1. IInv => ShownAsWritten
  <2> SUFFICES ASSUME IInv, Succeeded({"decode"}), origin[FileRead] # None
               PROVE  ShownAsWritten
    BY DEF ShownAsWritten
  <2>. DEFINE f == last.args.file
              a == last.args.flags
              entries == origin[f].manifest
              blocks == BodiesOf(origin[f].cells)
              N == Len(blocks)
              b == [i \in 1 .. N |-> DecodedBlock(blocks[i])]
              mode == ParseOutputMode(a.mode)
              verbosity == ParseVerbosity(a.verbosity)
              include == IF a.include = None THEN None ELSE ParseIncludeTypes(a.include)
              types == IF a.include = None THEN DOMAIN EnumOf ELSE ParseIncludeTypes(a.include)
              K == {i \in DOMAIN b : /\ b[i].type # "Annotation"
                                     /\ include = None \/ b[i].type \in include}
              kept == Selected(b, K)
              T == {i \in DOMAIN entries : entries[i].type \in types}
              m == Selected(entries, T)
  <2>1. /\ f \in Files /\ a \in DecodeArgs /\ FileRead = f
        /\ DecodeResult(f, a) = [status |-> "ok", shown |-> last.shown]
    BY DEF IInv, LastKept, Succeeded, FileRead, Shows
  <2>2. /\ ReadFile(f).status = "ok" /\ include # NotAName
        /\ DecodeResult(f, a) = Render(ReadFile(f).blocks, mode, verbosity, include)
    <3>1. DecodeResult(f, a).status = "ok"
      BY <2>1
    <3>. QED  BY <3>1 DEF DecodeResult
  <2>3. origin[f] # None
    BY <2>1
  <2>4. ReadFile(f).blocks = b /\ MadeBy(origin[f])
    BY <2>1, <2>2, <2>3, AcceptedBlocks, AcceptedIsWhole
  <2>5. entries \in Parsed /\ blocks \in Seq(Body) /\ N \in Nat
    BY <2>4, MadeFile
  <2>6. PICK own : Built(entries, Len(entries), blocks, own)
    BY <2>4, MadeFile
  <2>7. /\ Render(b, mode, verbosity, include).status = "ok"
        /\ last.shown = Render(b, mode, verbosity, include).shown
    <3>1. Render(b, mode, verbosity, include) = [status |-> "ok", shown |-> last.shown]
      BY <2>1, <2>2, <2>4
    <3>. QED  BY <3>1
  <2>. HIDE DEF b, mode, verbosity, include, blocks, N, entries
  <2>8. last.shown = [i \in DOMAIN kept |-> PieceOf(kept[i], mode, verbosity)]
    BY <2>7, RenderedPieces
  <2>9. /\ Len(entries) \in Nat /\ DOMAIN entries = 1 .. Len(entries)
        /\ \A k \in 1 .. Len(entries) : entries[k] \in Entries
    BY <2>5, ManifestOfEntries
  <2>10. /\ b \in Seq({DecodedBlock(blocks[i]) : i \in 1 .. N}) /\ Len(b) = N
         /\ \A i \in 1 .. N : b[i] = DecodedBlock(blocks[i])
    <3>1. \A i \in 1 .. N : b[i] = DecodedBlock(blocks[i])
      BY DEF b
    <3>2. b \in [1 .. N -> {DecodedBlock(blocks[i]) : i \in 1 .. N}]
      BY DEF b
    <3>. HIDE DEF b
    <3>. QED  BY <3>1, <3>2, <2>5
  <2>11. \A i \in 1 .. N : b[i].type = blocks[i].type
    BY <2>10 DEF DecodedBlock
  <2>12. K = {i \in 1 .. Len(b) : b[i].type # "Annotation" /\ b[i].type \in types}
    <3>1. DOMAIN b = 1 .. Len(b)
      BY <2>10
    <3>2. CASE a.include = None
      <4>1. \A i \in 1 .. N : b[i].type \in DOMAIN EnumOf
        <5> SUFFICES ASSUME NEW i \in 1 .. N PROVE b[i].type \in DOMAIN EnumOf
          OBVIOUS
        <5>1. blocks[i] \in Body
          BY <2>5 DEF N
        <5>. QED  BY <5>1, <2>11 DEF Body
      <4>. QED  BY <3>1, <3>2, <4>1, <2>10 DEF include
    <3>3. CASE a.include # None
      <4>1. include = types /\ include # None
        BY <3>3, <2>2, IncludedTypes DEF include
      <4>. QED  BY <3>1, <4>1
    <3>. QED  BY <3>2, <3>3
  <2>. HIDE DEF types, K
  <2>13. PICK n, at : /\ Lists(at, n, T) /\ SelectedBy(at, n, entries, T)
                      /\ SelectedBy([k \in 1 .. n |-> own[at[k]]], n, b, K)
    <3>1. Len(b) = Len(blocks)
      BY <2>10 DEF N
    <3>2. \A i \in 1 .. Len(b) : b[i].type = blocks[i].type
      BY <2>10, <2>11
    <3>3. PICK n, at :
            /\ Lists(at, n, EntriesOf(entries, types))
            /\ SelectedBy(at, n, entries, EntriesOf(entries, types))
            /\ SelectedBy([k \in 1 .. n |-> own[at[k]]], n, b, BlocksOf(b, types))
      BY <2>5, <2>6, <2>10, <3>1, <3>2, SelectionsAgree
    <3>4. T = EntriesOf(entries, types) /\ K = BlocksOf(b, types)
      BY <2>12 DEF EntriesOf, BlocksOf
    <3>. HIDE DEF T
    <3>. QED  BY <3>3, <3>4
  <2>14. /\ m = [k \in 1 .. n |-> entries[at[k]]]
          /\ kept = [k \in 1 .. n |-> b[own[at[k]]]]
    BY <2>13 DEF SelectedBy
  <2>15. n \in Nat /\ \A k \in 1 .. n : at[k] \in 1 .. Len(entries)
    BY <2>9, <2>13 DEF Lists
  <2>16. ASSUME NEW k \in 1 .. n
         PROVE  LET piece == last.shown[k]
                    e == entries[at[k]]
                IN  /\ piece.type = e.type
                    /\ piece.text = IF verbosity = "Summary" /\ piece.type = "Code"
                                       /\ e.summary # None
                                    THEN e.summary ELSE ResolveContent(e)
                    /\ piece.name # None => Parse(EnumOf[piece.type], piece.name) = Variant(e)
    <3>. DEFINE e == entries[at[k]]
                d == b[own[at[k]]]
    <3>1. last.shown[k] = PieceOf(d, mode, verbosity)
      BY <2>8, <2>14
    <3>2. at[k] \in 1 .. Len(entries) /\ e \in Entries
      BY <2>9, <2>15
    <3>3. /\ own[at[k]] \in 1 .. N /\ blocks[own[at[k]]] = BodyOf(e)
          /\ StandsFor(entries, blocks, own, own[at[k]], at[k])
      BY <3>2, <2>5, <2>6, OwnListsBlocks DEF N
    <3>4. EntryFault(e) = "none"
      BY <3>2, <2>6 DEF Built
    <3>5. /\ e.type \in DOMAIN EnumOf \ {"Annotation"}
          /\ Variant(e) \in Variants(EnumOf[e.type])
      BY <3>2, <3>4, VariantKnown
    <3>6. d = DecodedBlock(BodyOf(e))
      BY <3>3, <2>10
    <3>7. /\ d.type = e.type /\ d.content = ResolveContent(e) /\ d.summary = KeptSummary(e)
          /\ d.variant = FromWireByte(EnumOf[e.type],
                                      ToWireByte[EnumOf[e.type]][Variant(e)])
      BY <3>6 DEF DecodedBlock, BodyOf
    <3>8. d.variant = Variant(e)
      BY <3>5, <3>7, EnumKnown, BytesMean
    <3>9. e.type = "Code" => KeptSummary(e) = e.summary
      BY DEF KeptSummary, WithMeta
    <3>. HIDE DEF d, e
    <3>10. /\ PieceOf(d, mode, verbosity).type = d.type
           /\ PieceOf(d, mode, verbosity).text =
                IF verbosity = "Summary" /\ d.type = "Code" /\ d.summary # None
                THEN d.summary ELSE d.content
           /\ PieceOf(d, mode, verbosity).name # None =>
                Parse(EnumOf[d.type], PieceOf(d, mode, verbosity).name) = d.variant
      BY <3>5, <3>7, <3>8, PieceSays
    <3>11. /\ PieceOf(d, mode, verbosity).type = e.type
           /\ PieceOf(d, mode, verbosity).text =
                IF verbosity = "Summary" /\ e.type = "Code" /\ e.summary # None
                THEN e.summary ELSE ResolveContent(e)
           /\ PieceOf(d, mode, verbosity).name # None =>
                Parse(EnumOf[e.type], PieceOf(d, mode, verbosity).name) = Variant(e)
      BY <3>7, <3>8, <3>9, <3>10
    <3>. QED  BY <3>1, <3>11 DEF e
  <2>17. Len(last.shown) = n /\ Len(m) = n /\ DOMAIN m = 1 .. n
         /\ \A k \in 1 .. n : m[k] = entries[at[k]]
    <3>1. DOMAIN kept = 1 .. n
      BY <2>14
    <3>2. last.shown = [i \in 1 .. n |-> PieceOf(kept[i], mode, verbosity)]
      BY <2>8, <3>1
    <3>. HIDE DEF kept, m
    <3>. QED  BY <3>2, <2>14, <2>15
  <2>18. \A k \in 1 .. n :
           LET piece == last.shown[k] IN
           /\ piece.type = m[k].type
           /\ piece.text = IF verbosity = "Summary" /\ piece.type = "Code"
                              /\ m[k].summary # None
                           THEN m[k].summary ELSE ResolveContent(m[k])
           /\ piece.name # None => Parse(EnumOf[piece.type], piece.name) = Variant(m[k])
    <3>. HIDE DEF m
    <3>. QED  BY <2>16, <2>17
  <2>. QED  BY <2>1, <2>17, <2>18 DEF ShownAsWritten, entries, types, verbosity
<1>. QED  BY <1>1, InvariantHolds, PTL
=============================================================================
