----------------------------- MODULE BlockProofs -----------------------------
(***************************************************************************)
(* Proofs about BlockRoundTrip.                                            *)
(***************************************************************************)
EXTENDS BlockRoundTrip, WireProofs, SequenceTheorems
-----------------------------------------------------------------------------
(* Schemas and the values of blocks.                                       *)

\* The kinds of fields.
Kinds == {"u8", "enum", "entry_kind", "u32", "size", "text", "bytes", "list"}

\* What holds of field f, with this id, of the blocks of type t.
FieldLaid(t, id, f) ==
  /\ f.kind \in Kinds /\ f.required \in BOOLEAN
  /\ f.kind = "enum" => f.arg \in 1 .. 5
  /\ f.kind = "list" => f.arg \in DOMAIN Schema /\ ~f.required /\ t # "Code"
  /\ f.kind = "size" => f.required /\ t = "FileEntry"
  /\ ~f.required => f.kind \in {"list", "text", "u32"}
  /\ t = "Code" /\ ~f.required => id \in {4, 5}

SchemaLaid(t) ==
  /\ Len(Schema[t]) \in 2 .. 5 /\ FieldIds(t) = 1 .. Len(Schema[t])
  /\ \A id \in FieldIds(t) : FieldLaid(t, id, Schema[t][id])
  /\ t = "Code" => /\ Len(Schema[t]) = 5
                   /\ Schema[t][4] = Optional("u32") /\ Schema[t][5] = Optional("u32")

LEMMA RequiredLaid ==
  ASSUME NEW k \in Kinds \ {"list", "enum", "size"}, NEW t, NEW id
  PROVE  FieldLaid(t, id, Required(k))
BY DEF FieldLaid, Required, Kinds

LEMMA OptionalLaid ==
  ASSUME NEW k \in {"text", "u32"}, NEW t, NEW id, t = "Code" => id \in {4, 5}
  PROVE  FieldLaid(t, id, Optional(k))
BY DEF FieldLaid, Optional, Kinds

LEMMA EnumLaid ==
  ASSUME NEW n \in 1 .. 5, NEW t, NEW id
  PROVE  FieldLaid(t, id, Enum(n))
BY DEF FieldLaid, Enum, Kinds

LEMMA ListLaid ==
  ASSUME NEW u \in DOMAIN Schema, NEW t, NEW id, t # "Code"
  PROVE  FieldLaid(t, id, ListOf(u))
BY DEF FieldLaid, ListOf, Kinds

LEMMA SizeLaid ==
  ASSUME NEW id
  PROVE  FieldLaid("FileEntry", id, Required("size"))
BY DEF FieldLaid, Required, Kinds

LEMMA SchemaIs ==
  ASSUME NEW t \in DOMAIN Schema
  PROVE  SchemaLaid(t)
<1>1. CASE t = "Code"
  <2>1. Schema[t] = CodeFields
    BY <1>1 DEF Schema
  <2>2. Len(CodeFields) = 5 /\ DOMAIN CodeFields = 1 .. 5
    BY DEF CodeFields
  <2>3. ASSUME NEW id \in 1 .. 5
        PROVE  FieldLaid(t, id, CodeFields[id])
    <3>1. CASE id \in {1, 2, 3}
      <4>1. CodeFields[id] \in {Required("u8"), Required("text"), Required("bytes")}
        BY <3>1 DEF CodeFields
      <4>. QED  BY <4>1, RequiredLaid DEF Kinds
    <3>2. CASE id \in {4, 5}
      <4>1. CodeFields[id] = Optional("u32")
        BY <3>2 DEF CodeFields
      <4>. QED  BY <3>2, <4>1, OptionalLaid
    <3>. QED  BY <3>1, <3>2
  <2>4. CodeFields[4] = Optional("u32") /\ CodeFields[5] = Optional("u32")
    BY DEF CodeFields
  <2>. QED  BY <1>1, <2>1, <2>2, <2>3, <2>4 DEF SchemaLaid, FieldIds
<1>2. CASE t = "Conversation"
  <2>1. Schema[t] = ConversationFields
    BY <1>2 DEF Schema
  <2>2. Len(ConversationFields) = 3 /\ DOMAIN ConversationFields = 1 .. 3
    BY DEF ConversationFields
  <2>3. \A id \in 1 .. 3 : ConversationFields[id] \in
          {Enum(4), Required("bytes"), Optional("text")}
    BY DEF ConversationFields
  <2>4. \A id \in 1 .. 3 : FieldLaid(t, id, ConversationFields[id])
    BY <2>3, <1>2, EnumLaid, RequiredLaid, OptionalLaid DEF Kinds
  <2>. QED  BY <1>2, <2>1, <2>2, <2>4 DEF SchemaLaid, FieldIds
<1>3. CASE t = "FileTree"
  <2>1. Schema[t] = FileTreeFields
    BY <1>3 DEF Schema
  <2>2. Len(FileTreeFields) = 2 /\ DOMAIN FileTreeFields = 1 .. 2
    BY DEF FileTreeFields
  <2>3. \A id \in 1 .. 2 : FileTreeFields[id] \in
          {Required("text"), ListOf("FileEntry")}
    BY DEF FileTreeFields
  <2>4. "FileEntry" \in DOMAIN Schema
    BY DEF Schema
  <2>5. \A id \in 1 .. 2 : FieldLaid(t, id, FileTreeFields[id])
    BY <2>3, <2>4, <1>3, RequiredLaid, ListLaid DEF Kinds
  <2>. QED  BY <1>3, <2>1, <2>2, <2>5 DEF SchemaLaid, FieldIds
<1>4. CASE t = "FileEntry"
  <2>1. Schema[t] = FileEntryFields
    BY <1>4 DEF Schema
  <2>2. Len(FileEntryFields) = 4 /\ DOMAIN FileEntryFields = 1 .. 4
    BY DEF FileEntryFields
  <2>3. \A id \in 1 .. 4 : FileEntryFields[id] \in
          {Required("text"), Required("entry_kind"), Required("size"), ListOf("FileEntry")}
    BY DEF FileEntryFields
  <2>4. "FileEntry" \in DOMAIN Schema
    BY DEF Schema
  <2>5. \A id \in 1 .. 4 : FieldLaid(t, id, FileEntryFields[id])
    BY <2>3, <2>4, <1>4, RequiredLaid, SizeLaid, ListLaid DEF Kinds
  <2>. QED  BY <1>4, <2>1, <2>2, <2>5 DEF SchemaLaid, FieldIds
<1>5. CASE t = "ToolResult"
  <2>1. Schema[t] = ToolResultFields
    BY <1>5 DEF Schema
  <2>2. Len(ToolResultFields) = 4 /\ DOMAIN ToolResultFields = 1 .. 4
    BY DEF ToolResultFields
  <2>3. \A id \in 1 .. 4 : ToolResultFields[id] \in
          {Required("text"), Enum(3), Required("bytes"), Optional("text")}
    BY DEF ToolResultFields
  <2>4. \A id \in 1 .. 4 : FieldLaid(t, id, ToolResultFields[id])
    BY <2>3, <1>5, RequiredLaid, EnumLaid, OptionalLaid DEF Kinds
  <2>. QED  BY <1>5, <2>1, <2>2, <2>4 DEF SchemaLaid, FieldIds
<1>6. CASE t = "Document"
  <2>1. Schema[t] = DocumentFields
    BY <1>6 DEF Schema
  <2>2. Len(DocumentFields) = 3 /\ DOMAIN DocumentFields = 1 .. 3
    BY DEF DocumentFields
  <2>3. \A id \in 1 .. 3 : DocumentFields[id] \in
          {Required("text"), Required("bytes"), Enum(3)}
    BY DEF DocumentFields
  <2>4. \A id \in 1 .. 3 : FieldLaid(t, id, DocumentFields[id])
    BY <2>3, <1>6, RequiredLaid, EnumLaid DEF Kinds
  <2>. QED  BY <1>6, <2>1, <2>2, <2>4 DEF SchemaLaid, FieldIds
<1>7. CASE t = "StructuredData"
  <2>1. Schema[t] = StructuredDataFields
    BY <1>7 DEF Schema
  <2>2. Len(StructuredDataFields) = 3 /\ DOMAIN StructuredDataFields = 1 .. 3
    BY DEF StructuredDataFields
  <2>3. \A id \in 1 .. 3 : StructuredDataFields[id] \in
          {Enum(4), Optional("text"), Required("bytes")}
    BY DEF StructuredDataFields
  <2>4. \A id \in 1 .. 3 : FieldLaid(t, id, StructuredDataFields[id])
    BY <2>3, <1>7, EnumLaid, OptionalLaid, RequiredLaid DEF Kinds
  <2>. QED  BY <1>7, <2>1, <2>2, <2>4 DEF SchemaLaid, FieldIds
<1>8. CASE t = "Diff"
  <2>1. Schema[t] = DiffFields
    BY <1>8 DEF Schema
  <2>2. Len(DiffFields) = 2 /\ DOMAIN DiffFields = 1 .. 2
    BY DEF DiffFields
  <2>3. \A id \in 1 .. 2 : DiffFields[id] \in
          {Required("text"), ListOf("DiffHunk")}
    BY DEF DiffFields
  <2>4. "DiffHunk" \in DOMAIN Schema
    BY DEF Schema
  <2>5. \A id \in 1 .. 2 : FieldLaid(t, id, DiffFields[id])
    BY <2>3, <2>4, <1>8, RequiredLaid, ListLaid DEF Kinds
  <2>. QED  BY <1>8, <2>1, <2>2, <2>5 DEF SchemaLaid, FieldIds
<1>9. CASE t = "DiffHunk"
  <2>1. Schema[t] = DiffHunkFields
    BY <1>9 DEF Schema
  <2>2. Len(DiffHunkFields) = 3 /\ DOMAIN DiffHunkFields = 1 .. 3
    BY DEF DiffHunkFields
  <2>3. \A id \in 1 .. 3 : DiffHunkFields[id] \in
          {Required("u32"), Required("bytes")}
    BY DEF DiffHunkFields
  <2>4. \A id \in 1 .. 3 : FieldLaid(t, id, DiffHunkFields[id])
    BY <2>3, <1>9, RequiredLaid DEF Kinds
  <2>. QED  BY <1>9, <2>1, <2>2, <2>4 DEF SchemaLaid, FieldIds
<1>10. CASE t = "Annotation"
  <2>1. Schema[t] = AnnotationFields
    BY <1>10 DEF Schema
  <2>2. Len(AnnotationFields) = 3 /\ DOMAIN AnnotationFields = 1 .. 3
    BY DEF AnnotationFields
  <2>3. \A id \in 1 .. 3 : AnnotationFields[id] \in
          {Required("u32"), Enum(3), Required("bytes")}
    BY DEF AnnotationFields
  <2>4. \A id \in 1 .. 3 : FieldLaid(t, id, AnnotationFields[id])
    BY <2>3, <1>10, RequiredLaid, EnumLaid DEF Kinds
  <2>. QED  BY <1>10, <2>1, <2>2, <2>4 DEF SchemaLaid, FieldIds
<1>11. CASE t = "EmbeddingRef"
  <2>1. Schema[t] = EmbeddingRefFields
    BY <1>11 DEF Schema
  <2>2. Len(EmbeddingRefFields) = 3 /\ DOMAIN EmbeddingRefFields = 1 .. 3
    BY DEF EmbeddingRefFields
  <2>3. \A id \in 1 .. 3 : EmbeddingRefFields[id] \in
          {Required("bytes"), Required("text")}
    BY DEF EmbeddingRefFields
  <2>4. \A id \in 1 .. 3 : FieldLaid(t, id, EmbeddingRefFields[id])
    BY <2>3, <1>11, RequiredLaid DEF Kinds
  <2>. QED  BY <1>11, <2>1, <2>2, <2>4 DEF SchemaLaid, FieldIds
<1>12. CASE t = "Image"
  <2>1. Schema[t] = ImageFields
    BY <1>12 DEF Schema
  <2>2. Len(ImageFields) = 3 /\ DOMAIN ImageFields = 1 .. 3
    BY DEF ImageFields
  <2>3. \A id \in 1 .. 3 : ImageFields[id] \in
          {Enum(5), Required("text"), Required("bytes")}
    BY DEF ImageFields
  <2>4. \A id \in 1 .. 3 : FieldLaid(t, id, ImageFields[id])
    BY <2>3, <1>12, EnumLaid, RequiredLaid DEF Kinds
  <2>. QED  BY <1>12, <2>1, <2>2, <2>4 DEF SchemaLaid, FieldIds
<1>13. CASE t = "Extension"
  <2>1. Schema[t] = ExtensionFields
    BY <1>13 DEF Schema
  <2>2. Len(ExtensionFields) = 3 /\ DOMAIN ExtensionFields = 1 .. 3
    BY DEF ExtensionFields
  <2>3. \A id \in 1 .. 3 : ExtensionFields[id] \in
          {Required("text"), Required("bytes")}
    BY DEF ExtensionFields
  <2>4. \A id \in 1 .. 3 : FieldLaid(t, id, ExtensionFields[id])
    BY <2>3, <1>13, RequiredLaid DEF Kinds
  <2>. QED  BY <1>13, <2>1, <2>2, <2>4 DEF SchemaLaid, FieldIds
<1>. QED
  BY <1>1, <1>2, <1>3, <1>4, <1>5, <1>6, <1>7, <1>8, <1>9, <1>10, <1>11, <1>12, <1>13 DEF Schema
-----------------------------------------------------------------------------
(* The recursive definitions, by their equations.                          *)

\* The values in which blocks are nested less than n deep, given those less than n - 1.
ValuesStep(n, values) ==
  [t \in DOMAIN Schema |->
     IF n = 0 THEN {}
     ELSE {v \in Tuples(Schema[t], values) : t = "Code" => (v[4] = None <=> v[5] = None)}]

\* Their encodings, given those of the values less deep.
EncodeStep(n, encode) ==
  [t \in DOMAIN Schema |-> [v \in Values[n][t] |-> FlattenSeq(Parts(t, v, encode))]]

Level(n, below) == <<ValuesStep(n, below[1]), EncodeStep(n, below[2])>>

\* Both can be computed level by level.
LEMMA LevelsExist ==
  \E f : f = [n \in Nat |-> IF n = 0 THEN Level(0, <<>>) ELSE Level(n, f[n - 1])]
<1>. DEFINE Upto(n, g) == g = [i \in 0 .. n |-> IF i = 0 THEN Level(0, <<>>) ELSE Level(i, g[i - 1])]
            Good == {n \in Nat : \E g : Upto(n, g)}
            at == [n \in Nat |-> CHOOSE g : Upto(n, g)]
            Settled == {n \in Nat : \A m \in Nat : n <= m => at[m][n] = at[n][n]}
            f == [n \in Nat |-> at[n][n]]
<1>1. Nat \subseteq Good
  <2>1. 0 \in Good
    <3>1. Upto(0, [i \in 0 .. 0 |-> Level(0, <<>>)])
      OBVIOUS
    <3>. QED  BY <3>1
  <2>2. ASSUME NEW n \in Nat, n \in Good
        PROVE  n + 1 \in Good
    <3>1. PICK g : Upto(n, g)
      BY <2>2
    <3>. DEFINE k == [i \in 0 .. n + 1 |-> IF i <= n THEN g[i] ELSE Level(n + 1, g[n])]
    <3>2. ASSUME NEW i \in 0 .. n + 1
          PROVE  k[i] = IF i = 0 THEN Level(0, <<>>) ELSE Level(i, k[i - 1])
      <4>1. CASE i = 0
        BY <4>1, <3>1
      <4>2. CASE i # 0 /\ i <= n
        <5>1. i \in 0 .. n /\ i - 1 \in 0 .. n + 1 /\ i - 1 <= n
          BY <4>2
        <5>2. k[i] = g[i] /\ k[i - 1] = g[i - 1]
          BY <4>2, <5>1
        <5>. QED  BY <4>2, <5>1, <5>2, <3>1
      <4>3. CASE i = n + 1
        <5>1. i - 1 = n /\ ~(i <= n) /\ i # 0 /\ n \in 0 .. n + 1 /\ n <= n
          BY <4>3
        <5>2. k[i] = Level(i, g[n]) /\ k[i - 1] = g[n]
          BY <4>3, <5>1
        <5>. QED  BY <5>1, <5>2
      <4>. QED  BY <4>1, <4>2, <4>3
    <3>3. k = [i \in 0 .. n + 1 |-> k[i]]
      OBVIOUS
    <3>4. Upto(n + 1, k)
      <4>. HIDE DEF k
      <4>. QED  BY <3>2, <3>3
    <3>5. \E h : Upto(n + 1, h)
      <4>. HIDE DEF k, Upto
      <4>. QED  BY <3>4
    <3>. QED  BY <3>5
  <2>. HIDE DEF Good
  <2>. QED  BY <2>1, <2>2, NatUpward
<1>2. \A n \in Nat : Upto(n, at[n])
  BY <1>1
<1>. HIDE DEF at
<1>3. ASSUME NEW m \in Nat, NEW n \in Nat, n + 1 <= m
      PROVE  at[m][n + 1] = Level(n + 1, at[m][n])
  <2>1. Upto(m, at[m]) /\ n + 1 \in 0 .. m /\ n + 1 # 0 /\ (n + 1) - 1 = n
    BY <1>2, <1>3
  <2>. QED  BY <2>1
<1>4. ASSUME NEW m \in Nat
      PROVE  at[m][0] = Level(0, <<>>)
  <2>1. Upto(m, at[m]) /\ 0 \in 0 .. m
    BY <1>2
  <2>. QED  BY <2>1
<1>5. Nat \subseteq Settled
  <2>1. 0 \in Settled
    BY <1>4
  <2>2. ASSUME NEW n \in Nat, n \in Settled
        PROVE  n + 1 \in Settled
    <3> SUFFICES ASSUME NEW m \in Nat, n + 1 <= m
                 PROVE  at[m][n + 1] = at[n + 1][n + 1]
      OBVIOUS
    <3>1. n <= m /\ n <= n + 1 /\ n + 1 <= n + 1 /\ n + 1 \in Nat
      OBVIOUS
    <3>2. at[m][n] = at[n][n] /\ at[n + 1][n] = at[n][n]
      BY <2>2, <3>1
    <3>3. at[m][n + 1] = Level(n + 1, at[m][n])
      BY <1>3, <3>1
    <3>4. at[n + 1][n + 1] = Level(n + 1, at[n + 1][n])
      BY <1>3, <3>1
    <3>. QED  BY <3>2, <3>3, <3>4
  <2>. HIDE DEF Settled
  <2>. QED  BY <2>1, <2>2, NatUpward
<1>6. ASSUME NEW n \in Nat
      PROVE  f[n] = IF n = 0 THEN Level(0, <<>>) ELSE Level(n, f[n - 1])
  <2>1. CASE n = 0
    BY <2>1, <1>4
  <2>2. CASE n # 0
    <3>1. n - 1 \in Nat /\ (n - 1) + 1 = n /\ n - 1 <= n /\ n <= n
      BY <2>2
    <3>2. at[n][n] = Level(n, at[n][n - 1])
      BY <3>1, <1>3
    <3>3. at[n][n - 1] = at[n - 1][n - 1]
      BY <3>1, <1>5
    <3>. QED  BY <2>2, <3>1, <3>2, <3>3
  <2>. QED  BY <2>1, <2>2
<1>. QED  BY <1>6

ValuesBy(f) ==
  f = [n \in Nat |->
         [t \in DOMAIN Schema |->
            IF n = 0 THEN {}
            ELSE {v \in Tuples(Schema[t], f[n - 1]) : t = "Code" => (v[4] = None <=> v[5] = None)}]]

LEMMA ValuesDefined == ValuesBy(Values)
<1>1. PICK l : l = [n \in Nat |-> IF n = 0 THEN Level(0, <<>>) ELSE Level(n, l[n - 1])]
  BY LevelsExist
<1>. DEFINE f == [n \in Nat |-> l[n][1]]
<1>2. ASSUME NEW n \in Nat
      PROVE  f[n] = ValuesStep(n, f[n - 1])
  <2>1. CASE n = 0
    <3>1. l[n] = Level(0, <<>>)
      BY <1>1, <2>1
    <3>2. f[n] = ValuesStep(0, (<<>>)[1])
      BY <3>1 DEF Level
    <3>3. ValuesStep(0, (<<>>)[1]) = ValuesStep(0, f[n - 1])
      BY DEF ValuesStep
    <3>. QED  BY <2>1, <3>2, <3>3
  <2>2. CASE n # 0
    <3>1. l[n] = Level(n, l[n - 1]) /\ n - 1 \in Nat
      BY <1>1, <2>2
    <3>. QED  BY <3>1 DEF Level
  <2>. QED  BY <2>1, <2>2
<1>3. f = [n \in Nat |-> f[n]]
  OBVIOUS
<1>. HIDE DEF f
<1>4. ValuesBy(f)
  BY <1>2, <1>3 DEF ValuesBy, ValuesStep
<1>5. \E g : ValuesBy(g)
  BY <1>4
<1>. QED  BY <1>5, Zenon DEF Values, ValuesBy

EncodeBy(f) ==
  f = [n \in Nat |->
         [t \in DOMAIN Schema |-> [v \in Values[n][t] |-> FlattenSeq(Parts(t, v, f[n - 1]))]]]

LEMMA EncodeIs == EncodeBy(Encode)
<1>1. PICK l : l = [n \in Nat |-> IF n = 0 THEN Level(0, <<>>) ELSE Level(n, l[n - 1])]
  BY LevelsExist
<1>. DEFINE f == [n \in Nat |-> l[n][2]]
<1>2. ASSUME NEW n \in Nat
      PROVE  f[n] = EncodeStep(n, f[n - 1])
  <2>1. CASE n = 0
    <3>1. l[n] = Level(0, <<>>)
      BY <1>1, <2>1
    <3>2. f[n] = EncodeStep(0, (<<>>)[2])
      BY <3>1 DEF Level
    <3>3. \A t \in DOMAIN Schema : Values[0][t] = {}
      BY ValuesDefined DEF ValuesBy
    <3>4. EncodeStep(0, (<<>>)[2]) = EncodeStep(0, f[n - 1])
      <4>. DEFINE a == (<<>>)[2]  b == f[n - 1]
      <4>. HIDE DEF a, b
      <4>1. ASSUME NEW t \in DOMAIN Schema
            PROVE  [v \in Values[0][t] |-> FlattenSeq(Parts(t, v, a))]
                     = [v \in Values[0][t] |-> FlattenSeq(Parts(t, v, b))]
        BY <3>3
      <4>2. EncodeStep(0, a) = EncodeStep(0, b)
        BY <4>1 DEF EncodeStep
      <4>. QED  BY <4>2 DEF a, b
    <3>. QED  BY <2>1, <3>2, <3>4
  <2>2. CASE n # 0
    <3>1. l[n] = Level(n, l[n - 1]) /\ n - 1 \in Nat
      BY <1>1, <2>2
    <3>. QED  BY <3>1 DEF Level
  <2>. QED  BY <2>1, <2>2
<1>3. f = [n \in Nat |-> f[n]]
  OBVIOUS
<1>. HIDE DEF f
<1>4. EncodeBy(f)
  BY <1>2, <1>3 DEF EncodeBy, EncodeStep
<1>5. \E g : EncodeBy(g)
  BY <1>4
<1>. QED  BY <1>5, Zenon DEF Encode, EncodeBy
LEMMA TuplesAre ==
  ASSUME NEW s, NEW nested, NEW v, Len(s) \in 2 .. 5
  PROVE  v \in Tuples(s, nested) <=>
           /\ v = [id \in 1 .. Len(s) |-> v[id]]
           /\ \A id \in 1 .. Len(s) : v[id] \in FieldValues(s[id], nested)
<1>1. CASE Len(s) = 2
  <2>1. Tuples(s, nested) = FieldValues(s[1], nested) \X FieldValues(s[2], nested)
    BY <1>1 DEF Tuples
  <2>2. [id \in 1 .. 2 |-> v[id]] = <<v[1], v[2]>>
    OBVIOUS
  <2>3. (\A id \in 1 .. 2 : v[id] \in FieldValues(s[id], nested))
          <=> v[1] \in FieldValues(s[1], nested) /\ v[2] \in FieldValues(s[2], nested)
    OBVIOUS
  <2>. QED  BY <1>1, <2>1, <2>2, <2>3
<1>2. CASE Len(s) = 3
  <2>1. Tuples(s, nested) = FieldValues(s[1], nested) \X FieldValues(s[2], nested)
                              \X FieldValues(s[3], nested)
    BY <1>2 DEF Tuples
  <2>2. [id \in 1 .. 3 |-> v[id]] = <<v[1], v[2], v[3]>>
    OBVIOUS
  <2>3. (\A id \in 1 .. 3 : v[id] \in FieldValues(s[id], nested))
          <=> /\ v[1] \in FieldValues(s[1], nested) /\ v[2] \in FieldValues(s[2], nested)
              /\ v[3] \in FieldValues(s[3], nested)
    OBVIOUS
  <2>. QED  BY <1>2, <2>1, <2>2, <2>3
<1>3. CASE Len(s) = 4
  <2>1. Tuples(s, nested) = FieldValues(s[1], nested) \X FieldValues(s[2], nested)
                              \X FieldValues(s[3], nested) \X FieldValues(s[4], nested)
    BY <1>3 DEF Tuples
  <2>2. [id \in 1 .. 4 |-> v[id]] = <<v[1], v[2], v[3], v[4]>>
    OBVIOUS
  <2>3. (\A id \in 1 .. 4 : v[id] \in FieldValues(s[id], nested))
          <=> /\ v[1] \in FieldValues(s[1], nested) /\ v[2] \in FieldValues(s[2], nested)
              /\ v[3] \in FieldValues(s[3], nested) /\ v[4] \in FieldValues(s[4], nested)
    OBVIOUS
  <2>. QED  BY <1>3, <2>1, <2>2, <2>3
<1>4. CASE Len(s) = 5
  <2>1. Tuples(s, nested) = FieldValues(s[1], nested) \X FieldValues(s[2], nested)
                              \X FieldValues(s[3], nested) \X FieldValues(s[4], nested)
                              \X FieldValues(s[5], nested)
    BY <1>4 DEF Tuples
  <2>2. [id \in 1 .. 5 |-> v[id]] = <<v[1], v[2], v[3], v[4], v[5]>>
    OBVIOUS
  <2>3. (\A id \in 1 .. 5 : v[id] \in FieldValues(s[id], nested))
          <=> /\ v[1] \in FieldValues(s[1], nested) /\ v[2] \in FieldValues(s[2], nested)
              /\ v[3] \in FieldValues(s[3], nested) /\ v[4] \in FieldValues(s[4], nested)
              /\ v[5] \in FieldValues(s[5], nested)
    OBVIOUS
  <2>. QED  BY <1>4, <2>1, <2>2, <2>3
<1>. QED  BY <1>1, <1>2, <1>3, <1>4

\* A function on the ids of the fields.
HasFields(t, v) == v = [id \in FieldIds(t) |-> v[id]]

\* v is a block of type t, given the values of the blocks within it.
IsValue(t, v, nested) ==
  /\ HasFields(t, v)
  /\ \A id \in FieldIds(t) : v[id] \in FieldValues(Schema[t][id], nested)
  /\ t = "Code" => (v[4] = None <=> v[5] = None)

LEMMA ValuesAre ==
  ASSUME NEW n \in Nat \ {0}, NEW t \in DOMAIN Schema, NEW v
  PROVE  v \in Values[n][t] <=> IsValue(t, v, Values[n - 1])
<1>1. Values[n][t] = {w \in Tuples(Schema[t], Values[n - 1]) :
                        t = "Code" => (w[4] = None <=> w[5] = None)}
  <2>1. n \in Nat /\ n # 0
    OBVIOUS
  <2>2. Values[n] = [u \in DOMAIN Schema |->
            IF n = 0 THEN {}
            ELSE {w \in Tuples(Schema[u], Values[n - 1]) :
                    u = "Code" => (w[4] = None <=> w[5] = None)}]
    BY <2>1, ValuesDefined, Zenon DEF ValuesBy
  <2>. QED  BY <2>1, <2>2
<1>2. Len(Schema[t]) \in 2 .. 5 /\ FieldIds(t) = 1 .. Len(Schema[t])
  BY SchemaIs DEF SchemaLaid
<1>. DEFINE s == Schema[t]  nested == Values[n - 1]
<1>. HIDE DEF nested, s
<1>3. Len(s) \in 2 .. 5 /\ FieldIds(t) = 1 .. Len(s)
  BY <1>2 DEF s
<1>4. v \in Tuples(s, nested) <=>
           /\ v = [id \in 1 .. Len(s) |-> v[id]]
           /\ \A id \in 1 .. Len(s) : v[id] \in FieldValues(s[id], nested)
  BY <1>3, TuplesAre
<1>5. v \in Values[n][t] <=>
        v \in Tuples(s, nested) /\ (t = "Code" => (v[4] = None <=> v[5] = None))
  BY <1>1 DEF s, nested
<1>6. IsValue(t, v, nested) <=>
           /\ v = [id \in 1 .. Len(s) |-> v[id]]
           /\ \A id \in 1 .. Len(s) : v[id] \in FieldValues(s[id], nested)
           /\ t = "Code" => (v[4] = None <=> v[5] = None)
  BY <1>3 DEF IsValue, HasFields, s
<1>7. v \in Values[n][t] <=> IsValue(t, v, nested)
  BY <1>4, <1>5, <1>6
<1>. QED  BY <1>7 DEF nested

LEMMA NoValues ==
  ASSUME NEW t \in DOMAIN Schema
  PROVE  Values[0][t] = {}
BY ValuesDefined DEF ValuesBy
-----------------------------------------------------------------------------
(* What the decoding functions return.                                     *)

LEMMA SmallNumbers == \A i \in 0 .. 5 : i \in 0 .. Word - 1
BY BlockTypesAssumption, VarintAssumption

\* The errors that decoding a block can end with.
Errors == {"VarintTooLong", "UnexpectedEof", "UnknownFieldWireType", "InvalidEnumValue",
           "MissingRequiredField"}

\* r is an error, or what at least one byte of buf says.
Returned(r, buf) ==
  IF Failed(r) THEN r.error \in Errors ELSE r.n \in 1 .. Len(buf)

LEMMA VarintReturned ==
  ASSUME NEW buf \in Seq(Byte)
  PROVE  /\ Returned(DecodeVarint(buf), buf)
         /\ ~Failed(DecodeVarint(buf)) => DecodeVarint(buf).value \in 0 .. Word - 1
<1>1. CASE \E n : Stops(buf, n)
  <2>1. PICK n : Stops(buf, n)
    BY <1>1
  <2>2. DecodeVarint(buf) = Ok(ValueOf(buf, n), n) /\ ValueOf(buf, n) \in 0 .. Word - 1
    BY <2>1, BothRead
  <2>3. n \in 1 .. Len(buf)
    BY <2>1 DEF Stops
  <2>. QED  BY <2>2, <2>3 DEF Ok, Returned, Failed
<1>2. CASE \A n : ~Stops(buf, n)
  <2>1. DecodeVarint(buf) \in {Err("VarintTooLong"), Err("UnexpectedEof")}
    BY <1>2, NeitherReads
  <2>. QED  BY <2>1 DEF Err, Returned, Failed, Errors
<1>. QED  BY <1>1, <1>2

LEMMA HeaderReturned ==
  ASSUME NEW buf \in Seq(Byte)
  PROVE  LET h == DecodeFieldHeader(buf) IN
         /\ Returned(h, buf)
         /\ ~Failed(h) => h.n >= 2 /\ h.value.id \in 0 .. Word - 1 /\ h.value.wireType \in WireType
<1>. DEFINE a == DecodeVarint(buf)  b == DecodeVarint(From(buf, a.n))  h == DecodeFieldHeader(buf)
<1>1. Returned(a, buf) /\ (~Failed(a) => a.value \in 0 .. Word - 1)
  BY VarintReturned
<1>2. CASE Failed(a)
  <2>1. h = a
    BY <1>2 DEF DecodeFieldHeader
  <2>. HIDE DEF h, a
  <2>2. Returned(h, buf) /\ Failed(h)
    BY <1>1, <1>2, <2>1
  <2>. QED  BY <2>2 DEF h
<1>3. CASE ~Failed(a)
  <2>1. a.n \in 1 .. Len(buf) /\ a.value \in 0 .. Word - 1
    BY <1>1, <1>3 DEF Returned
  <2>. HIDE DEF a
  <2>. DEFINE r == From(buf, a.n)
  <2>2. r \in Seq(Byte) /\ Len(r) = Len(buf) - a.n
    BY <2>1, FromIs
  <2>. HIDE DEF r
  <2>3. b = DecodeVarint(r)
    BY DEF r
  <2>4. Returned(b, r) /\ (~Failed(b) => b.value \in 0 .. Word - 1)
    BY <2>2, <2>3, VarintReturned
  <2>5. h = IF Failed(b) THEN b
            ELSE IF b.value \notin WireType THEN Err("UnknownFieldWireType")
            ELSE Ok([id |-> a.value, wireType |-> b.value], a.n + b.n)
    BY <1>3 DEF DecodeFieldHeader, a
  <2>. HIDE DEF b, h
  <2>6. CASE Failed(b)
    <3>1. Returned(h, buf) /\ Failed(h)
      BY <2>4, <2>5, <2>6 DEF Returned
    <3>. QED  BY <3>1 DEF h
  <2>7. CASE ~Failed(b) /\ b.value \notin WireType
    <3>1. Returned(h, buf) /\ Failed(h)
      BY <2>5, <2>7 DEF Returned, Err, Failed, Errors
    <3>. QED  BY <3>1 DEF h
  <2>8. CASE ~Failed(b) /\ b.value \in WireType
    <3>1. h = Ok([id |-> a.value, wireType |-> b.value], a.n + b.n)
      BY <2>5, <2>8
    <3>2. ~Failed(h) /\ h.value.id = a.value /\ h.value.wireType = b.value /\ h.n = a.n + b.n
      BY <3>1 DEF Ok, Failed
    <3>3. b.n \in 1 .. Len(r)
      BY <2>4, <2>8 DEF Returned
    <3>4. Len(buf) \in Nat
      OBVIOUS
    <3>5. a.n + b.n \in 2 .. Len(buf)
      BY <3>3, <3>4, <2>1, <2>2
    <3>6. h.n \in 1 .. Len(buf) /\ h.n >= 2
      BY <3>2, <3>4, <3>5
    <3>. QED  BY <3>2, <3>6, <2>1, <2>8 DEF h, Returned
  <2>. QED  BY <2>6, <2>7, <2>8
<1>. QED  BY <1>2, <1>3

LEMMA BytesReturned ==
  ASSUME NEW buf \in Seq(Byte)
  PROVE  LET r == DecodeBytesValue(buf) IN
         /\ Returned(r, buf)
         /\ ~Failed(r) => r.value \in Seq(Byte) /\ Len(r.value) < r.n
<1>. DEFINE a == DecodeVarint(buf)  r == DecodeBytesValue(buf)
<1>1. Returned(a, buf) /\ (~Failed(a) => a.value \in 0 .. Word - 1)
  BY VarintReturned
<1>2. r = IF Failed(a) THEN a
          ELSE IF a.n + a.value > Len(buf) THEN Err("UnexpectedEof")
          ELSE Ok(SubSeq(buf, a.n + 1, a.n + a.value), a.n + a.value)
  BY DEF DecodeBytesValue
<1>. HIDE DEF a, r
<1>3. CASE Failed(a)
  <2>1. Returned(r, buf) /\ Failed(r)
    BY <1>1, <1>2, <1>3
  <2>. QED  BY <2>1 DEF r
<1>4. CASE ~Failed(a) /\ a.n + a.value > Len(buf)
  <2>1. Returned(r, buf) /\ Failed(r)
    BY <1>2, <1>4 DEF Returned, Err, Failed, Errors
  <2>. QED  BY <2>1 DEF r
<1>5. CASE ~Failed(a) /\ ~(a.n + a.value > Len(buf))
  <2>. DEFINE m == a.n  k == a.value  x == SubSeq(buf, m + 1, m + k)  l == Len(buf)
  <2>1. m \in 1 .. Len(buf) /\ k \in 0 .. Word - 1
    BY <1>1, <1>5 DEF Returned
  <2>2. r = Ok(x, m + k) /\ ~(m + k > l)
    BY <1>2, <1>5
  <2>3. l \in Nat
    OBVIOUS
  <2>. HIDE DEF m, k
  <2>4. x \in Seq(Byte) /\ Len(x) = k
    BY <2>1, <2>2
  <2>. HIDE DEF x
  <2>5. r.n = m + k /\ r.value = x /\ ~Failed(r)
    BY <2>2 DEF Ok, Failed
  <2>6. m + k \in 1 .. l /\ k < m + k
    BY <2>1, <2>2, <2>3, VarintAssumption
  <2>. QED  BY <2>4, <2>5, <2>6 DEF r, Returned
<1>. QED  BY <1>3, <1>4, <1>5

LEMMA SkipReturned ==
  ASSUME NEW buf \in Seq(Byte), NEW wireType
  PROVE  Returned(SkipField(buf, wireType), buf)
<1>1. Returned(DecodeVarint(buf), buf) /\ Returned(DecodeBytesValue(buf), buf)
  BY VarintReturned, BytesReturned
<1>. QED  BY <1>1 DEF SkipField, DecodeVarintValue

LEMMA LossyIs ==
  ASSUME NEW data \in Seq(Byte)
  PROVE  Lossy(data) \in Texts
<1>. DEFINE x == Lossy(data)
<1>1. x \in Seq(Byte) /\ Len(x) = Len(data)
      /\ \A i \in 1 .. Len(data) : x[i] = IF data[i] < Base THEN data[i] ELSE Replacement
  BY BlockTypesAssumption DEF Lossy
<1>. HIDE DEF x
<1>2. Lossy(x) = x
  <2>1. \A i \in 1 .. Len(x) : (IF x[i] < Base THEN x[i] ELSE Replacement) = x[i]
    BY <1>1
  <2>2. Lossy(x) = [i \in 1 .. Len(x) |-> x[i]]
    BY <2>1 DEF Lossy
  <2>. QED  BY <1>1, <2>2
<1>. QED  BY <1>1, <1>2 DEF Texts, x

LEMMA SummaryReturned ==
  ASSUME NEW buf \in Seq(Byte)
  PROVE  LET r == DecodeSummary(buf) IN
         /\ Returned(r, buf)
         /\ ~Failed(r) => r.value \in Texts
<1>. DEFINE a == DecodeVarint(buf)  r == DecodeSummary(buf)
<1>1. Returned(a, buf) /\ (~Failed(a) => a.value \in 0 .. Word - 1)
  BY VarintReturned
<1>2. r = IF Failed(a) THEN a
          ELSE IF a.n + a.value > Len(buf) THEN Err("UnexpectedEof")
          ELSE Ok(Lossy(SubSeq(buf, a.n + 1, a.n + a.value)), a.n + a.value)
  BY DEF DecodeSummary
<1>. HIDE DEF a, r
<1>3. CASE Failed(a)
  <2>1. Returned(r, buf) /\ Failed(r)
    BY <1>1, <1>2, <1>3
  <2>. QED  BY <2>1 DEF r
<1>4. CASE ~Failed(a) /\ a.n + a.value > Len(buf)
  <2>1. Returned(r, buf) /\ Failed(r)
    BY <1>2, <1>4 DEF Returned, Err, Failed, Errors
  <2>. QED  BY <2>1 DEF r
<1>5. CASE ~Failed(a) /\ ~(a.n + a.value > Len(buf))
  <2>. DEFINE m == a.n  k == a.value  x == SubSeq(buf, m + 1, m + k)  l == Len(buf)
  <2>1. m \in 1 .. Len(buf) /\ k \in 0 .. Word - 1
    BY <1>1, <1>5 DEF Returned
  <2>2. r = Ok(Lossy(x), m + k) /\ ~(m + k > l)
    BY <1>2, <1>5
  <2>3. l \in Nat
    OBVIOUS
  <2>. HIDE DEF m, k
  <2>4. x \in Seq(Byte)
    BY <2>1, <2>2
  <2>. HIDE DEF x
  <2>5. r.n = m + k /\ r.value = Lossy(x) /\ ~Failed(r)
    BY <2>2 DEF Ok, Failed
  <2>6. m + k \in 1 .. l
    BY <2>1, <2>2, <2>3, VarintAssumption
  <2>. QED  BY <2>4, <2>5, <2>6, LossyIs DEF r, Returned
<1>. QED  BY <1>3, <1>4, <1>5

\* What a field reads from its payload.
PayloadOf(scalar, buf) == IF scalar THEN DecodeVarintValue(buf) ELSE DecodeBytesValue(buf)

PayloadIn(scalar, x) == IF scalar THEN x \in 0 .. Word - 1 ELSE x \in Seq(Byte)

LEMMA PayloadReturned ==
  ASSUME NEW buf \in Seq(Byte), NEW scalar \in BOOLEAN
  PROVE  LET r == PayloadOf(scalar, buf) IN
         /\ Returned(r, buf)
         /\ ~Failed(r) => PayloadIn(scalar, r.value) /\ (~scalar => Len(r.value) < r.n)
<1>1. CASE scalar
  <2>1. PayloadOf(scalar, buf) = DecodeVarint(buf)
    BY <1>1 DEF PayloadOf, DecodeVarintValue
  <2>. QED  BY <1>1, <2>1, VarintReturned DEF PayloadIn
<1>2. CASE ~scalar
  <2>1. PayloadOf(scalar, buf) = DecodeBytesValue(buf)
    BY <1>2 DEF PayloadOf
  <2>. QED  BY <1>2, <2>1, BytesReturned DEF PayloadIn
<1>. QED  BY <1>1, <1>2

\* What a field keeps is a value of the field.
LEMMA AcceptedIs ==
  ASSUME NEW t, NEW id, NEW f, FieldLaid(t, id, f), f.kind # "list",
         NEW x, PayloadIn(IsNumber(f.kind), x), ~Refuses(f, x)
  PROVE  Accepted(f, x) \in PlainValues(f)
<1>. USE DEF Accepted, PlainValues, PayloadIn, IsNumber
<1>1. CASE f.kind = "u8"
  BY <1>1, VarintAssumption, BlockTypesAssumption
<1>2. CASE f.kind = "enum"
  BY <1>2, VarintAssumption, BlockTypesAssumption DEF Refuses
<1>3. CASE f.kind = "entry_kind"
  BY <1>3 DEF Refuses
<1>4. CASE f.kind = "u32"
  BY <1>4, VarintAssumption, BlockTypesAssumption
<1>5. CASE f.kind = "size"
  BY <1>5
<1>6. CASE f.kind = "text"
  BY <1>6, LossyIs
<1>7. CASE f.kind = "bytes"
  BY <1>7
<1>. QED  BY <1>1, <1>2, <1>3, <1>4, <1>5, <1>6, <1>7 DEF FieldLaid, Kinds

\* A value of the field is a payload, which the field accepts as it is.
LEMMA KeptIs ==
  ASSUME NEW t, NEW id, NEW f, FieldLaid(t, id, f), f.kind # "list", NEW x \in PlainValues(f)
  PROVE  /\ PayloadIn(IsNumber(f.kind), x) /\ ~Refuses(f, x) /\ Accepted(f, x) = x
         /\ x # None
<1>. USE DEF Accepted, PlainValues, PayloadIn, IsNumber, Refuses
<1>1. CASE f.kind = "u8"
  <2>1. x \in 0 .. ByteWidth - 1 /\ ByteWidth \in Nat \ {0} /\ ByteWidth <= Word /\ Word \in Nat
    BY <1>1, VarintAssumption, BlockTypesAssumption
  <2>2. x \in 0 .. Word - 1
    BY <2>1
  <2>3. x % ByteWidth = x
    BY <2>1
  <2>4. x # None
    BY <2>1, BlockTypesAssumption
  <2>. QED  BY <1>1, <2>2, <2>3, <2>4
<1>2. CASE f.kind = "enum"
  <2>1. x \in 1 .. f.arg /\ f.arg \in 1 .. 5
    BY <1>2 DEF FieldLaid
  <2>2. x \in 0 .. ByteWidth - 1 /\ ByteWidth \in Nat \ {0} /\ x \in 0 .. Word - 1
    BY <2>1, VarintAssumption, BlockTypesAssumption
  <2>3. x % ByteWidth = x
    BY <2>2
  <2>. QED  BY <1>2, <2>1, <2>2, <2>3, BlockTypesAssumption
<1>3. CASE f.kind = "entry_kind"
  BY <1>3, VarintAssumption, BlockTypesAssumption
<1>4. CASE f.kind = "u32"
  <2>1. x \in 0 .. ShortWidth - 1 /\ ShortWidth \in Nat \ {0} /\ ShortWidth <= Word /\ Word \in Nat
    BY <1>4, VarintAssumption, BlockTypesAssumption
  <2>2. x \in 0 .. Word - 1
    BY <2>1
  <2>3. x % ShortWidth = x
    BY <2>1
  <2>4. x # None
    BY <2>1, BlockTypesAssumption
  <2>. QED  BY <1>4, <2>2, <2>3, <2>4
<1>5. CASE f.kind = "size"
  BY <1>5, BlockTypesAssumption
<1>6. CASE f.kind = "text"
  <2>1. x \in Seq(Byte) /\ Lossy(x) = x
    BY <1>6 DEF Texts
  <2>2. x # None
    BY <2>1, BlockTypesAssumption
  <2>. QED  BY <1>6, <2>1, <2>2
<1>7. CASE f.kind = "bytes"
  <2>1. x \in Seq(Byte) /\ x # None
    BY <1>7, BlockTypesAssumption
  <2>. QED  BY <1>7, <2>1
<1>. QED  BY <1>1, <1>2, <1>3, <1>4, <1>5, <1>6, <1>7 DEF FieldLaid, Kinds
-----------------------------------------------------------------------------
(* Fields while they are read.                                             *)

LEMMA BlankIs ==
  ASSUME NEW t \in DOMAIN Schema
  PROVE  /\ HasFields(t, Blank(t))
         /\ \A id \in FieldIds(t) :
              /\ Schema[t][id].kind = "list" => Blank(t)[id] = <<>>
              /\ Schema[t][id].kind = "size" => Blank(t)[id] = 0
              /\ Schema[t][id].kind \notin {"list", "size"} => Blank(t)[id] = None
BY DEF Blank, HasFields

\* Some fields have been read, the others are blank.
Partial(t, fields, nested) ==
  /\ HasFields(t, fields)
  /\ \A id \in FieldIds(t) :
       fields[id] = Blank(t)[id] \/ fields[id] \in FieldValues(Schema[t][id], nested)

LEMMA BlankPartial ==
  ASSUME NEW t \in DOMAIN Schema, NEW nested
  PROVE  Partial(t, Blank(t), nested)
BY BlankIs DEF Partial

LEMMA FieldSet ==
  ASSUME NEW t \in DOMAIN Schema, NEW fields, HasFields(t, fields), NEW id \in FieldIds(t), NEW x
  PROVE  /\ HasFields(t, [fields EXCEPT ![id] = x])
         /\ [fields EXCEPT ![id] = x][id] = x
         /\ \A i \in FieldIds(t) : i # id => [fields EXCEPT ![id] = x][i] = fields[i]
<1>1. fields = [i \in FieldIds(t) |-> fields[i]]
  BY DEF HasFields
<1>. DEFINE g == [fields EXCEPT ![id] = x]
<1>2. g = [i \in FieldIds(t) |-> IF i = id THEN x ELSE fields[i]]
  BY <1>1
<1>. HIDE DEF g
<1>3. HasFields(t, g) /\ g[id] = x /\ \A i \in FieldIds(t) : i # id => g[i] = fields[i]
  BY <1>2 DEF HasFields
<1>. QED  BY <1>3 DEF g

LEMMA PartialKeeps ==
  ASSUME NEW t \in DOMAIN Schema, NEW fields, NEW nested, Partial(t, fields, nested),
         NEW id \in FieldIds(t), NEW x \in FieldValues(Schema[t][id], nested)
  PROVE  Partial(t, [fields EXCEPT ![id] = x], nested)
<1>. DEFINE g == [fields EXCEPT ![id] = x]
<1>1. HasFields(t, g) /\ g[id] = x /\ \A i \in FieldIds(t) : i # id => g[i] = fields[i]
  BY FieldSet DEF Partial
<1>. HIDE DEF g
<1>2. Partial(t, g, nested)
  BY <1>1 DEF Partial
<1>. QED  BY <1>2 DEF g

\* A line range that lacks an end is none.
LEMMA AssembledIs ==
  ASSUME NEW t \in DOMAIN Schema, NEW fields, HasFields(t, fields)
  PROVE  LET block == Assembled(t, fields) IN
         /\ HasFields(t, block)
         /\ \A id \in FieldIds(t) :
              \/ block[id] = fields[id]
              \/ t = "Code" /\ id \in {4, 5} /\ block[id] = None
         /\ t = "Code" => (block[4] = None <=> block[5] = None)
<1>. DEFINE block == Assembled(t, fields)
<1>1. CASE t = "Code" /\ None \in {fields[4], fields[5]}
  <2>. DEFINE g == [fields EXCEPT ![4] = None]  h == [g EXCEPT ![5] = None]
  <2>1. 4 \in FieldIds(t) /\ 5 \in FieldIds(t)
    BY <1>1, SchemaIs DEF SchemaLaid
  <2>2. HasFields(t, g) /\ g[4] = None /\ \A i \in FieldIds(t) : i # 4 => g[i] = fields[i]
    BY <2>1, FieldSet
  <2>. HIDE DEF g
  <2>3. HasFields(t, h) /\ h[5] = None /\ \A i \in FieldIds(t) : i # 5 => h[i] = g[i]
    BY <2>1, <2>2, FieldSet
  <2>4. block = h
    BY <1>1 DEF Assembled, g
  <2>. HIDE DEF h, block
  <2>5. h[4] = None
    BY <2>1, <2>2, <2>3
  <2>6. ASSUME NEW id \in FieldIds(t)
        PROVE  h[id] = fields[id] \/ (id \in {4, 5} /\ h[id] = None)
    <3>1. CASE id \in {4, 5}
      BY <3>1, <2>3, <2>5
    <3>2. CASE id \notin {4, 5}
      BY <3>2, <2>2, <2>3
    <3>. QED  BY <3>1, <3>2
  <2>. QED  BY <1>1, <2>3, <2>4, <2>5, <2>6 DEF block
<1>2. CASE ~(t = "Code" /\ None \in {fields[4], fields[5]})
  <2>1. block = fields
    BY <1>2 DEF Assembled
  <2>. HIDE DEF block
  <2>. QED  BY <1>2, <2>1 DEF block
<1>. QED  BY <1>1, <1>2

\* Once no required field is missing, the fields make a block.
LEMMA CompleteIs ==
  ASSUME NEW t \in DOMAIN Schema, NEW fields, NEW nested, Partial(t, fields, nested),
         ~Missing(t, fields)
  PROVE  IsValue(t, Assembled(t, fields), nested)
<1>. DEFINE block == Assembled(t, fields)
<1>1. /\ HasFields(t, block)
      /\ \A id \in FieldIds(t) :
           \/ block[id] = fields[id]
           \/ t = "Code" /\ id \in {4, 5} /\ block[id] = None
      /\ t = "Code" => (block[4] = None <=> block[5] = None)
  BY AssembledIs DEF Partial
<1>. HIDE DEF block
<1>2. ASSUME NEW id \in FieldIds(t)
      PROVE  block[id] \in FieldValues(Schema[t][id], nested)
  <2>. DEFINE f == Schema[t][id]
  <2>1. FieldLaid(t, id, f)
    BY SchemaIs DEF SchemaLaid
  <2>2. t = "Code" /\ id \in {4, 5} => f = Optional("u32")
    BY SchemaIs DEF SchemaLaid
  <2>3. f.required => fields[id] # None
    BY DEF Missing
  <2>4. fields[id] = Blank(t)[id] \/ fields[id] \in FieldValues(f, nested)
    BY DEF Partial
  <2>5. /\ f.kind = "list" => Blank(t)[id] = <<>>
        /\ f.kind = "size" => Blank(t)[id] = 0
        /\ f.kind \notin {"list", "size"} => Blank(t)[id] = None
    BY BlankIs
  <2>. HIDE DEF f
  <2>6. f.kind = "list" => <<>> \in FieldValues(f, nested)
    BY DEF FieldValues
  <2>7. f.kind = "size" => 0 \in FieldValues(f, nested)
    BY <2>1, VarintAssumption DEF FieldLaid, FieldValues, PlainValues
  <2>8. f.kind # "list" /\ ~f.required => None \in FieldValues(f, nested)
    BY DEF FieldValues
  <2>9. fields[id] \in FieldValues(f, nested)
    BY <2>3, <2>4, <2>5, <2>6, <2>7, <2>8
  <2>10. t = "Code" /\ id \in {4, 5} => None \in FieldValues(f, nested)
    BY <2>2 DEF FieldValues, Optional
  <2>. QED  BY <1>1, <2>9, <2>10 DEF f
<1>3. IsValue(t, block, nested)
  BY <1>1, <1>2 DEF IsValue
<1>. QED  BY <1>3 DEF block
-----------------------------------------------------------------------------
(* The stack of calls.                                                     *)

IsStack(s) == \E X : s \in Seq(X)

LEMMA FrontIs ==
  ASSUME NEW X, NEW s \in Seq(X), s # <<>>
  PROVE  /\ Front(s) \in Seq(X) /\ Len(Front(s)) = Len(s) - 1 /\ Len(s) \in Nat \ {0}
         /\ \A k \in 1 .. Len(s) - 1 : Front(s)[k] = s[k]
<1>. DEFINE m == Len(s)
<1>1. m \in Nat \ {0}
  OBVIOUS
<1>2. Front(s) = SubSeq(s, 1, m - 1)
  BY DEF Front
<1>3. \A k \in 1 .. m - 1 : k \in 1 .. Len(s) /\ 1 + k - 1 = k
  BY <1>1
<1>. HIDE DEF m
<1>4. 1 \in Nat /\ m - 1 \in Nat /\ m - 1 <= Len(s)
  BY <1>1 DEF m
<1>5. /\ SubSeq(s, 1, m - 1) \in Seq(X) /\ Len(SubSeq(s, 1, m - 1)) = m - 1
      /\ \A k \in 1 .. m - 1 : SubSeq(s, 1, m - 1)[k] = s[k]
  BY <1>3, <1>4
<1>. QED  BY <1>1, <1>2, <1>5 DEF m

LEMMA AppendIs ==
  ASSUME NEW X, NEW s \in Seq(X), NEW c
  PROVE  /\ IsStack(Append(s, c)) /\ Len(Append(s, c)) = Len(s) + 1 /\ Append(s, c) # <<>>
         /\ Append(s, c)[Len(s) + 1] = c /\ Len(s) \in Nat
         /\ \A k \in 1 .. Len(s) : Append(s, c)[k] = s[k]
<1>1. s \in Seq(X \cup {c})
  OBVIOUS
<1>2. Append(s, c) \in Seq(X \cup {c})
  BY <1>1
<1>3. /\ Len(Append(s, c)) = Len(s) + 1 /\ Append(s, c)[Len(s) + 1] = c /\ Len(s) \in Nat
      /\ \A k \in 1 .. Len(s) : Append(s, c)[k] = s[k]
  OBVIOUS
<1>. DEFINE a == Append(s, c)
<1>4. a # <<>>
  <2>1. Len(a) # 0
    BY <1>3
  <2>. HIDE DEF a
  <2>. QED  BY <2>1
<1>. QED  BY <1>2, <1>3, <1>4 DEF IsStack

LEMMA TopIs ==
  ASSUME NEW s, IsStack(s), s # <<>>
  PROVE  Len(s) \in Nat \ {0} /\ Last(s) = s[Len(s)] /\ Len(s) \in 1 .. Len(s)
<1>1. PICK X : s \in Seq(X)
  BY DEF IsStack
<1>2. Len(s) \in Nat /\ Len(s) # 0
  BY <1>1
<1>. QED  BY <1>2 DEF Last

LEMMA ReplacedIs ==
  ASSUME NEW s, IsStack(s), s # <<>>, NEW c
  PROVE  LET u == Append(Front(s), c) IN
         /\ IsStack(u) /\ Len(u) = Len(s) /\ u[Len(s)] = c /\ u # <<>>
         /\ \A k \in 1 .. Len(s) - 1 : u[k] = s[k]
<1>1. PICK X : s \in Seq(X)
  BY DEF IsStack
<1>. DEFINE f == Front(s)  u == Append(f, c)
<1>2. /\ f \in Seq(X) /\ Len(f) = Len(s) - 1 /\ Len(s) \in Nat \ {0}
      /\ \A k \in 1 .. Len(s) - 1 : f[k] = s[k]
  BY <1>1, FrontIs
<1>. HIDE DEF f
<1>3. /\ IsStack(u) /\ Len(u) = Len(f) + 1 /\ u # <<>> /\ u[Len(f) + 1] = c
      /\ \A k \in 1 .. Len(f) : u[k] = f[k]
  BY <1>2, AppendIs
<1>. HIDE DEF u
<1>4. Len(f) + 1 = Len(s)
  BY <1>2
<1>5. /\ IsStack(u) /\ Len(u) = Len(s) /\ u[Len(s)] = c /\ u # <<>>
      /\ \A k \in 1 .. Len(s) - 1 : u[k] = s[k]
  BY <1>2, <1>3, <1>4
<1>. QED  BY <1>5 DEF f, u

LEMMA PushedIs ==
  ASSUME NEW s, IsStack(s), s # <<>>, NEW a, NEW c
  PROVE  LET u == Front(s) \o <<a, c>> IN
         /\ IsStack(u) /\ Len(u) = Len(s) + 1 /\ u # <<>>
         /\ u[Len(s)] = a /\ u[Len(s) + 1] = c
         /\ \A k \in 1 .. Len(s) - 1 : u[k] = s[k]
<1>1. PICK X : s \in Seq(X)
  BY DEF IsStack
<1>. DEFINE Y == X \cup {a, c}  f == Front(s)  g == <<a, c>>  u == f \o g
<1>2. f \in Seq(X) /\ Len(f) = Len(s) - 1 /\ Len(s) \in Nat \ {0}
      /\ \A k \in 1 .. Len(s) - 1 : f[k] = s[k]
  BY <1>1, FrontIs
<1>3. f \in Seq(Y) /\ g \in Seq(Y)
  BY <1>2
<1>4. Len(g) = 2 /\ g[1] = a /\ g[2] = c
  OBVIOUS
<1>. HIDE DEF f, g, Y
<1>5. u \in Seq(Y) /\ Len(u) = Len(f) + Len(g)
      /\ (\A i \in 1 .. Len(f) : u[i] = f[i])
      /\ \A i \in 1 .. Len(g) : u[Len(f) + i] = g[i]
  BY <1>3, JoinedIs
<1>. HIDE DEF u
<1>6. Len(f) + 1 = Len(s) /\ Len(f) + 2 = Len(s) + 1 /\ 1 \in 1 .. 2 /\ 2 \in 1 .. 2
  BY <1>2
<1>7. u[Len(s)] = a /\ u[Len(s) + 1] = c
  BY <1>4, <1>5, <1>6
<1>8. u # <<>>
  BY <1>4, <1>5, <1>6, <1>2
<1>9. /\ IsStack(u) /\ Len(u) = Len(s) + 1 /\ u # <<>>
      /\ u[Len(s)] = a /\ u[Len(s) + 1] = c
      /\ \A k \in 1 .. Len(s) - 1 : u[k] = s[k]
  BY <1>2, <1>4, <1>5, <1>6, <1>7, <1>8 DEF IsStack
<1>. QED  BY <1>9 DEF f, g, u

LEMMA PoppedIs ==
  ASSUME NEW s, IsStack(s), Len(s) > 1, NEW c
  PROVE  LET u == Append(Front(Front(s)), c) IN
         /\ Last(Front(s)) = s[Len(s) - 1] /\ Len(s) \in Nat /\ s # <<>>
         /\ IsStack(u) /\ Len(u) = Len(s) - 1 /\ u[Len(s) - 1] = c /\ u # <<>>
         /\ \A k \in 1 .. Len(s) - 2 : u[k] = s[k]
<1>1. PICK X : s \in Seq(X)
  BY DEF IsStack
<1>. DEFINE f == Front(s)  u == Append(Front(f), c)
<1>2. s # <<>>
  OBVIOUS
<1>3. f \in Seq(X) /\ Len(f) = Len(s) - 1 /\ Len(s) \in Nat
      /\ \A k \in 1 .. Len(s) - 1 : f[k] = s[k]
  BY <1>2, <1>1, FrontIs
<1>. HIDE DEF f
<1>4. IsStack(f) /\ f # <<>>
  BY <1>3 DEF IsStack
<1>5. /\ IsStack(u) /\ Len(u) = Len(f) /\ u[Len(f)] = c /\ u # <<>>
      /\ \A k \in 1 .. Len(f) - 1 : u[k] = f[k]
  BY <1>4, ReplacedIs
<1>. HIDE DEF u
<1>6. Last(f) = s[Len(s) - 1]
  BY <1>3, <1>4, TopIs
<1>7. /\ IsStack(u) /\ Len(u) = Len(s) - 1 /\ u[Len(s) - 1] = c /\ u # <<>>
      /\ \A k \in 1 .. Len(s) - 2 : u[k] = s[k]
  BY <1>3, <1>5
<1>. QED  BY <1>2, <1>3, <1>6, <1>7 DEF f, u
-----------------------------------------------------------------------------
(* Calls on the stack.                                                     *)

LEMMA DepthIs == Depth \in Nat \ {0} /\ Word <= 3 * Depth
<1>. DEFINE q == Word \div 3
<1>1. q \in Nat /\ Word < 3 * q + 3 /\ Word \in Nat
  BY VarintAssumption
<1>2. Depth = q + 1
  BY DEF Depth
<1>. HIDE DEF q
<1>. QED  BY <1>1, <1>2

IsCall(c) == c = [type |-> c.type, rest |-> c.rest, fields |-> c.fields, id |-> c.id]

LEMMA AdvancedIs ==
  ASSUME NEW c, IsCall(c), NEW r
  PROVE  LET a == Advanced(c, r) IN
         /\ IsCall(a) /\ a.type = c.type /\ a.rest = r /\ a.fields = c.fields /\ a.id = c.id
<1>1. Advanced(c, r) = [type |-> c.type, rest |-> r, fields |-> c.fields, id |-> c.id]
  BY DEF Advanced, IsCall
<1>. DEFINE a == Advanced(c, r)
<1>. HIDE DEF a
<1>2. a = [type |-> c.type, rest |-> r, fields |-> c.fields, id |-> c.id]
  BY <1>1 DEF a
<1>3. IsCall(a) /\ a.type = c.type /\ a.rest = r /\ a.fields = c.fields /\ a.id = c.id
  BY <1>2 DEF IsCall
<1>. QED  BY <1>3 DEF a

\* a is c with x in field id.
Put(a, c, id, x) ==
  /\ IsCall(a) /\ a.type = c.type /\ a.rest = c.rest
  /\ a.fields = [c.fields EXCEPT ![id] = x] /\ a.id = c.id

LEMMA WithFieldIs ==
  ASSUME NEW c, IsCall(c), NEW id, NEW x
  PROVE  Put(WithField(c, id, x), c, id, x)
<1>1. WithField(c, id, x)
        = [type |-> c.type, rest |-> c.rest, fields |-> [c.fields EXCEPT ![id] = x], id |-> c.id]
  BY DEF WithField, IsCall
<1>. DEFINE a == WithField(c, id, x)  g == [c.fields EXCEPT ![id] = x]
<1>. HIDE DEF a, g
<1>2. a = [type |-> c.type, rest |-> c.rest, fields |-> g, id |-> c.id]
  BY <1>1 DEF a, g
<1>3. IsCall(a) /\ a.type = c.type /\ a.rest = c.rest /\ a.fields = g /\ a.id = c.id
  BY <1>2 DEF IsCall
<1>. QED  BY <1>3 DEF a, g, Put

LEMMA CallIs ==
  ASSUME NEW t, NEW bytes, NEW id
  PROVE  LET a == Call(t, bytes, id) IN
         IsCall(a) /\ a.type = t /\ a.rest = bytes /\ a.fields = Blank(t) /\ a.id = id
BY DEF Call, IsCall

\* A call on fewer than 3 * n bytes: of these, blocks nested less than n deep are made.
CallLaid(c, n) ==
  /\ IsCall(c) /\ n \in Int
  /\ c.type \in DOMAIN Schema /\ c.rest \in Seq(Byte) /\ Len(c.rest) < 3 * n
  /\ Partial(c.type, c.fields, Values[n - 1])

LEMMA CallLaidAt ==
  ASSUME NEW c, NEW n, CallLaid(c, n)
  PROVE  n \in Nat \ {0}
<1>. DEFINE l == Len(c.rest)
<1>1. l \in Nat /\ l < 3 * n /\ n \in Int
  BY DEF CallLaid
<1>. HIDE DEF l
<1>. QED  BY <1>1

\* The call on the payload of a field, and its caller.
NestedIn(c, caller) ==
  /\ c.id \in FieldIds(caller.type)
  /\ Schema[caller.type][c.id].kind = "list" /\ Schema[caller.type][c.id].arg = c.type

StackLaid(s, t) ==
  /\ IsStack(s)
  /\ \A k \in 1 .. Len(s) : CallLaid(s[k], Depth + 1 - k)
  /\ \A k \in 1 .. Len(s) - 1 : NestedIn(s[k + 1], s[k])
  /\ s # <<>> => s[1].type = t

LEMMA StackReplaced ==
  ASSUME NEW s, NEW t, StackLaid(s, t), s # <<>>,
         NEW c, CallLaid(c, Depth + 1 - Len(s)), c.type = Last(s).type, c.id = Last(s).id
  PROVE  StackLaid(Append(Front(s), c), t)
<1>. DEFINE u == Append(Front(s), c)  m == Len(s)
<1>1. m \in Nat \ {0} /\ Last(s) = s[m]
  BY TopIs DEF StackLaid
<1>2. IsStack(u) /\ Len(u) = m /\ u[m] = c /\ u # <<>> /\ \A k \in 1 .. m - 1 : u[k] = s[k]
  BY ReplacedIs DEF StackLaid
<1>3. CallLaid(c, Depth + 1 - m) /\ c.type = s[m].type /\ c.id = s[m].id
  BY <1>1
<1>. HIDE DEF u, m
<1>4. /\ \A k \in 1 .. m : CallLaid(s[k], Depth + 1 - k)
      /\ \A k \in 1 .. m - 1 : NestedIn(s[k + 1], s[k])
      /\ s[1].type = t
  BY DEF StackLaid, m
<1>5. \A k \in 1 .. m : u[k].type = s[k].type /\ u[k].id = s[k].id
  BY <1>1, <1>2, <1>3
<1>6. \A k \in 1 .. m : CallLaid(u[k], Depth + 1 - k)
  BY <1>1, <1>2, <1>3, <1>4
<1>7. ASSUME NEW k \in 1 .. m - 1
      PROVE  NestedIn(u[k + 1], u[k])
  <2>1. k \in 1 .. m /\ k + 1 \in 1 .. m
    BY <1>1
  <2>. QED  BY <1>4, <1>5, <2>1 DEF NestedIn
<1>8. u[1].type = t
  <2>1. 1 \in 1 .. m
    BY <1>1
  <2>. QED  BY <2>1, <1>4, <1>5
<1>9. StackLaid(u, t)
  BY <1>2, <1>6, <1>7, <1>8 DEF StackLaid
<1>. QED  BY <1>9 DEF u

LEMMA StackPushed ==
  ASSUME NEW s, NEW t, StackLaid(s, t), s # <<>>,
         NEW a, CallLaid(a, Depth + 1 - Len(s)), a.type = Last(s).type, a.id = Last(s).id,
         NEW c, CallLaid(c, Depth - Len(s)), NestedIn(c, a)
  PROVE  StackLaid(Front(s) \o <<a, c>>, t)
<1>. DEFINE u == Front(s) \o <<a, c>>  m == Len(s)
<1>1. m \in Nat \ {0} /\ Last(s) = s[m]
  BY TopIs DEF StackLaid
<1>2. IsStack(u) /\ Len(u) = m + 1 /\ u[m] = a /\ u[m + 1] = c /\ u # <<>>
      /\ \A k \in 1 .. m - 1 : u[k] = s[k]
  BY PushedIs DEF StackLaid
<1>3. /\ CallLaid(a, Depth + 1 - m) /\ a.type = s[m].type /\ a.id = s[m].id
      /\ CallLaid(c, Depth - m)
  BY <1>1
<1>. HIDE DEF u, m
<1>4. /\ \A k \in 1 .. m : CallLaid(s[k], Depth + 1 - k)
      /\ \A k \in 1 .. m - 1 : NestedIn(s[k + 1], s[k])
      /\ s[1].type = t
  BY DEF StackLaid, m
<1>5. \A k \in 1 .. m : u[k].type = s[k].type /\ u[k].id = s[k].id
  BY <1>1, <1>2, <1>3
<1>6. ASSUME NEW k \in 1 .. m + 1
      PROVE  CallLaid(u[k], Depth + 1 - k)
  <2>1. CASE k = m + 1
    <3>1. Depth + 1 - k = Depth - m
      BY <2>1, <1>1, DepthIs
    <3>. QED  BY <2>1, <3>1, <1>2, <1>3
  <2>2. CASE k # m + 1
    <3>1. k \in 1 .. m
      BY <2>2, <1>1
    <3>. QED  BY <3>1, <1>1, <1>2, <1>3, <1>4
  <2>. QED  BY <2>1, <2>2
<1>7. ASSUME NEW k \in 1 .. m
      PROVE  NestedIn(u[k + 1], u[k])
  <2>1. CASE k = m
    BY <2>1, <1>2
  <2>2. CASE k # m
    <3>1. k \in 1 .. m - 1 /\ k + 1 \in 1 .. m
      BY <2>2, <1>1
    <3>. QED  BY <1>4, <1>5, <3>1 DEF NestedIn
  <2>. QED  BY <2>1, <2>2
<1>8. u[1].type = t
  <2>1. 1 \in 1 .. m
    BY <1>1
  <2>. QED  BY <2>1, <1>4, <1>5
<1>9. \A k \in 1 .. Len(u) - 1 : NestedIn(u[k + 1], u[k])
  BY <1>1, <1>2, <1>7
<1>10. StackLaid(u, t)
  BY <1>2, <1>6, <1>8, <1>9 DEF StackLaid
<1>. QED  BY <1>10 DEF u

LEMMA StackPopped ==
  ASSUME NEW s, NEW t, StackLaid(s, t), Len(s) > 1,
         NEW c, CallLaid(c, Depth + 2 - Len(s)),
         c.type = s[Len(s) - 1].type, c.id = s[Len(s) - 1].id
  PROVE  StackLaid(Append(Front(Front(s)), c), t)
<1>. DEFINE u == Append(Front(Front(s)), c)  m == Len(s)
<1>1. IsStack(s) /\ Len(s) > 1
  BY DEF StackLaid
<1>2. m \in Nat /\ m > 1
  BY <1>1, PoppedIs
<1>3. IsStack(u) /\ Len(u) = m - 1 /\ u[m - 1] = c /\ u # <<>>
      /\ \A k \in 1 .. m - 2 : u[k] = s[k]
  BY <1>1, PoppedIs
<1>4. CallLaid(c, Depth + 2 - m) /\ c.type = s[m - 1].type /\ c.id = s[m - 1].id
  OBVIOUS
<1>5. s # <<>>
  BY <1>1, PoppedIs
<1>. HIDE DEF u, m
<1>6. /\ \A k \in 1 .. m : CallLaid(s[k], Depth + 1 - k)
      /\ \A k \in 1 .. m - 1 : NestedIn(s[k + 1], s[k])
      /\ s[1].type = t
  BY <1>5 DEF StackLaid, m
<1>7. \A k \in 1 .. m - 1 : u[k].type = s[k].type /\ u[k].id = s[k].id
  BY <1>2, <1>3, <1>4
<1>8. ASSUME NEW k \in 1 .. m - 1
      PROVE  CallLaid(u[k], Depth + 1 - k)
  <2>1. CASE k = m - 1
    <3>1. Depth + 1 - k = Depth + 2 - m
      BY <2>1, <1>2, DepthIs
    <3>. QED  BY <2>1, <3>1, <1>3, <1>4
  <2>2. CASE k # m - 1
    <3>1. k \in 1 .. m /\ k \in 1 .. m - 2
      BY <2>2, <1>2
    <3>. QED  BY <3>1, <1>3, <1>6
  <2>. QED  BY <2>1, <2>2
<1>9. ASSUME NEW k \in 1 .. m - 2
      PROVE  NestedIn(u[k + 1], u[k])
  <2>1. k \in 1 .. m - 1 /\ k + 1 \in 1 .. m - 1
    BY <1>2
  <2>. QED  BY <1>6, <1>7, <2>1 DEF NestedIn
<1>10. u[1].type = t
  <2>1. 1 \in 1 .. m - 1
    BY <1>2
  <2>. QED  BY <2>1, <1>6, <1>7
<1>11. (\A k \in 1 .. Len(u) - 1 : NestedIn(u[k + 1], u[k]))
       /\ \A k \in 1 .. Len(u) : CallLaid(u[k], Depth + 1 - k)
  BY <1>2, <1>3, <1>8, <1>9
<1>12. StackLaid(u, t)
  BY <1>3, <1>10, <1>11 DEF StackLaid
<1>. QED  BY <1>12 DEF u
-----------------------------------------------------------------------------
(* Types.                                                                  *)

\* What is decoded has its type, at every moment of decoding.
TypeAt(t, f, bytes, calls, s, text, value) ==
  /\ t \in DOMAIN Schema \cup Untyped /\ f \in BOOLEAN
  /\ bytes \in Seq(Byte) /\ Len(bytes) < Word
  /\ s \in {"called", "stripped", "decoding", "ok"} \cup Errors
  /\ s = "decoding" <=> calls # <<>>
  /\ StackLaid(calls, t)
  /\ s = "decoding" => t \in DOMAIN Schema
  /\ text \in Texts \cup {None} /\ (text # None => f)
  /\ s = "called" => text = None
  /\ s \in {"stripped", "decoding", "ok"} => (f <=> text # None)
  /\ s = "ok" => IF t \in DOMAIN Schema THEN IsBlock(t, value)
                 ELSE value \in Seq(Byte) /\ (t = "End" => value = <<>>)

TypeInv == TypeAt(type, flagged, body, stack, status, summary, result)

LEMMA EmptyStack ==
  ASSUME NEW t
  PROVE  StackLaid(<<>>, t)
<1>1. IsStack(<<>>)
  <2>1. <<>> \in Seq({})
    OBVIOUS
  <2>. QED  BY <2>1 DEF IsStack
<1>. QED  BY <1>1 DEF StackLaid

Same == type' = type /\ flagged' = flagged /\ body' = body /\ summary' = summary

LEMMA FailTyped ==
  ASSUME TypeInv, NEW e \in Errors, status' = e /\ stack' = <<>> /\ result' = result, Same
  PROVE  TypeInv'
<1>1. TypeAt(type, flagged, body, <<>>, e, summary, result)
  BY EmptyStack DEF TypeInv, TypeAt, Errors
<1>. QED  BY <1>1 DEF TypeInv, Same

LEMMA StackTyped ==
  ASSUME TypeInv, status = "decoding", NEW s, s # <<>>, StackLaid(s, type),
         stack' = s /\ status' = status /\ result' = result, Same
  PROVE  TypeInv'
<1>1. TypeAt(type, flagged, body, s, status, summary, result)
  BY DEF TypeInv, TypeAt
<1>. QED  BY <1>1 DEF TypeInv, Same

\* The call at the top of the stack.
TopLaid(c, m) ==
  /\ m = Len(stack) /\ c = Last(stack) /\ c = stack[m] /\ m \in Nat \ {0} /\ m \in 1 .. m
  /\ CallLaid(c, Depth + 1 - m) /\ StackLaid(stack, type) /\ stack # <<>>

LEMMA TopHolds ==
  ASSUME TypeInv, status = "decoding"
  PROVE  TopLaid(Last(stack), Len(stack))
<1>1. StackLaid(stack, type) /\ stack # <<>>
  BY DEF TypeInv, TypeAt
<1>2. Len(stack) \in Nat \ {0} /\ Last(stack) = stack[Len(stack)] /\ Len(stack) \in 1 .. Len(stack)
  BY <1>1, TopIs DEF StackLaid
<1>3. CallLaid(Last(stack), Depth + 1 - Len(stack))
  BY <1>1, <1>2 DEF StackLaid
<1>. QED  BY <1>1, <1>2, <1>3 DEF TopLaid

LEMMA ReplaceTyped ==
  ASSUME TypeInv, status = "decoding", NEW c, NEW m, TopLaid(c, m),
         NEW a, CallLaid(a, Depth + 1 - m), a.type = c.type, a.id = c.id,
         ReplaceTop(a), Same
  PROVE  TypeInv'
<1>. DEFINE u == Append(Front(stack), a)
<1>1. StackLaid(u, type)
  BY StackReplaced DEF TopLaid
<1>2. u # <<>>
  BY ReplacedIs DEF TopLaid, StackLaid
<1>3. stack' = u /\ status' = status /\ result' = result
  BY DEF ReplaceTop
<1>. HIDE DEF u
<1>. QED  BY <1>1, <1>2, <1>3, StackTyped

LEMMA UnknownTyped ==
  ASSUME TypeInv, status = "decoding", NEW wireType, NEW n \in 1 .. Len(Top.rest),
         Unknown(wireType, From(Top.rest, n)), Same
  PROVE  TypeInv'
<1>. DEFINE c == Last(stack)  m == Len(stack)  rest == From(c.rest, n)  r == SkipField(rest, wireType)
<1>1. TopLaid(c, m)
  BY TopHolds
<1>2. c.rest \in Seq(Byte) /\ IsCall(c) /\ CallLaid(c, Depth + 1 - m)
  BY <1>1 DEF TopLaid, CallLaid
<1>3. n \in 1 .. Len(c.rest) /\ n \in 0 .. Len(c.rest)
  BY DEF Top
<1>4. rest \in Seq(Byte) /\ Len(rest) = Len(c.rest) - n
  BY <1>2, <1>3, FromIs
<1>5. IF Failed(r) THEN Fail(r.error) ELSE ReplaceTop(Advanced(c, From(rest, r.n)))
  BY DEF Unknown, Top
<1>. HIDE DEF rest, m
<1>6. Returned(r, rest)
  BY <1>4, SkipReturned
<1>. HIDE DEF c, r
<1>7. CASE Failed(r)
  <2>1. r.error \in Errors /\ status' = r.error /\ stack' = <<>> /\ result' = result
    BY <1>5, <1>6, <1>7 DEF Fail, Returned
  <2>. QED  BY <2>1, FailTyped
<1>8. CASE ~Failed(r)
  <2>. DEFINE x == From(rest, r.n)  a == Advanced(c, x)
  <2>1. r.n \in 1 .. Len(rest)
    BY <1>6, <1>8 DEF Returned
  <2>2. x \in Seq(Byte) /\ Len(x) = Len(rest) - r.n
    BY <1>4, <2>1, FromIs
  <2>3. Len(x) < Len(c.rest) /\ Len(x) \in Nat /\ Len(c.rest) \in Nat
    BY <1>2, <1>3, <1>4, <2>1, <2>2
  <2>. HIDE DEF x
  <2>4. IsCall(a) /\ a.type = c.type /\ a.rest = x /\ a.fields = c.fields /\ a.id = c.id
    BY <1>2, AdvancedIs
  <2>5. ReplaceTop(a)
    BY <1>5, <1>8 DEF x
  <2>. HIDE DEF a
  <2>6. CallLaid(a, Depth + 1 - m)
    BY <1>2, <2>2, <2>3, <2>4 DEF CallLaid
  <2>. QED  BY <1>1, <2>4, <2>5, <2>6, ReplaceTyped
<1>. QED  BY <1>7, <1>8

LEMMA KnownTyped ==
  ASSUME TypeInv, status = "decoding", NEW id \in FieldIds(Top.type), NEW n \in 2 .. Len(Top.rest),
         Known(id, From(Top.rest, n)), Same
  PROVE  TypeInv'
<1>. DEFINE c == Last(stack)  m == Len(stack)  rest == From(c.rest, n)  f == Schema[c.type][id]
            number == IsNumber(f.kind)  r == PayloadOf(number, rest)
            after == Advanced(c, From(rest, r.n))
<1>1. TopLaid(c, m)
  BY TopHolds
<1>2. c.rest \in Seq(Byte) /\ IsCall(c) /\ CallLaid(c, Depth + 1 - m) /\ c.type \in DOMAIN Schema
      /\ Partial(c.type, c.fields, Values[Depth - m])
  <2>1. (Depth + 1 - m) - 1 = Depth - m
    BY <1>1, DepthIs DEF TopLaid
  <2>2. CallLaid(c, Depth + 1 - m)
    BY <1>1 DEF TopLaid
  <2>. HIDE DEF c, m
  <2>3. Partial(c.type, c.fields, Values[(Depth + 1 - m) - 1])
    BY <2>2 DEF CallLaid
  <2>4. Partial(c.type, c.fields, Values[Depth - m])
    BY <2>1, <2>3
  <2>. QED  BY <2>2, <2>4 DEF CallLaid
<1>3. n \in 2 .. Len(c.rest) /\ n \in 0 .. Len(c.rest) /\ id \in FieldIds(c.type)
  BY DEF Top
<1>4. rest \in Seq(Byte) /\ Len(rest) = Len(c.rest) - n
  BY <1>2, <1>3, FromIs
<1>5. IF Failed(r) THEN Fail(r.error)
      ELSE IF f.kind = "list"
      THEN /\ stack' = Front(stack) \o <<after, Call(f.arg, r.value, id)>>
           /\ status' = status /\ result' = result
      ELSE IF Refuses(f, r.value) THEN Fail("InvalidEnumValue")
      ELSE ReplaceTop(WithField(after, id, Accepted(f, r.value)))
  BY DEF Known, Top, PayloadOf
<1>6. FieldLaid(c.type, id, f)
  BY <1>2, <1>3, SchemaIs DEF SchemaLaid
<1>. HIDE DEF rest, m, f
<1>7. number \in BOOLEAN
  BY DEF IsNumber
<1>8. Returned(r, rest) /\ (~Failed(r) => PayloadIn(number, r.value) /\ (~number => Len(r.value) < r.n))
  <2>. HIDE DEF number
  <2>. QED  BY <1>4, <1>7, PayloadReturned
<1>. HIDE DEF c, r, number
<1>9. CASE Failed(r)
  <2>1. r.error \in Errors /\ status' = r.error /\ stack' = <<>> /\ result' = result
    BY <1>5, <1>8, <1>9 DEF Fail, Returned
  <2>. QED  BY <2>1, FailTyped
<1>10. CASE ~Failed(r)
  <2>. DEFINE x == From(rest, r.n)  k == r.n  l == Len(c.rest)
  <2>1. k \in 1 .. Len(rest) /\ l \in Nat /\ Len(rest) = l - n /\ n \in 2 .. l
    BY <1>2, <1>3, <1>4, <1>8, <1>10 DEF Returned
  <2>2. x \in Seq(Byte) /\ Len(x) = Len(rest) - k
    BY <1>4, <2>1, FromIs
  <2>3. Len(x) < l /\ Len(x) \in Nat /\ k <= l - n
    BY <2>1, <2>2
  <2>4. IsCall(after) /\ after.type = c.type /\ after.rest = x /\ after.fields = c.fields
        /\ after.id = c.id
    BY <1>2, AdvancedIs
  <2>. HIDE DEF x, after, k, l
  <2>5. CallLaid(after, Depth + 1 - m)
    BY <1>2, <2>2, <2>3, <2>4 DEF CallLaid, l
  <2>6. CASE f.kind = "list"
    <3>. DEFINE y == Call(f.arg, r.value, id)  u == Front(stack) \o <<after, y>>
    <3>1. f.arg \in DOMAIN Schema
      BY <1>6, <2>6 DEF FieldLaid
    <3>2. ~number
      BY <2>6 DEF number, IsNumber
    <3>3. r.value \in Seq(Byte) /\ Len(r.value) < k
      BY <1>8, <1>10, <3>2 DEF PayloadIn, k
    <3>4. IsCall(y) /\ y.type = f.arg /\ y.rest = r.value /\ y.fields = Blank(f.arg) /\ y.id = id
      BY CallIs
    <3>5. stack' = u /\ status' = status /\ result' = result
      BY <1>5, <1>10, <2>6
    <3>. HIDE DEF y, u
    <3>6. CallLaid(y, Depth - m)
      <4>. DEFINE z == Len(r.value)
      <4>1. z \in Nat /\ z < k
        BY <3>3
      <4>2. l < 3 * (Depth + 1 - m)
        BY <1>2 DEF CallLaid, l
      <4>3. m \in Nat /\ Depth \in Nat
        BY <1>1, DepthIs DEF TopLaid
      <4>. HIDE DEF z
      <4>4. z < 3 * (Depth - m) /\ Depth - m \in Int
        BY <4>1, <4>2, <4>3, <2>1, <2>3
      <4>. QED  BY <3>1, <3>3, <3>4, <4>4, BlankPartial DEF CallLaid, z
    <3>7. NestedIn(y, after)
      BY <1>3, <2>4, <2>6, <3>4 DEF NestedIn, f
    <3>8. StackLaid(stack, type) /\ stack # <<>> /\ after.type = Last(stack).type
          /\ after.id = Last(stack).id /\ m = Len(stack)
      BY <1>1, <2>4 DEF TopLaid
    <3>9. StackLaid(u, type) /\ u # <<>>
      <4>1. CallLaid(after, Depth + 1 - Len(stack)) /\ CallLaid(y, Depth - Len(stack))
        BY <2>5, <3>6, <3>8
      <4>2. StackLaid(u, type)
        BY <4>1, <3>7, <3>8, StackPushed DEF u
      <4>3. IsStack(stack)
        BY <3>8 DEF StackLaid
      <4>4. u # <<>>
        BY <4>3, <3>8, PushedIs DEF u
      <4>. QED  BY <4>2, <4>4
    <3>. QED  BY <3>5, <3>9, StackTyped
  <2>7. CASE f.kind # "list" /\ Refuses(f, r.value)
    <3>1. status' = "InvalidEnumValue" /\ stack' = <<>> /\ result' = result
      BY <1>5, <1>10, <2>7 DEF Fail
    <3>2. "InvalidEnumValue" \in Errors
      BY DEF Errors
    <3>. QED  BY <3>1, <3>2, FailTyped
  <2>8. CASE f.kind # "list" /\ ~Refuses(f, r.value)
    <3>. DEFINE v == Accepted(f, r.value)  a == WithField(after, id, v)
    <3>1. v \in PlainValues(f)
      BY <1>6, <1>8, <1>10, <2>8, AcceptedIs DEF number
    <3>2. v \in FieldValues(f, Values[Depth - m])
      BY <2>8, <3>1 DEF FieldValues
    <3>. HIDE DEF v
    <3>3. IsCall(a) /\ a.type = after.type /\ a.rest = after.rest
          /\ a.fields = [after.fields EXCEPT ![id] = v] /\ a.id = after.id
      <4>1. Put(a, after, id, v)
        BY <2>4, WithFieldIs
      <4>. HIDE DEF a
      <4>. QED  BY <4>1 DEF Put
    <3>4. ReplaceTop(a)
      BY <1>5, <1>10, <2>8 DEF v
    <3>. HIDE DEF a
    <3>5. Partial(c.type, [c.fields EXCEPT ![id] = v], Values[Depth - m])
      BY <1>2, <1>3, <3>2, PartialKeeps DEF f
    <3>6. CallLaid(a, Depth + 1 - m)
      <4>1. (Depth + 1 - m) - 1 = Depth - m
        BY <1>1, DepthIs DEF TopLaid
      <4>2. a.type = c.type /\ a.fields = [c.fields EXCEPT ![id] = v] /\ a.rest = after.rest
        BY <2>4, <3>3
      <4>3. Partial(a.type, a.fields, Values[(Depth + 1 - m) - 1])
        BY <3>5, <4>1, <4>2
      <4>4. /\ Depth + 1 - m \in Int /\ after.type \in DOMAIN Schema
            /\ after.rest \in Seq(Byte) /\ Len(after.rest) < 3 * (Depth + 1 - m)
        BY <2>5 DEF CallLaid
      <4>. QED  BY <2>4, <3>3, <4>2, <4>3, <4>4 DEF CallLaid
    <3>7. a.type = c.type /\ a.id = c.id
      BY <2>4, <3>3
    <3>. QED  BY <1>1, <3>4, <3>6, <3>7, ReplaceTyped
  <2>. QED  BY <2>6, <2>7, <2>8
<1>. QED  BY <1>9, <1>10

LEMMA FieldTyped ==
  ASSUME TypeInv, DecodeField
  PROVE  TypeInv'
<1>. DEFINE c == Last(stack)  h == DecodeFieldHeader(c.rest)  rest == From(c.rest, h.n)
<1>1. status = "decoding" /\ Same
  BY DEF DecodeField, Same
<1>2. c.rest \in Seq(Byte)
  BY <1>1, TopHolds DEF TopLaid, CallLaid
<1>3. Returned(h, c.rest) /\ (~Failed(h) => h.n >= 2)
  BY <1>2, HeaderReturned
<1>4. IF Failed(h) THEN Fail(h.error)
      ELSE IF h.value.id \in FieldIds(c.type) THEN Known(h.value.id, rest)
      ELSE Unknown(h.value.wireType, rest)
  BY DEF DecodeField, Top
<1>5. CASE Failed(h)
  <2>1. h.error \in Errors
    BY <1>3, <1>5 DEF Returned
  <2>2. status' = h.error /\ stack' = <<>> /\ result' = result
    BY <1>4, <1>5 DEF Fail
  <2>. HIDE DEF h
  <2>. QED  BY <1>1, <2>1, <2>2, FailTyped
<1>6. CASE ~Failed(h)
  <2>. DEFINE n == h.n  id == h.value.id  wt == h.value.wireType
  <2>1. n \in 1 .. Len(c.rest) /\ n >= 2
    BY <1>3, <1>6 DEF Returned
  <2>2. n \in 2 .. Len(c.rest) /\ n \in 1 .. Len(c.rest)
    BY <2>1
  <2>3. n \in 2 .. Len(Top.rest) /\ n \in 1 .. Len(Top.rest) /\ FieldIds(Top.type) = FieldIds(c.type)
        /\ rest = From(Top.rest, n)
    BY <2>2 DEF Top
  <2>4. IF id \in FieldIds(Top.type) THEN Known(id, From(Top.rest, n))
        ELSE Unknown(wt, From(Top.rest, n))
    BY <1>4, <1>6, <2>3
  <2>. HIDE DEF h, c, rest, n, id, wt
  <2>5. CASE id \in FieldIds(Top.type)
    BY <1>1, <2>3, <2>4, <2>5, KnownTyped
  <2>6. CASE id \notin FieldIds(Top.type)
    BY <1>1, <2>3, <2>4, <2>6, UnknownTyped
  <2>. QED  BY <2>5, <2>6
<1>. QED  BY <1>5, <1>6

\* What the top of the stack returns, and the call that gets it.
LEMMA Returning ==
  ASSUME TypeInv, status = "decoding", NEW c, NEW m, TopLaid(c, m), ~Missing(c.type, c.fields)
  PROVE  Assembled(c.type, c.fields) \in Values[Depth + 1 - m][c.type]
<1>. DEFINE n == Depth + 1 - m
<1>1. CallLaid(c, n)
  BY DEF TopLaid
<1>. HIDE DEF n
<1>2. n \in Nat \ {0}
  BY <1>1, CallLaidAt
<1>3. c.type \in DOMAIN Schema /\ Partial(c.type, c.fields, Values[n - 1])
  BY <1>1 DEF CallLaid
<1>4. IsValue(c.type, Assembled(c.type, c.fields), Values[n - 1])
  BY <1>3, CompleteIs
<1>5. Assembled(c.type, c.fields) \in Values[n][c.type]
  BY <1>2, <1>3, <1>4, ValuesAre
<1>. QED  BY <1>5 DEF n

\* d, once the call c has returned a block.
Resumed(d, c, block) == WithField(d, c.id, Append(d.fields[c.id], block))

LEMMA CallerTyped ==
  ASSUME NEW n \in Nat \ {0}, NEW d, CallLaid(d, n + 1), NEW c, NestedIn(c, d),
         NEW block \in Values[n][c.type]
  PROVE  /\ CallLaid(Resumed(d, c, block), n + 1)
         /\ Put(Resumed(d, c, block), d, c.id, Append(d.fields[c.id], block))
<1>. DEFINE id == c.id  v == Append(d.fields[id], block)  a == WithField(d, id, v)
            f == Schema[d.type][id]  nested == Values[n]
<1>1. /\ IsCall(d) /\ d.type \in DOMAIN Schema /\ d.rest \in Seq(Byte) /\ Len(d.rest) < 3 * (n + 1)
      /\ Partial(d.type, d.fields, Values[(n + 1) - 1])
  BY DEF CallLaid
<1>2. id \in FieldIds(d.type) /\ f.kind = "list" /\ f.arg = c.type
  BY DEF NestedIn
<1>3. (n + 1) - 1 = n
  OBVIOUS
<1>4. Partial(d.type, d.fields, nested)
  BY <1>1, <1>3
<1>5. FieldValues(f, nested) = Seq(nested[c.type])
  BY <1>2 DEF FieldValues
<1>6. Blank(d.type)[id] = <<>>
  BY <1>1, <1>2, BlankIs
<1>. HIDE DEF id, f
<1>7. d.fields[id] \in Seq(nested[c.type])
  <2>1. d.fields[id] = Blank(d.type)[id] \/ d.fields[id] \in FieldValues(f, nested)
    BY <1>2, <1>4 DEF Partial, f
  <2>2. <<>> \in Seq(nested[c.type])
    OBVIOUS
  <2>. QED  BY <2>1, <2>2, <1>5, <1>6
<1>8. v \in FieldValues(f, nested)
  <2>. DEFINE X == nested[c.type]  w == d.fields[id]
  <2>1. w \in Seq(X) /\ block \in X /\ FieldValues(f, nested) = Seq(X)
    BY <1>5, <1>7
  <2>2. v = Append(w, block)
    OBVIOUS
  <2>. HIDE DEF X, w, v
  <2>. QED  BY <2>1, <2>2
<1>. HIDE DEF v
<1>9. Partial(d.type, [d.fields EXCEPT ![id] = v], nested)
  BY <1>1, <1>2, <1>4, <1>8, PartialKeeps DEF f
<1>10. Put(a, d, id, v)
  BY <1>1, WithFieldIs
<1>. HIDE DEF a
<1>11. /\ IsCall(a) /\ a.type = d.type /\ a.rest = d.rest
       /\ a.fields = [d.fields EXCEPT ![id] = v] /\ a.id = d.id
  BY <1>10 DEF Put
<1>12. Partial(a.type, a.fields, Values[(n + 1) - 1])
  BY <1>3, <1>9, <1>11
<1>13. CallLaid(a, n + 1)
  BY <1>1, <1>11, <1>12 DEF CallLaid
<1>. QED  BY <1>10, <1>13 DEF Resumed, a, v, id

LEMMA EndTyped ==
  ASSUME TypeInv, EndOfFields
  PROVE  TypeInv'
<1>. DEFINE c == Last(stack)  m == Len(stack)  block == Assembled(c.type, c.fields)
            d == Last(Front(stack))  a == Resumed(d, c, block)
            u == Append(Front(Front(stack)), a)
<1>1. status = "decoding" /\ Same
  BY DEF EndOfFields, Same
<1>2. TopLaid(c, m)
  BY <1>1, TopHolds
<1>3. IF Missing(c.type, c.fields) THEN Fail("MissingRequiredField")
      ELSE IF m > 1 THEN stack' = u /\ status' = status /\ result' = result
      ELSE Return(block)
  BY DEF EndOfFields, Top, Resumed
<1>. HIDE DEF c, m, u
<1>4. CASE Missing(c.type, c.fields)
  <2>1. status' = "MissingRequiredField" /\ stack' = <<>> /\ result' = result
    BY <1>3, <1>4 DEF Fail
  <2>2. "MissingRequiredField" \in Errors
    BY DEF Errors
  <2>. QED  BY <1>1, <2>1, <2>2, FailTyped
<1>5. CASE ~Missing(c.type, c.fields) /\ m > 1
  <2>. DEFINE n == Depth + 1 - m
  <2>1. block \in Values[n][c.type]
    BY <1>1, <1>2, <1>5, Returning
  <2>2. m = Len(stack) /\ m \in Nat /\ StackLaid(stack, type) /\ c = stack[m] /\ CallLaid(c, n)
    BY <1>2 DEF TopLaid
  <2>3. IsStack(stack) /\ Len(stack) > 1
    BY <1>5, <2>2 DEF StackLaid
  <2>4. d = stack[m - 1]
    BY <2>2, <2>3, PoppedIs
  <2>. HIDE DEF n, block, d
  <2>5. n \in Nat \ {0}
    BY <2>2, CallLaidAt
  <2>6. m - 1 \in 1 .. Len(stack) - 1 /\ m - 1 \in 1 .. Len(stack) /\ (m - 1) + 1 = m
        /\ Depth + 1 - (m - 1) = n + 1 /\ Depth + 2 - m = n + 1
    BY <1>5, <2>2, DepthIs DEF n
  <2>7. NestedIn(c, d) /\ CallLaid(d, n + 1)
    BY <2>2, <2>4, <2>6 DEF StackLaid
  <2>8. CallLaid(a, n + 1) /\ a.type = d.type /\ a.id = d.id
    <3>1. CallLaid(a, n + 1) /\ Put(a, d, c.id, Append(d.fields[c.id], block))
      BY <2>1, <2>5, <2>7, CallerTyped
    <3>. QED  BY <3>1 DEF Put
  <2>. HIDE DEF a
  <2>9. /\ CallLaid(a, Depth + 2 - Len(stack))
        /\ a.type = stack[Len(stack) - 1].type /\ a.id = stack[Len(stack) - 1].id
    BY <2>2, <2>4, <2>6, <2>8
  <2>10. StackLaid(u, type)
    BY <2>2, <2>3, <2>9, StackPopped DEF u
  <2>11. u # <<>>
    BY <2>3, PoppedIs DEF u
  <2>12. stack' = u /\ status' = status /\ result' = result
    BY <1>3, <1>5
  <2>. QED  BY <1>1, <2>10, <2>11, <2>12, StackTyped
<1>6. CASE ~Missing(c.type, c.fields) /\ ~(m > 1)
  <2>1. m = 1 /\ c = stack[m] /\ StackLaid(stack, type) /\ stack # <<>>
    BY <1>2, <1>6 DEF TopLaid
  <2>2. c.type = type
    BY <2>1 DEF StackLaid
  <2>3. Depth + 1 - m = Depth
    BY <2>1, DepthIs
  <2>4. IsBlock(type, block)
    BY <1>1, <1>2, <1>6, <2>2, <2>3, Returning DEF IsBlock
  <2>. HIDE DEF block
  <2>5. status' = "ok" /\ result' = block /\ stack' = <<>>
    BY <1>3, <1>6 DEF Return
  <2>6. TypeAt(type, flagged, body, <<>>, "ok", summary, block)
    BY <1>1, <2>4, EmptyStack DEF TypeInv, TypeAt
  <2>. QED  BY <1>1, <2>5, <2>6 DEF TypeInv, Same
<1>. QED  BY <1>4, <1>5, <1>6

LEMMA StripTyped ==
  ASSUME TypeInv, StripSummary
  PROVE  TypeInv'
<1>. DEFINE s == DecodeSummary(body)
<1>1. /\ status = "called" /\ type' = type /\ flagged' = flagged /\ stack' = stack /\ result' = result
      /\ IF ~flagged THEN status' = "stripped" /\ body' = body /\ summary' = summary
         ELSE IF Failed(s) THEN status' = s.error /\ body' = body /\ summary' = summary
         ELSE status' = "stripped" /\ body' = From(body, s.n) /\ summary' = s.value
  BY DEF StripSummary
<1>2. /\ type \in DOMAIN Schema \cup Untyped /\ flagged \in BOOLEAN
      /\ body \in Seq(Byte) /\ Len(body) < Word /\ stack = <<>> /\ summary = None
  BY <1>1 DEF TypeInv, TypeAt
<1>3. Returned(s, body) /\ (~Failed(s) => s.value \in Texts)
  BY <1>2, SummaryReturned
<1>4. \A x \in Texts : x # None
  BY BlockTypesAssumption DEF Texts
<1>. HIDE DEF s
<1>5. CASE ~flagged
  <2>1. TypeAt(type, flagged, body, <<>>, "stripped", None, result)
    BY <1>2, <1>5, EmptyStack DEF TypeAt
  <2>. QED  BY <1>1, <1>2, <1>5, <2>1 DEF TypeInv
<1>6. CASE flagged /\ Failed(s)
  <2>1. s.error \in Errors
    BY <1>3, <1>6 DEF Returned
  <2>2. TypeAt(type, flagged, body, <<>>, s.error, None, result)
    BY <1>2, <2>1, EmptyStack DEF TypeAt, Errors
  <2>. QED  BY <1>1, <1>2, <1>6, <2>2 DEF TypeInv
<1>7. CASE flagged /\ ~Failed(s)
  <2>. DEFINE x == From(body, s.n)  v == s.value
  <2>1. s.n \in 1 .. Len(body)
    BY <1>3, <1>7 DEF Returned
  <2>2. x \in Seq(Byte) /\ Len(x) = Len(body) - s.n
    BY <1>2, <2>1, FromIs
  <2>3. Len(x) < Word
    <3>. DEFINE l == Len(body)  k == Len(x)
    <3>1. l \in Nat /\ k = l - s.n /\ s.n \in 1 .. l /\ l < Word
      BY <1>2, <2>1, <2>2
    <3>. HIDE DEF l, k
    <3>2. k < Word
      BY <3>1, VarintAssumption
    <3>. QED  BY <3>2 DEF k
  <2>4. v \in Texts /\ v # None
    BY <1>3, <1>4, <1>7
  <2>5. status' = "stripped" /\ body' = x /\ summary' = v
    BY <1>1, <1>7
  <2>. HIDE DEF x, v
  <2>6. TypeAt(type, flagged, x, <<>>, "stripped", v, result)
    BY <1>2, <1>7, <2>2, <2>3, <2>4, EmptyStack DEF TypeAt
  <2>. QED  BY <1>1, <1>2, <2>5, <2>6 DEF TypeInv
<1>. QED  BY <1>2, <1>5, <1>6, <1>7

LEMMA UntypedTyped ==
  ASSUME TypeInv, DecodeUntyped
  PROVE  TypeInv'
<1>. DEFINE v == IF type = "End" THEN <<>> ELSE body
<1>1. /\ status = "stripped" /\ type \in Untyped /\ status' = "ok" /\ result' = v /\ stack' = <<>>
      /\ Same
  BY DEF DecodeUntyped, Return, Same
<1>2. type \notin DOMAIN Schema
  BY <1>1, RoundTripAssumption DEF Schema
<1>3. v \in Seq(Byte) /\ (type = "End" => v = <<>>)
  BY DEF TypeInv, TypeAt
<1>. HIDE DEF v
<1>4. TypeAt(type, flagged, body, <<>>, "ok", summary, v)
  BY <1>1, <1>2, <1>3, EmptyStack DEF TypeInv, TypeAt
<1>. QED  BY <1>1, <1>4 DEF TypeInv, Same

\* The first call.
LEMMA CalledLaid ==
  ASSUME NEW t \in DOMAIN Schema, NEW bytes \in Seq(Byte), Len(bytes) < Word
  PROVE  StackLaid(<<Call(t, bytes, 0)>>, t)
<1>. DEFINE a == Call(t, bytes, 0)  u == <<a>>
<1>1. IsCall(a) /\ a.type = t /\ a.rest = bytes /\ a.fields = Blank(t) /\ a.id = 0
  BY CallIs
<1>. HIDE DEF a
<1>2. CallLaid(a, Depth)
  <2>1. Len(bytes) < 3 * Depth /\ Depth \in Int
    <3>. DEFINE l == Len(bytes)
    <3>1. l \in Nat /\ l < Word
      OBVIOUS
    <3>. HIDE DEF l
    <3>2. l < 3 * Depth
      BY <3>1, DepthIs, VarintAssumption
    <3>. QED  BY <3>2, DepthIs DEF l
  <2>. QED  BY <1>1, <2>1, BlankPartial DEF CallLaid
<1>3. IsStack(u) /\ Len(u) = 1 /\ u[1] = a
  <2>1. u \in Seq({a}) /\ Len(u) = 1 /\ u[1] = a
    OBVIOUS
  <2>. HIDE DEF u
  <2>. QED  BY <2>1 DEF IsStack
<1>4. Depth + 1 - 1 = Depth
  BY DepthIs
<1>. HIDE DEF u
<1>5. \A k \in 1 .. Len(u) : CallLaid(u[k], Depth + 1 - k)
  <2> SUFFICES ASSUME NEW k \in 1 .. Len(u)
               PROVE  CallLaid(u[k], Depth + 1 - k)
    OBVIOUS
  <2>1. k = 1
    BY <1>3
  <2>. QED  BY <2>1, <1>2, <1>3, <1>4
<1>6. StackLaid(u, t)
  BY <1>1, <1>3, <1>5 DEF StackLaid
<1>. QED  BY <1>6 DEF a, u

LEMMA TypedTyped ==
  ASSUME TypeInv, DecodeTyped
  PROVE  TypeInv'
<1>. DEFINE u == <<Call(type, body, 0)>>
<1>1. /\ status = "stripped" /\ type \notin Untyped /\ status' = "decoding" /\ stack' = u
      /\ result' = result /\ Same
  BY DEF DecodeTyped, Same
<1>2. type \in DOMAIN Schema /\ body \in Seq(Byte) /\ Len(body) < Word
  BY <1>1 DEF TypeInv, TypeAt
<1>3. StackLaid(u, type)
  BY <1>2, CalledLaid
<1>4. u # <<>>
  OBVIOUS
<1>. HIDE DEF u
<1>5. TypeAt(type, flagged, body, u, "decoding", summary, result)
  BY <1>1, <1>2, <1>3, <1>4 DEF TypeInv, TypeAt
<1>. QED  BY <1>1, <1>5 DEF TypeInv, Same

LEMMA DecodeTypes ==
  ASSUME TypeInv, DecoderNext
  PROVE  TypeInv'
BY StripTyped, UntypedTyped, TypedTyped, FieldTyped, EndTyped DEF DecoderNext
-----------------------------------------------------------------------------
(* Encodings are bytes.                                                    *)

\* Sequences behind each other, as a chain.
LEMMA FlatIs ==
  ASSUME NEW X, NEW s, s \in Seq(Seq(X))
  PROVE  \E p : /\ Chained(X, p, s, Len(s)) /\ FlattenSeq(s) = p[Len(s)]
                /\ FlattenSeq(s) \in Seq(X)
<1>. DEFINE n == Len(s)
<1>1. n \in Nat /\ s \in [1 .. n -> Seq(X)] /\ s = [i \in 1 .. n |-> s[i]]
  OBVIOUS
<1>. HIDE DEF n
<1>2. PICK p : Chained(X, p, s, n)
  BY <1>1, ChainExists
<1>3. n \in 0 .. n
  BY <1>1
<1>4. FirstOf(X, s, p, s, n, n)
  BY <1>1, <1>2, <1>3, Zenon DEF FirstOf
<1>5. FlattenSeq(s) = p[n]
  BY <1>4, FlattenIs
<1>6. p[n] \in Seq(X)
  BY <1>2, <1>3 DEF Chained
<1>. QED  BY <1>2, <1>5, <1>6 DEF n

LEMMA FlatTyped ==
  ASSUME NEW s \in Seq(Seq(Byte))
  PROVE  FlattenSeq(s) \in Seq(Byte)
BY FlatIs

LEMMA NumberBytes ==
  ASSUME NEW v \in Nat
  PROVE  EncodeVarint[v] \in Seq(Byte) /\ Len(EncodeVarint[v]) \in Nat \ {0}
BY EncodeSays DEF Says

LEMMA FieldBytes ==
  ASSUME NEW id \in Nat
  PROVE  /\ \A v \in Nat : EncodeVarintField(id, v) \in Seq(Byte)
         /\ \A x \in Seq(Byte) : /\ EncodeBytesField(id, x) \in Seq(Byte)
                                 /\ EncodeNestedField(id, x) \in Seq(Byte)
<1>1. \A v \in Nat : EncodeVarint[v] \in Seq(Byte)
  BY NumberBytes
<1>2. Scalar \in Nat /\ Bytes \in Nat /\ Nested \in Nat
  BY DEF Scalar, Bytes, Nested
<1>3. ASSUME NEW v \in Nat
      PROVE  EncodeVarintField(id, v) \in Seq(Byte)
  BY <1>1, <1>2, JoinIs DEF EncodeVarintField
<1>4. ASSUME NEW x \in Seq(Byte)
      PROVE  EncodeBytesField(id, x) \in Seq(Byte) /\ EncodeNestedField(id, x) \in Seq(Byte)
  <2>1. Len(x) \in Nat
    OBVIOUS
  <2>. QED  BY <2>1, <1>1, <1>2, JoinIs DEF EncodeBytesField, EncodeNestedField
<1>. QED  BY <1>3, <1>4

\* enc encodes the values of blocks as bytes.
Encodes(enc, values) ==
  \A t \in DOMAIN Schema : \A v \in values[t] : enc[t][v] \in Seq(Byte)

LEMMA FieldPartsTyped ==
  ASSUME NEW t \in DOMAIN Schema, NEW id \in FieldIds(t), NEW values,
         NEW v \in FieldValues(Schema[t][id], values), NEW enc, Encodes(enc, values)
  PROVE  FieldParts(Schema[t][id], id, v, enc) \in Seq(Seq(Byte))
<1>. DEFINE f == Schema[t][id]
<1>1. FieldLaid(t, id, f) /\ id \in Nat
  BY SchemaIs DEF SchemaLaid
<1>2. v \in FieldValues(f, values)
  OBVIOUS
<1>. HIDE DEF f
<1>3. CASE f.kind = "list"
  <2>1. v \in Seq(values[f.arg]) /\ f.arg \in DOMAIN Schema
    BY <1>1, <1>2, <1>3 DEF FieldValues, FieldLaid
  <2>2. \A i \in 1 .. Len(v) : enc[f.arg][v[i]] \in Seq(Byte)
    BY <2>1 DEF Encodes
  <2>3. \A i \in 1 .. Len(v) : EncodeNestedField(id, enc[f.arg][v[i]]) \in Seq(Byte)
    BY <2>2, <1>1, FieldBytes
  <2>. DEFINE s == [i \in DOMAIN v |-> EncodeNestedField(id, enc[f.arg][v[i]])]
  <2>4. s \in Seq(Seq(Byte))
    <3>1. DOMAIN v = 1 .. Len(v) /\ Len(v) \in Nat
      BY <2>1
    <3>2. \A i \in 1 .. Len(v) : s[i] \in Seq(Byte)
      BY <2>3, <3>1
    <3>3. s = [i \in 1 .. Len(v) |-> s[i]]
      BY <3>1
    <3>. HIDE DEF s
    <3>. QED  BY <3>1, <3>2, <3>3
  <2>5. FieldParts(f, id, v, enc) = s
    BY <1>3 DEF FieldParts
  <2>. QED  BY <2>4, <2>5 DEF f
<1>4. CASE f.kind # "list" /\ v = None
  <2>1. FieldParts(f, id, v, enc) = <<>>
    BY <1>4 DEF FieldParts
  <2>. QED  BY <2>1 DEF f
<1>5. CASE f.kind # "list" /\ v # None
  <2>1. v \in PlainValues(f)
    BY <1>2, <1>5 DEF FieldValues
  <2>2. PayloadIn(IsNumber(f.kind), v)
    BY <1>1, <1>5, <2>1, KeptIs
  <2>3. CASE IsNumber(f.kind)
    <3>1. v \in Nat
      BY <2>2, <2>3, VarintAssumption DEF PayloadIn
    <3>2. EncodeVarintField(id, v) \in Seq(Byte)
      BY <1>1, <3>1, FieldBytes
    <3>3. FieldParts(f, id, v, enc) = <<EncodeVarintField(id, v)>>
      BY <1>5, <2>3 DEF FieldParts
    <3>. QED  BY <3>2, <3>3 DEF f
  <2>4. CASE ~IsNumber(f.kind)
    <3>1. v \in Seq(Byte)
      BY <2>2, <2>4 DEF PayloadIn
    <3>2. EncodeBytesField(id, v) \in Seq(Byte)
      BY <1>1, <3>1, FieldBytes
    <3>3. FieldParts(f, id, v, enc) = <<EncodeBytesField(id, v)>>
      BY <1>5, <2>4 DEF FieldParts
    <3>. QED  BY <3>2, <3>3 DEF f
  <2>. QED  BY <2>3, <2>4
<1>. QED  BY <1>3, <1>4, <1>5

\* The parts of a block, field by field.
ByField(t, v, enc) == [id \in FieldIds(t) |-> FieldParts(Schema[t][id], id, v[id], enc)]

LEMMA PartsAre ==
  ASSUME NEW t \in DOMAIN Schema, NEW values, NEW v, IsValue(t, v, values),
         NEW enc, Encodes(enc, values)
  PROVE  \E p : /\ Chained(Seq(Byte), p, ByField(t, v, enc), Len(Schema[t]))
                /\ Parts(t, v, enc) = p[Len(Schema[t])]
                /\ Parts(t, v, enc) \in Seq(Seq(Byte))
<1>. DEFINE n == Len(Schema[t])  S == ByField(t, v, enc)
<1>1. n \in Nat /\ FieldIds(t) = 1 .. n
  BY SchemaIs DEF SchemaLaid
<1>2. \A id \in FieldIds(t) : S[id] \in Seq(Seq(Byte))
  BY FieldPartsTyped DEF ByField, IsValue
<1>3. Parts(t, v, enc) = FlattenSeq(S)
  BY DEF Parts, ByField
<1>4. S = [id \in 1 .. n |-> S[id]]
  BY <1>1 DEF ByField
<1>. HIDE DEF S, n
<1>5. S \in Seq(Seq(Seq(Byte))) /\ Len(S) = n
  BY <1>1, <1>2, <1>4
<1>6. PICK p : /\ Chained(Seq(Byte), p, S, Len(S)) /\ FlattenSeq(S) = p[Len(S)]
               /\ FlattenSeq(S) \in Seq(Seq(Byte))
  BY <1>5, FlatIs
<1>. QED  BY <1>3, <1>5, <1>6 DEF S, n

LEMMA EncodeUnfolds ==
  ASSUME NEW n \in Nat \ {0}, NEW t \in DOMAIN Schema, NEW v \in Values[n][t]
  PROVE  Encode[n][t][v] = FlattenSeq(Parts(t, v, Encode[n - 1]))
<1>1. n \in Nat
  OBVIOUS
<1>2. Encode[n] = [u \in DOMAIN Schema |->
                     [w \in Values[n][u] |-> FlattenSeq(Parts(u, w, Encode[n - 1]))]]
  BY <1>1, EncodeIs, Zenon DEF EncodeBy
<1>. QED  BY <1>2

\* Every value has an encoding.
LEMMA EncodeIsBytes ==
  ASSUME NEW n \in Nat
  PROVE  Encodes(Encode[n], Values[n])
<1>. DEFINE T == {k \in Nat : Encodes(Encode[k], Values[k])}
<1>1. 0 \in T
  BY NoValues DEF Encodes
<1>2. ASSUME NEW k \in Nat, k \in T
      PROVE  k + 1 \in T
  <2>1. k + 1 \in Nat \ {0} /\ (k + 1) - 1 = k
    OBVIOUS
  <2>. DEFINE m == k + 1
  <2>. HIDE DEF m
  <2>2. m \in Nat \ {0} /\ m - 1 = k
    BY <2>1 DEF m
  <2>3. ASSUME NEW t \in DOMAIN Schema, NEW v \in Values[m][t]
        PROVE  Encode[m][t][v] \in Seq(Byte)
    <3>1. Encode[m][t][v] = FlattenSeq(Parts(t, v, Encode[m - 1]))
      BY <2>2, EncodeUnfolds
    <3>2. IsValue(t, v, Values[m - 1])
      BY <2>2, ValuesAre
    <3>3. Encodes(Encode[k], Values[k])
      BY <1>2
    <3>4. Parts(t, v, Encode[k]) \in Seq(Seq(Byte))
      BY <3>2, <3>3, <2>2, PartsAre
    <3>. QED  BY <2>2, <3>1, <3>4, FlatTyped
  <2>. QED  BY <2>2, <2>3 DEF Encodes, m
<1>3. Nat \subseteq T
  <2>. HIDE DEF T
  <2>. QED  BY <1>1, <1>2, NatUpward
<1>. QED  BY <1>3
-----------------------------------------------------------------------------
(* One field, read from the front of some bytes.                           *)

LEMMA AssocIs ==
  ASSUME NEW a \in Seq(Byte), NEW b \in Seq(Byte), NEW c \in Seq(Byte)
  PROVE  (a \o b) \o c = a \o (b \o c)
BY ConcatAssociative

\* w is a field: its id and wire type, and a payload that says x, as a number or as bytes.
Shaped(w, id, wt, scalar, x) ==
  \E pay \in Seq(Byte) :
    /\ w = (EncodeVarint[id] \o EncodeVarint[wt]) \o pay
    /\ id \in 0 .. Word - 1 /\ wt \in WireType /\ scalar \in BOOLEAN
    /\ IF scalar THEN Stops(pay, Len(pay)) /\ ValueOf(pay, Len(pay)) = x
       ELSE x \in Seq(Byte) /\ pay = EncodeVarint[Len(x)] \o x

\* Where its pieces are.
Pieces(w, e, f, pay) ==
  /\ w \in Seq(Byte) /\ e \in Seq(Byte) /\ f \in Seq(Byte) /\ pay \in Seq(Byte)
  /\ Len(e) \in Nat \ {0} /\ Len(f) \in Nat \ {0} /\ Len(pay) \in Nat
  /\ Len(w) = Len(e) + Len(f) + Len(pay)
  /\ \A i \in 1 .. Len(e) : w[i] = e[i]
  /\ \A i \in 1 .. Len(f) : w[Len(e) + i] = f[i]
  /\ \A i \in 1 .. Len(pay) : w[Len(e) + Len(f) + i] = pay[i]

LEMMA PiecesAre ==
  ASSUME NEW e \in Seq(Byte), NEW f \in Seq(Byte), NEW pay \in Seq(Byte), e # <<>>, f # <<>>
  PROVE  Pieces((e \o f) \o pay, e, f, pay)
<1>. DEFINE g == e \o f  w == g \o pay  a == Len(e)  b == Len(f)  c == Len(pay)
<1>1. a \in Nat \ {0} /\ b \in Nat \ {0} /\ c \in Nat
  OBVIOUS
<1>2. g \in Seq(Byte) /\ Len(g) = a + b /\ (\A i \in 1 .. a : g[i] = e[i])
      /\ \A i \in 1 .. b : g[a + i] = f[i]
  BY JoinIs
<1>. HIDE DEF g
<1>3. w \in Seq(Byte) /\ Len(w) = Len(g) + c /\ (\A i \in 1 .. Len(g) : w[i] = g[i])
      /\ \A i \in 1 .. c : w[Len(g) + i] = pay[i]
  BY <1>2, JoinIs
<1>. HIDE DEF w, a, b, c
<1>4. Len(w) = a + b + c /\ \A i \in 1 .. c : w[a + b + i] = pay[i]
  BY <1>1, <1>2, <1>3
<1>5. (\A i \in 1 .. a : i \in 1 .. Len(g)) /\ \A i \in 1 .. b : a + i \in 1 .. Len(g)
  BY <1>1, <1>2
<1>6. (\A i \in 1 .. a : w[i] = e[i]) /\ \A i \in 1 .. b : w[a + i] = f[i]
  BY <1>2, <1>3, <1>5
<1>7. Pieces(w, e, f, pay)
  BY <1>1, <1>3, <1>4, <1>6 DEF Pieces, a, b, c
<1>. QED  BY <1>7 DEF w, g

LEMMA WireTypesAre == WireType \subseteq 0 .. Word - 1 /\ WireType \subseteq Nat
BY SmallNumbers DEF WireType, Scalar, Bytes, Nested

LEMMA ShapedPieces ==
  ASSUME NEW w, NEW id, NEW wt, NEW scalar, NEW x, Shaped(w, id, wt, scalar, x)
  PROVE  \E pay \in Seq(Byte) :
           /\ Pieces(w, EncodeVarint[id], EncodeVarint[wt], pay)
           /\ id \in 0 .. Word - 1 /\ wt \in 0 .. Word - 1 /\ wt \in WireType
           /\ scalar \in BOOLEAN
           /\ IF scalar THEN Stops(pay, Len(pay)) /\ ValueOf(pay, Len(pay)) = x
              ELSE x \in Seq(Byte) /\ pay = EncodeVarint[Len(x)] \o x
<1>1. PICK pay \in Seq(Byte) :
        /\ w = (EncodeVarint[id] \o EncodeVarint[wt]) \o pay
        /\ id \in 0 .. Word - 1 /\ wt \in WireType /\ scalar \in BOOLEAN
        /\ IF scalar THEN Stops(pay, Len(pay)) /\ ValueOf(pay, Len(pay)) = x
           ELSE x \in Seq(Byte) /\ pay = EncodeVarint[Len(x)] \o x
  BY DEF Shaped
<1>2. wt \in 0 .. Word - 1 /\ wt \in Nat /\ id \in Nat
  BY <1>1, WireTypesAre, VarintAssumption
<1>. DEFINE e == EncodeVarint[id]  f == EncodeVarint[wt]
<1>3. e \in Seq(Byte) /\ Len(e) # 0 /\ f \in Seq(Byte) /\ Len(f) # 0
  BY <1>2, NumberBytes
<1>. HIDE DEF e, f
<1>4. e # <<>> /\ f # <<>>
  BY <1>3
<1>5. Pieces((e \o f) \o pay, e, f, pay)
  BY <1>3, <1>4, PiecesAre
<1>6. Pieces(w, e, f, pay)
  BY <1>1, <1>5 DEF e, f
<1>. QED  BY <1>1, <1>2, <1>6 DEF e, f

\* A number is read as what it says, whatever follows it.
LEMMA NumberRead ==
  ASSUME NEW pay \in Seq(Byte), Stops(pay, Len(pay)), NEW buf \in Seq(Byte), Alike(buf, pay)
  PROVE  IF Len(pay) <= Len(buf)
         THEN DecodeVarint(buf) = Ok(ValueOf(pay, Len(pay)), Len(pay))
         ELSE Failed(DecodeVarint(buf))
<1>. DEFINE n == Len(pay)  l == Len(buf)
<1>1. n \in Nat /\ l \in Nat
  OBVIOUS
<1>2. n \in 1 .. n /\ n <= MaxVarintBytes /\ ~Continues(pay[n]) /\ \A i \in 1 .. n - 1 : Continues(pay[i])
  BY DEF Stops
<1>3. \A i \in 1 .. l : i <= n => buf[i] = pay[i]
  BY DEF Alike
<1>4. n \in 0 .. n
  BY <1>1
<1>5. PICK g : Numbers(pay, n, g)
  BY <1>4, NumbersExist
<1>6. ValueOf(pay, n) = g[1] % Word
  BY <1>4, <1>5, ValueIs
<1>. HIDE DEF n, l
<1>7. CASE n <= l
  <2>1. n \in 1 .. l /\ n \in 0 .. l /\ \A i \in 1 .. n : buf[i] = pay[i]
    BY <1>1, <1>2, <1>3, <1>7
  <2>2. Stops(buf, n)
    BY <1>1, <1>2, <2>1 DEF Stops, l
  <2>3. Numbers(buf, n, g)
    BY <1>5, <2>1 DEF Numbers
  <2>4. ValueOf(buf, n) = g[1] % Word
    BY <2>1, <2>3, ValueIs DEF l
  <2>5. DecodeVarint(buf) = Ok(ValueOf(buf, n), n)
    BY <2>2, BothRead
  <2>. QED  BY <1>6, <1>7, <2>4, <2>5 DEF n, l
<1>8. CASE ~(n <= l)
  <2>1. \A i \in 1 .. l : i \in 1 .. n - 1 /\ buf[i] = pay[i]
    BY <1>1, <1>3, <1>8
  <2>2. \A k : ~Stops(buf, k)
    BY <1>2, <2>1 DEF Stops, l
  <2>3. DecodeVarint(buf) \in {Err("VarintTooLong"), Err("UnexpectedEof")}
    BY <2>2, NeitherReads
  <2>4. Failed(DecodeVarint(buf))
    BY <2>3 DEF Failed, Err
  <2>. QED  BY <1>8, <2>4 DEF n, l
<1>. QED  BY <1>7, <1>8

\* Bytes behind their length.
LEMMA PrefixedRead ==
  ASSUME NEW x \in Seq(Byte), Len(x) < Word, NEW buf \in Seq(Byte),
         Alike(buf, EncodeVarint[Len(x)] \o x)
  PROVE  LET len == DecodeVarint(buf)  n == Len(EncodeVarint[Len(x)] \o x) IN
         IF n <= Len(buf)
         THEN /\ ~Failed(len) /\ len.n + len.value = n /\ n \in 1 .. Len(buf)
              /\ SubSeq(buf, len.n + 1, len.n + len.value) = x
         ELSE Failed(len) \/ len.n + len.value > Len(buf)
<1>. DEFINE k == Len(x)  e == EncodeVarint[k]  d == Len(e)  pay == e \o x  n == Len(pay)
            l == Len(buf)  len == DecodeVarint(buf)
<1>1. k \in 0 .. Word - 1 /\ k \in Nat /\ l \in Nat
  BY VarintAssumption
<1>2. e \in Seq(Byte) /\ d \in Nat \ {0}
  BY <1>1, NumberBytes
<1>. HIDE DEF e
<1>3. n = d + k /\ (\A i \in 1 .. d : pay[i] = e[i]) /\ \A i \in 1 .. k : pay[d + i] = x[i]
  BY <1>2, JoinIs
<1>4. \A i \in 1 .. l : i <= n => buf[i] = pay[i]
  BY DEF Alike, e
<1>. HIDE DEF k, d, pay, n, l
<1>5. Alike(buf, e)
  <2>1. \A i \in 1 .. l : i <= d => i <= n /\ i \in 1 .. d
    BY <1>1, <1>2, <1>3
  <2>. QED  BY <2>1, <1>3, <1>4 DEF Alike, l, d
<1>6. CASE d <= l
  <2>1. len = Ok(k, d)
    BY <1>1, <1>5, <1>6, WordArrives DEF e, d, l
  <2>2. ~Failed(len) /\ len.n = d /\ len.value = k
    BY <2>1 DEF Ok, Failed
  <2>. HIDE DEF len
  <2>3. CASE n <= l
    <3>1. n \in 1 .. l
      BY <1>1, <1>2, <1>3, <2>3
    <3>. DEFINE y == SubSeq(buf, d + 1, d + k)
    <3>2. y \in Seq(Byte) /\ Len(y) = k /\ \A i \in 1 .. k : y[i] = buf[d + i]
      <4>1. d + k <= Len(buf) /\ d + 1 \in Nat /\ d + k \in Nat /\ k = (d + k) - (d + 1) + 1
        BY <1>1, <1>2, <1>3, <2>3 DEF l
      <4>. QED  BY <4>1, <1>1, <1>2
    <3>3. \A i \in 1 .. k : d + i \in 1 .. l /\ d + i <= n
      BY <1>1, <1>2, <1>3, <2>3
    <3>4. \A i \in 1 .. k : y[i] = x[i]
      BY <1>3, <1>4, <3>2, <3>3
    <3>. HIDE DEF y
    <3>5. y = x
      BY <3>2, <3>4 DEF k
    <3>. QED  BY <1>3, <2>2, <2>3, <3>1, <3>5 DEF len, n, pay, e, k, l, y
  <2>4. CASE ~(n <= l)
    <3>1. len.n + len.value > l
      BY <1>1, <1>2, <1>3, <2>2, <2>4
    <3>. QED  BY <2>4, <3>1 DEF len, n, pay, e, k, l
  <2>. QED  BY <2>3, <2>4
<1>7. CASE ~(d <= l)
  <2>1. l < d /\ ~(n <= l)
    BY <1>1, <1>2, <1>3, <1>7
  <2>2. len \in {Err("VarintTooLong"), Err("UnexpectedEof")}
    BY <1>1, <1>5, <2>1, WordBreaks DEF e, d, l
  <2>3. Failed(len)
    BY <2>2 DEF Failed, Err
  <2>. HIDE DEF len
  <2>. QED  BY <2>1, <2>3 DEF len, n, pay, e, k, l
<1>. QED  BY <1>6, <1>7

LEMMA BytesRead ==
  ASSUME NEW x \in Seq(Byte), Len(x) < Word, NEW pay, pay = EncodeVarint[Len(x)] \o x,
         NEW buf \in Seq(Byte), Alike(buf, pay)
  PROVE  IF Len(pay) <= Len(buf)
         THEN DecodeBytesValue(buf) = Ok(x, Len(pay)) /\ Len(pay) \in 1 .. Len(buf)
         ELSE Failed(DecodeBytesValue(buf))
<1>. DEFINE len == DecodeVarint(buf)  n == Len(pay)  r == DecodeBytesValue(buf)
<1>1. IF n <= Len(buf)
      THEN /\ ~Failed(len) /\ len.n + len.value = n /\ n \in 1 .. Len(buf)
           /\ SubSeq(buf, len.n + 1, len.n + len.value) = x
      ELSE Failed(len) \/ len.n + len.value > Len(buf)
  BY PrefixedRead
<1>2. r = IF Failed(len) THEN len
          ELSE IF len.n + len.value > Len(buf) THEN Err("UnexpectedEof")
          ELSE Ok(SubSeq(buf, len.n + 1, len.n + len.value), len.n + len.value)
  BY DEF DecodeBytesValue
<1>. HIDE DEF len, n, r
<1>3. CASE n <= Len(buf)
  <2>1. ~(len.n + len.value > Len(buf))
    BY <1>1, <1>3
  <2>2. r = Ok(x, n) /\ n \in 1 .. Len(buf)
    BY <1>1, <1>2, <1>3, <2>1
  <2>. QED  BY <1>3, <2>2 DEF n, r
<1>4. CASE ~(n <= Len(buf))
  <2>1. Failed(r)
    BY <1>1, <1>2, <1>4 DEF Failed, Err
  <2>. QED  BY <1>4, <2>1 DEF n, r
<1>. QED  BY <1>3, <1>4

LEMMA SummaryRead ==
  ASSUME NEW x \in Texts, Len(x) < Word, NEW buf \in Seq(Byte), Alike(buf, EncodeSummary(x))
  PROVE  LET n == Len(EncodeSummary(x)) IN
         IF n <= Len(buf) THEN DecodeSummary(buf) = Ok(x, n) /\ n \in 1 .. Len(buf)
         ELSE Failed(DecodeSummary(buf))
<1>. DEFINE len == DecodeVarint(buf)  n == Len(EncodeSummary(x))  r == DecodeSummary(buf)
<1>1. x \in Seq(Byte) /\ Lossy(x) = x
  BY DEF Texts
<1>2. IF n <= Len(buf)
      THEN /\ ~Failed(len) /\ len.n + len.value = n /\ n \in 1 .. Len(buf)
           /\ SubSeq(buf, len.n + 1, len.n + len.value) = x
      ELSE Failed(len) \/ len.n + len.value > Len(buf)
  BY <1>1, PrefixedRead DEF EncodeSummary
<1>3. r = IF Failed(len) THEN len
          ELSE IF len.n + len.value > Len(buf) THEN Err("UnexpectedEof")
          ELSE Ok(Lossy(SubSeq(buf, len.n + 1, len.n + len.value)), len.n + len.value)
  BY DEF DecodeSummary
<1>. HIDE DEF len, n, r
<1>4. CASE n <= Len(buf)
  <2>1. ~(len.n + len.value > Len(buf))
    BY <1>2, <1>4
  <2>2. r = Ok(x, n) /\ n \in 1 .. Len(buf)
    BY <1>1, <1>2, <1>3, <1>4, <2>1
  <2>. QED  BY <1>4, <2>2 DEF n, r
<1>5. CASE ~(n <= Len(buf))
  <2>1. Failed(r)
    BY <1>2, <1>3, <1>5 DEF Failed, Err
  <2>. QED  BY <1>5, <2>1 DEF n, r
<1>. QED  BY <1>4, <1>5

LEMMA HeaderRead ==
  ASSUME NEW id \in 0 .. Word - 1, NEW wt \in 0 .. Word - 1, wt \in WireType,
         NEW w, NEW pay, Pieces(w, EncodeVarint[id], EncodeVarint[wt], pay),
         NEW buf \in Seq(Byte), Alike(buf, w)
  PROVE  LET n == Len(EncodeVarint[id]) + Len(EncodeVarint[wt])  h == DecodeFieldHeader(buf) IN
         IF n <= Len(buf)
         THEN /\ ~Failed(h) /\ h.value.id = id /\ h.value.wireType = wt /\ h.n = n
              /\ n \in 2 .. Len(buf)
         ELSE Failed(h)
<1>. DEFINE e == EncodeVarint[id]  f == EncodeVarint[wt]  a == Len(e)  b == Len(f)  l == Len(buf)
            h == DecodeFieldHeader(buf)  u == DecodeVarint(buf)  c == Len(pay)
<1>. HIDE DEF e, f
<1>1. Pieces(w, e, f, pay)
  BY DEF e, f
<1>2. l \in Nat
  OBVIOUS
<1>3. \A i \in 1 .. l : i <= Len(w) => buf[i] = w[i]
  BY DEF Alike
<1>. HIDE DEF l
<1>4. /\ w \in Seq(Byte) /\ e \in Seq(Byte) /\ f \in Seq(Byte)
      /\ a \in Nat \ {0} /\ b \in Nat \ {0} /\ c \in Nat /\ Len(w) = a + b + c /\ l \in Nat
      /\ \A i \in 1 .. a : w[i] = e[i]
      /\ \A i \in 1 .. b : w[a + i] = f[i]
  <2>1. /\ w \in Seq(Byte) /\ e \in Seq(Byte) /\ f \in Seq(Byte)
        /\ a \in Nat \ {0} /\ b \in Nat \ {0} /\ c \in Nat /\ Len(w) = a + b + c
    BY <1>1, Zenon DEF Pieces
  <2>2. (\A i \in 1 .. a : w[i] = e[i]) /\ \A i \in 1 .. b : w[a + i] = f[i]
    BY <1>1, Zenon DEF Pieces
  <2>. QED  BY <1>2, <2>1, <2>2
<1>. HIDE DEF a, b, c, l
<1>5. Alike(buf, e)
  <2>1. \A i \in 1 .. l : i <= a => i <= Len(w) /\ i \in 1 .. a
    BY <1>4
  <2>. QED  BY <2>1, <1>4, <1>3 DEF Alike, l, a
<1>6. CASE ~(a <= l)
  <2>1. l < a /\ ~(a + b <= l)
    BY <1>4, <1>6
  <2>2. u \in {Err("VarintTooLong"), Err("UnexpectedEof")}
    BY <1>5, <2>1, WordBreaks DEF e, a, l
  <2>3. Failed(u)
    BY <2>2 DEF Failed, Err
  <2>4. h = u
    BY <2>3 DEF DecodeFieldHeader
  <2>. HIDE DEF u, h
  <2>. QED  BY <2>1, <2>3, <2>4 DEF h, a, b, e, f, l
<1>7. CASE a <= l
  <2>1. u = Ok(id, a)
    BY <1>5, <1>7, WordArrives DEF e, a, l
  <2>2. ~Failed(u) /\ u.n = a /\ u.value = id
    BY <2>1 DEF Ok, Failed
  <2>. HIDE DEF u
  <2>. DEFINE r == From(buf, a)  v == DecodeVarint(r)
  <2>3. r \in Seq(Byte) /\ Len(r) = l - a /\ \A i \in 1 .. l - a : r[i] = buf[a + i]
    <3>1. a \in 0 .. Len(buf)
      BY <1>4, <1>7 DEF l
    <3>. QED  BY <3>1, FromIs DEF l
  <2>4. h = IF Failed(v) THEN v
            ELSE IF v.value \notin WireType THEN Err("UnknownFieldWireType")
            ELSE Ok([id |-> u.value, wireType |-> v.value], u.n + v.n)
    BY <2>2 DEF DecodeFieldHeader, u
  <2>. HIDE DEF r
  <2>5. Alike(r, f)
    <3>1. \A i \in 1 .. l - a : i <= b => a + i \in 1 .. l /\ a + i <= Len(w) /\ i \in 1 .. b
      BY <1>4, <1>7
    <3>2. \A i \in 1 .. l - a : i <= b => r[i] = f[i]
      BY <3>1, <1>4, <1>3, <2>3
    <3>. QED  BY <3>2, <2>3 DEF Alike, b
  <2>6. CASE b <= l - a
    <3>1. v = Ok(wt, b)
      BY <2>3, <2>5, <2>6, WordArrives DEF f, b
    <3>2. ~Failed(v) /\ v.n = b /\ v.value = wt
      BY <3>1 DEF Ok, Failed
    <3>. HIDE DEF v, h
    <3>3. h = Ok([id |-> id, wireType |-> wt], a + b)
      BY <2>2, <2>4, <3>2
    <3>4. ~Failed(h) /\ h.value.id = id /\ h.value.wireType = wt /\ h.n = a + b
      BY <3>3 DEF Ok, Failed
    <3>5. a + b <= l /\ a + b \in 2 .. l
      <4>1. a \in Nat /\ b \in Nat /\ a >= 1 /\ b >= 1 /\ l \in Nat
        BY <1>4
      <4>. QED  BY <4>1, <2>6
    <3>. QED  BY <3>4, <3>5 DEF h, a, b, e, f, l
  <2>7. CASE ~(b <= l - a)
    <3>1. Len(r) < b /\ ~(a + b <= l)
      BY <1>4, <2>3, <2>7
    <3>2. v \in {Err("VarintTooLong"), Err("UnexpectedEof")}
      BY <2>3, <2>5, <3>1, WordBreaks DEF f, b
    <3>3. Failed(v)
      BY <3>2 DEF Failed, Err
    <3>. HIDE DEF v, h
    <3>4. Failed(h)
      BY <2>4, <3>3
    <3>. QED  BY <3>1, <3>4 DEF h, a, b, e, f, l
  <2>. QED  BY <2>6, <2>7
<1>. QED  BY <1>6, <1>7

LEMMA FromTwice ==
  ASSUME NEW buf \in Seq(Byte), NEW a \in Nat, NEW b \in Nat, a + b <= Len(buf)
  PROVE  From(From(buf, a), b) = From(buf, a + b)
<1>. DEFINE l == Len(buf)  r == From(buf, a)  x == From(r, b)  y == From(buf, a + b)
<1>1. l \in Nat /\ a \in 0 .. l /\ a + b \in 0 .. l
  OBVIOUS
<1>2. r \in Seq(Byte) /\ Len(r) = l - a /\ \A i \in 1 .. l - a : r[i] = buf[a + i]
  BY <1>1, FromIs
<1>3. y \in Seq(Byte) /\ Len(y) = l - (a + b) /\ \A i \in 1 .. l - (a + b) : y[i] = buf[(a + b) + i]
  BY <1>1, FromIs
<1>. HIDE DEF r, l, y
<1>4. b \in 0 .. Len(r)
  BY <1>1, <1>2
<1>5. x \in Seq(Byte) /\ Len(x) = Len(r) - b /\ \A i \in 1 .. Len(r) - b : x[i] = r[b + i]
  BY <1>2, <1>4, FromIs
<1>. HIDE DEF x
<1>6. Len(x) = Len(y)
  BY <1>1, <1>2, <1>3, <1>5
<1>7. ASSUME NEW i \in 1 .. Len(x)
      PROVE  x[i] = y[i]
  <2>1. i \in 1 .. Len(r) - b /\ b + i \in 1 .. l - a /\ i \in 1 .. l - (a + b)
        /\ a + (b + i) = (a + b) + i
    BY <1>1, <1>2, <1>5
  <2>. QED  BY <2>1, <1>2, <1>3, <1>5
<1>8. x = y
  BY <1>3, <1>5, <1>6, <1>7
<1>. QED  BY <1>8 DEF x, r, y

\* The field w is read from buf, and what follows it is left.
Took(buf, w, id, wt, scalar, x) ==
  LET h == DecodeFieldHeader(buf)
      p == PayloadOf(scalar, From(buf, h.n)) IN
  /\ ~Failed(h) /\ h.value.id = id /\ h.value.wireType = wt
  /\ ~Failed(p) /\ p.value = x /\ From(From(buf, h.n), p.n) = From(buf, Len(w))

\* It is not all there, and nothing is read.
Broke(buf, id, wt, scalar) ==
  LET h == DecodeFieldHeader(buf)
      p == PayloadOf(scalar, From(buf, h.n)) IN
  ~Failed(h) => h.value.id = id /\ h.value.wireType = wt /\ Failed(p)

LEMMA PartRead ==
  ASSUME NEW w, NEW id, NEW wt, NEW scalar, NEW x, Shaped(w, id, wt, scalar, x), Len(w) < Word,
         NEW buf \in Seq(Byte), Alike(buf, w)
  PROVE  /\ w \in Seq(Byte) /\ w # <<>>
         /\ IF Len(w) <= Len(buf) THEN Took(buf, w, id, wt, scalar, x)
            ELSE Broke(buf, id, wt, scalar)
<1>1. PICK pay \in Seq(Byte) :
        /\ Pieces(w, EncodeVarint[id], EncodeVarint[wt], pay)
        /\ id \in 0 .. Word - 1 /\ wt \in 0 .. Word - 1 /\ wt \in WireType
        /\ scalar \in BOOLEAN
        /\ IF scalar THEN Stops(pay, Len(pay)) /\ ValueOf(pay, Len(pay)) = x
           ELSE x \in Seq(Byte) /\ pay = EncodeVarint[Len(x)] \o x
  BY ShapedPieces
<1>. DEFINE e == EncodeVarint[id]  f == EncodeVarint[wt]  a == Len(e) + Len(f)  c == Len(pay)
            l == Len(buf)  h == DecodeFieldHeader(buf)
<1>2. IF a <= l THEN /\ ~Failed(h) /\ h.value.id = id /\ h.value.wireType = wt /\ h.n = a
                     /\ a \in 2 .. l
      ELSE Failed(h)
  BY <1>1, HeaderRead
<1>3. l \in Nat
  OBVIOUS
<1>4. \A i \in 1 .. l : i <= Len(w) => buf[i] = w[i]
  BY DEF Alike
<1>. HIDE DEF e, f
<1>5. Pieces(w, e, f, pay)
  BY <1>1 DEF e, f
<1>6. w \in Seq(Byte) /\ Len(e) \in Nat \ {0} /\ Len(f) \in Nat \ {0} /\ c \in Nat
      /\ Len(w) = Len(e) + Len(f) + c
      /\ \A i \in 1 .. c : w[Len(e) + Len(f) + i] = pay[i]
  BY <1>5, Zenon DEF Pieces
<1>7. a \in Nat /\ a >= 2 /\ Len(w) = a + c /\ \A i \in 1 .. c : w[a + i] = pay[i]
  BY <1>6
<1>8. w # <<>>
  BY <1>6, <1>7
<1>. HIDE DEF a, c, l, h
<1>9. CASE ~(a <= l)
  <2>1. ~(Len(w) <= l)
    BY <1>3, <1>6, <1>7, <1>9
  <2>2. Failed(h)
    BY <1>2, <1>9
  <2>3. Broke(buf, id, wt, scalar)
    BY <2>2 DEF Broke, h
  <2>. QED  BY <1>6, <1>8, <2>1, <2>3 DEF l
<1>10. CASE a <= l
  <2>. DEFINE r == From(buf, a)  p == PayloadOf(scalar, r)
  <2>1. r \in Seq(Byte) /\ Len(r) = l - a /\ \A i \in 1 .. l - a : r[i] = buf[a + i]
    <3>1. a \in 0 .. Len(buf)
      BY <1>2, <1>10 DEF l
    <3>. QED  BY <3>1, FromIs DEF l
  <2>2. h.n = a /\ ~Failed(h) /\ h.value.id = id /\ h.value.wireType = wt
    BY <1>2, <1>10
  <2>. HIDE DEF r
  <2>3. Alike(r, pay)
    <3>1. \A i \in 1 .. l - a : i <= c => a + i \in 1 .. l /\ a + i <= Len(w) /\ i \in 1 .. c
      BY <1>3, <1>6, <1>7
    <3>2. \A i \in 1 .. l - a : i <= c => r[i] = pay[i]
      BY <3>1, <1>4, <1>7, <2>1
    <3>. QED  BY <3>2, <2>1 DEF Alike, c
  <2>4. IF c <= Len(r) THEN ~Failed(p) /\ p.value = x /\ p.n = c ELSE Failed(p)
    <3>1. CASE scalar
      <4>1. IF Len(pay) <= Len(r) THEN DecodeVarint(r) = Ok(ValueOf(pay, Len(pay)), Len(pay))
            ELSE Failed(DecodeVarint(r))
        BY <1>1, <2>1, <2>3, <3>1, NumberRead
      <4>2. p = DecodeVarint(r) /\ ValueOf(pay, Len(pay)) = x
        BY <1>1, <3>1 DEF PayloadOf, DecodeVarintValue
      <4>. HIDE DEF p
      <4>. QED  BY <4>1, <4>2 DEF Ok, Failed, c
    <3>2. CASE ~scalar
      <4>1. x \in Seq(Byte) /\ pay = EncodeVarint[Len(x)] \o x
        BY <1>1, <3>2
      <4>2. Len(x) < Word
        <5>1. Len(x) \in Nat /\ EncodeVarint[Len(x)] \in Seq(Byte)
          BY <4>1, NumberBytes
        <5>2. Len(pay) = Len(EncodeVarint[Len(x)]) + Len(x) /\ Len(EncodeVarint[Len(x)]) \in Nat
          BY <4>1, <5>1, JoinIs
        <5>. DEFINE k == Len(x)  d == Len(EncodeVarint[Len(x)])  n == Len(w)
        <5>3. k \in Nat /\ d \in Nat /\ c = d + k /\ n = a + c /\ a \in Nat /\ n < Word
          BY <5>1, <5>2, <1>7 DEF c
        <5>. HIDE DEF k, d, n
        <5>4. k < Word
          BY <5>3, VarintAssumption
        <5>. QED  BY <5>4 DEF k
      <4>3. IF Len(pay) <= Len(r) THEN DecodeBytesValue(r) = Ok(x, Len(pay))
            ELSE Failed(DecodeBytesValue(r))
        BY <4>1, <4>2, <2>1, <2>3, BytesRead
      <4>4. p = DecodeBytesValue(r)
        BY <3>2 DEF PayloadOf
      <4>. HIDE DEF p
      <4>. QED  BY <4>3, <4>4 DEF Ok, Failed, c
    <3>. QED  BY <1>1, <3>1, <3>2
  <2>5. c <= Len(r) <=> Len(w) <= l
    BY <1>3, <1>6, <1>7, <2>1
  <2>6. p = PayloadOf(scalar, From(buf, h.n))
    BY <2>2 DEF r
  <2>. HIDE DEF p
  <2>7. CASE Len(w) <= l
    <3>1. ~Failed(p) /\ p.value = x /\ p.n = c
      BY <2>4, <2>5, <2>7
    <3>2. From(From(buf, a), c) = From(buf, a + c)
      BY <1>6, <1>7, <2>7, FromTwice DEF l
    <3>3. Took(buf, w, id, wt, scalar, x)
      BY <1>7, <2>2, <2>6, <3>1, <3>2 DEF Took, h
    <3>. QED  BY <1>6, <1>8, <2>7, <3>3 DEF l
  <2>8. CASE ~(Len(w) <= l)
    <3>1. Failed(p)
      BY <2>4, <2>5, <2>8
    <3>2. Broke(buf, id, wt, scalar)
      BY <2>2, <2>6, <3>1 DEF Broke, h
    <3>. QED  BY <1>6, <1>8, <2>8, <3>2 DEF l
  <2>. QED  BY <2>7, <2>8
<1>. QED  BY <1>9, <1>10

\* The encodings of fields.
LEMMA NumberStops ==
  ASSUME NEW v \in 0 .. Word - 1
  PROVE  LET e == EncodeVarint[v] IN
         e \in Seq(Byte) /\ Stops(e, Len(e)) /\ ValueOf(e, Len(e)) = v
<1>. DEFINE e == EncodeVarint[v]  n == Len(e)
<1>1. Says(e, v) /\ n \in 1 .. MaxVarintBytes /\ e \in Seq(Byte)
  BY EncodeTyped, EncodeSays, VarintAssumption
<1>. HIDE DEF e
<1>2. PICK g : Numbers(e, Len(e), g) /\ g[1] = v
  BY <1>1 DEF Says
<1>3. (\A i \in 1 .. n - 1 : Continues(e[i])) /\ ~Continues(e[n])
  BY <1>1 DEF Says
<1>. HIDE DEF n
<1>4. n \in Nat /\ n >= 1 /\ n <= MaxVarintBytes /\ n \in 0 .. n /\ n \in 1 .. n
  BY <1>1, VarintAssumption
<1>5. Stops(e, n)
  BY <1>3, <1>4 DEF Stops, n
<1>6. ValueOf(e, n) = g[1] % Word
  BY <1>1, <1>2, <1>4, ValueIs DEF n
<1>7. v % Word = v
  BY VarintAssumption
<1>. QED  BY <1>1, <1>2, <1>5, <1>6, <1>7 DEF n, e

LEMMA NumberShaped ==
  ASSUME NEW id \in 0 .. Word - 1, NEW v \in 0 .. Word - 1
  PROVE  Shaped(EncodeVarintField(id, v), id, Scalar, TRUE, v)
<1>1. EncodeVarint[v] \in Seq(Byte) /\ Stops(EncodeVarint[v], Len(EncodeVarint[v]))
      /\ ValueOf(EncodeVarint[v], Len(EncodeVarint[v])) = v
  BY NumberStops
<1>2. Scalar \in WireType
  BY DEF WireType
<1>. QED  BY <1>1, <1>2 DEF Shaped, EncodeVarintField

LEMMA BytesShaped ==
  ASSUME NEW id \in 0 .. Word - 1, NEW x \in Seq(Byte)
  PROVE  /\ Shaped(EncodeBytesField(id, x), id, Bytes, FALSE, x)
         /\ Shaped(EncodeNestedField(id, x), id, Nested, FALSE, x)
<1>1. Bytes \in WireType /\ Nested \in WireType /\ WireType \subseteq Nat
  BY WireTypesAre DEF WireType
<1>2. ASSUME NEW wt \in WireType
      PROVE  Shaped(((EncodeVarint[id] \o EncodeVarint[wt]) \o EncodeVarint[Len(x)]) \o x,
                    id, wt, FALSE, x)
  <2>. DEFINE e == EncodeVarint[id]  f == EncodeVarint[wt]  g == EncodeVarint[Len(x)]  pay == g \o x
              h == e \o f
  <2>1. id \in Nat /\ wt \in Nat /\ Len(x) \in Nat
    BY <1>1, VarintAssumption
  <2>2. e \in Seq(Byte) /\ f \in Seq(Byte) /\ g \in Seq(Byte)
    BY <2>1, NumberBytes
  <2>. HIDE DEF e, f, g
  <2>3. h \in Seq(Byte) /\ pay \in Seq(Byte)
    BY <2>2, JoinIs
  <2>4. (h \o g) \o x = h \o (g \o x)
    BY <2>2, <2>3, AssocIs
  <2>. HIDE DEF h
  <2>. QED  BY <2>3, <2>4 DEF Shaped, e, f, g, h
<1>. QED  BY <1>1, <1>2 DEF EncodeBytesField, EncodeNestedField

\* A number in more bytes than it needs.
LEMMA FullShaped ==
  ASSUME NEW id \in 0 .. Word - 1, NEW v \in 0 .. Word - 1, NEW more \in {0, Word}
  PROVE  Shaped(EncodeVarint[id] \o EncodeVarint[Scalar] \o InFull(v + more), id, Scalar, TRUE, v)
<1>. DEFINE u == v + more  e == EncodeVarint[u]  k == Len(e)  m == MaxVarintBytes
            w == InFull(u)
<1>1. u \in Nat /\ u \in 0 .. 2 * Word - 1 /\ u % Word = v
  <2>1. v \in Nat /\ v < Word /\ Word \in Nat \ {0}
    BY VarintAssumption
  <2>2. CASE more = 0
    BY <2>1, <2>2
  <2>3. CASE more = Word
    <3>1. (v + Word) % Word = v
      BY <2>1
    <3>. QED  BY <2>1, <2>3, <3>1
  <2>. QED  BY <2>2, <2>3
<1>2. Says(e, u) /\ k <= m /\ m \in Nat \ {0}
  BY <1>1, EncodeSays, RoomForMore, VarintAssumption
<1>. HIDE DEF e
<1>3. e \in Seq(Byte) /\ k \in Nat \ {0}
      /\ (\A i \in 1 .. k - 1 : Continues(e[i])) /\ ~Continues(e[k])
  BY <1>2 DEF Says
<1>4. PICK g : Numbers(e, k, g) /\ g[1] = u
  BY <1>2 DEF Says
<1>. DEFINE d(i) == Digit(IF i <= k THEN e[i] ELSE 0)
<1>5. w = [i \in 1 .. m |-> d(i) + (IF i < m THEN Base ELSE 0)]
  BY DEF InFull, e
<1>. HIDE DEF k, m, w
<1>6. ASSUME NEW i \in 1 .. m
      PROVE  d(i) \in 0 .. Base - 1
  <2>1. CASE i <= k
    <3>1. i \in 1 .. k
      BY <1>2, <1>3, <2>1
    <3>2. e[i] \in Nat
      BY <1>3, <3>1, VarintAssumption DEF Byte, k
    <3>. QED  BY <2>1, <3>2, VarintAssumption DEF Digit
  <2>2. CASE ~(i <= k)
    <3>1. Digit(0) = 0
      BY VarintAssumption DEF Digit
    <3>. QED  BY <2>2, <3>1, VarintAssumption
  <2>. QED  BY <2>1, <2>2
<1>. HIDE DEF d
<1>7. ASSUME NEW i \in 1 .. m
      PROVE  /\ w[i] \in Byte /\ Digit(w[i]) = d(i) /\ (Continues(w[i]) <=> i < m)
  <2>1. w[i] = d(i) + (IF i < m THEN Base ELSE 0) /\ d(i) \in 0 .. Base - 1
    BY <1>5, <1>6
  <2>2. (d(i) + Base) % Base = d(i) /\ d(i) % Base = d(i)
    BY <2>1, VarintAssumption
  <2>3. CASE i < m
    BY <2>1, <2>2, <2>3, VarintAssumption DEF Byte, Digit, Continues
  <2>4. CASE ~(i < m)
    BY <2>1, <2>2, <2>4, VarintAssumption DEF Byte, Digit, Continues
  <2>. QED  BY <2>3, <2>4
<1>8. w \in Seq(Byte) /\ Len(w) = m
  <2>1. w = [i \in 1 .. m |-> w[i]] /\ m \in Nat
    BY <1>2, <1>5
  <2>. QED  BY <2>1, <1>7
<1>9. Stops(w, m)
  BY <1>2, <1>7, <1>8 DEF Stops, m
<1>. DEFINE q == [i \in 1 .. m + 1 |-> IF i <= k THEN g[i] ELSE 0]
<1>10. Numbers(w, m, q)
  <2>1. g \in [1 .. k + 1 -> Nat] /\ g[k + 1] = 0
        /\ \A i \in 1 .. k : g[i] = Digit(e[i]) + Base * g[i + 1]
    BY <1>4 DEF Numbers
  <2>2. q \in [1 .. m + 1 -> Nat] /\ q[m + 1] = 0
    <3>1. \A i \in 1 .. m + 1 : q[i] \in Nat
      <4> SUFFICES ASSUME NEW i \in 1 .. m + 1
                   PROVE  (IF i <= k THEN g[i] ELSE 0) \in Nat
        OBVIOUS
      <4>1. i <= k => i \in 1 .. k + 1
        BY <1>2, <1>3
      <4>. QED  BY <4>1, <2>1
    <3>2. ~(m + 1 <= k) /\ m + 1 \in 1 .. m + 1
      BY <1>2, <1>3
    <3>. QED  BY <3>1, <3>2
  <2>3. ASSUME NEW i \in 1 .. m
        PROVE  q[i] = Digit(w[i]) + Base * q[i + 1]
    <3>1. i \in 1 .. m + 1 /\ i + 1 \in 1 .. m + 1
      BY <1>2
    <3>2. q[i] = (IF i <= k THEN g[i] ELSE 0) /\ q[i + 1] = (IF i + 1 <= k THEN g[i + 1] ELSE 0)
      BY <3>1
    <3>. HIDE DEF q
    <3>3. Digit(w[i]) = d(i)
      BY <1>7
    <3>4. CASE i <= k
      <4>1. i \in 1 .. k /\ (i + 1 <= k \/ i + 1 = k + 1)
        BY <1>2, <1>3, <3>4
      <4>2. q[i + 1] = g[i + 1]
        <5>1. CASE i + 1 <= k
          BY <3>2, <5>1
        <5>2. CASE i + 1 = k + 1
          <6>1. ~(i + 1 <= k)
            BY <1>3, <5>2
          <6>2. g[i + 1] = 0
            BY <2>1, <5>2
          <6>. QED  BY <3>2, <6>1, <6>2
        <5>. QED  BY <4>1, <5>1, <5>2
      <4>3. d(i) = Digit(e[i]) /\ q[i] = g[i]
        BY <3>2, <3>4 DEF d
      <4>4. g[i] = Digit(e[i]) + Base * g[i + 1]
        BY <2>1, <4>1
      <4>. QED  BY <3>3, <4>2, <4>3, <4>4
    <3>5. CASE ~(i <= k)
      <4>1. ~(i + 1 <= k)
        BY <1>2, <1>3, <3>5
      <4>2. d(i) = 0
        BY <3>5, VarintAssumption DEF d, Digit
      <4>3. q[i] = 0 /\ q[i + 1] = 0 /\ Base * 0 = 0
        BY <3>2, <3>5, <4>1, VarintAssumption
      <4>. QED  BY <3>3, <4>2, <4>3
    <3>. QED  BY <3>4, <3>5
  <2>. HIDE DEF q
  <2>. QED  BY <2>2, <2>3 DEF Numbers
<1>11. q[1] = u
  <2>1. 1 \in 1 .. m + 1 /\ 1 <= k
    BY <1>2, <1>3
  <2>. QED  BY <1>4, <2>1
<1>. HIDE DEF q
<1>12. ValueOf(w, m) = q[1] % Word
  <2>1. m \in 0 .. Len(w)
    BY <1>2, <1>8
  <2>. QED  BY <1>8, <1>10, <2>1, ValueIs
<1>13. Scalar \in WireType
  BY DEF WireType
<1>14. Stops(w, Len(w)) /\ ValueOf(w, Len(w)) = v
  BY <1>1, <1>8, <1>9, <1>11, <1>12
<1>15. w = InFull(v + more)
  BY DEF w
<1>. HIDE DEF u
<1>. QED  BY <1>8, <1>13, <1>14, <1>15 DEF Shaped

\* The id of a field, as its header says.
LEMMA IdRead ==
  ASSUME NEW w, NEW id, NEW wt, NEW scalar, NEW x, Shaped(w, id, wt, scalar, x)
  PROVE  /\ IdOf(w) = id /\ id \in 0 .. Word - 1 /\ w \in Seq(Byte) /\ w # <<>>
         /\ scalar => x \in 0 .. Word - 1
         /\ ~scalar => x \in Seq(Byte)
         /\ wt \in WireType /\ scalar \in BOOLEAN
<1>1. PICK pay \in Seq(Byte) :
        /\ Pieces(w, EncodeVarint[id], EncodeVarint[wt], pay)
        /\ id \in 0 .. Word - 1 /\ wt \in 0 .. Word - 1 /\ wt \in WireType
        /\ scalar \in BOOLEAN
        /\ IF scalar THEN Stops(pay, Len(pay)) /\ ValueOf(pay, Len(pay)) = x
           ELSE x \in Seq(Byte) /\ pay = EncodeVarint[Len(x)] \o x
  BY ShapedPieces
<1>2. scalar => x \in 0 .. Word - 1
  <2>1. scalar => Stops(pay, Len(pay)) /\ ValueOf(pay, Len(pay)) = x
    BY <1>1
  <2>. QED  BY <2>1, BothRead
<1>. DEFINE e == EncodeVarint[id]  f == EncodeVarint[wt]
<1>. HIDE DEF e, f
<1>3. Pieces(w, e, f, pay)
  BY <1>1 DEF e, f
<1>4. w \in Seq(Byte) /\ Len(e) \in Nat \ {0} /\ Len(f) \in Nat \ {0} /\ Len(pay) \in Nat
      /\ Len(w) = Len(e) + Len(f) + Len(pay)
      /\ \A i \in 1 .. Len(e) : w[i] = e[i]
  BY <1>3, Zenon DEF Pieces
<1>. DEFINE a == Len(e)  n == Len(w)
<1>5. a <= n /\ n # 0
  <2>. DEFINE b == Len(f)  c == Len(pay)
  <2>1. a \in Nat \ {0} /\ b \in Nat \ {0} /\ c \in Nat /\ n = a + b + c
    BY <1>4
  <2>. HIDE DEF a, n, b, c
  <2>. QED  BY <2>1
<1>6. \A i \in 1 .. n : i <= a => w[i] = e[i]
  BY <1>4
<1>7. Alike(w, e)
  BY <1>6 DEF Alike
<1>8. DecodeVarint(w) = Ok(id, a)
  BY <1>1, <1>4, <1>5, <1>7, WordArrives DEF e
<1>9. IdOf(w) = id
  BY <1>8 DEF IdOf, Ok
<1>10. w # <<>>
  BY <1>5
<1>. QED  BY <1>1, <1>2, <1>4, <1>9, <1>10
-----------------------------------------------------------------------------
(* A body, read field by field.                                            *)

\* el is a block of type u, and x its encoding.
Element(u, el, x) == \E n \in Nat \ {0} : el \in Values[n][u] /\ x = Encode[n][u][el]

\* What is in w is a field, and reading it makes the fields h of a block of type t of g.
\* Fields that t does not have leave everything as it is.
Effect(t, id, wt, scalar, x, g, h) ==
  IF id \notin FieldIds(t) THEN (scalar <=> wt = Scalar) /\ h = g
  ELSE IF Schema[t][id].kind = "list"
  THEN ~scalar /\ \E el : /\ Element(Schema[t][id].arg, el, x)
                          /\ h = [g EXCEPT ![id] = Append(g[id], el)]
  ELSE /\ scalar <=> IsNumber(Schema[t][id].kind)
       /\ ~Refuses(Schema[t][id], x) /\ h = [g EXCEPT ![id] = Accepted(Schema[t][id], x)]

Read(t, w, g, h) ==
  \E wt, scalar, x : Shaped(w, IdOf(w), wt, scalar, x) /\ Effect(t, IdOf(w), wt, scalar, x, g, h)

\* Each field of g is blank or that of v, each list the start of that of v.
Within(t, g, v) ==
  /\ HasFields(t, g)
  /\ \A id \in FieldIds(t) :
       IF Schema[t][id].kind = "list" THEN \E i \in 0 .. Len(v[id]) : g[id] = SubSeq(v[id], 1, i)
       ELSE g[id] = Blank(t)[id] \/ g[id] = v[id]

\* The m fields S of a body and what has been read when each begins; when the body may be
\* cut, only what is in v has.
Track(t, m, S, p, F, v, cut) ==
  /\ m \in Nat /\ S \in [1 .. m -> Seq(Byte)] /\ Chained(Byte, p, S, m) /\ F[m] = v
  /\ \A k \in 0 .. m - 1 : Read(t, S[k + 1], F[k], F[k + 1])
  /\ cut => \A k \in 0 .. m : Within(t, F[k], v)

\* The rest b of a body makes the block v of the fields g.
Leads(t, b, g, v, cut) ==
  \E m, S, p, F : /\ Track(t, m, S, p, F, v, cut)
                  /\ \E j \in 0 .. m : b = From(p[m], Len(p[j])) /\ g = F[j]

LEMMA ReadIs ==
  ASSUME NEW t, NEW w, NEW g, NEW h, Read(t, w, g, h)
  PROVE  IdOf(w) \in 0 .. Word - 1 /\ w \in Seq(Byte) /\ w # <<>>
BY IdRead DEF Read

\* The body is at its end, or its next field is read and it goes on behind it.
Goes(t, b, g, v, cut) ==
  \E w, c, h : /\ w \in Seq(Byte) /\ c \in Seq(Byte) /\ b = w \o c
               /\ Read(t, w, g, h) /\ Leads(t, c, h, v, cut)

LEMMA LeadsOn ==
  ASSUME NEW t, NEW b, NEW g, NEW v, NEW cut, Leads(t, b, g, v, cut)
  PROVE  /\ b \in Seq(Byte) /\ (cut => Within(t, g, v))
         /\ (b = <<>> /\ g = v) \/ Goes(t, b, g, v, cut)
<1>1. PICK m, S, p, F : /\ Track(t, m, S, p, F, v, cut)
                        /\ \E j \in 0 .. m : b = From(p[m], Len(p[j])) /\ g = F[j]
  BY DEF Leads
<1>2. PICK j \in 0 .. m : b = From(p[m], Len(p[j])) /\ g = F[j]
  BY <1>1
<1>3. m \in Nat /\ S \in [1 .. m -> Seq(Byte)] /\ Chained(Byte, p, S, m) /\ F[m] = v
      /\ (\A k \in 0 .. m - 1 : Read(t, S[k + 1], F[k], F[k + 1]))
      /\ (cut => \A k \in 0 .. m : Within(t, F[k], v))
  BY <1>1 DEF Track
<1>4. \A k \in 0 .. m : p[k] \in Seq(Byte)
  BY <1>3 DEF Chained
<1>. DEFINE whole == p[m]  l == Len(whole)
<1>5. whole \in Seq(Byte) /\ l \in Nat
  BY <1>3, <1>4
<1>. HIDE DEF whole
<1>6. cut => Within(t, g, v)
  BY <1>2, <1>3
<1>7. CASE j = m
  <2>1. l \in 0 .. l
    BY <1>5
  <2>2. Len(p[j]) = l
    BY <1>7 DEF whole
  <2>3. b = From(whole, l)
    BY <1>2, <2>2 DEF whole
  <2>4. b \in Seq(Byte) /\ Len(b) = l - l
    BY <2>1, <2>3, <1>5, FromIs
  <2>5. Len(b) = 0
    BY <2>4, <1>5
  <2>. QED  BY <1>2, <1>3, <1>6, <1>7, <2>4, <2>5
<1>8. CASE j # m
  <2>1. j \in 0 .. m - 1 /\ j + 1 \in 0 .. m /\ j + 1 \in 1 .. m
    BY <1>3, <1>8
  <2>. DEFINE w == S[j + 1]  a == Len(p[j])  a2 == Len(p[j + 1])  k == Len(w)  c == From(whole, a2)
  <2>2. KeptAt(p, S, m, j)
    BY <1>3, <2>1, ChainKeeps
  <2>3. a2 = a + k /\ a2 <= l /\ \A i \in 1 .. k : whole[a + i] = w[i]
    BY <2>2 DEF KeptAt, whole
  <2>4. w \in Seq(Byte) /\ k \in Nat /\ a \in Nat
    <3>1. w \in Seq(Byte) /\ p[j] \in Seq(Byte)
      BY <1>3, <1>4, <2>1
    <3>. QED  BY <3>1
  <2>5. b = From(whole, a)
    BY <1>2 DEF whole
  <2>. HIDE DEF w, a, a2, k, l
  <2>6. a \in 0 .. l /\ a2 \in 0 .. l
    BY <1>5, <2>3, <2>4
  <2>7. b \in Seq(Byte) /\ Len(b) = l - a /\ \A i \in 1 .. l - a : b[i] = whole[a + i]
    BY <1>5, <2>5, <2>6, FromIs DEF l
  <2>8. c \in Seq(Byte) /\ Len(c) = l - a2 /\ \A i \in 1 .. l - a2 : c[i] = whole[a2 + i]
    BY <1>5, <2>6, FromIs DEF l
  <2>. HIDE DEF c
  <2>. DEFINE d == w \o c
  <2>9. d \in Seq(Byte) /\ Len(d) = k + (l - a2)
        /\ (\A i \in 1 .. k : d[i] = w[i]) /\ \A i \in 1 .. l - a2 : d[k + i] = c[i]
    BY <2>4, <2>8, JoinIs DEF k
  <2>. HIDE DEF d
  <2>10. Len(d) = Len(b)
    BY <1>5, <2>3, <2>4, <2>6, <2>7, <2>9
  <2>11. ASSUME NEW i \in 1 .. Len(b)
         PROVE  b[i] = d[i]
    <3>1. i \in 1 .. l - a
      BY <2>7
    <3>2. CASE i <= k
      <4>1. i \in 1 .. k
        BY <3>2, <2>4
      <4>. QED  BY <3>1, <4>1, <2>3, <2>7, <2>9
    <3>3. CASE ~(i <= k)
      <4>1. i - k \in 1 .. l - a2 /\ k + (i - k) = i /\ a2 + (i - k) = a + i
        BY <1>5, <3>1, <3>3, <2>3, <2>4, <2>6
      <4>. DEFINE o == i - k
      <4>. HIDE DEF o
      <4>2. o \in 1 .. l - a2 /\ k + o = i /\ a2 + o = a + i
        BY <4>1 DEF o
      <4>. QED  BY <3>1, <4>2, <2>7, <2>8, <2>9
    <3>. QED  BY <3>2, <3>3
  <2>12. b = d
    BY <2>7, <2>9, <2>10, <2>11
  <2>13. Read(t, w, g, F[j + 1])
    BY <1>2, <1>3, <2>1 DEF w
  <2>14. Leads(t, c, F[j + 1], v, cut)
    BY <1>1, <2>1 DEF Leads, c, a2, whole
  <2>15. Goes(t, b, g, v, cut)
    BY <2>4, <2>8, <2>12, <2>13, <2>14 DEF Goes, d
  <2>. QED  BY <1>6, <2>7, <2>15
<1>. QED  BY <1>7, <1>8

\* The fields s, read in their order, make the block v.
Reads(t, s, F, v, cut) ==
  /\ s \in Seq(Seq(Byte)) /\ F[Len(s)] = v
  /\ \A k \in 0 .. Len(s) - 1 : Read(t, s[k + 1], F[k], F[k + 1])
  /\ cut => \A k \in 0 .. Len(s) : Within(t, F[k], v)

LEMMA ReadsLead ==
  ASSUME NEW t, NEW s, NEW F, NEW v, NEW cut, Reads(t, s, F, v, cut)
  PROVE  Leads(t, FlattenSeq(s), F[0], v, cut)
<1>. DEFINE m == Len(s)
<1>1. /\ s \in Seq(Seq(Byte)) /\ F[m] = v
      /\ \A k \in 0 .. m - 1 : Read(t, s[k + 1], F[k], F[k + 1])
      /\ cut => \A k \in 0 .. m : Within(t, F[k], v)
  BY DEF Reads
<1>2. PICK p : Chained(Byte, p, s, Len(s)) /\ FlattenSeq(s) = p[Len(s)]
  BY <1>1, FlatIs
<1>3. m \in Nat /\ s \in [1 .. m -> Seq(Byte)]
  BY <1>1
<1>4. Chained(Byte, p, s, m) /\ FlattenSeq(s) = p[m]
  BY <1>2
<1>. HIDE DEF m
<1>5. Track(t, m, s, p, F, v, cut)
  BY <1>1, <1>3, <1>4 DEF Track
<1>6. 0 \in 0 .. m /\ m \in 0 .. m
  BY <1>3
<1>7. p[0] = <<>> /\ p[m] \in Seq(Byte)
  BY <1>4, <1>6 DEF Chained
<1>8. Len(p[0]) = 0
  BY <1>7
<1>9. From(p[m], 0) = p[m]
  <2>. DEFINE x == p[m]  y == From(x, 0)  l == Len(x)
  <2>1. x \in Seq(Byte) /\ l \in Nat /\ 0 \in 0 .. l
    BY <1>7
  <2>. HIDE DEF x
  <2>2. y \in Seq(Byte) /\ Len(y) = l - 0 /\ \A i \in 1 .. l - 0 : y[i] = x[0 + i]
    BY <2>1, FromIs
  <2>. HIDE DEF y, l
  <2>3. Len(y) = l /\ \A i \in 1 .. l : y[i] = x[i]
    BY <2>1, <2>2
  <2>4. y = x
    BY <2>1, <2>2, <2>3 DEF l
  <2>. QED  BY <2>4 DEF y, x
<1>. QED  BY <1>4, <1>5, <1>6, <1>8, <1>9 DEF Leads
-----------------------------------------------------------------------------
(* The body that an encoder writes makes the block that it was made of.    *)

\* The first elements of a sequence.
LEMMA FirstElements ==
  ASSUME NEW X, NEW x \in Seq(X)
  PROVE  /\ Len(x) \in Nat /\ SubSeq(x, 1, 0) = <<>> /\ SubSeq(x, 1, Len(x)) = x
         /\ \A i \in 0 .. Len(x) : SubSeq(x, 1, i) \in Seq(X) /\ Len(SubSeq(x, 1, i)) = i
         /\ \A i \in 0 .. Len(x) - 1 :
              /\ x[i + 1] \in X
              /\ Append(SubSeq(x, 1, i), x[i + 1]) = SubSeq(x, 1, i + 1)
<1>. DEFINE l == Len(x)
<1>1. l \in Nat /\ \A i \in 1 .. l : x[i] \in X
  OBVIOUS
<1>2. ASSUME NEW i \in 0 .. l
      PROVE  SubSeq(x, 1, i) \in Seq(X) /\ Len(SubSeq(x, 1, i)) = i
             /\ \A k \in 1 .. i : SubSeq(x, 1, i)[k] = x[k]
  OBVIOUS
<1>3. SubSeq(x, 1, 0) = <<>>
  OBVIOUS
<1>4. SubSeq(x, 1, l) = x
  <2>. DEFINE y == SubSeq(x, 1, l)
  <2>1. y \in Seq(X) /\ Len(y) = l /\ \A k \in 1 .. l : y[k] = x[k]
    BY <1>1, <1>2
  <2>. HIDE DEF y
  <2>2. y = x
    BY <2>1
  <2>. QED  BY <2>2 DEF y
<1>5. ASSUME NEW i \in 0 .. l - 1
      PROVE  x[i + 1] \in X /\ Append(SubSeq(x, 1, i), x[i + 1]) = SubSeq(x, 1, i + 1)
  <2>. DEFINE a == SubSeq(x, 1, i)  b == SubSeq(x, 1, i + 1)  c == Append(a, x[i + 1])
  <2>1. i \in 0 .. l /\ i + 1 \in 0 .. l /\ i + 1 \in 1 .. l
    BY <1>1
  <2>2. a \in Seq(X) /\ Len(a) = i /\ \A k \in 1 .. i : a[k] = x[k]
    BY <1>2, <2>1
  <2>3. b \in Seq(X) /\ Len(b) = i + 1 /\ \A k \in 1 .. i + 1 : b[k] = x[k]
    BY <1>2, <2>1
  <2>. HIDE DEF a, b
  <2>4. x[i + 1] \in X
    BY <1>1, <2>1
  <2>5. c \in Seq(X) /\ Len(c) = i + 1 /\ c[i + 1] = x[i + 1] /\ \A k \in 1 .. i : c[k] = a[k]
    BY <2>2, <2>4
  <2>. HIDE DEF c
  <2>6. ASSUME NEW k \in 1 .. i + 1
        PROVE  c[k] = b[k]
    <3>1. CASE k = i + 1
      BY <3>1, <2>3, <2>5
    <3>2. CASE k # i + 1
      <4>1. k \in 1 .. i
        BY <3>2
      <4>. QED  BY <4>1, <2>2, <2>3, <2>5
    <3>. QED  BY <3>1, <3>2
  <2>7. c = b
    BY <2>3, <2>5, <2>6
  <2>. QED  BY <2>4, <2>7 DEF a, b, c
<1>. QED  BY <1>1, <1>2, <1>3, <1>4, <1>5

\* w is a field that blocks of type t have.
Own(t, w, g, h) == Read(t, w, g, h) /\ IdOf(w) \in FieldIds(t)

\* Reading the fields s in their order makes g of nothing, and on the way only what is in v.
Reached(t, v, s, g) ==
  /\ s \in Seq(Seq(Byte))
  /\ \E F : /\ F[0] = Blank(t) /\ F[Len(s)] = g
            /\ \A k \in 0 .. Len(s) - 1 : Own(t, s[k + 1], F[k], F[k + 1])
            /\ \A k \in 0 .. Len(s) : Within(t, F[k], v)

LEMMA ReachedNone ==
  ASSUME NEW t, NEW v, Within(t, Blank(t), v)
  PROVE  Reached(t, v, <<>>, Blank(t))
<1>. DEFINE F == [k \in 0 .. 0 |-> Blank(t)]  s == <<>>
<1>1. s \in Seq(Seq(Byte)) /\ Len(s) = 0
  OBVIOUS
<1>2. F[0] = Blank(t)
  OBVIOUS
<1>. HIDE DEF F, s
<1>3. \A k \in 0 .. Len(s) - 1 : Own(t, s[k + 1], F[k], F[k + 1])
  BY <1>1
<1>4. \A k \in 0 .. Len(s) : Within(t, F[k], v)
  <2> SUFFICES ASSUME NEW k \in 0 .. Len(s)
               PROVE  Within(t, F[k], v)
    OBVIOUS
  <2>1. k = 0
    BY <1>1
  <2>. QED  BY <1>2, <2>1
<1>5. F[Len(s)] = Blank(t)
  BY <1>1, <1>2
<1>6. Reached(t, v, s, Blank(t))
  BY <1>1, <1>2, <1>3, <1>4, <1>5 DEF Reached
<1>. QED  BY <1>6 DEF s

LEMMA ReachedMore ==
  ASSUME NEW t, NEW v, NEW s, NEW g, Reached(t, v, s, g),
         NEW w, NEW h, Own(t, w, g, h), Within(t, h, v)
  PROVE  Reached(t, v, Append(s, w), h)
<1>. DEFINE n == Len(s)  u == Append(s, w)
<1>1. PICK F : /\ F[0] = Blank(t) /\ F[n] = g
               /\ \A k \in 0 .. n - 1 : Own(t, s[k + 1], F[k], F[k + 1])
               /\ \A k \in 0 .. n : Within(t, F[k], v)
  BY DEF Reached
<1>2. w \in Seq(Byte) /\ s \in Seq(Seq(Byte))
  BY ReadIs DEF Reached, Own
<1>3. n \in Nat /\ u \in Seq(Seq(Byte)) /\ Len(u) = n + 1 /\ u[n + 1] = w
      /\ \A i \in 1 .. n : u[i] = s[i]
  BY <1>2
<1>. DEFINE E == [k \in 0 .. n + 1 |-> IF k <= n THEN F[k] ELSE h]
<1>. HIDE DEF n, u
<1>4. (\A k \in 0 .. n : E[k] = F[k]) /\ E[n + 1] = h
  <2>1. \A k \in 0 .. n : k \in 0 .. n + 1 /\ k <= n
    BY <1>3
  <2>2. n + 1 \in 0 .. n + 1 /\ ~(n + 1 <= n)
    BY <1>3
  <2>. QED  BY <2>1, <2>2
<1>. HIDE DEF E
<1>5. 0 \in 0 .. n /\ n \in 0 .. n
  BY <1>3
<1>6. ASSUME NEW k \in 0 .. Len(u) - 1
      PROVE  Own(t, u[k + 1], E[k], E[k + 1])
  <2>1. CASE k = n
    BY <1>1, <1>3, <1>4, <1>5, <2>1
  <2>2. CASE k # n
    <3>1. k \in 0 .. n - 1 /\ k \in 0 .. n /\ k + 1 \in 0 .. n /\ k + 1 \in 1 .. n
      BY <1>3, <2>2
    <3>2. u[k + 1] = s[k + 1] /\ E[k] = F[k] /\ E[k + 1] = F[k + 1]
      BY <1>3, <1>4, <3>1
    <3>. QED  BY <1>1, <3>1, <3>2
  <2>. QED  BY <2>1, <2>2
<1>7. ASSUME NEW k \in 0 .. Len(u)
      PROVE  Within(t, E[k], v)
  <2>1. CASE k = n + 1
    BY <1>4, <2>1
  <2>2. CASE k # n + 1
    <3>1. k \in 0 .. n
      BY <1>3, <2>2
    <3>. QED  BY <1>1, <1>4, <3>1
  <2>. QED  BY <2>1, <2>2
<1>8. E[0] = Blank(t) /\ E[Len(u)] = h
  BY <1>1, <1>3, <1>4, <1>5
<1>9. Reached(t, v, u, h)
  BY <1>3, <1>6, <1>7, <1>8 DEF Reached
<1>. QED  BY <1>9 DEF u

\* The fields of v up to the k-th.
Upto(t, v, k) == [id \in FieldIds(t) |-> IF id <= k THEN v[id] ELSE Blank(t)[id]]

\* What a field holds when the next one begins.
LEMMA FieldHolds ==
  ASSUME NEW t \in DOMAIN Schema, NEW v, NEW nested, IsValue(t, v, nested), NEW id \in FieldIds(t)
  PROVE  LET f == Schema[t][id] IN
         /\ FieldLaid(t, id, f) /\ id \in Nat \ {0}
         /\ f.kind = "list" => /\ v[id] \in Seq(nested[f.arg]) /\ f.arg \in DOMAIN Schema
                               /\ Blank(t)[id] = <<>>
         /\ f.kind # "list" /\ v[id] # None => v[id] \in PlainValues(f)
         /\ f.kind # "list" /\ v[id] = None => Blank(t)[id] = None /\ ~f.required
<1>. DEFINE f == Schema[t][id]
<1>1. FieldLaid(t, id, f) /\ id \in Nat \ {0}
  BY SchemaIs DEF SchemaLaid
<1>2. v[id] \in FieldValues(f, nested)
  BY DEF IsValue
<1>3. /\ f.kind = "list" => Blank(t)[id] = <<>>
      /\ f.kind \notin {"list", "size"} => Blank(t)[id] = None
  BY BlankIs
<1>. HIDE DEF f
<1>4. f.kind = "list" => v[id] \in Seq(nested[f.arg]) /\ f.arg \in DOMAIN Schema
  BY <1>1, <1>2 DEF FieldValues, FieldLaid
<1>5. f.kind # "list" /\ v[id] # None => v[id] \in PlainValues(f)
  BY <1>2 DEF FieldValues
<1>6. f.kind # "list" /\ v[id] = None => ~f.required
  <2> SUFFICES ASSUME f.kind # "list", v[id] = None, f.required
               PROVE  FALSE
    OBVIOUS
  <2>1. v[id] \in PlainValues(f)
    BY <1>2 DEF FieldValues
  <2>. QED  BY <1>1, <2>1, KeptIs
<1>7. f.kind # "list" /\ v[id] = None => Blank(t)[id] = None
  BY <1>1, <1>3, <1>6 DEF FieldLaid
<1>. QED  BY <1>1, <1>3, <1>4, <1>5, <1>6, <1>7 DEF f

LEMMA UptoWithin ==
  ASSUME NEW t \in DOMAIN Schema, NEW v, NEW nested, IsValue(t, v, nested), NEW k \in Nat
  PROVE  Within(t, Upto(t, v, k), v)
<1>1. HasFields(t, Upto(t, v, k))
  BY DEF HasFields, Upto
<1> SUFFICES ASSUME NEW id \in FieldIds(t)
             PROVE  IF Schema[t][id].kind = "list"
                    THEN \E i \in 0 .. Len(v[id]) : Upto(t, v, k)[id] = SubSeq(v[id], 1, i)
                    ELSE Upto(t, v, k)[id] = Blank(t)[id] \/ Upto(t, v, k)[id] = v[id]
  BY <1>1 DEF Within
<1>2. Upto(t, v, k)[id] = v[id] \/ Upto(t, v, k)[id] = Blank(t)[id]
  BY DEF Upto
<1>3. CASE Schema[t][id].kind = "list"
  <2>1. v[id] \in Seq(nested[Schema[t][id].arg]) /\ Blank(t)[id] = <<>>
    BY <1>3, FieldHolds
  <2>2. Len(v[id]) \in Nat /\ SubSeq(v[id], 1, 0) = <<>> /\ SubSeq(v[id], 1, Len(v[id])) = v[id]
    BY <2>1, FirstElements
  <2>3. 0 \in 0 .. Len(v[id]) /\ Len(v[id]) \in 0 .. Len(v[id])
    BY <2>2
  <2>. QED  BY <1>2, <1>3, <2>1, <2>2, <2>3
<1>. QED  BY <1>2, <1>3

LEMMA UptoMore ==
  ASSUME NEW t, NEW v, NEW k \in Nat, k + 1 \in FieldIds(t), FieldIds(t) \subseteq Nat
  PROVE  LET id == k + 1  g == Upto(t, v, k) IN
         /\ g[id] = Blank(t)[id] /\ HasFields(t, g)
         /\ [g EXCEPT ![id] = v[id]] = Upto(t, v, id)
         /\ [g EXCEPT ![id] = Blank(t)[id]] = g
<1>. DEFINE id == k + 1  g == Upto(t, v, k)
<1>1. ~(id <= k) /\ id <= id /\ \A i \in FieldIds(t) : i # id => (i <= k <=> i <= id)
  OBVIOUS
<1>. HIDE DEF id
<1>2. id \in FieldIds(t)
  BY DEF id
<1>3. g[id] = Blank(t)[id] /\ HasFields(t, g)
  BY <1>1, <1>2 DEF Upto, HasFields
<1>4. [g EXCEPT ![id] = v[id]] = Upto(t, v, id)
  BY <1>1, <1>2 DEF Upto
<1>5. [g EXCEPT ![id] = Blank(t)[id]] = g
  BY <1>1, <1>2 DEF Upto
<1>. QED  BY <1>3, <1>4, <1>5 DEF id

LEMMA SmallIds ==
  ASSUME NEW t \in DOMAIN Schema, NEW id \in FieldIds(t)
  PROVE  id \in 0 .. Word - 1 /\ id \in Nat \ {0}
<1>1. id \in 1 .. 5
  <2>. DEFINE l == Len(Schema[t])
  <2>1. FieldIds(t) = 1 .. l /\ l \in 2 .. 5
    BY SchemaIs DEF SchemaLaid
  <2>. HIDE DEF l
  <2>2. id \in 1 .. l
    BY <2>1
  <2>. QED  BY <2>1, <2>2
<1>. QED  BY <1>1, BlockTypesAssumption, VarintAssumption

\* A field that is no list is written so that it is read as it was.
LEMMA PlainRead ==
  ASSUME NEW t \in DOMAIN Schema, NEW id \in FieldIds(t), Schema[t][id].kind # "list",
         NEW x \in PlainValues(Schema[t][id]), NEW g
  PROVE  Own(t, IF IsNumber(Schema[t][id].kind) THEN EncodeVarintField(id, x)
                ELSE EncodeBytesField(id, x), g, [g EXCEPT ![id] = x])
<1>. DEFINE f == Schema[t][id]
<1>1. FieldLaid(t, id, f) /\ id \in 0 .. Word - 1 /\ f.kind # "list"
  BY SchemaIs, SmallIds DEF SchemaLaid
<1>2. x \in PlainValues(f)
  OBVIOUS
<1>. HIDE DEF f
<1>3. PayloadIn(IsNumber(f.kind), x) /\ ~Refuses(f, x) /\ Accepted(f, x) = x
  BY <1>1, <1>2, KeptIs
<1>4. IsNumber(f.kind) \in BOOLEAN
  BY DEF IsNumber
<1>5. CASE IsNumber(f.kind)
  <2>. DEFINE w == EncodeVarintField(id, x)
  <2>1. x \in 0 .. Word - 1
    BY <1>3, <1>5 DEF PayloadIn
  <2>2. Shaped(w, id, Scalar, TRUE, x)
    BY <1>1, <2>1, NumberShaped
  <2>3. IdOf(w) = id
    BY <2>2, IdRead
  <2>. HIDE DEF w
  <2>4. Effect(t, id, Scalar, TRUE, x, g, [g EXCEPT ![id] = x])
    BY <1>1, <1>3, <1>5 DEF Effect, f
  <2>. QED  BY <1>5, <2>2, <2>3, <2>4 DEF Own, Read, f, w
<1>6. CASE ~IsNumber(f.kind)
  <2>. DEFINE w == EncodeBytesField(id, x)
  <2>1. x \in Seq(Byte)
    BY <1>3, <1>6 DEF PayloadIn
  <2>2. Shaped(w, id, Bytes, FALSE, x)
    BY <1>1, <2>1, BytesShaped
  <2>3. IdOf(w) = id
    BY <2>2, IdRead
  <2>. HIDE DEF w
  <2>4. Effect(t, id, Bytes, FALSE, x, g, [g EXCEPT ![id] = x])
    BY <1>1, <1>3, <1>6 DEF Effect, f
  <2>. QED  BY <1>6, <2>2, <2>3, <2>4 DEF Own, Read, f, w
<1>. QED  BY <1>5, <1>6

LEMMA ElementRead ==
  ASSUME NEW t \in DOMAIN Schema, NEW id \in FieldIds(t), Schema[t][id].kind = "list",
         NEW n \in Nat, NEW el \in Values[n][Schema[t][id].arg], NEW g
  PROVE  Own(t, EncodeNestedField(id, Encode[n][Schema[t][id].arg][el]), g,
             [g EXCEPT ![id] = Append(g[id], el)])
<1>. DEFINE u == Schema[t][id].arg  x == Encode[n][u][el]  w == EncodeNestedField(id, x)
<1>1. id \in 0 .. Word - 1 /\ u \in DOMAIN Schema
  BY SchemaIs, SmallIds DEF SchemaLaid, FieldLaid
<1>2. el \in Values[n][u]
  OBVIOUS
<1>3. x \in Seq(Byte)
  BY <1>1, <1>2, EncodeIsBytes DEF Encodes
<1>4. n \in Nat \ {0}
  <2>1. n # 0
    BY <1>1, <1>2, NoValues
  <2>. QED  BY <2>1
<1>5. Element(u, el, x)
  BY <1>2, <1>4 DEF Element
<1>. HIDE DEF x
<1>6. Shaped(w, id, Nested, FALSE, x)
  BY <1>1, <1>3, BytesShaped
<1>7. IdOf(w) = id
  BY <1>6, IdRead
<1>8. Effect(t, id, Nested, FALSE, x, g, [g EXCEPT ![id] = Append(g[id], el)])
  BY <1>5 DEF Effect
<1>. HIDE DEF w
<1>9. Own(t, w, g, [g EXCEPT ![id] = Append(g[id], el)])
  BY <1>6, <1>7, <1>8 DEF Own, Read
<1>. QED  BY <1>9 DEF w, x

\* It is the same to append w to a, and to s with a behind it.
AppendsOn(s, a, w) == Append(s \o a, w) = s \o Append(a, w)

LEMMA AppendJoin ==
  ASSUME NEW X, NEW s \in Seq(X), NEW a \in Seq(X), NEW w \in X
  PROVE  AppendsOn(s, a, w)
<1>. DEFINE l == Append(s \o a, w)  r == s \o Append(a, w)
<1>1. l \in Seq(X) /\ r \in Seq(X) /\ Len(l) = Len(r) /\ \A i \in 1 .. Len(l) : l[i] = r[i]
  OBVIOUS
<1>. HIDE DEF l, r
<1>2. l = r
  BY <1>1
<1>. QED  BY <1>2 DEF l, r, AppendsOn

\* A list is read element by element.
LEMMA ListReached ==
  ASSUME NEW t \in DOMAIN Schema, NEW n \in Nat, NEW v, IsValue(t, v, Values[n]),
         NEW k \in Nat, k + 1 \in FieldIds(t), Schema[t][k + 1].kind = "list",
         NEW s, Reached(t, v, s, Upto(t, v, k))
  PROVE  Reached(t, v, s \o FieldParts(Schema[t][k + 1], k + 1, v[k + 1], Encode[n]),
                 Upto(t, v, k + 1))
<1>. DEFINE id == k + 1  f == Schema[t][id]  y == v[id]  u == f.arg  l == Len(y)
            S == FieldParts(f, id, y, Encode[n])  g == Upto(t, v, k)
            h(i) == [g EXCEPT ![id] = SubSeq(y, 1, i)]
            Good(i) == i <= l => Reached(t, v, s \o SubSeq(S, 1, i), h(i))
            T == {i \in Nat : Good(i)}
<1>1. id \in FieldIds(t) /\ f.kind = "list" /\ id \in Nat
  OBVIOUS
<1>2. y \in Seq(Values[n][u]) /\ u \in DOMAIN Schema /\ Blank(t)[id] = <<>>
  BY <1>1, FieldHolds
<1>3. S \in Seq(Seq(Byte))
  BY <1>1, FieldPartsTyped, EncodeIsBytes DEF IsValue
<1>4. l \in Nat /\ Len(S) = l /\ \A i \in 1 .. l : S[i] = EncodeNestedField(id, Encode[n][u][y[i]])
  <2>1. S = [i \in DOMAIN y |-> EncodeNestedField(id, Encode[n][u][y[i]])]
    BY <1>1 DEF FieldParts
  <2>2. DOMAIN y = 1 .. l /\ l \in Nat
    BY <1>2
  <2>. HIDE DEF S
  <2>. QED  BY <1>3, <2>1, <2>2
<1>5. /\ g[id] = Blank(t)[id] /\ HasFields(t, g) /\ [g EXCEPT ![id] = y] = Upto(t, v, id)
      /\ [g EXCEPT ![id] = Blank(t)[id]] = g
  <2>1. FieldIds(t) \subseteq Nat
    BY SmallIds
  <2>. QED  BY <1>1, <2>1, UptoMore
<1>6. Within(t, g, v)
  BY UptoWithin
<1>7. s \in Seq(Seq(Byte)) /\ Reached(t, v, s, g)
  BY DEF Reached
<1>. HIDE DEF id, f, y, u, S, g
<1>8. ASSUME NEW i \in 0 .. l
      PROVE  Within(t, h(i), v) /\ HasFields(t, h(i)) /\ h(i)[id] = SubSeq(y, 1, i)
  <2>1. /\ HasFields(t, h(i)) /\ h(i)[id] = SubSeq(y, 1, i)
        /\ \A j \in FieldIds(t) : j # id => h(i)[j] = g[j]
    <3>. DEFINE z == SubSeq(y, 1, i)
    <3>. HIDE DEF z
    <3>1. /\ HasFields(t, [g EXCEPT ![id] = z]) /\ [g EXCEPT ![id] = z][id] = z
          /\ \A j \in FieldIds(t) : j # id => [g EXCEPT ![id] = z][j] = g[j]
      <4>1. id \in FieldIds(t) /\ HasFields(t, g)
        BY <1>1, <1>5
      <4>. QED  BY <4>1 DEF HasFields
    <3>. QED  BY <3>1 DEF z
  <2>2. ASSUME NEW j \in FieldIds(t)
        PROVE  IF Schema[t][j].kind = "list"
               THEN \E e \in 0 .. Len(v[j]) : h(i)[j] = SubSeq(v[j], 1, e)
               ELSE h(i)[j] = Blank(t)[j] \/ h(i)[j] = v[j]
    <3>1. CASE j = id
      BY <2>1, <3>1, <1>1 DEF f, y, l
    <3>2. CASE j # id
      BY <2>1, <3>2, <1>6 DEF Within
    <3>. QED  BY <3>1, <3>2
  <2>. QED  BY <2>1, <2>2 DEF Within
<1>9. 0 \in T
  <2>1. SubSeq(S, 1, 0) = <<>> /\ SubSeq(y, 1, 0) = <<>>
    BY <1>2, <1>3, FirstElements
  <2>2. s \o <<>> = s
    BY <1>7
  <2>3. h(0) = g
    BY <1>2, <1>5, <2>1
  <2>. QED  BY <1>7, <2>1, <2>2, <2>3
<1>10. ASSUME NEW i \in Nat, i \in T
       PROVE  i + 1 \in T
  <2> SUFFICES ASSUME i + 1 <= l
               PROVE  Reached(t, v, s \o SubSeq(S, 1, i + 1), h(i + 1))
    OBVIOUS
  <2>1. i \in 0 .. l - 1 /\ i \in 0 .. l /\ i + 1 \in 0 .. l /\ i + 1 \in 1 .. l /\ i <= l
    BY <1>4
  <2>2. Reached(t, v, s \o SubSeq(S, 1, i), h(i))
    BY <1>10, <2>1
  <2>. DEFINE el == y[i + 1]  w == S[i + 1]  a == SubSeq(S, 1, i)  b == SubSeq(S, 1, i + 1)
  <2>3. el \in Values[n][u] /\ Append(SubSeq(y, 1, i), el) = SubSeq(y, 1, i + 1)
    BY <1>2, <2>1, FirstElements DEF l
  <2>4. w \in Seq(Byte) /\ a \in Seq(Seq(Byte)) /\ Append(a, w) = b
    BY <1>3, <1>4, <2>1, FirstElements
  <2>5. w = EncodeNestedField(id, Encode[n][u][el])
    BY <1>4, <2>1
  <2>6. h(i)[id] = SubSeq(y, 1, i) /\ HasFields(t, h(i)) /\ Within(t, h(i + 1), v)
    BY <1>8, <2>1
  <2>. HIDE DEF w, el, a, b
  <2>7. Own(t, w, h(i), [h(i) EXCEPT ![id] = Append(h(i)[id], el)])
    BY <1>1, <2>3, <2>5, ElementRead DEF f, u
  <2>8. [h(i) EXCEPT ![id] = Append(h(i)[id], el)] = h(i + 1)
    <3>1. Append(h(i)[id], el) = SubSeq(y, 1, i + 1)
      BY <2>3, <2>6
    <3>2. [h(i) EXCEPT ![id] = SubSeq(y, 1, i + 1)] = h(i + 1)
      OBVIOUS
    <3>. QED  BY <3>1, <3>2
  <2>9. Reached(t, v, Append(s \o a, w), h(i + 1))
    <3>1. Reached(t, v, s \o a, h(i))
      BY <2>2 DEF a
    <3>2. Own(t, w, h(i), h(i + 1))
      BY <2>7, <2>8
    <3>. HIDE DEF h
    <3>. QED  BY <3>1, <3>2, <2>6, ReachedMore
  <2>10. Append(s \o a, w) = s \o b
    <3>1. Append(s \o a, w) = s \o Append(a, w)
      <4>1. s \in Seq(Seq(Byte)) /\ a \in Seq(Seq(Byte)) /\ w \in Seq(Byte)
        BY <1>7, <2>4
      <4>2. AppendsOn(s, a, w)
        BY <4>1, AppendJoin
      <4>. QED  BY <4>2 DEF AppendsOn
    <3>. QED  BY <2>4, <3>1
  <2>. QED  BY <2>9, <2>10 DEF b
<1>11. Nat \subseteq T
  <2>. HIDE DEF T
  <2>. QED  BY <1>9, <1>10, NatUpward
<1>12. Reached(t, v, s \o SubSeq(S, 1, l), h(l))
  <2>1. l \in T /\ l <= l
    BY <1>4, <1>11
  <2>. QED  BY <2>1
<1>13. SubSeq(S, 1, l) = S /\ SubSeq(y, 1, l) = y
  BY <1>2, <1>3, <1>4, FirstElements DEF l
<1>14. h(l) = Upto(t, v, id)
  BY <1>5, <1>13
<1>15. Reached(t, v, s \o S, Upto(t, v, id))
  BY <1>12, <1>13, <1>14
<1>. QED  BY <1>15 DEF S, id, f, y

LEMMA FieldReached ==
  ASSUME NEW t \in DOMAIN Schema, NEW n \in Nat, NEW v, IsValue(t, v, Values[n]),
         NEW k \in Nat, k + 1 \in FieldIds(t), NEW s, Reached(t, v, s, Upto(t, v, k))
  PROVE  Reached(t, v, s \o FieldParts(Schema[t][k + 1], k + 1, v[k + 1], Encode[n]),
                 Upto(t, v, k + 1))
<1>. DEFINE id == k + 1  f == Schema[t][id]  g == Upto(t, v, k)
            S == FieldParts(f, id, v[id], Encode[n])
<1>1. CASE f.kind = "list"
  BY <1>1, ListReached
<1>2. id \in FieldIds(t) /\ id \in Nat
  OBVIOUS
<1>3. /\ g[id] = Blank(t)[id] /\ HasFields(t, g) /\ [g EXCEPT ![id] = v[id]] = Upto(t, v, id)
      /\ [g EXCEPT ![id] = Blank(t)[id]] = g
  <2>1. FieldIds(t) \subseteq Nat
    BY SmallIds
  <2>. QED  BY <1>2, <2>1, UptoMore
<1>4. Reached(t, v, s, g)
  OBVIOUS
<1>. HIDE DEF id, g
<1>5. /\ f.kind # "list" /\ v[id] # None => v[id] \in PlainValues(f)
      /\ f.kind # "list" /\ v[id] = None => Blank(t)[id] = None
  BY <1>2, FieldHolds
<1>6. s \in Seq(Seq(Byte))
  BY <1>4 DEF Reached
<1>7. CASE f.kind # "list" /\ v[id] = None
  <2>1. S = <<>>
    BY <1>7 DEF FieldParts
  <2>2. s \o <<>> = s
    BY <1>6
  <2>3. Upto(t, v, id) = g
    BY <1>3, <1>5, <1>7
  <2>4. Reached(t, v, s \o S, Upto(t, v, id))
    BY <1>4, <2>1, <2>2, <2>3
  <2>. QED  BY <2>4 DEF id
<1>8. CASE f.kind # "list" /\ v[id] # None
  <2>. DEFINE w == IF IsNumber(f.kind) THEN EncodeVarintField(id, v[id]) ELSE EncodeBytesField(id, v[id])
  <2>1. S = <<w>>
    BY <1>8 DEF FieldParts
  <2>2. Own(t, w, g, [g EXCEPT ![id] = v[id]])
    BY <1>2, <1>5, <1>8, PlainRead
  <2>3. Own(t, w, g, Upto(t, v, id))
    BY <1>3, <2>2
  <2>. HIDE DEF w
  <2>4. Within(t, Upto(t, v, id), v)
    BY <1>2, UptoWithin
  <2>5. Reached(t, v, Append(s, w), Upto(t, v, id))
    BY <1>4, <2>3, <2>4, ReachedMore
  <2>6. Append(s, w) = s \o <<w>>
    BY <1>6, <2>3, ReadIs DEF Own
  <2>7. Reached(t, v, s \o S, Upto(t, v, id))
    BY <2>1, <2>5, <2>6
  <2>. QED  BY <2>7 DEF id
<1>. QED  BY <1>1, <1>7, <1>8

LEMMA PartsReached ==
  ASSUME NEW t \in DOMAIN Schema, NEW n \in Nat, NEW v, IsValue(t, v, Values[n])
  PROVE  Reached(t, v, Parts(t, v, Encode[n]), v)
<1>. DEFINE l == Len(Schema[t])  S == ByField(t, v, Encode[n])
<1>1. l \in Nat /\ FieldIds(t) = 1 .. l
  BY SchemaIs DEF SchemaLaid
<1>2. PICK p : Chained(Seq(Byte), p, S, l) /\ Parts(t, v, Encode[n]) = p[l]
  BY PartsAre, EncodeIsBytes
<1>3. \A id \in 1 .. l : S[id] = FieldParts(Schema[t][id], id, v[id], Encode[n])
  BY <1>1 DEF ByField
<1>. HIDE DEF l, S
<1>4. p[0] = <<>> /\ \A k \in 0 .. l - 1 : p[k + 1] = p[k] \o S[k + 1]
  BY <1>2 DEF Chained
<1>. DEFINE T == {k \in Nat : k <= l => Reached(t, v, p[k], Upto(t, v, k))}
<1>5. 0 \in T
  <2>1. Upto(t, v, 0) = Blank(t)
    <3>1. Upto(t, v, 0) = [id \in FieldIds(t) |-> Blank(t)[id]]
      BY <1>1 DEF Upto
    <3>2. HasFields(t, Blank(t))
      BY BlankIs
    <3>. QED  BY <3>1, <3>2 DEF HasFields
  <2>2. Within(t, Upto(t, v, 0), v)
    BY UptoWithin
  <2>3. Reached(t, v, <<>>, Blank(t))
    BY <2>1, <2>2, ReachedNone
  <2>. QED  BY <1>4, <2>1, <2>3
<1>6. ASSUME NEW k \in Nat, k \in T
      PROVE  k + 1 \in T
  <2> SUFFICES ASSUME k + 1 <= l
               PROVE  Reached(t, v, p[k + 1], Upto(t, v, k + 1))
    OBVIOUS
  <2>1. k \in 0 .. l - 1 /\ k <= l /\ k + 1 \in 1 .. l /\ k + 1 \in FieldIds(t)
    BY <1>1
  <2>2. Reached(t, v, p[k], Upto(t, v, k))
    BY <1>6, <2>1
  <2>3. Reached(t, v, p[k] \o FieldParts(Schema[t][k + 1], k + 1, v[k + 1], Encode[n]),
                Upto(t, v, k + 1))
    BY <2>1, <2>2, FieldReached
  <2>. QED  BY <1>3, <1>4, <2>1, <2>3
<1>7. Nat \subseteq T
  <2>. HIDE DEF T
  <2>. QED  BY <1>5, <1>6, NatUpward
<1>8. Reached(t, v, p[l], Upto(t, v, l))
  <2>1. l \in T /\ l <= l
    BY <1>1, <1>7
  <2>. QED  BY <2>1
<1>9. Upto(t, v, l) = v
  <2>1. \A id \in FieldIds(t) : id <= l
    BY <1>1
  <2>2. v = [id \in FieldIds(t) |-> v[id]]
    BY DEF IsValue, HasFields
  <2>. QED  BY <2>1, <2>2 DEF Upto
<1>. QED  BY <1>2, <1>8, <1>9

\* s is the fields of v, as an encoder writes them.
Written(t, s, F, v) ==
  /\ F[0] = Blank(t) /\ Reads(t, s, F, v, TRUE)
  /\ \A k \in 0 .. Len(s) - 1 : IdOf(s[k + 1]) \in FieldIds(t)

LEMMA PartsRead ==
  ASSUME NEW t \in DOMAIN Schema, NEW n \in Nat, NEW v, IsValue(t, v, Values[n])
  PROVE  \E F : Written(t, Parts(t, v, Encode[n]), F, v)
<1>. DEFINE s == Parts(t, v, Encode[n])
<1>1. Reached(t, v, s, v)
  BY PartsReached
<1>. HIDE DEF s
<1>2. PICK F : /\ F[0] = Blank(t) /\ F[Len(s)] = v
               /\ \A k \in 0 .. Len(s) - 1 : Own(t, s[k + 1], F[k], F[k + 1])
               /\ \A k \in 0 .. Len(s) : Within(t, F[k], v)
  BY <1>1 DEF Reached
<1>3. Reads(t, s, F, v, TRUE)
  BY <1>1, <1>2 DEF Reached, Reads, Own
<1>4. \A k \in 0 .. Len(s) - 1 : IdOf(s[k + 1]) \in FieldIds(t)
  BY <1>2 DEF Own
<1>5. Written(t, s, F, v)
  BY <1>2, <1>3, <1>4 DEF Written
<1>. QED  BY <1>5 DEF s

\* A block is complete, and made of itself.
LEMMA WholeIs ==
  ASSUME NEW t \in DOMAIN Schema, NEW nested, NEW v, IsValue(t, v, nested)
  PROVE  ~Missing(t, v) /\ Assembled(t, v) = v
<1>1. ~Missing(t, v)
  <2> SUFFICES ASSUME NEW id \in FieldIds(t), Schema[t][id].required, v[id] = None
               PROVE  FALSE
    BY DEF Missing
  <2>1. FieldLaid(t, id, Schema[t][id])
    BY SchemaIs DEF SchemaLaid
  <2>2. Schema[t][id].kind # "list"
    BY <2>1 DEF FieldLaid
  <2>. QED  BY <2>2, FieldHolds
<1>2. Assembled(t, v) = v
  <2>1. CASE t = "Code" /\ None \in {v[4], v[5]}
    <3>1. v[4] = None /\ v[5] = None
      BY <2>1 DEF IsValue
    <3>2. [v EXCEPT ![4] = None, ![5] = None] = v
      <4>1. v = [id \in FieldIds(t) |-> v[id]]
        BY DEF IsValue, HasFields
      <4>. QED  BY <3>1, <4>1
    <3>. QED  BY <2>1, <3>2 DEF Assembled
  <2>2. CASE ~(t = "Code" /\ None \in {v[4], v[5]})
    BY <2>2 DEF Assembled
  <2>. QED  BY <2>1, <2>2
<1>. QED  BY <1>1, <1>2

\* The block el makes itself of its encoding x.
Restored(u, el, x) ==
  /\ x \in Seq(Byte) /\ Leads(u, x, Blank(u), el, FALSE)
  /\ ~Missing(u, el) /\ Assembled(u, el) = el

LEMMA ElementRestored ==
  ASSUME NEW u \in DOMAIN Schema, NEW el, NEW x, Element(u, el, x)
  PROVE  Restored(u, el, x)
<1>1. PICK n \in Nat \ {0} : el \in Values[n][u] /\ x = Encode[n][u][el]
  BY DEF Element
<1>2. x = FlattenSeq(Parts(u, el, Encode[n - 1]))
  BY <1>1, EncodeUnfolds
<1>. DEFINE m == n - 1
<1>3. m \in Nat /\ IsValue(u, el, Values[m])
  BY <1>1, ValuesAre
<1>. HIDE DEF m
<1>. DEFINE s == Parts(u, el, Encode[m])
<1>4. PICK F : Written(u, s, F, el)
  BY <1>3, PartsRead
<1>. HIDE DEF s
<1>5. Reads(u, s, F, el, FALSE)
  BY <1>4 DEF Written, Reads
<1>6. Leads(u, FlattenSeq(s), F[0], el, FALSE)
  BY <1>5, ReadsLead
<1>7. ~Missing(u, el) /\ Assembled(u, el) = el
  BY <1>3, WholeIs
<1>8. x = FlattenSeq(s)
  BY <1>2 DEF s, m
<1>9. FlattenSeq(s) \in Seq(Byte)
  BY <1>5, FlatTyped DEF Reads
<1>. QED  BY <1>4, <1>6, <1>7, <1>8, <1>9 DEF Restored, Written
-----------------------------------------------------------------------------
(* Other producers' bodies make the same block.                            *)

\* A field of the body touches no field of the block but its own.
LEMMA ReadFrame ==
  ASSUME NEW t \in DOMAIN Schema, NEW w, NEW g, NEW h, Read(t, w, g, h), HasFields(t, g)
  PROVE  /\ HasFields(t, h)
         /\ \A d \in FieldIds(t) : d # IdOf(w) => h[d] = g[d]
<1>. DEFINE id == IdOf(w)
<1>1. PICK wt, scalar, x : Effect(t, id, wt, scalar, x, g, h)
  BY DEF Read
<1>. HIDE DEF id
<1>2. ASSUME NEW y, h = [g EXCEPT ![id] = y]
      PROVE  HasFields(t, h) /\ \A d \in FieldIds(t) : d # id => h[d] = g[d]
  BY <1>2 DEF HasFields
<1>3. HasFields(t, h) /\ \A d \in FieldIds(t) : d # id => h[d] = g[d]
  <2>1. CASE id \notin FieldIds(t)
    BY <1>1, <2>1 DEF Effect
  <2>2. CASE id \in FieldIds(t) /\ Schema[t][id].kind = "list"
    <3>1. PICK el : h = [g EXCEPT ![id] = Append(g[id], el)]
      BY <1>1, <2>2 DEF Effect
    <3>. QED  BY <3>1, <1>2
  <2>3. CASE id \in FieldIds(t) /\ Schema[t][id].kind # "list"
    <3>1. h = [g EXCEPT ![id] = Accepted(Schema[t][id], x)]
      BY <1>1, <2>3 DEF Effect
    <3>. QED  BY <3>1, <1>2
  <2>. QED  BY <2>1, <2>2, <2>3
<1>. QED  BY <1>3 DEF id

\* e makes b of a as it makes h of g: only field id changes, and becomes the same.
Alone(t, id, g, h, a, b) ==
  /\ HasFields(t, g) /\ HasFields(t, a) /\ HasFields(t, b)
  /\ id \in FieldIds(t) => /\ b[id] = h[id]
                           /\ Schema[t][id].kind = "list" => a[id] = g[id]
  /\ \A d \in FieldIds(t) : d # id => b[d] = a[d]

LEMMA ReadLocal ==
  ASSUME NEW t \in DOMAIN Schema, NEW w, NEW g, NEW h, Read(t, w, g, h),
         NEW a, NEW b, Alone(t, IdOf(w), g, h, a, b)
  PROVE  Read(t, w, a, b)
<1>. DEFINE id == IdOf(w)
<1>1. PICK wt, scalar, x : Shaped(w, id, wt, scalar, x) /\ Effect(t, id, wt, scalar, x, g, h)
  BY DEF Read
<1>2. Alone(t, id, g, h, a, b)
  OBVIOUS
<1>. HIDE DEF id
<1>3. a = [d \in FieldIds(t) |-> a[d]] /\ b = [d \in FieldIds(t) |-> b[d]]
      /\ g = [d \in FieldIds(t) |-> g[d]]
  BY <1>2 DEF Alone, HasFields
<1>4. ASSUME NEW y, id \in FieldIds(t), h = [g EXCEPT ![id] = y]
      PROVE  b = [a EXCEPT ![id] = y]
  <2>1. b[id] = y /\ \A d \in FieldIds(t) : d # id => b[d] = a[d]
    BY <1>2, <1>3, <1>4 DEF Alone
  <2>. QED  BY <1>3, <2>1
<1>5. Effect(t, id, wt, scalar, x, a, b)
  <2>1. CASE id \notin FieldIds(t)
    <3>1. \A d \in FieldIds(t) : b[d] = a[d]
      BY <1>2, <2>1 DEF Alone
    <3>2. b = a
      BY <1>3, <3>1
    <3>. QED  BY <1>1, <2>1, <3>2 DEF Effect
  <2>2. CASE id \in FieldIds(t) /\ Schema[t][id].kind = "list"
    <3>1. ~scalar /\ \E el : /\ Element(Schema[t][id].arg, el, x)
                             /\ h = [g EXCEPT ![id] = Append(g[id], el)]
      BY <1>1, <2>2 DEF Effect
    <3>2. PICK el : Element(Schema[t][id].arg, el, x) /\ h = [g EXCEPT ![id] = Append(g[id], el)]
      BY <3>1
    <3>3. b = [a EXCEPT ![id] = Append(g[id], el)]
      BY <1>4, <2>2, <3>2
    <3>4. a[id] = g[id]
      BY <1>2, <2>2 DEF Alone
    <3>. QED  BY <2>2, <3>1, <3>2, <3>3, <3>4 DEF Effect
  <2>3. CASE id \in FieldIds(t) /\ Schema[t][id].kind # "list"
    <3>1. /\ scalar <=> IsNumber(Schema[t][id].kind)
          /\ ~Refuses(Schema[t][id], x) /\ h = [g EXCEPT ![id] = Accepted(Schema[t][id], x)]
      BY <1>1, <2>3 DEF Effect
    <3>2. b = [a EXCEPT ![id] = Accepted(Schema[t][id], x)]
      BY <1>4, <2>3, <3>1
    <3>. QED  BY <2>3, <3>1, <3>2 DEF Effect
  <2>. QED  BY <2>1, <2>2, <2>3
<1>6. Read(t, w, a, b)
  BY <1>1, <1>5 DEF Read, id
<1>. QED  BY <1>6

\* Sequences with an element inserted, replaced, or moved to the front.
HasInserted(q, X, s, i, e) ==
  /\ q \in Seq(X) /\ Len(q) = Len(s) + 1 /\ q[i] = e
  /\ \A j \in 1 .. i - 1 : q[j] = s[j]
  /\ \A j \in i .. Len(s) : q[j + 1] = s[j]

HasReplaced(q, X, s, i, e) ==
  /\ q \in Seq(X) /\ Len(q) = Len(s) /\ q[i] = e
  /\ \A j \in 1 .. Len(s) : j # i => q[j] = s[j]

HasMoved(q, X, s, i) ==
  /\ q \in Seq(X) /\ Len(q) = Len(s) /\ q[1] = s[i]
  /\ \A j \in 1 .. i - 1 : q[j + 1] = s[j]
  /\ \A j \in i + 1 .. Len(s) : q[j] = s[j]

\* q is a and behind it b.
HasJoined(q, X, a, b) ==
  /\ q \in Seq(X) /\ Len(q) = Len(a) + Len(b) /\ Len(a) \in Nat /\ Len(b) \in Nat
  /\ \A j \in 1 .. Len(a) : q[j] = a[j]
  /\ \A j \in 1 .. Len(b) : q[Len(a) + j] = b[j]

LEMMA JoinHas ==
  ASSUME NEW X, NEW a \in Seq(X), NEW b \in Seq(X)
  PROVE  HasJoined(a \o b, X, a, b)
<1>. DEFINE q == a \o b
<1>1. /\ q \in Seq(X) /\ Len(q) = Len(a) + Len(b) /\ Len(a) \in Nat /\ Len(b) \in Nat
      /\ \A j \in 1 .. Len(a) : q[j] = a[j]
      /\ \A j \in 1 .. Len(b) : q[Len(a) + j] = b[j]
  OBVIOUS
<1>. HIDE DEF q
<1>2. HasJoined(q, X, a, b)
  BY <1>1 DEF HasJoined
<1>. QED  BY <1>2 DEF q

\* The elements before the i-th, and those from it on.
LEMMA HalvesAre ==
  ASSUME NEW X, NEW s \in Seq(X), NEW i \in 1 .. Len(s) + 1
  PROVE  LET a == SubSeq(s, 1, i - 1)  b == SubSeq(s, i, Len(s)) IN
         /\ Len(s) \in Nat /\ i \in Nat
         /\ a \in Seq(X) /\ Len(a) = i - 1 /\ \A j \in 1 .. i - 1 : a[j] = s[j]
         /\ b \in Seq(X) /\ Len(b) = (Len(s) - i) + 1
         /\ \A j \in 1 .. (Len(s) - i) + 1 : b[j] = s[(i - 1) + j]
<1>. DEFINE l == Len(s)
<1>1. l \in Nat /\ i \in 1 .. l + 1
  OBVIOUS
<1>2. SubSeq(s, 1, i - 1) \in Seq(X) /\ Len(SubSeq(s, 1, i - 1)) = i - 1
      /\ \A j \in 1 .. i - 1 : SubSeq(s, 1, i - 1)[j] = s[j]
  OBVIOUS
<1>3. SubSeq(s, i, l) \in Seq(X) /\ Len(SubSeq(s, i, l)) = (l - i) + 1
      /\ \A j \in 1 .. (l - i) + 1 : SubSeq(s, i, l)[j] = s[(i - 1) + j]
  OBVIOUS
<1>. QED  BY <1>1, <1>2, <1>3

LEMMA InsertIs ==
  ASSUME NEW X, NEW s \in Seq(X), NEW i \in 1 .. Len(s) + 1, NEW e \in X
  PROVE  HasInserted(InsertAt(s, i, e), X, s, i, e)
<1>. DEFINE a == SubSeq(s, 1, i - 1)  b == SubSeq(s, i, Len(s))  c == a \o <<e>>  q == c \o b
            l == Len(s)
<1>1. /\ l \in Nat /\ i \in Nat /\ i >= 1 /\ i <= l + 1
      /\ a \in Seq(X) /\ Len(a) = i - 1 /\ \A j \in 1 .. i - 1 : a[j] = s[j]
      /\ b \in Seq(X) /\ Len(b) = (l - i) + 1
      /\ \A j \in 1 .. (l - i) + 1 : b[j] = s[(i - 1) + j]
  BY HalvesAre
<1>2. q = InsertAt(s, i, e)
  BY DEF InsertAt
<1>. HIDE DEF a, b, l
<1>3. c \in Seq(X) /\ Len(c) = i /\ c[i] = e /\ \A j \in 1 .. i - 1 : c[j] = a[j]
  <2>. DEFINE o == <<e>>
  <2>1. o \in Seq(X) /\ Len(o) = 1 /\ o[1] = e
    OBVIOUS
  <2>. HIDE DEF o
  <2>. DEFINE z == a \o o
  <2>2. HasJoined(z, X, a, o)
    BY <1>1, <2>1, JoinHas
  <2>. HIDE DEF z
  <2>3. z \in Seq(X) /\ Len(z) = Len(a) + Len(o)
        /\ (\A j \in 1 .. Len(a) : z[j] = a[j])
        /\ \A j \in 1 .. Len(o) : z[Len(a) + j] = o[j]
    BY <2>2 DEF HasJoined
  <2>4. z \in Seq(X) /\ Len(z) = i /\ z[i] = e /\ \A j \in 1 .. i - 1 : z[j] = a[j]
    <3>1. (i - 1) + 1 = i
      BY <1>1
    <3>. QED  BY <1>1, <2>1, <2>3, <3>1 DEF z
  <2>. QED  BY <2>4 DEF z, o
<1>. HIDE DEF c
<1>4. q \in Seq(X) /\ Len(q) = Len(c) + Len(b)
      /\ (\A j \in 1 .. Len(c) : q[j] = c[j])
      /\ \A j \in 1 .. Len(b) : q[Len(c) + j] = b[j]
  BY <1>1, <1>3, JoinedIs
<1>. HIDE DEF q
<1>5. Len(q) = l + 1 /\ q[i] = e
  BY <1>1, <1>3, <1>4
<1>6. \A j \in 1 .. i - 1 : q[j] = s[j]
  BY <1>1, <1>3, <1>4
<1>7. ASSUME NEW j \in i .. l
      PROVE  q[j + 1] = s[j]
  <2>. DEFINE o == j - (i - 1)
  <2>1. o \in 1 .. (l - i) + 1 /\ i + o = j + 1 /\ (i - 1) + o = j
    BY <1>1
  <2>. HIDE DEF o
  <2>2. b[o] = s[(i - 1) + o] /\ q[Len(c) + o] = b[o]
    BY <2>1, <1>1, <1>4
  <2>. QED  BY <2>1, <2>2, <1>3
<1>8. HasInserted(q, X, s, i, e)
  BY <1>4, <1>5, <1>6, <1>7 DEF HasInserted, l
<1>. QED  BY <1>2, <1>8

LEMMA ReplaceIs ==
  ASSUME NEW X, NEW s \in Seq(X), NEW i \in 1 .. Len(s), NEW e \in X
  PROVE  HasReplaced(ReplaceAt(s, i, e), X, s, i, e)
<1>. DEFINE q == [s EXCEPT ![i] = e]
<1>1. q \in Seq(X) /\ Len(q) = Len(s) /\ q[i] = e
      /\ \A j \in 1 .. Len(s) : j # i => q[j] = s[j]
  OBVIOUS
<1>2. q = ReplaceAt(s, i, e)
  BY DEF ReplaceAt
<1>. HIDE DEF q
<1>3. HasReplaced(q, X, s, i, e)
  BY <1>1 DEF HasReplaced
<1>. QED  BY <1>2, <1>3

LEMMA MoveIs ==
  ASSUME NEW X, NEW s \in Seq(X), NEW i \in 1 .. Len(s)
  PROVE  HasMoved(<<s[i]>> \o RemoveAt(s, i), X, s, i)
<1>. DEFINE l == Len(s)  a == SubSeq(s, 1, i - 1)  b == SubSeq(s, i + 1, l)  c == a \o b
            o == <<s[i]>>  q == o \o c
<1>1. l \in Nat /\ i \in 1 .. l /\ i \in 1 .. l + 1 /\ i + 1 \in 1 .. l + 1 /\ s[i] \in X
  OBVIOUS
<1>2. a \in Seq(X) /\ Len(a) = i - 1 /\ \A j \in 1 .. i - 1 : a[j] = s[j]
  BY <1>1, HalvesAre
<1>3. b \in Seq(X) /\ Len(b) = (l - (i + 1)) + 1
      /\ \A j \in 1 .. (l - (i + 1)) + 1 : b[j] = s[((i + 1) - 1) + j]
  BY <1>1, HalvesAre
<1>4. o \in Seq(X) /\ Len(o) = 1 /\ o[1] = s[i]
  BY <1>1
<1>5. q = <<s[i]>> \o RemoveAt(s, i)
  BY DEF RemoveAt
<1>. HIDE DEF l, a, b, o
<1>6. HasJoined(c, X, a, b)
  BY <1>2, <1>3, JoinHas
<1>. HIDE DEF c
<1>7. c \in Seq(X) /\ Len(c) = Len(a) + Len(b)
      /\ (\A j \in 1 .. Len(a) : c[j] = a[j]) /\ \A j \in 1 .. Len(b) : c[Len(a) + j] = b[j]
  BY <1>6 DEF HasJoined
<1>8. HasJoined(q, X, o, c)
  BY <1>4, <1>7, JoinHas
<1>. HIDE DEF q
<1>9. q \in Seq(X) /\ Len(q) = Len(o) + Len(c)
      /\ (\A j \in 1 .. Len(o) : q[j] = o[j]) /\ \A j \in 1 .. Len(c) : q[Len(o) + j] = c[j]
  BY <1>8 DEF HasJoined
<1>10. Len(c) = l - 1 /\ Len(q) = l /\ q[1] = s[i]
  BY <1>1, <1>2, <1>3, <1>4, <1>7, <1>9
<1>11. ASSUME NEW j \in 1 .. i - 1
       PROVE  q[j + 1] = s[j]
  <2>1. j \in 1 .. Len(a) /\ j \in 1 .. Len(c) /\ 1 + j = j + 1
    BY <1>1, <1>2, <1>10
  <2>2. q[1 + j] = c[j]
    BY <2>1, <1>4, <1>9
  <2>. QED  BY <2>1, <2>2, <1>2, <1>7
<1>12. ASSUME NEW j \in i + 1 .. l
       PROVE  q[j] = s[j]
  <2>. DEFINE y == j - i
  <2>1. y \in 1 .. (l - (i + 1)) + 1 /\ ((i + 1) - 1) + y = j /\ (i - 1) + y \in 1 .. l - 1
        /\ 1 + ((i - 1) + y) = j
    BY <1>1
  <2>. HIDE DEF y
  <2>2. c[(i - 1) + y] = s[j]
    BY <2>1, <1>2, <1>3, <1>7
  <2>3. q[1 + ((i - 1) + y)] = c[(i - 1) + y]
    BY <2>1, <1>4, <1>9, <1>10
  <2>. QED  BY <2>1, <2>2, <2>3
<1>13. HasMoved(q, X, s, i)
  BY <1>9, <1>10, <1>11, <1>12 DEF HasMoved, l
<1>. QED  BY <1>5, <1>13

LEMMA WrittenIs ==
  ASSUME NEW t \in DOMAIN Schema, NEW s, NEW F, NEW v, Written(t, s, F, v)
  PROVE  /\ s \in Seq(Seq(Byte)) /\ Len(s) \in Nat /\ F[0] = Blank(t) /\ F[Len(s)] = v
         /\ \A k \in 0 .. Len(s) : HasFields(t, F[k]) /\ Within(t, F[k], v)
         /\ \A i \in 1 .. Len(s) :
              /\ Read(t, s[i], F[i - 1], F[i]) /\ IdOf(s[i]) \in FieldIds(t)
              /\ \A d \in FieldIds(t) : d # IdOf(s[i]) => F[i][d] = F[i - 1][d]
<1>. DEFINE n == Len(s)
<1>1. /\ s \in Seq(Seq(Byte)) /\ F[0] = Blank(t) /\ F[n] = v
      /\ \A k \in 0 .. n - 1 : Read(t, s[k + 1], F[k], F[k + 1]) /\ IdOf(s[k + 1]) \in FieldIds(t)
      /\ \A k \in 0 .. n : Within(t, F[k], v)
  BY DEF Written, Reads
<1>2. n \in Nat
  BY <1>1
<1>. HIDE DEF n
<1>3. \A k \in 0 .. n : HasFields(t, F[k])
  BY <1>1 DEF Within
<1>4. ASSUME NEW i \in 1 .. n
      PROVE  /\ Read(t, s[i], F[i - 1], F[i]) /\ IdOf(s[i]) \in FieldIds(t)
             /\ \A d \in FieldIds(t) : d # IdOf(s[i]) => F[i][d] = F[i - 1][d]
  <2>. DEFINE k == i - 1
  <2>1. k \in 0 .. n - 1 /\ k \in 0 .. n /\ k + 1 = i
    BY <1>2
  <2>. HIDE DEF k
  <2>2. Read(t, s[i], F[k], F[i]) /\ IdOf(s[i]) \in FieldIds(t)
    BY <1>1, <2>1
  <2>3. \A d \in FieldIds(t) : d # IdOf(s[i]) => F[i][d] = F[k][d]
    BY <1>3, <2>1, <2>2, ReadFrame
  <2>. QED  BY <2>2, <2>3 DEF k
<1>. QED  BY <1>1, <1>2, <1>3, <1>4 DEF n

\* The fields q are another way to write v.
Remade(t, q, v) == \E E : E[0] = Blank(t) /\ Reads(t, q, E, v, FALSE)

LEMMA RemadeIs ==
  ASSUME NEW t, NEW q \in Seq(Seq(Byte)), NEW E, NEW v, E[0] = Blank(t), E[Len(q)] = v,
         \A i \in 1 .. Len(q) : Read(t, q[i], E[i - 1], E[i])
  PROVE  Remade(t, q, v)
<1>1. ASSUME NEW k \in 0 .. Len(q) - 1
      PROVE  Read(t, q[k + 1], E[k], E[k + 1])
  <2>1. k + 1 \in 1 .. Len(q) /\ (k + 1) - 1 = k
    <3>. DEFINE n == Len(q)
    <3>1. n \in Nat /\ k \in 0 .. n - 1
      OBVIOUS
    <3>. HIDE DEF n
    <3>2. k + 1 \in 1 .. n /\ (k + 1) - 1 = k
      BY <3>1
    <3>. QED  BY <3>2 DEF n
  <2>. QED  BY <2>1
<1>. QED  BY <1>1 DEF Remade, Reads

\* Before its first field is read a field is blank.
LEMMA Untouched ==
  ASSUME NEW t \in DOMAIN Schema, NEW s, NEW F, NEW v, Written(t, s, F, v),
         NEW i \in 1 .. Len(s), NEW id \in FieldIds(t), \A j \in 1 .. i - 1 : IdOf(s[j]) # id
  PROVE  \A k \in 0 .. i - 1 : F[k][id] = Blank(t)[id]
<1>. DEFINE n == Len(s)  T == {k \in Nat : k <= i - 1 => F[k][id] = Blank(t)[id]}
<1>1. n \in Nat /\ F[0] = Blank(t)
      /\ \A j \in 1 .. n : \A d \in FieldIds(t) : d # IdOf(s[j]) => F[j][d] = F[j - 1][d]
  BY WrittenIs
<1>. HIDE DEF n
<1>2. i \in Nat /\ i <= n
  BY <1>1 DEF n
<1>3. 0 \in T
  BY <1>1
<1>4. ASSUME NEW k \in Nat, k \in T
      PROVE  k + 1 \in T
  <2> SUFFICES ASSUME k + 1 <= i - 1
               PROVE  F[k + 1][id] = Blank(t)[id]
    OBVIOUS
  <2>1. k <= i - 1 /\ k + 1 \in 1 .. i - 1 /\ k + 1 \in 1 .. n /\ (k + 1) - 1 = k
    BY <1>1, <1>2
  <2>2. F[k][id] = Blank(t)[id] /\ IdOf(s[k + 1]) # id
    BY <1>4, <2>1
  <2>. DEFINE j == k + 1
  <2>. HIDE DEF j
  <2>3. j \in 1 .. n /\ IdOf(s[j]) # id /\ j - 1 = k
    BY <2>1, <2>2 DEF j
  <2>4. F[j][id] = F[j - 1][id]
    BY <1>1, <2>3
  <2>. QED  BY <2>2, <2>3, <2>4 DEF j
<1>5. Nat \subseteq T
  <2>. HIDE DEF T
  <2>. QED  BY <1>3, <1>4, NatUpward
<1>6. ASSUME NEW k \in 0 .. i - 1
      PROVE  F[k][id] = Blank(t)[id]
  <2>1. k \in T /\ k <= i - 1
    BY <1>2, <1>5
  <2>. QED  BY <2>1
<1>. QED  BY <1>6

LEMMA MovedRemade ==
  ASSUME NEW t \in DOMAIN Schema, NEW s, NEW F, NEW v, Written(t, s, F, v),
         NEW i \in 1 .. Len(s), \A j \in 1 .. i - 1 : IdOf(s[j]) # IdOf(s[i]),
         NEW q, HasMoved(q, Seq(Byte), s, i)
  PROVE  Remade(t, q, v)
<1>. DEFINE n == Len(s)  id == IdOf(s[i])  z == F[i][id]
            G(k) == [d \in FieldIds(t) |-> IF d = id THEN z ELSE F[k][d]]
            E == [k \in 0 .. n |-> IF k = 0 THEN Blank(t) ELSE IF k <= i THEN G(k - 1) ELSE F[k]]
<1>1. /\ n \in Nat /\ F[0] = Blank(t) /\ F[n] = v
      /\ \A k \in 0 .. n : HasFields(t, F[k])
      /\ \A j \in 1 .. n :
           /\ Read(t, s[j], F[j - 1], F[j]) /\ IdOf(s[j]) \in FieldIds(t)
           /\ \A d \in FieldIds(t) : d # IdOf(s[j]) => F[j][d] = F[j - 1][d]
  BY WrittenIs
<1>2. /\ q \in Seq(Seq(Byte)) /\ Len(q) = n /\ q[1] = s[i]
      /\ \A j \in 1 .. i - 1 : q[j + 1] = s[j]
      /\ \A j \in i + 1 .. n : q[j] = s[j]
  BY DEF HasMoved
<1>. HIDE DEF n
<1>3. i \in Nat /\ 1 <= i /\ i <= n /\ i \in 1 .. n /\ i \in 0 .. n /\ i - 1 \in 0 .. n
  BY <1>1 DEF n
<1>4. id \in FieldIds(t)
  BY <1>1, <1>3
<1>5. \A k \in 0 .. i - 1 : F[k][id] = Blank(t)[id]
  BY <1>4, Untouched DEF n
<1>6. \A j \in 1 .. i - 1 : IdOf(s[j]) # id
  OBVIOUS
<1>7. \A d \in FieldIds(t) : d # id => F[i][d] = F[i - 1][d]
  BY <1>1, <1>3
<1>8. Read(t, s[i], F[i - 1], F[i])
  BY <1>1, <1>3
<1>9. \A k : /\ HasFields(t, G(k)) /\ G(k)[id] = z
             /\ \A d \in FieldIds(t) : d # id => G(k)[d] = F[k][d]
  BY <1>4 DEF HasFields
<1>10. z = F[i][id]
  OBVIOUS
<1>11. id = IdOf(s[i])
  OBVIOUS
<1>. HIDE DEF id, z, G
<1>12. /\ E[0] = Blank(t) /\ \A k \in 1 .. i : E[k] = G(k - 1)
       /\ \A k \in i + 1 .. n : E[k] = F[k]
  <2>1. 0 \in 0 .. n /\ \A k \in 1 .. i : k \in 0 .. n /\ k # 0 /\ k <= i
    BY <1>1, <1>3
  <2>2. \A k \in i + 1 .. n : k \in 0 .. n /\ k # 0 /\ ~(k <= i)
    BY <1>1, <1>3
  <2>. QED  BY <2>1, <2>2
<1>. HIDE DEF E
<1>13. G(i - 1) = F[i]
  <2>1. \A d \in FieldIds(t) : G(i - 1)[d] = F[i][d]
    BY <1>7, <1>9, <1>10
  <2>2. HasFields(t, G(i - 1)) /\ HasFields(t, F[i])
    BY <1>1, <1>3, <1>9
  <2>. QED  BY <2>1, <2>2 DEF HasFields
<1>14. E[n] = v
  <2>1. CASE i = n
    BY <2>1, <1>1, <1>3, <1>12, <1>13
  <2>2. CASE i # n
    <3>1. n \in i + 1 .. n
      BY <2>2, <1>1, <1>3
    <3>. QED  BY <3>1, <1>1, <1>12
  <2>. QED  BY <2>1, <2>2
<1>15. ASSUME NEW j \in 1 .. n
       PROVE  Read(t, q[j], E[j - 1], E[j])
  <2>1. CASE j = 1
    <3>1. E[1 - 1] = Blank(t) /\ E[1] = G(0)
      BY <1>3, <1>12
    <3>2. Alone(t, id, F[i - 1], F[i], Blank(t), G(0))
      <4>1. HasFields(t, F[i - 1]) /\ HasFields(t, Blank(t)) /\ HasFields(t, G(0))
        BY <1>1, <1>3, <1>9, BlankIs
      <4>2. G(0)[id] = F[i][id]
        BY <1>9, <1>10
      <4>3. Blank(t)[id] = F[i - 1][id]
        <5>1. i - 1 \in 0 .. i - 1
          BY <1>3
        <5>. QED  BY <1>5, <5>1
      <4>4. \A d \in FieldIds(t) : d # id => G(0)[d] = Blank(t)[d]
        BY <1>1, <1>9
      <4>. QED  BY <4>1, <4>2, <4>3, <4>4 DEF Alone
    <3>3. Read(t, s[i], Blank(t), G(0))
      BY <1>8, <1>11, <3>2, ReadLocal
    <3>. QED  BY <1>2, <2>1, <3>1, <3>3
  <2>2. CASE j # 1 /\ j <= i
    <3>. DEFINE k == j - 1
    <3>1. k \in 1 .. i - 1 /\ k \in 1 .. n /\ k + 1 = j /\ k \in 1 .. i /\ j \in 1 .. i
          /\ k - 1 \in 0 .. n /\ k \in 0 .. n
      BY <1>1, <1>3, <2>2
    <3>2. j - 1 = k
      OBVIOUS
    <3>. HIDE DEF k
    <3>3. q[j] = s[k] /\ E[k] = G(k - 1) /\ E[j] = G(k)
      BY <1>2, <1>12, <3>1, <3>2
    <3>4. Read(t, s[k], F[k - 1], F[k]) /\ IdOf(s[k]) # id
          /\ \A d \in FieldIds(t) : d # IdOf(s[k]) => F[k][d] = F[k - 1][d]
      BY <1>1, <1>6, <3>1
    <3>5. Alone(t, IdOf(s[k]), F[k - 1], F[k], G(k - 1), G(k))
      <4>1. HasFields(t, F[k - 1]) /\ HasFields(t, G(k - 1)) /\ HasFields(t, G(k))
        BY <1>1, <1>9, <3>1
      <4>2. IdOf(s[k]) \in FieldIds(t) => /\ G(k)[IdOf(s[k])] = F[k][IdOf(s[k])]
                                          /\ G(k - 1)[IdOf(s[k])] = F[k - 1][IdOf(s[k])]
        BY <1>9, <3>4
      <4>3. \A d \in FieldIds(t) : d # IdOf(s[k]) => G(k)[d] = G(k - 1)[d]
        <5> SUFFICES ASSUME NEW d \in FieldIds(t), d # IdOf(s[k])
                     PROVE  G(k)[d] = G(k - 1)[d]
          OBVIOUS
        <5>1. CASE d = id
          BY <1>9, <5>1
        <5>2. CASE d # id
          BY <1>9, <3>4, <5>2
        <5>. QED  BY <5>1, <5>2
      <4>. QED  BY <4>1, <4>2, <4>3 DEF Alone
    <3>6. Read(t, s[k], G(k - 1), G(k))
      BY <3>4, <3>5, ReadLocal
    <3>. QED  BY <3>2, <3>3, <3>6
  <2>3. CASE ~(j <= i)
    <3>1. j \in i + 1 .. n /\ (j - 1 = i \/ j - 1 \in i + 1 .. n) /\ i \in 1 .. i
      BY <1>1, <1>3, <2>3
    <3>2. E[j] = F[j] /\ q[j] = s[j]
      BY <1>2, <1>12, <3>1
    <3>3. E[j - 1] = F[j - 1]
      BY <1>12, <1>13, <3>1
    <3>. QED  BY <1>1, <3>2, <3>3
  <2>. QED  BY <2>1, <2>2, <2>3
<1>. QED  BY <1>2, <1>12, <1>14, <1>15, RemadeIs

\* A field that no schema has changes nothing.
LEMMA UnknownRead ==
  ASSUME NEW t \in DOMAIN Schema, NEW f \in UnknownFields, NEW g
  PROVE  Read(t, EncodeField(f), g, g)
<1>. DEFINE w == EncodeField(f)
<1>1. f.id \in 0 .. Word - 1 /\ f.id \notin FieldIds(t)
      /\ \/ f.wireType = Scalar /\ f.payload \in 0 .. Word - 1
         \/ f.wireType \in {Bytes, Nested} /\ f.payload \in Seq(Byte)
  BY RoundTripAssumption
<1>2. Scalar # Bytes /\ Scalar # Nested /\ Bytes # Nested
  BY DEF Scalar, Bytes, Nested
<1>3. \E wt, scalar, x : Shaped(w, f.id, wt, scalar, x) /\ (scalar <=> wt = Scalar)
  <2>1. CASE f.wireType = Scalar
    <3>1. w = EncodeVarintField(f.id, f.payload)
      BY <2>1 DEF EncodeField
    <3>2. Shaped(w, f.id, Scalar, TRUE, f.payload)
      BY <1>1, <1>2, <2>1, <3>1, NumberShaped
    <3>. QED  BY <3>2
  <2>2. CASE f.wireType = Bytes
    <3>1. w = EncodeBytesField(f.id, f.payload)
      BY <1>2, <2>2 DEF EncodeField
    <3>2. Shaped(w, f.id, Bytes, FALSE, f.payload)
      BY <1>1, <1>2, <2>2, <3>1, BytesShaped
    <3>. QED  BY <1>2, <3>2
  <2>3. CASE f.wireType = Nested
    <3>1. w = EncodeNestedField(f.id, f.payload)
      BY <1>2, <2>3 DEF EncodeField
    <3>2. Shaped(w, f.id, Nested, FALSE, f.payload)
      BY <1>1, <1>2, <2>3, <3>1, BytesShaped
    <3>. QED  BY <1>2, <3>2
  <2>. QED  BY <1>1, <2>1, <2>2, <2>3
<1>. HIDE DEF w
<1>4. PICK wt, scalar, x : Shaped(w, f.id, wt, scalar, x) /\ (scalar <=> wt = Scalar)
  BY <1>3
<1>5. IdOf(w) = f.id
  BY <1>4, IdRead
<1>6. Effect(t, IdOf(w), wt, scalar, x, g, g)
  BY <1>1, <1>4, <1>5 DEF Effect
<1>7. Read(t, w, g, g)
  BY <1>4, <1>5, <1>6 DEF Read
<1>. QED  BY <1>7 DEF w

LEMMA ExtendedRemade ==
  ASSUME NEW t \in DOMAIN Schema, NEW s, NEW F, NEW v, Written(t, s, F, v),
         NEW i \in 1 .. Len(s) + 1, NEW w, \A g : Read(t, w, g, g),
         NEW q, HasInserted(q, Seq(Byte), s, i, w)
  PROVE  Remade(t, q, v)
<1>. DEFINE n == Len(s)  E == [k \in 0 .. n + 1 |-> IF k < i THEN F[k] ELSE F[k - 1]]
<1>1. /\ n \in Nat /\ F[0] = Blank(t) /\ F[n] = v
      /\ \A j \in 1 .. n : Read(t, s[j], F[j - 1], F[j])
  BY WrittenIs
<1>2. /\ q \in Seq(Seq(Byte)) /\ Len(q) = n + 1 /\ q[i] = w
      /\ \A j \in 1 .. i - 1 : q[j] = s[j]
      /\ \A j \in i .. n : q[j + 1] = s[j]
  BY DEF HasInserted
<1>3. i \in 1 .. n + 1
  OBVIOUS
<1>. HIDE DEF n
<1>4. (\A k \in 0 .. i - 1 : E[k] = F[k]) /\ \A k \in i .. n + 1 : E[k] = F[k - 1]
  <2>1. \A k \in 0 .. i - 1 : k \in 0 .. n + 1 /\ k < i
    BY <1>1, <1>3
  <2>2. \A k \in i .. n + 1 : k \in 0 .. n + 1 /\ ~(k < i)
    BY <1>1, <1>3
  <2>. QED  BY <2>1, <2>2
<1>. HIDE DEF E
<1>5. E[0] = Blank(t) /\ E[n + 1] = v
  <2>1. 0 \in 0 .. i - 1 /\ n + 1 \in i .. n + 1 /\ (n + 1) - 1 = n
    BY <1>1, <1>3
  <2>. QED  BY <2>1, <1>1, <1>4
<1>6. ASSUME NEW j \in 1 .. n + 1
      PROVE  Read(t, q[j], E[j - 1], E[j])
  <2>1. CASE j < i
    <3>1. j \in 1 .. i - 1 /\ j \in 0 .. i - 1 /\ j - 1 \in 0 .. i - 1 /\ j \in 1 .. n
      BY <1>1, <1>3, <2>1
    <3>. QED  BY <3>1, <1>1, <1>2, <1>4
  <2>2. CASE j = i
    <3>1. j - 1 \in 0 .. i - 1 /\ j \in i .. n + 1
      BY <1>1, <1>3, <2>2
    <3>2. E[j - 1] = F[j - 1] /\ E[j] = F[j - 1] /\ q[j] = w
      BY <3>1, <2>2, <1>2, <1>4
    <3>. QED  BY <3>2
  <2>3. CASE i < j
    <3>. DEFINE k == j - 1
    <3>1. k \in i .. n /\ k \in i .. n + 1 /\ k \in 1 .. n /\ k + 1 = j /\ j \in i .. n + 1
      BY <1>1, <1>3, <2>3
    <3>2. j - 1 = k
      OBVIOUS
    <3>. HIDE DEF k
    <3>3. q[j] = s[k] /\ E[k] = F[k - 1] /\ E[j] = F[k]
      BY <3>1, <3>2, <1>2, <1>4
    <3>. QED  BY <3>1, <3>2, <3>3, <1>1
  <2>. QED  BY <1>1, <1>3, <2>1, <2>2, <2>3
<1>. QED  BY <1>2, <1>5, <1>6, RemadeIs

LEMMA RepeatedRemade ==
  ASSUME NEW t \in DOMAIN Schema, NEW s, NEW F, NEW v, Written(t, s, F, v),
         NEW r, NEW g, NEW h, Read(t, r, g, h), HasFields(t, g),
         IdOf(r) \in FieldIds(t), Schema[t][IdOf(r)].kind # "list",
         \E i \in 1 .. Len(s) : IdOf(s[i]) = IdOf(r),
         NEW q, HasInserted(q, Seq(Byte), s, 1, r)
  PROVE  Remade(t, q, v)
<1>. DEFINE n == Len(s)  id == IdOf(r)  y == h[id]
            G(k) == [d \in FieldIds(t) |-> IF d = id THEN y ELSE F[k][d]]
<1>1. /\ n \in Nat /\ F[0] = Blank(t) /\ F[n] = v
      /\ \A k \in 0 .. n : HasFields(t, F[k])
      /\ \A j \in 1 .. n :
           /\ Read(t, s[j], F[j - 1], F[j]) /\ IdOf(s[j]) \in FieldIds(t)
           /\ \A d \in FieldIds(t) : d # IdOf(s[j]) => F[j][d] = F[j - 1][d]
  BY WrittenIs
<1>2. /\ q \in Seq(Seq(Byte)) /\ Len(q) = n + 1 /\ q[1] = r
      /\ \A j \in 1 .. n : q[j + 1] = s[j]
  BY DEF HasInserted
<1>3. PICK i \in 1 .. n : IdOf(s[i]) = id /\ \A j \in 1 .. n : IdOf(s[j]) = id => i <= j
  <2>. DEFINE S == {j \in 1 .. n : IdOf(s[j]) = id}
  <2>1. S \subseteq Nat /\ S # {}
    OBVIOUS
  <2>. HIDE DEF S
  <2>2. \E x \in S : \A z \in S : x =< z
    BY <2>1, LeastNumber
  <2>. QED  BY <2>2 DEF S
<1>4. id \in FieldIds(t) /\ Schema[t][id].kind # "list" /\ id = IdOf(r) /\ y = h[id]
  OBVIOUS
<1>. HIDE DEF n
<1>5. i \in Nat /\ 1 <= i /\ i <= n
  BY <1>1
<1>6. \A j \in 1 .. i - 1 : j \in 1 .. n /\ IdOf(s[j]) # id
  <2>1. \A j \in 1 .. i - 1 : j \in 1 .. n /\ ~(i <= j)
    BY <1>1, <1>5
  <2>. QED  BY <1>3, <2>1
<1>7. \A k : /\ HasFields(t, G(k)) /\ G(k)[id] = y
             /\ \A d \in FieldIds(t) : d # id => G(k)[d] = F[k][d]
  BY <1>4 DEF HasFields
<1>. DEFINE E == [k \in 0 .. n + 1 |-> IF k = 0 THEN Blank(t) ELSE IF k <= i THEN G(k - 1) ELSE F[k - 1]]
<1>. HIDE DEF id, y, G
<1>8. /\ E[0] = Blank(t) /\ \A k \in 1 .. i : E[k] = G(k - 1)
      /\ \A k \in i + 1 .. n + 1 : E[k] = F[k - 1]
  <2>1. 0 \in 0 .. n + 1 /\ \A k \in 1 .. i : k \in 0 .. n + 1 /\ k # 0 /\ k <= i
    BY <1>1, <1>5
  <2>2. \A k \in i + 1 .. n + 1 : k \in 0 .. n + 1 /\ k # 0 /\ ~(k <= i)
    BY <1>1, <1>5
  <2>. QED  BY <2>1, <2>2
<1>. HIDE DEF E
<1>9. E[n + 1] = v
  <2>1. n + 1 \in i + 1 .. n + 1 /\ (n + 1) - 1 = n
    BY <1>1, <1>5
  <2>. QED  BY <2>1, <1>1, <1>8
<1>10. ASSUME NEW j \in 1 .. n + 1
       PROVE  Read(t, q[j], E[j - 1], E[j])
  <2>1. CASE j = 1
    <3>1. E[1 - 1] = Blank(t) /\ E[1] = G(0) /\ q[1] = r
      BY <1>2, <1>5, <1>8
    <3>2. Alone(t, id, g, h, Blank(t), G(0))
      <4>1. HasFields(t, Blank(t)) /\ HasFields(t, G(0)) /\ HasFields(t, g)
        BY <1>7, BlankIs
      <4>2. G(0)[id] = h[id]
        BY <1>4, <1>7
      <4>3. \A d \in FieldIds(t) : d # id => G(0)[d] = Blank(t)[d]
        BY <1>1, <1>7
      <4>. QED  BY <1>4, <4>1, <4>2, <4>3 DEF Alone
    <3>3. Read(t, r, Blank(t), G(0))
      BY <1>4, <3>2, ReadLocal
    <3>. QED  BY <2>1, <3>1, <3>3
  <2>2. CASE j # 1 /\ j <= i
    <3>. DEFINE k == j - 1
    <3>1. k \in 1 .. i - 1 /\ k \in 1 .. n /\ k + 1 = j /\ k \in 1 .. i /\ j \in 1 .. i
          /\ k - 1 \in 0 .. n /\ k \in 0 .. n
      BY <1>1, <1>5, <2>2
    <3>2. j - 1 = k
      OBVIOUS
    <3>. HIDE DEF k
    <3>3. q[j] = s[k] /\ E[k] = G(k - 1) /\ E[j] = G(k)
      BY <1>2, <1>8, <3>1, <3>2
    <3>4. Read(t, s[k], F[k - 1], F[k]) /\ IdOf(s[k]) # id
          /\ \A d \in FieldIds(t) : d # IdOf(s[k]) => F[k][d] = F[k - 1][d]
      BY <1>1, <1>6, <3>1
    <3>5. Alone(t, IdOf(s[k]), F[k - 1], F[k], G(k - 1), G(k))
      <4>1. HasFields(t, F[k - 1]) /\ HasFields(t, G(k - 1)) /\ HasFields(t, G(k))
        BY <1>1, <1>7, <3>1
      <4>2. IdOf(s[k]) \in FieldIds(t) => /\ G(k)[IdOf(s[k])] = F[k][IdOf(s[k])]
                                          /\ G(k - 1)[IdOf(s[k])] = F[k - 1][IdOf(s[k])]
        BY <1>7, <3>4
      <4>3. \A d \in FieldIds(t) : d # IdOf(s[k]) => G(k)[d] = G(k - 1)[d]
        <5> SUFFICES ASSUME NEW d \in FieldIds(t), d # IdOf(s[k])
                     PROVE  G(k)[d] = G(k - 1)[d]
          OBVIOUS
        <5>1. CASE d = id
          BY <1>7, <5>1
        <5>2. CASE d # id
          BY <1>7, <3>4, <5>2
        <5>. QED  BY <5>1, <5>2
      <4>. QED  BY <4>1, <4>2, <4>3 DEF Alone
    <3>6. Read(t, s[k], G(k - 1), G(k))
      BY <3>4, <3>5, ReadLocal
    <3>. QED  BY <3>2, <3>3, <3>6
  <2>3. CASE j = i + 1
    <3>1. i \in 1 .. i /\ i + 1 \in i + 1 .. n + 1 /\ (i + 1) - 1 = i /\ i - 1 \in 0 .. n
          /\ i \in 0 .. n
      BY <1>1, <1>5
    <3>2. E[i] = G(i - 1) /\ E[i + 1] = F[i] /\ q[i + 1] = s[i]
      BY <1>2, <1>8, <3>1
    <3>3. Read(t, s[i], F[i - 1], F[i]) /\ \A d \in FieldIds(t) : d # id => F[i][d] = F[i - 1][d]
      BY <1>1, <1>3
    <3>4. Alone(t, id, F[i - 1], F[i], G(i - 1), F[i])
      <4>1. HasFields(t, F[i - 1]) /\ HasFields(t, G(i - 1)) /\ HasFields(t, F[i])
        BY <1>1, <1>7, <3>1
      <4>2. \A d \in FieldIds(t) : d # id => F[i][d] = G(i - 1)[d]
        BY <1>7, <3>3
      <4>. QED  BY <1>4, <4>1, <4>2 DEF Alone
    <3>5. Read(t, s[i], G(i - 1), F[i])
      BY <1>3, <3>3, <3>4, ReadLocal
    <3>. QED  BY <2>3, <3>1, <3>2, <3>5
  <2>4. CASE i + 1 < j
    <3>. DEFINE k == j - 1
    <3>1. k \in i + 1 .. n + 1 /\ k \in 1 .. n /\ k + 1 = j /\ j \in i + 1 .. n + 1
      BY <1>1, <1>5, <2>4
    <3>2. j - 1 = k
      OBVIOUS
    <3>. HIDE DEF k
    <3>3. q[j] = s[k] /\ E[k] = F[k - 1] /\ E[j] = F[k]
      BY <1>2, <1>8, <3>1, <3>2
    <3>. QED  BY <3>1, <3>2, <3>3, <1>1
  <2>. QED  BY <1>1, <1>5, <2>1, <2>2, <2>3, <2>4
<1>. QED  BY <1>2, <1>8, <1>9, <1>10, RemadeIs

\* A number that another producer writes in more bytes, or with more than a word.
LEMMA PaddedRead ==
  ASSUME NEW t \in DOMAIN Schema, t # "FileEntry", NEW nested, NEW v, IsValue(t, v, nested),
         NEW w, NEW g, NEW h, Read(t, w, g, h), HasFields(t, g), Within(t, h, v),
         IdOf(w) \in FieldIds(t), IsNumber(Schema[t][IdOf(w)].kind), NEW more \in {0, Word}
  PROVE  Read(t, EncodeVarint[IdOf(w)] \o EncodeVarint[Scalar] \o InFull(v[IdOf(w)] + more), g, h)
<1>. DEFINE id == IdOf(w)  f == Schema[t][id]  x == v[id]
            u == EncodeVarint[id] \o EncodeVarint[Scalar] \o InFull(x + more)
<1>1. FieldLaid(t, id, f) /\ f.kind # "list" /\ f.kind # "size" /\ id \in 0 .. Word - 1
  <2>1. FieldLaid(t, id, f) /\ id \in 0 .. Word - 1
    BY SchemaIs, SmallIds DEF SchemaLaid
  <2>. QED  BY <2>1 DEF FieldLaid, IsNumber
<1>2. PICK wt, scalar, z : Shaped(w, id, wt, scalar, z) /\ Effect(t, id, wt, scalar, z, g, h)
  BY DEF Read
<1>3. scalar /\ ~Refuses(f, z) /\ h = [g EXCEPT ![id] = Accepted(f, z)]
  BY <1>1, <1>2 DEF Effect
<1>4. z \in 0 .. Word - 1
  BY <1>2, <1>3, IdRead
<1>5. IsNumber(f.kind) /\ id \in FieldIds(t)
  OBVIOUS
<1>. DEFINE y == Accepted(f, z)
<1>6. y \in PlainValues(f)
  BY <1>1, <1>3, <1>4, <1>5, AcceptedIs DEF PayloadIn
<1>7. h[id] = y
  BY <1>3, <1>5 DEF HasFields
<1>8. Blank(t)[id] = None
  BY <1>1, <1>5, BlankIs
<1>9. h[id] = Blank(t)[id] \/ h[id] = x
  BY <1>1, <1>5 DEF Within
<1>. HIDE DEF f, y
<1>10. y # None
  BY <1>1, <1>6, KeptIs
<1>11. x = y
  BY <1>7, <1>8, <1>9, <1>10
<1>12. PayloadIn(IsNumber(f.kind), x) /\ ~Refuses(f, x) /\ Accepted(f, x) = x
  BY <1>1, <1>6, <1>11, KeptIs
<1>13. x \in 0 .. Word - 1
  BY <1>5, <1>12 DEF PayloadIn
<1>. HIDE DEF id, x
<1>14. Shaped(u, id, Scalar, TRUE, x)
  BY <1>1, <1>13, FullShaped
<1>15. IdOf(u) = id
  BY <1>14, IdRead
<1>. HIDE DEF u
<1>16. h = [g EXCEPT ![id] = Accepted(f, x)]
  BY <1>3, <1>11, <1>12 DEF y
<1>17. Effect(t, id, Scalar, TRUE, x, g, h)
  BY <1>1, <1>5, <1>12, <1>16 DEF Effect, f
<1>18. Read(t, u, g, h)
  BY <1>14, <1>15, <1>17 DEF Read
<1>. QED  BY <1>18 DEF u, id, x

LEMMA ReplacedRemade ==
  ASSUME NEW t \in DOMAIN Schema, NEW s, NEW F, NEW v, Written(t, s, F, v),
         NEW i \in 1 .. Len(s), NEW w, Read(t, w, F[i - 1], F[i]),
         NEW q, HasReplaced(q, Seq(Byte), s, i, w)
  PROVE  Remade(t, q, v)
<1>1. /\ F[0] = Blank(t) /\ F[Len(s)] = v
      /\ \A j \in 1 .. Len(s) : Read(t, s[j], F[j - 1], F[j])
  BY WrittenIs
<1>2. /\ q \in Seq(Seq(Byte)) /\ Len(q) = Len(s) /\ q[i] = w
      /\ \A j \in 1 .. Len(s) : j # i => q[j] = s[j]
  BY DEF HasReplaced
<1>3. ASSUME NEW j \in 1 .. Len(q)
      PROVE  Read(t, q[j], F[j - 1], F[j])
  <2>1. CASE j = i
    BY <1>2, <2>1
  <2>2. CASE j # i
    BY <1>1, <1>2, <2>2
  <2>. QED  BY <2>1, <2>2
<1>. QED  BY <1>1, <1>2, <1>3, RemadeIs
-----------------------------------------------------------------------------
(* What the decoder gets.                                                  *)

\* A value that a block of type t can have.
Sendable(t, v) ==
  \/ t \in DOMAIN Schema /\ IsBlock(t, v)
  \/ t \in Untyped /\ v \in Seq(Byte) /\ (t = "End" => v = <<>>)

\* The bytes b are the value v of a block of type t.
Means(t, v, b, cut) ==
  /\ b \in Seq(Byte) /\ Sendable(t, v)
  /\ t \in DOMAIN Schema => Leads(t, b, Blank(t), v, cut)
  /\ t \in Untyped => b = v

LEMMA UntypedIs == \A t \in Untyped : t \in {"End", "Unknown"} /\ t \notin DOMAIN Schema
BY RoundTripAssumption DEF Schema

LEMMA PartsWritten ==
  ASSUME NEW t \in DOMAIN Schema, NEW v, IsBlock(t, v)
  PROVE  /\ \E F : Written(t, PartsOf(t, v), F, v)
         /\ IsValue(t, v, Values[Depth - 1])
<1>. DEFINE n == Depth - 1
<1>1. n \in Nat /\ Depth \in Nat \ {0}
  BY DepthIs
<1>2. IsValue(t, v, Values[n])
  BY <1>1, ValuesAre DEF IsBlock
<1>. HIDE DEF n
<1>3. \E F : Written(t, Parts(t, v, Encode[n]), F, v)
  BY <1>1, <1>2, PartsRead
<1>. QED  BY <1>2, <1>3 DEF PartsOf, n

LEMMA RemadeMeans ==
  ASSUME NEW t \in DOMAIN Schema, NEW v, IsBlock(t, v), NEW q, Remade(t, q, v)
  PROVE  Means(t, v, FlattenSeq(q), FALSE)
<1>1. PICK E : E[0] = Blank(t) /\ Reads(t, q, E, v, FALSE)
  BY DEF Remade
<1>2. Leads(t, FlattenSeq(q), Blank(t), v, FALSE)
  BY <1>1, ReadsLead
<1>3. FlattenSeq(q) \in Seq(Byte)
  BY <1>1, FlatTyped DEF Reads
<1>. QED  BY <1>2, <1>3, UntypedIs DEF Means, Sendable

LEMMA WrittenMeans ==
  ASSUME NEW t \in DOMAIN Schema, NEW v, IsBlock(t, v), NEW cut \in BOOLEAN
  PROVE  Means(t, v, FlattenSeq(PartsOf(t, v)), cut)
<1>. DEFINE s == PartsOf(t, v)
<1>1. PICK F : Written(t, s, F, v)
  BY PartsWritten
<1>. HIDE DEF s
<1>2. Reads(t, s, F, v, TRUE) /\ F[0] = Blank(t)
  BY <1>1 DEF Written
<1>3. Reads(t, s, F, v, cut)
  BY <1>2 DEF Reads
<1>4. Leads(t, FlattenSeq(s), Blank(t), v, cut)
  BY <1>2, <1>3, ReadsLead
<1>5. FlattenSeq(s) \in Seq(Byte)
  BY <1>2, FlatTyped DEF Reads
<1>6. Means(t, v, FlattenSeq(s), cut)
  BY <1>4, <1>5, UntypedIs DEF Means, Sendable
<1>. QED  BY <1>6 DEF s

LEMMA EncodedMeans ==
  ASSUME NEW t, NEW v, Sendable(t, v)
  PROVE  Means(t, v, EncodeBody(t, v), FALSE)
<1>1. CASE t \in DOMAIN Schema /\ IsBlock(t, v)
  <2>1. t # "End" /\ t # "Unknown"
    BY <1>1 DEF Schema
  <2>2. EncodeBody(t, v) = FlattenSeq(PartsOf(t, v))
    BY <1>1, <2>1 DEF EncodeBody
  <2>. QED  BY <1>1, <2>2, WrittenMeans
<1>2. CASE t \in Untyped /\ v \in Seq(Byte) /\ (t = "End" => v = <<>>)
  <2>1. t \in {"End", "Unknown"} /\ t \notin DOMAIN Schema
    BY <1>2, UntypedIs
  <2>2. EncodeBody(t, v) = v
    BY <1>2, <2>1 DEF EncodeBody
  <2>. QED  BY <1>2, <2>1, <2>2 DEF Means, Sendable
<1>. QED  BY <1>1, <1>2 DEF Sendable

\* The blocks sent.
IsSent(t, text, v) ==
  \E k \in DOMAIN Blocks :
    t = Blocks[k].type /\ text = Blocks[k].summary /\ v = Blocks[k].value

LEMMA SentAre ==
  ASSUME NEW t, NEW text, NEW v, IsSent(t, text, v)
  PROVE  /\ Sendable(t, v) /\ t \in DOMAIN Schema \cup Untyped
         /\ t # "FileEntry"
         /\ text = None \/ text \in Texts
<1>1. PICK k \in DOMAIN Blocks : t = Blocks[k].type /\ text = Blocks[k].summary /\ v = Blocks[k].value
  BY DEF IsSent
<1>. DEFINE b == Blocks[k]
<1>2. /\ b.summary # None => b.summary \in Texts
      /\ \/ b.type \in Untyped /\ b.value \in Seq(Byte) /\ (b.type = "End" => b.value = <<>>)
         \/ b.type \in DOMAIN Schema \ {"FileEntry", "DiffHunk"} /\ IsBlock(b.type, b.value)
  BY RoundTripAssumption
<1>3. t = b.type /\ text = b.summary /\ v = b.value
  BY <1>1
<1>. HIDE DEF b
<1>4. "FileEntry" \in DOMAIN Schema
  BY DEF Schema
<1>5. t # "FileEntry"
  BY <1>2, <1>4, <1>3, UntypedIs
<1>. QED  BY <1>2, <1>5, <1>3 DEF Sendable

Harmless == {"none", "moved", "extended", "repeated", "padded"}

\* A body that another producer wrote, or that is cut later.
LEMMA BodyMeans ==
  ASSUME NEW t, NEW text, NEW v, IsSent(t, text, v),
         NEW c \in Harmless \cup {"cut"}, t \in Untyped => c = "none", NEW b \in Bodies(t, v, c)
  PROVE  Means(t, v, b, c = "cut")
<1>1. Sendable(t, v) /\ t \in DOMAIN Schema \cup Untyped /\ t # "FileEntry"
  BY SentAre
<1>2. CASE c = "none"
  <2>1. b = EncodeBody(t, v)
    BY <1>2 DEF Bodies
  <2>2. Means(t, v, b, FALSE)
    BY <1>1, <2>1, EncodedMeans
  <2>3. (c = "cut") = FALSE
    BY <1>2
  <2>. QED  BY <2>2, <2>3
<1>3. CASE c # "none"
  <2>. DEFINE s == PartsOf(t, v)
  <2>1. t \in DOMAIN Schema /\ IsBlock(t, v)
    BY <1>1, <1>3, UntypedIs DEF Sendable
  <2>2. PICK F : Written(t, s, F, v)
    BY <2>1, PartsWritten
  <2>3. s \in Seq(Seq(Byte)) /\ Len(s) \in Nat /\ DOMAIN s = 1 .. Len(s)
    <3>1. s \in Seq(Seq(Byte)) /\ Len(s) \in Nat
      BY <2>1, <2>2, WrittenIs
    <3>. HIDE DEF s
    <3>. QED  BY <3>1
  <2>4. (IF t \in DOMAIN Schema THEN PartsOf(t, v) ELSE <<>>) = s
    BY <2>1
  <2>5. ASSUME NEW q, Remade(t, q, v), b = FlattenSeq(q), c # "cut"
        PROVE  Means(t, v, b, c = "cut")
    <3>1. Means(t, v, b, FALSE)
      BY <2>1, <2>5, RemadeMeans
    <3>2. (c = "cut") = FALSE
      BY <2>5
    <3>. QED  BY <3>1, <3>2
  <2>6. CASE c = "cut"
    <3>1. b = FlattenSeq(PartsOf(t, v))
      BY <2>1, <2>6 DEF Bodies
    <3>2. Means(t, v, b, TRUE)
      BY <2>1, <3>1, WrittenMeans
    <3>3. (c = "cut") = TRUE
      BY <2>6
    <3>. QED  BY <3>2, <3>3
  <2>7. CASE c = "moved"
    <3>1. b \in {FlattenSeq(p) : p \in Moved(PartsOf(t, v))}
      BY <2>1, <2>7 DEF Bodies
    <3>. HIDE DEF s
    <3>2. PICK p \in Moved(s) : b = FlattenSeq(p)
      BY <3>1 DEF s
    <3>3. PICK i \in DOMAIN s : /\ \A j \in 1 .. i - 1 : IdOf(s[j]) # IdOf(s[i])
                                /\ p = <<s[i]>> \o RemoveAt(s, i)
      BY <3>2 DEF Moved
    <3>4. HasMoved(p, Seq(Byte), s, i)
      BY <2>3, <3>3, MoveIs
    <3>5. Remade(t, p, v)
      BY <2>1, <2>2, <2>3, <3>3, <3>4, MovedRemade
    <3>. QED  BY <2>5, <2>7, <3>2, <3>5
  <2>8. CASE c = "extended"
    <3>1. b \in {FlattenSeq(p) : p \in Extended(PartsOf(t, v))}
      BY <2>1, <2>8 DEF Bodies
    <3>. HIDE DEF s
    <3>2. PICK p \in Extended(s) : b = FlattenSeq(p)
      BY <3>1 DEF s
    <3>3. PICK i \in 1 .. Len(s) + 1, f \in UnknownFields : p = InsertAt(s, i, EncodeField(f))
      BY <3>2 DEF Extended
    <3>4. \A g : Read(t, EncodeField(f), g, g)
      BY <2>1, UnknownRead
    <3>. DEFINE w == EncodeField(f)
    <3>. HIDE DEF w
    <3>5. \A g : Read(t, w, g, g)
      BY <3>4 DEF w
    <3>6. w \in Seq(Byte)
      BY <3>5, ReadIs
    <3>7. HasInserted(p, Seq(Byte), s, i, w)
      BY <2>3, <3>3, <3>6, InsertIs DEF w
    <3>8. Remade(t, p, v)
      BY <2>1, <2>2, <3>5, <3>7, ExtendedRemade
    <3>. QED  BY <2>5, <2>8, <3>2, <3>8
  <2>9. CASE c = "repeated"
    <3>1. b \in {FlattenSeq(p) : p \in Repeated(t, PartsOf(t, v))}
      BY <2>1, <2>9 DEF Bodies
    <3>. HIDE DEF s
    <3>2. PICK p \in Repeated(t, s) : b = FlattenSeq(p)
      BY <3>1 DEF s
    <3>3. PICK m \in DOMAIN Blocks :
            /\ Blocks[m].type = t
            /\ \E r \in ToSet(PartsOf(t, Blocks[m].value)) :
                 /\ Schema[t][IdOf(r)].kind # "list"
                 /\ \E i \in DOMAIN s : IdOf(s[i]) = IdOf(r)
                 /\ p = InsertAt(s, 1, r)
      BY <3>2 DEF Repeated
    <3>. DEFINE x == Blocks[m].value  u == PartsOf(t, x)
    <3>4. PICK r \in ToSet(u) :
            /\ Schema[t][IdOf(r)].kind # "list"
            /\ \E i \in DOMAIN s : IdOf(s[i]) = IdOf(r)
            /\ p = InsertAt(s, 1, r)
      BY <3>3
    <3>5. IsSent(t, Blocks[m].summary, x)
      BY <3>3 DEF IsSent
    <3>6. IsBlock(t, x)
      BY <2>1, <3>5, SentAre, UntypedIs DEF Sendable
    <3>7. PICK E : Written(t, u, E, x)
      BY <2>1, <3>6, PartsWritten
    <3>8. r \in ToSet(u)
      BY <3>4
    <3>. HIDE DEF u, x
    <3>9. /\ u \in Seq(Seq(Byte)) /\ Len(u) \in Nat
          /\ \A j \in 0 .. Len(u) : HasFields(t, E[j])
          /\ \A j \in 1 .. Len(u) : Read(t, u[j], E[j - 1], E[j]) /\ IdOf(u[j]) \in FieldIds(t)
      BY <2>1, <3>7, WrittenIs
    <3>10. PICK j \in 1 .. Len(u) : r = u[j]
      BY <3>8, <3>9 DEF ToSet
    <3>11. Read(t, r, E[j - 1], E[j]) /\ HasFields(t, E[j - 1]) /\ IdOf(r) \in FieldIds(t)
      <4>1. j - 1 \in 0 .. Len(u)
        <5>. DEFINE l == Len(u)
        <5>1. l \in Nat /\ j \in 1 .. l
          BY <3>9
        <5>. HIDE DEF l
        <5>2. j - 1 \in 0 .. l
          BY <5>1
        <5>. QED  BY <5>2 DEF l
      <4>. QED  BY <3>9, <3>10, <4>1
    <3>12. r \in Seq(Byte)
      BY <3>11, ReadIs
    <3>13. 1 \in 1 .. Len(s) + 1
      BY <2>3
    <3>14. HasInserted(p, Seq(Byte), s, 1, r)
      BY <2>3, <3>4, <3>12, <3>13, InsertIs
    <3>15. \E i \in 1 .. Len(s) : IdOf(s[i]) = IdOf(r)
      BY <2>3, <3>4
    <3>16. Remade(t, p, v)
      BY <2>1, <2>2, <3>4, <3>11, <3>14, <3>15, RepeatedRemade
    <3>. QED  BY <2>5, <2>9, <3>2, <3>16
  <2>10. CASE c = "padded"
    <3>1. b \in {FlattenSeq(p) : p \in Padded(t, v, PartsOf(t, v))}
      BY <2>1, <2>10 DEF Bodies
    <3>. HIDE DEF s
    <3>2. PICK p \in Padded(t, v, s) : b = FlattenSeq(p)
      BY <3>1 DEF s
    <3>3. PICK i \in DOMAIN s, more \in {0, Word} :
            /\ IsNumber(Schema[t][IdOf(s[i])].kind)
            /\ p = ReplaceAt(s, i, EncodeVarint[IdOf(s[i])] \o EncodeVarint[Scalar]
                                     \o InFull(v[IdOf(s[i])] + more))
      BY <3>2 DEF Padded
    <3>. DEFINE w == EncodeVarint[IdOf(s[i])] \o EncodeVarint[Scalar] \o InFull(v[IdOf(s[i])] + more)
    <3>4. i \in 1 .. Len(s) /\ i \in 0 .. Len(s) /\ i - 1 \in 0 .. Len(s)
      <4>. DEFINE l == Len(s)
      <4>1. l \in Nat /\ i \in 1 .. l
        BY <2>3
      <4>. HIDE DEF l
      <4>2. i \in 0 .. l /\ i - 1 \in 0 .. l
        BY <4>1
      <4>. QED  BY <4>1, <4>2 DEF l
    <3>5. /\ Read(t, s[i], F[i - 1], F[i]) /\ IdOf(s[i]) \in FieldIds(t)
          /\ HasFields(t, F[i - 1]) /\ Within(t, F[i], v)
      BY <2>1, <2>2, <3>4, WrittenIs
    <3>6. IsValue(t, v, Values[Depth - 1])
      BY <2>1, PartsWritten
    <3>7. Read(t, w, F[i - 1], F[i])
      BY <1>1, <2>1, <3>3, <3>5, <3>6, PaddedRead
    <3>. HIDE DEF w
    <3>8. HasReplaced(p, Seq(Byte), s, i, w)
      <4>1. w \in Seq(Byte)
        BY <3>7, ReadIs
      <4>. QED  BY <2>3, <3>3, <3>4, <4>1, ReplaceIs DEF w
    <3>9. Remade(t, p, v)
      BY <2>1, <2>2, <3>4, <3>7, <3>8, ReplacedRemade
    <3>. QED  BY <2>5, <2>10, <3>2, <3>9
  <2>. QED  BY <1>3, <2>6, <2>7, <2>8, <2>9, <2>10 DEF Harmless
<1>. QED  BY <1>2, <1>3

\* A body in which a number or a wire type is wrong.
LEMMA HurtTyped ==
  ASSUME NEW t \in DOMAIN Schema, NEW text, NEW v, IsSent(t, text, v),
         NEW c \in {"widened", "retyped"}, NEW b \in Bodies(t, v, c)
  PROVE  b \in Seq(Byte)
<1>. DEFINE s == PartsOf(t, v)
<1>1. IsBlock(t, v)
  BY SentAre, UntypedIs DEF Sendable
<1>2. PICK F : Written(t, s, F, v)
  BY <1>1, PartsWritten
<1>3. s \in Seq(Seq(Byte)) /\ \A i \in 1 .. Len(s) : IdOf(s[i]) \in Nat
  <2>1. \A i \in 1 .. Len(s) : Read(t, s[i], F[i - 1], F[i])
    BY <1>2, WrittenIs
  <2>2. \A i \in 1 .. Len(s) : IdOf(s[i]) \in 0 .. Word - 1
    BY <2>1, ReadIs
  <2>3. s \in Seq(Seq(Byte))
    BY <1>2, WrittenIs
  <2>. HIDE DEF s
  <2>4. ASSUME NEW i \in 1 .. Len(s)
        PROVE  IdOf(s[i]) \in Nat
    <3>. DEFINE id == IdOf(s[i])
    <3>1. id \in 0 .. Word - 1
      BY <2>2
    <3>. HIDE DEF id
    <3>2. id \in Nat
      BY <3>1, VarintAssumption
    <3>. QED  BY <3>2 DEF id
  <2>. QED  BY <2>3, <2>4
<1>4. b \in {FlattenSeq(p) : p \in Widened(t, PartsOf(t, v))}
        \/ b \in {FlattenSeq(p) : p \in Retyped(t, PartsOf(t, v))}
  BY DEF Bodies
<1>. HIDE DEF s
<1>5. PICK p \in Widened(t, s) \cup Retyped(t, s) : b = FlattenSeq(p)
  BY <1>4 DEF s
<1>6. ByteWidth + 1 \in Nat /\ <<>> \in Seq(Byte)
  BY BlockTypesAssumption, VarintAssumption
<1>7. DOMAIN s = 1 .. Len(s)
  BY <1>3
<1>8. ASSUME NEW i \in 1 .. Len(s), NEW w \in Seq(Byte), p = ReplaceAt(s, i, w)
      PROVE  b \in Seq(Byte)
  <2>1. HasReplaced(p, Seq(Byte), s, i, w)
    BY <1>3, <1>8, ReplaceIs
  <2>. QED  BY <1>5, <2>1, FlatTyped DEF HasReplaced
<1>9. CASE p \in Widened(t, s)
  <2>1. PICK i \in DOMAIN s : p = ReplaceAt(s, i, EncodeVarintField(IdOf(s[i]), ByteWidth + 1))
    BY <1>9 DEF Widened
  <2>2. EncodeVarintField(IdOf(s[i]), ByteWidth + 1) \in Seq(Byte)
    BY <1>3, <1>6, <1>7, FieldBytes
  <2>. QED  BY <1>7, <1>8, <2>1, <2>2
<1>10. CASE p \in Retyped(t, s)
  <2>1. PICK i \in DOMAIN s : p = ReplaceAt(s, i, EncodeBytesField(IdOf(s[i]), <<>>))
    BY <1>10 DEF Retyped
  <2>2. EncodeBytesField(IdOf(s[i]), <<>>) \in Seq(Byte)
    BY <1>3, <1>6, <1>7, FieldBytes
  <2>. QED  BY <1>7, <1>8, <2>1, <2>2
<1>. QED  BY <1>9, <1>10

\* The summary is in front of the body.
LEMMA SummaryBytes ==
  ASSUME NEW text \in Texts
  PROVE  EncodeSummary(text) \in Seq(Byte) /\ text # None
<1>1. text \in Seq(Byte) /\ text # None
  BY BlockTypesAssumption DEF Texts
<1>2. EncodeVarint[Len(text)] \in Seq(Byte)
  BY <1>1, NumberBytes
<1>. QED  BY <1>1, <1>2, JoinIs DEF EncodeSummary

LEMMA WithSummaryIs ==
  ASSUME NEW text, text = None \/ text \in Texts, NEW b \in Seq(Byte)
  PROVE  /\ WithSummary(text, b) \in Seq(Byte)
         /\ text = None => WithSummary(text, b) = b
         /\ text # None => /\ text \in Texts
                           /\ HasJoined(WithSummary(text, b), Byte, EncodeSummary(text), b)
<1>. DEFINE w == WithSummary(text, b)
<1>1. CASE text = None
  BY <1>1 DEF WithSummary
<1>2. CASE text # None
  <2>1. EncodeSummary(text) \in Seq(Byte) /\ text \in Texts
    BY <1>2, SummaryBytes
  <2>2. HasJoined(EncodeSummary(text) \o b, Byte, EncodeSummary(text), b)
    BY <2>1, JoinHas
  <2>3. w = EncodeSummary(text) \o b
    BY <1>2 DEF WithSummary
  <2>4. HasJoined(w, Byte, EncodeSummary(text), b)
    BY <2>2, <2>3
  <2>. HIDE DEF w
  <2>5. w \in Seq(Byte)
    BY <2>4, Zenon DEF HasJoined
  <2>. QED  BY <1>2, <2>1, <2>4, <2>5 DEF w
<1>. QED  BY <1>1, <1>2

\* What arrives of the bytes b: all of them, or the first ones.
Starts(r, b) == r \in Seq(Byte) /\ Len(r) <= Len(b) /\ \A i \in 1 .. Len(r) : r[i] = b[i]
Arrives(r, b, cut) == IF cut THEN Starts(r, b) ELSE r = b

\* The bytes are those of a summary and a value, whose end may be cut off.
Comes(bytes, t, text, v, cut) ==
  \E b : /\ Means(t, v, b, cut) /\ Len(WithSummary(text, b)) < Word
         /\ Arrives(bytes, WithSummary(text, b), cut)

LEMMA PrefixStarts ==
  ASSUME NEW w \in Seq(Byte), NEW r \in Prefixes(w)
  PROVE  Starts(r, w)
<1>. DEFINE n == Len(w)
<1>1. n \in Nat
  OBVIOUS
<1>2. PICK l \in 0 .. n : r = SubSeq(w, 1, l)
  BY DEF Prefixes
<1>3. \A k \in 1 .. l : k \in 1 .. Len(w) /\ 1 + k - 1 = k
  BY <1>1, <1>2
<1>4. l \in Nat /\ l <= n
  BY <1>1, <1>2
<1>5. /\ SubSeq(w, 1, l) \in Seq(Byte) /\ Len(SubSeq(w, 1, l)) = l
      /\ \A k \in 1 .. l : SubSeq(w, 1, l)[k] = w[k]
  BY <1>3, <1>4
<1>. QED  BY <1>2, <1>4, <1>5 DEF Starts

LEMMA ArrivingIs ==
  ASSUME NEW t, NEW s, IsSent(t, s.summary, s.value), NEW c \in Changes,
         t \in Untyped => c \in {"none", "noise"}, NEW bytes \in Arriving(t, s, c)
  PROVE  /\ bytes \in Seq(Byte) /\ Len(bytes) < Word
         /\ c \in Harmless \cup {"cut"} => Comes(bytes, t, s.summary, s.value, c = "cut")
<1>. DEFINE text == s.summary  v == s.value
<1>1. /\ Sendable(t, v) /\ t \in DOMAIN Schema \cup Untyped
      /\ text = None \/ text \in Texts
  BY SentAre
<1>2. c \in Harmless \cup {"cut", "widened", "retyped", "noise"}
  BY RoundTripAssumption DEF Harmless
<1>3. CASE c = "noise"
  <2>1. bytes \in Noise
    BY <1>3 DEF Arriving
  <2>. QED  BY <1>3, <2>1, RoundTripAssumption DEF Harmless
<1>. DEFINE whole == {w \in {WithSummary(text, b) : b \in Bodies(t, v, c)} : Addressable(w)}
<1>4. ASSUME NEW w \in whole, c # "noise"
      PROVE  /\ w \in Seq(Byte) /\ Len(w) < Word
             /\ \E b : /\ w = WithSummary(text, b)
                       /\ c \in Harmless \cup {"cut"} => Means(t, v, b, c = "cut")
  <2>1. PICK b \in Bodies(t, v, c) : w = WithSummary(text, b)
    OBVIOUS
  <2>2. Len(w) < Word
    BY DEF Addressable
  <2>. HIDE DEF whole, text, v
  <2>3. IsSent(t, text, v)
    BY DEF text, v
  <2>4. CASE c \in Harmless \cup {"cut"}
    <3>1. t \in Untyped => c = "none"
      BY <1>4
    <3>2. Means(t, v, b, c = "cut")
      BY <2>3, <2>4, <3>1, BodyMeans
    <3>3. b \in Seq(Byte)
      BY <3>2 DEF Means
    <3>4. w \in Seq(Byte)
      BY <1>1, <2>1, <3>3, WithSummaryIs
    <3>. QED  BY <2>1, <2>2, <3>2, <3>4
  <2>5. CASE c \in {"widened", "retyped"}
    <3>1. t \in DOMAIN Schema
      BY <1>1, <2>5
    <3>2. b \in Seq(Byte)
      BY <2>3, <2>5, <3>1, HurtTyped
    <3>3. w \in Seq(Byte)
      BY <1>1, <2>1, <3>2, WithSummaryIs
    <3>. QED  BY <2>1, <2>2, <2>5, <3>3 DEF Harmless
  <2>. QED  BY <1>2, <1>4, <2>4, <2>5
<1>5. CASE c = "cut"
  <2>1. bytes \in UNION {Prefixes(w) : w \in whole}
    BY <1>5 DEF Arriving
  <2>. HIDE DEF whole
  <2>2. PICK w \in whole : bytes \in Prefixes(w)
    BY <2>1
  <2>3. /\ w \in Seq(Byte) /\ Len(w) < Word
        /\ \E b : w = WithSummary(text, b) /\ Means(t, v, b, c = "cut")
    BY <1>4, <1>5
  <2>4. Starts(bytes, w)
    BY <2>2, <2>3, PrefixStarts
  <2>5. Len(bytes) < Word
    <3>. DEFINE l == Len(bytes)  n == Len(w)
    <3>1. l \in Nat /\ n \in Nat /\ l <= n /\ n < Word
      BY <2>3, <2>4 DEF Starts
    <3>. HIDE DEF l, n
    <3>2. l < Word
      BY <3>1, VarintAssumption
    <3>. QED  BY <3>2 DEF l
  <2>6. Comes(bytes, t, text, v, c = "cut")
    BY <1>5, <2>3, <2>4 DEF Comes, Arrives
  <2>. QED  BY <2>4, <2>5, <2>6 DEF Starts
<1>6. CASE c \notin {"cut", "noise"}
  <2>1. bytes \in whole
    BY <1>6 DEF Arriving
  <2>. HIDE DEF whole
  <2>2. /\ bytes \in Seq(Byte) /\ Len(bytes) < Word
        /\ \E b : /\ bytes = WithSummary(text, b)
                  /\ c \in Harmless \cup {"cut"} => Means(t, v, b, c = "cut")
    BY <1>4, <1>6, <2>1
  <2>3. c \in Harmless \cup {"cut"} => Comes(bytes, t, text, v, c = "cut")
    BY <1>6, <2>2 DEF Comes, Arrives
  <2>. QED  BY <2>2, <2>3
<1>. QED  BY <1>3, <1>5, <1>6
-----------------------------------------------------------------------------
(* Every step keeps the types.                                             *)

LEMMA InitTyped ==
  ASSUME Init
  PROVE  TypeInv
<1>1. PICK k \in DOMAIN Blocks :
        type = Blocks[k].type /\ sent = [summary |-> Blocks[k].summary, value |-> Blocks[k].value]
  BY DEF Init
<1>2. IsSent(type, sent.summary, sent.value)
  BY <1>1 DEF IsSent
<1>3. /\ stack = <<>> /\ status = "called" /\ summary = None
      /\ flagged \in BOOLEAN /\ body \in Arriving(type, sent, change)
      /\ change \in Changes /\ (type \in Untyped => change \in {"none", "noise"})
  BY DEF Init, DecoderInit
<1>4. body \in Seq(Byte) /\ Len(body) < Word
  BY <1>2, <1>3, ArrivingIs
<1>5. type \in DOMAIN Schema \cup Untyped
  BY <1>2, SentAre
<1>. QED  BY <1>3, <1>4, <1>5, EmptyStack DEF TypeInv, TypeAt

\* What was decoded can be sent.
LEMMA DecodedSendable ==
  ASSUME TypeInv, status = "ok"
  PROVE  Sendable(type, result) /\ (summary = None \/ summary \in Texts)
BY UntypedIs DEF TypeInv, TypeAt, Sendable

LEMMA PassOnTyped ==
  ASSUME TypeInv, PassOn
  PROVE  TypeInv'
<1>. DEFINE b == EncodeBody(type, result)  w == WithSummary(summary, b)
<1>1. /\ status = "ok" /\ body' = w /\ Len(body') < Word /\ status' = "called" /\ summary' = None
      /\ type' = type /\ flagged' = flagged /\ stack' = stack
  BY DEF PassOn, Addressable
<1>2. Sendable(type, result) /\ (summary = None \/ summary \in Texts)
  BY <1>1, DecodedSendable
<1>3. b \in Seq(Byte)
  BY <1>2, EncodedMeans DEF Means
<1>. HIDE DEF b
<1>4. w \in Seq(Byte)
  BY <1>2, <1>3, WithSummaryIs
<1>5. Len(w) < Word
  BY <1>1
<1>. HIDE DEF w
<1>6. stack = <<>>
  BY <1>1 DEF TypeInv, TypeAt
<1>7. TypeAt(type, flagged, w, <<>>, "called", None, result')
  BY <1>4, <1>5, EmptyStack DEF TypeInv, TypeAt
<1>. QED  BY <1>1, <1>6, <1>7 DEF TypeInv

LEMMA NextTyped ==
  ASSUME TypeInv, [Next]_vars
  PROVE  TypeInv'
<1>1. CASE DecoderNext
  BY <1>1, DecodeTypes
<1>2. CASE PassOn
  BY <1>2, PassOnTyped
<1>3. CASE UNCHANGED vars
  BY <1>3 DEF TypeInv, vars
<1>. QED  BY <1>1, <1>2, <1>3 DEF Next, Decode

LEMMA TypesHold ==
  Spec => []TypeInv
<1>. QED  BY InitTyped, NextTyped, PTL DEF Spec

\* Whatever bytes arrive, from another producer, cut off, damaged or mere noise, a block
\* that decode_body returns is a value of its type at every level of nesting: all required
\* fields are there, enums are variants, numbers have their width and texts are UTF-8.
THEOREM DecodedIsTyped ==
  Spec => []TypeOK
<1>1. TypeInv => TypeOK
  <2> SUFFICES ASSUME TypeInv
               PROVE  TypeOK
    OBVIOUS
  <2>1. /\ type \in DOMAIN Schema \cup Untyped /\ flagged \in BOOLEAN /\ body \in Seq(Byte)
        /\ (status = "decoding" <=> stack # <<>>)
        /\ summary \in Texts \cup {None} /\ (summary # None => flagged)
        /\ (status = "ok" => IF type \in DOMAIN Schema THEN IsBlock(type, result)
                             ELSE result \in Seq(Byte) /\ (type = "End" => result = <<>>))
    BY Zenon DEF TypeInv, TypeAt
  <2>2. summary # None => Lossy(summary) = summary
    BY <2>1 DEF Texts
  <2>. QED  BY <2>1, <2>2 DEF TypeOK
<1>. QED  BY <1>1, TypesHold, PTL
-----------------------------------------------------------------------------
(* What a call on the stack still makes.                                   *)

\* w is e and then b; what arrives of w begins like e, and behind e is what arrives of b.
LEMMA RestArrives ==
  ASSUME NEW w, NEW e, NEW b, HasJoined(w, Byte, e, b), b \in Seq(Byte),
         NEW r, NEW cut \in BOOLEAN, Arrives(r, w, cut)
  PROVE  /\ r \in Seq(Byte) /\ Alike(r, e)
         /\ Len(e) <= Len(w) /\ Len(b) <= Len(w)
         /\ ~cut => Len(e) <= Len(r)
         /\ Len(e) <= Len(r) => Arrives(From(r, Len(e)), b, cut)
<1>. DEFINE k == Len(e)  l == Len(b)  n == Len(r)  c == From(r, k)
<1>1. /\ w \in Seq(Byte) /\ Len(w) = k + l /\ k \in Nat /\ l \in Nat
      /\ (\A j \in 1 .. k : w[j] = e[j]) /\ \A j \in 1 .. l : w[k + j] = b[j]
  BY Zenon DEF HasJoined
<1>2. /\ r \in Seq(Byte) /\ n \in Nat /\ n <= k + l /\ (\A i \in 1 .. n : r[i] = w[i])
      /\ ~cut => n = k + l
  <2>1. CASE cut
    <3>1. Starts(r, w)
      BY <2>1 DEF Arrives
    <3>. QED  BY <1>1, <2>1, <3>1 DEF Starts
  <2>2. CASE ~cut
    <3>1. r = w
      BY <2>2 DEF Arrives
    <3>. QED  BY <1>1, <2>2, <3>1
  <2>. QED  BY <2>1, <2>2
<1>. HIDE DEF k, l, n
<1>3. Alike(r, e)
  <2> SUFFICES ASSUME NEW i \in 1 .. n, i <= k
               PROVE  r[i] = e[i]
    BY DEF Alike, k, n
  <2>1. i \in 1 .. k
    BY <1>1, <1>2
  <2>. QED  BY <1>1, <1>2, <2>1
<1>4. k <= k + l /\ l <= k + l /\ (~cut => k <= n)
  BY <1>1, <1>2
<1>5. ASSUME k <= n
      PROVE  Arrives(c, b, cut)
  <2>1. k \in 0 .. n
    BY <1>1, <1>2, <1>5
  <2>2. c \in Seq(Byte) /\ Len(c) = n - k /\ \A i \in 1 .. n - k : c[i] = r[k + i]
    BY <1>2, <2>1, FromIs DEF n
  <2>. HIDE DEF c
  <2>3. ASSUME NEW i \in 1 .. n - k
        PROVE  c[i] = b[i]
    <3>1. k + i \in 1 .. n /\ i \in 1 .. l
      BY <1>1, <1>2, <2>1
    <3>. QED  BY <1>1, <1>2, <2>2, <3>1
  <2>4. n - k <= l /\ (~cut => n - k = l)
    BY <1>1, <1>2
  <2>5. CASE cut
    <3>1. Starts(c, b)
      BY <2>2, <2>3, <2>4 DEF Starts, l
    <3>. QED  BY <2>5, <3>1 DEF Arrives
  <2>6. CASE ~cut
    <3>1. Len(c) = Len(b)
      BY <2>2, <2>4, <2>6 DEF l
    <3>2. c = b
      BY <2>2, <2>3, <3>1
    <3>. QED  BY <2>6, <3>2 DEF Arrives
  <2>. QED  BY <2>5, <2>6
<1>6. Arrives(c, b, cut) <=> Arrives(From(r, Len(e)), b, cut)
  BY DEF c, k
<1>. QED  BY <1>1, <1>2, <1>3, <1>4, <1>5, <1>6 DEF k, l, n

\* Bytes in a field are no longer than the field.
LEMMA ShapedFits ==
  ASSUME NEW w, NEW id, NEW wt, NEW scalar, NEW x,
         Shaped(w, id, wt, scalar, x), ~scalar
  PROVE  x \in Seq(Byte) /\ Len(x) <= Len(w)
<1>1. PICK pay \in Seq(Byte) :
        /\ Pieces(w, EncodeVarint[id], EncodeVarint[wt], pay)
        /\ id \in 0 .. Word - 1 /\ wt \in 0 .. Word - 1 /\ wt \in WireType
        /\ scalar \in BOOLEAN
        /\ IF scalar THEN Stops(pay, Len(pay)) /\ ValueOf(pay, Len(pay)) = x
           ELSE x \in Seq(Byte) /\ pay = EncodeVarint[Len(x)] \o x
  BY ShapedPieces
<1>2. EncodeVarint[Len(x)] \in Seq(Byte)
  <2>1. Len(x) \in Nat
    BY <1>1
  <2>. QED  BY <2>1, NumberBytes
<1>. DEFINE e == EncodeVarint[id]  f == EncodeVarint[wt]  d == EncodeVarint[Len(x)]
<1>. HIDE DEF e, f, d
<1>3. HasJoined(d \o x, Byte, d, x)
  BY <1>1, <1>2, JoinHas DEF d
<1>4. Pieces(w, e, f, pay) /\ pay = d \o x
  BY <1>1 DEF e, f, d
<1>5. HasJoined(pay, Byte, d, x)
  BY <1>3, <1>4
<1>. DEFINE i == Len(e)  j == Len(f)  k == Len(pay)  l == Len(d)  m == Len(x)  n == Len(w)
<1>6. k = l + m /\ l \in Nat /\ m \in Nat
  BY <1>5, Zenon DEF HasJoined
<1>7. i \in Nat \ {0} /\ j \in Nat \ {0} /\ k \in Nat /\ n = i + j + k
  BY <1>4, Zenon DEF Pieces
<1>. HIDE DEF i, j, k, l, m, n
<1>8. m <= n
  BY <1>6, <1>7
<1>. QED  BY <1>1, <1>8 DEF m, n

\* The rest of the call c is what arrives of the bytes b, and makes the block y of the
\* fields g.
Carries(c, b, g, y, cut) ==
  /\ cut \in BOOLEAN /\ b \in Seq(Byte) /\ Len(b) < Word
  /\ Leads(c.type, b, g, y, cut) /\ Arrives(c.rest, b, cut)
  /\ ~Missing(c.type, y) /\ Assembled(c.type, y) = y

\* The fields of c once it has got y for the field id.
Pending(c, id, y) == [c.fields EXCEPT ![id] = Append(c.fields[id], y)]

\* The calls below the m-th make v, once the m-th returns y.  Only the bytes of the first
\* may be cut off.
Waits(s, m, y, v, cut) ==
  \E bs, vs :
    /\ vs[m] = y /\ vs[1] = v
    /\ \A k \in 1 .. m - 1 :
         Carries(s[k], bs[k], Pending(s[k], s[k + 1].id, vs[k + 1]), vs[k], cut /\ k = 1)

\* The calls on the stack make v.
StackMeans(s, v, cut) ==
  \E b, y : /\ Carries(s[Len(s)], b, s[Len(s)].fields, y, cut /\ Len(s) = 1)
            /\ Waits(s, Len(s), y, v, cut)

LEMMA WaitsKeep ==
  ASSUME NEW m \in Nat \ {0}, NEW s, NEW y, NEW v, NEW cut, Waits(s, m, y, v, cut),
         NEW u, \A k \in 1 .. m - 1 : u[k] = s[k], u[m].id = s[m].id
  PROVE  Waits(u, m, y, v, cut)
<1>1. PICK bs, vs :
        /\ vs[m] = y /\ vs[1] = v
        /\ \A k \in 1 .. m - 1 :
             Carries(s[k], bs[k], Pending(s[k], s[k + 1].id, vs[k + 1]), vs[k], cut /\ k = 1)
  BY DEF Waits
<1>2. ASSUME NEW k \in 1 .. m - 1
      PROVE  Carries(u[k], bs[k], Pending(u[k], u[k + 1].id, vs[k + 1]), vs[k], cut /\ k = 1)
  <2>1. u[k] = s[k]
    OBVIOUS
  <2>2. u[k + 1].id = s[k + 1].id
    <3>1. CASE k = m - 1
      <4>1. k + 1 = m
        BY <3>1
      <4>. QED  BY <4>1
    <3>2. CASE k # m - 1
      <4>1. k + 1 \in 1 .. m - 1
        BY <3>2
      <4>2. u[k + 1] = s[k + 1]
        BY <4>1
      <4>. QED  BY <4>2
    <3>. QED  BY <3>1, <3>2
  <2>. QED  BY <1>1, <2>1, <2>2
<1>. QED  BY <1>1, <1>2 DEF Waits

LEMMA WaitsPush ==
  ASSUME NEW m \in Nat \ {0}, NEW s, NEW y, NEW v, NEW cut, Waits(s, m, y, v, cut),
         NEW u, \A k \in 1 .. m - 1 : u[k] = s[k], u[m].id = s[m].id,
         NEW b, NEW el, Carries(u[m], b, Pending(u[m], u[m + 1].id, el), y, cut /\ m = 1)
  PROVE  Waits(u, m + 1, el, v, cut)
<1>1. Waits(u, m, y, v, cut)
  BY WaitsKeep
<1>2. PICK bs, vs :
        /\ vs[m] = y /\ vs[1] = v
        /\ \A k \in 1 .. m - 1 :
             Carries(u[k], bs[k], Pending(u[k], u[k + 1].id, vs[k + 1]), vs[k], cut /\ k = 1)
  BY <1>1 DEF Waits
<1>. DEFINE n == m + 1
            cs == [k \in 1 .. m |-> IF k = m THEN b ELSE bs[k]]
            ws == [k \in 1 .. n |-> IF k = n THEN el ELSE vs[k]]
<1>3. /\ n \in Nat /\ n - 1 = m /\ cs[m] = b /\ (\A k \in 1 .. m - 1 : cs[k] = bs[k])
      /\ ws[n] = el /\ \A k \in 1 .. m : ws[k] = vs[k]
  OBVIOUS
<1>. HIDE DEF cs, ws
<1>4. ws[1] = v
  BY <1>2, <1>3
<1>5. ASSUME NEW k \in 1 .. m
      PROVE  Carries(u[k], cs[k], Pending(u[k], u[k + 1].id, ws[k + 1]), ws[k], cut /\ k = 1)
  <2>1. CASE k = m
    <3>1. ws[k + 1] = el /\ ws[k] = y /\ cs[k] = b
      BY <1>2, <1>3, <2>1
    <3>. QED  BY <2>1, <3>1
  <2>2. CASE k # m
    <3>1. k \in 1 .. m - 1 /\ k + 1 \in 1 .. m
      BY <2>2
    <3>2. ws[k + 1] = vs[k + 1] /\ ws[k] = vs[k] /\ cs[k] = bs[k]
      BY <1>3, <3>1
    <3>. QED  BY <1>2, <3>1, <3>2
  <2>. QED  BY <2>1, <2>2
<1>6. Waits(u, n, el, v, cut)
  BY <1>3, <1>4, <1>5 DEF Waits
<1>. QED  BY <1>6

LEMMA WaitsPop ==
  ASSUME NEW m \in Nat, m > 1, NEW s, NEW y, NEW v, NEW cut, Waits(s, m, y, v, cut)
  PROVE  \E b, z : /\ Carries(s[m - 1], b, Pending(s[m - 1], s[m].id, y), z, cut /\ m - 1 = 1)
                   /\ Waits(s, m - 1, z, v, cut)
<1>1. PICK bs, vs :
        /\ vs[m] = y /\ vs[1] = v
        /\ \A k \in 1 .. m - 1 :
             Carries(s[k], bs[k], Pending(s[k], s[k + 1].id, vs[k + 1]), vs[k], cut /\ k = 1)
  BY DEF Waits
<1>. DEFINE n == m - 1
<1>2. n \in 1 .. m - 1 /\ n + 1 = m /\ \A k \in 1 .. n - 1 : k \in 1 .. m - 1
  OBVIOUS
<1>. HIDE DEF n
<1>3. Carries(s[n], bs[n], Pending(s[n], s[m].id, y), vs[n], cut /\ n = 1)
  BY <1>1, <1>2
<1>4. Waits(s, n, vs[n], v, cut)
  BY <1>1, <1>2 DEF Waits
<1>. QED  BY <1>3, <1>4 DEF n

LEMMA WaitsLast ==
  ASSUME NEW s, NEW y, NEW v, NEW cut, Waits(s, 1, y, v, cut)
  PROVE  y = v
BY DEF Waits

\* The next field of the call c: w, which makes h of the fields g.  It is read, or it is
\* not all there and the bytes were cut off.
NextField(c, g, h, y, cut, w, wt, scalar, x) ==
  /\ Shaped(w, IdOf(w), wt, scalar, x) /\ Effect(c.type, IdOf(w), wt, scalar, x, g, h)
  /\ Len(w) < Word
  /\ IF Len(w) <= Len(c.rest)
     THEN /\ Took(c.rest, w, IdOf(w), wt, scalar, x)
          /\ \E d : \A a : a.type = c.type /\ a.rest = From(c.rest, Len(w)) =>
                             Carries(a, d, h, y, cut)
     ELSE cut /\ Broke(c.rest, IdOf(w), wt, scalar)

LEMMA CarriesOn ==
  ASSUME NEW c, NEW b, NEW g, NEW y, NEW cut, Carries(c, b, g, y, cut), c.rest # <<>>
  PROVE  \E h, w, wt, scalar, x : NextField(c, g, h, y, cut, w, wt, scalar, x)
<1>. DEFINE r == c.rest
<1>1. /\ cut \in BOOLEAN /\ b \in Seq(Byte) /\ Len(b) < Word
      /\ Leads(c.type, b, g, y, cut) /\ Arrives(r, b, cut)
      /\ ~Missing(c.type, y) /\ Assembled(c.type, y) = y
  BY DEF Carries
<1>2. b # <<>>
  <2> SUFFICES ASSUME b = <<>>
               PROVE  r = <<>>
    OBVIOUS
  <2>1. CASE cut
    <3>1. r \in Seq(Byte) /\ Len(r) <= 0
      BY <1>1, <2>1 DEF Arrives, Starts
    <3>. HIDE DEF r
    <3>. QED  BY <3>1
  <2>2. CASE ~cut
    BY <1>1, <2>2 DEF Arrives
  <2>. QED  BY <2>1, <2>2
<1>3. Goes(c.type, b, g, y, cut)
  BY <1>1, <1>2, LeadsOn
<1>4. PICK w, d, h : /\ w \in Seq(Byte) /\ d \in Seq(Byte) /\ b = w \o d
                     /\ Read(c.type, w, g, h) /\ Leads(c.type, d, h, y, cut)
  BY <1>3 DEF Goes
<1>5. PICK wt, scalar, x :
        Shaped(w, IdOf(w), wt, scalar, x) /\ Effect(c.type, IdOf(w), wt, scalar, x, g, h)
  BY <1>4 DEF Read
<1>6. HasJoined(b, Byte, w, d)
  <2>1. HasJoined(w \o d, Byte, w, d)
    BY <1>4, JoinHas
  <2>. QED  BY <1>4, <2>1
<1>. HIDE DEF r
<1>7. /\ r \in Seq(Byte) /\ Alike(r, w) /\ Len(w) <= Len(b) /\ Len(d) <= Len(b)
      /\ (~cut => Len(w) <= Len(r)) /\ (Len(w) <= Len(r) => Arrives(From(r, Len(w)), d, cut))
  BY <1>1, <1>4, <1>6, RestArrives
<1>8. Len(w) < Word /\ Len(d) < Word
  <2>. DEFINE k == Len(w)  l == Len(d)  n == Len(b)
  <2>1. k \in Nat /\ l \in Nat /\ n \in Nat /\ k <= n /\ l <= n /\ n < Word
    BY <1>1, <1>4, <1>7
  <2>. HIDE DEF k, l, n
  <2>2. k < Word /\ l < Word
    BY <2>1, VarintAssumption
  <2>. QED  BY <2>2 DEF k, l
<1>9. IF Len(w) <= Len(r) THEN Took(r, w, IdOf(w), wt, scalar, x)
      ELSE Broke(r, IdOf(w), wt, scalar)
  BY <1>5, <1>7, <1>8, PartRead
<1>10. ASSUME Len(w) <= Len(r), NEW a, a.type = c.type /\ a.rest = From(r, Len(w))
       PROVE  Carries(a, d, h, y, cut)
  BY <1>1, <1>4, <1>7, <1>8, <1>10 DEF Carries
<1>11. NextField(c, g, h, y, cut, w, wt, scalar, x)
  <2>1. CASE Len(w) <= Len(r)
    <3>1. \E e : \A a : a.type = c.type /\ a.rest = From(r, Len(w)) => Carries(a, e, h, y, cut)
      BY <1>10, <2>1
    <3>. QED  BY <1>5, <1>8, <1>9, <2>1, <3>1 DEF NextField, r
  <2>2. CASE ~(Len(w) <= Len(r))
    <3>1. cut
      BY <1>7, <2>2
    <3>. QED  BY <1>5, <1>8, <1>9, <2>2, <3>1 DEF NextField, r
  <2>. QED  BY <2>1, <2>2
<1>. QED  BY <1>11

\* Every field is that of v, or a field that may be missing is, or the end of a list.
CutWithin(t, value, v) ==
  \A id \in FieldIds(t) :
    \/ value[id] = v[id]
    \/ ~Schema[t][id].required /\ value[id] = None
    \/ Schema[t][id].kind = "list" /\ IsPrefix(value[id], v[id])

\* The step goes on to make v, or returns it, or what is left of it when the end is cut
\* off; only then it may fail.
Steps(v, cut) ==
  \/ status' \in Errors /\ cut
  \/ status' = "decoding" /\ StackMeans(stack', v, cut)
  \/ status' = "ok" /\ IF cut THEN CutWithin(type, result', v) ELSE result' = v

\* The call c at the top of the stack makes y, of which the calls below make v.
TopMeans(c, m, y, q, v, cut) ==
  /\ TopLaid(c, m) /\ status = "decoding" /\ cut \in BOOLEAN /\ q = (cut /\ m = 1)
  /\ Waits(stack, m, y, v, cut)

LEMMA ReplaceMeans ==
  ASSUME NEW c, NEW m, NEW y, NEW q, NEW v, NEW cut, TopMeans(c, m, y, q, v, cut),
         NEW a, a.id = c.id, NEW d, Carries(a, d, a.fields, y, q), ReplaceTop(a)
  PROVE  Steps(v, cut)
<1>. DEFINE u == Append(Front(stack), a)
<1>1. /\ m = Len(stack) /\ m \in Nat \ {0} /\ c = stack[m] /\ q = (cut /\ m = 1)
      /\ Waits(stack, m, y, v, cut) /\ IsStack(stack) /\ stack # <<>> /\ status = "decoding"
  BY DEF TopMeans, TopLaid, StackLaid
<1>2. Len(u) = m /\ u[m] = a /\ \A k \in 1 .. m - 1 : u[k] = stack[k]
  BY <1>1, ReplacedIs
<1>3. stack' = u /\ status' = status
  BY DEF ReplaceTop
<1>. HIDE DEF u
<1>4. u[m].id = stack[m].id
  BY <1>1, <1>2
<1>5. Waits(u, m, y, v, cut)
  BY <1>1, <1>2, <1>4, WaitsKeep
<1>6. StackMeans(u, v, cut)
  BY <1>1, <1>2, <1>5 DEF StackMeans
<1>. QED  BY <1>1, <1>3, <1>6 DEF Steps

LEMMA UnknownMeans ==
  ASSUME NEW c, NEW m, NEW y, NEW q, NEW v, NEW cut, TopMeans(c, m, y, q, v, cut),
         NEW h, NEW w, NEW wt, NEW scalar, NEW x, NextField(c, c.fields, h, y, q, w, wt, scalar, x),
         IdOf(w) \notin FieldIds(c.type), ~Failed(DecodeFieldHeader(c.rest)),
         Unknown(wt, From(c.rest, DecodeFieldHeader(c.rest).n))
  PROVE  Steps(v, cut)
<1>. DEFINE n == DecodeFieldHeader(c.rest).n  rest == From(c.rest, n)  p == PayloadOf(scalar, rest)
<1>1. /\ c.rest \in Seq(Byte) /\ IsCall(c) /\ c = Top /\ q = (cut /\ m = 1)
      /\ n \in 1 .. Len(c.rest)
  <2>1. c.rest \in Seq(Byte) /\ IsCall(c) /\ c = Last(stack) /\ q = (cut /\ m = 1)
    BY DEF TopMeans, TopLaid, CallLaid
  <2>2. Returned(DecodeFieldHeader(c.rest), c.rest)
    BY <2>1, HeaderReturned
  <2>. QED  BY <2>1, <2>2 DEF Returned, Top
<1>2. (scalar <=> wt = Scalar) /\ h = c.fields /\ scalar \in BOOLEAN
  BY IdRead DEF NextField, Effect
<1>3. SkipField(rest, wt) = p
  BY <1>2 DEF SkipField, PayloadOf
<1>4. IF Failed(p) THEN Fail(p.error) ELSE ReplaceTop(Advanced(c, From(rest, p.n)))
  BY <1>1, <1>3 DEF Unknown
<1>5. rest \in Seq(Byte)
  <2>1. n \in 0 .. Len(c.rest)
    BY <1>1
  <2>. HIDE DEF n
  <2>. QED  BY <1>1, <2>1, FromIs
<1>6. Returned(p, rest)
  <2>. HIDE DEF rest
  <2>. QED  BY <1>2, <1>5, PayloadReturned
<1>7. CASE Len(w) <= Len(c.rest)
  <2>1. ~Failed(p) /\ From(rest, p.n) = From(c.rest, Len(w))
    BY <1>7 DEF NextField, Took
  <2>2. PICK d : \A a : a.type = c.type /\ a.rest = From(c.rest, Len(w)) => Carries(a, d, h, y, q)
    BY <1>7 DEF NextField
  <2>. DEFINE a == Advanced(c, From(rest, p.n))
  <2>3. a.type = c.type /\ a.rest = From(c.rest, Len(w)) /\ a.fields = c.fields /\ a.id = c.id
    BY <1>1, <2>1, AdvancedIs
  <2>4. ReplaceTop(a)
    BY <1>4, <2>1
  <2>. HIDE DEF a
  <2>5. Carries(a, d, a.fields, y, q)
    BY <1>2, <2>2, <2>3
  <2>. QED  BY <2>3, <2>4, <2>5, ReplaceMeans
<1>8. CASE ~(Len(w) <= Len(c.rest))
  <2>1. q /\ Failed(p)
    BY <1>8 DEF NextField, Broke
  <2>2. status' = p.error /\ p.error \in Errors
    BY <1>4, <1>6, <2>1 DEF Fail, Returned
  <2>. QED  BY <1>1, <2>1, <2>2 DEF Steps
<1>. QED  BY <1>7, <1>8

\* A block within the block of the call c: its call gets all its bytes.
LEMMA PushMeans ==
  ASSUME NEW c, NEW m, NEW y, NEW q, NEW v, NEW cut, TopMeans(c, m, y, q, v, cut),
         NEW a, a.id = c.id, NEW u, u \in DOMAIN Schema, NEW id, NEW x, NEW el,
         Restored(u, el, x), Len(x) < Word,
         NEW d, Carries(a, d, Pending(a, id, el), y, q),
         stack' = Front(stack) \o <<a, Call(u, x, id)>> /\ status' = status
  PROVE  Steps(v, cut)
<1>. DEFINE e == Call(u, x, id)  s == Front(stack) \o <<a, e>>
<1>1. /\ m = Len(stack) /\ m \in Nat \ {0} /\ c = stack[m] /\ q = (cut /\ m = 1)
      /\ Waits(stack, m, y, v, cut) /\ IsStack(stack) /\ stack # <<>> /\ status = "decoding"
      /\ cut \in BOOLEAN
  BY DEF TopMeans, TopLaid, StackLaid
<1>2. Len(s) = m + 1 /\ s[m] = a /\ s[m + 1] = e /\ \A k \in 1 .. m - 1 : s[k] = stack[k]
  BY <1>1, PushedIs
<1>3. IsCall(e) /\ e.type = u /\ e.rest = x /\ e.fields = Blank(u) /\ e.id = id
  BY CallIs
<1>4. stack' = s /\ status' = status
  OBVIOUS
<1>. HIDE DEF s, e
<1>5. Carries(e, x, e.fields, el, FALSE)
  <2>1. /\ x \in Seq(Byte) /\ Leads(u, x, Blank(u), el, FALSE)
        /\ ~Missing(u, el) /\ Assembled(u, el) = el
    BY DEF Restored
  <2>. QED  BY <1>3, <2>1 DEF Carries, Arrives
<1>6. s[m].id = stack[m].id /\ s[m + 1].id = id
  BY <1>1, <1>2, <1>3
<1>7. Carries(s[m], d, Pending(s[m], s[m + 1].id, el), y, cut /\ m = 1)
  BY <1>1, <1>2, <1>6
<1>8. Waits(s, m + 1, el, v, cut)
  BY <1>1, <1>2, <1>6, <1>7, WaitsPush
<1>9. (cut /\ m + 1 = 1) = FALSE
  BY <1>1
<1>10. Carries(s[m + 1], x, s[m + 1].fields, el, cut /\ m + 1 = 1)
  BY <1>2, <1>5, <1>9
<1>11. StackMeans(s, v, cut)
  BY <1>2, <1>8, <1>10 DEF StackMeans
<1>. QED  BY <1>1, <1>4, <1>11 DEF Steps

LEMMA KnownMeans ==
  ASSUME NEW c, NEW m, NEW y, NEW q, NEW v, NEW cut, TopMeans(c, m, y, q, v, cut),
         NEW h, NEW w, NEW wt, NEW scalar, NEW x, NextField(c, c.fields, h, y, q, w, wt, scalar, x),
         IdOf(w) \in FieldIds(c.type), ~Failed(DecodeFieldHeader(c.rest)),
         Known(IdOf(w), From(c.rest, DecodeFieldHeader(c.rest).n))
  PROVE  Steps(v, cut)
<1>. DEFINE n == DecodeFieldHeader(c.rest).n  rest == From(c.rest, n)  id == IdOf(w)
            f == Schema[c.type][id]  p == PayloadOf(scalar, rest)
            after == Advanced(c, From(rest, p.n))
<1>1. /\ c.rest \in Seq(Byte) /\ IsCall(c) /\ c = Top /\ q = (cut /\ m = 1)
      /\ n \in 1 .. Len(c.rest) /\ c.type \in DOMAIN Schema
  <2>1. /\ c.rest \in Seq(Byte) /\ IsCall(c) /\ c = Last(stack) /\ q = (cut /\ m = 1)
        /\ c.type \in DOMAIN Schema
    BY DEF TopMeans, TopLaid, CallLaid
  <2>2. Returned(DecodeFieldHeader(c.rest), c.rest)
    BY <2>1, HeaderReturned
  <2>. QED  BY <2>1, <2>2 DEF Returned, Top
<1>2. /\ Shaped(w, id, wt, scalar, x) /\ scalar \in BOOLEAN /\ Len(w) < Word
      /\ IF f.kind = "list"
         THEN ~scalar /\ \E el : /\ Element(f.arg, el, x)
                                 /\ h = [c.fields EXCEPT ![id] = Append(c.fields[id], el)]
         ELSE /\ scalar <=> IsNumber(f.kind)
              /\ ~Refuses(f, x) /\ h = [c.fields EXCEPT ![id] = Accepted(f, x)]
  BY IdRead DEF NextField, Effect
<1>3. scalar <=> IsNumber(f.kind)
  BY <1>2 DEF IsNumber
<1>4. IF Failed(p) THEN Fail(p.error)
      ELSE IF f.kind = "list"
      THEN /\ stack' = Front(stack) \o <<after, Call(f.arg, p.value, id)>>
           /\ status' = status /\ result' = result
      ELSE IF Refuses(f, p.value) THEN Fail("InvalidEnumValue")
      ELSE ReplaceTop(WithField(after, id, Accepted(f, p.value)))
  BY <1>1, <1>3 DEF Known, PayloadOf
<1>5. rest \in Seq(Byte)
  <2>1. n \in 0 .. Len(c.rest)
    BY <1>1
  <2>. HIDE DEF n
  <2>. QED  BY <1>1, <2>1, FromIs
<1>6. Returned(p, rest)
  <2>. HIDE DEF rest
  <2>. QED  BY <1>2, <1>5, PayloadReturned
<1>7. CASE Len(w) <= Len(c.rest)
  <2>1. ~Failed(p) /\ p.value = x /\ From(rest, p.n) = From(c.rest, Len(w))
    BY <1>7 DEF NextField, Took
  <2>2. PICK d : \A a : a.type = c.type /\ a.rest = From(c.rest, Len(w)) => Carries(a, d, h, y, q)
    BY <1>7 DEF NextField
  <2>3. /\ IsCall(after) /\ after.type = c.type /\ after.rest = From(c.rest, Len(w))
        /\ after.fields = c.fields /\ after.id = c.id
    BY <1>1, <2>1, AdvancedIs
  <2>. HIDE DEF f, p, after, id
  <2>4. CASE f.kind = "list"
    <3>1. PICK el : Element(f.arg, el, x) /\ h = [c.fields EXCEPT ![id] = Append(c.fields[id], el)]
      BY <1>2, <2>4
    <3>2. f.arg \in DOMAIN Schema
      <4>1. FieldLaid(c.type, id, f)
        BY <1>1, SchemaIs DEF SchemaLaid, f, id
      <4>. QED  BY <2>4, <4>1 DEF FieldLaid
    <3>3. Restored(f.arg, el, x)
      BY <3>1, <3>2, ElementRestored
    <3>4. Len(x) < Word
      <4>1. x \in Seq(Byte) /\ Len(x) <= Len(w) /\ w \in Seq(Byte)
        BY <1>2, <2>4, ShapedFits, IdRead
      <4>. DEFINE k == Len(x)  l == Len(w)
      <4>2. k \in Nat /\ l \in Nat /\ k <= l /\ l < Word
        BY <1>2, <4>1
      <4>. HIDE DEF k, l
      <4>3. k < Word
        BY <4>2, VarintAssumption
      <4>. QED  BY <4>3 DEF k
    <3>5. Carries(after, d, h, y, q) /\ h = Pending(after, id, el)
      BY <2>2, <2>3, <3>1 DEF Pending
    <3>6. Carries(after, d, Pending(after, id, el), y, q)
      BY <3>5
    <3>7. stack' = Front(stack) \o <<after, Call(f.arg, x, id)>> /\ status' = status
      BY <1>4, <2>1, <2>4
    <3>. QED  BY <2>3, <3>2, <3>3, <3>4, <3>6, <3>7, PushMeans
  <2>5. CASE f.kind # "list"
    <3>. DEFINE z == Accepted(f, x)  a == WithField(after, id, z)
    <3>1. ReplaceTop(a) /\ h = [c.fields EXCEPT ![id] = z]
      BY <1>2, <1>4, <2>1, <2>5
    <3>. HIDE DEF z
    <3>2. Put(a, after, id, z)
      BY <2>3, WithFieldIs
    <3>. HIDE DEF a
    <3>3. a.type = c.type /\ a.rest = From(c.rest, Len(w)) /\ a.fields = h /\ a.id = c.id
      BY <2>3, <3>1, <3>2 DEF Put
    <3>4. Carries(a, d, a.fields, y, q)
      BY <2>2, <3>3
    <3>. QED  BY <3>1, <3>3, <3>4, ReplaceMeans
  <2>. QED  BY <2>4, <2>5
<1>8. CASE ~(Len(w) <= Len(c.rest))
  <2>1. q /\ Failed(p)
    BY <1>8 DEF NextField, Broke
  <2>2. status' = p.error /\ p.error \in Errors
    BY <1>4, <1>6, <2>1 DEF Fail, Returned
  <2>. QED  BY <1>1, <2>1, <2>2 DEF Steps
<1>. QED  BY <1>7, <1>8

LEMMA FieldMeans ==
  ASSUME TypeInv, DecodeField, NEW v, NEW cut \in BOOLEAN, StackMeans(stack, v, cut)
  PROVE  Steps(v, cut)
<1>. DEFINE c == Last(stack)  m == Len(stack)  q == (cut /\ m = 1)  r == DecodeFieldHeader(c.rest)
            rest == From(c.rest, r.n)
<1>1. status = "decoding" /\ c.rest # <<>>
  BY DEF DecodeField, Top
<1>2. TopLaid(c, m)
  BY <1>1, TopHolds
<1>3. PICK b, y : Carries(c, b, c.fields, y, q) /\ Waits(stack, m, y, v, cut)
  BY <1>2 DEF StackMeans, TopLaid
<1>4. IF Failed(r) THEN Fail(r.error)
      ELSE IF r.value.id \in FieldIds(c.type) THEN Known(r.value.id, rest)
      ELSE Unknown(r.value.wireType, rest)
  BY DEF DecodeField, Top
<1>5. Returned(r, c.rest)
  BY <1>2, HeaderReturned DEF TopLaid, CallLaid
<1>6. TopMeans(c, m, y, q, v, cut)
  BY <1>1, <1>2, <1>3 DEF TopMeans
<1>. HIDE DEF c, m, q
<1>7. PICK h, w, wt, scalar, x : NextField(c, c.fields, h, y, q, w, wt, scalar, x)
  BY <1>1, <1>3, CarriesOn
<1>8. CASE Failed(r)
  <2>1. q
    BY <1>7, <1>8 DEF NextField, Took
  <2>2. status' = r.error /\ r.error \in Errors
    BY <1>4, <1>5, <1>8 DEF Fail, Returned
  <2>. QED  BY <2>1, <2>2 DEF Steps, q
<1>9. CASE ~Failed(r)
  <2>1. r.value.id = IdOf(w) /\ r.value.wireType = wt
    BY <1>7, <1>9 DEF NextField, Took, Broke
  <2>2. IF IdOf(w) \in FieldIds(c.type) THEN Known(IdOf(w), rest) ELSE Unknown(wt, rest)
    BY <1>4, <1>9, <2>1
  <2>3. CASE IdOf(w) \in FieldIds(c.type)
    BY <1>6, <1>7, <1>9, <2>2, <2>3, KnownMeans
  <2>4. CASE IdOf(w) \notin FieldIds(c.type)
    BY <1>6, <1>7, <1>9, <2>2, <2>4, UnknownMeans
  <2>. QED  BY <2>3, <2>4
<1>. QED  BY <1>8, <1>9

\* At the end of its bytes the call has all of its block, or, when the end was cut off,
\* a part of it.
LEMMA CarriesEnd ==
  ASSUME NEW c, NEW b, NEW g, NEW y, NEW cut, Carries(c, b, g, y, cut), c.rest = <<>>
  PROVE  (~cut => g = y) /\ (cut => Within(c.type, g, y))
<1>1. /\ cut \in BOOLEAN /\ b \in Seq(Byte)
      /\ Leads(c.type, b, g, y, cut) /\ Arrives(c.rest, b, cut)
  BY DEF Carries
<1>2. /\ cut => Within(c.type, g, y)
      /\ (b = <<>> /\ g = y) \/ Goes(c.type, b, g, y, cut)
  BY <1>1, LeadsOn
<1>3. ASSUME b = <<>>, Goes(c.type, b, g, y, cut)
      PROVE  FALSE
  <2>1. PICK w, d, h : /\ w \in Seq(Byte) /\ d \in Seq(Byte) /\ b = w \o d
                       /\ Read(c.type, w, g, h)
    BY <1>3 DEF Goes
  <2>2. w # <<>>
    BY <2>1, ReadIs
  <2>3. Len(w \o d) = Len(w) + Len(d)
    BY <2>1
  <2>4. Len(w) + Len(d) = 0
    BY <1>3, <2>1, <2>3
  <2>5. Len(w) = 0
    BY <2>1, <2>4
  <2>. QED  BY <2>1, <2>2, <2>5
<1>4. ~cut => b = <<>>
  BY <1>1 DEF Arrives
<1>. QED  BY <1>2, <1>3, <1>4

LEMMA PrefixIs ==
  ASSUME NEW X, NEW x \in Seq(X), NEW i \in 0 .. Len(x)
  PROVE  IsPrefix(SubSeq(x, 1, i), x)
<1>. DEFINE s == SubSeq(x, 1, i)
<1>1. s \in Seq(X) /\ Len(s) = i
  BY FirstElements
<1>2. i <= Len(x)
  OBVIOUS
<1>3. SubSeq(x, 1, i) = s
  OBVIOUS
<1>. HIDE DEF s
<1>4. SubSeq(s, 1, Len(s)) = s
  BY <1>1, FirstElements
<1>5. IsPrefix(s, x)
  BY <1>1, <1>2, <1>3, <1>4 DEF IsPrefix
<1>. QED  BY <1>5 DEF s

LEMMA CutIs ==
  ASSUME NEW t \in DOMAIN Schema, t # "FileEntry", NEW v, IsBlock(t, v),
         NEW g, Within(t, g, v), ~Missing(t, g)
  PROVE  CutWithin(t, Assembled(t, g), v)
<1>. DEFINE n == Depth - 1  block == Assembled(t, g)
<1>1. IsValue(t, v, Values[n])
  BY DepthIs, ValuesAre DEF IsBlock
<1>2. /\ HasFields(t, g)
      /\ \A id \in FieldIds(t) :
           IF Schema[t][id].kind = "list" THEN \E i \in 0 .. Len(v[id]) : g[id] = SubSeq(v[id], 1, i)
           ELSE g[id] = Blank(t)[id] \/ g[id] = v[id]
  BY DEF Within
<1>3. \A id \in FieldIds(t) : block[id] = g[id] \/ (t = "Code" /\ id \in {4, 5} /\ block[id] = None)
  BY <1>2, AssembledIs
<1>. HIDE DEF n, block
<1>4. ASSUME NEW id \in FieldIds(t)
      PROVE  \/ block[id] = v[id]
             \/ ~Schema[t][id].required /\ block[id] = None
             \/ Schema[t][id].kind = "list" /\ IsPrefix(block[id], v[id])
  <2>1. FieldLaid(t, id, Schema[t][id])
    BY SchemaIs DEF SchemaLaid
  <2>2. CASE block[id] # g[id]
    <3>1. t = "Code" /\ id \in {4, 5} /\ block[id] = None
      BY <1>3, <2>2
    <3>2. Schema[t][id] = Optional("u32")
      BY <3>1, SchemaIs DEF SchemaLaid
    <3>. QED  BY <3>1, <3>2 DEF Optional
  <2>3. CASE block[id] = g[id] /\ Schema[t][id].kind = "list"
    <3>1. PICK i \in 0 .. Len(v[id]) : g[id] = SubSeq(v[id], 1, i)
      BY <1>2, <2>3
    <3>2. v[id] \in Seq(Values[n][Schema[t][id].arg])
      BY <1>1, <2>3, FieldHolds
    <3>3. IsPrefix(SubSeq(v[id], 1, i), v[id])
      BY <3>2, PrefixIs
    <3>. QED  BY <2>3, <3>1, <3>3
  <2>4. CASE block[id] = g[id] /\ Schema[t][id].kind # "list"
    <3>1. g[id] = None \/ g[id] = v[id]
      BY <1>2, <2>1, <2>4, BlankIs DEF FieldLaid
    <3>2. g[id] = None => ~Schema[t][id].required
      BY DEF Missing
    <3>. QED  BY <2>4, <3>1, <3>2
  <2>. QED  BY <2>2, <2>3, <2>4
<1>. QED  BY <1>4 DEF CutWithin, block

LEMMA EndMeans ==
  ASSUME TypeInv, EndOfFields, NEW v, NEW cut \in BOOLEAN, StackMeans(stack, v, cut),
         type # "FileEntry", IsBlock(type, v)
  PROVE  Steps(v, cut)
<1>. DEFINE c == Last(stack)  m == Len(stack)  q == (cut /\ m = 1)
            block == Assembled(c.type, c.fields)
            d == Last(Front(stack))  a == Resumed(d, c, block)
            u == Append(Front(Front(stack)), a)
<1>1. status = "decoding" /\ c.rest = <<>>
  BY DEF EndOfFields, Top
<1>2. TopLaid(c, m)
  BY <1>1, TopHolds
<1>3. IF Missing(c.type, c.fields) THEN Fail("MissingRequiredField")
      ELSE IF m > 1 THEN stack' = u /\ status' = status /\ result' = result
      ELSE Return(block)
  BY DEF EndOfFields, Top, Resumed
<1>4. PICK b, y : Carries(c, b, c.fields, y, q) /\ Waits(stack, m, y, v, cut)
  BY <1>2 DEF StackMeans, TopLaid
<1>5. m \in Nat \ {0} /\ StackLaid(stack, type) /\ stack # <<>> /\ c = stack[m] /\ m = Len(stack)
  BY <1>2 DEF TopLaid
<1>. HIDE DEF c, m, u, q
<1>6. (~q => c.fields = y) /\ (q => Within(c.type, c.fields, y))
  BY <1>1, <1>4, CarriesEnd
<1>7. ~Missing(c.type, y) /\ Assembled(c.type, y) = y
  BY <1>4 DEF Carries
<1>8. CASE Missing(c.type, c.fields)
  <2>1. q
    BY <1>6, <1>7, <1>8
  <2>2. status' = "MissingRequiredField"
    BY <1>3, <1>8 DEF Fail
  <2>. QED  BY <2>1, <2>2 DEF Steps, Errors, q
<1>9. CASE ~Missing(c.type, c.fields) /\ m > 1
  <2>1. block = y
    BY <1>5, <1>6, <1>7, <1>9 DEF q
  <2>2. m \in Nat /\ IsStack(stack) /\ Len(stack) > 1
    BY <1>5, <1>9 DEF StackLaid
  <2>3. d = stack[m - 1]
    BY <1>5, <2>2, PoppedIs
  <2>4. m - 1 \in 1 .. Len(stack) - 1 /\ (m - 1) + 1 = m /\ m - 1 \in 1 .. Len(stack)
    BY <1>5, <1>9
  <2>5. IsCall(d)
    BY <1>5, <2>3, <2>4 DEF StackLaid, CallLaid
  <2>6. PICK e, z : /\ Carries(stack[m - 1], e, Pending(stack[m - 1], stack[m].id, y), z, cut /\ m - 1 = 1)
                    /\ Waits(stack, m - 1, z, v, cut)
    BY <1>4, <1>9, <2>2, WaitsPop
  <2>. HIDE DEF d, block
  <2>. DEFINE x == Append(d.fields[c.id], y)
  <2>7. a = WithField(d, c.id, x)
    BY <2>1 DEF Resumed
  <2>. HIDE DEF x, a
  <2>8. Put(a, d, c.id, x)
    BY <2>5, <2>7, WithFieldIs
  <2>9. a.type = d.type /\ a.rest = d.rest /\ a.id = d.id /\ a.fields = Pending(d, c.id, y)
    BY <2>8 DEF Put, Pending, x
  <2>10. Len(u) = m - 1 /\ u[m - 1] = a /\ \A k \in 1 .. m - 2 : u[k] = stack[k]
    <3>1. /\ Len(u) = Len(stack) - 1 /\ u[Len(stack) - 1] = a
          /\ \A k \in 1 .. Len(stack) - 2 : u[k] = stack[k]
      BY <2>2, PoppedIs DEF u
    <3>. QED  BY <1>5, <3>1
  <2>. DEFINE n == m - 1
  <2>11. n \in Nat \ {0} /\ n - 1 = m - 2
    BY <2>2, <1>9
  <2>. HIDE DEF n
  <2>12. /\ Carries(d, e, Pending(d, c.id, y), z, cut /\ n = 1) /\ Waits(stack, n, z, v, cut)
         /\ Len(u) = n /\ u[n] = a /\ (\A k \in 1 .. n - 1 : u[k] = stack[k]) /\ d = stack[n]
    BY <1>5, <2>3, <2>6, <2>10, <2>11 DEF n
  <2>13. Carries(a, e, a.fields, z, cut /\ n = 1)
    BY <2>9, <2>12 DEF Carries
  <2>14. u[n].id = stack[n].id
    BY <2>9, <2>12
  <2>15. Waits(u, n, z, v, cut)
    BY <2>11, <2>12, <2>14, WaitsKeep
  <2>16. StackMeans(u, v, cut)
    BY <2>12, <2>13, <2>15 DEF StackMeans
  <2>. QED  BY <1>1, <1>3, <1>9, <2>16 DEF Steps
<1>10. CASE ~Missing(c.type, c.fields) /\ ~(m > 1)
  <2>1. m = 1
    BY <1>5, <1>10
  <2>2. y = v /\ q = cut /\ c.type = type
    <3>1. Waits(stack, 1, y, v, cut)
      BY <1>4, <2>1
    <3>2. y = v
      BY <3>1, WaitsLast
    <3>3. c.type = type
      BY <1>5, <2>1 DEF StackLaid
    <3>. QED  BY <2>1, <3>2, <3>3 DEF q
  <2>3. status' = "ok" /\ result' = block
    BY <1>3, <1>10 DEF Return
  <2>4. CASE cut
    <3>1. type \in DOMAIN Schema
      BY <1>1 DEF TypeInv, TypeAt
    <3>2. CutWithin(type, block, v)
      BY <1>6, <1>10, <2>2, <2>4, <3>1, CutIs
    <3>. QED  BY <2>3, <2>4, <3>2 DEF Steps
  <2>5. CASE ~cut
    <3>1. block = v
      BY <1>6, <1>7, <2>2, <2>5
    <3>. QED  BY <2>3, <2>5, <3>1 DEF Steps
  <2>. QED  BY <2>4, <2>5
<1>. QED  BY <1>8, <1>9, <1>10
-----------------------------------------------------------------------------
(* What is decoded is what was sent.                                       *)

\* A summary and a value that the block under way can have; only a block with fields is
\* cut off.
Origin(t, f, text, v, cut) ==
  /\ cut \in BOOLEAN /\ Sendable(t, v) /\ (text = None \/ text \in Texts)
  /\ t # "FileEntry" /\ (f <=> text # None) /\ (cut => t \in DOMAIN Schema)

\* How far the decoder has come with them.
Decoding(t, text, v, cut, bytes, calls, s, found, value) ==
  /\ s = "called" => Comes(bytes, t, text, v, cut)
  /\ s = "stripped" => /\ found = text
                       /\ \E b : Means(t, v, b, cut) /\ Len(b) < Word /\ Arrives(bytes, b, cut)
  /\ s = "decoding" => found = text /\ StackMeans(calls, v, cut)
  /\ s = "ok" => found = text /\ IF cut THEN CutWithin(t, value, v) ELSE value = v
  /\ s \in Errors => cut

DecodingNow(text, v, cut) ==
  Decoding(type, text, v, cut, body, stack, status, summary, result)

LEMMA StripMeans ==
  ASSUME TypeInv, StripSummary, NEW text, NEW v, NEW cut, Origin(type, flagged, text, v, cut),
         DecodingNow(text, v, cut)
  PROVE  DecodingNow(text, v, cut)'
<1>. DEFINE s == DecodeSummary(body)
<1>1. /\ status = "called" /\ type' = type /\ flagged' = flagged /\ stack' = stack /\ result' = result
      /\ IF ~flagged THEN status' = "stripped" /\ body' = body /\ summary' = summary
         ELSE IF Failed(s) THEN status' = s.error /\ body' = body /\ summary' = summary
         ELSE status' = "stripped" /\ body' = From(body, s.n) /\ summary' = s.value
  BY DEF StripSummary
<1>2. body \in Seq(Byte) /\ Len(body) < Word /\ summary = None
  BY <1>1 DEF TypeInv, TypeAt
<1>3. PICK b : /\ Means(type, v, b, cut) /\ Len(WithSummary(text, b)) < Word
               /\ Arrives(body, WithSummary(text, b), cut)
  BY <1>1 DEF DecodingNow, Decoding, Comes
<1>4. /\ cut \in BOOLEAN /\ (text = None \/ text \in Texts) /\ (flagged <=> text # None)
      /\ b \in Seq(Byte)
  BY <1>3 DEF Origin, Means
<1>. DEFINE w == WithSummary(text, b)  e == EncodeSummary(text)
<1>5. /\ w \in Seq(Byte) /\ (text = None => w = b)
      /\ text # None => text \in Texts /\ HasJoined(w, Byte, e, b)
  BY <1>4, WithSummaryIs
<1>. HIDE DEF s, w, e
<1>6. Len(w) < Word /\ Arrives(body, w, cut)
  BY <1>3 DEF w
<1>7. CASE ~flagged
  <2>1. text = None /\ w = b
    BY <1>4, <1>5, <1>7
  <2>2. Decoding(type, text, v, cut, body, stack, "stripped", None, result)
    BY <1>3, <1>6, <2>1 DEF Decoding, Errors
  <2>. QED  BY <1>1, <1>2, <1>7, <2>2 DEF DecodingNow
<1>8. CASE flagged
  <2>1. text \in Texts /\ HasJoined(w, Byte, e, b)
    BY <1>4, <1>5, <1>8
  <2>2. /\ Alike(body, e) /\ Len(e) <= Len(w) /\ Len(b) <= Len(w)
        /\ (~cut => Len(e) <= Len(body))
        /\ (Len(e) <= Len(body) => Arrives(From(body, Len(e)), b, cut))
    BY <1>4, <1>6, <2>1, RestArrives
  <2>3. Len(text) < Word /\ Len(b) < Word
    <3>1. text \in Seq(Byte) /\ EncodeVarint[Len(text)] \in Seq(Byte)
      <4>1. text \in Seq(Byte)
        BY <2>1 DEF Texts
      <4>2. Len(text) \in Nat
        BY <4>1
      <4>. QED  BY <4>1, <4>2, NumberBytes
    <3>. DEFINE x == EncodeVarint[Len(text)]
    <3>. HIDE DEF x
    <3>2. HasJoined(x \o text, Byte, x, text)
      BY <3>1, JoinHas DEF x
    <3>3. e = x \o text
      BY DEF e, EncodeSummary, x
    <3>4. HasJoined(e, Byte, x, text)
      BY <3>2, <3>3
    <3>. DEFINE i == Len(text)  j == Len(e)  k == Len(w)  l == Len(b)  n == Len(x)
    <3>5. /\ i \in Nat /\ j \in Nat /\ k \in Nat /\ l \in Nat /\ n \in Nat
          /\ j = n + i /\ j <= k /\ l <= k /\ k < Word
      <4>1. Len(e) = Len(x) + Len(text) /\ Len(x) \in Nat /\ Len(text) \in Nat /\ e \in Seq(Byte)
        BY <3>4, Zenon DEF HasJoined
      <4>. QED  BY <1>4, <1>5, <1>6, <2>2, <4>1
    <3>. HIDE DEF i, j, k, l, n
    <3>6. i < Word /\ l < Word
      BY <3>5, VarintAssumption
    <3>. QED  BY <3>6 DEF i, l
  <2>4. IF Len(e) <= Len(body) THEN s = Ok(text, Len(e)) ELSE Failed(s)
    BY <1>2, <2>1, <2>2, <2>3, SummaryRead DEF s, e
  <2>5. CASE Len(e) <= Len(body)
    <3>1. ~Failed(s) /\ s.n = Len(e) /\ s.value = text
      BY <2>4, <2>5 DEF Failed, Ok
    <3>. DEFINE r == From(body, Len(e))
    <3>2. status' = "stripped" /\ body' = r /\ summary' = text
      BY <1>1, <1>8, <3>1
    <3>3. Arrives(r, b, cut)
      BY <2>2, <2>5
    <3>. HIDE DEF r
    <3>4. Decoding(type, text, v, cut, r, stack, "stripped", text, result)
      BY <1>3, <2>3, <3>3 DEF Decoding, Errors
    <3>. QED  BY <1>1, <3>2, <3>4 DEF DecodingNow
  <2>6. CASE ~(Len(e) <= Len(body))
    <3>1. cut /\ Failed(s)
      BY <2>2, <2>4, <2>6
    <3>2. s.error \in Errors
      BY <1>2, <3>1, SummaryReturned DEF Returned, s
    <3>3. Decoding(type, text, v, cut, body, stack, s.error, None, result)
      BY <3>1, <3>2 DEF Decoding, Errors
    <3>4. status' = s.error /\ body' = body /\ summary' = None
      BY <1>1, <1>2, <1>8, <3>1
    <3>. QED  BY <1>1, <3>3, <3>4 DEF DecodingNow
  <2>. QED  BY <2>5, <2>6
<1>9. flagged \in BOOLEAN
  BY DEF TypeInv, TypeAt
<1>. QED  BY <1>7, <1>8, <1>9

LEMMA UntypedMeans ==
  ASSUME TypeInv, DecodeUntyped, NEW text, NEW v, NEW cut, Origin(type, flagged, text, v, cut),
         DecodingNow(text, v, cut)
  PROVE  DecodingNow(text, v, cut)'
<1>. DEFINE r == IF type = "End" THEN <<>> ELSE body
<1>1. /\ status = "stripped" /\ type \in Untyped /\ status' = "ok" /\ result' = r /\ stack' = <<>>
      /\ Same
  BY DEF DecodeUntyped, Return, Same
<1>2. type \notin DOMAIN Schema /\ ~cut
  BY <1>1, UntypedIs DEF Origin
<1>3. PICK b : Means(type, v, b, cut) /\ Arrives(body, b, cut)
  BY <1>1 DEF DecodingNow, Decoding
<1>4. summary = text
  BY <1>1 DEF DecodingNow, Decoding
<1>5. body = b /\ b = v /\ (type = "End" => v = <<>>)
  BY <1>1, <1>2, <1>3 DEF Arrives, Means, Sendable
<1>6. r = v
  BY <1>5
<1>. HIDE DEF r
<1>7. Decoding(type, text, v, cut, body, <<>>, "ok", text, r)
  BY <1>2, <1>6 DEF Decoding, Errors
<1>. QED  BY <1>1, <1>4, <1>7 DEF DecodingNow, Same

LEMMA TypedMeans ==
  ASSUME TypeInv, DecodeTyped, NEW text, NEW v, NEW cut, Origin(type, flagged, text, v, cut),
         DecodingNow(text, v, cut)
  PROVE  DecodingNow(text, v, cut)'
<1>. DEFINE c == Call(type, body, 0)  u == <<c>>  n == Depth - 1
<1>1. /\ status = "stripped" /\ type \notin Untyped /\ status' = "decoding" /\ stack' = u
      /\ result' = result /\ Same
  BY DEF DecodeTyped, Same
<1>2. type \in DOMAIN Schema
  BY <1>1 DEF TypeInv, TypeAt
<1>3. PICK b : Means(type, v, b, cut) /\ Len(b) < Word /\ Arrives(body, b, cut)
  BY <1>1 DEF DecodingNow, Decoding
<1>4. summary = text /\ cut \in BOOLEAN
  BY <1>1 DEF DecodingNow, Decoding, Origin
<1>5. b \in Seq(Byte) /\ Leads(type, b, Blank(type), v, cut) /\ IsBlock(type, v)
  BY <1>1, <1>2, <1>3 DEF Means, Sendable
<1>6. IsValue(type, v, Values[n])
  BY <1>2, <1>5, DepthIs, ValuesAre DEF IsBlock
<1>7. ~Missing(type, v) /\ Assembled(type, v) = v
  <2>. HIDE DEF n
  <2>. QED  BY <1>2, <1>6, WholeIs
<1>8. c.type = type /\ c.rest = body /\ c.fields = Blank(type)
  BY CallIs
<1>. HIDE DEF c
<1>9. Len(u) = 1 /\ u[1] = c
  OBVIOUS
<1>. HIDE DEF u
<1>10. (cut /\ 1 = 1) = cut
  BY <1>4
<1>11. Carries(c, b, c.fields, v, cut)
  BY <1>3, <1>4, <1>5, <1>7, <1>8 DEF Carries
<1>12. Waits(u, 1, v, v, cut)
  <2>. DEFINE vs == [k \in {1} |-> v]
  <2>1. vs[1] = v /\ \A k \in 1 .. 1 - 1 : FALSE
    OBVIOUS
  <2>. HIDE DEF vs
  <2>. QED  BY <2>1 DEF Waits
<1>13. StackMeans(u, v, cut)
  BY <1>9, <1>10, <1>11, <1>12 DEF StackMeans
<1>14. Decoding(type, text, v, cut, body, u, "decoding", text, result)
  BY <1>13 DEF Decoding, Errors
<1>. QED  BY <1>1, <1>4, <1>14 DEF DecodingNow, Same

LEMMA DecodeMeans ==
  ASSUME TypeInv, DecoderNext, NEW text, NEW v, NEW cut, Origin(type, flagged, text, v, cut),
         DecodingNow(text, v, cut)
  PROVE  DecodingNow(text, v, cut)'
<1>1. CASE DecodeField \/ EndOfFields
  <2>1. status = "decoding" /\ Same
    BY <1>1 DEF DecodeField, EndOfFields, Same
  <2>2. summary = text /\ StackMeans(stack, v, cut)
    BY <2>1 DEF DecodingNow, Decoding
  <2>3. cut \in BOOLEAN /\ type # "FileEntry" /\ IsBlock(type, v)
    BY <2>1, UntypedIs DEF TypeInv, TypeAt, Origin, Sendable
  <2>4. Steps(v, cut)
    BY <1>1, <2>2, <2>3, FieldMeans, EndMeans
  <2>5. Decoding(type, text, v, cut, body, stack', status', text, result')
    BY <2>4 DEF Steps, Decoding, Errors
  <2>. QED  BY <2>1, <2>2, <2>5 DEF DecodingNow, Same
<1>. QED  BY <1>1, StripMeans, UntypedMeans, TypedMeans DEF DecoderNext

\* The block that the body under way was made of: the one sent, or, once it is passed on,
\* the one decoded first.
Source == IF first = <<>> THEN sent ELSE first[1]

\* Whether the body means that block, its end being there or not.
Clean == first # <<>> \/ change \in Harmless \cup {"cut"}
Cutting == first = <<>> /\ change = "cut"

IsRecord(s) == s = [summary |-> s.summary, value |-> s.value]

SourceInv ==
  /\ change \in Harmless \cup {"cut", "widened", "retyped", "noise"}
  /\ IsRecord(sent)
  /\ first # <<>> =>
       /\ IsRecord(first[1])
       /\ change \in Harmless => first[1] = sent
       /\ change = "cut" => /\ first[1].summary = sent.summary
                            /\ CutWithin(type, first[1].value, sent.value)
  /\ Origin(type, flagged, Source.summary, Source.value, Cutting)
  /\ Clean => DecodingNow(Source.summary, Source.value, Cutting)

BlockInv == TypeInv /\ SourceInv

LEMMA InitMeans ==
  ASSUME Init
  PROVE  SourceInv
<1>1. PICK k \in DOMAIN Blocks :
        type = Blocks[k].type /\ sent = [summary |-> Blocks[k].summary, value |-> Blocks[k].value]
  BY DEF Init
<1>2. IsSent(type, sent.summary, sent.value) /\ IsRecord(sent)
  BY <1>1 DEF IsSent, IsRecord
<1>3. /\ status = "called" /\ summary = None /\ first = <<>>
      /\ flagged = (sent.summary # None) /\ body \in Arriving(type, sent, change)
      /\ change \in Changes /\ (type \in Untyped => change \in {"none", "noise"})
  BY DEF Init, DecoderInit
<1>4. change \in Harmless \cup {"cut"} => Comes(body, type, sent.summary, sent.value, change = "cut")
  BY <1>2, <1>3, ArrivingIs
<1>5. /\ Sendable(type, sent.value) /\ type \in DOMAIN Schema \cup Untyped
      /\ type # "FileEntry" /\ (sent.summary = None \/ sent.summary \in Texts)
  BY <1>2, SentAre
<1>6. Source = sent /\ Cutting = (change = "cut") /\ (Clean <=> change \in Harmless \cup {"cut"})
  BY <1>3 DEF Source, Cutting, Clean
<1>7. Origin(type, flagged, sent.summary, sent.value, change = "cut")
  BY <1>3, <1>5 DEF Origin
<1>8. Clean => DecodingNow(sent.summary, sent.value, change = "cut")
  BY <1>3, <1>4, <1>6 DEF DecodingNow, Decoding, Errors
<1>9. change \in Harmless \cup {"cut", "widened", "retyped", "noise"}
  BY <1>3, RoundTripAssumption DEF Harmless
<1>. QED  BY <1>2, <1>3, <1>6, <1>7, <1>8, <1>9 DEF SourceInv

LEMMA DecodeKeeps ==
  ASSUME BlockInv, Decode
  PROVE  SourceInv'
<1>1. /\ TypeInv /\ SourceInv /\ DecoderNext
      /\ sent' = sent /\ change' = change /\ first' = first
  BY DEF BlockInv, Decode
<1>2. type' = type /\ flagged' = flagged
  BY <1>1 DEF DecoderNext, StripSummary, DecodeUntyped, DecodeTyped, DecodeField, EndOfFields
<1>3. PICK text, v, cut : text = Source.summary /\ v = Source.value /\ cut = Cutting
  OBVIOUS
<1>4. text = (Source.summary)' /\ v = (Source.value)' /\ cut = Cutting' /\ Clean' = Clean
  BY <1>1, <1>3 DEF Source, Cutting, Clean
<1>5. Origin(type, flagged, text, v, cut) /\ (Clean => DecodingNow(text, v, cut))
  BY <1>1, <1>3 DEF SourceInv
<1>6. Clean => DecodingNow(text, v, cut)'
  BY <1>1, <1>5, DecodeMeans
<1>7. (Origin(type, flagged, Source.summary, Source.value, Cutting))'
  BY <1>2, <1>4, <1>5
<1>8. Clean' => (DecodingNow(Source.summary, Source.value, Cutting))'
  BY <1>4, <1>6 DEF DecodingNow
<1>. QED  BY <1>1, <1>2, <1>7, <1>8 DEF SourceInv

LEMMA PassOnMeans ==
  ASSUME BlockInv, PassOn
  PROVE  SourceInv'
<1>. DEFINE b == EncodeBody(type, result)  w == WithSummary(summary, b)
            got == [summary |-> summary, value |-> result]
<1>1. /\ status = "ok" /\ body' = w /\ Len(w) < Word /\ status' = "called"
      /\ type' = type /\ flagged' = flagged /\ sent' = sent /\ change' = change
      /\ first = <<>> /\ first' = <<got>>
  BY DEF PassOn, Addressable
<1>2. TypeInv /\ SourceInv
  BY DEF BlockInv
<1>3. Sendable(type, result) /\ (summary = None \/ summary \in Texts)
  BY <1>1, <1>2, DecodedSendable
<1>4. flagged <=> summary # None
  BY <1>1, <1>2 DEF TypeInv, TypeAt
<1>5. Means(type, result, b, FALSE)
  BY <1>3, EncodedMeans
<1>6. Comes(w, type, summary, result, FALSE)
  BY <1>1, <1>5 DEF Comes, Arrives
<1>7. IsRecord(got) /\ got.summary = summary /\ got.value = result
  BY DEF IsRecord
<1>8. first' # <<>> /\ first'[1] = got
  BY <1>1
<1>. HIDE DEF got, w, b
<1>9. Source' = got /\ Cutting' = FALSE
  BY <1>8 DEF Source, Cutting
<1>10. type # "FileEntry"
  BY <1>2 DEF SourceInv, Origin
<1>11. Origin(type, flagged, summary, result, FALSE)
  BY <1>3, <1>4, <1>10 DEF Origin
<1>12. Decoding(type, summary, result, FALSE, w, stack', "called", summary', result')
  BY <1>6 DEF Decoding, Errors
<1>13. ASSUME change \in Harmless \cup {"cut"}
       PROVE  /\ summary = sent.summary
              /\ IF change = "cut" THEN CutWithin(type, result, sent.value) ELSE result = sent.value
  <2>1. Clean /\ Source = sent /\ Cutting = (change = "cut")
    BY <1>1, <1>13 DEF Clean, Source, Cutting
  <2>2. DecodingNow(sent.summary, sent.value, change = "cut")
    BY <1>2, <2>1 DEF SourceInv
  <2>. QED  BY <1>1, <2>2 DEF DecodingNow, Decoding
<1>14. change \in Harmless => got = sent
  <2> SUFFICES ASSUME change \in Harmless
               PROVE  got = sent
    OBVIOUS
  <2>1. change # "cut"
    BY DEF Harmless
  <2>2. summary = sent.summary /\ result = sent.value
    BY <1>13, <2>1
  <2>3. sent = [summary |-> sent.summary, value |-> sent.value]
    BY <1>2 DEF SourceInv, IsRecord
  <2>. QED  BY <2>2, <2>3 DEF got
<1>15. change = "cut" => got.summary = sent.summary /\ CutWithin(type, got.value, sent.value)
  BY <1>7, <1>13
<1>16. (Origin(type, flagged, Source.summary, Source.value, Cutting))'
  BY <1>1, <1>7, <1>9, <1>11
<1>17. (DecodingNow(Source.summary, Source.value, Cutting))'
  BY <1>1, <1>7, <1>9, <1>12 DEF DecodingNow
<1>18. /\ IsRecord(first'[1])
       /\ change' \in Harmless => first'[1] = sent'
       /\ change' = "cut" => /\ first'[1].summary = sent'.summary
                             /\ CutWithin(type', first'[1].value, sent'.value)
  BY <1>1, <1>7, <1>8, <1>14, <1>15
<1>19. IsRecord(sent') /\ change' \in Harmless \cup {"cut", "widened", "retyped", "noise"}
  BY <1>1, <1>2 DEF SourceInv
<1>. QED  BY <1>16, <1>17, <1>18, <1>19 DEF SourceInv, IsRecord, CutWithin

LEMMA NextMeans ==
  ASSUME BlockInv, [Next]_vars
  PROVE  BlockInv'
<1>1. TypeInv'
  BY NextTyped DEF BlockInv
<1>2. SourceInv'
  <2>1. CASE Decode
    BY <2>1, DecodeKeeps
  <2>2. CASE PassOn
    BY <2>2, PassOnMeans
  <2>3. CASE UNCHANGED vars
    <3>1. SourceInv
      BY DEF BlockInv
    <3>. QED  BY <2>3, <3>1 DEF SourceInv, vars, Source, Clean, Cutting, DecodingNow
  <2>. QED  BY <2>1, <2>2, <2>3 DEF Next
<1>. QED  BY <1>1, <1>2 DEF BlockInv

LEMMA BlocksKept ==
  Spec => []BlockInv
<1>1. Init => BlockInv
  BY InitTyped, InitMeans DEF BlockInv
<1>. QED  BY <1>1, NextMeans, PTL DEF Spec

\* Decoding that has ended: with a block, or with an error when the end was cut off.
LEMMA Ended ==
  ASSUME BlockInv, Final, Clean
  PROVE  /\ ~Cutting => status = "ok" /\ Got = Source
         /\ status = "ok" => /\ summary = Source.summary
                             /\ Cutting => CutWithin(type, result, Source.value)
<1>1. /\ status \in {"ok"} \cup Errors
      /\ Decoding(type, Source.summary, Source.value, Cutting, body, stack, status, summary, result)
  BY DEF BlockInv, TypeInv, TypeAt, SourceInv, DecodingNow, Final
<1>2. IsRecord(Source)
  BY DEF BlockInv, SourceInv, Source
<1>3. /\ status = "ok" => /\ summary = Source.summary
                          /\ IF Cutting THEN CutWithin(type, result, Source.value)
                             ELSE result = Source.value
      /\ status \in Errors => Cutting
  BY <1>1 DEF Decoding
<1>4. ASSUME ~Cutting
      PROVE  status = "ok" /\ Got = Source
  <2>1. status = "ok" /\ summary = Source.summary /\ result = Source.value
    BY <1>1, <1>3, <1>4
  <2>. QED  BY <1>2, <2>1 DEF Got, IsRecord
<1>. QED  BY <1>3, <1>4

\* A body that another producer wrote, with its fields in another order, with fields that
\* are overwritten later or that only a later version knows, or with overlong numbers,
\* decodes to the block that it means, under its summary.
THEOREM BodiesAreForwardCompatible ==
  Spec => []ForwardCompatible
<1>1. BlockInv => ForwardCompatible
  <2> SUFFICES ASSUME BlockInv, change \in Harmless, Final
               PROVE  status = "ok" /\ Got = sent
    BY DEF ForwardCompatible, Harmless
  <2>1. Clean /\ ~Cutting
    BY DEF Clean, Cutting, Harmless
  <2>2. status = "ok" /\ Got = Source
    BY <2>1, Ended
  <2>3. Source = sent
    BY DEF Source, BlockInv, SourceInv
  <2>. QED  BY <2>2, <2>3
<1>. QED  BY <1>1, BlocksKept, PTL

\* A body that lost its end is refused, or what decodes of it differs from what was sent
\* only in optional fields that are missing and in lists that end early.
THEOREM CutBodiesShow ==
  Spec => []CutShows
<1>1. BlockInv => CutShows
  <2> SUFFICES ASSUME BlockInv, change = "cut", status = "ok"
               PROVE  summary = sent.summary /\ CutWithin(type, result, sent.value)
    BY DEF CutShows, CutWithin
  <2>1. Final /\ Clean
    BY DEF Final, Clean
  <2>2. CASE first = <<>>
    <3>1. Cutting /\ Source = sent
      BY <2>2 DEF Cutting, Source
    <3>. QED  BY <2>1, <3>1, Ended
  <2>3. CASE first # <<>>
    <3>1. ~Cutting /\ Source = first[1]
      BY <2>3 DEF Cutting, Source
    <3>2. Got = first[1]
      BY <2>1, <3>1, Ended
    <3>3. summary = first[1].summary /\ result = first[1].value
      BY <3>2 DEF Got
    <3>. QED  BY <2>3, <3>3 DEF BlockInv, SourceInv
  <2>. QED  BY <2>2, <2>3
<1>. QED  BY <1>1, BlocksKept, PTL

\* A block that was decoded, from whatever bytes, survives being encoded and decoded again:
\* a program may pass it on.
THEOREM DecodedBlocksAreStable ==
  Spec => []Stable
<1>1. BlockInv => Stable
  <2> SUFFICES ASSUME BlockInv, first # <<>>, Final
               PROVE  status = "ok" /\ Got = first[1]
    BY DEF Stable
  <2>1. Clean /\ ~Cutting /\ Source = first[1]
    BY DEF Clean, Cutting, Source
  <2>. QED  BY <2>1, Ended
<1>. QED  BY <1>1, BlocksKept, PTL
=============================================================================
