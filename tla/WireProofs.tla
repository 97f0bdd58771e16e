----------------------------- MODULE WireProofs -----------------------------
(***************************************************************************)
(* Proofs about varints and about sequences of bytes behind each other,    *)
(* which the proofs about files and about bodies share.                    *)
(***************************************************************************)
EXTENDS Varint, SequencesExt, Induction
-----------------------------------------------------------------------------
(* Varints.                                                                *)

\* A number is its last digit and Base times the others.
LEMMA LastDigit ==
  ASSUME NEW v \in Nat
  PROVE  /\ v = Digit(v) + Base * (v \div Base)
         /\ Digit(v) \in 0 .. Base - 1 /\ v \div Base \in Nat
         /\ v >= Base => v \div Base < v
<1>. DEFINE T == {n \in Nat : \E q \in Nat : \E r \in 0 .. Base - 1 : n = Base * q + r}
<1>1. 0 \in T
  <2>1. 0 = Base * 0 + 0 /\ 0 \in 0 .. Base - 1
    BY VarintAssumption
  <2>. QED  BY <2>1
<1>2. ASSUME NEW n \in Nat, n \in T
      PROVE  n + 1 \in T
  <2>1. PICK q \in Nat, r \in 0 .. Base - 1 : n = Base * q + r
    BY <1>2
  <2>2. CASE r + 1 <= Base - 1
    <3>1. r + 1 \in 0 .. Base - 1 /\ n + 1 = Base * q + (r + 1)
      BY <2>1, <2>2, VarintAssumption
    <3>. QED  BY <3>1
  <2>3. CASE r + 1 = Base
    <3>1. 0 \in 0 .. Base - 1 /\ q + 1 \in Nat /\ n + 1 = Base * (q + 1) + 0
      BY <2>1, <2>3, VarintAssumption
    <3>. QED  BY <3>1
  <2>. QED  BY <2>1, <2>2, <2>3, VarintAssumption
<1>3. v \in T
  <2>. HIDE DEF T
  <2>. QED  BY <1>1, <1>2, NatUpward
<1>4. PICK q \in Nat, r \in 0 .. Base - 1 : v = Base * q + r
  BY <1>3
<1>5. v % Base = r /\ v \div Base = q
  BY <1>4, VarintAssumption
<1>6. v >= Base => v \div Base < v
  BY VarintAssumption
<1>. QED  BY <1>4, <1>5, <1>6, VarintAssumption DEF Digit

\* The equation by which EncodeVarint is defined.
EncodesBy(f) ==
  f = [v \in Nat |->
         IF v < Base THEN <<v>> ELSE <<Base + Digit(v)>> \o f[v \div Base]]

LEMMA EncodeDefined == EncodesBy(EncodeVarint)
<1>. DEFINE S == [Nat -> Seq(Byte)]
            F(g) == [v \in Nat |-> IF v < Base THEN <<v>> ELSE <<Base + Digit(v)>> \o g[v \div Base]]
            a == [v \in Nat |-> <<>>]
            h == [p \in Nat \X S |-> F(p[2])]
<1>1. a \in S
  OBVIOUS
<1>2. ASSUME NEW n \in Nat, NEW g \in S
      PROVE  F(g) \in S
  <2> SUFFICES ASSUME NEW v \in Nat
               PROVE  (IF v < Base THEN <<v>> ELSE <<Base + Digit(v)>> \o g[v \div Base]) \in Seq(Byte)
    OBVIOUS
  <2>1. Digit(v) \in 0 .. Base - 1 /\ v \div Base \in Nat
    BY LastDigit
  <2>2. CASE v < Base
    <3>1. v \in Byte
      BY <2>2, VarintAssumption DEF Byte
    <3>. QED  BY <2>2, <3>1
  <2>3. CASE ~(v < Base)
    <3>. DEFINE d == Digit(v)
    <3>1. d \in 0 .. Base - 1
      BY <2>1
    <3>. HIDE DEF d
    <3>2. Base + d \in Byte
      BY <3>1, VarintAssumption DEF Byte
    <3>3. <<Base + d>> \in Seq(Byte) /\ g[v \div Base] \in Seq(Byte)
      BY <2>1, <3>2
    <3>. QED  BY <2>3, <3>3 DEF d
  <2>. QED  BY <2>2, <2>3
<1>3. \A n \in Nat : \A x \in S : h[<<n, x>>] = F(x)
  OBVIOUS
<1>4. PICK k : Recursion(k, S, a, h)
  <2>1. \A n \in Nat : \A x \in S : h[<<n, x>>] \in S
    <3>. HIDE DEF F, S, h
    <3>. QED  BY <1>2, <1>3
  <2>. HIDE DEF h, a, S
  <2>. QED  BY <1>1, <2>1, ByRecursion
<1>5. k \in [Nat -> S] /\ \A n \in Nat : k[n + 1] = F(k[n])
  <2>. HIDE DEF F, S
  <2>. QED  BY <1>3, <1>4 DEF Recursion
<1>6. ASSUME NEW n \in Nat, NEW v \in Nat
      PROVE  k[n + 1][v] = IF v < Base THEN <<v>> ELSE <<Base + Digit(v)>> \o k[n][v \div Base]
  BY <1>5
<1>7. ASSUME NEW v \in Nat, ~(v < Base)
      PROVE  v \div Base \in Nat /\ v \div Base < v
  BY <1>7, LastDigit, VarintAssumption
<1>. DEFINE T == {n \in Nat : \A v \in Nat : v < n => \A m \in Nat : n <= m => k[m][v] = k[n][v]}
<1>8. Nat \subseteq T
  <2>1. 0 \in T
    OBVIOUS
  <2>2. ASSUME NEW n \in Nat, n \in T
        PROVE  n + 1 \in T
    <3> SUFFICES ASSUME NEW v \in Nat, v < n + 1, NEW m \in Nat, n + 1 <= m
                 PROVE  k[m][v] = k[n + 1][v]
      OBVIOUS
    <3>1. m - 1 \in Nat /\ (m - 1) + 1 = m /\ n <= m - 1
      OBVIOUS
    <3>2. CASE v < Base
      BY <3>1, <3>2, <1>6
    <3>3. CASE ~(v < Base)
      <4>1. v \div Base \in Nat /\ v \div Base < n
        BY <3>3, <1>7
      <4>2. k[m - 1][v \div Base] = k[n][v \div Base]
        BY <2>2, <3>1, <4>1
      <4>3. k[m][v] = <<Base + Digit(v)>> \o k[m - 1][v \div Base]
        BY <3>1, <3>3, <1>6
      <4>4. k[n + 1][v] = <<Base + Digit(v)>> \o k[n][v \div Base]
        BY <3>3, <1>6
      <4>. QED  BY <4>2, <4>3, <4>4
    <3>. QED  BY <3>2, <3>3
  <2>. HIDE DEF T
  <2>. QED  BY <2>1, <2>2, NatUpward
<1>. DEFINE f == [v \in Nat |-> k[v + 1][v]]
<1>9. EncodesBy(f)
  <2> SUFFICES ASSUME NEW v \in Nat
               PROVE  f[v] = IF v < Base THEN <<v>> ELSE <<Base + Digit(v)>> \o f[v \div Base]
    BY DEF EncodesBy
  <2>1. v \in Nat
    OBVIOUS
  <2>2. f[v] = IF v < Base THEN <<v>> ELSE <<Base + Digit(v)>> \o k[v][v \div Base]
    BY <2>1, <1>6
  <2>3. CASE ~(v < Base)
    <3>. DEFINE u == v \div Base
    <3>1. u \in Nat /\ u < v /\ u + 1 \in Nat /\ u < u + 1 /\ u + 1 <= v
      BY <2>3, <1>7
    <3>2. k[v][u] = k[u + 1][u]
      <4>. HIDE DEF u
      <4>. QED  BY <3>1, <2>1, <1>8
    <3>. QED  BY <2>2, <2>3, <3>1, <3>2
  <2>. QED  BY <2>2, <2>3
<1>10. \E g : EncodesBy(g)
  BY <1>9
<1>. QED  BY <1>10, Zenon DEF EncodeVarint, EncodesBy

\* The numbers that the digits of buf make, from each of the first n bytes on.
Numbers(buf, n, g) ==
  /\ g \in [1 .. n + 1 -> Nat] /\ g[n + 1] = 0
  /\ \A i \in 1 .. n : g[i] = Digit(buf[i]) + Base * g[i + 1]

\* They are determined by the bytes, and exist.
LEMMA NumbersAre ==
  ASSUME NEW n \in Nat, NEW buf, NEW f, NEW g,
         f = [i \in 1 .. n + 1 |-> IF i > n THEN 0 ELSE Digit(buf[i]) + Base * f[i + 1]],
         Numbers(buf, n, g)
  PROVE  f[1] = g[1]
<1>. DEFINE T == {k \in Nat : k <= n => f[n + 1 - k] = g[n + 1 - k]}
<1>1. 0 \in T
  BY DEF Numbers
<1>2. ASSUME NEW k \in Nat, k \in T
      PROVE  k + 1 \in T
  <2> SUFFICES ASSUME k + 1 <= n
               PROVE  f[n + 1 - (k + 1)] = g[n + 1 - (k + 1)]
    OBVIOUS
  <2>. DEFINE i == n + 1 - (k + 1)
  <2>1. i \in 1 .. n /\ i + 1 = n + 1 - k /\ ~(i > n) /\ i \in 1 .. n + 1
    OBVIOUS
  <2>2. f[i + 1] = g[i + 1]
    BY <1>2, <2>1
  <2>. HIDE DEF i
  <2>3. f[i] = Digit(buf[i]) + Base * f[i + 1]
    BY <2>1
  <2>4. g[i] = Digit(buf[i]) + Base * g[i + 1]
    BY <2>1 DEF Numbers
  <2>5. f[i] = g[i]
    BY <2>2, <2>3, <2>4
  <2>. QED  BY <2>5 DEF i
<1>3. n \in T
  <2>. HIDE DEF T
  <2>. QED  BY <1>1, <1>2, NatUpward
<1>4. n + 1 - n = 1
  OBVIOUS
<1>. QED  BY <1>3, <1>4

LEMMA NumbersExist ==
  ASSUME NEW buf \in Seq(Byte), NEW n \in 0 .. Len(buf)
  PROVE  \E g : Numbers(buf, n, g)
<1>1. n \in Nat /\ \A i \in 1 .. n : Digit(buf[i]) \in Nat
  BY VarintAssumption DEF Digit, Byte
<1>. DEFINE h == [p \in Nat \X Nat |->
                    IF p[1] < n THEN Digit(buf[n - p[1]]) + Base * p[2] ELSE 0]
<1>2. \A k \in Nat : \A x \in Nat : h[<<k, x>>] \in Nat
  <2> SUFFICES ASSUME NEW k \in Nat, NEW x \in Nat
               PROVE  (IF k < n THEN Digit(buf[n - k]) + Base * x ELSE 0) \in Nat
    OBVIOUS
  <2>1. CASE k < n
    <3>1. n - k \in 1 .. n /\ Base * x \in Nat
      BY <1>1, <2>1, VarintAssumption
    <3>. QED  BY <1>1, <3>1
  <2>. QED  BY <2>1
<1>3. PICK s : Recursion(s, Nat, 0, h)
  <2>. HIDE DEF h
  <2>. QED  BY <1>2, ByRecursion
<1>4. /\ s \in [Nat -> Nat] /\ s[0] = 0
      /\ \A k \in Nat : s[k + 1] = IF k < n THEN Digit(buf[n - k]) + Base * s[k] ELSE 0
  BY <1>3 DEF Recursion
<1>. DEFINE g == [i \in 1 .. n + 1 |-> s[n + 1 - i]]
<1>5. g \in [1 .. n + 1 -> Nat] /\ g[n + 1] = 0
  <2>1. n + 1 \in 1 .. n + 1 /\ n + 1 - (n + 1) = 0 /\ \A i \in 1 .. n + 1 : n + 1 - i \in Nat
    BY <1>1
  <2>. QED  BY <2>1, <1>4
<1>6. ASSUME NEW i \in 1 .. n
      PROVE  g[i] = Digit(buf[i]) + Base * g[i + 1]
  <2>. DEFINE k == n - i
  <2>1. k \in Nat /\ k < n /\ n + 1 - i = k + 1 /\ n + 1 - (i + 1) = k /\ n - k = i
    BY <1>1
  <2>2. g[i] = s[k + 1] /\ g[i + 1] = s[k]
    BY <2>1, <1>1
  <2>3. s[k + 1] = Digit(buf[n - k]) + Base * s[k]
    BY <2>1, <1>4
  <2>. HIDE DEF k, g
  <2>. QED  BY <2>1, <2>2, <2>3
<1>. HIDE DEF g
<1>. QED  BY <1>5, <1>6 DEF Numbers

\* The equation by which ValueOf is defined has a solution, so CHOOSE finds one.
LEMMA ValueIs ==
  ASSUME NEW buf \in Seq(Byte), NEW n \in 0 .. Len(buf), NEW g, Numbers(buf, n, g)
  PROVE  ValueOf(buf, n) = g[1] % Word
<1>. DEFINE Solves(f) == f = [i \in 1 .. n + 1 |->
                                IF i > n THEN 0 ELSE Digit(buf[i]) + Base * f[i + 1]]
<1>1. n \in Nat
  OBVIOUS
<1>2. Solves(g)
  <2> SUFFICES ASSUME NEW i \in 1 .. n + 1
               PROVE  g[i] = IF i > n THEN 0 ELSE Digit(buf[i]) + Base * g[i + 1]
    BY DEF Numbers
  <2>1. i > n => i = n + 1
    BY <1>1
  <2>2. ~(i > n) => i \in 1 .. n
    BY <1>1
  <2>. QED  BY <2>1, <2>2 DEF Numbers
<1>. DEFINE v == CHOOSE f : Solves(f)
<1>3. Solves(v)
  <2>. HIDE DEF Solves
  <2>. QED  BY <1>2
<1>4. v[1] = g[1]
  <2>. HIDE DEF v
  <2>. QED  BY <1>1, <1>3, NumbersAre
<1>5. ValueOf(buf, n) = v[1] % Word
  BY Zenon DEF ValueOf
<1>. QED  BY <1>4, <1>5

LEMMA ValueIsWord ==
  ASSUME NEW buf \in Seq(Byte), NEW n \in 0 .. Len(buf)
  PROVE  ValueOf(buf, n) \in 0 .. Word - 1
<1>1. PICK g : Numbers(buf, n, g)
  BY NumbersExist
<1>2. g[1] \in Nat
  <2>1. n \in Nat /\ 1 \in 1 .. n + 1
    OBVIOUS
  <2>. QED  BY <1>1, <2>1 DEF Numbers
<1>3. g[1] % Word \in 0 .. Word - 1
  BY <1>2, VarintAssumption
<1>. QED  BY <1>1, <1>3, ValueIs

\* A varint that says v: bytes that continue and one that does not.
Says(e, v) ==
  /\ e \in Seq(Byte) /\ Len(e) \in Nat \ {0}
  /\ \A i \in 1 .. Len(e) - 1 : Continues(e[i])
  /\ ~Continues(e[Len(e)])
  /\ \E g : Numbers(e, Len(e), g) /\ g[1] = v

LEMMA EncodeSays ==
  ASSUME NEW v \in Nat
  PROVE  Says(EncodeVarint[v], v)
<1>. DEFINE T == {n \in Nat : \A u \in Nat : u < n => Says(EncodeVarint[u], u)}
<1>1. 0 \in T
  OBVIOUS
<1>2. ASSUME NEW n \in Nat, n \in T
      PROVE  n + 1 \in T
  <2> SUFFICES ASSUME NEW u \in Nat, u < n + 1
               PROVE  Says(EncodeVarint[u], u)
    OBVIOUS
  <2>. DEFINE q == u \div Base
  <2>1. u \in Nat /\ u = Digit(u) + Base * q /\ Digit(u) \in 0 .. Base - 1 /\ q \in Nat
        /\ (u >= Base => q < u)
    BY LastDigit
  <2>2. CASE u < Base
    <3>1. EncodeVarint[u] = <<u>>
      BY <2>2, EncodeDefined DEF EncodesBy
    <3>2. u \in Byte /\ ~Continues(u)
      BY <2>1, <2>2, VarintAssumption DEF Byte, Continues
    <3>3. Digit(u) = u
      BY <2>1, <2>2, VarintAssumption DEF Digit
    <3>. DEFINE g == [i \in 1 .. 2 |-> IF i = 1 THEN u ELSE 0]
    <3>4. Numbers(<<u>>, 1, g) /\ g[1] = u
      <4>1. g \in [1 .. 1 + 1 -> Nat] /\ g[1 + 1] = 0 /\ g[1] = u
        BY <2>1
      <4>2. Base * 0 = 0
        BY VarintAssumption
      <4>3. \A i \in 1 .. 1 : g[i] = Digit(<<u>>[i]) + Base * g[i + 1]
        <5>1. u = Digit(u) + Base * 0
          BY <3>3, <4>2, <2>1
        <5>2. \A i \in 1 .. 1 : i = 1
          OBVIOUS
        <5>3. <<u>>[1] = u
          OBVIOUS
        <5>. HIDE DEF g
        <5>. QED  BY <5>1, <5>2, <5>3, <4>1
      <4>. HIDE DEF g
      <4>. QED  BY <4>1, <4>3 DEF Numbers
    <3>5. <<u>> \in Seq(Byte) /\ Len(<<u>>) = 1 /\ <<u>>[1] = u
      BY <3>2
    <3>. HIDE DEF g
    <3>. QED  BY <3>1, <3>2, <3>4, <3>5 DEF Says
  <2>3. CASE ~(u < Base)
    <3>. DEFINE e == EncodeVarint[q]  b == Base + Digit(u)  d == <<b>> \o e
    <3>1. EncodeVarint[u] = d
      BY <2>3, EncodeDefined, Zenon DEF EncodesBy
    <3>2. q \in Nat /\ q < n
      BY <2>1, <2>3, VarintAssumption
    <3>3. Says(e, q)
      BY <1>2, <3>2
    <3>4. b \in Byte /\ Continues(b) /\ Digit(b) = Digit(u)
      BY <2>1, VarintAssumption DEF Byte, Continues, Digit
    <3>. HIDE DEF e, b, q
    <3>. DEFINE m == Len(e)
    <3>5. e \in Seq(Byte) /\ m \in Nat \ {0}
      BY <3>3 DEF Says
    <3>6. d \in Seq(Byte) /\ Len(d) = m + 1 /\ d[1] = b /\ \A i \in 1 .. m : d[i + 1] = e[i]
      BY <3>4, <3>5
    <3>. HIDE DEF d
    <3>7. PICK h : Numbers(e, m, h) /\ h[1] = q
      BY <3>3 DEF Says
    <3>. HIDE DEF m
    <3>. DEFINE g == [i \in 1 .. m + 2 |-> IF i = 1 THEN u ELSE h[i - 1]]
    <3>8. g \in [1 .. (m + 1) + 1 -> Nat] /\ g[1] = u /\ \A i \in 1 .. m + 1 : g[i + 1] = h[i]
      BY <3>5, <3>7, <2>1 DEF Numbers
    <3>9. Numbers(d, m + 1, g)
      <4>. HIDE DEF g
      <4>1. g[(m + 1) + 1] = 0
        BY <3>5, <3>7, <3>8 DEF Numbers
      <4>2. ASSUME NEW i \in 1 .. m + 1
            PROVE  g[i] = Digit(d[i]) + Base * g[i + 1]
        <5>1. CASE i = 1
          <6>1. 1 \in 1 .. m + 1
            BY <3>5
          <6>2. g[1 + 1] = q
            BY <6>1, <3>7, <3>8
          <6>. QED  BY <5>1, <6>2, <3>8, <3>6, <3>4, <2>1
        <5>2. CASE i # 1
          <6>. DEFINE j == i - 1
          <6>1. j \in 1 .. m /\ j + 1 = i /\ j \in 1 .. m + 1 /\ i \in 1 .. m + 1
            BY <3>5, <5>2
          <6>. HIDE DEF j
          <6>2. g[i] = h[j] /\ g[i + 1] = h[j + 1] /\ d[i] = e[j]
            BY <6>1, <3>6, <3>8
          <6>3. h[j] = Digit(e[j]) + Base * h[j + 1]
            BY <6>1, <3>7 DEF Numbers
          <6>. QED  BY <6>2, <6>3
        <5>. QED  BY <5>1, <5>2
      <4>. QED  BY <3>8, <4>1, <4>2 DEF Numbers
    <3>10. \A i \in 1 .. Len(d) - 1 : Continues(d[i])
      <4> SUFFICES ASSUME NEW i \in 1 .. m
                   PROVE  Continues(d[i])
        BY <3>5, <3>6
      <4>1. CASE i = 1
        BY <4>1, <3>4, <3>6
      <4>2. CASE i # 1
        <5>. DEFINE j == i - 1
        <5>1. j \in 1 .. m /\ j + 1 = i /\ j \in 1 .. m - 1
          BY <4>2, <3>5
        <5>. HIDE DEF j
        <5>. QED  BY <5>1, <3>6, <3>3 DEF Says, m
      <4>. QED  BY <4>1, <4>2
    <3>11. ~Continues(d[Len(d)])
      <4>1. m \in 1 .. m
        BY <3>5
      <4>. QED  BY <4>1, <3>6, <3>3 DEF Says, m
    <3>. HIDE DEF g
    <3>. QED  BY <3>1, <3>5, <3>6, <3>8, <3>9, <3>10, <3>11 DEF Says
  <2>. QED  BY <2>2, <2>3
<1>3. Nat \subseteq T
  <2>. HIDE DEF T
  <2>. QED  BY <1>1, <1>2, NatUpward
<1>4. v \in Nat /\ v + 1 \in Nat /\ v < v + 1
  OBVIOUS
<1>. QED  BY <1>3, <1>4

LEMMA EncodeTyped ==
  ASSUME NEW v \in 0 .. Word - 1
  PROVE  EncodeVarint[v] \in Seq(Byte) /\ Len(EncodeVarint[v]) \in 1 .. MaxVarintBytes
<1>1. Says(EncodeVarint[v], v)
  BY EncodeSays, VarintAssumption
<1>. QED  BY <1>1, VarintsFit, VarintAssumption DEF Says

\* The first byte without continuation bit is the n-th, early enough.
Stops(buf, n) ==
  /\ n \in 1 .. Len(buf) /\ n <= MaxVarintBytes
  /\ ~Continues(buf[n]) /\ \A i \in 1 .. n - 1 : Continues(buf[i])

\* Where one decoder reads a varint, the other reads the same.
LEMMA BothRead ==
  ASSUME NEW buf \in Seq(Byte), NEW n, Stops(buf, n)
  PROVE  /\ DecodeVarint(buf) = Ok(ValueOf(buf, n), n)
         /\ StreamVarint(buf) = Ok(ValueOf(buf, n), n)
         /\ ValueOf(buf, n) \in 0 .. Word - 1
<1>. DEFINE last == {i \in 1 .. Len(buf) : ~Continues(buf[i])}
<1>1. n \in last /\ \A i \in last : n <= i
  BY DEF Stops
<1>2. Min(last) = n
  <2>1. \A i \in last : i \in Int
    OBVIOUS
  <2>. HIDE DEF last
  <2>2. \A x \in last : (\A y \in last : x =< y) => x = n
    BY <1>1, <2>1
  <2>. QED  BY <1>1, <2>2 DEF Min
<1>3. last # {} /\ Min(last) <= MaxVarintBytes
  <2>. HIDE DEF last
  <2>. QED  BY <1>1, <1>2 DEF Stops
<1>4. n \in 0 .. Len(buf)
  BY DEF Stops
<1>5. DecodeVarint(buf) = Ok(ValueOf(buf, Min(last)), Min(last))
  BY <1>3 DEF DecodeVarint
<1>6. StreamVarint(buf) = Ok(ValueOf(buf, Min(last)), Min(last))
  BY <1>3 DEF StreamVarint
<1>. QED  BY <1>2, <1>4, <1>5, <1>6, ValueIsWord

\* Where one decoder reads none, neither does the other.
LEMMA NeitherReads ==
  ASSUME NEW buf \in Seq(Byte), \A n : ~Stops(buf, n)
  PROVE  /\ DecodeVarint(buf) \in {Err("VarintTooLong"), Err("UnexpectedEof")}
         /\ StreamVarint(buf) \in {Err("VarintTooLong"), Err("Io")}
<1>. DEFINE last == {i \in 1 .. Len(buf) : ~Continues(buf[i])}
<1>1. ~(last # {} /\ Min(last) <= MaxVarintBytes)
  <2> SUFFICES ASSUME last # {}, Min(last) <= MaxVarintBytes
               PROVE  FALSE
    OBVIOUS
  <2>1. last \subseteq Nat
    OBVIOUS
  <2>2. Min(last) \in last /\ \A i \in last : Min(last) <= i
    <3>. HIDE DEF last
    <3>1. \E x \in last : \A y \in last : x =< y
      BY <2>1, LeastNumber
    <3>. QED  BY <3>1 DEF Min
  <2>3. Stops(buf, Min(last))
    <3>. DEFINE n == Min(last)
    <3>1. n \in last /\ \A i \in last : n <= i
      BY <2>2
    <3>2. n <= MaxVarintBytes
      OBVIOUS
    <3>. HIDE DEF n
    <3>3. n \in 1 .. Len(buf) /\ ~Continues(buf[n])
      BY <3>1
    <3>4. \A i \in 1 .. n - 1 : i \in 1 .. Len(buf) /\ ~(n <= i)
      BY <3>3
    <3>5. \A i \in 1 .. n - 1 : Continues(buf[i])
      BY <3>1, <3>4
    <3>. QED  BY <3>2, <3>3, <3>5 DEF Stops, n
  <2>. QED  BY <2>3
<1>2. DecodeVarint(buf) = Err(IF Len(buf) > MaxVarintBytes THEN "VarintTooLong" ELSE "UnexpectedEof")
  BY <1>1 DEF DecodeVarint
<1>3. StreamVarint(buf) = Err(IF Len(buf) >= MaxVarintBytes THEN "VarintTooLong" ELSE "Io")
  BY <1>1 DEF StreamVarint
<1>. QED  BY <1>2, <1>3

\* buf and s have the same bytes as far as both go.
Alike(buf, s) == \A i \in 1 .. Len(buf) : i <= Len(s) => buf[i] = s[i]

\* A varint is read as what it says, whatever follows it.
LEMMA WordArrives ==
  ASSUME NEW v \in 0 .. Word - 1, NEW buf \in Seq(Byte),
         Len(EncodeVarint[v]) <= Len(buf), Alike(buf, EncodeVarint[v])
  PROVE  /\ DecodeVarint(buf) = Ok(v, Len(EncodeVarint[v]))
         /\ StreamVarint(buf) = Ok(v, Len(EncodeVarint[v]))
<1>. DEFINE e == EncodeVarint[v]  n == Len(e)
<1>1. e \in Seq(Byte) /\ n \in 1 .. MaxVarintBytes /\ Says(e, v)
  BY EncodeTyped, EncodeSays
<1>. HIDE DEF e
<1>2. n \in Nat /\ n <= Len(buf) /\ \A i \in 1 .. n : buf[i] = e[i]
  <2>1. n <= Len(buf) /\ Alike(buf, e)
    BY DEF e
  <2>2. n \in Nat
    BY <1>1, VarintAssumption
  <2>. QED  BY <2>1, <2>2 DEF Alike
<1>3. Stops(buf, n)
  <2>1. n \in 1 .. Len(buf) /\ n <= MaxVarintBytes
    BY <1>1, <1>2, VarintAssumption
  <2>2. n \in 1 .. n /\ \A i \in 1 .. n - 1 : i \in 1 .. n
    BY <1>1, <1>2
  <2>. QED  BY <2>1, <2>2, <1>1, <1>2 DEF Stops, Says
<1>4. PICK g : Numbers(e, n, g) /\ g[1] = v
  BY <1>1 DEF Says
<1>. HIDE DEF n
<1>5. Numbers(buf, n, g)
  BY <1>2, <1>4 DEF Numbers
<1>6. ValueOf(buf, n) = v % Word /\ v % Word = v
  BY <1>2, <1>4, <1>5, ValueIs, VarintAssumption
<1>. QED  BY <1>3, <1>6, BothRead DEF n, e

\* Of a varint that breaks off nothing is read.
LEMMA WordBreaks ==
  ASSUME NEW v \in 0 .. Word - 1, NEW buf \in Seq(Byte),
         Len(buf) < Len(EncodeVarint[v]), Alike(buf, EncodeVarint[v])
  PROVE  /\ DecodeVarint(buf) \in {Err("VarintTooLong"), Err("UnexpectedEof")}
         /\ StreamVarint(buf) \in {Err("VarintTooLong"), Err("Io")}
<1>. DEFINE e == EncodeVarint[v]
<1>1. Says(e, v) /\ e \in Seq(Byte) /\ Len(buf) < Len(e) /\ Alike(buf, e)
  BY EncodeTyped, EncodeSays
<1>. HIDE DEF e
<1>2. \A i \in 1 .. Len(buf) : i \in 1 .. Len(e) - 1 /\ buf[i] = e[i]
  BY <1>1 DEF Alike
<1>3. \A n : ~Stops(buf, n)
  BY <1>1, <1>2 DEF Stops, Says
<1>. QED  BY <1>3, NeitherReads
-----------------------------------------------------------------------------
(* Sequences behind each other.                                            *)

LEMMA FromIs ==
  ASSUME NEW buf \in Seq(Byte), NEW n \in 0 .. Len(buf)
  PROVE  /\ From(buf, n) \in Seq(Byte) /\ Len(From(buf, n)) = Len(buf) - n
         /\ \A i \in 1 .. Len(buf) - n : From(buf, n)[i] = buf[n + i]
BY DEF From

LEMMA JoinIs ==
  ASSUME NEW s \in Seq(Byte), NEW t \in Seq(Byte)
  PROVE  /\ s \o t \in Seq(Byte) /\ Len(s \o t) = Len(s) + Len(t)
         /\ Len(s) \in Nat /\ Len(t) \in Nat
         /\ \A i \in 1 .. Len(s) : (s \o t)[i] = s[i]
         /\ \A i \in 1 .. Len(t) : (s \o t)[Len(s) + i] = t[i]
OBVIOUS

\* u is s and behind it t.
Joined(s, t, u) ==
  /\ u \in Seq(Byte) /\ Len(u) = Len(s) + Len(t) /\ Len(s) \in Nat /\ Len(t) \in Nat
  /\ \A i \in 1 .. Len(s) : u[i] = s[i]
  /\ \A i \in 1 .. Len(t) : u[Len(s) + i] = t[i]

\* The same for sequences of anything.
LEMMA JoinedIs ==
  ASSUME NEW X, NEW s \in Seq(X), NEW t \in Seq(X)
  PROVE  /\ s \o t \in Seq(X) /\ Len(s \o t) = Len(s) + Len(t)
         /\ Len(s) \in Nat /\ Len(t) \in Nat
         /\ \A i \in 1 .. Len(s) : (s \o t)[i] = s[i]
         /\ \A i \in 1 .. Len(t) : (s \o t)[Len(s) + i] = t[i]
OBVIOUS

\* p[k] is the first k sequences of S behind each other.
Chained(X, p, S, n) ==
  /\ p \in [0 .. n -> Seq(X)] /\ p[0] = <<>>
  /\ \A k \in 0 .. n - 1 : p[k + 1] = p[k] \o S[k + 1]

LEMMA ChainExists ==
  ASSUME NEW X, NEW n \in Nat, NEW S \in [1 .. n -> Seq(X)]
  PROVE  \E p : Chained(X, p, S, n)
<1>. DEFINE h == [x \in Nat \X Seq(X) |-> IF x[1] < n THEN x[2] \o S[x[1] + 1] ELSE <<>>]
<1>1. \A k \in Nat : \A x \in Seq(X) : h[<<k, x>>] \in Seq(X)
  <2> SUFFICES ASSUME NEW k \in Nat, NEW x \in Seq(X)
               PROVE  (IF k < n THEN x \o S[k + 1] ELSE <<>>) \in Seq(X)
    OBVIOUS
  <2>1. CASE k < n
    <3>1. S[k + 1] \in Seq(X)
      BY <2>1
    <3>. QED  BY <2>1, <3>1, JoinedIs
  <2>. QED  BY <2>1
<1>2. PICK f : Recursion(f, Seq(X), <<>>, h)
  <2>1. <<>> \in Seq(X)
    OBVIOUS
  <2>. HIDE DEF h
  <2>. QED  BY <1>1, <2>1, ByRecursion
<1>3. /\ f \in [Nat -> Seq(X)] /\ f[0] = <<>>
      /\ \A k \in Nat : k < n => f[k + 1] = f[k] \o S[k + 1]
  BY <1>2 DEF Recursion
<1>. DEFINE p == [k \in 0 .. n |-> f[k]]
<1>4. p \in [0 .. n -> Seq(X)] /\ p[0] = <<>>
  BY <1>3
<1>5. ASSUME NEW k \in 0 .. n - 1
      PROVE  p[k + 1] = p[k] \o S[k + 1]
  <2>1. k \in Nat /\ k < n /\ k \in 0 .. n /\ k + 1 \in 0 .. n
    OBVIOUS
  <2>. QED  BY <2>1, <1>3
<1>. HIDE DEF p
<1>. QED  BY <1>4, <1>5 DEF Chained

\* t is the first k of n sequences.
FirstOf(X, t, p, S, n, k) ==
  /\ n \in Nat /\ S \in [1 .. n -> Seq(X)] /\ Chained(X, p, S, n)
  /\ k \in 0 .. n /\ t = [i \in 1 .. k |-> S[i]]

\* FlattenSeq puts them behind each other.
LEMMA FlattenIs ==
  ASSUME NEW X, NEW t, NEW p, NEW S, NEW n, NEW k, FirstOf(X, t, p, S, n, k)
  PROVE  FlattenSeq(t) = p[k]
<1>1. n \in Nat /\ k \in 0 .. n /\ S \in [1 .. n -> Seq(X)] /\ Chained(X, p, S, n)
  BY DEF FirstOf
<1>. USE <1>1
<1>2. Len(t) = k /\ \A i \in 1 .. k : t[i] = S[i]
  BY DEF FirstOf
<1>3. CASE k = 0
  <2>1. t = <<>>
    BY <1>2, <1>3 DEF FirstOf
  <2>. QED  BY <1>2, <1>3, <2>1 DEF FlattenSeq, Chained
<1>4. CASE k # 0
  <2>. DEFINE Solves(f) == f = [i \in 1 .. Len(t) |-> IF i = 1 THEN t[i] ELSE f[i - 1] \o t[i]]
              q == [i \in 1 .. k |-> p[i]]
  <2>1. Solves(q)
    <3>1. ASSUME NEW i \in 1 .. k
          PROVE  p[i] = IF i = 1 THEN t[i] ELSE q[i - 1] \o t[i]
      <4>1. i - 1 \in 0 .. n - 1 /\ (i - 1) + 1 = i /\ i \in 1 .. n
        OBVIOUS
      <4>2. p[i] = p[i - 1] \o S[i]
        BY <4>1 DEF Chained
      <4>3. CASE i = 1
        <5>1. p[i - 1] = <<>> /\ S[i] \in Seq(X)
          BY <4>1, <4>3 DEF Chained
        <5>2. <<>> \o S[i] = S[i]
          BY <5>1
        <5>. QED  BY <4>2, <4>3, <5>1, <5>2, <1>2
      <4>4. CASE i # 1
        <5>1. i - 1 \in 1 .. k
          BY <4>4
        <5>. QED  BY <4>2, <4>4, <5>1, <1>2
      <4>. QED  BY <4>3, <4>4
    <3>. QED  BY <3>1, <1>2
  <2>. DEFINE f == CHOOSE g : Solves(g)
  <2>2. Solves(f)
    <3>. HIDE DEF Solves
    <3>. QED  BY <2>1
  <2>3. FlattenSeq(t) = f[k]
    BY <1>2, <1>4, Zenon DEF FlattenSeq
  <2>. HIDE DEF f
  <2>4. \A i \in 1 .. k : f[i] = IF i = 1 THEN t[i] ELSE f[i - 1] \o t[i]
    BY <2>2, <1>2
  <2>. DEFINE T == {i \in Nat : i \in 1 .. k => f[i] = p[i]}
  <2>5. Nat \subseteq T
    <3>1. 0 \in T
      OBVIOUS
    <3>2. ASSUME NEW i \in Nat, i \in T
          PROVE  i + 1 \in T
      <4> SUFFICES ASSUME i + 1 \in 1 .. k
                   PROVE  f[i + 1] = p[i + 1]
        OBVIOUS
      <4>1. i \in 0 .. n - 1 /\ (i + 1) - 1 = i /\ i + 1 \in 1 .. n
        OBVIOUS
      <4>2. p[i + 1] = p[i] \o S[i + 1] /\ S[i + 1] \in Seq(X)
        BY <4>1 DEF Chained
      <4>3. CASE i = 0
        <5>1. p[i] = <<>>
          BY <4>3 DEF Chained
        <5>2. <<>> \o S[i + 1] = S[i + 1]
          BY <4>2
        <5>3. f[i + 1] = t[i + 1]
          BY <4>3, <2>4
        <5>. QED  BY <5>1, <5>2, <5>3, <4>2, <1>2
      <4>4. CASE i # 0
        <5>1. i \in 1 .. k /\ i + 1 # 1
          BY <4>4
        <5>2. f[i + 1] = f[i] \o t[i + 1]
          BY <5>1, <4>1, <2>4
        <5>. QED  BY <5>1, <5>2, <3>2, <4>2, <1>2
      <4>. QED  BY <4>3, <4>4
    <3>. HIDE DEF T
    <3>. QED  BY <3>1, <3>2, NatUpward
  <2>6. k \in 1 .. k /\ k \in Nat
    BY <1>4
  <2>. QED  BY <2>3, <2>5, <2>6
<1>. QED  BY <1>3, <1>4

\* Each sequence is where it was put, however many follow it.
KeptAt(p, S, n, k) ==
  /\ Len(p[k + 1]) = Len(p[k]) + Len(S[k + 1]) /\ Len(p[k + 1]) <= Len(p[n])
  /\ \A i \in 1 .. Len(S[k + 1]) : p[n][Len(p[k]) + i] = S[k + 1][i]

LEMMA ChainKeeps ==
  ASSUME NEW X, NEW n \in Nat, NEW S \in [1 .. n -> Seq(X)], NEW p, Chained(X, p, S, n),
         NEW k \in 0 .. n - 1
  PROVE  KeptAt(p, S, n, k)
<1>. DEFINE Keeps(m) == /\ Len(p[k + 1]) <= Len(p[m])
                        /\ \A i \in 1 .. Len(p[k + 1]) : p[m][i] = p[k + 1][i]
            T == {m \in Nat : k + 1 <= m /\ m <= n => Keeps(m)}
<1>1. k \in 0 .. n /\ k + 1 \in 0 .. n /\ k + 1 \in 1 .. n /\ k \in Nat
  OBVIOUS
<1>2. /\ p[k] \in Seq(X) /\ p[k + 1] \in Seq(X) /\ S[k + 1] \in Seq(X)
      /\ p[k + 1] = p[k] \o S[k + 1]
  BY <1>1 DEF Chained
<1>3. Nat \subseteq T
  <2>1. 0 \in T
    BY <1>1
  <2>2. ASSUME NEW m \in Nat, m \in T
        PROVE  m + 1 \in T
    <3> SUFFICES ASSUME k + 1 <= m + 1, m + 1 <= n
                 PROVE  Keeps(m + 1)
      OBVIOUS
    <3>1. CASE m + 1 = k + 1
      <4>1. Keeps(k + 1)
        BY <1>2
      <4>. QED  BY <3>1, <4>1
    <3>2. CASE m + 1 # k + 1
      <4>1. k + 1 <= m /\ m <= n /\ m \in 0 .. n - 1 /\ m \in 0 .. n /\ m + 1 \in 1 .. n
        BY <3>2, <1>1
      <4>2. Keeps(m)
        BY <2>2, <4>1
      <4>3. p[m] \in Seq(X) /\ S[m + 1] \in Seq(X) /\ p[m + 1] = p[m] \o S[m + 1]
        BY <4>1 DEF Chained
      <4>. DEFINE x == p[m]  y == S[m + 1]  z == p[m + 1]  w == p[k + 1]
      <4>4. x \in Seq(X) /\ y \in Seq(X) /\ z = x \o y /\ w \in Seq(X)
            /\ Len(w) <= Len(x) /\ \A i \in 1 .. Len(w) : x[i] = w[i]
        BY <1>2, <4>2, <4>3
      <4>. HIDE DEF x, y, z, w
      <4>5. Len(z) = Len(x) + Len(y) /\ Len(y) \in Nat /\ Len(x) \in Nat /\ Len(w) \in Nat
            /\ \A i \in 1 .. Len(x) : z[i] = x[i]
        BY <4>4, JoinedIs
      <4>6. Len(w) <= Len(z) /\ \A i \in 1 .. Len(w) : i \in 1 .. Len(x)
        BY <4>4, <4>5
      <4>7. Len(w) <= Len(z) /\ \A i \in 1 .. Len(w) : z[i] = w[i]
        BY <4>4, <4>5, <4>6
      <4>. QED  BY <4>7 DEF z, w
    <3>. QED  BY <3>1, <3>2
  <2>. HIDE DEF T
  <2>. QED  BY <2>1, <2>2, NatUpward
<1>4. Keeps(n)
  BY <1>1, <1>3
<1>. DEFINE x == p[k]  y == S[k + 1]  z == p[k + 1]
<1>5. x \in Seq(X) /\ y \in Seq(X) /\ z = x \o y
  BY <1>2
<1>. HIDE DEF x, y, z
<1>6. Len(z) = Len(x) + Len(y) /\ Len(x) \in Nat /\ Len(y) \in Nat
      /\ \A i \in 1 .. Len(y) : z[Len(x) + i] = y[i]
  BY <1>5, JoinedIs
<1>7. \A i \in 1 .. Len(y) : Len(x) + i \in 1 .. Len(z)
  BY <1>6
<1>8. Len(z) <= Len(p[n]) /\ \A i \in 1 .. Len(z) : p[n][i] = z[i]
  BY <1>4 DEF z
<1>9. \A i \in 1 .. Len(y) : p[n][Len(x) + i] = y[i]
  BY <1>6, <1>7, <1>8
<1>. QED  BY <1>6, <1>8, <1>9 DEF x, y, z, KeptAt
=============================================================================
