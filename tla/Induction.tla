------------------------------ MODULE Induction ------------------------------
(***************************************************************************)
(* Induction on the natural numbers, stated with sets and functions: a     *)
(* lemma about a predicate would take an operator as a parameter.  It      *)
(* rests on the library's fact that < is well-founded on the numbers.      *)
(***************************************************************************)
EXTENDS Integers, TLAPS, WellFoundedInduction

Precedes == {pair \in Nat \X Nat : pair[1] < pair[2]}

\* A set of natural numbers that is not empty has a least element.
LEMMA LeastNumber ==
  ASSUME NEW T, T \subseteq Nat, T # {}
  PROVE  \E x \in T : \A y \in T : x <= y
<1>1. IsWellFoundedOn(Precedes, Nat)
  BY NatLessThanWellFounded DEF OpToRel, Precedes
<1>2. PICK x \in T : \A y \in T : ~(<<y, x>> \in Precedes)
  BY <1>1, WFMin
<1>3. \A y \in T : ~(y < x)
  BY <1>2 DEF Precedes
<1>. QED  BY <1>3

\* A set that has zero and the successor of each of its numbers has them all.
LEMMA NatUpward ==
  ASSUME NEW T, 0 \in T, \A n \in Nat : n \in T => n + 1 \in T
  PROVE  Nat \subseteq T
<1> SUFFICES ASSUME Nat \ T # {} PROVE FALSE
  OBVIOUS
<1>1. PICK x \in Nat \ T : \A y \in Nat \ T : x <= y
  BY LeastNumber
<1>2. x # 0 /\ x - 1 \in Nat /\ ~(x <= x - 1)
  BY <1>1
<1>3. x - 1 \in T
  BY <1>1, <1>2
<1>. QED  BY <1>1, <1>2, <1>3

\* f has first value a, and each value gives the next by h.
Recursion(f, S, a, h) ==
  /\ f \in [Nat -> S] /\ f[0] = a
  /\ \A n \in Nat : f[n + 1] = h[<<n, f[n]>>]

\* What a first value and a step determine exists.
LEMMA ByRecursion ==
  ASSUME NEW S, NEW a, a \in S, NEW h, \A n \in Nat : \A x \in S : h[<<n, x>>] \in S
  PROVE  \E f : Recursion(f, S, a, h)
<1>. DEFINE Upto(n, g) == /\ g \in [0 .. n -> S] /\ g[0] = a
                          /\ \A i \in 0 .. n : i > 0 => g[i] = h[<<i - 1, g[i - 1]>>]
            Good == {n \in Nat : \E g : Upto(n, g)}
            at == [n \in Nat |-> CHOOSE g : Upto(n, g)]
            Stable == {n \in Nat : \A m \in Nat : n <= m => at[m][n] = at[n][n]}
            f == [n \in Nat |-> at[n][n]]
<1>1. Nat \subseteq Good
  <2>1. 0 \in Good
    <3>1. Upto(0, [i \in 0 .. 0 |-> a])
      OBVIOUS
    <3>. QED  BY <3>1
  <2>2. ASSUME NEW n \in Nat, n \in Good
        PROVE  n + 1 \in Good
    <3>1. PICK g : Upto(n, g)
      BY <2>2
    <3>. DEFINE k == [i \in 0 .. n + 1 |-> IF i <= n THEN g[i] ELSE h[<<n, g[n]>>]]
    <3>2. h[<<n, g[n]>>] \in S
      BY <3>1
    <3>3. k \in [0 .. n + 1 -> S] /\ k[0] = a
      BY <3>1, <3>2
    <3>4. ASSUME NEW i \in 0 .. n + 1, i > 0
          PROVE  k[i] = h[<<i - 1, k[i - 1]>>]
      <4>1. k[i - 1] = g[i - 1]
        BY <3>4
      <4>2. CASE i <= n
        BY <4>1, <4>2, <3>1, <3>4
      <4>3. CASE i = n + 1
        <5>1. i - 1 = n /\ ~(i <= n)
          BY <4>3
        <5>2. k[i] = h[<<n, g[n]>>]
          BY <5>1
        <5>. QED  BY <4>1, <5>1, <5>2
      <4>. QED  BY <4>2, <4>3
    <3>. HIDE DEF k
    <3>. QED  BY <3>3, <3>4
  <2>. HIDE DEF Good
  <2>. QED  BY <2>1, <2>2, NatUpward
<1>2. \A n \in Nat : Upto(n, at[n])
  BY <1>1
<1>. HIDE DEF at
<1>3. ASSUME NEW m \in Nat, NEW n \in Nat, n + 1 <= m
      PROVE  at[m][n + 1] = h[<<n, at[m][n]>>]
  <2>1. Upto(m, at[m]) /\ n + 1 \in 0 .. m /\ n + 1 > 0 /\ (n + 1) - 1 = n
    BY <1>2, <1>3
  <2>. QED  BY <2>1
<1>4. Nat \subseteq Stable
  <2>1. 0 \in Stable
    BY <1>2
  <2>2. ASSUME NEW n \in Nat, n \in Stable
        PROVE  n + 1 \in Stable
    <3> SUFFICES ASSUME NEW m \in Nat, n + 1 <= m
                 PROVE  at[m][n + 1] = at[n + 1][n + 1]
      OBVIOUS
    <3>1. n <= m /\ n <= n + 1 /\ n + 1 <= n + 1 /\ n + 1 \in Nat
      OBVIOUS
    <3>2. at[m][n] = at[n][n] /\ at[n + 1][n] = at[n][n]
      BY <2>2, <3>1
    <3>3. at[m][n + 1] = h[<<n, at[m][n]>>]
      BY <1>3, <3>1
    <3>4. at[n + 1][n + 1] = h[<<n, at[n + 1][n]>>]
      BY <1>3, <3>1
    <3>. QED  BY <3>2, <3>3, <3>4
  <2>. HIDE DEF Stable
  <2>. QED  BY <2>1, <2>2, NatUpward
<1>5. f \in [Nat -> S] /\ f[0] = a
  BY <1>2
<1>6. ASSUME NEW n \in Nat
      PROVE  f[n + 1] = h[<<n, f[n]>>]
  <2>1. n + 1 \in Nat /\ n <= n + 1 /\ n + 1 <= n + 1
    OBVIOUS
  <2>2. at[n + 1][n] = at[n][n]
    BY <2>1, <1>4
  <2>3. at[n + 1][n + 1] = h[<<n, at[n + 1][n]>>]
    BY <2>1, <1>3
  <2>. QED  BY <2>1, <2>2, <2>3
<1>7. Recursion(f, S, a, h)
  <2>. HIDE DEF f
  <2>. QED  BY <1>5, <1>6 DEF Recursion
<1>. QED  BY <1>7
-----------------------------------------------------------------------------
(* Lists of positions.                                                     *)

\* own lists the positions in S in their order.
Lists(own, n, S) ==
  /\ n \in Nat /\ own \in [1 .. n -> S]
  /\ \A j, k \in 1 .. n : j < k => own[j] < own[k]
  /\ \A i \in S : \E k \in 1 .. n : own[k] = i

Listed(S) == \E n, own : Lists(own, n, S)

\* One more position makes the list longer by one.
LEMMA ListGrows ==
  ASSUME NEW L, Listed(L), NEW p \in Nat, \A i \in L : i \in Nat /\ i < p
  PROVE  Listed(L \cup {p})
<1>1. PICK n, own : Lists(own, n, L)
  BY DEF Listed
<1>2. n \in Nat /\ own \in [1 .. n -> L]
  BY <1>1 DEF Lists
<1>. DEFINE more == [k \in 1 .. n + 1 |-> IF k = n + 1 THEN p ELSE own[k]]
<1>3. \A k \in 1 .. n : k # n + 1 /\ k \in 1 .. n + 1 /\ more[k] = own[k]
  BY <1>2
<1>4. n + 1 \in 1 .. n + 1 /\ more[n + 1] = p
  BY <1>2
<1>5. more \in [1 .. n + 1 -> L \cup {p}]
  BY <1>2
<1>6. ASSUME NEW j \in 1 .. n + 1, NEW k \in 1 .. n + 1, j < k
      PROVE  more[j] < more[k]
  <2>1. j \in 1 .. n
    BY <1>2, <1>6
  <2>2. more[j] = own[j] /\ own[j] \in L
    BY <2>1, <1>2, <1>3
  <2>3. CASE k = n + 1
    BY <2>2, <2>3, <1>4
  <2>4. CASE k # n + 1
    <3>1. k \in 1 .. n
      BY <2>4, <1>2
    <3>. QED  BY <2>1, <2>2, <3>1, <1>3, <1>6, <1>1 DEF Lists
  <2>. QED  BY <2>3, <2>4
<1>7. ASSUME NEW i \in L \cup {p}
      PROVE  \E k \in 1 .. n + 1 : more[k] = i
  <2>1. CASE i = p
    BY <2>1, <1>4
  <2>2. CASE i \in L
    <3>1. PICK k \in 1 .. n : own[k] = i
      BY <2>2, <1>1 DEF Lists
    <3>. QED  BY <3>1, <1>3
  <2>. QED  BY <2>1, <2>2
<1>8. Lists(more, n + 1, L \cup {p})
  <2>. HIDE DEF more
  <2>. QED  BY <1>2, <1>5, <1>6, <1>7 DEF Lists
<1>. QED  BY <1>8 DEF Listed

\* Every set of positions has its list.
LEMMA ListExists ==
  ASSUME NEW N \in Nat, NEW S, S \subseteq 1 .. N
  PROVE  \E n, own : Lists(own, n, S)
<1>. DEFINE Upto(m) == S \cap 1 .. m
            Good == {m \in Nat : Listed(Upto(m))}
<1>1. 0 \in Good
  <2>1. Upto(0) = {}
    OBVIOUS
  <2>2. Lists([k \in 1 .. 0 |-> 0], 0, {})
    BY DEF Lists
  <2>. QED  BY <2>1, <2>2 DEF Listed
<1>2. ASSUME NEW m \in Nat, m \in Good
      PROVE  m + 1 \in Good
  <2>1. Listed(Upto(m)) /\ m + 1 \in Nat /\ \A i \in Upto(m) : i \in Nat /\ i < m + 1
    BY <1>2
  <2>2. CASE m + 1 \in S
    <3>1. Upto(m + 1) = Upto(m) \cup {m + 1}
      BY <2>2
    <3>2. Listed(Upto(m) \cup {m + 1})
      <4>. HIDE DEF Upto
      <4>. QED  BY <2>1, ListGrows
    <3>. HIDE DEF Upto
    <3>. QED  BY <2>1, <3>1, <3>2
  <2>3. CASE m + 1 \notin S
    <3>1. Upto(m + 1) = Upto(m)
      BY <2>3
    <3>. QED  BY <2>1, <3>1
  <2>. QED  BY <2>2, <2>3
<1>3. Nat \subseteq Good
  <2>. HIDE DEF Good
  <2>. QED  BY <1>1, <1>2, NatUpward
<1>4. Upto(N) = S
  OBVIOUS
<1>. QED  BY <1>3, <1>4 DEF Listed
=============================================================================
