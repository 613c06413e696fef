---------------------------- MODULE Selections_proofs ----------------------------
(***************************************************************************)
(* Facts about Selections, for all sequences: what selecting keeps and     *)
(* what one element more changes.  They are proved by induction on the     *)
(* length of a sequence, in the form that speaks of a set of numbers.      *)
(***************************************************************************)
EXTENDS Selections, TLAPS, SequenceTheorems, WellFoundedInduction

\* A set that holds 0 and with each number the next one holds all numbers: else
\* there would be a least number that it lacks.
LEMMA NatSetInduction ==
  ASSUME NEW S, 0 \in S, \A n \in Nat : n \in S => n + 1 \in S
  PROVE  Nat \subseteq S
<1> DEFINE T == {n \in Nat : n \notin S}
           R == OpToRel(<, Nat)
<1>1. \A i, j \in Nat : i < j => <<i, j>> \in R
  BY DEF OpToRel
<1>2. IsWellFoundedOn(R, Nat)
  BY NatLessThanWellFounded, Zenon
<1> HIDE DEF R
<1>3. SUFFICES ASSUME T # {} PROVE FALSE
  OBVIOUS
<1>4. PICK m \in T : \A k \in T : ~ (<<k, m>> \in R)
  BY <1>2, <1>3, WFMin, Zenon
<1>5. m # 0
  OBVIOUS
<1>6. m - 1 \in Nat /\ m - 1 < m
  BY <1>5
<1>7. m - 1 \notin T
  BY <1>1, <1>4, <1>6
<1> QED
  BY <1>4, <1>6, <1>7

-----------------------------------------------------------------------------
\* g obeys the equation of SelectedUpTo up to n.
Obeys(g, s, S, n) ==
  /\ DOMAIN g = 0 .. n
  /\ g = [i \in DOMAIN g |-> g[i]]
  /\ \A i \in 0 .. n :
       g[i] = IF i = 0 THEN <<>>
              ELSE IF s[i] \in S THEN Append(g[i - 1], s[i]) ELSE g[i - 1]

Equation(g, s, S, n) ==
  g = [i \in 0 .. n |-> IF i = 0 THEN <<>>
                        ELSE IF s[i] \in S THEN Append(g[i - 1], s[i]) ELSE g[i - 1]]

LEMMA ObeysIsEquation ==
  ASSUME NEW g, NEW s, NEW S, NEW n \in Nat
  PROVE  Obeys(g, s, S, n) <=> Equation(g, s, S, n)
BY DEF Obeys, Equation

\* The recursion of SelectedUpTo is well founded: there is such a function.
LEMMA SelectedUpToExists ==
  ASSUME NEW s, NEW S, NEW n \in Nat
  PROVE  \E g : Obeys(g, s, S, n)
<1> DEFINE T == {k \in Nat : \E g : Obeys(g, s, S, k)}
<1>1. 0 \in T
  <2>1. Obeys([i \in 0 .. 0 |-> <<>>], s, S, 0)
    BY DEF Obeys
  <2> QED BY <2>1
<1>2. ASSUME NEW k \in Nat, k \in T PROVE k + 1 \in T
  <2>1. PICK g : Obeys(g, s, S, k)
    BY <1>2
  <2> DEFINE h == [i \in 0 .. k + 1 |-> IF i <= k THEN g[i]
                     ELSE IF s[i] \in S THEN Append(g[i - 1], s[i]) ELSE g[i - 1]]
  <2>2. DOMAIN h = 0 .. k + 1 /\ h = [i \in DOMAIN h |-> h[i]]
    OBVIOUS
  <2>3. ASSUME NEW i \in 0 .. k + 1
        PROVE  h[i] = IF i = 0 THEN <<>>
                      ELSE IF s[i] \in S THEN Append(h[i - 1], s[i]) ELSE h[i - 1]
    <3>1. CASE i <= k
      <4>1. i \in 0 .. k
        BY <3>1
      <4>2. h[i] = g[i] /\ (i # 0 => h[i - 1] = g[i - 1])
        BY <3>1
      <4> QED BY <4>1, <4>2, <2>1 DEF Obeys
    <3>2. CASE i = k + 1
      <4>1. h[i - 1] = g[i - 1] /\ i # 0
        BY <3>2
      <4>2. h[i] = IF s[i] \in S THEN Append(g[i - 1], s[i]) ELSE g[i - 1]
        BY <3>2
      <4> QED BY <4>1, <4>2
    <3> QED BY <3>1, <3>2
  <2>4. Obeys(h, s, S, k + 1)
    <3> HIDE DEF h
    <3> QED BY <2>2, <2>3 DEF Obeys
  <2> QED BY <2>4
<1> HIDE DEF T
<1>3. Nat \subseteq T
  BY <1>1, <1>2, NatSetInduction
<1> QED BY <1>3 DEF T

LEMMA SelectedUpToObeys ==
  ASSUME NEW s, NEW S, Len(s) \in Nat
  PROVE  Obeys(SelectedUpTo(s, S), s, S, Len(s))
<1>1. PICK g : Equation(g, s, S, Len(s))
  BY SelectedUpToExists, ObeysIsEquation
<1>2. SelectedUpTo(s, S) = CHOOSE h : Equation(h, s, S, Len(s))
  BY DEF SelectedUpTo, Equation
<1>3. Equation(SelectedUpTo(s, S), s, S, Len(s))
  BY <1>1, <1>2
<1> QED BY <1>3, ObeysIsEquation

-----------------------------------------------------------------------------
\* Selecting from a sequence with one element more.
LEMMA OnlyEmpty ==
  ASSUME NEW S
  PROVE  Only(<<>>, S) = <<>>
<1>1. Obeys(SelectedUpTo(<<>>, S), <<>>, S, 0)
  BY SelectedUpToObeys
<1> QED BY <1>1 DEF Only, Obeys

LEMMA OnlyAppend ==
  ASSUME NEW T, NEW s \in Seq(T), NEW x \in T, NEW S
  PROVE  Only(Append(s, x), S) = IF x \in S THEN Append(Only(s, S), x) ELSE Only(s, S)
<1> DEFINE a == Append(s, x)
           f == SelectedUpTo(s, S)
           g == SelectedUpTo(a, S)
           n == Len(s)
           Same == {i \in Nat : i <= n => g[i] = f[i]}
<1>1. /\ n \in Nat /\ Len(a) = n + 1 /\ a[n + 1] = x
      /\ \A i \in 1 .. n : a[i] = s[i]
  OBVIOUS
<1>2. Obeys(f, s, S, n) /\ Obeys(g, a, S, n + 1)
  <2> HIDE DEF a
  <2>1. Obeys(f, s, S, Len(s)) /\ Obeys(g, a, S, Len(a))
    BY <1>1, SelectedUpToObeys
  <2> HIDE DEF f, g
  <2> QED BY <1>1, <2>1
<1> HIDE DEF a, f, g, n
<1>a. ASSUME NEW i \in Nat, i < n
      PROVE  /\ f[i + 1] = IF s[i + 1] \in S THEN Append(f[i], s[i + 1]) ELSE f[i]
             /\ g[i + 1] = IF a[i + 1] \in S THEN Append(g[i], a[i + 1]) ELSE g[i]
  <2>1. i + 1 \in 0 .. n /\ i + 1 \in 0 .. n + 1 /\ i + 1 # 0 /\ (i + 1) - 1 = i
    BY <1>1, <1>a
  <2> QED BY <2>1, <1>2 DEF Obeys
<1>3. 0 \in Same
  BY <1>1, <1>2 DEF Obeys
<1>4. ASSUME NEW i \in Nat, i \in Same PROVE i + 1 \in Same
  <2> SUFFICES ASSUME i + 1 <= n PROVE g[i + 1] = f[i + 1]
    OBVIOUS
  <2>1. g[i] = f[i] /\ a[i + 1] = s[i + 1]
    BY <1>1, <1>4
  <2>2. i < n
    BY <1>1
  <2> QED BY <2>1, <2>2, <1>a
<1> HIDE DEF Same
<1>5. Nat \subseteq Same
  BY <1>3, <1>4, NatSetInduction
<1>6. g[n] = f[n]
  BY <1>1, <1>5 DEF Same
<1>7. g[n + 1] = IF a[n + 1] \in S THEN Append(g[n], a[n + 1]) ELSE g[n]
  <2>1. n + 1 \in 0 .. n + 1 /\ n + 1 # 0 /\ (n + 1) - 1 = n
    BY <1>1
  <2> QED BY <2>1, <1>2 DEF Obeys
<1>8. Only(s, S) = f[n] /\ Only(a, S) = g[n + 1]
  BY <1>1 DEF Only, f, g, n
<1> QED BY <1>1, <1>6, <1>7, <1>8 DEF a

\* A fact about all sequences holds when it does for the empty one and for a
\* sequence with one element more.  P is the set of the sequences it holds for.
LEMMA SequenceInduction ==
  ASSUME NEW T, NEW P, <<>> \in P,
         \A s \in Seq(T), x \in T : s \in P => Append(s, x) \in P
  PROVE  Seq(T) \subseteq P
<1> DEFINE N == {n \in Nat : \A s \in Seq(T) : Len(s) = n => s \in P}
<1>1. 0 \in N
  OBVIOUS
<1>2. ASSUME NEW n \in Nat, n \in N PROVE n + 1 \in N
  <2> SUFFICES ASSUME NEW s \in Seq(T), Len(s) = n + 1 PROVE s \in P
    OBVIOUS
  <2> DEFINE front == SubSeq(s, 1, n)
  <2>1. front \in Seq(T) /\ Len(front) = n /\ s[n + 1] \in T
    OBVIOUS
  <2>2. s = Append(front, s[n + 1])
    OBVIOUS
  <2>3. front \in P
    BY <1>2, <2>1
  <2> HIDE DEF front
  <2> QED BY <2>1, <2>2, <2>3
<1> HIDE DEF N
<1>3. Nat \subseteq N
  BY <1>1, <1>2, NatSetInduction
<1>4. \A s \in Seq(T) : Len(s) \in Nat
  OBVIOUS
<1> QED BY <1>3, <1>4 DEF N

\* What is selected is a sequence of elements of the set, all there are.
LEMMA ToSetOfAppend ==
  ASSUME NEW T, NEW s \in Seq(T), NEW x
  PROVE  ToSet(Append(s, x)) = ToSet(s) \cup {x}
<1>1. DOMAIN Append(s, x) = 1 .. Len(s) + 1 /\ DOMAIN s = 1 .. Len(s) /\ Len(s) \in Nat
  OBVIOUS
<1>2. \A i \in 1 .. Len(s) : Append(s, x)[i] = s[i]
  OBVIOUS
<1>3. Append(s, x)[Len(s) + 1] = x
  OBVIOUS
<1> QED BY <1>1, <1>2, <1>3 DEF ToSet

LEMMA OnlyType ==
  ASSUME NEW T, NEW s \in Seq(T), NEW S
  PROVE  Only(s, S) \in Seq(T \cap S) /\ ToSet(Only(s, S)) = ToSet(s) \cap S
<1> DEFINE P == {q \in Seq(T) : /\ Only(q, S) \in Seq(T \cap S)
                                /\ ToSet(Only(q, S)) = ToSet(q) \cap S}
<1>1. <<>> \in P
  <2>1. ToSet(<<>>) = {}
    BY DEF ToSet
  <2>2. <<>> \in Seq(T) /\ <<>> \in Seq(T \cap S)
    OBVIOUS
  <2>3. Only(<<>>, S) = <<>>
    BY OnlyEmpty
  <2> QED BY <2>1, <2>2, <2>3
<1>2. ASSUME NEW q \in Seq(T), NEW x \in T, q \in P PROVE Append(q, x) \in P
  <2>1. Append(q, x) \in Seq(T) /\ ToSet(Append(q, x)) = ToSet(q) \cup {x}
    BY ToSetOfAppend
  <2>2. Only(q, S) \in Seq(T \cap S) /\ ToSet(Only(q, S)) = ToSet(q) \cap S
    BY <1>2
  <2>3. CASE x \in S
    <3>1. Only(Append(q, x), S) = Append(Only(q, S), x)
      BY <2>3, OnlyAppend
    <3>2. ToSet(Append(Only(q, S), x)) = ToSet(Only(q, S)) \cup {x}
      BY <2>2, ToSetOfAppend
    <3>3. Append(Only(q, S), x) \in Seq(T \cap S)
      BY <2>2, <2>3
    <3> QED BY <2>1, <2>2, <2>3, <3>1, <3>2, <3>3
  <2>4. CASE x \notin S
    <3>1. Only(Append(q, x), S) = Only(q, S)
      BY <2>4, OnlyAppend
    <3> QED BY <2>1, <2>2, <2>4, <3>1
  <2> QED BY <2>3, <2>4
<1> HIDE DEF P
<1>3. Seq(T) \subseteq P
  BY <1>1, <1>2, SequenceInduction
<1> QED BY <1>3 DEF P
===============================================================================
