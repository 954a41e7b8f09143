--------------------------- MODULE SeqFilter_proofs ---------------------------
(***************************************************************************)
(* The type and the length of Filter.  They need induction on the length   *)
(* of the sequence.  The induction theorems of the library cannot be used, *)
(* since they take the induction hypothesis as an operator; here it is a   *)
(* set of numbers (NatInductive).                                          *)
(***************************************************************************)
EXTENDS SeqFilter, Integers, WellFoundedInduction, SequenceTheorems, TLAPS

\* A non-empty set of numbers has a least one.
LEMMA NatLeast ==
    ASSUME NEW T \in SUBSET Nat, T # {}
    PROVE  \E m \in T : \A n \in T : m <= n
<1> DEFINE R == OpToRel(<, Nat)
<1>1. IsWellFoundedOn(R, Nat)
  BY NatLessThanWellFounded
<1>2. \A x, y \in Nat : <<x, y>> \in R <=> x < y
  BY DEF OpToRel
<1> HIDE DEF R
<1>3. PICK m \in T : \A n \in T : ~(<<n, m>> \in R)
  BY <1>1, WFMin
<1>4. \A n \in T : ~(n < m)
  BY <1>2, <1>3
<1>5. \A n \in T : m <= n
  BY <1>4, m \in Nat, T \subseteq Nat, SMT
<1> QED BY <1>5

\* Induction: a set of numbers that has 0, and with n also n + 1, has them all.
LEMMA NatInductive ==
    ASSUME NEW S, 0 \in S, \A n \in Nat : n \in S => n + 1 \in S
    PROVE  Nat \subseteq S
<1> SUFFICES ASSUME Nat \ S # {} PROVE FALSE
  OBVIOUS
<1>1. PICK m \in Nat \ S : \A n \in Nat \ S : m <= n
  BY NatLeast
<1>2. m # 0 /\ m - 1 \in Nat
  BY <1>1
<1>3. m - 1 \in S
  BY <1>1, <1>2
<1> QED BY <1>1, <1>2, <1>3

-----------------------------------------------------------------------------
\* What the function in Filter has to satisfy, up to the n-th element.
Kept(s, T, f, n) ==
    f = [i \in 0 .. n |->
            IF i = 0 THEN <<>>
            ELSE IF s[i] \in T THEN Append(f[i - 1], s[i]) ELSE f[i - 1]]

\* There is such a function.
LEMMA KeptExists ==
    ASSUME NEW s, NEW T, NEW n \in Nat
    PROVE  \E f : Kept(s, T, f, n)
<1> DEFINE D == {k \in Nat : \E f : Kept(s, T, f, k)}
<1>1. 0 \in D
  <2> DEFINE f == [i \in 0 .. 0 |-> <<>>]
  <2>1. \A i \in 0 .. 0 : i = 0
    OBVIOUS
  <2>2. Kept(s, T, f, 0)
    BY <2>1 DEF Kept
  <2> QED BY <2>2
<1>2. ASSUME NEW k \in Nat, k \in D PROVE k + 1 \in D
  <2>1. PICK f : Kept(s, T, f, k)
    BY <1>2
  <2> DEFINE last == IF s[k + 1] \in T THEN Append(f[k], s[k + 1]) ELSE f[k]
             g == [i \in 0 .. k + 1 |-> IF i = k + 1 THEN last ELSE f[i]]
             h == [i \in 0 .. k + 1 |->
                     IF i = 0 THEN <<>>
                     ELSE IF s[i] \in T THEN Append(g[i - 1], s[i]) ELSE g[i - 1]]
  <2>2. ASSUME NEW i \in 0 .. k + 1 PROVE g[i] = h[i]
    <3>1. CASE i = k + 1
      <4>1. i - 1 = k /\ k \in 0 .. k + 1 /\ k # k + 1 /\ i # 0
        BY <3>1
      <4>2. g[i - 1] = f[k]
        BY <4>1
      <4> QED BY <3>1, <4>1, <4>2
    <3>2. CASE i \in 0 .. k
      <4>1. g[i] = f[i]
        BY <3>2
      <4>2. i # 0 => g[i - 1] = f[i - 1]
        BY <3>2
      <4>3. f[i] = IF i = 0 THEN <<>>
                   ELSE IF s[i] \in T THEN Append(f[i - 1], s[i]) ELSE f[i - 1]
        BY <2>1, <3>2 DEF Kept
      <4>4. h[i] = IF i = 0 THEN <<>>
                   ELSE IF s[i] \in T THEN Append(g[i - 1], s[i]) ELSE g[i - 1]
        BY <3>2
      <4> HIDE DEF g, h
      <4> QED BY <4>1, <4>2, <4>3, <4>4
    <3> QED BY <3>1, <3>2
  <2>3. g = h
    BY <2>2
  <2>4. Kept(s, T, g, k + 1)
    <3> HIDE DEF g
    <3> QED BY <2>3 DEF Kept
  <2> QED BY <2>4
<1>3. Nat \subseteq D
  <2> HIDE DEF D
  <2> QED BY <1>1, <1>2, NatInductive
<1> QED BY <1>3

\* r has the first n elements of s that are in T, in their order.
Picks(r, s, T, n) ==
    /\ \A a \in 1 .. Len(r) : \E m \in 1 .. n : r[a] = s[m]
    /\ \A a, b \in 1 .. Len(r) :
          a < b => \E m, k \in 1 .. n : m < k /\ r[a] = s[m] /\ r[b] = s[k]
    /\ \A m \in 1 .. n : s[m] \in T => \E a \in 1 .. Len(r) : r[a] = s[m]

LEMMA PicksNext ==
    ASSUME NEW S, NEW r \in Seq(S), NEW s, NEW T, NEW n \in Nat, Picks(r, s, T, n),
           s[n + 1] \in S
    PROVE  /\ s[n + 1] \notin T => Picks(r, s, T, n + 1)
           /\ Picks(Append(r, s[n + 1]), s, T, n + 1)
<1> DEFINE x == s[n + 1]
           q == Append(r, x)
<1>1. /\ Len(r) \in Nat /\ Len(q) = Len(r) + 1 /\ q[Len(r) + 1] = x
      /\ \A a \in 1 .. Len(r) : q[a] = r[a]
  BY AppendProperties
<1>2. \A m \in 1 .. n + 1 : m \in 1 .. n \/ m = n + 1
  OBVIOUS
<1>3. 1 .. n \subseteq 1 .. n + 1 /\ n + 1 \in 1 .. n + 1 /\ \A m \in 1 .. n : m < n + 1
  OBVIOUS
<1>4. s[n + 1] \notin T => Picks(r, s, T, n + 1)
  BY <1>2, <1>3 DEF Picks
<1> HIDE DEF q
<1>5. Picks(q, s, T, n + 1)
  <2>1. \A a \in 1 .. Len(q) : a \in 1 .. Len(r) \/ a = Len(r) + 1
    BY <1>1
  <2>2. /\ 1 .. Len(r) \subseteq 1 .. Len(q) /\ Len(r) + 1 \in 1 .. Len(q)
        /\ \A a \in 1 .. Len(q) : ~(Len(r) + 1 < a)
    BY <1>1
  <2>3. ASSUME NEW a \in 1 .. Len(q) PROVE \E m \in 1 .. n + 1 : q[a] = s[m]
    <3>1. CASE a \in 1 .. Len(r)
      BY <1>1, <1>3, <3>1 DEF Picks
    <3>2. CASE a = Len(r) + 1
      BY <1>1, <1>3, <3>2
    <3> QED BY <2>1, <3>1, <3>2
  <2>4. ASSUME NEW a \in 1 .. Len(q), NEW b \in 1 .. Len(q), a < b
        PROVE  \E m, k \in 1 .. n + 1 : m < k /\ q[a] = s[m] /\ q[b] = s[k]
    <3>1. a \in 1 .. Len(r)
      BY <2>1, <2>2, <2>4
    <3>2. CASE b \in 1 .. Len(r)
      <4>1. PICK m \in 1 .. n, k \in 1 .. n : m < k /\ r[a] = s[m] /\ r[b] = s[k]
        BY <2>4, <3>1, <3>2 DEF Picks
      <4> QED BY <1>1, <1>3, <3>1, <3>2, <4>1
    <3>3. CASE b = Len(r) + 1
      <4>1. PICK m \in 1 .. n : r[a] = s[m]
        BY <3>1 DEF Picks
      <4>2. m < n + 1 /\ q[a] = s[m] /\ q[b] = s[n + 1]
        BY <1>1, <1>3, <3>1, <3>3, <4>1
      <4> QED BY <1>3, <4>1, <4>2
    <3> QED BY <2>1, <3>2, <3>3
  <2>5. ASSUME NEW m \in 1 .. n + 1, s[m] \in T PROVE \E a \in 1 .. Len(q) : q[a] = s[m]
    <3>1. CASE m \in 1 .. n
      <4>1. PICK a \in 1 .. Len(r) : r[a] = s[m]
        BY <2>5, <3>1 DEF Picks
      <4> QED BY <1>1, <2>2, <4>1
    <3>2. CASE m = n + 1
      BY <1>1, <2>2, <3>2
    <3> QED BY <1>2, <3>1, <3>2
  <2> QED BY <2>3, <2>4, <2>5 DEF Picks
<1> QED BY <1>4, <1>5 DEF q

\* What it computes.
LEMMA KeptFacts ==
    ASSUME NEW S, NEW s \in Seq(S), NEW T, NEW f, Kept(s, T, f, Len(s))
    PROVE  /\ f[Len(s)] \in Seq(S \cap T) /\ Len(f[Len(s)]) <= Len(s)
           /\ Picks(f[Len(s)], s, T, Len(s))
<1> DEFINE Good(i) == i <= Len(s) => /\ f[i] \in Seq(S \cap T) /\ Len(f[i]) <= i
                                     /\ Picks(f[i], s, T, i)
           D == {i \in Nat : Good(i)}
<1>1. 0 \in D
  <2>1. 0 \in 0 .. Len(s)
    OBVIOUS
  <2>2. f[0] = <<>>
    BY <2>1 DEF Kept
  <2>3. <<>> \in Seq(S \cap T) /\ Len(<<>>) = 0
    OBVIOUS
  <2>4. f[0] \in Seq(S \cap T) /\ Len(f[0]) <= 0
    BY <2>2, <2>3
  <2>5. Picks(f[0], s, T, 0)
    BY <2>2, <2>3 DEF Picks
  <2> QED BY <2>4, <2>5
<1>2. ASSUME NEW i \in Nat, i \in D PROVE i + 1 \in D
  <2>1. CASE i + 1 <= Len(s)
    <3>1. f[i] \in Seq(S \cap T) /\ Len(f[i]) <= i /\ Len(f[i]) \in Nat /\ Picks(f[i], s, T, i)
      BY <1>2, <2>1
    <3>2. f[i + 1] = IF s[i + 1] \in T THEN Append(f[i], s[i + 1]) ELSE f[i]
      <4>1. i + 1 \in 0 .. Len(s) /\ i + 1 # 0 /\ (i + 1) - 1 = i
        BY <2>1
      <4> QED BY <4>1 DEF Kept
    <3>3. s[i + 1] \in S
      BY <2>1
    <3>4. CASE s[i + 1] \in T
      <4>1. f[i + 1] = Append(f[i], s[i + 1]) /\ s[i + 1] \in S \cap T
        BY <3>2, <3>3, <3>4
      <4>2. f[i + 1] \in Seq(S \cap T) /\ Len(f[i + 1]) = Len(f[i]) + 1
        BY <3>1, <4>1, AppendProperties
      <4>3. Picks(f[i + 1], s, T, i + 1)
        BY <3>1, <4>1, PicksNext
      <4> QED BY <3>1, <4>2, <4>3
    <3>5. CASE s[i + 1] \notin T
      <4>1. f[i] \in Seq(S)
        BY <3>1, SeqMonotonic, S \cap T \subseteq S
      <4>2. Picks(f[i], s, T, i + 1)
        BY <3>1, <3>3, <3>5, <4>1, PicksNext
      <4> QED BY <3>1, <3>2, <3>5, <4>2
    <3> QED BY <3>4, <3>5
  <2>2. CASE ~(i + 1 <= Len(s))
    BY <2>2
  <2> QED BY <2>1, <2>2
<1>3. Nat \subseteq D
  <2> HIDE DEF D
  <2> QED BY <1>1, <1>2, NatInductive
<1> QED BY <1>3

\* Filter keeps elements of the set only, and no more than there were: what the
\* loops of reconnectCandidates and of the queue cache return.
THEOREM FilterType ==
    ASSUME NEW S, NEW s \in Seq(S), NEW T
    PROVE  Filter(s, T) \in Seq(S \cap T) /\ Len(Filter(s, T)) <= Len(s)
<1> DEFINE kept == CHOOSE f : Kept(s, T, f, Len(s))
<1>1. Kept(s, T, kept, Len(s))
  BY KeptExists
<1>2. Filter(s, T) = kept[Len(s)]
  BY DEF Filter, Kept
<1> HIDE DEF kept
<1>3. kept[Len(s)] \in Seq(S \cap T) /\ Len(kept[Len(s)]) <= Len(s)
  BY <1>1, KeptFacts
<1> QED BY <1>2, <1>3

\* It leaves none of them out, and it keeps their order: what the loops over the known
\* devices and over the cached lists rely on.
THEOREM FilterPicks ==
    ASSUME NEW S, NEW s \in Seq(S), NEW T
    PROVE  Picks(Filter(s, T), s, T, Len(s))
<1> DEFINE kept == CHOOSE f : Kept(s, T, f, Len(s))
<1>1. Kept(s, T, kept, Len(s))
  BY KeptExists
<1>2. Filter(s, T) = kept[Len(s)]
  BY DEF Filter, Kept
<1> HIDE DEF kept
<1>3. Picks(kept[Len(s)], s, T, Len(s))
  BY <1>1, KeptFacts
<1> QED BY <1>2, <1>3
=============================================================================
