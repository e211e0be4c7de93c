-------------------------- MODULE WaveSpaceProofs --------------------------
(***************************************************************************)
(* Theorems about WaveSpace, for every set of threads, tuples and patterns *)
(* and any time limits.                                                    *)
(***************************************************************************)
EXTENDS WaveSpace, SequenceTheorems, FiniteSetTheorems, WellFoundedInduction, TLAPS

-----------------------------------------------------------------------------
\* Numbers and sequences.

LEMMA SmallestOf ==
    ASSUME NEW T \in SUBSET Nat, T # {}
    PROVE  \E m \in T : \A n \in T : m <= n
<1>1. PICK m \in T : \A n \in T : <<n, m>> \notin OpToRel(<, Nat)
  BY WFMin, NatLessThanWellFounded
<1>2. ASSUME NEW n \in T, n < m
      PROVE  FALSE
  <2>1. n \in Nat /\ m \in Nat
    OBVIOUS
  <2>2. <<n, m>> \in {ss \in Nat \X Nat : ss[1] < ss[2]}
    BY <1>2, <2>1
  <2>3. <<n, m>> \in OpToRel(<, Nat)
    BY <2>1, <2>2, Zenon DEF OpToRel
  <2> QED
    BY <1>1, <2>3, Zenon
<1> QED
  BY <1>2

\* t is made of the elements of s up to n that are in S, in their order.
Picks(t, s, S, n) ==
    /\ \E e \in [1 .. Len(t) -> 1 .. n] :
          /\ \A i, j \in 1 .. Len(t) : i < j => e[i] < e[j]
          /\ \A i \in 1 .. Len(t) : t[i] = s[e[i]] /\ t[i] \in S
    /\ \A i \in 1 .. n : s[i] \in S => \E j \in 1 .. Len(t) : t[j] = s[i]

LEMMA PicksNone ==
    ASSUME NEW s, NEW S
    PROVE  Picks(<<>>, s, S, 0)
<1> DEFINE e == [i \in 1 .. 0 |-> 0]
<1>1. Len(<<>>) = 0
  OBVIOUS
<1>2. e \in [1 .. 0 -> 1 .. 0]
  OBVIOUS
<1> HIDE DEF e
<1>3. \A i \in 1 .. 0 : FALSE
  OBVIOUS
<1>4. Picks(<<>>, s, S, 0)
  BY <1>1, <1>2, <1>3 DEF Picks
<1> QED
  BY <1>4

LEMMA PicksSkips ==
    ASSUME NEW A, NEW t \in Seq(A), NEW s, NEW S, NEW n \in Nat, Picks(t, s, S, n),
           s[n + 1] \notin S
    PROVE  Picks(t, s, S, n + 1)
<1>1. PICK e \in [1 .. Len(t) -> 1 .. n] :
          /\ \A i, j \in 1 .. Len(t) : i < j => e[i] < e[j]
          /\ \A i \in 1 .. Len(t) : t[i] = s[e[i]] /\ t[i] \in S
  BY DEF Picks
<1>2. e \in [1 .. Len(t) -> 1 .. n + 1]
  BY <1>1
<1>3. ASSUME NEW i \in 1 .. n + 1, s[i] \in S PROVE \E j \in 1 .. Len(t) : t[j] = s[i]
  <2>1. i \in 1 .. n
    BY <1>3
  <2> QED
    BY <1>3, <2>1 DEF Picks
<1> QED
  BY <1>1, <1>2, <1>3 DEF Picks

LEMMA PicksNext ==
    ASSUME NEW A, NEW t \in Seq(A), NEW s, NEW S, NEW n \in Nat, Picks(t, s, S, n),
           s[n + 1] \in S, s[n + 1] \in A
    PROVE  Picks(Append(t, s[n + 1]), s, S, n + 1)
<1> DEFINE a == Append(t, s[n + 1])
           m == Len(t)
<1>1. PICK e \in [1 .. m -> 1 .. n] :
          /\ \A i, j \in 1 .. m : i < j => e[i] < e[j]
          /\ \A i \in 1 .. m : t[i] = s[e[i]] /\ t[i] \in S
  BY DEF Picks
<1>2. m \in Nat /\ Len(a) = m + 1 /\ a[m + 1] = s[n + 1] /\ \A i \in 1 .. m : a[i] = t[i]
  BY AppendProperties, LenProperties
<1> DEFINE g == [i \in 1 .. m + 1 |-> IF i = m + 1 THEN n + 1 ELSE e[i]]
<1> HIDE DEF a, m
<1>3. g \in [1 .. m + 1 -> 1 .. n + 1]
  BY <1>1, <1>2
<1>4. ASSUME NEW i \in 1 .. m + 1, NEW j \in 1 .. m + 1, i < j PROVE g[i] < g[j]
  <2>1. i \in 1 .. m /\ i # m + 1 /\ e[i] \in 1 .. n /\ g[i] = e[i]
    BY <1>1, <1>2, <1>4
  <2>2. CASE j = m + 1
    BY <2>1, <2>2
  <2>3. CASE j # m + 1
    BY <1>1, <1>2, <1>4, <2>1, <2>3
  <2> QED
    BY <2>2, <2>3
<1>5. ASSUME NEW i \in 1 .. m + 1 PROVE a[i] = s[g[i]] /\ a[i] \in S
  <2>1. CASE i = m + 1
    BY <1>2, <2>1
  <2>2. CASE i # m + 1
    <3>1. i \in 1 .. m /\ g[i] = e[i]
      BY <1>2, <2>2
    <3> QED
      BY <1>1, <1>2, <3>1
  <2> QED
    BY <2>1, <2>2
<1>6. ASSUME NEW i \in 1 .. n + 1, s[i] \in S PROVE \E j \in 1 .. m + 1 : a[j] = s[i]
  <2>1. CASE i = n + 1
    BY <1>2, <2>1
  <2>2. CASE i # n + 1
    <3>1. PICK j \in 1 .. m : t[j] = s[i]
      BY <1>6, <2>2 DEF Picks, m
    <3>2. j \in 1 .. m + 1 /\ a[j] = t[j]
      BY <1>2, <3>1
    <3> QED
      BY <3>1, <3>2
  <2> QED
    BY <2>1, <2>2
<1> HIDE DEF g
<1>7. Picks(a, s, S, n + 1)
  BY <1>2, <1>3, <1>4, <1>5, <1>6 DEF Picks
<1> QED
  BY <1>7 DEF a

IsFilter(f, s, S, n) ==
    f = [i \in 0 .. n |-> IF i = 0 THEN <<>>
                          ELSE IF s[i] \in S THEN Append(f[i - 1], s[i]) ELSE f[i - 1]]

LEMMA FilterExists ==
    ASSUME NEW s, NEW S, NEW n \in Nat
    PROVE  \E f : IsFilter(f, s, S, n)
<1> DEFINE P(m) == \E f : IsFilter(f, s, S, m)
           Bad  == {m \in Nat : ~P(m)}
<1> SUFFICES ASSUME Bad # {} PROVE FALSE
  OBVIOUS
<1>1. PICK m \in Bad : \A j \in Bad : m <= j
  <2>1. Bad \in SUBSET Nat
    OBVIOUS
  <2> HIDE DEF Bad
  <2> QED
    BY <2>1, SmallestOf
<1>2. P(0)
  <2> DEFINE g == [k \in 0 .. 0 |-> <<>>]
  <2>1. IsFilter(g, s, S, 0)
    BY DEF IsFilter
  <2> QED
    BY <2>1
<1> HIDE DEF P
<1>3. m # 0 /\ m \in Nat /\ m - 1 \in Nat
  BY <1>1, <1>2
<1>4. P(m - 1)
  BY <1>1, <1>3
<1>5. PICK f : IsFilter(f, s, S, m - 1)
  BY <1>4 DEF P
<1> DEFINE v == IF s[m] \in S THEN Append(f[m - 1], s[m]) ELSE f[m - 1]
           g == [k \in 0 .. m |-> IF k = m THEN v ELSE f[k]]
<1>6. \A k \in 0 .. m - 1 : g[k] = f[k]
  BY <1>3
<1>7. g[m] = v /\ g[m - 1] = f[m - 1]
  BY <1>3
<1> HIDE DEF v
<1>8. ASSUME NEW k \in 0 .. m
      PROVE  g[k] = IF k = 0 THEN <<>>
                    ELSE IF s[k] \in S THEN Append(g[k - 1], s[k]) ELSE g[k - 1]
  <2>1. CASE k = m
    BY <1>3, <1>7, <2>1 DEF v
  <2>2. CASE k # m
    <3>1. k \in 0 .. m - 1 /\ (k # 0 => k - 1 \in 0 .. m - 1)
      BY <1>3, <2>2
    <3>2. f[k] = IF k = 0 THEN <<>>
                 ELSE IF s[k] \in S THEN Append(f[k - 1], s[k]) ELSE f[k - 1]
      BY <1>5, <3>1 DEF IsFilter
    <3>3. g[k] = f[k] /\ (k # 0 => g[k - 1] = f[k - 1])
      BY <1>6, <3>1
    <3> HIDE DEF g
    <3> QED
      BY <3>2, <3>3
  <2> QED
    BY <2>1, <2>2
<1>9. IsFilter(g, s, S, m)
  <2>1. g = [k \in 0 .. m |-> g[k]]
    OBVIOUS
  <2> HIDE DEF g
  <2> QED
    BY <1>8, <2>1 DEF IsFilter
<1> QED
  BY <1>1, <1>9 DEF P

LEMMA OnlyIs ==
    ASSUME NEW A, NEW s \in Seq(A), NEW S
    PROVE  Only(s, S) \in Seq(A) /\ Picks(Only(s, S), s, S, Len(s))
<1> DEFINE N == Len(s)
           f == CHOOSE f : IsFilter(f, s, S, N)
<1>1. N \in Nat /\ \A i \in 1 .. N : s[i] \in A
  BY LenProperties, ElementOfSeq
<1>2. IsFilter(f, s, S, N)
  BY <1>1, FilterExists
<1>3. Only(s, S) = f[N]
  BY DEF Only, IsFilter
<1> HIDE DEF f, N
<1> DEFINE P(n) == f[n] \in Seq(A) /\ Picks(f[n], s, S, n)
           Bad  == {n \in 0 .. N : ~P(n)}
<1>4. Bad = {}
  <2> SUFFICES ASSUME Bad # {} PROVE FALSE
    OBVIOUS
  <2>1. PICK n \in Bad : \A j \in Bad : n <= j
    <3>1. Bad \in SUBSET Nat
      BY <1>1
    <3> HIDE DEF Bad
    <3> QED
      BY <3>1, SmallestOf
  <2>2. P(0)
    <3>1. f[0] = <<>>
      BY <1>1, <1>2 DEF IsFilter
    <3> QED
      BY <3>1, PicksNone
  <2>3. n \in 1 .. N /\ n - 1 \in 0 .. N /\ n - 1 \in Nat /\ (n - 1) + 1 = n
    BY <1>1, <2>1, <2>2
  <2>4. f[n - 1] \in Seq(A) /\ Picks(f[n - 1], s, S, n - 1)
    BY <2>1, <2>3
  <2>5. f[n] = IF s[n] \in S THEN Append(f[n - 1], s[n]) ELSE f[n - 1]
    <3>1. n \in 0 .. N /\ n # 0
      BY <1>1, <2>3
    <3> QED
      BY <1>2, <3>1 DEF IsFilter
  <2>6. s[n] \in A
    BY <1>1, <2>3
  <2>7. CASE s[n] \in S
    <3>1. Picks(Append(f[n - 1], s[n]), s, S, n)
      BY <2>3, <2>4, <2>6, <2>7, PicksNext
    <3>2. Append(f[n - 1], s[n]) \in Seq(A)
      BY <2>4, <2>6, AppendProperties
    <3> QED
      BY <2>1, <2>5, <2>7, <3>1, <3>2
  <2>8. CASE s[n] \notin S
    <3>1. Picks(f[n - 1], s, S, n)
      BY <2>3, <2>4, <2>8, PicksSkips
    <3> QED
      BY <2>1, <2>4, <2>5, <2>8, <3>1
  <2> QED
    BY <2>7, <2>8
<1>5. P(N)
  BY <1>1, <1>4
<1> QED
  BY <1>3, <1>5 DEF N

LEMMA ElementsAre ==
    ASSUME NEW A, NEW s \in Seq(A)
    PROVE  /\ Len(s) \in Nat /\ DOMAIN s = 1 .. Len(s)
           /\ ToSet(s) = {s[i] : i \in 1 .. Len(s)} /\ ToSet(s) \subseteq A
<1>1. Len(s) \in Nat /\ DOMAIN s = 1 .. Len(s) /\ \A i \in 1 .. Len(s) : s[i] \in A
  BY LenProperties, ElementOfSeq
<1> QED
  BY <1>1 DEF ToSet

LEMMA OnlySet ==
    ASSUME NEW A, NEW s \in Seq(A), NEW S
    PROVE  /\ Only(s, S) \in Seq(A) /\ ToSet(Only(s, S)) = ToSet(s) \cap S
           /\ Minus(s, S) \in Seq(A) /\ ToSet(Minus(s, S)) = ToSet(s) \ S
<1>1. ASSUME NEW T
      PROVE  Only(s, T) \in Seq(A) /\ ToSet(Only(s, T)) = ToSet(s) \cap T
  <2> DEFINE t == Only(s, T)
  <2>1. t \in Seq(A) /\ Picks(t, s, T, Len(s))
    BY OnlyIs
  <2> HIDE DEF t
  <2>2. PICK e \in [1 .. Len(t) -> 1 .. Len(s)] :
            \A i \in 1 .. Len(t) : t[i] = s[e[i]] /\ t[i] \in T
    BY <2>1 DEF Picks
  <2>3. \A i \in 1 .. Len(s) : s[i] \in T => \E j \in 1 .. Len(t) : t[j] = s[i]
    BY <2>1 DEF Picks
  <2>4. ToSet(s) = {s[i] : i \in 1 .. Len(s)} /\ ToSet(t) = {t[i] : i \in 1 .. Len(t)}
    BY <2>1, ElementsAre
  <2>5. ASSUME NEW x \in ToSet(t) PROVE x \in ToSet(s) /\ x \in T
    BY <2>2, <2>4, <2>5
  <2>6. ASSUME NEW x \in ToSet(s), x \in T PROVE x \in ToSet(t)
    BY <2>3, <2>4, <2>6
  <2>7. ToSet(t) = ToSet(s) \cap T
    BY <2>5, <2>6
  <2> QED
    BY <2>1, <2>7 DEF t
<1>2. ToSet(s) \cap (ToSet(s) \ S) = ToSet(s) \ S
  OBVIOUS
<1> QED
  BY <1>1, <1>2 DEF Minus

Once(s) == \A i, j \in DOMAIN s : s[i] = s[j] => i = j

OnePerTuple(ls) == \A i, j \in DOMAIN ls : ls[i].token.tuple = ls[j].token.tuple => i = j

LEMMA OnlyOnce ==
    ASSUME NEW A, NEW s \in Seq(A), NEW S
    PROVE  /\ Once(s) => Once(Only(s, S))
           /\ OnePerTuple(s) => OnePerTuple(Only(s, S))
<1> DEFINE t == Only(s, S)
<1>1. t \in Seq(A) /\ Picks(t, s, S, Len(s))
  BY OnlyIs
<1> HIDE DEF t
<1>2. PICK e \in [1 .. Len(t) -> 1 .. Len(s)] :
          /\ \A i, j \in 1 .. Len(t) : i < j => e[i] < e[j]
          /\ \A i \in 1 .. Len(t) : t[i] = s[e[i]]
  BY <1>1 DEF Picks
<1>3. /\ Len(s) \in Nat /\ DOMAIN s = 1 .. Len(s)
      /\ Len(t) \in Nat /\ DOMAIN t = 1 .. Len(t)
  BY <1>1, ElementsAre
<1>4. ASSUME NEW i \in 1 .. Len(t), NEW j \in 1 .. Len(t), e[i] = e[j] PROVE i = j
  <2>1. e[i] \in Nat /\ e[j] \in Nat /\ ~(e[i] < e[j]) /\ ~(e[j] < e[i])
    BY <1>2, <1>3, <1>4
  <2> QED
    BY <1>2, <1>3, <2>1
<1>5. Once(s) => Once(t)
  BY <1>2, <1>3, <1>4 DEF Once
<1>6. OnePerTuple(s) => OnePerTuple(t)
  BY <1>2, <1>3, <1>4 DEF OnePerTuple
<1> QED
  BY <1>5, <1>6 DEF t

LEMMA MinusOnce ==
    ASSUME NEW A, NEW s \in Seq(A), NEW S
    PROVE  /\ Once(s) => Once(Minus(s, S))
           /\ OnePerTuple(s) => OnePerTuple(Minus(s, S))
BY OnlyOnce DEF Minus

\* A sequence of other elements behind one.
LEMMA JoinIs ==
    ASSUME NEW A, NEW s \in Seq(A), NEW t \in Seq(A)
    PROVE  /\ s \o t \in Seq(A) /\ ToSet(s \o t) = ToSet(s) \cup ToSet(t)
           /\ Once(s) /\ Once(t) /\ ToSet(s) \cap ToSet(t) = {} => Once(s \o t)
<1> DEFINE c == s \o t
           m == Len(s)
           n == Len(t)
<1>1. /\ m \in Nat /\ DOMAIN s = 1 .. m /\ ToSet(s) = {s[i] : i \in 1 .. m}
      /\ n \in Nat /\ DOMAIN t = 1 .. n /\ ToSet(t) = {t[i] : i \in 1 .. n}
  BY ElementsAre
<1>2. /\ c \in Seq(A) /\ Len(c) = m + n
      /\ \A i \in 1 .. m + n : c[i] = IF i <= m THEN s[i] ELSE t[i - m]
  BY ConcatProperties
<1>3. DOMAIN c = 1 .. m + n /\ ToSet(c) = {c[i] : i \in 1 .. m + n}
  BY <1>2, ElementsAre
<1> HIDE DEF c, m, n
<1>4. \A i \in 1 .. m : i \in 1 .. m + n /\ c[i] = s[i]
  BY <1>1, <1>2
<1>5. \A i \in 1 .. n : m + i \in 1 .. m + n /\ c[m + i] = t[i]
  <2> TAKE i \in 1 .. n
  <2>1. m + i \in 1 .. m + n /\ ~(m + i <= m) /\ (m + i) - m = i
    BY <1>1
  <2> QED
    BY <1>2, <2>1
<1>6. \A i \in 1 .. m + n :
          \/ i \in 1 .. m /\ c[i] = s[i]
          \/ i - m \in 1 .. n /\ c[i] = t[i - m]
  <2> TAKE i \in 1 .. m + n
  <2>1. CASE i <= m
    BY <1>1, <1>2, <2>1
  <2>2. CASE ~(i <= m)
    <3>1. i - m \in 1 .. n
      BY <1>1, <2>2
    <3> QED
      BY <1>2, <2>2, <3>1
  <2> QED
    BY <2>1, <2>2
<1>7. ToSet(c) = ToSet(s) \cup ToSet(t)
  <2>1. ASSUME NEW x \in ToSet(c) PROVE x \in ToSet(s) \cup ToSet(t)
    BY <1>1, <1>3, <1>6
  <2>2. ASSUME NEW x \in ToSet(s) PROVE x \in ToSet(c)
    BY <1>1, <1>3, <1>4
  <2>3. ASSUME NEW x \in ToSet(t) PROVE x \in ToSet(c)
    BY <1>1, <1>3, <1>5
  <2> QED
    BY <2>1, <2>2, <2>3
<1>8. ASSUME Once(s), Once(t), ToSet(s) \cap ToSet(t) = {},
             NEW i \in 1 .. m + n, NEW j \in 1 .. m + n, c[i] = c[j]
      PROVE  i = j
  <2>1. CASE i \in 1 .. m /\ c[i] = s[i] /\ j \in 1 .. m /\ c[j] = s[j]
    BY <1>1, <1>8, <2>1 DEF Once
  <2>2. CASE i - m \in 1 .. n /\ c[i] = t[i - m] /\ j - m \in 1 .. n /\ c[j] = t[j - m]
    <3>1. i - m = j - m
      BY <1>1, <1>8, <2>2 DEF Once
    <3> QED
      BY <1>1, <3>1
  <2>3. CASE i \in 1 .. m /\ c[i] = s[i] /\ j - m \in 1 .. n /\ c[j] = t[j - m]
    <3>1. c[i] \in ToSet(s) /\ c[j] \in ToSet(t)
      BY <1>1, <2>3
    <3> QED
      BY <1>8, <3>1
  <2>4. CASE j \in 1 .. m /\ c[j] = s[j] /\ i - m \in 1 .. n /\ c[i] = t[i - m]
    <3>1. c[j] \in ToSet(s) /\ c[i] \in ToSet(t)
      BY <1>1, <2>4
    <3> QED
      BY <1>8, <3>1
  <2> QED
    BY <1>6, <2>1, <2>2, <2>3, <2>4
<1>9. Once(s) /\ Once(t) /\ ToSet(s) \cap ToSet(t) = {} => Once(c)
  BY <1>3, <1>8 DEF Once
<1> QED
  BY <1>2, <1>7, <1>9 DEF c

LEMMA AppendOne ==
    ASSUME NEW A, NEW s \in Seq(A), NEW x \in A
    PROVE  /\ Append(s, x) \in Seq(A) /\ ToSet(Append(s, x)) = ToSet(s) \cup {x}
           /\ Once(s) /\ x \notin ToSet(s) => Once(Append(s, x))
           /\ OnePerTuple(s) /\ (\A y \in ToSet(s) : y.token.tuple # x.token.tuple)
                => OnePerTuple(Append(s, x))
<1> DEFINE c == Append(s, x)
           m == Len(s)
<1>1. m \in Nat /\ DOMAIN s = 1 .. m /\ ToSet(s) = {s[i] : i \in 1 .. m}
  BY ElementsAre
<1>2. /\ c \in Seq(A) /\ Len(c) = m + 1 /\ c[m + 1] = x
      /\ \A i \in 1 .. m : c[i] = s[i]
  BY AppendProperties
<1>3. DOMAIN c = 1 .. m + 1 /\ ToSet(c) = {c[i] : i \in 1 .. m + 1}
  BY <1>2, ElementsAre
<1> HIDE DEF c, m
<1>4. \A i \in 1 .. m + 1 : i = m + 1 \/ i \in 1 .. m
  BY <1>1
<1>5. ToSet(c) = ToSet(s) \cup {x}
  <2>1. m + 1 \in 1 .. m + 1 /\ \A i \in 1 .. m : i \in 1 .. m + 1
    BY <1>1
  <2> QED
    BY <1>1, <1>2, <1>3, <1>4, <2>1
<1>6. \A i \in 1 .. m : s[i] \in ToSet(s)
  BY <1>1
<1>7. Once(s) /\ x \notin ToSet(s) => Once(c)
  BY <1>1, <1>2, <1>3, <1>4, <1>6 DEF Once
<1>8. OnePerTuple(s) /\ (\A y \in ToSet(s) : y.token.tuple # x.token.tuple) => OnePerTuple(c)
  <2> SUFFICES ASSUME OnePerTuple(s), \A y \in ToSet(s) : y.token.tuple # x.token.tuple,
                      NEW i \in 1 .. m + 1, NEW j \in 1 .. m + 1,
                      c[i].token.tuple = c[j].token.tuple
               PROVE  i = j
    BY <1>3 DEF OnePerTuple
  <2>1. CASE i \in 1 .. m /\ j \in 1 .. m
    <3>1. s[i].token.tuple = s[j].token.tuple
      BY <1>2, <2>1
    <3> QED
      BY <1>1, <2>1, <3>1 DEF OnePerTuple
  <2>2. CASE i = m + 1 /\ j \in 1 .. m
    BY <1>2, <1>6, <2>2
  <2>3. CASE j = m + 1 /\ i \in 1 .. m
    BY <1>2, <1>6, <2>3
  <2> QED
    BY <1>4, <2>1, <2>2, <2>3
<1> QED
  BY <1>2, <1>5, <1>7, <1>8 DEF c

-----------------------------------------------------------------------------
\* The inductive invariant, of the space as a section under the lock finds it: P has been
\* put, F are the tokens that finished, G the generations.

LeaseRecords(P) == [token : [tuple : P, gen : 1..MaxCalls], left : 0..Lease]

CallRecords(P) == [pc : {"idle", "loop", "asleep"}, op : {"none", "take", "rd"},
                   pattern : Patterns \cup {<<>>}, deadline : Times, wake : Times,
                   assigned : P \cup {NoTuple}, notified : BOOLEAN]

Shape(s, P) ==
    /\ s = [bag |-> s.bag, leases |-> s.leases, waiters |-> s.waiters, call |-> s.call]
    /\ s.bag \in Seq(P) /\ s.leases \in Seq(LeaseRecords(P)) /\ s.waiters \in Seq(Workers)
    /\ s.call \in [Workers -> CallRecords(P)]

OneEach(c) == \A v, w \in Workers : c[v].assigned = c[w].assigned => v = w \/ c[v].assigned = NoTuple

Leased(s)   == {l.token.tuple : l \in ToSet(s.leases)}
Assigned(s) == {s.call[w].assigned : w \in Workers} \ {NoTuple}
Over(F)     == {k.tuple : k \in F}

\* Four sets that share nothing make up P.
Split(a, b, c, d, P) ==
    /\ a \cup b \cup c \cup d = P
    /\ a \cap b = {} /\ a \cap c = {} /\ a \cap d = {} /\ b \cap c = {} /\ b \cap d = {} /\ c \cap d = {}

NewestLeased(s, G) == \A l \in ToSet(s.leases) : l.token.gen = G[l.token.tuple]

\* Who waits is in a take and has nothing yet; who was assigned a tuple is still in it.
Turns(s) ==
    \A w \in Workers :
        /\ w \in ToSet(s.waiters) => s.call[w].assigned = NoTuple
        /\ w \in ToSet(s.waiters) \/ s.call[w].assigned # NoTuple =>
              s.call[w].pc # "idle" /\ s.call[w].op = "take"

Good(s, P, F, G) ==
    /\ Shape(s, P)
    /\ Once(s.bag) /\ OnePerTuple(s.leases) /\ OneEach(s.call)
    /\ Split(ToSet(s.bag), Leased(s), Assigned(s), Over(F), P)
    /\ NewestLeased(s, G)
    /\ Turns(s)

\* No waiter asks for what is in the bag, and nobody sleeps on what was assigned.
Fed(s) == \A w \in ToSet(s.waiters) : Matching(s.bag, s.call[w].pattern) = {}

Roused(s) ==
    \A w \in Workers : s.call[w].assigned # NoTuple => s.call[w].pc = "loop" \/ s.call[w].notified

SpaceOK(s, P, F, G) == Good(s, P, F, G) /\ Fed(s) /\ Roused(s)

InCall(c) == {w \in Workers : c[w].pc # "idle"}

\* A claim ends a call, and every call was counted.
CountOK(G, c, n) == \A t \in Tuples : G[t] + Cardinality(InCall(c)) <= n

FinishedOK ==
    /\ finished \subseteq [tuple : posted, gen : 1..MaxCalls]
    /\ \A k \in finished : k.gen = gen[k.tuple]

IInv ==
    /\ posted \subseteq Tuples /\ gen \in [Tuples -> 0..MaxCalls]
    /\ held \in [Workers -> Tokens \cup {NoToken}] /\ stop \in BOOLEAN /\ calls \in 0..MaxCalls
    /\ SpaceOK(Space, posted, finished, gen)
    /\ CountOK(gen, call, calls)
    /\ FinishedOK

-----------------------------------------------------------------------------
\* What each step of a section does to the space.

\* q is r, asked for the same and given the same.
SameCall(r, q) ==
    /\ q.pc = r.pc /\ q.op = r.op /\ q.pattern = r.pattern /\ q.deadline = r.deadline

WithNotified(r, b) == [r EXCEPT !.notified = b]
WithAssigned(r, t) == [r EXCEPT !.assigned = t]

LEMMA NotifiedIs ==
    ASSUME NEW P, NEW r \in CallRecords(P), NEW b \in BOOLEAN
    PROVE  /\ WithNotified(r, b) \in CallRecords(P) /\ SameCall(r, WithNotified(r, b))
           /\ WithNotified(r, b).assigned = r.assigned /\ WithNotified(r, b).notified = b
<1> DEFINE q == WithNotified(r, b)
<1>1. q = [pc |-> r.pc, op |-> r.op, pattern |-> r.pattern, deadline |-> r.deadline,
           wake |-> r.wake, assigned |-> r.assigned, notified |-> b]
  BY DEF CallRecords, WithNotified
<1>2. q \in CallRecords(P)
  BY DEF CallRecords, WithNotified
<1> HIDE DEF q
<1>3. /\ SameCall(r, q) /\ q.assigned = r.assigned /\ q.notified = b
  BY <1>1 DEF SameCall
<1> QED
  BY <1>2, <1>3 DEF q

LEMMA AssignedIs ==
    ASSUME NEW P, NEW r \in CallRecords(P), NEW t \in P \cup {NoTuple}
    PROVE  /\ WithAssigned(r, t) \in CallRecords(P) /\ SameCall(r, WithAssigned(r, t))
           /\ WithAssigned(r, t).assigned = t
<1> DEFINE q == WithAssigned(r, t)
<1>1. q = [pc |-> r.pc, op |-> r.op, pattern |-> r.pattern, deadline |-> r.deadline,
           wake |-> r.wake, assigned |-> t, notified |-> r.notified]
  BY DEF CallRecords, WithAssigned
<1>2. q \in CallRecords(P)
  BY DEF CallRecords, WithAssigned
<1> HIDE DEF q
<1>3. SameCall(r, q) /\ q.assigned = t
  BY <1>1 DEF SameCall
<1> QED
  BY <1>2, <1>3 DEF q

SameCalls(c, d) == \A w \in Workers : SameCall(c[w], d[w])

LEMMA SameCallsTwice ==
    ASSUME NEW a, NEW b, NEW c, SameCalls(a, b), SameCalls(b, c)
    PROVE  SameCalls(a, c)
BY DEF SameCalls, SameCall

\* Only the calls change, and nobody is assigned anything.
Alike(s, x) ==
    /\ x = [bag |-> s.bag, leases |-> s.leases, waiters |-> s.waiters, call |-> x.call]
    /\ SameCalls(s.call, x.call)
    /\ \A w \in Workers : /\ x.call[w].assigned = s.call[w].assigned
                          /\ s.call[w].notified => x.call[w].notified

LEMMA AlikeKeeps ==
    ASSUME NEW s, NEW P, NEW F, NEW G, Good(s, P, F, G),
           NEW x, Alike(s, x), x.call \in [Workers -> CallRecords(P)]
    PROVE  /\ Good(x, P, F, G) /\ (Fed(s) => Fed(x)) /\ (Roused(s) => Roused(x))
<1>1. x.bag = s.bag /\ x.leases = s.leases /\ x.waiters = s.waiters
  BY DEF Alike
<1>2. \A w \in Workers :
          /\ x.call[w].pc = s.call[w].pc /\ x.call[w].op = s.call[w].op
          /\ x.call[w].pattern = s.call[w].pattern /\ x.call[w].assigned = s.call[w].assigned
          /\ s.call[w].notified => x.call[w].notified
  BY DEF Alike, SameCalls, SameCall
<1>3. Shape(x, P)
  <2>1. s.bag \in Seq(P) /\ s.leases \in Seq(LeaseRecords(P)) /\ s.waiters \in Seq(Workers)
    BY DEF Good, Shape
  <2>2. x = [bag |-> x.bag, leases |-> x.leases, waiters |-> x.waiters, call |-> x.call]
    BY <1>1 DEF Alike
  <2> QED
    BY <1>1, <2>1, <2>2 DEF Shape
<1>4. Assigned(x) = Assigned(s) /\ Leased(x) = Leased(s)
  BY <1>1, <1>2 DEF Assigned, Leased
<1>5. OneEach(x.call)
  BY <1>2 DEF Good, OneEach
<1>6. Turns(x)
  BY <1>1, <1>2 DEF Good, Turns
<1>7. NewestLeased(x, G)
  BY <1>1 DEF Good, NewestLeased
<1>8. Good(x, P, F, G)
  BY <1>1, <1>3, <1>4, <1>5, <1>6, <1>7 DEF Good
<1>9. Fed(s) => Fed(x)
  <2>1. s.waiters \in Seq(Workers)
    BY DEF Good, Shape
  <2>2. ToSet(s.waiters) \subseteq Workers
    BY <2>1, ElementsAre
  <2> QED
    BY <1>1, <1>2, <2>2 DEF Fed
<1>10. Roused(s) => Roused(x)
  BY <1>2 DEF Roused
<1> QED
  BY <1>8, <1>9, <1>10

LEMMA NotifyIs ==
    ASSUME NEW s, NEW P, s.call \in [Workers -> CallRecords(P)],
           s = [bag |-> s.bag, leases |-> s.leases, waiters |-> s.waiters, call |-> s.call]
    PROVE  /\ Alike(s, NotifyAll(s)) /\ NotifyAll(s).call \in [Workers -> CallRecords(P)]
           /\ \A w \in Workers : s.call[w].pc = "asleep" => NotifyAll(s).call[w].notified
<1> DEFINE b == TRUE
           c == [w \in Workers |-> IF s.call[w].pc = "asleep" THEN WithNotified(s.call[w], b)
                                   ELSE s.call[w]]
           x == NotifyAll(s)
<1>1. x = [s EXCEPT !.call = c]
  BY Zenon DEF NotifyAll, WithNotified
<1>2. b \in BOOLEAN /\ b
  OBVIOUS
<1> HIDE DEF b
<1>3. ASSUME NEW w \in Workers
      PROVE  /\ c[w] \in CallRecords(P) /\ SameCall(s.call[w], c[w])
             /\ c[w].assigned = s.call[w].assigned
             /\ s.call[w].notified => c[w].notified
             /\ s.call[w].pc = "asleep" => c[w].notified
  <2>1. s.call[w] \in CallRecords(P)
    OBVIOUS
  <2>2. CASE s.call[w].pc = "asleep"
    <3>1. c[w] = WithNotified(s.call[w], b)
      BY <2>2
    <3> HIDE DEF c
    <3>2. /\ c[w] \in CallRecords(P) /\ SameCall(s.call[w], c[w])
          /\ c[w].assigned = s.call[w].assigned /\ c[w].notified = b
      <4> DEFINE q == WithNotified(s.call[w], b)
      <4>1. /\ q \in CallRecords(P) /\ SameCall(s.call[w], q)
            /\ q.assigned = s.call[w].assigned /\ q.notified = b
        BY <1>2, <2>1, NotifiedIs
      <4> HIDE DEF q
      <4>2. c[w] = q
        BY <3>1 DEF q
      <4> QED
        BY <4>1, <4>2
    <3>3. c[w].notified
      BY <1>2, <3>2, Zenon
    <3> QED
      BY <3>2, <3>3, Zenon
  <2>3. CASE s.call[w].pc # "asleep"
    <3>1. c[w] = s.call[w]
      BY <2>3
    <3> HIDE DEF c
    <3> QED
      BY <2>1, <2>3, <3>1 DEF SameCall
  <2> QED
    BY <2>2, <2>3
<1>4. c \in [Workers -> CallRecords(P)]
  <2>1. c = [w \in Workers |-> c[w]]
    OBVIOUS
  <2> HIDE DEF c
  <2> QED
    BY <1>3, <2>1
<1> HIDE DEF c, x
<1>5. x = [bag |-> s.bag, leases |-> s.leases, waiters |-> s.waiters, call |-> c] /\ x.call = c
  BY <1>1
<1>6. Alike(s, x)
  BY <1>3, <1>5 DEF Alike, SameCalls
<1> QED
  BY <1>3, <1>4, <1>5, <1>6 DEF x

LEMMA PositionIs ==
    ASSUME NEW A, NEW s \in Seq(A), NEW x \in ToSet(s)
    PROVE  Position(s, x) \in 1 .. Len(s) /\ s[Position(s, x)] = x
<1>1. \E i \in DOMAIN s : s[i] = x
  BY DEF ToSet
<1>2. DOMAIN s = 1 .. Len(s)
  BY ElementsAre
<1> QED
  BY <1>1, <1>2 DEF Position

LEMMA OldestIs ==
    ASSUME NEW A, NEW b \in Seq(A), NEW S \in SUBSET ToSet(b), S # {}
    PROVE  Oldest(b, S) \in S /\ \A u \in S : Position(b, Oldest(b, S)) <= Position(b, u)
<1> DEFINE T == {Position(b, u) : u \in S}
<1>1. T \in SUBSET Nat /\ T # {}
  <2>1. ASSUME NEW u \in S PROVE Position(b, u) \in Nat
    <3>1. Position(b, u) \in 1 .. Len(b) /\ Len(b) \in Nat
      BY PositionIs, ElementsAre
    <3> QED
      BY <3>1
  <2> QED
    BY <2>1
<1>2. PICK m \in T : \A n \in T : m <= n
  <2> HIDE DEF T
  <2> QED
    BY <1>1, SmallestOf
<1>3. PICK t \in S : Position(b, t) = m
  BY <1>2
<1>4. \A u \in S : Position(b, t) <= Position(b, u)
  BY <1>2, <1>3
<1> QED
  BY <1>3, <1>4 DEF Oldest

LEMMA BeforeTotal ==
    ASSUME NEW s, NEW P, Shape(s, P), NEW v \in ToSet(s.waiters), NEW w \in ToSet(s.waiters), v # w
    PROVE  Before(s, v, w) \/ Before(s, w, v)
<1>1. s.waiters \in Seq(Workers) /\ s.call \in [Workers -> CallRecords(P)]
  BY DEF Shape
<1>2. v \in Workers /\ w \in Workers
  BY <1>1, ElementsAre
<1>3. ASSUME NEW u \in Workers PROVE Specificity(s.call[u].pattern) \in Nat
  <2> DEFINE p == s.call[u].pattern
  <2>1. p \in Patterns \cup {<<>>}
    BY <1>1, <1>3 DEF CallRecords
  <2> HIDE DEF p
  <2>2. ASSUME p \in Patterns PROVE IsFiniteSet(DOMAIN p)
    BY <2>2, PatternAssumption
  <2>3. ASSUME p = <<>> PROVE IsFiniteSet(DOMAIN p)
    <3>1. DOMAIN p = {}
      BY <2>3
    <3> QED
      BY <3>1, FS_EmptySet
  <2>4. Specificity(p) \in Nat
    BY <2>1, <2>2, <2>3, FS_CardinalityType DEF Specificity
  <2> QED
    BY <2>4 DEF p
<1>4. /\ Position(s.waiters, v) \in 1 .. Len(s.waiters) /\ s.waiters[Position(s.waiters, v)] = v
      /\ Position(s.waiters, w) \in 1 .. Len(s.waiters) /\ s.waiters[Position(s.waiters, w)] = w
      /\ Len(s.waiters) \in Nat
  BY <1>1, PositionIs, ElementsAre
<1>5. \/ Position(s.waiters, v) < Position(s.waiters, w)
      \/ Position(s.waiters, w) < Position(s.waiters, v)
  BY <1>4
<1>6. Specificity(s.call[v].pattern) \in Nat /\ Specificity(s.call[w].pattern) \in Nat
  BY <1>2, <1>3
<1> QED
  BY <1>5, <1>6 DEF Before

\* Who is served is a waiter, gets what it asked for, and gets it alone.
IsServed(s, f) ==
    /\ DOMAIN f \subseteq ToSet(s.waiters)
    /\ \A w \in DOMAIN f : f[w] \in Matching(s.bag, s.call[w].pattern)
    /\ \A v, w \in DOMAIN f : f[v] = f[w] => v = w
    /\ \A w \in ToSet(s.waiters) \ DOMAIN f : \A t \in Matching(s.bag, s.call[w].pattern) :
          \E v \in DOMAIN f : f[v] = t

LEMMA ServedIs ==
    ASSUME NEW s, NEW P, Shape(s, P), NEW f \in Handoffs(s)
    PROVE  IsServed(s, f)
<1>1. PICK W \in SUBSET ToSet(s.waiters) : f \in [W -> ToSet(s.bag)]
  BY DEF Handoffs
<1>2. DOMAIN f = W /\ s.bag \in Seq(P)
  BY <1>1 DEF Shape
<1>3. ASSUME NEW w \in W PROVE f[w] \in LeftFor(s, f, w)
  <2>1. LeftFor(s, f, w) # {} /\ f[w] = Oldest(s.bag, LeftFor(s, f, w))
    BY <1>2, <1>3 DEF Handoffs
  <2>2. LeftFor(s, f, w) \in SUBSET ToSet(s.bag)
    BY DEF LeftFor, Matching
  <2> QED
    BY <1>2, <2>1, <2>2, OldestIs
<1>4. ASSUME NEW v \in W, NEW w \in W, f[v] = f[w] PROVE v = w
  <2> SUFFICES ASSUME v # w PROVE FALSE
    OBVIOUS
  <2>1. Before(s, v, w) \/ Before(s, w, v)
    BY <1>1, BeforeTotal
  <2>2. f[v] \in LeftFor(s, f, v) /\ f[w] \in LeftFor(s, f, w)
    BY <1>3
  <2> QED
    BY <1>2, <1>4, <2>1, <2>2 DEF LeftFor
<1>5. \A w \in ToSet(s.waiters) \ W : LeftFor(s, f, w) = {}
  BY <1>2 DEF Handoffs
<1> QED
  BY <1>1, <1>2, <1>3, <1>4, <1>5 DEF IsServed, LeftFor

LEMMA AssignKeeps ==
    ASSUME NEW s, NEW P \in SUBSET Tuples, NEW F, NEW G, Good(s, P, F, G), NEW f, IsServed(s, f)
    PROVE  Good(Assign(s, f), P, F, G) /\ Fed(Assign(s, f)) /\ SameCalls(s.call, Assign(s, f).call)
<1> DEFINE y == Assign(s, f)
           D == DOMAIN f
           R == {f[w] : w \in DOMAIN f}
<1>1. /\ s.bag \in Seq(P) /\ s.leases \in Seq(LeaseRecords(P)) /\ s.waiters \in Seq(Workers)
      /\ s.call \in [Workers -> CallRecords(P)]
  BY DEF Good, Shape
<1>2. ToSet(s.bag) \subseteq P /\ ToSet(s.waiters) \subseteq Workers
  BY <1>1, ElementsAre
<1>3. D \subseteq Workers /\ R \subseteq ToSet(s.bag) /\ R \subseteq P /\ NoTuple \notin R
  <2>1. R \subseteq ToSet(s.bag)
    BY DEF IsServed, Matching
  <2> HIDE DEF R
  <2> QED
    BY <1>2, <2>1, TupleAssumption DEF IsServed
<1>4. /\ y = [bag |-> y.bag, leases |-> y.leases, waiters |-> y.waiters, call |-> y.call]
      /\ y.bag = Minus(s.bag, R) /\ y.leases = s.leases /\ y.waiters = Minus(s.waiters, D)
      /\ y.call = [w \in Workers |-> IF w \in D THEN WithAssigned(s.call[w], f[w]) ELSE s.call[w]]
  BY DEF Assign, WithAssigned
<1> HIDE DEF y
<1>5. ASSUME NEW w \in Workers
      PROVE  /\ y.call[w] \in CallRecords(P) /\ SameCall(s.call[w], y.call[w])
             /\ w \in D => y.call[w].assigned = f[w]
             /\ w \notin D => y.call[w] = s.call[w]
  <2>1. CASE w \in D
    <3>1. y.call[w] = WithAssigned(s.call[w], f[w])
      BY <1>4, <2>1
    <3>2. s.call[w] \in CallRecords(P) /\ f[w] \in P \cup {NoTuple}
      BY <1>1, <1>3, <2>1
    <3> QED
      BY <2>1, <3>1, <3>2, AssignedIs
  <2>2. CASE w \notin D
    <3>1. y.call[w] = s.call[w]
      BY <1>4, <2>2
    <3> QED
      BY <1>1, <2>2, <3>1 DEF SameCall
  <2> QED
    BY <2>1, <2>2
<1>6. /\ y.bag \in Seq(P) /\ ToSet(y.bag) = ToSet(s.bag) \ R
      /\ y.waiters \in Seq(Workers) /\ ToSet(y.waiters) = ToSet(s.waiters) \ D
  BY <1>1, <1>4, OnlySet
<1>7. y.call \in [Workers -> CallRecords(P)]
  <2>1. y.call = [w \in Workers |-> y.call[w]]
    BY <1>4
  <2> QED
    BY <1>5, <2>1
<1>8. Shape(y, P)
  BY <1>1, <1>4, <1>6, <1>7 DEF Shape
<1>9. Once(y.bag) /\ OnePerTuple(y.leases)
  BY <1>1, <1>4, MinusOnce DEF Good
<1> HIDE DEF R, D
<1>10. Assigned(y) = Assigned(s) \cup R
  <2>1. ASSUME NEW t \in Assigned(y) PROVE t \in Assigned(s) \cup R
    <3>1. PICK w \in Workers : t = y.call[w].assigned /\ t # NoTuple
      BY <2>1 DEF Assigned
    <3>2. CASE w \in D
      BY <1>5, <3>1, <3>2 DEF R, D
    <3>3. CASE w \notin D
      BY <1>5, <3>1, <3>3 DEF Assigned
    <3> QED
      BY <3>2, <3>3
  <2>2. ASSUME NEW t \in Assigned(s) PROVE t \in Assigned(y)
    <3>1. PICK w \in Workers : t = s.call[w].assigned /\ t # NoTuple
      BY <2>2 DEF Assigned
    <3>2. w \notin D
      BY <3>1 DEF Good, Turns, IsServed, D
    <3> QED
      BY <1>5, <3>1, <3>2 DEF Assigned
  <2>3. ASSUME NEW t \in R PROVE t \in Assigned(y)
    <3>1. PICK w \in D : t = f[w]
      BY <2>3 DEF R, D
    <3>2. w \in Workers /\ t # NoTuple
      BY <1>3, <2>3, <3>1
    <3> QED
      BY <1>5, <3>1, <3>2 DEF Assigned
  <2> QED
    BY <2>1, <2>2, <2>3
<1>11. OneEach(y.call)
  <2> SUFFICES ASSUME NEW v \in Workers, NEW w \in Workers,
                      y.call[v].assigned = y.call[w].assigned, y.call[v].assigned # NoTuple
               PROVE  v = w
    BY DEF OneEach
  <2>1. ASSUME NEW u \in Workers, u \notin D, y.call[u].assigned # NoTuple
        PROVE  y.call[u].assigned = s.call[u].assigned /\ y.call[u].assigned \notin R
    <3>1. y.call[u].assigned = s.call[u].assigned /\ s.call[u].assigned \in Assigned(s)
      BY <1>5, <2>1 DEF Assigned
    <3>2. ToSet(s.bag) \cap Assigned(s) = {}
      BY DEF Good, Split
    <3> QED
      BY <1>3, <3>1, <3>2
  <2>2. \A u \in D : u \in Workers /\ y.call[u].assigned = f[u] /\ f[u] \in R
    BY <1>3, <1>5 DEF R, D
  <2>3. CASE v \in D /\ w \in D
    BY <2>2, <2>3 DEF IsServed, D
  <2>4. CASE v \notin D /\ w \notin D
    BY <2>1, <2>4 DEF Good, OneEach
  <2> QED
    BY <2>1, <2>2, <2>3, <2>4
<1>12. Split(ToSet(y.bag), Leased(y), Assigned(y), Over(F), P)
  <2>1. Leased(y) = Leased(s)
    BY <1>4 DEF Leased
  <2>2. Split(ToSet(s.bag), Leased(s), Assigned(s), Over(F), P)
    BY DEF Good
  <2> QED
    BY <1>3, <1>6, <1>10, <2>1, <2>2 DEF Split
<1>13. NewestLeased(y, G)
  BY <1>4 DEF Good, NewestLeased
<1>14. Turns(y)
  <2> SUFFICES ASSUME NEW w \in Workers
               PROVE  /\ w \in ToSet(y.waiters) => y.call[w].assigned = NoTuple
                      /\ w \in ToSet(y.waiters) \/ y.call[w].assigned # NoTuple =>
                            y.call[w].pc # "idle" /\ y.call[w].op = "take"
    BY DEF Turns
  <2>1. CASE w \in D
    <3>1. w \in ToSet(s.waiters)
      BY <2>1 DEF IsServed, D
    <3>2. y.call[w].pc = s.call[w].pc /\ y.call[w].op = s.call[w].op
      BY <1>5 DEF SameCall
    <3> QED
      BY <1>6, <2>1, <3>1, <3>2 DEF Good, Turns
  <2>2. CASE w \notin D
    BY <1>5, <1>6, <2>2 DEF Good, Turns
  <2> QED
    BY <2>1, <2>2
<1>15. Good(y, P, F, G)
  BY <1>8, <1>9, <1>11, <1>12, <1>13, <1>14 DEF Good
<1>16. Fed(y)
  <2> SUFFICES ASSUME NEW w \in ToSet(y.waiters), NEW t \in Matching(y.bag, y.call[w].pattern)
               PROVE  FALSE
    BY DEF Fed
  <2>1. w \in ToSet(s.waiters) \ D /\ w \in Workers /\ t \in ToSet(s.bag) \ R
    BY <1>2, <1>6 DEF Matching
  <2>2. y.call[w].pattern = s.call[w].pattern
    BY <1>5, <2>1 DEF SameCall
  <2>3. t \in Matching(s.bag, s.call[w].pattern)
    BY <2>1, <2>2 DEF Matching
  <2>4. PICK v \in D : f[v] = t
    BY <2>1, <2>3 DEF IsServed, D
  <2> QED
    BY <2>1, <2>4 DEF R, D
<1>17. SameCalls(s.call, y.call)
  BY <1>5 DEF SameCalls
<1> QED
  BY <1>15, <1>16, <1>17 DEF y

\* What _handoff leaves behind.
LEMMA HandoffKeeps ==
    ASSUME NEW s, NEW P \in SUBSET Tuples, NEW F, NEW G, Good(s, P, F, G), Roused(s),
           NEW x \in Handoff(s)
    PROVE  SpaceOK(x, P, F, G) /\ SameCalls(s.call, x.call)
<1>1. PICK f \in Handoffs(s) : x = IF DOMAIN f = {} THEN s ELSE NotifyAll(Assign(s, f))
  BY DEF Handoff
<1>2. IsServed(s, f)
  <2>1. Shape(s, P)
    BY DEF Good
  <2> QED
    BY <2>1, ServedIs
<1>3. CASE DOMAIN f = {}
  <2>1. x = s
    BY <1>1, <1>3
  <2>2. Fed(s)
    BY <1>2, <1>3 DEF Fed, IsServed
  <2>3. SameCalls(s.call, s.call)
    BY DEF SameCalls, SameCall
  <2> QED
    BY <2>1, <2>2, <2>3 DEF SpaceOK
<1>4. CASE DOMAIN f # {}
  <2> DEFINE y == Assign(s, f)
  <2>1. Good(y, P, F, G) /\ Fed(y) /\ SameCalls(s.call, y.call)
    BY <1>2, AssignKeeps
  <2>2. x = NotifyAll(y)
    BY <1>1, <1>4
  <2> HIDE DEF y
  <2>3. /\ y.call \in [Workers -> CallRecords(P)]
        /\ y = [bag |-> y.bag, leases |-> y.leases, waiters |-> y.waiters, call |-> y.call]
    BY <2>1 DEF Good, Shape
  <2>4. /\ Alike(y, x) /\ x.call \in [Workers -> CallRecords(P)]
        /\ \A w \in Workers : y.call[w].pc = "asleep" => x.call[w].notified
    BY <2>2, <2>3, NotifyIs
  <2>5. Good(x, P, F, G) /\ Fed(x)
    BY <2>1, <2>4, AlikeKeeps
  <2>6. Roused(x)
    <3> SUFFICES ASSUME NEW w \in Workers, x.call[w].assigned # NoTuple
                 PROVE  x.call[w].pc = "loop" \/ x.call[w].notified
      BY DEF Roused
    <3>1. x.call[w].pc # "idle" /\ x.call[w] \in CallRecords(P)
      BY <2>4, <2>5 DEF Good, Turns
    <3>2. x.call[w].pc \in {"loop", "asleep"}
      BY <3>1 DEF CallRecords
    <3>3. y.call[w].pc = x.call[w].pc
      BY <2>4 DEF Alike, SameCalls, SameCall
    <3> QED
      BY <2>4, <3>2, <3>3
  <2>7. SameCalls(s.call, x.call)
    BY <2>1, <2>4, SameCallsTwice DEF Alike
  <2> QED
    BY <2>5, <2>6, <2>7 DEF SpaceOK
<1> QED
  BY <1>3, <1>4

LEMMA NotifyKeeps ==
    ASSUME NEW s, NEW P, NEW F, NEW G, SpaceOK(s, P, F, G)
    PROVE  SpaceOK(NotifyAll(s), P, F, G) /\ SameCalls(s.call, NotifyAll(s).call)
<1>1. Good(s, P, F, G) /\ Fed(s) /\ Roused(s)
  BY DEF SpaceOK
<1>2. /\ s.call \in [Workers -> CallRecords(P)]
      /\ s = [bag |-> s.bag, leases |-> s.leases, waiters |-> s.waiters, call |-> s.call]
  BY <1>1 DEF Good, Shape
<1>3. Alike(s, NotifyAll(s)) /\ NotifyAll(s).call \in [Workers -> CallRecords(P)]
  BY <1>2, NotifyIs
<1> QED
  BY <1>1, <1>3, AlikeKeeps DEF SpaceOK, Alike

LEMMA GivenBackKeeps ==
    ASSUME NEW s, NEW P, NEW F, NEW G, Good(s, P, F, G), NEW over \in SUBSET ToSet(s.leases)
    PROVE  /\ Good(GivenBack(s, over), P, F, G)
           /\ GivenBack(s, over).call = s.call
<1> DEFINE ended == Only(s.leases, over)
           extra == [i \in DOMAIN ended |-> ended[i].token.tuple]
           y == GivenBack(s, over)
           X == {l.token.tuple : l \in over}
<1>1. /\ s.bag \in Seq(P) /\ s.leases \in Seq(LeaseRecords(P)) /\ s.waiters \in Seq(Workers)
      /\ s.call \in [Workers -> CallRecords(P)]
      /\ s = [bag |-> s.bag, leases |-> s.leases, waiters |-> s.waiters, call |-> s.call]
      /\ Once(s.bag) /\ OnePerTuple(s.leases)
  BY DEF Good, Shape
<1>2. /\ y = [bag |-> y.bag, leases |-> y.leases, waiters |-> y.waiters, call |-> y.call]
      /\ y.bag = s.bag \o extra /\ y.leases = Minus(s.leases, over)
      /\ y.waiters = s.waiters /\ y.call = s.call
  <2> HIDE DEF extra
  <2>1. y = [s EXCEPT !.bag = s.bag \o extra, !.leases = Minus(s.leases, over)]
    BY <1>1 DEF GivenBack, extra
  <2> HIDE DEF y
  <2> QED
    BY <1>1, <2>1
<1> HIDE DEF y
<1>3. ended \in Seq(LeaseRecords(P)) /\ ToSet(ended) = over /\ OnePerTuple(ended)
  <2>1. ToSet(s.leases) \cap over = over
    OBVIOUS
  <2>2. ended \in Seq(LeaseRecords(P)) /\ ToSet(ended) = ToSet(s.leases) \cap over
    BY <1>1, OnlySet
  <2>3. OnePerTuple(ended)
    BY <1>1, OnlyOnce
  <2> QED
    BY <2>1, <2>2, <2>3
<1> HIDE DEF ended
<1>4. /\ Len(ended) \in Nat /\ DOMAIN ended = 1 .. Len(ended)
      /\ ToSet(ended) = {ended[i] : i \in 1 .. Len(ended)}
      /\ \A i \in 1 .. Len(ended) : ended[i] \in LeaseRecords(P)
  BY <1>3, ElementsAre, ElementOfSeq
<1>5. \A i \in 1 .. Len(ended) : ended[i].token.tuple \in P
  BY <1>4 DEF LeaseRecords
<1>6. extra \in Seq(P)
  <2>1. extra \in [1 .. Len(ended) -> P]
    BY <1>4, <1>5
  <2> QED
    BY <1>4, <2>1, SeqDef
<1>7. ToSet(extra) = X
  <2>1. DOMAIN extra = 1 .. Len(ended) /\ \A i \in 1 .. Len(ended) : extra[i] = ended[i].token.tuple
    BY <1>4
  <2> HIDE DEF extra
  <2>2. ToSet(extra) = {extra[i] : i \in 1 .. Len(ended)}
    BY <2>1 DEF ToSet
  <2>3. \A l \in over : \E i \in 1 .. Len(ended) : l = ended[i]
    BY <1>3, <1>4
  <2>4. \A i \in 1 .. Len(ended) : ended[i] \in over
    BY <1>3, <1>4
  <2>5. ASSUME NEW t \in X PROVE t \in ToSet(extra)
    BY <2>1, <2>2, <2>3, <2>5
  <2>6. ASSUME NEW t \in ToSet(extra) PROVE t \in X
    BY <2>1, <2>2, <2>4, <2>6
  <2> QED
    BY <2>5, <2>6
<1>8. Once(extra)
  BY <1>3, <1>4 DEF Once, OnePerTuple
<1> HIDE DEF extra
<1>9. X \subseteq Leased(s)
  BY DEF Leased
<1>10. Split(ToSet(s.bag), Leased(s), Assigned(s), Over(F), P)
  BY DEF Good
<1> HIDE DEF X
<1>11. y.bag \in Seq(P) /\ ToSet(y.bag) = ToSet(s.bag) \cup X /\ Once(y.bag)
  <2>1. ToSet(s.bag) \cap ToSet(extra) = {}
    BY <1>7, <1>9, <1>10 DEF Split
  <2> QED
    BY <1>1, <1>2, <1>6, <1>7, <1>8, <2>1, JoinIs
<1>12. /\ y.leases \in Seq(LeaseRecords(P)) /\ ToSet(y.leases) = ToSet(s.leases) \ over
       /\ OnePerTuple(y.leases)
  BY <1>1, <1>2, OnlySet, MinusOnce
<1>13. Leased(y) = Leased(s) \ X
  <2>1. ASSUME NEW l \in ToSet(s.leases), NEW m \in ToSet(s.leases), l.token.tuple = m.token.tuple
        PROVE  l = m
    <3>1. PICK i \in DOMAIN s.leases, j \in DOMAIN s.leases : l = s.leases[i] /\ m = s.leases[j]
      BY <2>1 DEF ToSet
    <3> QED
      BY <1>1, <2>1, <3>1 DEF OnePerTuple
  <2>2. ASSUME NEW t \in Leased(y) PROVE t \in Leased(s) /\ t \notin X
    <3>1. PICK l \in ToSet(s.leases) \ over : t = l.token.tuple
      BY <1>12, <2>2 DEF Leased
    <3> QED
      BY <2>1, <3>1 DEF Leased, X
  <2>3. ASSUME NEW t \in Leased(s), t \notin X PROVE t \in Leased(y)
    BY <1>12, <2>3 DEF Leased, X
  <2> QED
    BY <2>2, <2>3
<1>14. Assigned(y) = Assigned(s)
  BY <1>2 DEF Assigned
<1>15. Split(ToSet(y.bag), Leased(y), Assigned(y), Over(F), P)
  BY <1>9, <1>10, <1>11, <1>13, <1>14 DEF Split
<1>16. Shape(y, P)
  BY <1>1, <1>2, <1>11, <1>12 DEF Shape
<1>17. NewestLeased(y, G)
  BY <1>12 DEF Good, NewestLeased
<1>18. Turns(y) /\ OneEach(y.call)
  BY <1>2 DEF Good, Turns
<1>19. Good(y, P, F, G)
  BY <1>11, <1>12, <1>15, <1>16, <1>17, <1>18 DEF Good
<1> QED
  BY <1>2, <1>19 DEF y

\* What is given back is handed on.
LEMMA GivenOnKeeps ==
    ASSUME NEW s, NEW P \in SUBSET Tuples, NEW F, NEW G, SpaceOK(s, P, F, G),
           NEW over \in SUBSET ToSet(s.leases), NEW x \in Handoff(GivenBack(s, over))
    PROVE  SpaceOK(NotifyAll(x), P, F, G) /\ SameCalls(s.call, NotifyAll(x).call)
<1> DEFINE y == GivenBack(s, over)
<1>1. Good(y, P, F, G) /\ y.call = s.call
  BY GivenBackKeeps DEF SpaceOK
<1>2. Roused(y)
  <2> HIDE DEF y
  <2> QED
    BY <1>1 DEF SpaceOK, Roused
<1>3. x \in Handoff(y)
  OBVIOUS
<1> HIDE DEF y
<1>4. SpaceOK(x, P, F, G) /\ SameCalls(y.call, x.call)
  BY <1>1, <1>2, <1>3, HandoffKeeps
<1>5. SpaceOK(NotifyAll(x), P, F, G) /\ SameCalls(x.call, NotifyAll(x).call)
  BY <1>4, NotifyKeeps
<1> QED
  BY <1>1, <1>4, <1>5, SameCallsTwice

LEMMA ReapKeeps ==
    ASSUME NEW s, NEW P \in SUBSET Tuples, NEW F, NEW G, SpaceOK(s, P, F, G), NEW x \in Reap(s)
    PROVE  SpaceOK(x, P, F, G) /\ SameCalls(s.call, x.call)
<1>1. CASE Lapsed(s) = {}
  <2>1. x = s
    BY <1>1 DEF Reap
  <2> QED
    BY <2>1 DEF SameCalls, SameCall
<1>2. CASE Lapsed(s) # {}
  <2>1. PICK z \in Handoff(GivenBack(s, Lapsed(s))) : x = NotifyAll(z)
    BY <1>2 DEF Reap
  <2>2. Lapsed(s) \in SUBSET ToSet(s.leases)
    BY DEF Lapsed
  <2> QED
    BY <2>1, <2>2, GivenOnKeeps
<1> QED
  BY <1>1, <1>2

\* Leases and time limits may change as long as the claims do not.
SameClaims(s, x) ==
    /\ x.bag = s.bag /\ x.waiters = s.waiters
    /\ DOMAIN x.leases = DOMAIN s.leases
    /\ \A i \in DOMAIN s.leases : x.leases[i].token = s.leases[i].token
    /\ \A w \in Workers :
          /\ x.call[w].pc = s.call[w].pc /\ x.call[w].op = s.call[w].op
          /\ x.call[w].pattern = s.call[w].pattern /\ x.call[w].assigned = s.call[w].assigned
          /\ x.call[w].notified = s.call[w].notified

LEMMA SameClaimsKeep ==
    ASSUME NEW s, NEW P, NEW F, NEW G, SpaceOK(s, P, F, G), NEW x, Shape(x, P), SameClaims(s, x)
    PROVE  SpaceOK(x, P, F, G)
<1>1. /\ Good(s, P, F, G) /\ Fed(s) /\ Roused(s) /\ Shape(s, P)
  BY DEF SpaceOK, Good
<1>2. Leased(x) = Leased(s) /\ NewestLeased(x, G)
  <2>1. /\ DOMAIN x.leases = DOMAIN s.leases
        /\ \A i \in DOMAIN s.leases : x.leases[i].token = s.leases[i].token
    BY DEF SameClaims
  <2>2. \A l \in ToSet(x.leases) : \E m \in ToSet(s.leases) : l.token = m.token
    BY <2>1 DEF ToSet
  <2>3. \A l \in ToSet(s.leases) : \E m \in ToSet(x.leases) : l.token = m.token
    BY <2>1 DEF ToSet
  <2>4. ASSUME NEW t \in Leased(x) PROVE t \in Leased(s)
    <3>1. PICK l \in ToSet(x.leases) : t = l.token.tuple
      BY <2>4 DEF Leased
    <3> QED
      BY <2>2, <3>1 DEF Leased
  <2>5. ASSUME NEW t \in Leased(s) PROVE t \in Leased(x)
    <3>1. PICK l \in ToSet(s.leases) : t = l.token.tuple
      BY <2>5 DEF Leased
    <3> QED
      BY <2>3, <3>1 DEF Leased
  <2>6. NewestLeased(x, G)
    BY <1>1, <2>2 DEF Good, NewestLeased
  <2> QED
    BY <2>4, <2>5, <2>6
<1>3. OnePerTuple(x.leases)
  BY <1>1 DEF Good, OnePerTuple, SameClaims
<1>4. Assigned(x) = Assigned(s) /\ OneEach(x.call)
  BY <1>1 DEF SameClaims, Assigned, Good, OneEach
<1>5. Turns(x)
  BY <1>1 DEF SameClaims, Good, Turns
<1>6. Once(x.bag) /\ Split(ToSet(x.bag), Leased(x), Assigned(x), Over(F), P)
  BY <1>1, <1>2, <1>4 DEF SameClaims, Good
<1>7. Good(x, P, F, G)
  BY <1>2, <1>3, <1>4, <1>5, <1>6 DEF Good
<1>8. Fed(x)
  <2>1. ToSet(s.waiters) \subseteq Workers
    <3>1. s.waiters \in Seq(Workers)
      BY <1>1 DEF Shape
    <3> QED
      BY <3>1, ElementsAre
  <2> QED
    BY <1>1, <2>1 DEF Fed, SameClaims
<1>9. Roused(x)
  BY <1>1 DEF Roused, SameClaims
<1> QED
  BY <1>7, <1>8, <1>9 DEF SpaceOK

LEMMA IdleIs ==
    ASSUME NEW P
    PROVE  Idle \in CallRecords(P) /\ Idle.pc = "idle" /\ Idle.assigned = NoTuple
<1> DEFINE b == FALSE
           p == <<>>
<1>1. Idle = [pc |-> "idle", op |-> "none", pattern |-> p, deadline |-> 0, wake |-> 0,
              assigned |-> NoTuple, notified |-> b]
  BY Zenon DEF Idle
<1>2. b \in BOOLEAN /\ p \in Patterns \cup {<<>>}
  OBVIOUS
<1> HIDE DEF b, p
<1>3. 0 \in Times
  BY TimeAssumption DEF Times
<1> QED
  BY <1>1, <1>2, <1>3 DEF CallRecords

\* One call goes on to q, and its thread joins the waiters or leaves them.
MovesOn(s, x, w, q) ==
    /\ x = [bag |-> s.bag, leases |-> s.leases, waiters |-> x.waiters,
            call |-> [s.call EXCEPT ![w] = q]]
    /\ x.waiters \in Seq(Workers) /\ ToSet(x.waiters) \subseteq ToSet(s.waiters) \cup {w}
    /\ q.assigned = s.call[w].assigned
    /\ w \in ToSet(x.waiters) =>
          /\ q.assigned = NoTuple /\ Matching(s.bag, q.pattern) = {}
          /\ q.pc # "idle" /\ q.op = "take"
    /\ q.assigned # NoTuple => q.pc = "loop" /\ q.op = "take"

LEMMA MovesOnKeeps ==
    ASSUME NEW s, NEW P, NEW F, NEW G, SpaceOK(s, P, F, G), NEW w \in Workers,
           NEW q \in CallRecords(P), NEW x, MovesOn(s, x, w, q)
    PROVE  SpaceOK(x, P, F, G)
<1>1. Good(s, P, F, G) /\ Fed(s) /\ Roused(s) /\ Shape(s, P)
  BY DEF SpaceOK, Good
<1>2. /\ x = [bag |-> x.bag, leases |-> x.leases, waiters |-> x.waiters, call |-> x.call]
      /\ x.bag = s.bag /\ x.leases = s.leases /\ x.call = [s.call EXCEPT ![w] = q]
  <2> DEFINE c == [s.call EXCEPT ![w] = q]
  <2>1. x = [bag |-> s.bag, leases |-> s.leases, waiters |-> x.waiters, call |-> c]
    BY DEF MovesOn
  <2> HIDE DEF c
  <2>2. /\ x = [bag |-> x.bag, leases |-> x.leases, waiters |-> x.waiters, call |-> x.call]
        /\ x.bag = s.bag /\ x.leases = s.leases /\ x.call = c
    BY <2>1
  <2> QED
    BY <2>2 DEF c
<1>3. /\ s.call \in [Workers -> CallRecords(P)] /\ s.bag \in Seq(P)
      /\ s.leases \in Seq(LeaseRecords(P)) /\ s.waiters \in Seq(Workers)
  BY <1>1 DEF Shape
<1>4. /\ x.call \in [Workers -> CallRecords(P)] /\ x.call[w] = q
      /\ \A v \in Workers : v # w => x.call[v] = s.call[v]
  BY <1>2, <1>3
<1>5. Shape(x, P)
  BY <1>2, <1>3, <1>4 DEF MovesOn, Shape
<1>6. \A v \in Workers : x.call[v].assigned = s.call[v].assigned
  BY <1>4 DEF MovesOn
<1>7. Leased(x) = Leased(s) /\ Assigned(x) = Assigned(s)
  BY <1>2, <1>6 DEF Leased, Assigned
<1>8. OneEach(x.call) /\ NewestLeased(x, G)
  BY <1>1, <1>2, <1>6 DEF Good, OneEach, NewestLeased
<1>9. Turns(x)
  <2> SUFFICES ASSUME NEW v \in Workers
               PROVE  /\ v \in ToSet(x.waiters) => x.call[v].assigned = NoTuple
                      /\ v \in ToSet(x.waiters) \/ x.call[v].assigned # NoTuple =>
                            x.call[v].pc # "idle" /\ x.call[v].op = "take"
    BY DEF Turns
  <2>1. CASE v = w
    <3>1. /\ w \in ToSet(x.waiters) => q.assigned = NoTuple /\ q.pc # "idle" /\ q.op = "take"
          /\ q.assigned # NoTuple => q.pc = "loop" /\ q.op = "take"
      BY DEF MovesOn
    <3> QED
      BY <1>4, <2>1, <3>1
  <2>2. CASE v # w
    <3>1. v \in ToSet(x.waiters) => v \in ToSet(s.waiters)
      BY <2>2 DEF MovesOn
    <3>2. x.call[v] = s.call[v]
      BY <1>4, <2>2
    <3> QED
      BY <1>1, <3>1, <3>2 DEF Good, Turns
  <2> QED
    BY <2>1, <2>2
<1>10. Good(x, P, F, G)
  BY <1>1, <1>2, <1>5, <1>7, <1>8, <1>9 DEF Good
<1>11. Fed(x)
  <2> SUFFICES ASSUME NEW v \in ToSet(x.waiters) PROVE Matching(x.bag, x.call[v].pattern) = {}
    BY DEF Fed
  <2>1. v \in Workers
    BY <1>5, ElementsAre DEF Shape
  <2>2. CASE v = w
    BY <1>2, <1>4, <2>2 DEF MovesOn
  <2>3. CASE v # w
    <3>1. v \in ToSet(s.waiters) /\ x.call[v] = s.call[v]
      BY <1>4, <2>1, <2>3 DEF MovesOn
    <3> QED
      BY <1>1, <1>2, <3>1 DEF Fed
  <2> QED
    BY <2>2, <2>3
<1>12. Roused(x)
  <2> SUFFICES ASSUME NEW v \in Workers, x.call[v].assigned # NoTuple
               PROVE  x.call[v].pc = "loop" \/ x.call[v].notified
    BY DEF Roused
  <2>1. CASE v = w
    BY <1>4, <2>1 DEF MovesOn
  <2>2. CASE v # w
    <3>1. x.call[v] = s.call[v]
      BY <1>4, <2>2
    <3> QED
      BY <1>1, <3>1 DEF Roused
  <2> QED
    BY <2>1, <2>2
<1> QED
  BY <1>10, <1>11, <1>12 DEF SpaceOK

\* A thread takes t: what it was assigned or, with nothing assigned, an entry of the bag.
Claimed(s, G, w, t) ==
    [bag     |-> Minus(s.bag, {t}),
     leases  |-> Append(s.leases, [token |-> [tuple |-> t, gen |-> G[t] + 1], left |-> Lease]),
     waiters |-> Minus(s.waiters, {w}),
     call    |-> [s.call EXCEPT ![w] = Idle]]

LEMMA ClaimedKeeps ==
    ASSUME NEW s, NEW P \in SUBSET Tuples, NEW F, NEW G \in [Tuples -> 0..MaxCalls],
           SpaceOK(s, P, F, G), NEW w \in Workers, NEW t \in P, G[t] + 1 <= MaxCalls,
           \/ s.call[w].assigned = t
           \/ s.call[w].assigned = NoTuple /\ t \in ToSet(s.bag)
    PROVE  SpaceOK(Claimed(s, G, w, t), P, F, [G EXCEPT ![t] = G[t] + 1])
<1> DEFINE x == Claimed(s, G, w, t)
           l == [token |-> [tuple |-> t, gen |-> G[t] + 1], left |-> Lease]
           H == [G EXCEPT ![t] = G[t] + 1]
<1>1. Good(s, P, F, G) /\ Fed(s) /\ Roused(s) /\ Shape(s, P)
  BY DEF SpaceOK, Good
<1>2. /\ x = [bag |-> x.bag, leases |-> x.leases, waiters |-> x.waiters, call |-> x.call]
      /\ x.bag = Minus(s.bag, {t}) /\ x.leases = Append(s.leases, l)
      /\ x.waiters = Minus(s.waiters, {w}) /\ x.call = [s.call EXCEPT ![w] = Idle]
  <2> DEFINE c == [s.call EXCEPT ![w] = Idle]
  <2>1. x = [bag |-> Minus(s.bag, {t}), leases |-> Append(s.leases, l),
             waiters |-> Minus(s.waiters, {w}), call |-> c]
    BY DEF Claimed
  <2> HIDE DEF c, l, x
  <2>2. /\ x = [bag |-> x.bag, leases |-> x.leases, waiters |-> x.waiters, call |-> x.call]
        /\ x.bag = Minus(s.bag, {t}) /\ x.leases = Append(s.leases, l)
        /\ x.waiters = Minus(s.waiters, {w}) /\ x.call = c
    BY <2>1
  <2> QED
    BY <2>2 DEF c
<1>3. /\ s.call \in [Workers -> CallRecords(P)] /\ s.bag \in Seq(P)
      /\ s.leases \in Seq(LeaseRecords(P)) /\ s.waiters \in Seq(Workers)
  BY <1>1 DEF Shape
<1>4. t \in Tuples /\ t # NoTuple /\ G[t] \in Nat /\ MaxCalls \in Nat /\ Lease \in Nat
  BY TupleAssumption, TimeAssumption
<1>5. l \in LeaseRecords(P) /\ l.token.tuple = t /\ l.token.gen = G[t] + 1
  BY <1>4 DEF LeaseRecords
<1>6. H[t] = G[t] + 1 /\ \A u \in Tuples : u # t => H[u] = G[u]
  BY <1>4
<1> HIDE DEF x, l, H
<1>7. /\ x.bag \in Seq(P) /\ ToSet(x.bag) = ToSet(s.bag) \ {t}
      /\ x.waiters \in Seq(Workers) /\ ToSet(x.waiters) = ToSet(s.waiters) \ {w}
      /\ x.leases \in Seq(LeaseRecords(P)) /\ ToSet(x.leases) = ToSet(s.leases) \cup {l}
      /\ OnePerTuple(s.leases) /\ (\A y \in ToSet(s.leases) : y.token.tuple # l.token.tuple)
           => OnePerTuple(x.leases)
  <2>1. /\ x.bag \in Seq(P) /\ ToSet(x.bag) = ToSet(s.bag) \ {t}
        /\ x.waiters \in Seq(Workers) /\ ToSet(x.waiters) = ToSet(s.waiters) \ {w}
    <3> DEFINE b == s.bag
               q == s.waiters
    <3>1. b \in Seq(P) /\ q \in Seq(Workers) /\ x.bag = Minus(b, {t}) /\ x.waiters = Minus(q, {w})
      BY <1>2, <1>3
    <3> HIDE DEF b, q
    <3>2. Minus(b, {t}) \in Seq(P) /\ ToSet(Minus(b, {t})) = ToSet(b) \ {t}
      BY <3>1, OnlySet, Zenon
    <3>3. Minus(q, {w}) \in Seq(Workers) /\ ToSet(Minus(q, {w})) = ToSet(q) \ {w}
      BY <3>1, OnlySet, Zenon
    <3>4. /\ x.bag \in Seq(P) /\ ToSet(x.bag) = ToSet(b) \ {t}
          /\ x.waiters \in Seq(Workers) /\ ToSet(x.waiters) = ToSet(q) \ {w}
      BY <3>1, <3>2, <3>3, Zenon
    <3> QED
      BY <3>4 DEF b, q
  <2> DEFINE A == LeaseRecords(P)
             ls == s.leases
  <2>2. ls \in Seq(A) /\ l \in A
    BY <1>3, <1>5
  <2> HIDE DEF A, ls
  <2>3. /\ Append(ls, l) \in Seq(A) /\ ToSet(Append(ls, l)) = ToSet(ls) \cup {l}
        /\ OnePerTuple(ls) /\ (\A y \in ToSet(ls) : y.token.tuple # l.token.tuple)
             => OnePerTuple(Append(ls, l))
    BY <2>2, AppendOne
  <2> QED
    BY <1>2, <2>1, <2>3 DEF A, ls
<1>8. /\ Idle \in CallRecords(P) /\ Idle.pc = "idle" /\ Idle.assigned = NoTuple
  BY IdleIs
<1>9. /\ x.call \in [Workers -> CallRecords(P)] /\ x.call[w] = Idle
      /\ \A v \in Workers : v # w => x.call[v] = s.call[v]
  BY <1>2, <1>3, <1>8
<1>10. Shape(x, P)
  BY <1>2, <1>7, <1>9 DEF Shape
<1>11. Split(ToSet(s.bag), Leased(s), Assigned(s), Over(F), P) /\ OneEach(s.call)
  BY <1>1 DEF Good
<1>12. t \notin Leased(s) /\ t \notin Over(F)
  <2>1. t \in ToSet(s.bag) \/ t \in Assigned(s)
    BY <1>4 DEF Assigned
  <2> QED
    BY <2>1, <1>11 DEF Split
<1>13. Leased(x) = Leased(s) \cup {t}
  BY <1>5, <1>7 DEF Leased
<1>14. Assigned(x) = Assigned(s) \ {t}
  <2>1. ASSUME NEW v \in Workers, v # w, s.call[v].assigned # NoTuple
        PROVE  s.call[v].assigned # t
    <3>1. CASE s.call[w].assigned = t
      BY <1>11, <2>1, <3>1 DEF OneEach
    <3>2. CASE t \in ToSet(s.bag)
      BY <1>11, <2>1, <3>2 DEF Split, Assigned
    <3> QED
      BY <3>1, <3>2
  <2>2. ASSUME NEW u \in Assigned(x) PROVE u \in Assigned(s) \ {t}
    <3>1. PICK v \in Workers : u = x.call[v].assigned /\ u # NoTuple
      BY <2>2 DEF Assigned
    <3>2. v # w /\ u = s.call[v].assigned
      BY <1>8, <1>9, <3>1
    <3> QED
      BY <2>1, <3>1, <3>2 DEF Assigned
  <2>3. ASSUME NEW u \in Assigned(s) \ {t} PROVE u \in Assigned(x)
    <3>1. PICK v \in Workers : u = s.call[v].assigned /\ u # NoTuple
      BY <2>3 DEF Assigned
    <3>2. v # w
      BY <2>3, <3>1
    <3> QED
      BY <1>9, <3>1, <3>2 DEF Assigned
  <2> QED
    BY <2>2, <2>3
<1>15. Split(ToSet(x.bag), Leased(x), Assigned(x), Over(F), P)
  BY <1>7, <1>11, <1>12, <1>13, <1>14 DEF Split
<1>16. Once(x.bag)
  BY <1>1, <1>2, <1>3, MinusOnce DEF Good
<1>17. OnePerTuple(x.leases)
  <2>1. \A m \in ToSet(s.leases) : m.token.tuple # l.token.tuple
    BY <1>5, <1>12 DEF Leased
  <2>2. OnePerTuple(s.leases)
    BY <1>1 DEF Good
  <2> QED
    BY <1>7, <2>1, <2>2
<1>18. OneEach(x.call)
  BY <1>8, <1>9, <1>11 DEF OneEach
<1>19. NewestLeased(x, H)
  <2> SUFFICES ASSUME NEW m \in ToSet(x.leases) PROVE m.token.gen = H[m.token.tuple]
    BY DEF NewestLeased
  <2>1. CASE m = l
    BY <1>5, <1>6, <2>1
  <2>2. CASE m \in ToSet(s.leases)
    <3>1. m.token.tuple \in Leased(s) /\ m.token.tuple \in Tuples
      <4>1. m \in LeaseRecords(P)
        BY <1>3, <2>2, ElementsAre
      <4> QED
        BY <2>2, <4>1 DEF LeaseRecords, Leased
    <3>2. m.token.gen = G[m.token.tuple]
      BY <1>1, <2>2 DEF Good, NewestLeased
    <3> QED
      BY <1>6, <1>12, <3>1, <3>2
  <2> QED
    BY <1>7, <2>1, <2>2
<1>20. Turns(x)
  <2> SUFFICES ASSUME NEW v \in Workers
               PROVE  /\ v \in ToSet(x.waiters) => x.call[v].assigned = NoTuple
                      /\ v \in ToSet(x.waiters) \/ x.call[v].assigned # NoTuple =>
                            x.call[v].pc # "idle" /\ x.call[v].op = "take"
    BY DEF Turns
  <2>1. CASE v = w
    BY <1>7, <1>8, <1>9, <2>1
  <2>2. CASE v # w
    <3>1. x.call[v] = s.call[v] /\ (v \in ToSet(x.waiters) => v \in ToSet(s.waiters))
      BY <1>7, <1>9, <2>2
    <3> QED
      BY <1>1, <3>1 DEF Good, Turns
  <2> QED
    BY <2>1, <2>2
<1>21. Good(x, P, F, H)
  BY <1>10, <1>15, <1>16, <1>17, <1>18, <1>19, <1>20 DEF Good
<1>22. Fed(x)
  <2> SUFFICES ASSUME NEW v \in ToSet(x.waiters) PROVE Matching(x.bag, x.call[v].pattern) = {}
    BY DEF Fed
  <2>1. v \in Workers /\ v # w /\ v \in ToSet(s.waiters)
    BY <1>3, <1>7, ElementsAre
  <2>2. x.call[v] = s.call[v] /\ Matching(s.bag, s.call[v].pattern) = {}
    BY <1>1, <1>9, <2>1 DEF Fed
  <2> QED
    BY <1>7, <2>2 DEF Matching
<1>23. Roused(x)
  BY <1>1, <1>8, <1>9 DEF Roused
<1> QED
  BY <1>21, <1>22, <1>23 DEF SpaceOK, x, H

\* The claim that finishes is no longer leased.
Acked(s, token) == [bag |-> s.bag, leases |-> Minus(s.leases, {l \in ToSet(s.leases) : l.token = token}),
                    waiters |-> s.waiters, call |-> s.call]

LEMMA AckedKeeps ==
    ASSUME NEW s, NEW P, NEW F, NEW G, SpaceOK(s, P, F, G), NEW token, NEW E,
           E = IF {l \in ToSet(s.leases) : l.token = token} = {} THEN F ELSE F \cup {token}
    PROVE  SpaceOK(Acked(s, token), P, E, G)
<1> DEFINE out == {l \in ToSet(s.leases) : l.token = token}
           x == Acked(s, token)
<1>1. Good(s, P, F, G) /\ Fed(s) /\ Roused(s) /\ Shape(s, P)
  BY DEF SpaceOK, Good
<1>2. /\ x = [bag |-> x.bag, leases |-> x.leases, waiters |-> x.waiters, call |-> x.call]
      /\ x.bag = s.bag /\ x.leases = Minus(s.leases, out)
      /\ x.waiters = s.waiters /\ x.call = s.call
  BY DEF Acked
<1>3. /\ s.call \in [Workers -> CallRecords(P)] /\ s.bag \in Seq(P)
      /\ s.leases \in Seq(LeaseRecords(P)) /\ s.waiters \in Seq(Workers)
  BY <1>1 DEF Shape
<1> HIDE DEF x
<1>4. x.leases \in Seq(LeaseRecords(P)) /\ ToSet(x.leases) = ToSet(s.leases) \ out
  BY <1>2, <1>3, OnlySet
<1>5. Shape(x, P)
  BY <1>2, <1>3, <1>4 DEF Shape
<1>6. OnePerTuple(x.leases)
  BY <1>1, <1>2, <1>3, MinusOnce DEF Good
<1>7. NewestLeased(x, G)
  BY <1>1, <1>4 DEF Good, NewestLeased
<1>8. Assigned(x) = Assigned(s) /\ Turns(x) /\ Once(x.bag) /\ OneEach(x.call)
  BY <1>1, <1>2 DEF Good, Assigned, Turns
<1>9. \A l, m \in ToSet(s.leases) : l.token.tuple = m.token.tuple => l = m
  BY <1>1 DEF Good, OnePerTuple, ToSet
<1>10. Split(ToSet(s.bag), Leased(s), Assigned(s), Over(F), P)
  BY <1>1 DEF Good
<1>11. Split(ToSet(x.bag), Leased(x), Assigned(x), Over(E), P)
  <2>1. CASE out = {}
    <3>1. Leased(x) = Leased(s) /\ E = F
      BY <1>4, <2>1 DEF Leased
    <3> QED
      BY <1>2, <1>8, <1>10, <3>1
  <2>2. CASE out # {}
    <3>1. PICK l \in ToSet(s.leases) : l.token = token
      BY <2>2
    <3>2. token.tuple \in Leased(s)
      BY <3>1 DEF Leased
    <3>3. Over(E) = Over(F) \cup {token.tuple}
      <4>1. E = F \cup {token}
        BY <2>2
      <4> QED
        BY <4>1 DEF Over
    <3>4. ASSUME NEW t \in Leased(x) PROVE t \in Leased(s) \ {token.tuple}
      <4>1. PICK m \in ToSet(s.leases) : t = m.token.tuple /\ m \notin out
        BY <1>4, <3>4 DEF Leased
      <4>2. m # l
        BY <3>1, <4>1
      <4> QED
        BY <1>9, <3>1, <4>1, <4>2 DEF Leased
    <3>5. ASSUME NEW t \in Leased(s) \ {token.tuple} PROVE t \in Leased(x)
      <4>1. PICK m \in ToSet(s.leases) : t = m.token.tuple
        BY <3>5 DEF Leased
      <4> QED
        BY <1>4, <3>5, <4>1 DEF Leased
    <3>6. Leased(x) = Leased(s) \ {token.tuple}
      BY <3>4, <3>5
    <3> HIDE DEF out
    <3> QED
      BY <1>2, <1>8, <1>10, <3>2, <3>3, <3>6 DEF Split
  <2> QED
    BY <2>1, <2>2
<1>12. Good(x, P, E, G)
  BY <1>5, <1>6, <1>7, <1>8, <1>11 DEF Good
<1>13. Fed(x) /\ Roused(x)
  BY <1>1, <1>2 DEF Fed, Roused
<1> QED
  BY <1>12, <1>13 DEF SpaceOK, x

-----------------------------------------------------------------------------
\* The threads in a call.

LEMMA InCallIs ==
    ASSUME NEW c, NEW d
    PROVE  /\ IsFiniteSet(InCall(c)) /\ Cardinality(InCall(c)) \in Nat
           /\ SameCalls(c, d) => InCall(d) = InCall(c)
<1>1. IsFiniteSet(InCall(c))
  BY ThreadAssumption, FS_Subset DEF InCall
<1>2. Cardinality(InCall(c)) \in Nat
  BY <1>1, FS_CardinalityType
<1> QED
  BY <1>1, <1>2 DEF SameCalls, SameCall, InCall

LEMMA OneEnters ==
    ASSUME NEW c, NEW d, NEW w \in Workers, c[w].pc = "idle", d[w].pc # "idle",
           \A v \in Workers : v # w => d[v].pc = c[v].pc
    PROVE  Cardinality(InCall(d)) = Cardinality(InCall(c)) + 1
<1>1. InCall(d) = InCall(c) \cup {w} /\ w \notin InCall(c)
  BY DEF InCall
<1> QED
  BY <1>1, InCallIs, FS_AddElement

\* A claim raises the generation of one tuple and ends the call.
LEMMA ClaimIsCounted ==
    ASSUME NEW G \in [Tuples -> 0..MaxCalls], NEW c, NEW n \in 0..MaxCalls, CountOK(G, c, n),
           NEW d, NEW w \in Workers, c[w].pc # "idle", d[w].pc = "idle",
           \A v \in Workers : v # w => d[v].pc = c[v].pc
    PROVE  /\ CountOK(G, d, n)
           /\ \A t \in Tuples : /\ G[t] + 1 <= MaxCalls
                                /\ CountOK([G EXCEPT ![t] = G[t] + 1], d, n)
<1>1. Cardinality(InCall(c)) = Cardinality(InCall(d)) + 1
  BY OneEnters
<1>2. Cardinality(InCall(d)) \in Nat
  BY InCallIs
<1>3. \A t \in Tuples : G[t] \in Nat /\ G[t] + Cardinality(InCall(d)) + 1 <= n
  BY <1>1, <1>2, TimeAssumption DEF CountOK
<1>4. n \in Nat /\ MaxCalls \in Nat /\ n <= MaxCalls
  BY TimeAssumption
<1>5. CountOK(G, d, n)
  BY <1>2, <1>3, <1>4 DEF CountOK
<1>6. ASSUME NEW t \in Tuples
      PROVE  G[t] + 1 <= MaxCalls /\ CountOK([G EXCEPT ![t] = G[t] + 1], d, n)
  BY <1>2, <1>3, <1>4 DEF CountOK
<1> QED
  BY <1>5, <1>6

LEMMA InstallIs ==
    ASSUME NEW s, NEW P, Shape(s, P), Install(s)
    PROVE  Space' = s /\ call' = s.call /\ leases' = s.leases
BY DEF Shape, Install, Space

\* A step after which nobody is in another call and no claim was made.
LEMMA QuietStep ==
    ASSUME IInv, posted' \subseteq Tuples, UNCHANGED <<gen, calls>>,
           held' \in [Workers -> Tokens \cup {NoToken}], stop' \in BOOLEAN,
           finished' \subseteq [tuple : posted', gen : 1..MaxCalls],
           \A k \in finished' : k.gen = gen[k.tuple],
           NEW s, SpaceOK(s, posted', finished', gen), Space' = s, InCall(s.call) = InCall(call)
    PROVE  IInv'
<1>1. call' = s.call
  BY DEF Space
<1>2. CountOK(gen', call', calls')
  BY <1>1 DEF IInv, CountOK
<1>3. SpaceOK(Space', posted', finished', gen')
  OBVIOUS
<1>4. FinishedOK'
  BY DEF FinishedOK
<1> QED
  BY <1>2, <1>3, <1>4 DEF IInv

LEMMA InitHolds == Init => IInv
<1> SUFFICES ASSUME Init PROVE IInv
  OBVIOUS
<1> DEFINE s == Space
<1>1. /\ s = [bag |-> s.bag, leases |-> s.leases, waiters |-> s.waiters, call |-> s.call]
      /\ s.bag = <<>> /\ s.leases = <<>> /\ s.waiters = <<>>
      /\ s.call = [w \in Workers |-> Idle]
  BY DEF Init, Space
<1> HIDE DEF s
<1>2. \A P : Idle \in CallRecords(P) /\ Idle.pc = "idle" /\ Idle.assigned = NoTuple
  BY IdleIs
<1> DEFINE E == <<>>
<1>3. /\ \A A : E \in Seq(A)
      /\ ToSet(E) = {} /\ DOMAIN E = {}
  <2>1. DOMAIN E = {}
    OBVIOUS
  <2>2. \A A : E \in Seq(A)
    OBVIOUS
  <2> HIDE DEF E
  <2> QED
    BY <2>1, <2>2 DEF ToSet
<1>4. s.bag = E /\ s.leases = E /\ s.waiters = E
  BY <1>1
<1> HIDE DEF E
<1>5. Shape(s, posted)
  <2>1. s.call \in [Workers -> CallRecords(posted)]
    BY <1>1, <1>2
  <2> QED
    BY <1>1, <1>3, <1>4, <2>1 DEF Shape
<1>6. posted = {} /\ finished = {}
  BY DEF Init
<1>7. Assigned(s) = {} /\ Leased(s) = {} /\ Over(finished) = {} /\ ToSet(s.bag) = {}
  BY <1>1, <1>2, <1>3, <1>4, <1>6 DEF Assigned, Leased, Over
<1>8. Split(ToSet(s.bag), Leased(s), Assigned(s), Over(finished), posted)
  BY <1>6, <1>7 DEF Split
<1>9. Once(s.bag) /\ OnePerTuple(s.leases) /\ NewestLeased(s, gen)
  BY <1>3, <1>4 DEF Once, OnePerTuple, NewestLeased
<1>10. OneEach(s.call) /\ Turns(s) /\ Roused(s) /\ Fed(s)
  BY <1>1, <1>2, <1>3, <1>4 DEF OneEach, Turns, Roused, Fed
<1>11. SpaceOK(s, posted, finished, gen)
  BY <1>5, <1>8, <1>9, <1>10 DEF SpaceOK, Good
<1>12. InCall(call) = {}
  BY <1>2 DEF InCall, Init
<1>13. CountOK(gen, call, calls)
  <2>1. Cardinality(InCall(call)) = 0
    BY <1>12, FS_EmptySet
  <2> QED
    BY <2>1 DEF CountOK, Init
<1>14. /\ posted \subseteq Tuples /\ gen \in [Tuples -> 0..MaxCalls]
       /\ stop \in BOOLEAN /\ calls \in 0..MaxCalls
  <2>1. posted \subseteq Tuples /\ gen \in [Tuples -> 0..MaxCalls] /\ calls \in 0..MaxCalls
    <3>1. 0 \in 0..MaxCalls
      BY TimeAssumption
    <3>2. gen = [t \in Tuples |-> 0] /\ calls = 0
      BY DEF Init
    <3> QED
      BY <1>6, <3>1, <3>2
  <2>2. stop \in BOOLEAN
    BY Zenon DEF Init
  <2> QED
    BY <2>1, <2>2
<1>15. held \in [Workers -> Tokens \cup {NoToken}]
  BY DEF Init
<1>16. FinishedOK
  BY <1>6 DEF FinishedOK
<1> QED
  BY <1>11, <1>13, <1>14, <1>15, <1>16 DEF IInv, s

LEMMA OutKeeps ==
    ASSUME IInv, NEW t \in Tuples, Out(t)
    PROVE  IInv'
<1> DEFINE P == posted \cup {t}
           s == [Space EXCEPT !.bag = Append(bag, t)]
<1>1. PICK x \in Handoff(s) : Install(NotifyAll(x))
  BY DEF Out, Space
<1>2. posted' = P /\ P \in SUBSET Tuples /\ t \in P /\ t \notin posted
  BY DEF IInv, Out
<1>3. /\ s = [bag |-> s.bag, leases |-> s.leases, waiters |-> s.waiters, call |-> s.call]
      /\ s.bag = Append(bag, t) /\ s.leases = leases /\ s.waiters = waiters /\ s.call = call
  BY DEF Space
<1>4. /\ Space.bag = bag /\ Space.leases = leases /\ Space.waiters = waiters /\ Space.call = call
  BY DEF Space
<1> HIDE DEF P, s
<1>5. /\ Shape(Space, posted) /\ Once(bag) /\ OnePerTuple(leases) /\ OneEach(call)
      /\ Split(ToSet(bag), Leased(Space), Assigned(Space), Over(finished), posted)
      /\ NewestLeased(Space, gen) /\ Turns(Space) /\ Roused(Space)
  BY <1>4 DEF IInv, SpaceOK, Good
<1>6. /\ bag \in Seq(P) /\ leases \in Seq(LeaseRecords(P)) /\ waiters \in Seq(Workers)
      /\ call \in [Workers -> CallRecords(P)] /\ bag \in Seq(posted)
  <2>1. posted \subseteq P
    BY DEF P
  <2>2. LeaseRecords(posted) \subseteq LeaseRecords(P) /\ CallRecords(posted) \subseteq CallRecords(P)
    BY <2>1 DEF LeaseRecords, CallRecords
  <2>3. /\ bag \in Seq(posted) /\ leases \in Seq(LeaseRecords(posted)) /\ waiters \in Seq(Workers)
        /\ call \in [Workers -> CallRecords(posted)]
    BY <1>4, <1>5 DEF Shape
  <2> QED
    BY <2>1, <2>2, <2>3
<1>7. ToSet(bag) \subseteq posted
  BY <1>6, ElementsAre
<1>8. s.bag \in Seq(P) /\ ToSet(s.bag) = ToSet(bag) \cup {t} /\ Once(s.bag)
  BY <1>2, <1>3, <1>5, <1>6, <1>7, AppendOne
<1>9. Shape(s, P)
  BY <1>3, <1>6, <1>8 DEF Shape
<1>10. Leased(s) = Leased(Space) /\ Assigned(s) = Assigned(Space)
  BY <1>3, <1>4 DEF Leased, Assigned
<1>11. Split(ToSet(s.bag), Leased(s), Assigned(s), Over(finished), P)
  BY <1>2, <1>5, <1>8, <1>10 DEF Split, P
<1>12. NewestLeased(s, gen) /\ Turns(s) /\ Roused(s)
  BY <1>3, <1>4, <1>5 DEF NewestLeased, Turns, Roused
<1>13. Good(s, P, finished, gen)
  BY <1>3, <1>5, <1>8, <1>9, <1>11, <1>12 DEF Good
<1>14. SpaceOK(x, P, finished, gen) /\ SameCalls(s.call, x.call)
  BY <1>1, <1>2, <1>12, <1>13, HandoffKeeps
<1>15. SpaceOK(NotifyAll(x), P, finished, gen) /\ SameCalls(x.call, NotifyAll(x).call)
  BY <1>14, NotifyKeeps
<1> DEFINE y == NotifyAll(x)
<1>16. SpaceOK(y, P, finished, gen) /\ SameCalls(s.call, y.call) /\ Install(y)
  BY <1>1, <1>14, <1>15, SameCallsTwice
<1> HIDE DEF y
<1>17. Space' = y
  BY <1>16, InstallIs DEF SpaceOK, Good
<1>18. InCall(y.call) = InCall(call)
  BY <1>3, <1>16, InCallIs
<1>19. /\ UNCHANGED <<gen, calls>> /\ held' \in [Workers -> Tokens \cup {NoToken}] /\ stop' \in BOOLEAN
       /\ finished' = finished /\ \A k \in finished' : k.gen = gen[k.tuple]
  BY DEF Out, IInv, FinishedOK
<1>20. finished' \subseteq [tuple : posted', gen : 1..MaxCalls]
  BY <1>2, <1>19 DEF IInv, FinishedOK, P
<1> QED
  BY <1>2, <1>16, <1>17, <1>18, <1>19, <1>20, QuietStep

-----------------------------------------------------------------------------
\* The calls.

LEMMA TimesAre ==
    Times \subseteq Nat \cup {Forever} /\ Timeouts \subseteq Times /\ 0..Lease \subseteq Times
<1>1. \A d \in Timeouts \ {Forever} : 0..d \subseteq Nat
  BY TimeAssumption
<1>2. UNION {0..d : d \in Timeouts \ {Forever}} \subseteq Nat
  BY <1>1
<1>3. 0..Lease \subseteq Nat
  BY TimeAssumption
<1> QED
  BY <1>2, <1>3, TimeAssumption DEF Times

LEMMA SoonestIs ==
    ASSUME NEW S \in SUBSET (Nat \cup {Forever}), S # {}
    PROVE  Soonest(S) \in S
<1> DEFINE N == S \ {Forever}
<1>1. CASE N = {}
  <2>1. \E n \in S : \A m \in S : m = Forever \/ (n # Forever /\ n <= m)
    BY <1>1
  <2> QED
    BY <2>1 DEF Soonest
<1>2. CASE N # {}
  <2>1. N \in SUBSET Nat
    OBVIOUS
  <2> HIDE DEF N
  <2>2. PICK n \in N : \A m \in N : n <= m
    BY <1>2, <2>1, SmallestOf
  <2>3. n \in S /\ \A m \in S : m = Forever \/ (n # Forever /\ n <= m)
    BY <2>2 DEF N
  <2> QED
    BY <2>3 DEF Soonest
<1> QED
  BY <1>1, <1>2

LEMMA WakeAtIs ==
    ASSUME NEW s, NEW P, Shape(s, P), NEW d \in Times
    PROVE  WakeAt(s, d) \in Times
<1> DEFINE S == {d} \cup {l.left : l \in ToSet(s.leases)}
<1>1. s.leases \in Seq(LeaseRecords(P))
  BY DEF Shape
<1>2. \A l \in ToSet(s.leases) : l.left \in 0..Lease
  <2>1. ToSet(s.leases) \subseteq LeaseRecords(P)
    BY <1>1, ElementsAre
  <2> QED
    BY <2>1 DEF LeaseRecords
<1>3. S \subseteq Times
  BY <1>2, TimesAre
<1>4. S # {}
  OBVIOUS
<1>5. WakeAt(s, d) = Soonest(S)
  BY DEF WakeAt
<1> HIDE DEF S
<1> QED
  BY <1>3, <1>4, <1>5, TimesAre, SoonestIs

Slept(r, n, b) == [r EXCEPT !.pc = "asleep", !.notified = b, !.wake = n]
Woken(r, n, b) == [r EXCEPT !.pc = "loop", !.notified = b, !.wake = n]
Entered(op, p, d) == [Idle EXCEPT !.pc = "loop", !.op = op, !.pattern = p, !.deadline = d]

LEMMA SleptIs ==
    ASSUME NEW P, NEW r \in CallRecords(P), NEW n \in Times, NEW b \in BOOLEAN
    PROVE  /\ Slept(r, n, b) \in CallRecords(P)
           /\ Slept(r, n, b).pc = "asleep" /\ Slept(r, n, b).op = r.op
           /\ Slept(r, n, b).pattern = r.pattern /\ Slept(r, n, b).assigned = r.assigned
<1> DEFINE q == Slept(r, n, b)
<1>1. q = [pc |-> "asleep", op |-> r.op, pattern |-> r.pattern, deadline |-> r.deadline,
           wake |-> n, assigned |-> r.assigned, notified |-> b]
  <2>1. q = [r EXCEPT !.pc = "asleep", !.notified = b, !.wake = n]
    BY DEF Slept
  <2> HIDE DEF q
  <2>2. r = [pc |-> r.pc, op |-> r.op, pattern |-> r.pattern, deadline |-> r.deadline,
             wake |-> r.wake, assigned |-> r.assigned, notified |-> r.notified]
    BY DEF CallRecords
  <2> QED
    BY <2>1, <2>2
<1> HIDE DEF q
<1>2. q \in CallRecords(P) /\ q.pc = "asleep" /\ q.op = r.op /\ q.pattern = r.pattern
      /\ q.assigned = r.assigned
  BY <1>1 DEF CallRecords
<1> QED
  BY <1>2 DEF q

LEMMA WokenIs ==
    ASSUME NEW P, NEW r \in CallRecords(P), NEW n \in Times, NEW b \in BOOLEAN
    PROVE  /\ Woken(r, n, b) \in CallRecords(P)
           /\ Woken(r, n, b).pc = "loop" /\ Woken(r, n, b).op = r.op
           /\ Woken(r, n, b).pattern = r.pattern /\ Woken(r, n, b).assigned = r.assigned
<1> DEFINE q == Woken(r, n, b)
<1>1. q = [pc |-> "loop", op |-> r.op, pattern |-> r.pattern, deadline |-> r.deadline,
           wake |-> n, assigned |-> r.assigned, notified |-> b]
  <2>1. q = [r EXCEPT !.pc = "loop", !.notified = b, !.wake = n]
    BY DEF Woken
  <2> HIDE DEF q
  <2>2. r = [pc |-> r.pc, op |-> r.op, pattern |-> r.pattern, deadline |-> r.deadline,
             wake |-> r.wake, assigned |-> r.assigned, notified |-> r.notified]
    BY DEF CallRecords
  <2> QED
    BY <2>1, <2>2
<1> HIDE DEF q
<1>2. q \in CallRecords(P) /\ q.pc = "loop" /\ q.op = r.op /\ q.pattern = r.pattern
      /\ q.assigned = r.assigned
  BY <1>1 DEF CallRecords
<1> QED
  BY <1>2 DEF q

LEMMA EnteredIs ==
    ASSUME NEW P, NEW op \in {"take", "rd"}, NEW p \in Patterns, NEW d \in Timeouts
    PROVE  /\ Entered(op, p, d) \in CallRecords(P)
           /\ Entered(op, p, d).pc = "loop" /\ Entered(op, p, d).assigned = NoTuple
<1> DEFINE q == Entered(op, p, d)
           r == Idle
<1>1. /\ r \in CallRecords(P) /\ r.assigned = NoTuple
  BY IdleIs
<1>2. q = [pc |-> "loop", op |-> op, pattern |-> p, deadline |-> d,
           wake |-> r.wake, assigned |-> NoTuple, notified |-> r.notified]
  <2>1. q = [r EXCEPT !.pc = "loop", !.op = op, !.pattern = p, !.deadline = d]
    BY DEF Entered
  <2> HIDE DEF r, q
  <2>2. r = [pc |-> r.pc, op |-> r.op, pattern |-> r.pattern, deadline |-> r.deadline,
             wake |-> r.wake, assigned |-> r.assigned, notified |-> r.notified]
    BY <1>1 DEF CallRecords
  <2> QED
    BY <1>1, <2>1, <2>2
<1> HIDE DEF r
<1>3. r.wake \in Times /\ r.notified \in BOOLEAN /\ d \in Times
  BY <1>1, TimesAre DEF CallRecords
<1> HIDE DEF q
<1>4. q \in CallRecords(P) /\ q.pc = "loop" /\ q.assigned = NoTuple
  BY <1>2, <1>3 DEF CallRecords
<1> QED
  BY <1>4 DEF q

\* A call that goes on, with nothing claimed, after the space became s.
LEMMA MoveStep ==
    ASSUME IInv, UNCHANGED <<posted, gen, held, stop, finished>>, calls' \in 0..MaxCalls,
           NEW s, SpaceOK(s, posted, finished, gen), NEW w \in Workers,
           NEW q \in CallRecords(posted), NEW x, MovesOn(s, x, w, q), Install(x),
           CountOK(gen, x.call, calls')
    PROVE  IInv'
<1>1. SpaceOK(x, posted, finished, gen)
  BY MovesOnKeeps
<1>2. Space' = x /\ call' = x.call
  BY <1>1, InstallIs DEF SpaceOK, Good
<1>3. CountOK(gen', call', calls')
  BY <1>2
<1>4. SpaceOK(Space', posted', finished', gen')
  BY <1>1, <1>2
<1>5. FinishedOK'
  BY DEF IInv, FinishedOK
<1> QED
  BY <1>3, <1>4, <1>5 DEF IInv

LEMMA EnterKeeps ==
    ASSUME IInv, NEW w \in Workers, NEW op \in {"take", "rd"}, NEW p \in Patterns,
           NEW d \in Timeouts, Enter(w, op, p, d)
    PROVE  IInv'
<1> DEFINE q == Entered(op, p, d)
           c == [call EXCEPT ![w] = q]
           x == [bag |-> bag, leases |-> leases, waiters |-> waiters, call |-> c]
           s == Space
<1>1. /\ s.bag = bag /\ s.leases = leases /\ s.waiters = waiters /\ s.call = call
      /\ SpaceOK(s, posted, finished, gen) /\ Good(s, posted, finished, gen) /\ Shape(s, posted)
  BY DEF Space, IInv, SpaceOK, Good
<1> HIDE DEF s
<1>2. q \in CallRecords(posted) /\ q.pc = "loop" /\ q.assigned = NoTuple
  BY EnteredIs
<1>3. call[w].pc = "idle" /\ call' = c
  BY DEF Enter, Entered
<1>4. w \notin ToSet(waiters) /\ call[w].assigned = NoTuple
  BY <1>1, <1>3 DEF Good, Turns
<1> HIDE DEF q
<1>5. call \in [Workers -> CallRecords(posted)] /\ waiters \in Seq(Workers)
  BY <1>1 DEF Shape
<1>6. c[w] = q /\ \A v \in Workers : v # w => c[v] = call[v]
  BY <1>5
<1> HIDE DEF c
<1>7. /\ x.bag = bag /\ x.leases = leases /\ x.waiters = waiters /\ x.call = c
  OBVIOUS
<1>8. MovesOn(s, x, w, q)
  BY <1>1, <1>2, <1>4, <1>5, <1>7 DEF MovesOn, c
<1> HIDE DEF x
<1>9. Install(x)
  BY <1>3, <1>7 DEF Enter, Install
<1>10. CountOK(gen, x.call, calls') /\ calls' \in 0..MaxCalls
  <2>1. Cardinality(InCall(c)) = Cardinality(InCall(call)) + 1
    BY <1>2, <1>3, <1>6, OneEnters
  <2>2. calls' = calls + 1 /\ calls \in 0..MaxCalls /\ calls < MaxCalls /\ MaxCalls \in Nat
    BY TimeAssumption DEF Enter, IInv
  <2>3. \A t \in Tuples : gen[t] \in Nat /\ gen[t] + Cardinality(InCall(call)) <= calls
    BY DEF IInv, CountOK
  <2>4. Cardinality(InCall(call)) \in Nat
    BY InCallIs
  <2> QED
    BY <1>7, <2>1, <2>2, <2>3, <2>4 DEF CountOK
<1>11. UNCHANGED <<posted, gen, held, stop, finished>>
  BY DEF Enter
<1> QED
  BY <1>1, <1>2, <1>8, <1>9, <1>10, <1>11, MoveStep

LEMMA AwakeKeeps ==
    ASSUME IInv, NEW w \in Workers, Awake(w)
    PROVE  IInv'
<1> DEFINE b == FALSE
           q == Woken(call[w], 0, b)
           c == [call EXCEPT ![w] = q]
           x == [bag |-> bag, leases |-> leases, waiters |-> waiters, call |-> c]
           s == Space
<1>1. /\ s.bag = bag /\ s.leases = leases /\ s.waiters = waiters /\ s.call = call
      /\ SpaceOK(s, posted, finished, gen) /\ Good(s, posted, finished, gen) /\ Shape(s, posted)
      /\ Fed(s)
  BY DEF Space, IInv, SpaceOK, Good
<1> HIDE DEF s
<1>2. call \in [Workers -> CallRecords(posted)] /\ waiters \in Seq(Workers)
  BY <1>1 DEF Shape
<1>3. call[w].pc = "asleep" /\ call' = c
  BY <1>2, Zenon DEF Awake, Woken
<1>4. b \in BOOLEAN /\ 0 \in Times
  BY TimesAre, TimeAssumption
<1> HIDE DEF b
<1>5. /\ q \in CallRecords(posted) /\ q.pc = "loop" /\ q.op = call[w].op
      /\ q.pattern = call[w].pattern /\ q.assigned = call[w].assigned
  BY <1>2, <1>4, WokenIs
<1> HIDE DEF q
<1>6. c[w] = q /\ \A v \in Workers : v # w => c[v] = call[v]
  BY <1>2
<1> HIDE DEF c
<1>7. /\ x.bag = bag /\ x.leases = leases /\ x.waiters = waiters /\ x.call = c
  OBVIOUS
<1>8. MovesOn(s, x, w, q)
  BY <1>1, <1>2, <1>5, <1>7 DEF MovesOn, c, Good, Turns, Fed
<1> HIDE DEF x
<1>9. Install(x)
  BY <1>3, <1>7 DEF Awake, Install
<1>10. CountOK(gen, x.call, calls') /\ calls' \in 0..MaxCalls
  <2>1. InCall(c) = InCall(call)
    BY <1>3, <1>5, <1>6 DEF InCall
  <2> QED
    BY <1>7, <2>1 DEF IInv, CountOK, Awake
<1>11. UNCHANGED <<posted, gen, held, stop, finished>>
  BY DEF Awake
<1> QED
  BY <1>1, <1>5, <1>8, <1>9, <1>10, <1>11, MoveStep

\* The end of a call without a claim.
LEMMA ReturnIs ==
    ASSUME NEW s, NEW P, NEW F, NEW G, SpaceOK(s, P, F, G), NEW w \in Workers,
           s.call[w].assigned = NoTuple
    PROVE  MovesOn(s, Return(s, w), w, Idle)
<1> DEFINE c == [s.call EXCEPT ![w] = Idle]
           x == [bag |-> s.bag, leases |-> s.leases, waiters |-> Minus(s.waiters, {w}), call |-> c]
<1>1. Shape(s, P)
  BY DEF SpaceOK, Good
<1>2. Return(s, w) = [s EXCEPT !.call = c, !.waiters = Minus(s.waiters, {w})]
  BY <1>1, Zenon DEF Return
<1>3. s = [bag |-> s.bag, leases |-> s.leases, waiters |-> s.waiters, call |-> s.call]
      /\ s.waiters \in Seq(Workers)
  BY <1>1 DEF Shape
<1> HIDE DEF c
<1>4. Return(s, w) = x
  BY <1>2, <1>3
<1>5. x.waiters = Minus(s.waiters, {w})
  OBVIOUS
<1>6. x.waiters \in Seq(Workers) /\ ToSet(x.waiters) = ToSet(s.waiters) \ {w}
  BY <1>3, <1>5, OnlySet
<1>7. Idle.assigned = NoTuple
  BY IdleIs
<1>8. x = [bag |-> s.bag, leases |-> s.leases, waiters |-> x.waiters, call |-> c]
  BY <1>5
<1> HIDE DEF x
<1>9. MovesOn(s, x, w, Idle)
  BY <1>6, <1>7, <1>8 DEF MovesOn, c
<1> QED
  BY <1>4, <1>9

\* A thread goes to sleep: a reader without a word, a taker among the waiters.
SleepsAs(s, w, b) == Slept(s.call[w], WakeAt(s, s.call[w].deadline), b)

LEMMA SleepIs ==
    ASSUME NEW s, NEW P, NEW F, NEW G, SpaceOK(s, P, F, G), NEW w \in Workers,
           s.call[w].assigned = NoTuple, w \notin ToSet(s.waiters),
           NEW b, b = FALSE
    PROVE  SleepsAs(s, w, b) \in CallRecords(P) /\ MovesOn(s, Sleep(s, w), w, SleepsAs(s, w, b))
<1> DEFINE q == SleepsAs(s, w, b)
           c == [s.call EXCEPT ![w] = q]
           x == [bag |-> s.bag, leases |-> s.leases, waiters |-> s.waiters, call |-> c]
<1>1. Shape(s, P)
  BY DEF SpaceOK, Good
<1>2. Sleep(s, w) = [s EXCEPT !.call = c]
  BY Zenon DEF Sleep, SleepsAs, Slept
<1>3. /\ s = [bag |-> s.bag, leases |-> s.leases, waiters |-> s.waiters, call |-> s.call]
      /\ s.waiters \in Seq(Workers) /\ s.call \in [Workers -> CallRecords(P)]
  BY <1>1 DEF Shape
<1>4. s.call[w] \in CallRecords(P) /\ s.call[w].deadline \in Times
  BY <1>3 DEF CallRecords
<1>5. WakeAt(s, s.call[w].deadline) \in Times /\ b \in BOOLEAN
  BY <1>1, <1>4, WakeAtIs
<1>6. q \in CallRecords(P) /\ q.assigned = s.call[w].assigned
  BY <1>4, <1>5, SleptIs DEF SleepsAs
<1> HIDE DEF q, c
<1>7. Sleep(s, w) = x
  BY <1>2, <1>3
<1>8. x.waiters = s.waiters
  OBVIOUS
<1>9. x = [bag |-> s.bag, leases |-> s.leases, waiters |-> x.waiters, call |-> c]
  BY <1>8
<1> HIDE DEF x
<1>10. MovesOn(s, x, w, q)
  BY <1>3, <1>6, <1>8, <1>9 DEF MovesOn, c
<1> QED
  BY <1>6, <1>7, <1>10 DEF q

LEMMA QueuedSleepIs ==
    ASSUME NEW s, NEW P, NEW F, NEW G, SpaceOK(s, P, F, G), NEW w \in Workers,
           s.call[w].assigned = NoTuple, s.call[w].op = "take",
           Matching(s.bag, s.call[w].pattern) = {}, NEW b, b = FALSE
    PROVE  /\ SleepsAs(s, w, b) \in CallRecords(P)
           /\ MovesOn(s, Sleep(Queue(s, w), w), w, SleepsAs(s, w, b))
<1> DEFINE q == SleepsAs(s, w, b)
           c == [s.call EXCEPT ![w] = q]
           ws == IF w \in ToSet(s.waiters) THEN s.waiters ELSE Append(s.waiters, w)
           y == Queue(s, w)
           x == [bag |-> s.bag, leases |-> s.leases, waiters |-> ws, call |-> c]
<1>1. Shape(s, P)
  BY DEF SpaceOK, Good
<1>2. /\ s = [bag |-> s.bag, leases |-> s.leases, waiters |-> s.waiters, call |-> s.call]
      /\ s.waiters \in Seq(Workers) /\ s.call \in [Workers -> CallRecords(P)]
  BY <1>1 DEF Shape
<1>3. y = [s EXCEPT !.waiters = ws]
  BY Zenon DEF Queue
<1>4. ws \in Seq(Workers) /\ ToSet(ws) \subseteq ToSet(s.waiters) \cup {w}
  BY <1>2, AppendOne
<1> HIDE DEF ws, y
<1>5. y = [bag |-> s.bag, leases |-> s.leases, waiters |-> ws, call |-> s.call]
  BY <1>2, <1>3
<1>6. y.bag = s.bag /\ y.leases = s.leases /\ y.waiters = ws /\ y.call = s.call
  BY <1>5
<1>7. WakeAt(y, y.call[w].deadline) = WakeAt(s, s.call[w].deadline)
  BY <1>6 DEF WakeAt
<1>8. SleepsAs(y, w, b) = q
  BY <1>6, <1>7 DEF SleepsAs
<1>9. Sleep(y, w) = [y EXCEPT !.call = [y.call EXCEPT ![w] = SleepsAs(y, w, b)]]
  BY Zenon DEF Sleep, SleepsAs, Slept
<1>10. s.call[w] \in CallRecords(P) /\ s.call[w].deadline \in Times
  BY <1>2 DEF CallRecords
<1>11. WakeAt(s, s.call[w].deadline) \in Times /\ b \in BOOLEAN
  BY <1>1, <1>10, WakeAtIs
<1>12. /\ q \in CallRecords(P) /\ q.assigned = s.call[w].assigned /\ q.pc = "asleep"
       /\ q.op = s.call[w].op /\ q.pattern = s.call[w].pattern
  BY <1>10, <1>11, SleptIs DEF SleepsAs
<1> HIDE DEF q
<1>13. Sleep(y, w) = [y EXCEPT !.call = c]
  BY <1>6, <1>8, <1>9
<1> HIDE DEF c
<1>14. Sleep(y, w) = x
  BY <1>5, <1>13
<1>15. x.waiters = ws
  OBVIOUS
<1>16. x = [bag |-> s.bag, leases |-> s.leases, waiters |-> x.waiters, call |-> c]
  BY <1>15
<1> HIDE DEF x
<1>17. MovesOn(s, x, w, q)
  BY <1>4, <1>12, <1>15, <1>16 DEF MovesOn, c
<1> QED
  BY <1>12, <1>14, <1>17 DEF q, y

IsClaimed(s, w, t) ==
    /\ Install(Claimed(s, gen, w, t)) /\ gen' = [gen EXCEPT ![t] = gen[t] + 1]
    /\ held' = [held EXCEPT ![w] = [tuple |-> t, gen |-> gen[t] + 1]]

LEMMA ClaimIs ==
    ASSUME NEW s, NEW P, Shape(s, P), NEW w \in Workers, NEW t,
           NEW y, y = [s EXCEPT !.bag = Minus(s.bag, {t})], Claim(y, w, t)
    PROVE  IsClaimed(s, w, t)
<1> DEFINE token == [tuple |-> t, gen |-> gen[t] + 1]
           z == [y EXCEPT !.leases = Append(y.leases, [token |-> token, left |-> Lease])]
<1>1. /\ Install(Return(z, w)) /\ gen' = [gen EXCEPT ![t] = gen[t] + 1]
      /\ held' = [held EXCEPT ![w] = token]
  BY Zenon DEF Claim
<1>2. s = [bag |-> s.bag, leases |-> s.leases, waiters |-> s.waiters, call |-> s.call]
  BY DEF Shape
<1>3. y = [bag |-> Minus(s.bag, {t}), leases |-> s.leases, waiters |-> s.waiters, call |-> s.call]
  BY <1>2
<1> DEFINE l == [token |-> token, left |-> Lease]
           b == Minus(s.bag, {t})
<1> HIDE DEF l, b
<1>4. z = [bag |-> b, leases |-> Append(s.leases, l), waiters |-> s.waiters, call |-> s.call]
  <2>1. y = [bag |-> b, leases |-> s.leases, waiters |-> s.waiters, call |-> s.call]
    BY <1>3 DEF b
  <2>2. y.leases = s.leases
    BY <2>1
  <2>3. z = [y EXCEPT !.leases = Append(s.leases, l)]
    BY <2>2 DEF l
  <2> DEFINE q == Append(s.leases, l)
  <2>4. z = [y EXCEPT !.leases = q]
    BY <2>3, Zenon
  <2> HIDE DEF z, q
  <2>5. z = [bag |-> b, leases |-> q, waiters |-> s.waiters, call |-> s.call]
    BY <2>1, <2>4
  <2> QED
    BY <2>5, Zenon DEF q
<1> HIDE DEF z
<1>5. Return(z, w) = [z EXCEPT !.call = [z.call EXCEPT ![w] = Idle], !.waiters = Minus(z.waiters, {w})]
  BY Zenon DEF Return
<1>6. Return(z, w) = Claimed(s, gen, w, t)
  BY <1>4, <1>5 DEF Claimed, b, l
<1> QED
  BY <1>1, <1>6 DEF IsClaimed

LEMMA TakeKeeps ==
    ASSUME IInv, NEW w \in Workers, TakePass(w)
    PROVE  IInv'
<1>1. PICK s \in Reap(Space) : TakeFrom(s, w)
  BY DEF TakePass
<1>2. /\ posted \in SUBSET Tuples /\ SpaceOK(Space, posted, finished, gen) /\ Space.call = call
  BY DEF IInv, Space
<1>3. SpaceOK(s, posted, finished, gen) /\ SameCalls(call, s.call)
  BY <1>1, <1>2, ReapKeeps
<1>4. /\ Good(s, posted, finished, gen) /\ Shape(s, posted)
      /\ s.call \in [Workers -> CallRecords(posted)] /\ s.bag \in Seq(posted)
  BY <1>3 DEF SpaceOK, Good, Shape
<1>5. call[w].pc = "loop" /\ call[w].op = "take"
  BY DEF TakePass
<1>6. s.call[w].pc = "loop" /\ s.call[w].op = "take"
  BY <1>3, <1>5 DEF SameCalls, SameCall
<1>7. UNCHANGED <<posted, stop, finished, calls>>
  BY DEF TakePass
<1>8. CountOK(gen, s.call, calls)
  BY <1>3, InCallIs DEF IInv, CountOK
<1>9. gen \in [Tuples -> 0..MaxCalls] /\ calls \in 0..MaxCalls
  BY DEF IInv
<1> DEFINE t == Chosen(s, w)
           p == s.call[w].pattern
<1>10. /\ s.call[w].assigned # NoTuple => t = s.call[w].assigned
       /\ s.call[w].assigned = NoTuple /\ Matching(s.bag, p) # {} => t \in Matching(s.bag, p)
       /\ s.call[w].assigned = NoTuple /\ Matching(s.bag, p) = {} => t = NoTuple
  <2>1. Matching(s.bag, p) \in SUBSET ToSet(s.bag)
    BY DEF Matching
  <2>2. Matching(s.bag, p) # {} => Oldest(s.bag, Matching(s.bag, p)) \in Matching(s.bag, p)
    BY <1>4, <2>1, OldestIs
  <2> QED
    BY <2>2 DEF Chosen
<1>11. /\ s.call[w].assigned \in posted \cup {NoTuple} /\ ToSet(s.bag) \subseteq posted
       /\ NoTuple \notin posted
  BY <1>2, <1>4, ElementsAre, TupleAssumption DEF CallRecords
<1>12. CASE t # NoTuple
  <2>1. Claim([s EXCEPT !.bag = Minus(s.bag, {t})], w, t)
    BY <1>1, <1>12, Zenon DEF TakeFrom
  <2> DEFINE y == [s EXCEPT !.bag = Minus(s.bag, {t})]
  <2>2. t \in posted /\ (s.call[w].assigned = t \/ (s.call[w].assigned = NoTuple /\ t \in ToSet(s.bag)))
    BY <1>10, <1>11, <1>12 DEF Matching
  <2> HIDE DEF t, y
  <2>3. /\ Install(Claimed(s, gen, w, t)) /\ gen' = [gen EXCEPT ![t] = gen[t] + 1]
        /\ held' = [held EXCEPT ![w] = [tuple |-> t, gen |-> gen[t] + 1]]
    <3>1. Shape(s, posted)
      BY <1>4
    <3>2. y = [s EXCEPT !.bag = Minus(s.bag, {t})] /\ Claim(y, w, t)
      BY <2>1 DEF y
    <3>3. IsClaimed(s, w, t)
      BY <3>1, <3>2, ClaimIs
    <3> QED
      BY <3>3 DEF IsClaimed
  <2> DEFINE x == Claimed(s, gen, w, t)
             G == [gen EXCEPT ![t] = gen[t] + 1]
  <2>4. x.call = [s.call EXCEPT ![w] = Idle]
    BY DEF Claimed
  <2>5. t \in Tuples /\ gen[t] \in Nat /\ MaxCalls \in Nat
    BY <1>2, <1>9, <2>2, TimeAssumption
  <2> HIDE DEF x, G
  <2>6. gen[t] + 1 <= MaxCalls /\ CountOK([gen EXCEPT ![t] = gen[t] + 1], x.call, calls)
    <3>1. x.call[w].pc = "idle" /\ \A v \in Workers : v # w => x.call[v].pc = s.call[v].pc
      BY <1>4, <2>4, IdleIs
    <3>2. s.call[w].pc # "idle"
      BY <1>6
    <3> DEFINE a == s.call
               d == x.call
    <3>3. /\ a[w].pc # "idle" /\ d[w].pc = "idle"
          /\ \A v \in Workers : v # w => d[v].pc = a[v].pc
      BY <3>1, <3>2
    <3>4. CountOK(gen, a, calls) /\ gen \in [Tuples -> 0..MaxCalls] /\ calls \in 0..MaxCalls
      BY <1>8, <1>9
    <3> HIDE DEF a, d
    <3>5. gen[t] + 1 <= MaxCalls /\ CountOK([gen EXCEPT ![t] = gen[t] + 1], d, calls)
      BY <2>5, <3>3, <3>4, ClaimIsCounted, Zenon
    <3> QED
      BY <3>5 DEF d
  <2>7. SpaceOK(x, posted, finished, G)
    BY <1>2, <1>3, <1>9, <2>2, <2>6, ClaimedKeeps DEF x, G
  <2>8. Space' = x /\ call' = x.call
    BY <2>3, <2>7, InstallIs DEF SpaceOK, Good, x
  <2>9. gen' = G /\ gen' \in [Tuples -> 0..MaxCalls]
    BY <1>9, <2>3, <2>5, <2>6 DEF G
  <2>10. held' \in [Workers -> Tokens \cup {NoToken}]
    BY <2>3, <2>5, <2>6 DEF Tokens, IInv
  <2>11. t \notin Over(finished)
    <3>1. t \in ToSet(s.bag) \/ t \in Assigned(s)
      BY <1>12, <2>2 DEF Assigned
    <3> QED
      BY <1>4, <3>1 DEF Good, Split
  <2>12. FinishedOK'
    <3>1. \A k \in finished : k.tuple \in Tuples /\ k.tuple # t /\ k.gen = gen[k.tuple]
      BY <1>2, <2>11 DEF Over, IInv, FinishedOK
    <3>2. \A k \in finished : gen'[k.tuple] = gen[k.tuple]
      BY <1>9, <2>3, <3>1
    <3>3. /\ finished' = finished /\ posted' = posted
          /\ finished \subseteq [tuple : posted, gen : 1..MaxCalls]
      BY <1>7 DEF IInv, FinishedOK
    <3> QED
      BY <3>1, <3>2, <3>3 DEF FinishedOK
  <2>13. CountOK(gen', call', calls')
    BY <1>7, <2>6, <2>8, <2>9 DEF G
  <2>14. SpaceOK(Space', posted', finished', gen')
    BY <1>7, <2>7, <2>8, <2>9
  <2>15. posted' \subseteq Tuples /\ stop' \in BOOLEAN /\ calls' \in 0..MaxCalls
    BY <1>7 DEF IInv
  <2> QED
    BY <2>9, <2>10, <2>12, <2>13, <2>14, <2>15 DEF IInv
<1>13. CASE t = NoTuple
  <2>1. /\ s.call[w].assigned = NoTuple /\ Matching(s.bag, p) = {}
    BY <1>10, <1>11, <1>13 DEF Matching
  <2>2. /\ Install(IF stop \/ call[w].deadline = 0 THEN Return(s, w) ELSE Sleep(Queue(s, w), w))
        /\ UNCHANGED <<gen, held>>
    BY <1>1, <1>13, Zenon DEF TakeFrom
  <2> DEFINE b == FALSE
             x == IF stop \/ call[w].deadline = 0 THEN Return(s, w) ELSE Sleep(Queue(s, w), w)
             q == IF stop \/ call[w].deadline = 0 THEN Idle ELSE SleepsAs(s, w, b)
  <2>3. b = FALSE
    OBVIOUS
  <2> HIDE DEF b, t
  <2>4. q \in CallRecords(posted) /\ MovesOn(s, x, w, q)
    <3>1. Idle \in CallRecords(posted) /\ MovesOn(s, Return(s, w), w, Idle)
      BY <1>3, <2>1, IdleIs, ReturnIs
    <3>2. /\ SleepsAs(s, w, b) \in CallRecords(posted)
          /\ MovesOn(s, Sleep(Queue(s, w), w), w, SleepsAs(s, w, b))
      BY <1>3, <1>6, <2>1, <2>3, QueuedSleepIs
    <3> QED
      BY <3>1, <3>2
  <2>5. CountOK(gen, x.call, calls)
    <3>1. x.call = [s.call EXCEPT ![w] = q]
      <4> HIDE DEF x, q
      <4> QED
        BY <2>4 DEF MovesOn
    <3>2. CASE stop \/ call[w].deadline = 0
      <4>1. x.call[w].pc = "idle" /\ \A v \in Workers : v # w => x.call[v].pc = s.call[v].pc
        <5> HIDE DEF x
        <5> QED
          BY <1>4, <3>1, <3>2, IdleIs
      <4>2. s.call[w].pc # "idle"
        BY <1>6
      <4> HIDE DEF x
      <4> QED
        BY <1>8, <1>9, <4>1, <4>2, ClaimIsCounted
    <3>3. CASE ~(stop \/ call[w].deadline = 0)
      <4>1. q = SleepsAs(s, w, b)
        BY <3>3
      <4>2. q.pc = "asleep"
        <5>1. s.call[w] \in CallRecords(posted) /\ s.call[w].deadline \in Times /\ b \in BOOLEAN
          BY <1>4, <2>3 DEF CallRecords
        <5>2. WakeAt(s, s.call[w].deadline) \in Times
          BY <1>4, <5>1, WakeAtIs
        <5> HIDE DEF q
        <5> QED
          BY <4>1, <5>1, <5>2, SleptIs DEF SleepsAs
      <4> HIDE DEF x, q
      <4>3. InCall(x.call) = InCall(s.call)
        BY <1>4, <1>6, <3>1, <4>2 DEF InCall
      <4> QED
        BY <1>8, <4>3 DEF CountOK
    <3> QED
      BY <3>2, <3>3
  <2>6. Install(x)
    BY <2>2
  <2> HIDE DEF x, q
  <2> QED
    BY <1>3, <1>7, <1>9, <2>2, <2>4, <2>5, <2>6, MoveStep
<1> QED
  BY <1>12, <1>13

\* A pass, on the space as s, in which the thread returns empty-handed or goes to sleep.
LEMMA PassKeeps ==
    ASSUME IInv, UNCHANGED <<posted, gen, held, stop, finished, calls>>,
           NEW s, SpaceOK(s, posted, finished, gen), SameCalls(call, s.call), NEW w \in Workers,
           call[w].pc = "loop", call[w].op = "rd", NEW b \in BOOLEAN,
           Install(IF b THEN Return(s, w) ELSE Sleep(s, w))
    PROVE  IInv'
<1>1. /\ Good(s, posted, finished, gen) /\ Shape(s, posted)
      /\ s.call \in [Workers -> CallRecords(posted)]
  BY DEF SpaceOK, Good, Shape
<1>2. s.call[w].pc = "loop" /\ s.call[w].op = "rd"
  BY DEF SameCalls, SameCall
<1>3. s.call[w].assigned = NoTuple /\ w \notin ToSet(s.waiters)
  BY <1>1, <1>2 DEF Good, Turns
<1>4. CountOK(gen, s.call, calls)
  BY InCallIs DEF IInv, CountOK
<1>5. gen \in [Tuples -> 0..MaxCalls] /\ calls \in 0..MaxCalls
  BY DEF IInv
<1>6. CASE b
  <2> DEFINE x == Return(s, w)
  <2>1. Idle \in CallRecords(posted) /\ MovesOn(s, x, w, Idle)
    BY <1>3, IdleIs, ReturnIs
  <2>2. Install(x)
    BY <1>6
  <2> HIDE DEF x
  <2>3. x.call = [s.call EXCEPT ![w] = Idle]
    BY <2>1 DEF MovesOn
  <2>4. x.call[w].pc = "idle" /\ \A v \in Workers : v # w => x.call[v].pc = s.call[v].pc
    BY <1>1, <2>3, IdleIs
  <2>5. s.call[w].pc # "idle"
    BY <1>2
  <2>6. CountOK(gen, x.call, calls)
    BY <1>4, <1>5, <2>4, <2>5, ClaimIsCounted
  <2> QED
    BY <1>5, <2>1, <2>2, <2>6, MoveStep
<1>7. CASE ~b
  <2> DEFINE x == Sleep(s, w)
             f == FALSE
             q == SleepsAs(s, w, f)
  <2>1. f = FALSE /\ f \in BOOLEAN
    OBVIOUS
  <2> HIDE DEF f
  <2>2. q \in CallRecords(posted) /\ MovesOn(s, x, w, q)
    BY <1>3, <2>1, SleepIs
  <2>3. Install(x)
    BY <1>7
  <2>4. q.pc = "asleep"
    <3>1. s.call[w] \in CallRecords(posted) /\ s.call[w].deadline \in Times
      BY <1>1 DEF CallRecords
    <3>2. WakeAt(s, s.call[w].deadline) \in Times
      BY <1>1, <3>1, WakeAtIs
    <3> QED
      BY <2>1, <3>1, <3>2, SleptIs DEF SleepsAs
  <2> HIDE DEF x, q
  <2>5. x.call = [s.call EXCEPT ![w] = q]
    BY <2>2 DEF MovesOn
  <2>6. InCall(x.call) = InCall(s.call)
    BY <1>1, <1>2, <2>4, <2>5 DEF InCall
  <2>7. CountOK(gen, x.call, calls)
    BY <1>4, <2>6 DEF CountOK
  <2> QED
    BY <1>5, <2>2, <2>3, <2>7, MoveStep
<1> QED
  BY <1>6, <1>7

LEMMA RdKeeps ==
    ASSUME IInv, NEW w \in Workers, RdPass(w)
    PROVE  IInv'
<1>1. PICK s \in Reap(Space) :
          Install(IF Matching(s.bag, call[w].pattern) # {} \/ call[w].deadline = 0
                  THEN Return(s, w) ELSE Sleep(s, w))
  BY DEF RdPass
<1>2. /\ posted \in SUBSET Tuples /\ SpaceOK(Space, posted, finished, gen) /\ Space.call = call
  BY DEF IInv, Space
<1>3. SpaceOK(s, posted, finished, gen) /\ SameCalls(call, s.call)
  BY <1>2, ReapKeeps
<1>4. /\ call[w].pc = "loop" /\ call[w].op = "rd"
      /\ UNCHANGED <<posted, gen, held, stop, finished, calls>>
  BY DEF RdPass
<1> DEFINE b == Matching(s.bag, call[w].pattern) # {} \/ call[w].deadline = 0
<1>5. b \in BOOLEAN /\ Install(IF b THEN Return(s, w) ELSE Sleep(s, w))
  BY <1>1
<1> HIDE DEF b
<1> QED
  BY <1>3, <1>4, <1>5, PassKeeps

\* A step that only changes the space, with the same threads in a call.
LEMMA SpaceStep ==
    ASSUME IInv, UNCHANGED <<posted, gen, held, finished, calls>>, stop' \in BOOLEAN,
           NEW s, SpaceOK(s, posted, finished, gen), Space' = s, InCall(s.call) = InCall(call)
    PROVE  IInv'
<1>1. /\ posted' \subseteq Tuples /\ held' \in [Workers -> Tokens \cup {NoToken}]
      /\ finished' \subseteq [tuple : posted', gen : 1..MaxCalls]
      /\ \A k \in finished' : k.gen = gen[k.tuple]
  BY DEF IInv, FinishedOK
<1>2. SpaceOK(s, posted', finished', gen) /\ UNCHANGED <<gen, calls>>
  OBVIOUS
<1> QED
  BY <1>1, <1>2, QuietStep

LEMMA RenewKeeps ==
    ASSUME IInv, NEW w \in Workers, Renew(w)
    PROVE  IInv'
<1>1. PICK s \in Reap(Space) :
          Install([s EXCEPT !.leases = [i \in DOMAIN s.leases |->
                IF s.leases[i].token = held[w] THEN [s.leases[i] EXCEPT !.left = Lease]
                ELSE s.leases[i]]])
  BY DEF Renew
<1>2. /\ posted \in SUBSET Tuples /\ SpaceOK(Space, posted, finished, gen) /\ Space.call = call
  BY DEF IInv, Space
<1>3. SpaceOK(s, posted, finished, gen) /\ SameCalls(call, s.call)
  BY <1>2, ReapKeeps
<1>4. Shape(s, posted)
  BY <1>3 DEF SpaceOK, Good
<1>5. /\ s = [bag |-> s.bag, leases |-> s.leases, waiters |-> s.waiters, call |-> s.call]
      /\ s.leases \in Seq(LeaseRecords(posted))
  BY <1>4 DEF Shape
<1> DEFINE ls == [i \in DOMAIN s.leases |->
                      IF s.leases[i].token = held[w] THEN [s.leases[i] EXCEPT !.left = Lease]
                      ELSE s.leases[i]]
           x == [s EXCEPT !.leases = ls]
<1>6. /\ ls \in Seq(LeaseRecords(posted)) /\ DOMAIN ls = DOMAIN s.leases
      /\ \A i \in DOMAIN s.leases : ls[i].token = s.leases[i].token
  <2>1. Len(s.leases) \in Nat /\ DOMAIN s.leases = 1 .. Len(s.leases)
    BY <1>5, ElementsAre
  <2>2. ASSUME NEW i \in 1 .. Len(s.leases)
        PROVE  ls[i] \in LeaseRecords(posted) /\ ls[i].token = s.leases[i].token
    <3>1. s.leases[i] \in LeaseRecords(posted) /\ Lease \in 0..Lease
      BY <1>5, <2>2, ElementOfSeq, TimeAssumption
    <3> DEFINE l == s.leases[i]
               m == [l EXCEPT !.left = Lease]
    <3>2. m \in LeaseRecords(posted) /\ m.token = l.token
      <4> HIDE DEF l
      <4> QED
        BY <3>1 DEF LeaseRecords, l
    <3>3. ls[i] = IF l.token = held[w] THEN m ELSE l
      BY <2>1
    <3> HIDE DEF ls, m
    <3> QED
      BY <3>1, <3>2, <3>3
  <2>3. ls = [i \in 1 .. Len(s.leases) |-> ls[i]]
    BY <2>1
  <2> HIDE DEF ls
  <2>4. ls \in [1 .. Len(s.leases) -> LeaseRecords(posted)]
    BY <2>2, <2>3
  <2> QED
    BY <2>1, <2>2, <2>4, SeqDef
<1>7. Install(x)
  BY <1>1
<1> HIDE DEF ls
<1>8. /\ x = [bag |-> x.bag, leases |-> x.leases, waiters |-> x.waiters, call |-> x.call]
      /\ x.bag = s.bag /\ x.leases = ls /\ x.waiters = s.waiters /\ x.call = s.call
  BY <1>5
<1> HIDE DEF x
<1>9. Shape(x, posted)
  BY <1>4, <1>6, <1>8 DEF Shape
<1>10. SameClaims(s, x)
  BY <1>6, <1>8 DEF SameClaims
<1>11. SpaceOK(x, posted, finished, gen)
  BY <1>3, <1>9, <1>10, SameClaimsKeep
<1>12. Space' = x /\ InCall(x.call) = InCall(call)
  BY <1>3, <1>7, <1>8, <1>9, InstallIs, InCallIs
<1>13. UNCHANGED <<posted, gen, held, finished, calls>> /\ stop' \in BOOLEAN
  BY DEF Renew, IInv
<1> QED
  BY <1>11, <1>12, <1>13, SpaceStep

LEMMA ExpireKeeps ==
    ASSUME IInv, NEW w \in Workers, Expire(w)
    PROVE  IInv'
<1>1. PICK s \in Handoff(GivenBack(Space, LeaseOf(held[w]))) : Install(NotifyAll(s))
  BY DEF Expire
<1>2. /\ posted \in SUBSET Tuples /\ SpaceOK(Space, posted, finished, gen) /\ Space.call = call
      /\ LeaseOf(held[w]) \in SUBSET ToSet(Space.leases)
  BY DEF IInv, Space, LeaseOf
<1> DEFINE x == NotifyAll(s)
<1>3. SpaceOK(x, posted, finished, gen) /\ SameCalls(call, x.call)
  BY <1>1, <1>2, GivenOnKeeps
<1>4. Install(x)
  BY <1>1
<1> HIDE DEF x
<1>5. Space' = x /\ InCall(x.call) = InCall(call)
  BY <1>3, <1>4, InstallIs, InCallIs DEF SpaceOK, Good
<1>6. UNCHANGED <<posted, gen, held, finished, calls>> /\ stop' \in BOOLEAN
  BY DEF Expire, IInv
<1> QED
  BY <1>3, <1>5, <1>6, SpaceStep

LEMMA IsCurrentKeeps ==
    ASSUME IInv, IsCurrent
    PROVE  IInv'
<1>1. PICK x \in Reap(Space) : Install(x)
  BY DEF IsCurrent
<1>2. /\ posted \in SUBSET Tuples /\ SpaceOK(Space, posted, finished, gen) /\ Space.call = call
  BY DEF IInv, Space
<1>3. SpaceOK(x, posted, finished, gen) /\ SameCalls(call, x.call)
  BY <1>2, ReapKeeps
<1>4. Space' = x /\ InCall(x.call) = InCall(call)
  BY <1>1, <1>3, InstallIs, InCallIs DEF SpaceOK, Good
<1>5. UNCHANGED <<posted, gen, held, finished, calls>> /\ stop' \in BOOLEAN
  BY DEF IsCurrent, IInv
<1> QED
  BY <1>3, <1>4, <1>5, SpaceStep

LEMMA WakeKeeps ==
    ASSUME IInv, Wake
    PROVE  IInv'
<1> DEFINE x == NotifyAll(Space)
<1>1. SpaceOK(Space, posted, finished, gen) /\ Space.call = call
  BY DEF IInv, Space
<1>2. SpaceOK(x, posted, finished, gen) /\ SameCalls(call, x.call)
  BY <1>1, NotifyKeeps
<1>3. Install(x)
  BY DEF Wake
<1> HIDE DEF x
<1>4. Space' = x /\ InCall(x.call) = InCall(call)
  BY <1>2, <1>3, InstallIs, InCallIs DEF SpaceOK, Good
<1>5. UNCHANGED <<posted, gen, held, finished, calls>> /\ stop' \in BOOLEAN
  BY DEF Wake, IInv
<1> QED
  BY <1>2, <1>4, <1>5, SpaceStep

LEMMA AckStep ==
    ASSUME IInv, NEW token, AckLocked(token), UNCHANGED <<posted, bag, gen, waiters, call, stop, calls>>,
           held' \in [Workers -> Tokens \cup {NoToken}]
    PROVE  IInv'
<1> DEFINE out == LeaseOf(token)
           x == Acked(Space, token)
           E == finished'
<1>1. /\ SpaceOK(Space, posted, finished, gen) /\ posted \subseteq Tuples
      /\ finished \subseteq [tuple : posted, gen : 1..MaxCalls]
      /\ \A k \in finished : k.gen = gen[k.tuple]
  BY DEF IInv, FinishedOK
<1>2. /\ Space.bag = bag /\ Space.leases = leases /\ Space.waiters = waiters /\ Space.call = call
  BY DEF Space
<1>3. out = {l \in ToSet(Space.leases) : l.token = token}
  BY <1>2 DEF LeaseOf
<1>4. E = IF out = {} THEN finished ELSE finished \cup {token}
  BY DEF AckLocked
<1>5. SpaceOK(x, posted, E, gen)
  BY <1>1, <1>3, <1>4, AckedKeeps
<1>6. x = [bag |-> bag, leases |-> Minus(leases, out), waiters |-> waiters, call |-> call]
  BY <1>2, <1>3 DEF Acked
<1>7. Space' = x /\ x.call = call
  BY <1>6 DEF Space, AckLocked
<1>8. \A k \in E : k \in [tuple : posted, gen : 1..MaxCalls] /\ k.gen = gen[k.tuple]
  <2>1. CASE out = {}
    BY <1>1, <1>4, <2>1
  <2>2. CASE out # {}
    <3>1. PICK l \in ToSet(leases) : l.token = token
      BY <1>2, <1>3, <2>2
    <3>2. leases \in Seq(LeaseRecords(posted)) /\ NewestLeased(Space, gen)
      BY <1>1, <1>2 DEF SpaceOK, Good, Shape
    <3>3. l \in LeaseRecords(posted)
      BY <3>1, <3>2, ElementsAre
    <3>4. token \in [tuple : posted, gen : 1..MaxCalls]
      BY <3>1, <3>3 DEF LeaseRecords
    <3>5. token.gen = gen[token.tuple]
      BY <1>2, <3>1, <3>2 DEF NewestLeased
    <3> QED
      BY <1>1, <1>4, <2>2, <3>4, <3>5
  <2> QED
    BY <2>1, <2>2
<1> HIDE DEF x, out
<1>9. /\ finished' \subseteq [tuple : posted', gen : 1..MaxCalls]
      /\ \A k \in finished' : k.gen = gen[k.tuple]
  BY <1>8
<1>10. InCall(x.call) = InCall(call) /\ SpaceOK(x, posted', finished', gen)
  BY <1>5, <1>7
<1>11. posted' \subseteq Tuples /\ stop' \in BOOLEAN /\ UNCHANGED <<gen, calls>>
  BY DEF IInv
<1> QED
  BY <1>7, <1>9, <1>10, <1>11, QuietStep

LEMMA AckKeeps ==
    ASSUME IInv, NEW w \in Workers, Ack(w)
    PROVE  IInv'
<1>1. held' \in [Workers -> Tokens \cup {NoToken}]
  BY DEF Ack, IInv
<1> QED
  BY <1>1, AckStep DEF Ack

LEMMA DoneKeeps ==
    ASSUME IInv, NEW t \in Tuples, Done(t)
    PROVE  IInv'
<1>1. PICK l \in ToSet(leases) : AckLocked(l.token)
  BY DEF Done
<1>2. held' \in [Workers -> Tokens \cup {NoToken}]
  BY DEF Done, IInv
<1> QED
  BY <1>1, <1>2, AckStep DEF Done

LEMMA StopKeeps ==
    ASSUME IInv, Stop
    PROVE  IInv'
<1>1. Space' = Space /\ Space.call = call
  BY DEF Stop, Space
<1>2. SpaceOK(Space, posted, finished, gen)
  BY DEF IInv
<1>3. UNCHANGED <<posted, gen, held, finished, calls>>
  BY DEF Stop
<1>4. stop' \in BOOLEAN
  BY Zenon DEF Stop
<1> QED
  BY <1>1, <1>2, <1>3, <1>4, SpaceStep

LEMMA LaterIs ==
    /\ \A n \in 0..Lease : Later(n) \in 0..Lease
    /\ \A n \in Times : Later(n) \in Times
<1>1. ASSUME NEW d \in Nat, NEW n \in 0..d PROVE Later(n) \in 0..d
  BY TimeAssumption DEF Later
<1>2. \A n \in 0..Lease : Later(n) \in 0..Lease
  BY <1>1, TimeAssumption
<1>3. ASSUME NEW n \in Times PROVE Later(n) \in Times
  <2>1. CASE n = Forever
    BY <1>3, <2>1 DEF Later
  <2>2. CASE n \in 0..Lease
    BY <1>2, <2>2 DEF Times
  <2>3. ASSUME NEW d \in Timeouts \ {Forever}, n \in 0..d PROVE Later(n) \in Times
    <3>1. d \in Nat
      BY TimeAssumption
    <3> QED
      BY <1>1, <2>3, <3>1 DEF Times
  <2>4. CASE n \in Timeouts /\ n # Forever
    <3>1. n \in Nat
      BY <2>4, TimeAssumption
    <3>2. n \in 0..n
      BY <3>1
    <3> QED
      BY <2>3, <2>4, <3>2
  <2> QED
    BY <1>3, <2>1, <2>2, <2>3, <2>4 DEF Times
<1> QED
  BY <1>2, <1>3

LEMMA TickKeeps ==
    ASSUME IInv, Tick
    PROVE  IInv'
<1> DEFINE ls == [i \in DOMAIN leases |-> [leases[i] EXCEPT !.left = Later(leases[i].left)]]
           c == [w \in Workers |-> [call[w] EXCEPT !.deadline = Later(call[w].deadline),
                                                   !.wake = Later(call[w].wake)]]
           x == [bag |-> bag, leases |-> ls, waiters |-> waiters, call |-> c]
<1>1. SpaceOK(Space, posted, finished, gen) /\ Shape(Space, posted)
  BY DEF IInv, SpaceOK, Good
<1>2. /\ Space.bag = bag /\ Space.leases = leases /\ Space.waiters = waiters /\ Space.call = call
  BY DEF Space
<1>3. /\ bag \in Seq(posted) /\ leases \in Seq(LeaseRecords(posted)) /\ waiters \in Seq(Workers)
      /\ call \in [Workers -> CallRecords(posted)]
  BY <1>1, <1>2 DEF Shape
<1>4. leases' = ls /\ call' = c /\ UNCHANGED <<bag, waiters>>
  BY DEF Tick
<1>5. /\ ls \in Seq(LeaseRecords(posted)) /\ DOMAIN ls = DOMAIN leases
      /\ \A i \in DOMAIN leases : ls[i].token = leases[i].token
  <2>1. Len(leases) \in Nat /\ DOMAIN leases = 1 .. Len(leases)
    BY <1>3, ElementsAre
  <2>2. ASSUME NEW i \in 1 .. Len(leases)
        PROVE  ls[i] \in LeaseRecords(posted) /\ ls[i].token = leases[i].token
    <3>1. leases[i] \in LeaseRecords(posted)
      BY <1>3, <2>2, ElementOfSeq
    <3> DEFINE l == leases[i]
               n == Later(l.left)
               m == [l EXCEPT !.left = n]
    <3>2. n \in 0..Lease
      BY <3>1, LaterIs DEF LeaseRecords
    <3>3. ls[i] = m
      BY <2>1
    <3>4. m \in LeaseRecords(posted) /\ m.token = l.token
      <4> HIDE DEF l, n
      <4> QED
        BY <3>1, <3>2 DEF LeaseRecords, l
    <3> HIDE DEF ls, m
    <3> QED
      BY <3>3, <3>4
  <2>3. ls = [i \in 1 .. Len(leases) |-> ls[i]]
    BY <2>1
  <2> HIDE DEF ls
  <2>4. ls \in [1 .. Len(leases) -> LeaseRecords(posted)]
    BY <2>2, <2>3
  <2> QED
    BY <2>1, <2>2, <2>4, SeqDef
<1>6. ASSUME NEW w \in Workers
      PROVE  /\ c[w] \in CallRecords(posted) /\ c[w].pc = call[w].pc /\ c[w].op = call[w].op
             /\ c[w].pattern = call[w].pattern /\ c[w].assigned = call[w].assigned
             /\ c[w].notified = call[w].notified
  <2> DEFINE r == call[w]
             d == Later(r.deadline)
             k == Later(r.wake)
             q == [r EXCEPT !.deadline = d, !.wake = k]
  <2>1. r \in CallRecords(posted) /\ c[w] = q
    BY <1>3
  <2>2. d \in Times /\ k \in Times
    BY <2>1, LaterIs DEF CallRecords
  <2>3. r = [pc |-> r.pc, op |-> r.op, pattern |-> r.pattern, deadline |-> r.deadline,
             wake |-> r.wake, assigned |-> r.assigned, notified |-> r.notified]
    <3> HIDE DEF r
    <3> QED
      BY <2>1 DEF CallRecords
  <2> HIDE DEF r, d, k
  <2>4. q = [pc |-> r.pc, op |-> r.op, pattern |-> r.pattern, deadline |-> d,
             wake |-> k, assigned |-> r.assigned, notified |-> r.notified]
    <3>1. q = [r EXCEPT !.deadline = d, !.wake = k]
      OBVIOUS
    <3> HIDE DEF q
    <3> QED
      BY <2>3, <3>1
  <2> HIDE DEF q, c
  <2>5. /\ q \in CallRecords(posted) /\ q.pc = r.pc /\ q.op = r.op /\ q.pattern = r.pattern
        /\ q.assigned = r.assigned /\ q.notified = r.notified
    BY <2>1, <2>2, <2>4 DEF CallRecords
  <2> QED
    BY <2>1, <2>5 DEF r
<1>7. c \in [Workers -> CallRecords(posted)]
  <2>1. c = [w \in Workers |-> c[w]]
    OBVIOUS
  <2> HIDE DEF c
  <2> QED
    BY <1>6, <2>1
<1> HIDE DEF ls, c
<1>8. /\ x = [bag |-> x.bag, leases |-> x.leases, waiters |-> x.waiters, call |-> x.call]
      /\ x.bag = bag /\ x.leases = ls /\ x.waiters = waiters /\ x.call = c
  OBVIOUS
<1>9. Space' = x
  BY <1>4 DEF Space
<1> HIDE DEF x
<1>10. Shape(x, posted)
  BY <1>3, <1>5, <1>7, <1>8 DEF Shape
<1>11. SameClaims(Space, x)
  BY <1>2, <1>5, <1>6, <1>8 DEF SameClaims
<1>12. SpaceOK(x, posted, finished, gen)
  BY <1>1, <1>10, <1>11, SameClaimsKeep
<1>13. InCall(x.call) = InCall(call)
  BY <1>6, <1>8 DEF InCall
<1>14. UNCHANGED <<posted, gen, held, finished, calls>> /\ stop' \in BOOLEAN
  BY DEF Tick, IInv
<1> QED
  BY <1>9, <1>12, <1>13, <1>14, SpaceStep

LEMMA StepKeeps ==
    ASSUME IInv, [Next]_vars
    PROVE  IInv'
<1>1. CASE UNCHANGED vars
  BY <1>1 DEF vars, IInv, FinishedOK, Space
<1>2. ASSUME NEW t \in Tuples, Out(t) \/ Done(t) PROVE IInv'
  BY <1>2, OutKeeps, DoneKeeps
<1>3. ASSUME NEW w \in Workers, NEW op \in {"take", "rd"}, NEW p \in Patterns, NEW d \in Timeouts,
             Enter(w, op, p, d)
      PROVE  IInv'
  BY <1>3, EnterKeeps
<1>4. ASSUME NEW w \in Workers,
             TakePass(w) \/ RdPass(w) \/ Awake(w) \/ Ack(w) \/ Renew(w) \/ Expire(w)
      PROVE  IInv'
  BY <1>4, TakeKeeps, RdKeeps, AwakeKeeps, AckKeeps, RenewKeeps, ExpireKeeps
<1>5. ASSUME IsCurrent \/ Stop \/ Wake \/ Tick PROVE IInv'
  BY <1>5, IsCurrentKeeps, StopKeeps, WakeKeeps, TickKeeps
<1> QED
  BY <1>1, <1>2, <1>3, <1>4, <1>5 DEF Next

\* The invariant holds in every state of the space (the sections of space.py under the lock).
THEOREM SpaceInvariant == Spec => []IInv
<1>1. Init => IInv
  BY InitHolds
<1>2. IInv /\ [Next]_vars => IInv'
  BY StepKeeps
<1> QED
  BY <1>1, <1>2, PTL DEF Spec

-----------------------------------------------------------------------------
\* What the invariant says of the properties.

\* A set that holds x and nothing else.
LEMMA OneOf ==
    ASSUME NEW S, NEW x \in S, \A y \in S : y = x
    PROVE  Cardinality(S) = 1
<1>1. S = {x}
  OBVIOUS
<1> QED
  BY <1>1, FS_Singleton

LEMMA NoneOf ==
    ASSUME NEW S, \A y \in S : FALSE
    PROVE  Cardinality(S) = 0
<1>1. S = {}
  OBVIOUS
<1> QED
  BY <1>1, FS_EmptySet

LEMMA TypesHold == IInv => TypeOK
<1> SUFFICES ASSUME IInv PROVE TypeOK
  OBVIOUS
<1>1. /\ posted \subseteq Tuples /\ gen \in [Tuples -> 0..MaxCalls]
      /\ held \in [Workers -> Tokens \cup {NoToken}] /\ stop \in BOOLEAN /\ calls \in 0..MaxCalls
      /\ Shape(Space, posted)
  BY DEF IInv, SpaceOK, Good
<1>2. /\ bag \in Seq(posted) /\ leases \in Seq(LeaseRecords(posted)) /\ waiters \in Seq(Workers)
      /\ call \in [Workers -> CallRecords(posted)]
  BY <1>1 DEF Shape, Space
<1>3. leases \in Seq([token : Tokens, left : 0..Lease])
  <2>1. LeaseRecords(posted) \subseteq [token : Tokens, left : 0..Lease]
    BY <1>1 DEF LeaseRecords, Tokens
  <2> DEFINE A == LeaseRecords(posted)
             B == [token : Tokens, left : 0..Lease]
  <2> HIDE DEF A, B
  <2>2. leases \in Seq(A) /\ A \subseteq B
    BY <1>2, <2>1 DEF A, B
  <2>3. leases \in Seq(B)
    BY <2>2
  <2> QED
    BY <2>3 DEF B
<1>4. finished \subseteq Tokens
  BY <1>1 DEF IInv, FinishedOK, Tokens
<1>5. call \in [Workers -> [pc : {"idle", "loop", "asleep"}, op : {"none", "take", "rd"},
                            pattern : Patterns \cup {<<>>}, deadline : Times, wake : Times,
                            assigned : posted \cup {NoTuple}, notified : BOOLEAN]]
  BY <1>2 DEF CallRecords
<1> QED
  BY <1>1, <1>2, <1>3, <1>4, <1>5 DEF TypeOK

LEMMA OnePlace ==
    ASSUME IInv, NEW t \in posted
    PROVE  Places(t) = 1
<1> DEFINE inBag    == {i \in DOMAIN bag : bag[i] = t}
           leased   == {i \in DOMAIN leases : leases[i].token.tuple = t}
           assigned == {w \in Workers : call[w].assigned = t}
           over     == {k \in finished : k.tuple = t}
<1>1. Good(Space, posted, finished, gen) /\ posted \subseteq Tuples
  BY DEF IInv, SpaceOK
<1>2. Split(ToSet(bag), Leased(Space), Assigned(Space), Over(finished), posted)
  BY <1>1 DEF Good, Space
<1>3. Once(bag) /\ OnePerTuple(leases) /\ OneEach(call) /\ t # NoTuple
  BY <1>1, TupleAssumption DEF Good, Space
<1>4. \A k, m \in over : k = m
  <2>1. \A k \in over : k \in [tuple : posted, gen : 1..MaxCalls] /\ k.gen = gen[t] /\ k.tuple = t
    BY DEF IInv, FinishedOK
  <2>2. \A k \in over : k = [tuple |-> t, gen |-> gen[t]]
    BY <2>1
  <2> QED
    BY <2>2
<1>5. /\ t \in ToSet(bag) => Cardinality(inBag) = 1
      /\ t \notin ToSet(bag) => Cardinality(inBag) = 0
  <2>1. t \in ToSet(bag) <=> \E i \in DOMAIN bag : bag[i] = t
    BY DEF ToSet
  <2>2. \A i, j \in inBag : i = j
    BY <1>3 DEF Once
  <2>3. t \in ToSet(bag) => \E i : i \in inBag
    BY <2>1
  <2>4. t \notin ToSet(bag) => \A i \in inBag : FALSE
    BY <2>1
  <2> HIDE DEF inBag
  <2> QED
    BY <2>2, <2>3, <2>4, OneOf, NoneOf
<1>6. /\ t \in Leased(Space) => Cardinality(leased) = 1
      /\ t \notin Leased(Space) => Cardinality(leased) = 0
  <2>1. t \in Leased(Space) <=> \E i \in DOMAIN leases : leases[i].token.tuple = t
    BY DEF ToSet, Leased, Space
  <2>2. \A i, j \in leased : i = j
    BY <1>3 DEF OnePerTuple
  <2>3. t \in Leased(Space) => \E i : i \in leased
    BY <2>1
  <2>4. t \notin Leased(Space) => \A i \in leased : FALSE
    BY <2>1
  <2> HIDE DEF leased
  <2> QED
    BY <2>2, <2>3, <2>4, OneOf, NoneOf
<1>7. /\ t \in Assigned(Space) => Cardinality(assigned) = 1
      /\ t \notin Assigned(Space) => Cardinality(assigned) = 0
  <2>1. t \in Assigned(Space) <=> \E w \in Workers : call[w].assigned = t
    BY <1>3 DEF Assigned, Space
  <2>2. \A v, w \in assigned : v = w
    BY <1>3 DEF OneEach
  <2>3. t \in Assigned(Space) => \E w : w \in assigned
    BY <2>1
  <2>4. t \notin Assigned(Space) => \A w \in assigned : FALSE
    BY <2>1
  <2> HIDE DEF assigned
  <2> QED
    BY <2>2, <2>3, <2>4, OneOf, NoneOf
<1>8. /\ t \in Over(finished) => Cardinality(over) = 1
      /\ t \notin Over(finished) => Cardinality(over) = 0
  <2>1. t \in Over(finished) <=> \E k \in finished : k.tuple = t
    BY DEF Over
  <2>2. t \in Over(finished) => \E k : k \in over
    BY <2>1
  <2>3. t \notin Over(finished) => \A k \in over : FALSE
    BY <2>1
  <2> HIDE DEF over
  <2> QED
    BY <1>4, <2>2, <2>3, OneOf, NoneOf
<1>9. Places(t) = Cardinality(inBag) + Cardinality(leased) + Cardinality(assigned) + Cardinality(over)
  BY DEF Places
<1> HIDE DEF inBag, leased, assigned, over
<1>10. /\ t \in ToSet(bag) \/ t \in Leased(Space) \/ t \in Assigned(Space) \/ t \in Over(finished)
       /\ ~(t \in ToSet(bag) /\ t \in Leased(Space)) /\ ~(t \in ToSet(bag) /\ t \in Assigned(Space))
       /\ ~(t \in ToSet(bag) /\ t \in Over(finished)) /\ ~(t \in Leased(Space) /\ t \in Assigned(Space))
       /\ ~(t \in Leased(Space) /\ t \in Over(finished))
       /\ ~(t \in Assigned(Space) /\ t \in Over(finished))
  BY <1>2 DEF Split
<1> QED
  BY <1>5, <1>6, <1>7, <1>8, <1>9, <1>10

\* Every tuple is at one place and is finished by its newest claim (out, _handoff, _claim,
\* _reap and _ack_locked move a tuple and never copy or lose it).
THEOREM TuplesKept == Spec => []TuplesAreKept
<1>1. IInv => TuplesAreKept
  <2>1. IInv => TypeOK
    BY TypesHold
  <2>2. IInv => InOnePlace
    BY OnePlace DEF InOnePlace
  <2>3. IInv => NewestFinishes
    BY DEF IInv, FinishedOK, NewestFinishes
  <2> QED
    BY <2>1, <2>2, <2>3 DEF TuplesAreKept
<1> QED
  BY <1>1, SpaceInvariant, PTL

\* No waiter is left beside a tuple it asks for, and none sleeps on one it was assigned
\* (_handoff after everything that adds to the bag, and the notify_all behind it).
THEOREM WaitersServed == Spec => []WaitersAreServed
<1>1. IInv => WaitersAreServed
  <2> SUFFICES ASSUME IInv PROVE WaitersAreServed
    OBVIOUS
  <2>1. Good(Space, posted, finished, gen) /\ Fed(Space) /\ Roused(Space)
    BY DEF IInv, SpaceOK
  <2>2. /\ Space.bag = bag /\ Space.leases = leases /\ Space.waiters = waiters /\ Space.call = call
    BY DEF Space
  <2>3. NobodyStarves
    BY <2>1, <2>2 DEF Fed, NobodyStarves
  <2>4. AssignedWillRun
    BY <2>1, <2>2 DEF Good, Turns, Roused, AssignedWillRun
  <2> QED
    BY <2>3, <2>4 DEF WaitersAreServed
<1> QED
  BY <1>1, SpaceInvariant, PTL

-----------------------------------------------------------------------------
\* A claim out of the bag takes the oldest entry.

\* What is kept of a sequence begins with the entries before the first that is not.
LEMMA OnlyPrefix ==
    ASSUME NEW A, NEW s \in Seq(A), Once(s), NEW S, NEW m \in Nat, m <= Len(s),
           \A i \in 1 .. m : s[i] \in S
    PROVE  \A i \in 1 .. m : i <= Len(Only(s, S)) /\ Only(s, S)[i] = s[i]
<1> DEFINE t == Only(s, S)
<1>1. t \in Seq(A) /\ Picks(t, s, S, Len(s))
  BY OnlyIs
<1>2. /\ Len(s) \in Nat /\ DOMAIN s = 1 .. Len(s) /\ Len(t) \in Nat
  BY <1>1, ElementsAre
<1> HIDE DEF t
<1>3. PICK e \in [1 .. Len(t) -> 1 .. Len(s)] :
          /\ \A i, j \in 1 .. Len(t) : i < j => e[i] < e[j]
          /\ \A i \in 1 .. Len(t) : t[i] = s[e[i]]
  BY <1>1 DEF Picks
<1>4. ASSUME NEW i \in 1 .. m PROVE \E j \in 1 .. Len(t) : e[j] = i
  <2>1. i \in 1 .. Len(s) /\ s[i] \in S
    BY <1>2, <1>4
  <2>2. PICK j \in 1 .. Len(t) : t[j] = s[i]
    BY <1>1, <2>1 DEF Picks
  <2>3. s[e[j]] = s[i] /\ e[j] \in DOMAIN s /\ i \in DOMAIN s
    BY <1>2, <1>3, <2>1, <2>2
  <2> QED
    BY <2>3 DEF Once
<1> DEFINE Bad == {i \in 1 .. m : ~(i <= Len(t) /\ e[i] = i)}
<1>5. Bad = {}
  <2> SUFFICES ASSUME Bad # {} PROVE FALSE
    OBVIOUS
  <2>1. Bad \in SUBSET Nat
    OBVIOUS
  <2>2. PICK b \in Bad : \A i \in Bad : b <= i
    <3> HIDE DEF Bad
    <3> QED
      BY <2>1, SmallestOf
  <2>3. b \in 1 .. m /\ b \in Nat /\ ~(b <= Len(t) /\ e[b] = b)
    OBVIOUS
  <2>4. ASSUME NEW i \in 1 .. m, i < b PROVE i <= Len(t) /\ e[i] = i
    <3>1. i \notin Bad
      <4> HIDE DEF Bad
      <4> QED
        BY <2>1, <2>2, <2>4
    <3> QED
      BY <3>1
  <2> HIDE DEF Bad
  <2>5. PICK j \in 1 .. Len(t) : e[j] = b
    BY <1>4, <2>3
  <2>6. j \in Nat /\ j <= Len(t) /\ 1 <= j /\ 1 <= b /\ b <= m
    BY <1>2, <2>3
  <2>7. ~(j < b)
    <3> SUFFICES ASSUME j < b PROVE FALSE
      OBVIOUS
    <3>1. j \in 1 .. m
      BY <2>3, <2>6
    <3>2. e[j] = j
      BY <2>4, <3>1
    <3> QED
      BY <2>5, <2>6, <3>2
  <2>8. j # b
    BY <2>3, <2>5, <2>6
  <2>9. b < j /\ b \in 1 .. Len(t)
    BY <1>2, <2>3, <2>6, <2>7, <2>8
  <2>10. e[b] < b /\ e[b] \in 1 .. Len(s)
    BY <1>3, <2>5, <2>9
  <2> DEFINE c == e[b]
  <2>11. c \in Nat /\ 1 <= c /\ c < b
    BY <1>2, <2>10
  <2> HIDE DEF c
  <2>12. c \in 1 .. m /\ c \in 1 .. Len(t)
    BY <1>2, <2>3, <2>6, <2>9, <2>11
  <2>13. e[c] = c
    BY <2>4, <2>11, <2>12
  <2>14. e[c] < e[b]
    BY <1>3, <2>9, <2>11, <2>12
  <2> QED
    BY <2>11, <2>13, <2>14 DEF c
<1>6. \A i \in 1 .. m : i <= Len(t) /\ e[i] = i
  BY <1>5
<1> HIDE DEF Bad
<1>7. \A i \in 1 .. m : i \in 1 .. Len(t) /\ t[i] = s[i]
  BY <1>2, <1>3, <1>6
<1> QED
  BY <1>6, <1>7 DEF t

\* x has every entry of s where s has it.
Begins(s, x) == \A i \in 1 .. Len(s) : i \in 1 .. Len(x) /\ x[i] = s[i]

\* What is collected goes behind the bag, and only that is handed out.
LEMMA ReapBegins ==
    ASSUME NEW s, NEW P \in SUBSET Tuples, NEW F, NEW G, SpaceOK(s, P, F, G), NEW x \in Reap(s)
    PROVE  /\ Begins(s.bag, x.bag)
           /\ \A w \in Workers : w \notin ToSet(s.waiters) => x.call[w].assigned = s.call[w].assigned
<1>1. CASE Lapsed(s) = {}
  <2>1. x = s
    BY <1>1 DEF Reap
  <2> QED
    BY <2>1 DEF Begins
<1>2. CASE Lapsed(s) # {}
  <2> DEFINE over == Lapsed(s)
             y == GivenBack(s, over)
             ended == Only(s.leases, over)
             extra == [i \in DOMAIN ended |-> ended[i].token.tuple]
  <2>1. PICK z \in Handoff(y) : x = NotifyAll(z)
    BY <1>2 DEF Reap
  <2>2. over \in SUBSET ToSet(s.leases) /\ Good(s, P, F, G) /\ Fed(s) /\ Shape(s, P)
    BY DEF Lapsed, SpaceOK, Good
  <2>3. Good(y, P, F, G) /\ y.call = s.call
    <3> HIDE DEF over
    <3> QED
      BY <2>2, GivenBackKeeps
  <2>4. y.bag = s.bag \o extra /\ y.waiters = s.waiters
    <3>1. s = [bag |-> s.bag, leases |-> s.leases, waiters |-> s.waiters, call |-> s.call]
      BY <2>2 DEF Shape
    <3> DEFINE b == s.bag \o extra
    <3>2. y = [s EXCEPT !.bag = b, !.leases = Minus(s.leases, over)]
      BY DEF GivenBack
    <3> HIDE DEF y, b, over
    <3>3. y.bag = b /\ y.waiters = s.waiters
      BY <3>1, <3>2
    <3> QED
      BY <3>3 DEF b
  <2>5. s.bag \in Seq(P) /\ y.bag \in Seq(P) /\ Once(y.bag) /\ s.waiters \in Seq(Workers)
        /\ y.call \in [Workers -> CallRecords(P)] /\ Shape(y, P)
    BY <2>2, <2>3 DEF Good, Shape
  <2>6. extra \in Seq(P)
    <3>1. /\ s.leases \in Seq(LeaseRecords(P))
      BY <2>2 DEF Shape
    <3>2. ended \in Seq(LeaseRecords(P))
      <4> HIDE DEF over
      <4> QED
        BY <3>1, OnlySet
    <3> HIDE DEF ended
    <3>3. /\ Len(ended) \in Nat /\ DOMAIN ended = 1 .. Len(ended)
          /\ \A i \in 1 .. Len(ended) : ended[i] \in LeaseRecords(P)
      BY <3>2, ElementsAre, ElementOfSeq
    <3>4. extra \in [1 .. Len(ended) -> P]
      BY <3>3 DEF LeaseRecords
    <3> QED
      BY <3>3, <3>4, SeqDef
  <2> HIDE DEF extra, y
  <2>7. /\ Len(s.bag) \in Nat /\ Len(y.bag) \in Nat /\ Len(s.bag) <= Len(y.bag)
        /\ \A i \in 1 .. Len(s.bag) : y.bag[i] = s.bag[i]
    <3>1. Len(s.bag) \in Nat /\ Len(extra) \in Nat
      BY <2>5, <2>6, ElementsAre
    <3>2. /\ Len(s.bag \o extra) = Len(s.bag) + Len(extra)
          /\ \A i \in 1 .. Len(s.bag) + Len(extra) :
                (s.bag \o extra)[i] = IF i <= Len(s.bag) THEN s.bag[i] ELSE extra[i - Len(s.bag)]
      BY <2>5, <2>6, ConcatProperties
    <3> QED
      BY <2>4, <3>1, <3>2
  <2>8. PICK f \in Handoffs(y) : z = IF DOMAIN f = {} THEN y ELSE NotifyAll(Assign(y, f))
    BY <2>1 DEF Handoff
  <2>9. IsServed(y, f)
    BY <2>5, ServedIs
  <2> DEFINE a == Assign(y, f)
             R == {f[w] : w \in DOMAIN f}
  <2>10. /\ a.bag = Minus(y.bag, R)
         /\ a.call = [w \in Workers |-> IF w \in DOMAIN f THEN WithAssigned(y.call[w], f[w])
                                        ELSE y.call[w]]
    BY DEF Assign, WithAssigned
  <2>11. \A i \in 1 .. Len(s.bag) : y.bag[i] \in ToSet(y.bag) \ R
    <3> SUFFICES ASSUME NEW i \in 1 .. Len(s.bag), NEW w \in DOMAIN f, f[w] = y.bag[i]
                 PROVE  FALSE
      <4>1. \A i \in 1 .. Len(s.bag) : y.bag[i] \in ToSet(y.bag)
        <5>1. ToSet(y.bag) = {y.bag[i] : i \in 1 .. Len(y.bag)}
          BY <2>5, ElementsAre
        <5> QED
          BY <2>7, <5>1
      <4> QED
        BY <4>1
    <3>1. w \in ToSet(s.waiters) /\ f[w] \in Matching(y.bag, y.call[w].pattern)
      BY <2>4, <2>9 DEF IsServed
    <3>2. SubsetMatch(s.call[w].pattern, s.bag[i]) /\ s.bag[i] \in ToSet(s.bag)
      <4>1. ToSet(s.bag) = {s.bag[k] : k \in 1 .. Len(s.bag)}
        BY <2>5, ElementsAre
      <4> QED
        BY <2>3, <2>7, <3>1, <4>1 DEF Matching
    <3> QED
      BY <2>2, <3>1, <3>2 DEF Fed, Matching
  <2>12. Begins(s.bag, Minus(y.bag, R))
    <3> DEFINE S == ToSet(y.bag) \ R
               m == Len(s.bag)
               t == Only(y.bag, S)
    <3>1. m \in Nat /\ m <= Len(y.bag) /\ \A i \in 1 .. m : y.bag[i] \in S
      BY <2>7, <2>11
    <3>2. t \in Seq(P)
      <4> HIDE DEF S
      <4> QED
        BY <2>5, OnlySet
    <3> HIDE DEF S, m
    <3>3. \A i \in 1 .. m : i <= Len(t) /\ t[i] = y.bag[i]
      BY <2>5, <3>1, OnlyPrefix
    <3>4. Len(t) \in Nat
      BY <3>2, ElementsAre
    <3>5. \A i \in 1 .. m : i \in 1 .. Len(t)
      BY <3>1, <3>3, <3>4
    <3>6. Minus(y.bag, R) = t
      BY DEF Minus, S
    <3> QED
      BY <2>7, <3>3, <3>5, <3>6 DEF Begins, m
  <2>13. ASSUME NEW w \in Workers, w \notin ToSet(s.waiters)
         PROVE  w \notin DOMAIN f /\ a.call[w] = s.call[w]
    <3>1. w \notin DOMAIN f
      BY <2>4, <2>9, <2>13 DEF IsServed
    <3> HIDE DEF a
    <3> QED
      BY <2>3, <2>10, <3>1
  <2> HIDE DEF a, R
  <2>14. Begins(s.bag, y.bag)
    BY <2>7 DEF Begins
  <2>15. \A u : NotifyAll(u).bag = u.bag \/ ~Shape(u, P)
    <3> SUFFICES ASSUME NEW u, Shape(u, P) PROVE NotifyAll(u).bag = u.bag
      OBVIOUS
    <3>1. /\ u.call \in [Workers -> CallRecords(P)]
          /\ u = [bag |-> u.bag, leases |-> u.leases, waiters |-> u.waiters, call |-> u.call]
      BY DEF Shape
    <3> DEFINE v == NotifyAll(u)
    <3>2. Alike(u, v)
      BY <3>1, NotifyIs
    <3> HIDE DEF v
    <3>3. v.bag = u.bag
      BY <3>2 DEF Alike
    <3> QED
      BY <3>3 DEF v
  <2>16. ASSUME NEW u, Shape(u, P), NEW w \in Workers
         PROVE  NotifyAll(u).call[w].assigned = u.call[w].assigned
    <3>1. /\ u.call \in [Workers -> CallRecords(P)]
          /\ u = [bag |-> u.bag, leases |-> u.leases, waiters |-> u.waiters, call |-> u.call]
      BY <2>16 DEF Shape
    <3>2. Alike(u, NotifyAll(u))
      BY <3>1, NotifyIs
    <3> QED
      BY <3>2 DEF Alike
  <2>17. Shape(a, P)
    <3>1. Good(Assign(y, f), P, F, G)
      BY <2>3, <2>9, AssignKeeps
    <3> QED
      BY <3>1 DEF Good, a
  <2>18. CASE DOMAIN f = {}
    <3>1. z = y
      BY <2>8, <2>18
    <3> QED
      BY <2>1, <2>3, <2>5, <2>14, <2>15, <2>16, <3>1
  <2>19. CASE DOMAIN f # {}
    <3>1. z = NotifyAll(a)
      BY <2>8, <2>19 DEF a
    <3>2. Shape(z, P)
      <4>1. SpaceOK(a, P, F, G) \/ Good(a, P, F, G)
        BY <2>3, <2>9, AssignKeeps DEF a
      <4>2. /\ a.call \in [Workers -> CallRecords(P)] /\ Good(a, P, F, G)
            /\ a = [bag |-> a.bag, leases |-> a.leases, waiters |-> a.waiters, call |-> a.call]
        BY <2>17, <4>1 DEF Shape, SpaceOK
      <4>3. Alike(a, z) /\ z.call \in [Workers -> CallRecords(P)]
        BY <3>1, <4>2, NotifyIs
      <4>4. Good(z, P, F, G)
        BY <4>2, <4>3, AlikeKeeps
      <4> QED
        BY <4>4 DEF Good
    <3>3. x.bag = a.bag
      BY <2>1, <2>15, <2>17, <3>1, <3>2
    <3>4. \A w \in Workers : x.call[w].assigned = a.call[w].assigned
      BY <2>1, <2>16, <2>17, <3>1, <3>2
    <3> QED
      BY <2>10, <2>12, <2>13, <3>3, <3>4
  <2> QED
    BY <2>18, <2>19
<1> QED
  BY <1>1, <1>2

LEMMA TakesOldest ==
    ASSUME IInv, NEW w \in Workers, TakePass(w), held'[w] # held[w], call[w].assigned = NoTuple,
           NEW i \in DOMAIN bag, SubsetMatch(call[w].pattern, bag[i])
    PROVE  \E j \in 1..i : bag[j] = held'[w].tuple
<1>1. PICK s \in Reap(Space) : TakeFrom(s, w)
  BY DEF TakePass
<1>2. /\ posted \in SUBSET Tuples /\ SpaceOK(Space, posted, finished, gen) /\ Space.call = call
      /\ Space.bag = bag /\ Space.waiters = waiters
      /\ held \in [Workers -> Tokens \cup {NoToken}]
  BY DEF IInv, Space
<1>3. SpaceOK(s, posted, finished, gen) /\ SameCalls(call, s.call)
  BY <1>1, <1>2, ReapKeeps
<1>4. /\ Begins(bag, s.bag)
      /\ w \notin ToSet(waiters) => s.call[w].assigned = NoTuple
  BY <1>1, <1>2, ReapBegins
<1>5. /\ Shape(s, posted) /\ s.bag \in Seq(posted) /\ Once(s.bag) /\ bag \in Seq(posted)
  BY <1>2, <1>3 DEF SpaceOK, Good, Shape
<1>6. /\ Len(bag) \in Nat /\ DOMAIN bag = 1 .. Len(bag) /\ ToSet(bag) = {bag[k] : k \in 1 .. Len(bag)}
      /\ Len(s.bag) \in Nat /\ DOMAIN s.bag = 1 .. Len(s.bag)
      /\ ToSet(s.bag) = {s.bag[k] : k \in 1 .. Len(s.bag)} /\ ToSet(s.bag) \subseteq posted
  BY <1>5, ElementsAre
<1>7. w \notin ToSet(waiters)
  <2> SUFFICES ASSUME w \in ToSet(waiters) PROVE FALSE
    OBVIOUS
  <2>1. Matching(bag, call[w].pattern) = {}
    BY <1>2 DEF SpaceOK, Fed
  <2>2. bag[i] \in Matching(bag, call[w].pattern)
    BY <1>6 DEF Matching
  <2> QED
    BY <2>1, <2>2
<1>8. s.call[w].assigned = NoTuple /\ s.call[w].pattern = call[w].pattern
  BY <1>3, <1>4, <1>7 DEF SameCalls, SameCall
<1> DEFINE M == Matching(s.bag, call[w].pattern)
           t == Oldest(s.bag, M)
<1>9. i \in 1 .. Len(s.bag) /\ s.bag[i] = bag[i] /\ s.bag[i] \in M
  <2>1. i \in 1 .. Len(s.bag) /\ s.bag[i] = bag[i]
    BY <1>4, <1>6 DEF Begins
  <2> QED
    BY <1>6, <2>1 DEF Matching
<1>10. M \in SUBSET ToSet(s.bag)
  BY DEF Matching
<1> HIDE DEF M
<1>11. t \in M /\ \A u \in M : Position(s.bag, t) <= Position(s.bag, u)
  BY <1>5, <1>9, <1>10, OldestIs
<1>12. Chosen(s, w) = t /\ t # NoTuple
  <2>1. t \in posted /\ NoTuple \notin posted
    BY <1>2, <1>6, <1>10, <1>11, TupleAssumption
  <2>2. M # {}
    BY <1>9
  <2> QED
    BY <1>8, <2>1, <2>2 DEF Chosen, M
<1> HIDE DEF t
<1> DEFINE n == Position(s.bag, t)
           y == [s EXCEPT !.bag = Minus(s.bag, {t})]
<1>13. held' = [held EXCEPT ![w] = [tuple |-> t, gen |-> gen[t] + 1]]
  <2>1. Claim(y, w, t)
    BY <1>1, <1>12, Zenon DEF TakeFrom
  <2>2. y = [s EXCEPT !.bag = Minus(s.bag, {t})]
    OBVIOUS
  <2> HIDE DEF y
  <2>3. IsClaimed(s, w, t)
    BY <1>5, <2>1, <2>2, ClaimIs
  <2> QED
    BY <2>3 DEF IsClaimed
<1>14. held'[w].tuple = t
  BY <1>2, <1>13
<1>15. n \in 1 .. Len(s.bag) /\ s.bag[n] = t
  <2>1. t \in ToSet(s.bag)
    BY <1>10, <1>11
  <2> QED
    BY <1>5, <2>1, PositionIs
<1>16. Position(s.bag, s.bag[i]) = i
  <2> DEFINE k == Position(s.bag, s.bag[i])
  <2>1. s.bag[i] \in ToSet(s.bag)
    BY <1>9, <1>10
  <2>2. k \in 1 .. Len(s.bag) /\ s.bag[k] = s.bag[i]
    BY <1>5, <2>1, PositionIs
  <2> HIDE DEF k
  <2>3. k = i
    BY <1>5, <1>6, <1>9, <2>2 DEF Once
  <2> QED
    BY <2>3 DEF k
<1>17. n <= i
  BY <1>9, <1>11, <1>16
<1> HIDE DEF n
<1>18. n \in 1 .. i /\ n \in 1 .. Len(bag)
  BY <1>6, <1>15, <1>17
<1>19. bag[n] = t
  BY <1>4, <1>15, <1>18 DEF Begins
<1> QED
  BY <1>14, <1>18, <1>19

LEMMA TakersTakeOldest ==
    ASSUME IInv, [Next]_vars, NEW w \in Workers, held'[w] # held[w], held'[w] # NoToken,
           call[w].assigned = NoTuple,
           NEW i \in DOMAIN bag, SubsetMatch(call[w].pattern, bag[i])
    PROVE  \E j \in 1..i : bag[j] = held'[w].tuple
<1>1. held \in [Workers -> Tokens \cup {NoToken}]
  BY DEF IInv
<1>2. ASSUME NEW v \in Workers, TakePass(v)
      PROVE  \E j \in 1..i : bag[j] = held'[w].tuple
  <2>1. \E t : held' = [held EXCEPT ![v] = [tuple |-> t, gen |-> gen[t] + 1]] \/ UNCHANGED held
    <3>1. PICK s \in Reap(Space) : TakeFrom(s, v)
      BY <1>2 DEF TakePass
    <3> QED
      BY <3>1 DEF TakeFrom, Claim
  <2>2. v = w
    BY <1>1, <2>1
  <2> QED
    BY <1>2, <2>2, TakesOldest
<1>3. ASSUME NEW v \in Workers, Ack(v)
      PROVE  FALSE
  BY <1>1, <1>3 DEF Ack
<1>4. \/ \E v \in Workers : TakePass(v) \/ Ack(v)
      \/ UNCHANGED held
  <2>1. ASSUME NEW t \in Tuples, Out(t) \/ Done(t) PROVE UNCHANGED held
    BY <2>1 DEF Out, Done
  <2>2. ASSUME NEW v \in Workers, NEW op, NEW p, NEW d, Enter(v, op, p, d) PROVE UNCHANGED held
    BY <2>2 DEF Enter
  <2>3. ASSUME NEW v \in Workers, RdPass(v) \/ Awake(v) \/ Renew(v) \/ Expire(v) PROVE UNCHANGED held
    BY <2>3 DEF RdPass, Awake, Renew, Expire
  <2>4. ASSUME IsCurrent \/ Stop \/ Wake \/ Tick \/ UNCHANGED vars PROVE UNCHANGED held
    BY <2>4 DEF IsCurrent, Stop, Wake, Tick, vars
  <2> QED
    BY <2>1, <2>2, <2>3, <2>4 DEF Next
<1> QED
  BY <1>2, <1>3, <1>4

\* A pass of take that claims out of the bag overtakes nothing its pattern matches
\* (_pop_oldest_match after _reap has put what lapsed at the end of the bag).
THEOREM OldestIsFirst == Spec => OldestFirst
<1>1. IInv /\ [Next]_vars =>
          [\A w \in Workers : held'[w] # held[w] /\ held'[w] # NoToken /\ call[w].assigned = NoTuple =>
            \A i \in DOMAIN bag :
                SubsetMatch(call[w].pattern, bag[i]) =>
                    \E j \in 1..i : bag[j] = held'[w].tuple]_vars
  BY TakersTakeOldest
<1> QED
  BY <1>1, SpaceInvariant, PTL DEF Spec, OldestFirst

-----------------------------------------------------------------------------
\* What a step does to the claims, and the board of each tuple.

IsSpace(s) == s = [bag |-> s.bag, leases |-> s.leases, waiters |-> s.waiters, call |-> s.call]

TuplesOf(ls) == {l.token.tuple : l \in ToSet(ls)}

LEMMA NotifyLeases ==
    ASSUME NEW s, IsSpace(s)
    PROVE  IsSpace(NotifyAll(s)) /\ NotifyAll(s).leases = s.leases
<1> DEFINE c == [w \in Workers |->
                    IF s.call[w].pc = "asleep" THEN [s.call[w] EXCEPT !.notified = TRUE] ELSE s.call[w]]
           x == NotifyAll(s)
<1>1. x = [s EXCEPT !.call = c]
  BY Zenon DEF NotifyAll
<1>2. s = [bag |-> s.bag, leases |-> s.leases, waiters |-> s.waiters, call |-> s.call]
  BY DEF IsSpace
<1> HIDE DEF c, x
<1>3. /\ x = [bag |-> x.bag, leases |-> x.leases, waiters |-> x.waiters, call |-> x.call]
      /\ x.leases = s.leases
  BY <1>1, <1>2
<1> QED
  BY <1>3 DEF x, IsSpace

LEMMA HandoffLeases ==
    ASSUME NEW s, IsSpace(s), NEW x \in Handoff(s)
    PROVE  IsSpace(x) /\ x.leases = s.leases
<1>1. PICK f : x = IF DOMAIN f = {} THEN s ELSE NotifyAll(Assign(s, f))
  BY DEF Handoff
<1> DEFINE y == Assign(s, f)
<1>2. IsSpace(y) /\ y.leases = s.leases
  BY DEF Assign, IsSpace
<1> HIDE DEF y
<1>3. IsSpace(NotifyAll(y)) /\ NotifyAll(y).leases = s.leases
  BY <1>2, NotifyLeases
<1>4. x = s \/ x = NotifyAll(y)
  BY <1>1 DEF y
<1> QED
  BY <1>3, <1>4

LEMMA GivenBackLeases ==
    ASSUME NEW s, IsSpace(s), NEW A, s.leases \in Seq(A), NEW over
    PROVE  IsSpace(GivenBack(s, over)) /\ ToSet(GivenBack(s, over).leases) = ToSet(s.leases) \ over
<1> DEFINE ended == Only(s.leases, over)
           b == s.bag \o [i \in DOMAIN ended |-> ended[i].token.tuple]
           ls == Minus(s.leases, over)
           y == GivenBack(s, over)
<1>1. y = [s EXCEPT !.bag = b, !.leases = ls]
  BY DEF GivenBack
<1>2. s = [bag |-> s.bag, leases |-> s.leases, waiters |-> s.waiters, call |-> s.call]
  BY DEF IsSpace
<1>3. ToSet(ls) = ToSet(s.leases) \ over
  BY OnlySet
<1> HIDE DEF b, ls, y
<1>4. /\ y = [bag |-> y.bag, leases |-> y.leases, waiters |-> y.waiters, call |-> y.call]
      /\ y.leases = ls
  BY <1>1, <1>2
<1> QED
  BY <1>3, <1>4 DEF y, IsSpace

LEMMA ReapLeases ==
    ASSUME NEW s, IsSpace(s), NEW A, s.leases \in Seq(A), NEW x \in Reap(s)
    PROVE  IsSpace(x) /\ ToSet(x.leases) \subseteq ToSet(s.leases)
<1>1. CASE Lapsed(s) = {}
  BY <1>1 DEF Reap
<1>2. CASE Lapsed(s) # {}
  <2> DEFINE y == GivenBack(s, Lapsed(s))
  <2>1. PICK z \in Handoff(y) : x = NotifyAll(z)
    BY <1>2 DEF Reap
  <2>2. IsSpace(y) /\ ToSet(y.leases) \subseteq ToSet(s.leases)
    <3> DEFINE over == Lapsed(s)
    <3> HIDE DEF over
    <3>1. /\ IsSpace(GivenBack(s, over))
          /\ ToSet(GivenBack(s, over).leases) = ToSet(s.leases) \ over
      BY GivenBackLeases
    <3> QED
      BY <3>1 DEF over
  <2> HIDE DEF y
  <2>3. IsSpace(z) /\ z.leases = y.leases
    BY <2>1, <2>2, HandoffLeases
  <2>4. IsSpace(x) /\ x.leases = z.leases
    BY <2>1, <2>3, NotifyLeases
  <2> QED
    BY <2>2, <2>3, <2>4
<1> QED
  BY <1>1, <1>2

\* A step without a claim: claims end, and what is finished was claimed.
NothingClaimed ==
    /\ gen' = gen /\ posted \subseteq posted'
    /\ TuplesOf(leases') \subseteq TuplesOf(leases)
    /\ Over(finished) \subseteq Over(finished')
    /\ Over(finished') \subseteq Over(finished) \cup TuplesOf(leases)

\* A step that claims t, which may have been collected from an older claim on the way.
OneClaimed(t) ==
    /\ t \in posted /\ gen' = [gen EXCEPT ![t] = gen[t] + 1]
    /\ t \in TuplesOf(leases') /\ TuplesOf(leases') \subseteq TuplesOf(leases) \cup {t}
    /\ posted' = posted /\ finished' = finished

LEMMA SpaceIsSpace ==
    ASSUME IInv
    PROVE  /\ IsSpace(Space) /\ Space.leases = leases /\ leases \in Seq(LeaseRecords(posted))
           /\ Space.call = call /\ SpaceOK(Space, posted, finished, gen) /\ posted \in SUBSET Tuples
BY DEF IInv, SpaceOK, Good, Shape, Space, IsSpace

LEMMA FewerLeases ==
    ASSUME NEW ls, NEW ms, ToSet(ms) \subseteq ToSet(ls)
    PROVE  TuplesOf(ms) \subseteq TuplesOf(ls)
BY DEF TuplesOf

\* A step that changes neither the generations nor what was put or finished.
LEMMA OnlyEnds ==
    ASSUME UNCHANGED <<posted, gen, finished>>, TuplesOf(leases') \subseteq TuplesOf(leases)
    PROVE  NothingClaimed
BY DEF NothingClaimed

LEMMA SameTokens ==
    ASSUME NEW ls, NEW ms, DOMAIN ms = DOMAIN ls, \A i \in DOMAIN ls : ms[i].token = ls[i].token
    PROVE  TuplesOf(ms) = TuplesOf(ls)
<1>1. TuplesOf(ms) = {ms[i].token.tuple : i \in DOMAIN ms}
  BY DEF TuplesOf, ToSet
<1>2. TuplesOf(ls) = {ls[i].token.tuple : i \in DOMAIN ls}
  BY DEF TuplesOf, ToSet
<1> QED
  BY <1>1, <1>2

LEMMA OutBoard ==
    ASSUME IInv, NEW t \in Tuples, Out(t)
    PROVE  NothingClaimed
<1> DEFINE b == Append(bag, t)
           s == [Space EXCEPT !.bag = b]
<1>1. PICK x \in Handoff(s) : Install(NotifyAll(x))
  BY DEF Out, Space
<1>2. IsSpace(s) /\ s.leases = leases
  <2> HIDE DEF b
  <2> QED
    BY DEF Space, IsSpace
<1> HIDE DEF s
<1>3. IsSpace(x) /\ x.leases = leases
  BY <1>1, <1>2, HandoffLeases
<1>4. NotifyAll(x).leases = leases
  BY <1>3, NotifyLeases
<1>5. leases' = leases
  BY <1>1, <1>4 DEF Install
<1>6. gen' = gen /\ posted \subseteq posted' /\ finished' = finished
  BY DEF Out
<1> QED
  BY <1>5, <1>6 DEF NothingClaimed

LEMMA AckBoard ==
    ASSUME IInv, NEW token, AckLocked(token), UNCHANGED <<posted, gen>>
    PROVE  NothingClaimed
<1> DEFINE out == LeaseOf(token)
<1>1. leases' = Minus(leases, out) /\ finished' = IF out = {} THEN finished ELSE finished \cup {token}
  BY DEF AckLocked
<1>2. leases \in Seq(LeaseRecords(posted))
  BY SpaceIsSpace
<1>3. ToSet(leases') = ToSet(leases) \ out
  <2> HIDE DEF out
  <2> QED
    BY <1>1, <1>2, OnlySet
<1>4. TuplesOf(leases') \subseteq TuplesOf(leases)
  BY <1>3, FewerLeases
<1>5. /\ Over(finished) \subseteq Over(finished')
      /\ Over(finished') \subseteq Over(finished) \cup TuplesOf(leases)
  <2>1. CASE out = {}
    BY <1>1, <2>1
  <2>2. CASE out # {}
    <3>1. finished' = finished \cup {token}
      BY <1>1, <2>2
    <3>2. PICK l \in ToSet(leases) : l.token = token
      BY <2>2 DEF LeaseOf
    <3>3. token.tuple \in TuplesOf(leases)
      BY <3>2 DEF TuplesOf
    <3>4. Over(finished') = Over(finished) \cup {token.tuple}
      BY <3>1 DEF Over
    <3> QED
      BY <3>3, <3>4
  <2> QED
    BY <2>1, <2>2
<1> QED
  BY <1>4, <1>5 DEF NothingClaimed

LEMMA ExpireBoard ==
    ASSUME IInv, NEW w \in Workers, Expire(w)
    PROVE  NothingClaimed
<1> DEFINE over == LeaseOf(held[w])
           y == GivenBack(Space, over)
<1>1. PICK x \in Handoff(y) : Install(NotifyAll(x))
  BY DEF Expire
<1>2. IsSpace(y) /\ ToSet(y.leases) \subseteq ToSet(leases)
  <2> HIDE DEF over
  <2>1. /\ IsSpace(GivenBack(Space, over))
        /\ ToSet(GivenBack(Space, over).leases) = ToSet(Space.leases) \ over
    BY SpaceIsSpace, GivenBackLeases
  <2> QED
    BY <2>1, SpaceIsSpace
<1> HIDE DEF y
<1>3. IsSpace(x) /\ x.leases = y.leases
  BY <1>1, <1>2, HandoffLeases
<1>4. NotifyAll(x).leases = y.leases
  BY <1>3, NotifyLeases
<1>5. ToSet(leases') \subseteq ToSet(leases)
  BY <1>1, <1>2, <1>4 DEF Install
<1>6. UNCHANGED <<posted, gen, finished>>
  BY DEF Expire
<1> QED
  BY <1>5, <1>6, FewerLeases, OnlyEnds

LEMMA RenewBoard ==
    ASSUME IInv, NEW w \in Workers, Renew(w)
    PROVE  NothingClaimed
<1>1. PICK s \in Reap(Space) :
          Install([s EXCEPT !.leases = [i \in DOMAIN s.leases |->
                IF s.leases[i].token = held[w] THEN [s.leases[i] EXCEPT !.left = Lease]
                ELSE s.leases[i]]])
  BY DEF Renew
<1>2. IsSpace(s) /\ ToSet(s.leases) \subseteq ToSet(leases)
  BY SpaceIsSpace, ReapLeases
<1> DEFINE ls == s.leases
           ms == [i \in DOMAIN ls |-> IF ls[i].token = held[w] THEN [ls[i] EXCEPT !.left = Lease]
                                      ELSE ls[i]]
           x == [s EXCEPT !.leases = ms]
<1>3. Install(x)
  BY <1>1
<1>4. SpaceOK(s, posted, finished, gen) /\ Shape(s, posted)
  BY SpaceIsSpace, ReapKeeps DEF SpaceOK, Good
<1>5. \A i \in DOMAIN ls : ls[i] \in LeaseRecords(posted)
  <2>1. ls \in Seq(LeaseRecords(posted))
    BY <1>4 DEF Shape
  <2> HIDE DEF ls
  <2> QED
    BY <2>1, ElementsAre, ElementOfSeq
<1> HIDE DEF ls
<1>6. DOMAIN ms = DOMAIN ls /\ \A i \in DOMAIN ls : ms[i].token = ls[i].token
  <2>1. ASSUME NEW l \in LeaseRecords(posted) PROVE [l EXCEPT !.left = Lease].token = l.token
    BY DEF LeaseRecords
  <2> QED
    BY <1>5, <2>1
<1> HIDE DEF ms
<1>7. x.leases = ms
  BY <1>2 DEF IsSpace
<1>8. TuplesOf(ms) = TuplesOf(ls)
  BY <1>6, SameTokens
<1>9. leases' = ms
  BY <1>3, <1>7 DEF Install
<1>10. TuplesOf(leases') \subseteq TuplesOf(leases)
  BY <1>2, <1>8, <1>9, FewerLeases DEF ls
<1>11. UNCHANGED <<posted, gen, finished>>
  BY DEF Renew
<1> QED
  BY <1>10, <1>11, OnlyEnds

LEMMA TickBoard ==
    ASSUME IInv, Tick
    PROVE  NothingClaimed
<1> DEFINE ms == [i \in DOMAIN leases |-> [leases[i] EXCEPT !.left = Later(leases[i].left)]]
<1>1. leases' = ms /\ UNCHANGED <<posted, gen, finished>>
  BY DEF Tick
<1>2. leases \in Seq(LeaseRecords(posted))
  BY SpaceIsSpace
<1>3. \A i \in DOMAIN leases : leases[i] \in LeaseRecords(posted)
  BY <1>2, ElementsAre, ElementOfSeq
<1>4. DOMAIN ms = DOMAIN leases /\ \A i \in DOMAIN leases : ms[i].token = leases[i].token
  <2>1. ASSUME NEW l \in LeaseRecords(posted), NEW n PROVE [l EXCEPT !.left = n].token = l.token
    BY DEF LeaseRecords
  <2> QED
    BY <1>3, <2>1
<1> HIDE DEF ms
<1>5. TuplesOf(ms) = TuplesOf(leases)
  BY <1>4, SameTokens
<1> QED
  BY <1>1, <1>5, OnlyEnds

\* A pass that leaves the leases as _reap left them.
LEMMA PassBoard ==
    ASSUME IInv, NEW s \in Reap(Space), leases' = s.leases, UNCHANGED <<posted, gen, finished>>
    PROVE  NothingClaimed
<1>1. ToSet(s.leases) \subseteq ToSet(leases)
  BY SpaceIsSpace, ReapLeases
<1>2. TuplesOf(leases') \subseteq TuplesOf(leases)
  BY <1>1, FewerLeases
<1> QED
  BY <1>2, OnlyEnds

LEMMA ReturnLeases ==
    ASSUME NEW s, IsSpace(s), NEW w
    PROVE  Return(s, w).leases = s.leases
<1> DEFINE c == [s.call EXCEPT ![w] = Idle]
           ws == Minus(s.waiters, {w})
<1>1. Return(s, w) = [s EXCEPT !.call = c, !.waiters = ws]
  BY Zenon DEF Return, IsSpace
<1>2. s = [bag |-> s.bag, leases |-> s.leases, waiters |-> s.waiters, call |-> s.call]
  BY DEF IsSpace
<1> HIDE DEF c, ws
<1> QED
  BY <1>1, <1>2

LEMMA SleepLeases ==
    ASSUME NEW s, IsSpace(s), NEW w
    PROVE  Sleep(s, w).leases = s.leases
<1> DEFINE c == [s.call EXCEPT ![w] = [s.call[w] EXCEPT !.pc = "asleep", !.notified = FALSE,
                                           !.wake = WakeAt(s, s.call[w].deadline)]]
<1>1. Sleep(s, w) = [s EXCEPT !.call = c]
  BY Zenon DEF Sleep
<1>2. s = [bag |-> s.bag, leases |-> s.leases, waiters |-> s.waiters, call |-> s.call]
  BY DEF IsSpace
<1> HIDE DEF c
<1> QED
  BY <1>1, <1>2

LEMMA QueueLeases ==
    ASSUME NEW s, IsSpace(s), NEW w
    PROVE  IsSpace(Queue(s, w)) /\ Queue(s, w).leases = s.leases
<1> DEFINE ws == IF w \in ToSet(s.waiters) THEN s.waiters ELSE Append(s.waiters, w)
           y == Queue(s, w)
<1>1. y = [s EXCEPT !.waiters = ws]
  BY Zenon DEF Queue
<1>2. s = [bag |-> s.bag, leases |-> s.leases, waiters |-> s.waiters, call |-> s.call]
  BY DEF IsSpace
<1> HIDE DEF ws, y
<1>3. /\ y = [bag |-> y.bag, leases |-> y.leases, waiters |-> y.waiters, call |-> y.call]
      /\ y.leases = s.leases
  BY <1>1, <1>2
<1> QED
  BY <1>3 DEF y, IsSpace

LEMMA RdBoard ==
    ASSUME IInv, NEW w \in Workers, RdPass(w)
    PROVE  NothingClaimed
<1>1. PICK s \in Reap(Space) :
          Install(IF Matching(s.bag, call[w].pattern) # {} \/ call[w].deadline = 0
                  THEN Return(s, w) ELSE Sleep(s, w))
  BY DEF RdPass
<1>2. IsSpace(s)
  BY SpaceIsSpace, ReapLeases
<1>3. Return(s, w).leases = s.leases /\ Sleep(s, w).leases = s.leases
  BY <1>2, ReturnLeases, SleepLeases
<1>4. leases' = s.leases
  BY <1>1, <1>3 DEF Install
<1> QED
  BY <1>4, PassBoard DEF RdPass

LEMMA TakeBoard ==
    ASSUME IInv, NEW w \in Workers, TakePass(w)
    PROVE  NothingClaimed \/ \E t \in Tuples : OneClaimed(t)
<1>1. PICK s \in Reap(Space) : TakeFrom(s, w)
  BY DEF TakePass
<1>2. /\ IsSpace(s) /\ ToSet(s.leases) \subseteq ToSet(leases) /\ posted \in SUBSET Tuples
      /\ SpaceOK(Space, posted, finished, gen)
  BY SpaceIsSpace, ReapLeases
<1>3. Shape(s, posted) /\ s.leases \in Seq(LeaseRecords(posted)) /\ s.bag \in Seq(posted)
      /\ s.call \in [Workers -> CallRecords(posted)]
  BY <1>2, ReapKeeps DEF SpaceOK, Good, Shape
<1>4. UNCHANGED <<posted, finished>>
  BY DEF TakePass
<1> DEFINE t == Chosen(s, w)
<1>5. CASE t # NoTuple
  <2> DEFINE y == [s EXCEPT !.bag = Minus(s.bag, {t})]
             l == [token |-> [tuple |-> t, gen |-> gen[t] + 1], left |-> Lease]
  <2>1. Claim(y, w, t)
    BY <1>1, <1>5, Zenon DEF TakeFrom
  <2>2. y = [s EXCEPT !.bag = Minus(s.bag, {t})]
    OBVIOUS
  <2>3. t \in posted
    <3>1. s.call[w].assigned \in posted \cup {NoTuple} /\ ToSet(s.bag) \subseteq posted
      BY <1>3, ElementsAre DEF CallRecords
    <3>2. Matching(s.bag, s.call[w].pattern) \in SUBSET ToSet(s.bag)
      BY DEF Matching
    <3> QED
      BY <1>3, <1>5, <3>1, <3>2, OldestIs DEF Chosen
  <2> HIDE DEF y, t
  <2>4. IsClaimed(s, w, t)
    BY <1>3, <2>1, <2>2, ClaimIs
  <2>5. leases' = Append(s.leases, l) /\ gen' = [gen EXCEPT ![t] = gen[t] + 1]
    BY <2>4 DEF IsClaimed, Install, Claimed
  <2>6. l.token.tuple = t
    OBVIOUS
  <2> HIDE DEF l
  <2>7. ToSet(leases') = ToSet(s.leases) \cup {l}
    <3>1. Len(s.leases) \in Nat /\ DOMAIN s.leases = 1 .. Len(s.leases)
      BY <1>3, ElementsAre
    <3>2. /\ \A i \in 1 .. Len(s.leases) : Append(s.leases, l)[i] = s.leases[i]
          /\ Append(s.leases, l)[Len(s.leases) + 1] = l
          /\ DOMAIN Append(s.leases, l) = 1 .. Len(s.leases) + 1
      BY <1>3, <3>1
    <3> QED
      BY <2>5, <3>1, <3>2 DEF ToSet
  <2>8. TuplesOf(leases') = TuplesOf(s.leases) \cup {t}
    BY <2>6, <2>7 DEF TuplesOf
  <2>9. TuplesOf(s.leases) \subseteq TuplesOf(leases)
    BY <1>2, FewerLeases
  <2>10. OneClaimed(t)
    BY <1>4, <2>3, <2>5, <2>8, <2>9 DEF OneClaimed
  <2> QED
    BY <1>2, <2>3, <2>10
<1>6. CASE t = NoTuple
  <2>1. /\ Install(IF stop \/ call[w].deadline = 0 THEN Return(s, w) ELSE Sleep(Queue(s, w), w))
        /\ UNCHANGED <<gen, held>>
    BY <1>1, <1>6, Zenon DEF TakeFrom
  <2>2. Return(s, w).leases = s.leases /\ Sleep(Queue(s, w), w).leases = s.leases
    BY <1>2, ReturnLeases, SleepLeases, QueueLeases
  <2>3. leases' = s.leases
    BY <2>1, <2>2 DEF Install
  <2> QED
    BY <1>4, <2>1, <2>3, PassBoard
<1> QED
  BY <1>5, <1>6

LEMMA StepBoard ==
    ASSUME IInv, [Next]_vars
    PROVE  NothingClaimed \/ \E t \in Tuples : OneClaimed(t)
<1>1. ASSUME UNCHANGED <<posted, gen, leases, finished>> PROVE NothingClaimed
  BY <1>1, OnlyEnds
<1>2. ASSUME NEW t \in Tuples, Out(t) \/ Done(t) PROVE NothingClaimed
  <2>1. ASSUME Done(t) PROVE NothingClaimed
    <3>1. PICK l \in ToSet(leases) : AckLocked(l.token)
      BY <2>1 DEF Done
    <3> QED
      BY <2>1, <3>1, AckBoard DEF Done
  <2> QED
    BY <1>2, <2>1, OutBoard
<1>3. ASSUME NEW w \in Workers, NEW op, NEW p, NEW d, Enter(w, op, p, d) PROVE NothingClaimed
  BY <1>1, <1>3 DEF Enter
<1>4. ASSUME NEW w \in Workers,
             TakePass(w) \/ RdPass(w) \/ Awake(w) \/ Ack(w) \/ Renew(w) \/ Expire(w)
      PROVE  NothingClaimed \/ \E t \in Tuples : OneClaimed(t)
  <2>1. ASSUME Awake(w) PROVE NothingClaimed
    BY <1>1, <2>1 DEF Awake
  <2>2. ASSUME Ack(w) PROVE NothingClaimed
    BY <2>2, AckBoard DEF Ack
  <2> QED
    BY <1>4, <2>1, <2>2, TakeBoard, RdBoard, RenewBoard, ExpireBoard
<1>5. ASSUME IsCurrent PROVE NothingClaimed
  <2>1. PICK x \in Reap(Space) : Install(x)
    BY <1>5 DEF IsCurrent
  <2>2. leases' = x.leases
    BY <2>1 DEF Install
  <2> QED
    BY <1>5, <2>2, PassBoard DEF IsCurrent
<1>6. ASSUME Stop \/ UNCHANGED vars PROVE NothingClaimed
  BY <1>1, <1>6 DEF Stop, vars
<1>7. ASSUME Wake PROVE NothingClaimed
  <2>1. NotifyAll(Space).leases = leases
    BY SpaceIsSpace, NotifyLeases
  <2>2. leases' = leases
    BY <1>7, <2>1 DEF Wake, Install
  <2> QED
    BY <1>1, <1>7, <2>2 DEF Wake
<1> QED
  BY <1>2, <1>3, <1>4, <1>5, <1>6, <1>7, TickBoard DEF Next

\* A tuple that was not put was never claimed.
Unclaimed == \A t \in Tuples \ posted : gen[t] = 0

LEMMA UnclaimedKeeps ==
    ASSUME IInv, Unclaimed, [Next]_vars
    PROVE  Unclaimed'
<1>1. gen \in [Tuples -> 0..MaxCalls]
  BY DEF IInv
<1>2. CASE NothingClaimed
  BY <1>2 DEF NothingClaimed, Unclaimed
<1>3. ASSUME NEW t \in Tuples, OneClaimed(t) PROVE Unclaimed'
  BY <1>1, <1>3 DEF OneClaimed, Unclaimed
<1> QED
  BY <1>2, <1>3, StepBoard

\* A step is a step of the board of each tuple, or leaves it alone.
LEMMA BoardSteps ==
    ASSUME IInv, IInv', Unclaimed, [Next]_vars, NEW t \in Tuples
    PROVE  [Board(t)!Next]_(PlaceOf(t))
<1> DEFINE a == PlaceOf(t)
           b == a'
           f == [j \in {t} |-> PlaceOf(j)]
<1>1. a = [at  |-> IF t \notin posted THEN "absent" ELSE IF t \in Over(finished) THEN "done"
                   ELSE IF t \in TuplesOf(leases) THEN "held" ELSE "free",
           gen |-> gen[t]]
  BY DEF PlaceOf, Over, TuplesOf
<1>2. b = [at  |-> IF t \notin posted' THEN "absent" ELSE IF t \in Over(finished') THEN "done"
                   ELSE IF t \in TuplesOf(leases') THEN "held" ELSE "free",
           gen |-> gen'[t]]
  BY DEF PlaceOf, Over, TuplesOf
<1>3. f[t] = a /\ f' = [j \in {t} |-> PlaceOf(j)'] /\ PlaceOf(t)' = b
  OBVIOUS
<1>4. \A p : f' = [f EXCEPT ![t] = p] <=> b = p
  <2>1. f' = [j \in {t} |-> b]
    OBVIOUS
  <2>2. f = [j \in {t} |-> a]
    OBVIOUS
  <2> DEFINE g == f'
  <2>3. g = [j \in {t} |-> b]
    BY <2>1
  <2> HIDE DEF a, b, f, g
  <2>4. \A p : g = [f EXCEPT ![t] = p] <=> b = p
    BY <2>2, <2>3
  <2> QED
    BY <2>4 DEF g
<1>5. /\ TuplesOf(leases) \subseteq posted /\ Over(finished) \subseteq posted
      /\ TuplesOf(leases) \cap Over(finished) = {} /\ gen \in [Tuples -> 0..MaxCalls]
  <2>1. Leased(Space) = TuplesOf(leases)
    BY DEF Leased, TuplesOf, Space
  <2> QED
    BY <2>1 DEF IInv, SpaceOK, Good, Split
<1>6. /\ TuplesOf(leases') \subseteq posted' /\ Over(finished') \subseteq posted'
      /\ TuplesOf(leases') \cap Over(finished') = {}
  <2>1. Leased(Space') = TuplesOf(leases')
    BY DEF Leased, TuplesOf, Space
  <2>2. SpaceOK(Space', posted', finished', gen')
    BY DEF IInv
  <2> QED
    BY <2>1, <2>2 DEF SpaceOK, Good, Split
<1>7. t \notin posted => gen[t] = 0
  BY DEF Unclaimed
<1>8. gen[t] \in Nat
  BY <1>5
<1> DEFINE ab == "absent"
           dn == "done"
           hd == "held"
           fr == "free"
<1>9. /\ t \notin posted => a = [at |-> ab, gen |-> 0]
      /\ t \in Over(finished) => a = [at |-> dn, gen |-> gen[t]]
      /\ t \in TuplesOf(leases) => a = [at |-> hd, gen |-> gen[t]]
      /\ t \in posted /\ t \notin Over(finished) /\ t \notin TuplesOf(leases)
           => a = [at |-> fr, gen |-> gen[t]]
  BY <1>1, <1>5, <1>7
<1>10. /\ t \notin posted' => b = [at |-> ab, gen |-> gen'[t]]
       /\ t \in Over(finished') => b = [at |-> dn, gen |-> gen'[t]]
       /\ t \in TuplesOf(leases') => b = [at |-> hd, gen |-> gen'[t]]
       /\ t \in posted' /\ t \notin Over(finished') /\ t \notin TuplesOf(leases')
            => b = [at |-> fr, gen |-> gen'[t]]
  BY <1>2, <1>6
<1>11. /\ \A p : Board(t)!Becomes(t, p) <=> b = p
       /\ Board(t)!Post(t) \/ Board(t)!Claim(t) \/ Board(t)!Release(t) \/ Board(t)!Finish(t)
            => Board(t)!Next
       /\ a = Board(t)!Absent
             /\ (Board(t)!Becomes(t, Board(t)!Free(0)) \/ Board(t)!Becomes(t, Board(t)!Held(1)))
            => Board(t)!Post(t)
       /\ a.at = "free" /\ Board(t)!Becomes(t, Board(t)!Held(a.gen + 1)) => Board(t)!Claim(t)
       /\ a.at = "held"
             /\ (\/ Board(t)!Becomes(t, Board(t)!Free(a.gen))
                 \/ Board(t)!Becomes(t, Board(t)!Held(a.gen + 1)))
            => Board(t)!Release(t)
       /\ a.at = "held" /\ Board(t)!Becomes(t, Board(t)!Done(a.gen)) => Board(t)!Finish(t)
  <2>1. \A p : Board(t)!Becomes(t, p) <=> b = p
    BY <1>4 DEF Board!Becomes
  <2>2. Board(t)!Post(t) \/ Board(t)!Claim(t) \/ Board(t)!Release(t) \/ Board(t)!Finish(t)
          => Board(t)!Next
    BY DEF Board!Next
  <2>3. a = Board(t)!Absent
           /\ (Board(t)!Becomes(t, Board(t)!Free(0)) \/ Board(t)!Becomes(t, Board(t)!Held(1)))
          => Board(t)!Post(t)
    BY <1>3 DEF Board!Post
  <2>4. a.at = "free" /\ Board(t)!Becomes(t, Board(t)!Held(a.gen + 1)) => Board(t)!Claim(t)
    BY <1>3 DEF Board!Claim
  <2>5. a.at = "held"
           /\ (\/ Board(t)!Becomes(t, Board(t)!Free(a.gen))
               \/ Board(t)!Becomes(t, Board(t)!Held(a.gen + 1)))
          => Board(t)!Release(t)
    BY <1>3 DEF Board!Release
  <2>6. a.at = "held" /\ Board(t)!Becomes(t, Board(t)!Done(a.gen)) => Board(t)!Finish(t)
    BY <1>3 DEF Board!Finish
  <2> QED
    BY <2>1, <2>2, <2>3, <2>4, <2>5, <2>6
<1>12. \A g : /\ Board(t)!Free(g) = [at |-> "free", gen |-> g]
              /\ Board(t)!Held(g) = [at |-> "held", gen |-> g]
              /\ Board(t)!Done(g) = [at |-> "done", gen |-> g]
              /\ Board(t)!Absent = [at |-> "absent", gen |-> 0]
  BY DEF Board!Free, Board!Held, Board!Done, Board!Absent
<1> HIDE DEF a, b
<1>13. SUFFICES b = a \/ Board(t)!Next
  BY DEF a, b
<1>14. CASE NothingClaimed
  BY <1>5, <1>6, <1>7, <1>9, <1>10, <1>11, <1>12, <1>14 DEF NothingClaimed
<1>15. ASSUME NEW u \in Tuples, OneClaimed(u) PROVE b = a \/ Board(t)!Next
  <2>1. CASE u = t
    BY <1>5, <1>6, <1>8, <1>9, <1>10, <1>11, <1>12, <1>15, <2>1 DEF OneClaimed
  <2>2. CASE u # t
    BY <1>5, <1>6, <1>7, <1>9, <1>10, <1>11, <1>12, <1>15, <2>2 DEF OneClaimed
  <2> QED
    BY <2>1, <2>2
<1> QED
  BY <1>14, <1>15, StepBoard

\* Of each tuple the space does only what the board allows: one claim at a time, every
\* claim newer than the last, and a finished tuple never seen again (space.py, all of it).
THEOREM BoardsAreKept == Spec => ImplementsBoards
<1>1. Init => \A t \in Tuples : Board(t)!Init
  <2> SUFFICES ASSUME Init, NEW t \in Tuples PROVE Board(t)!Init
    OBVIOUS
  <2>1. PlaceOf(t) = [at |-> "absent", gen |-> 0]
    BY DEF Init, PlaceOf
  <2> QED
    BY <2>1 DEF Board!Init, Board!Absent
<1>2. Init => Unclaimed
  BY DEF Init, Unclaimed
<1>3. IInv /\ Unclaimed /\ [Next]_vars => Unclaimed'
  BY UnclaimedKeeps
<1>4. IInv /\ IInv' /\ Unclaimed /\ [Next]_vars => [\A t \in Tuples : [Board(t)!Next]_(PlaceOf(t))]_vars
  BY BoardSteps
<1> QED
  BY <1>1, <1>2, <1>3, <1>4, SpaceInvariant, PTL DEF Spec, ImplementsBoards

============================================================================
