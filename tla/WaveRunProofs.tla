---------------------------- MODULE WaveRunProofs ----------------------------
(***************************************************************************)
(* Theorems about WaveRun, for every set of envelopes, number of workers   *)
(* and bound on lapses, and the facts about graphs they rest on.           *)
(***************************************************************************)
EXTENDS WaveRun, SequenceTheorems, FiniteSetTheorems, WellFoundedInduction, TLAPS

-----------------------------------------------------------------------------
\* Numbers, and functions defined one value after the other.

LEMMA SmallestOf ==
    ASSUME NEW T \in SUBSET Nat, T # {}
    PROVE  \E m \in T : \A n \in T : m <= n
<1>1. PICK m \in T : \A n \in T : <<n, m>> \notin OpToRel(<, Nat)
  BY WFMin, NatLessThanWellFounded
<1>2. ASSUME NEW n \in T, n < m
      PROVE  FALSE
  <2>1. n \in Nat /\ m \in Nat
    OBVIOUS
  <2>2. <<n, m>> \in {ss \in Nat \X Nat : ss[1] < ss[2]}
    BY <1>2, <2>1
  <2>3. <<n, m>> \in OpToRel(<, Nat)
    BY <2>1, <2>2, Zenon DEF OpToRel
  <2> QED
    BY <1>1, <2>3, Zenon
<1> QED
  BY <1>2

IsIteration(f, S, G, a, n) ==
    f \in [0 .. n -> S] /\ f[0] = a /\ \A k \in 1 .. n : f[k] = G[f[k - 1]]

LEMMA Iterates ==
    ASSUME NEW S, NEW G \in [S -> S], NEW a \in S, NEW n \in Nat
    PROVE  \E f : IsIteration(f, S, G, a, n)
<1> DEFINE P(m) == \E f : IsIteration(f, S, G, a, m)
           Bad  == {m \in Nat : ~P(m)}
<1> SUFFICES ASSUME Bad # {} PROVE FALSE
  OBVIOUS
<1>1. PICK m \in Bad : \A j \in Bad : m <= j
  <2>1. Bad \in SUBSET Nat
    OBVIOUS
  <2> HIDE DEF Bad
  <2> QED
    BY <2>1, SmallestOf
<1>2. P(0)
  <2> DEFINE g == [k \in 0 .. 0 |-> a]
  <2>1. g \in [0 .. 0 -> S] /\ g[0] = a /\ \A k \in 1 .. 0 : g[k] = G[g[k - 1]]
    OBVIOUS
  <2> HIDE DEF g
  <2> QED
    BY <2>1 DEF IsIteration
<1> HIDE DEF P
<1>3. m # 0 /\ m \in Nat /\ m - 1 \in Nat
  BY <1>1, <1>2
<1>4. P(m - 1)
  BY <1>1, <1>3
<1>5. PICK f \in [0 .. m - 1 -> S] : f[0] = a /\ \A k \in 1 .. m - 1 : f[k] = G[f[k - 1]]
  BY <1>4 DEF P, IsIteration
<1> DEFINE g == [k \in 0 .. m |-> IF k = m THEN G[f[m - 1]] ELSE f[k]]
<1>6. g \in [0 .. m -> S]
  BY <1>3, <1>5
<1>7. g[0] = a
  BY <1>3, <1>5
<1>8. ASSUME NEW k \in 1 .. m
      PROVE  g[k] = G[g[k - 1]]
  <2>1. CASE k = m
    BY <1>3, <1>5, <2>1
  <2>2. CASE k # m
    <3>1. k \in 1 .. m - 1 /\ k \in 0 .. m /\ k - 1 \in 0 .. m /\ k - 1 # m
      BY <1>3, <2>2
    <3> QED
      BY <1>5, <2>2, <3>1
  <2> QED
    BY <2>1, <2>2
<1>9. P(m)
  <2> HIDE DEF g
  <2> QED
    BY <1>6, <1>7, <1>8 DEF P, IsIteration
<1> QED
  BY <1>1, <1>9

\* The same when each step has a function of its own.
IsSeries(f, S, G, a, n) ==
    f \in [0 .. n -> S] /\ f[0] = a /\ \A k \in 1 .. n : f[k] = G[k][f[k - 1]]

LEMMA SeriesExists ==
    ASSUME NEW S, NEW n \in Nat, NEW G \in [1 .. n -> [S -> S]], NEW a \in S
    PROVE  \E f : IsSeries(f, S, G, a, n)
<1> DEFINE P(m) == \E f : IsSeries(f, S, G, a, m)
           Bad  == {m \in 0 .. n : ~P(m)}
<1>1. Bad = {}
  <2> SUFFICES ASSUME Bad # {} PROVE FALSE
    OBVIOUS
  <2>1. PICK m \in Bad : \A j \in Bad : m <= j
    <3>1. Bad \in SUBSET Nat
      OBVIOUS
    <3> HIDE DEF Bad
    <3> QED
      BY <3>1, SmallestOf
  <2>2. P(0)
    <3> DEFINE g == [k \in 0 .. 0 |-> a]
    <3>1. g \in [0 .. 0 -> S] /\ g[0] = a /\ \A k \in 1 .. 0 : g[k] = G[k][g[k - 1]]
      OBVIOUS
    <3> HIDE DEF g
    <3> QED
      BY <3>1 DEF IsSeries
  <2> HIDE DEF P
  <2>3. m # 0 /\ m \in Nat /\ m - 1 \in 0 .. n
    BY <2>1, <2>2
  <2>4. P(m - 1)
    BY <2>1, <2>3
  <2>5. PICK f \in [0 .. m - 1 -> S] : f[0] = a /\ \A k \in 1 .. m - 1 : f[k] = G[k][f[k - 1]]
    BY <2>4 DEF P, IsSeries
  <2> DEFINE g == [k \in 0 .. m |-> IF k = m THEN G[m][f[m - 1]] ELSE f[k]]
  <2>6. G[m] \in [S -> S] /\ f[m - 1] \in S
    BY <2>1, <2>3, <2>5
  <2>7. g \in [0 .. m -> S]
    BY <2>3, <2>5, <2>6
  <2>8. g[0] = a
    BY <2>3, <2>5
  <2>9. ASSUME NEW k \in 1 .. m
        PROVE  g[k] = G[k][g[k - 1]]
    <3>1. CASE k = m
      BY <2>3, <2>5, <3>1
    <3>2. CASE k # m
      <4>1. k \in 1 .. m - 1 /\ k \in 0 .. m /\ k - 1 \in 0 .. m /\ k - 1 # m
        BY <2>3, <3>2
      <4> QED
        BY <2>5, <3>2, <4>1
    <3> QED
      BY <3>1, <3>2
  <2>10. P(m)
    <3> HIDE DEF g
    <3> QED
      BY <2>7, <2>8, <2>9 DEF P, IsSeries
  <2> QED
    BY <2>1, <2>10
<1>2. n \in 0 .. n
  OBVIOUS
<1> HIDE DEF P
<1>3. P(n)
  BY <1>1, <1>2
<1> QED
  BY <1>3 DEF P

\* Sets that grow until they stop have stopped after as many steps as they can have elements.
Climbs(f, S, G, n) ==
    /\ G \in [SUBSET S -> SUBSET S] /\ \A T \in SUBSET S : T \subseteq G[T]
    /\ f \in [0 .. n -> SUBSET S] /\ \A k \in 1 .. n : f[k] = G[f[k - 1]]

LEMMA Saturates ==
    ASSUME NEW S, IsFiniteSet(S), NEW n \in Nat, Cardinality(S) <= n,
           NEW G, NEW f, Climbs(f, S, G, n)
    PROVE  G[f[n]] = f[n]
<1> USE DEF Climbs
<1> DEFINE P(k) == G[f[k]] = f[k] \/ Cardinality(f[k]) >= k
           Bad  == {k \in 0 .. n : ~P(k)}
<1>1. Bad = {}
  <2> SUFFICES ASSUME Bad # {} PROVE FALSE
    OBVIOUS
  <2>1. PICK m \in Bad : \A j \in Bad : m <= j
    <3>1. Bad \in SUBSET Nat
      OBVIOUS
    <3> HIDE DEF Bad
    <3> QED
      BY <3>1, SmallestOf
  <2>2. f[0] \in SUBSET S
    OBVIOUS
  <2>3. m # 0
    BY <2>1, <2>2, FS_Subset, FS_CardinalityType
  <2>4. m \in 1 .. n /\ m - 1 \in 0 .. n /\ m - 1 \in Nat
    BY <2>1, <2>3
  <2>5. P(m - 1)
    BY <2>1, <2>4
  <2>6. f[m] = G[f[m - 1]] /\ f[m - 1] \in SUBSET S /\ f[m] \in SUBSET S
    BY <2>4
  <2>7. CASE G[f[m - 1]] = f[m - 1]
    BY <2>1, <2>6, <2>7
  <2>8. CASE G[f[m - 1]] # f[m - 1] /\ Cardinality(f[m - 1]) >= m - 1
    <3>1. IsFiniteSet(f[m]) /\ f[m - 1] \in SUBSET f[m] /\ f[m - 1] # f[m]
      BY <2>6, <2>8, FS_Subset
    <3>2. /\ Cardinality(f[m - 1]) \in Nat /\ Cardinality(f[m]) \in Nat
          /\ Cardinality(f[m - 1]) <= Cardinality(f[m])
          /\ Cardinality(f[m - 1]) # Cardinality(f[m])
      BY <3>1, FS_Subset, FS_CardinalityType
    <3>3. Cardinality(f[m]) >= m
      BY <2>4, <2>8, <3>2
    <3> QED
      BY <2>1, <3>3
  <2> QED
    BY <2>5, <2>7, <2>8
<1>2. P(n)
  BY <1>1
<1>3. CASE Cardinality(f[n]) >= n
  <2>1. f[n] \in SUBSET S
    OBVIOUS
  <2>2. Cardinality(f[n]) = Cardinality(S)
    BY <1>3, <2>1, FS_Subset, FS_CardinalityType
  <2>3. f[n] = S
    BY <2>1, <2>2, FS_Subset
  <2>4. f[n] \subseteq G[f[n]] /\ G[f[n]] \in SUBSET S
    BY <2>1
  <2> QED
    BY <2>3, <2>4
<1> QED
  BY <1>2, <1>3

\* Sequences.

IsSeq(a) == a \in Seq(ToSet(a))

Joined(a, b, c) ==
    /\ IsSeq(c) /\ Len(c) = Len(a) + Len(b)
    /\ Len(a) \in Nat /\ Len(b) \in Nat
    /\ DOMAIN c = 1 .. Len(a) + Len(b)
    /\ DOMAIN a = 1 .. Len(a) /\ DOMAIN b = 1 .. Len(b)
    /\ \A i \in 1 .. Len(a) : c[i] = a[i]
    /\ \A i \in 1 .. Len(b) : c[Len(a) + i] = b[i]

LEMMA ConcatIs ==
    ASSUME NEW a, IsSeq(a), NEW b, IsSeq(b)
    PROVE  Joined(a, b, a \o b)
<1> USE DEF Joined
<1> DEFINE S == ToSet(a) \cup ToSet(b)
<1>1. a \in Seq(S) /\ b \in Seq(S)
  BY SeqMonotonic DEF IsSeq
<1>2. /\ Len(a) \in Nat /\ Len(b) \in Nat
      /\ DOMAIN a = 1 .. Len(a) /\ DOMAIN b = 1 .. Len(b)
  BY <1>1, LenProperties
<1>3. /\ a \o b \in Seq(S) /\ Len(a \o b) = Len(a) + Len(b)
      /\ \A i \in 1 .. Len(a) + Len(b) :
            (a \o b)[i] = IF i <= Len(a) THEN a[i] ELSE b[i - Len(a)]
  BY <1>1, ConcatProperties
<1>4. DOMAIN (a \o b) = 1 .. Len(a) + Len(b)
  BY <1>3, LenProperties
<1>5. IsSeq(a \o b)
  <2> DEFINE c == a \o b
  <2>1. c \in [1 .. Len(c) -> S]
    BY <1>3, LenProperties
  <2> HIDE DEF c
  <2>2. c \in [1 .. Len(c) -> ToSet(c)]
    BY <2>1 DEF ToSet
  <2>3. Len(c) \in Nat
    BY <1>2, <1>3 DEF c
  <2>4. c \in Seq(ToSet(c))
    BY <2>2, <2>3, SeqDef
  <2> QED
    BY <2>4 DEF IsSeq, c
<1> QED
  BY <1>2, <1>3, <1>4, <1>5

\* Any function on 1 .. n is a sequence.
LEMMA FunctionIs ==
    ASSUME NEW n \in Nat, NEW f, f = [i \in 1 .. n |-> f[i]]
    PROVE  IsSeq(f) /\ Len(f) = n
<1>1. f \in [1 .. n -> ToSet(f)]
  BY DEF ToSet
<1>2. f \in Seq(ToSet(f))
  BY <1>1, SeqDef
<1> QED
  BY <1>1, <1>2, LenProperties DEF IsSeq

-----------------------------------------------------------------------------
\* Graphs.

Graph(p) ==
    IsFiniteSet(NodesOf(p)) /\ NodesOf(p) \subseteq Nat /\ p.deps \in [NodesOf(p) -> SUBSET Nat]

Wider(p, W) == W \cup UNION {p.deps[m] : m \in W \cap NodesOf(p)}

LEMMA WithinIs ==
    ASSUME NEW p, Graph(p), NEW n \in NodesOf(p)
    PROVE  /\ Count(p) \in Nat
           /\ Within(p, n) \in [0 .. Count(p) -> SUBSET Nat]
           /\ Within(p, n)[0] = p.deps[n]
           /\ \A k \in 1 .. Count(p) : Within(p, n)[k] = Wider(p, Within(p, n)[k - 1])
<1> DEFINE c == Count(p)
           S == SUBSET Nat
           G == [W \in S |-> Wider(p, W)]
           Is(f) == f = [k \in 0 .. c |-> IF k = 0 THEN p.deps[n] ELSE Wider(p, f[k - 1])]
<1>1. c \in Nat
  BY FS_CardinalityType DEF Graph, Count
<1>2. G \in [S -> S] /\ \A W \in S : G[W] = Wider(p, W)
  BY DEF Graph, Wider
<1>3. p.deps[n] \in S
  BY DEF Graph
<1> HIDE DEF G, S, c
<1>4. PICK f \in [0 .. c -> S] :
          f[0] = p.deps[n] /\ \A k \in 1 .. c : f[k] = G[f[k - 1]]
  <2> DEFINE a == p.deps[n]
  <2>1. G \in [S -> S] /\ a \in S
    BY <1>2, <1>3
  <2> HIDE DEF a
  <2>2. \E f : IsIteration(f, S, G, a, c)
    BY <1>1, <2>1, Iterates
  <2> QED
    BY <2>2 DEF a, IsIteration
<1>5. Is(f)
  <2>1. ASSUME NEW k \in 0 .. c
        PROVE  f[k] = IF k = 0 THEN p.deps[n] ELSE Wider(p, f[k - 1])
    <3>1. CASE k = 0
      BY <1>4, <3>1
    <3>2. CASE k # 0
      <4>1. k \in 1 .. c /\ k - 1 \in 0 .. c
        BY <1>1, <3>2
      <4> QED
        BY <1>2, <1>4, <3>2, <4>1
    <3> QED
      BY <3>1, <3>2
  <2> QED
    BY <1>4, <2>1
<1>6. Within(p, n) = CHOOSE g : Is(g)
  BY DEF Within, Wider, c
<1>7. Is(Within(p, n))
  BY <1>5, <1>6
<1> DEFINE w == Within(p, n)
<1> HIDE DEF w
<1>8. w = [k \in 0 .. c |-> IF k = 0 THEN p.deps[n] ELSE Wider(p, w[k - 1])]
  BY <1>7 DEF w
<1>9. w[0] = p.deps[n] /\ \A k \in 1 .. c : w[k] = Wider(p, w[k - 1])
  BY <1>1, <1>8
<1>10. \A k \in 0 .. c : w[k] \in SUBSET Nat
  <2> DEFINE Bad == {k \in 0 .. c : w[k] \notin SUBSET Nat}
  <2> SUFFICES ASSUME Bad # {} PROVE FALSE
    OBVIOUS
  <2>1. PICK m \in Bad : \A j \in Bad : m <= j
    <3>1. Bad \in SUBSET Nat
      BY <1>1
    <3> HIDE DEF Bad
    <3> QED
      BY <3>1, SmallestOf
  <2>2. m \in 1 .. c /\ m - 1 \in 0 .. c
    BY <1>1, <1>3, <1>9, <2>1 DEF S
  <2>3. w[m - 1] \in SUBSET Nat
    BY <1>1, <2>1, <2>2
  <2> QED
    BY <1>9, <2>1, <2>2, <2>3 DEF Graph, Wider
<1> QED
  BY <1>1, <1>8, <1>9, <1>10 DEF w, c

Known(p) == \A n \in NodesOf(p) : p.deps[n] \subseteq NodesOf(p)

Follows(p, T) == T \subseteq NodesOf(p) /\ \A m \in T : p.deps[m] \subseteq T

\* What is reached from a node is closed, and the least closed set that holds the node's
\* dependencies.
LEMMA ReachedIs ==
    ASSUME NEW p, Graph(p), Known(p), NEW n \in NodesOf(p)
    PROVE  Follows(p, Reached(p, n)) /\ p.deps[n] \subseteq Reached(p, n)
<1> DEFINE c == Count(p)
           N == NodesOf(p)
           w == Within(p, n)
           G == [W \in SUBSET N |-> Wider(p, W)]
<1>1. /\ c \in Nat /\ w \in [0 .. c -> SUBSET Nat] /\ w[0] = p.deps[n]
      /\ \A k \in 1 .. c : w[k] = Wider(p, w[k - 1])
  BY WithinIs
<1>2. IsFiniteSet(N) /\ Cardinality(N) <= c
  BY <1>1 DEF Graph, Count
<1>3. \A W \in SUBSET N : Wider(p, W) \in SUBSET N /\ W \subseteq Wider(p, W)
  BY DEF Known, Wider
<1>4. G \in [SUBSET N -> SUBSET N] /\ \A W \in SUBSET N : W \subseteq G[W] /\ G[W] = Wider(p, W)
  BY <1>3
<1>5. p.deps[n] \in SUBSET N
  BY DEF Known
<1> HIDE DEF c, N, w, G
<1>6. \A k \in 0 .. c : w[k] \in SUBSET N /\ p.deps[n] \subseteq w[k]
  <2> DEFINE Bad == {k \in 0 .. c : ~(w[k] \in SUBSET N /\ p.deps[n] \subseteq w[k])}
  <2> SUFFICES ASSUME Bad # {} PROVE FALSE
    OBVIOUS
  <2>1. PICK m \in Bad : \A j \in Bad : m <= j
    <3>1. Bad \in SUBSET Nat
      BY <1>1
    <3> HIDE DEF Bad
    <3> QED
      BY <3>1, SmallestOf
  <2>2. m \in 1 .. c /\ m - 1 \in 0 .. c
    BY <1>1, <1>5, <2>1
  <2>3. w[m - 1] \in SUBSET N /\ p.deps[n] \subseteq w[m - 1]
    BY <1>1, <2>1, <2>2
  <2>4. w[m] \in SUBSET N /\ w[m - 1] \subseteq w[m]
    BY <1>1, <1>3, <2>2, <2>3
  <2> QED
    BY <2>1, <2>3, <2>4
<1>7. w \in [0 .. c -> SUBSET N] /\ \A k \in 1 .. c : w[k] = G[w[k - 1]]
  <2>1. ASSUME NEW k \in 1 .. c
        PROVE  w[k] = G[w[k - 1]]
    <3>1. k - 1 \in 0 .. c
      BY <1>1
    <3> QED
      BY <1>1, <1>4, <1>6, <3>1
  <2>2. w = [k \in 0 .. c |-> w[k]]
    BY <1>1
  <2> QED
    BY <1>6, <2>1, <2>2
<1>8. G[w[c]] = w[c]
  <2>1. Climbs(w, N, G, c)
    BY <1>4, <1>7 DEF Climbs
  <2> QED
    BY <1>1, <1>2, <2>1, Saturates
<1>9. w[c] \in SUBSET N /\ p.deps[n] \subseteq w[c] /\ Wider(p, w[c]) = w[c]
  BY <1>1, <1>4, <1>6, <1>8
<1> QED
  BY <1>9 DEF Reached, Follows, Wider, c, w, N

LEMMA ReachedLeast ==
    ASSUME NEW p, Graph(p), NEW n \in NodesOf(p), NEW T, Follows(p, T), p.deps[n] \subseteq T
    PROVE  Reached(p, n) \subseteq T
<1> DEFINE c == Count(p)
           w == Within(p, n)
           Bad == {k \in 0 .. c : ~(w[k] \subseteq T)}
<1>1. /\ c \in Nat /\ w[0] = p.deps[n]
      /\ \A k \in 1 .. c : w[k] = Wider(p, w[k - 1])
  BY WithinIs
<1> HIDE DEF c, w
<1>2. Bad = {}
  <2> SUFFICES ASSUME Bad # {} PROVE FALSE
    OBVIOUS
  <2>1. PICK m \in Bad : \A j \in Bad : m <= j
    <3>1. Bad \in SUBSET Nat
      BY <1>1
    <3> HIDE DEF Bad
    <3> QED
      BY <3>1, SmallestOf
  <2>2. m \in 1 .. c /\ m - 1 \in 0 .. c
    BY <1>1, <2>1
  <2>3. w[m - 1] \subseteq T
    BY <1>1, <2>1, <2>2
  <2>4. Wider(p, w[m - 1]) \subseteq T
    BY <2>3 DEF Wider, Follows
  <2> QED
    BY <1>1, <2>1, <2>2, <2>4
<1>3. c \in 0 .. c
  BY <1>1
<1> QED
  BY <1>2, <1>3 DEF Reached, c, w

\* What a dependency reaches its node reaches too.
LEMMA ReachedOn ==
    ASSUME NEW p, Graph(p), Known(p), NEW n \in NodesOf(p), NEW d \in p.deps[n]
    PROVE  d \in Reached(p, n) /\ d \in NodesOf(p) /\ Reached(p, d) \subseteq Reached(p, n)
<1>1. d \in NodesOf(p)
  BY DEF Known
<1>2. Follows(p, Reached(p, n)) /\ d \in Reached(p, n)
  BY ReachedIs
<1>3. p.deps[d] \subseteq Reached(p, n)
  BY <1>2 DEF Follows
<1> QED
  BY <1>1, <1>2, <1>3, ReachedLeast

\* Nodes that each wait for another one of them are on a cycle.
LEMMA WaitingIsACycle ==
    ASSUME NEW p, Graph(p), Known(p), NEW U \in SUBSET NodesOf(p), U # {},
           \A n \in U : \E d \in p.deps[n] : d \in U
    PROVE  HasCycle(p)
<1> DEFINE Sizes == {Cardinality(Reached(p, n)) : n \in U}
<1>1. ASSUME NEW n \in U
      PROVE  IsFiniteSet(Reached(p, n)) /\ Cardinality(Reached(p, n)) \in Nat
  <2>1. Reached(p, n) \in SUBSET NodesOf(p)
    BY ReachedIs DEF Follows
  <2> QED
    BY <2>1, FS_Subset, FS_CardinalityType DEF Graph
<1>2. PICK m \in Sizes : \A j \in Sizes : m <= j
  <2>1. Sizes \in SUBSET Nat /\ Sizes # {}
    BY <1>1
  <2> HIDE DEF Sizes
  <2> QED
    BY <2>1, SmallestOf
<1>3. PICK n \in U : Cardinality(Reached(p, n)) = m
  BY <1>2
<1>4. PICK d \in p.deps[n] : d \in U
  BY <1>3
<1>5. d \in Reached(p, n) /\ Reached(p, d) \subseteq Reached(p, n)
  BY <1>4, ReachedOn
<1>6. Cardinality(Reached(p, d)) >= Cardinality(Reached(p, n))
  BY <1>2, <1>3, <1>4
<1>7. Cardinality(Reached(p, d)) = Cardinality(Reached(p, n))
  <2>1. Reached(p, d) \in SUBSET Reached(p, n) /\ IsFiniteSet(Reached(p, n))
    BY <1>1, <1>5
  <2>2. Cardinality(Reached(p, d)) <= Cardinality(Reached(p, n))
    BY <2>1, FS_Subset
  <2> QED
    BY <1>1, <1>4, <1>6, <2>2
<1>8. Reached(p, d) = Reached(p, n)
  <2>1. Reached(p, d) \in SUBSET Reached(p, n) /\ IsFiniteSet(Reached(p, n))
    BY <1>1, <1>5
  <2> QED
    BY <1>7, <2>1, FS_Subset
<1> QED
  BY <1>4, <1>5, <1>8 DEF HasCycle

-----------------------------------------------------------------------------
\* The waves of a graph without cycles.

Dag(p) == Graph(p) /\ Known(p) /\ ~HasCycle(p)

LEMMA BeforeIs ==
    ASSUME NEW p, Graph(p)
    PROVE  /\ Count(p) \in Nat
           /\ Before(p) \in [0 .. Count(p) -> SUBSET NodesOf(p)]
           /\ Before(p)[0] = {}
           /\ \A k \in 1 .. Count(p) :
                 Before(p)[k] = Before(p)[k - 1] \cup ReadyNodes(p, Before(p)[k - 1])
<1> DEFINE c == Count(p)
           S == SUBSET NodesOf(p)
           a == {}
           G == [W \in S |-> W \cup ReadyNodes(p, W)]
           Is(f) == f = [k \in 0 .. c |->
                            IF k = 0 THEN {} ELSE f[k - 1] \cup ReadyNodes(p, f[k - 1])]
<1>1. c \in Nat
  BY FS_CardinalityType DEF Graph, Count
<1>2. G \in [S -> S] /\ \A W \in S : G[W] = W \cup ReadyNodes(p, W)
  BY DEF ReadyNodes
<1>3. a \in S
  OBVIOUS
<1> HIDE DEF G, S, c, a
<1>4. PICK f : IsIteration(f, S, G, a, c)
  BY <1>1, <1>2, <1>3, Iterates
<1>5. f \in [0 .. c -> S] /\ f[0] = a /\ \A k \in 1 .. c : f[k] = G[f[k - 1]]
  BY <1>4 DEF IsIteration
<1>6. Is(f)
  <2>1. ASSUME NEW k \in 0 .. c
        PROVE  f[k] = IF k = 0 THEN {} ELSE f[k - 1] \cup ReadyNodes(p, f[k - 1])
    <3>1. CASE k = 0
      BY <1>5, <3>1 DEF a
    <3>2. CASE k # 0
      <4>1. k \in 1 .. c /\ k - 1 \in 0 .. c
        BY <1>1, <3>2
      <4> QED
        BY <1>2, <1>5, <3>2, <4>1
    <3> QED
      BY <3>1, <3>2
  <2> QED
    BY <1>5, <2>1
<1>7. Before(p) = CHOOSE g : Is(g)
  BY DEF Before, c
<1>8. Is(Before(p))
  BY <1>6, <1>7
<1> DEFINE w == Before(p)
<1> HIDE DEF w
<1>9. w = [k \in 0 .. c |-> IF k = 0 THEN {} ELSE w[k - 1] \cup ReadyNodes(p, w[k - 1])]
  BY <1>8 DEF w
<1>10. w[0] = {} /\ \A k \in 1 .. c : w[k] = w[k - 1] \cup ReadyNodes(p, w[k - 1])
  <2>1. 0 \in 0 .. c /\ \A k \in 1 .. c : k \in 0 .. c /\ k # 0
    BY <1>1
  <2> QED
    BY <1>9, <2>1, Zenon
<1>11. \A k \in 0 .. c : w[k] \in S
  <2> DEFINE Bad == {k \in 0 .. c : w[k] \notin S}
  <2> SUFFICES ASSUME Bad # {} PROVE FALSE
    OBVIOUS
  <2>1. PICK m \in Bad : \A j \in Bad : m <= j
    <3>1. Bad \in SUBSET Nat
      BY <1>1
    <3> HIDE DEF Bad
    <3> QED
      BY <3>1, SmallestOf
  <2>2. m \in 1 .. c /\ m - 1 \in 0 .. c
    BY <1>1, <1>10, <2>1 DEF S
  <2>3. w[m - 1] \in S
    BY <1>1, <2>1, <2>2
  <2> QED
    BY <1>10, <2>1, <2>2, <2>3 DEF ReadyNodes, S
<1> QED
  BY <1>1, <1>9, <1>10, <1>11 DEF w, c, S

\* When nothing is ready any more, nothing is left.
LEMMA NoneReady ==
    ASSUME NEW p, Dag(p), NEW C \in SUBSET NodesOf(p), ReadyNodes(p, C) = {}
    PROVE  C = NodesOf(p)
<1> SUFFICES ASSUME C # NodesOf(p) PROVE FALSE
  OBVIOUS
<1> DEFINE U == NodesOf(p) \ C
<1>1. U \in SUBSET NodesOf(p) /\ U # {}
  OBVIOUS
<1>2. \A n \in U : \E d \in p.deps[n] : d \in U
  BY DEF ReadyNodes, Dag, Known
<1> HIDE DEF U
<1> QED
  BY <1>1, <1>2, WaitingIsACycle DEF Dag

LEMMA BeforeAll ==
    ASSUME NEW p, Dag(p)
    PROVE  Before(p)[Count(p)] = NodesOf(p)
<1> DEFINE c == Count(p)
           N == NodesOf(p)
           w == Before(p)
           G == [W \in SUBSET N |-> W \cup ReadyNodes(p, W)]
<1>1. /\ c \in Nat /\ w \in [0 .. c -> SUBSET N]
      /\ \A k \in 1 .. c : w[k] = w[k - 1] \cup ReadyNodes(p, w[k - 1])
  BY BeforeIs DEF Dag
<1>2. IsFiniteSet(N) /\ Cardinality(N) <= c
  BY <1>1 DEF Dag, Graph, Count
<1>3. /\ G \in [SUBSET N -> SUBSET N]
      /\ \A W \in SUBSET N : W \subseteq G[W] /\ G[W] = W \cup ReadyNodes(p, W)
  BY DEF ReadyNodes
<1> HIDE DEF c, N, w, G
<1>4. Climbs(w, N, G, c)
  <2>1. ASSUME NEW k \in 1 .. c
        PROVE  w[k] = G[w[k - 1]]
    <3>1. k - 1 \in 0 .. c
      BY <1>1
    <3> QED
      BY <1>1, <1>3, <3>1
  <2> QED
    BY <1>1, <1>3, <2>1 DEF Climbs
<1>5. G[w[c]] = w[c]
  BY <1>1, <1>2, <1>4, Saturates
<1>6. w[c] \in SUBSET N /\ w[c] \cup ReadyNodes(p, w[c]) = w[c]
  BY <1>1, <1>3, <1>5
<1>7. ReadyNodes(p, w[c]) = {}
  BY <1>6 DEF ReadyNodes
<1>8. w[c] = N
  BY <1>6, <1>7, NoneReady DEF N
<1> QED
  BY <1>8 DEF w, c, N

LEMMA LevelsCover ==
    ASSUME NEW p, Dag(p)
    PROVE  UNION ToSet(Levels(p)) = NodesOf(p)
<1> DEFINE c == Count(p)
           w == Before(p)
           D == {j \in 1 .. c : Level(p, j) # {}}
<1>1. /\ c \in Nat /\ w \in [0 .. c -> SUBSET NodesOf(p)] /\ w[0] = {} /\ w[c] = NodesOf(p)
      /\ \A k \in 1 .. c : w[k] = w[k - 1] \cup Level(p, k)
  BY BeforeIs, BeforeAll DEF Dag, Level
<1>2. ToSet(Levels(p)) = {Level(p, k) : k \in D}
  BY DEF ToSet, Levels
<1>3. ASSUME NEW k \in D
      PROVE  Level(p, k) \subseteq NodesOf(p)
  BY DEF Level, ReadyNodes
<1>4. ASSUME NEW n \in NodesOf(p)
      PROVE  \E k \in D : n \in Level(p, k)
  <2> DEFINE T == {k \in 0 .. c : n \in w[k]}
  <2>1. PICK m \in T : \A j \in T : m <= j
    <3>1. T \in SUBSET Nat /\ T # {}
      BY <1>1
    <3> HIDE DEF T
    <3> QED
      BY <3>1, SmallestOf
  <2> HIDE DEF w, c
  <2>2. m \in 1 .. c /\ m - 1 \in 0 .. c
    BY <1>1, <2>1
  <2>3. n \notin w[m - 1]
    BY <1>1, <2>1, <2>2
  <2>4. n \in Level(p, m)
    BY <1>1, <2>1, <2>2, <2>3
  <2> QED
    BY <2>2, <2>4 DEF c
<1> HIDE DEF D
<1> QED
  BY <1>2, <1>3, <1>4

\* Waves that follow the levels until every node has had its turn are the levels.
LEMMA LevelsAre ==
    ASSUME NEW p, Dag(p), NEW L \in 0 .. Count(p), Before(p)[L] = NodesOf(p),
           NEW ws, ws = [k \in 1 .. L |-> ws[k]],
           \A k \in 1 .. L : ws[k] # {} /\ ws[k] = Level(p, k)
    PROVE  ws = Levels(p)
<1> DEFINE c == Count(p)
           w == Before(p)
           N == NodesOf(p)
           Bad == {k \in L .. c : w[k] # N}
<1>1. /\ c \in Nat /\ w \in [0 .. c -> SUBSET N] /\ w[L] = N
      /\ \A k \in 1 .. c : w[k] = w[k - 1] \cup ReadyNodes(p, w[k - 1])
  BY BeforeIs DEF Dag
<1>2. ReadyNodes(p, N) = {}
  BY DEF ReadyNodes
<1>3. L \in Nat /\ L <= c
  BY <1>1
<1> HIDE DEF c, w, N
<1>4. Bad = {}
  <2> SUFFICES ASSUME Bad # {} PROVE FALSE
    OBVIOUS
  <2>1. PICK m \in Bad : \A j \in Bad : m <= j
    <3>1. Bad \in SUBSET Nat
      BY <1>1, <1>3
    <3> HIDE DEF Bad
    <3> QED
      BY <3>1, SmallestOf
  <2>2. m \in 1 .. c /\ m - 1 \in L .. c
    BY <1>1, <1>3, <2>1
  <2>3. w[m - 1] = N
    BY <1>1, <1>3, <2>1, <2>2
  <2>4. w[m] = w[m - 1] \cup ReadyNodes(p, w[m - 1])
    BY <1>1, <2>2, Zenon
  <2>5. w[m] = N \cup ReadyNodes(p, N)
    BY <2>3, <2>4, Zenon
  <2>6. w[m] = N
    BY <1>2, <2>5
  <2> QED
    BY <2>1, <2>6
<1>5. ASSUME NEW k \in 1 .. c, k > L
      PROVE  Level(p, k) = {}
  <2>1. k - 1 \in L .. c
    BY <1>1, <1>3, <1>5
  <2>2. w[k - 1] = N
    BY <1>4, <2>1
  <2> QED
    BY <1>2, <2>2 DEF Level, w
<1>6. {j \in 1 .. c : Level(p, j) # {}} = 1 .. L
  BY <1>1, <1>3, <1>5
<1>7. Levels(p) = [k \in {j \in 1 .. c : Level(p, j) # {}} |-> Level(p, k)]
  BY DEF Levels, c
<1>8. Levels(p) = [k \in 1 .. L |-> Level(p, k)]
  BY <1>6, <1>7
<1> QED
  BY <1>8

-----------------------------------------------------------------------------
\* Kahn's order of a graph without cycles.

LEMMA LeastIs ==
    ASSUME NEW S \in SUBSET Nat, S # {}
    PROVE  Least(S) \in S
<1>1. \E n \in S : \A m \in S : n <= m
  BY SmallestOf
<1> QED
  BY <1>1, Zenon DEF Least

LEMMA PlaceNextIs ==
    ASSUME NEW p, Graph(p), NEW s \in Seq(NodesOf(p))
    PROVE  /\ PlaceNext(p, s) \in Seq(NodesOf(p))
           /\ Free(p, ToSet(s)) = {} => PlaceNext(p, s) = s
           /\ Free(p, ToSet(s)) # {} => \E n \in NodesOf(p) \ ToSet(s) :
                 ToSet(PlaceNext(p, s)) = ToSet(s) \cup {n}
<1> DEFINE free == Free(p, ToSet(s))
           n == Least(free)
<1>1. CASE free = {}
  BY <1>1 DEF PlaceNext
<1>2. CASE free # {}
  <2>1. free \in SUBSET NodesOf(p) /\ free \in SUBSET Nat
    BY DEF Free, Graph
  <2>2. n \in free
    BY <1>2, <2>1, LeastIs
  <2>3. n \in NodesOf(p) \ ToSet(s)
    BY <2>2 DEF Free
  <2>4. PlaceNext(p, s) = Append(s, n)
    BY <1>2 DEF PlaceNext
  <2> HIDE DEF n
  <2>5. Append(s, n) \in Seq(NodesOf(p))
    BY <2>3
  <2>6. /\ Len(s) \in Nat /\ DOMAIN s = 1 .. Len(s) /\ DOMAIN Append(s, n) = 1 .. Len(s) + 1
        /\ Append(s, n)[Len(s) + 1] = n /\ \A i \in 1 .. Len(s) : Append(s, n)[i] = s[i]
    BY <2>3
  <2>7. ToSet(Append(s, n)) = ToSet(s) \cup {n}
    BY <2>6 DEF ToSet
  <2> QED
    BY <1>2, <2>3, <2>4, <2>5, <2>7
<1> QED
  BY <1>1, <1>2

LEMMA PlacedIs ==
    ASSUME NEW p, Graph(p)
    PROVE  /\ Count(p) \in Nat
           /\ Placed(p) \in [0 .. Count(p) -> Seq(NodesOf(p))] /\ Placed(p)[0] = <<>>
           /\ \A k \in 1 .. Count(p) : Placed(p)[k] = PlaceNext(p, Placed(p)[k - 1])
<1> DEFINE c == Count(p)
           S == Seq(NodesOf(p))
           a == <<>>
           G == [s \in S |-> PlaceNext(p, s)]
           Is(f) == f = [k \in 0 .. c |-> IF k = 0 THEN <<>> ELSE PlaceNext(p, f[k - 1])]
<1>1. c \in Nat
  BY FS_CardinalityType DEF Graph, Count
<1>2. G \in [S -> S] /\ \A s \in S : G[s] = PlaceNext(p, s)
  BY PlaceNextIs
<1>3. a \in S
  OBVIOUS
<1> HIDE DEF G, S, c, a
<1>4. PICK f : IsIteration(f, S, G, a, c)
  BY <1>1, <1>2, <1>3, Iterates
<1>5. f \in [0 .. c -> S] /\ f[0] = a /\ \A k \in 1 .. c : f[k] = G[f[k - 1]]
  BY <1>4 DEF IsIteration
<1>6. Is(f)
  <2>1. ASSUME NEW k \in 0 .. c
        PROVE  f[k] = IF k = 0 THEN <<>> ELSE PlaceNext(p, f[k - 1])
    <3>1. CASE k = 0
      BY <1>5, <3>1 DEF a
    <3>2. CASE k # 0
      <4>1. k \in 1 .. c /\ k - 1 \in 0 .. c
        BY <1>1, <3>2
      <4> QED
        BY <1>2, <1>5, <3>2, <4>1
    <3> QED
      BY <3>1, <3>2
  <2> QED
    BY <1>5, <2>1
<1>7. Placed(p) = CHOOSE g : Is(g)
  BY DEF Placed, c
<1>8. Is(Placed(p))
  BY <1>6, <1>7
<1> DEFINE w == Placed(p)
<1> HIDE DEF w
<1>9. w = [k \in 0 .. c |-> IF k = 0 THEN <<>> ELSE PlaceNext(p, w[k - 1])]
  BY <1>8 DEF w
<1>10. w[0] = <<>> /\ \A k \in 1 .. c : w[k] = PlaceNext(p, w[k - 1])
  <2>1. 0 \in 0 .. c /\ \A k \in 1 .. c : k \in 0 .. c /\ k # 0
    BY <1>1
  <2> QED
    BY <1>9, <2>1, Zenon
<1>11. \A k \in 0 .. c : w[k] \in S
  <2> DEFINE Bad == {k \in 0 .. c : w[k] \notin S}
  <2> SUFFICES ASSUME Bad # {} PROVE FALSE
    OBVIOUS
  <2>1. PICK m \in Bad : \A j \in Bad : m <= j
    <3>1. Bad \in SUBSET Nat
      BY <1>1
    <3> HIDE DEF Bad
    <3> QED
      BY <3>1, SmallestOf
  <2>2. m \in 1 .. c /\ m - 1 \in 0 .. c
    BY <1>1, <1>3, <1>10, <2>1 DEF a
  <2>3. w[m - 1] \in S
    BY <1>1, <2>1, <2>2
  <2> QED
    BY <1>2, <1>10, <2>1, <2>2, <2>3
<1> QED
  BY <1>1, <1>9, <1>10, <1>11 DEF w, c, S

LEMMA NoLeftover ==
    ASSUME NEW p, Dag(p)
    PROVE  Leftover(p) = {}
<1> DEFINE c == Count(p)
           w == Placed(p)
           P(k) == Free(p, ToSet(w[k])) = {} \/ Cardinality(ToSet(w[k])) >= k
           Bad  == {k \in 0 .. c : ~P(k)}
<1>1. /\ c \in Nat /\ w \in [0 .. c -> Seq(NodesOf(p))]
      /\ \A k \in 1 .. c : w[k] = PlaceNext(p, w[k - 1])
  BY PlacedIs DEF Dag
<1>2. IsFiniteSet(NodesOf(p)) /\ Cardinality(NodesOf(p)) = c
  BY DEF Dag, Graph, Count
<1> HIDE DEF c, w
<1>3. ASSUME NEW k \in 0 .. c
      PROVE  /\ ToSet(w[k]) \in SUBSET NodesOf(p) /\ IsFiniteSet(ToSet(w[k]))
             /\ Cardinality(ToSet(w[k])) \in Nat
  <2>1. w[k] \in Seq(NodesOf(p))
    BY <1>1
  <2>2. ToSet(w[k]) \in SUBSET NodesOf(p)
    BY <2>1 DEF ToSet
  <2> QED
    BY <1>2, <2>2, FS_Subset, FS_CardinalityType
<1>4. Bad = {}
  <2> SUFFICES ASSUME Bad # {} PROVE FALSE
    OBVIOUS
  <2>1. PICK m \in Bad : \A j \in Bad : m <= j
    <3>1. Bad \in SUBSET Nat
      BY <1>1
    <3> HIDE DEF Bad
    <3> QED
      BY <3>1, SmallestOf
  <2>2. m \in 1 .. c /\ m - 1 \in 0 .. c /\ m \in 0 .. c
    BY <1>1, <1>3, <2>1
  <2>3. P(m - 1)
    BY <1>1, <2>1, <2>2
  <2> DEFINE s == w[m - 1]
  <2>4. w[m] = PlaceNext(p, s) /\ s \in Seq(NodesOf(p))
    BY <1>1, <2>2
  <2>5. CASE Free(p, ToSet(s)) = {}
    <3>1. w[m] = s
      BY <2>4, <2>5, PlaceNextIs DEF Dag
    <3> QED
      BY <2>1, <2>5, <3>1
  <2>6. CASE Free(p, ToSet(s)) # {}
    <3>1. PICK n \in NodesOf(p) \ ToSet(s) : ToSet(w[m]) = ToSet(s) \cup {n}
      BY <2>4, <2>6, PlaceNextIs DEF Dag
    <3>2. Cardinality(ToSet(w[m])) = Cardinality(ToSet(s)) + 1
      BY <1>3, <2>2, <3>1, FS_AddElement
    <3>3. Cardinality(ToSet(s)) >= m - 1 /\ Cardinality(ToSet(s)) \in Nat
      BY <1>3, <2>2, <2>3, <2>6
    <3>4. Cardinality(ToSet(w[m])) >= m
      BY <1>1, <2>2, <3>2, <3>3
    <3> QED
      BY <2>1, <3>4
  <2> QED
    BY <2>5, <2>6
<1> DEFINE D == ToSet(w[c])
           U == NodesOf(p) \ D
<1>5. D \in SUBSET NodesOf(p) /\ Cardinality(D) \in Nat
  BY <1>1, <1>3
<1>6. Free(p, D) = {}
  <2>1. P(c)
    <3>1. c \in 0 .. c
      BY <1>1
    <3> HIDE DEF P
    <3> QED
      BY <1>4, <3>1
  <2>2. CASE Cardinality(D) >= c
    <3>1. Cardinality(D) = Cardinality(NodesOf(p))
      BY <1>1, <1>2, <1>5, <2>2, FS_Subset
    <3>2. D = NodesOf(p)
      BY <1>2, <1>5, <3>1, FS_Subset
    <3> QED
      BY <3>2 DEF Free
  <2> QED
    BY <2>1, <2>2
<1>7. U = {}
  <2> SUFFICES ASSUME U # {} PROVE FALSE
    OBVIOUS
  <2>1. \A n \in U : \E d \in p.deps[n] : d \in U
    BY <1>6 DEF Free, Dag, Known
  <2>2. U \in SUBSET NodesOf(p)
    OBVIOUS
  <2> HIDE DEF U
  <2> QED
    BY <2>1, <2>2, WaitingIsACycle DEF Dag
<1> QED
  BY <1>7 DEF Leftover, KahnOrder, w, c

\* In Kahn's order every node stands once, behind what it depends on.

Ordered(p, s) ==
    /\ s \in Seq(NodesOf(p))
    /\ \A i, j \in 1 .. Len(s) : s[i] = s[j] => i = j
    /\ \A i \in 1 .. Len(s) : p.deps[s[i]] \subseteq {s[j] : j \in 1 .. i - 1}

LEMMA PlaceNextOrders ==
    ASSUME NEW p, Graph(p), Known(p), NEW s, Ordered(p, s)
    PROVE  Ordered(p, PlaceNext(p, s))
<1> DEFINE free == Free(p, ToSet(s))
           n == Least(free)
<1>1. CASE free = {}
  BY <1>1 DEF PlaceNext
<1>2. CASE free # {}
  <2>1. free \in SUBSET NodesOf(p) /\ free \in SUBSET Nat
    BY DEF Free, Graph
  <2>2. n \in free
    BY <1>2, <2>1, LeastIs
  <2>3. s \in Seq(NodesOf(p))
    BY DEF Ordered
  <2>4. n \in NodesOf(p) /\ n \notin ToSet(s) /\ p.deps[n] \subseteq ToSet(s)
    BY <2>2 DEF Free, Known
  <2>5. PlaceNext(p, s) = Append(s, n)
    BY <1>2 DEF PlaceNext
  <2> HIDE DEF n, free
  <2>6. /\ Len(s) \in Nat /\ DOMAIN s = 1 .. Len(s)
        /\ Append(s, n) \in Seq(NodesOf(p)) /\ Len(Append(s, n)) = Len(s) + 1
        /\ Append(s, n)[Len(s) + 1] = n /\ \A i \in 1 .. Len(s) : Append(s, n)[i] = s[i]
    BY <2>3, <2>4
  <2> DEFINE t == Append(s, n)
             L == Len(s)
  <2>7. ToSet(s) = {s[j] : j \in 1 .. L}
    BY <2>6 DEF ToSet
  <2> HIDE DEF t, L
  <2>8. /\ L \in Nat /\ Len(t) = L + 1 /\ t[L + 1] = n /\ \A i \in 1 .. L : t[i] = s[i]
        /\ t \in Seq(NodesOf(p))
    BY <2>6 DEF t, L
  <2>9. \A i, j \in 1 .. L : s[i] = s[j] => i = j
    BY DEF Ordered, L
  <2>10. \A i \in 1 .. L : p.deps[s[i]] \subseteq {s[j] : j \in 1 .. i - 1}
    BY DEF Ordered, L
  <2>11. ASSUME NEW i \in 1 .. Len(t), NEW j \in 1 .. Len(t), t[i] = t[j]
         PROVE  i = j
    <3>1. \A k \in 1 .. L : t[k] \in ToSet(s)
      BY <2>7, <2>8
    <3>2. (i \in 1 .. L \/ i = L + 1) /\ (j \in 1 .. L \/ j = L + 1)
      BY <2>8
    <3> QED
      BY <2>4, <2>8, <2>9, <2>11, <3>1, <3>2
  <2>12. ASSUME NEW i \in 1 .. Len(t)
         PROVE  p.deps[t[i]] \subseteq {t[j] : j \in 1 .. i - 1}
    <3>1. i \in 1 .. L \/ i = L + 1
      BY <2>8
    <3>2. \A j \in 1 .. i - 1 : j \in 1 .. L
      BY <2>8
    <3>3. {t[j] : j \in 1 .. i - 1} = {s[j] : j \in 1 .. i - 1}
      BY <2>8, <3>2
    <3>4. CASE i \in 1 .. L
      BY <2>8, <2>10, <3>3, <3>4
    <3>5. CASE i = L + 1
      <4>1. i - 1 = L /\ t[i] = n
        BY <2>8, <3>5
      <4> QED
        BY <2>4, <2>7, <3>3, <4>1
    <3> QED
      BY <3>1, <3>4, <3>5
  <2>13. Ordered(p, t)
    BY <2>8, <2>11, <2>12 DEF Ordered
  <2> QED
    BY <2>5, <2>13 DEF t
<1> QED
  BY <1>1, <1>2

LEMMA KahnOrders ==
    ASSUME NEW p, Dag(p)
    PROVE  Ordered(p, KahnOrder(p)) /\ ToSet(KahnOrder(p)) = NodesOf(p)
<1> DEFINE c == Count(p)
           w == Placed(p)
           Bad == {k \in 0 .. c : ~Ordered(p, w[k])}
<1>1. /\ c \in Nat /\ w \in [0 .. c -> Seq(NodesOf(p))] /\ w[0] = <<>>
      /\ \A k \in 1 .. c : w[k] = PlaceNext(p, w[k - 1])
  BY PlacedIs DEF Dag
<1> HIDE DEF c, w
<1>2. Ordered(p, w[0])
  BY <1>1 DEF Ordered
<1>3. Bad = {}
  <2> SUFFICES ASSUME Bad # {} PROVE FALSE
    OBVIOUS
  <2>1. PICK m \in Bad : \A j \in Bad : m <= j
    <3>1. Bad \in SUBSET Nat
      BY <1>1
    <3> HIDE DEF Bad
    <3> QED
      BY <3>1, SmallestOf
  <2>2. m \in 1 .. c /\ m - 1 \in 0 .. c
    BY <1>1, <1>2, <2>1
  <2>3. Ordered(p, w[m - 1])
    BY <1>1, <2>1, <2>2
  <2>4. Ordered(p, w[m])
    BY <1>1, <2>2, <2>3, PlaceNextOrders DEF Dag
  <2> QED
    BY <2>1, <2>4
<1>4. Ordered(p, w[c])
  <2>1. c \in 0 .. c
    BY <1>1
  <2> QED
    BY <1>3, <2>1
<1>5. ToSet(w[c]) \subseteq NodesOf(p)
  BY <1>4 DEF Ordered, ToSet
<1>6. NodesOf(p) \ ToSet(w[c]) = {}
  BY NoLeftover DEF Leftover, KahnOrder, w, c
<1> QED
  BY <1>4, <1>5, <1>6 DEF KahnOrder, w, c

\* What a node reaches stands in front of it.
LEMMA ReachedInFront ==
    ASSUME NEW p, Dag(p), NEW s, Ordered(p, s), NEW k \in 1 .. Len(s)
    PROVE  Reached(p, s[k]) \subseteq {s[j] : j \in 1 .. k - 1}
<1> DEFINE T == {s[j] : j \in 1 .. k - 1}
<1>1. /\ s \in Seq(NodesOf(p)) /\ Len(s) \in Nat
      /\ \A i \in 1 .. Len(s) : s[i] \in NodesOf(p)
      /\ \A i \in 1 .. Len(s) : p.deps[s[i]] \subseteq {s[j] : j \in 1 .. i - 1}
  BY DEF Ordered
<1>2. Follows(p, T)
  <2>1. ASSUME NEW i \in 1 .. k - 1
        PROVE  s[i] \in NodesOf(p) /\ p.deps[s[i]] \subseteq T
    <3>1. i \in 1 .. Len(s) /\ \A j \in 1 .. i - 1 : j \in 1 .. k - 1
      BY <1>1
    <3> QED
      BY <1>1, <3>1
  <2> QED
    BY <2>1 DEF Follows
<1>3. p.deps[s[k]] \subseteq T /\ s[k] \in NodesOf(p)
  BY <1>1
<1> HIDE DEF T
<1>4. Reached(p, s[k]) \subseteq T
  BY <1>2, <1>3, ReachedLeast DEF Dag
<1> QED
  BY <1>4 DEF T

\* What the critic accepts can be planned: plan_waves does not raise.
LEMMA AcceptedIsPlannable ==
    ASSUME NEW p, Graph(p), CriticAccepts(p)
    PROVE  Dag(p) /\ Plannable(p)
<1>1. Dag(p)
  BY DEF CriticAccepts, Dag, Known
<1> QED
  BY <1>1, NoLeftover, LevelsCover DEF Plannable

-----------------------------------------------------------------------------
\* The invariant.

\* Between waves all workers are off, and a node's tuple says whether it is still to run.
Busy(w) == worker[w].pc \notin {"off", "take"}

WorkersOK ==
    /\ phase # "wave" => \A w \in Workers : worker[w].pc = "off"
    /\ \A w \in Workers : Busy(w) =>
        /\ worker[w].node \in Wave /\ worker[w].gen <= board[worker[w].node].gen
    /\ \A w \in Workers : worker[w].pc \notin {"report", "finish"} => worker[w].result = "ok"

\* What a claim may do: a fenced one is not current, one that is about to write holds
\* the path, one that handed in its outcome was the newest.
ClaimsOK ==
    /\ \A w \in Workers : worker[w].pc = "report" /\ worker[w].result = "fence" => ~IsCurrent(w)
    /\ \A w \in Workers : worker[w].pc = "write" => MayWrite(worker[w].node, Step(w).path)
    /\ \A f \in Paths : \A n \in writers[f] : n \in Wave /\ MayWrite(n, f)
    /\ NewestReports

PhaseOK ==
    /\ phase \in {"between", "wave", "ended"} => CriticAccepts(plan) /\ Plannable(plan)
    /\ phase \in {"critic", "rejected"} =>
        waves = <<>> /\ completed = {} /\ trapped = {} /\ remaining = Nodes
    /\ phase # "error"

\* The nodes are split among those completed, those trapped and those to come.
SplitOK ==
    /\ remaining = Nodes \ (completed \cup trapped) /\ completed \cap trapped = {}
    /\ phase = "wave" => waves # <<>> /\ Wave # {} /\ Wave = ReadyNodes(plan, completed) \cap remaining
    /\ \A n \in Nodes : board[n].at =
          IF n \notin remaining THEN "done"
          ELSE IF phase = "wave" /\ n \in Wave THEN board[n].at ELSE "absent"
    /\ phase = "wave" => \A n \in Wave : board[n].at # "absent"
    /\ phase = "wave" => \A n \in Wave : outcome[n] # "none" => board[n].at = "done"
    /\ phase = "wave" /\ (\A w \in Workers : worker[w].pc = "off") => Done

\* Without a trap the waves are the levels, one after the other.
Ran == IF phase = "wave" THEN Len(waves) - 1 ELSE Len(waves)

LevelsOK ==
    trapped = {} =>
        /\ Len(waves) <= Cardinality(completed \cup (IF phase = "wave" THEN Wave ELSE {}))
        /\ completed = Before(plan)[Ran]
        /\ \A k \in 1 .. Len(waves) : waves[k] # {} /\ waves[k] = Level(plan, k)

EndOK == phase = "ended" => ReadyNodes(plan, completed) \cap remaining = {}

IInv == TypeOK /\ WorkersOK /\ ClaimsOK /\ PhaseOK /\ SplitOK /\ LevelsOK /\ EndOK

LEMMA PlanIs ==
    ASSUME plan \in Plans
    PROVE  Graph(plan)
BY PlanAssumption DEF Graph

\* What a step of a program can be.
ProgramOK(s) ==
    /\ Len(s) \in Nat /\ DOMAIN s = 1 .. Len(s)
    /\ \A i \in 1 .. Len(s) :
        /\ s[i].do \in {"write", "copy", "trap"}
        /\ s[i].do = "write" => s[i].value \in Contents
        /\ s[i].do = "copy" => s[i].from \in Paths

LEMMA StepsAre ==
    ASSUME NEW p \in Plans, NEW n \in NodesOf(p)
    PROVE  ProgramOK(StepsOf(p, n))
<1> DEFINE A == {f \in p.artifacts : f \in WritesOf(p, n)}
           owned == SetToSeq(A)
           c == Cardinality(A)
           rest == p.steps[n]
           first == [i \in DOMAIN owned |-> [do |-> "write", path |-> owned[i],
                                            from |-> owned[i], value |-> "artifact"]]
<1>1. IsFiniteSet(A) /\ c \in Nat /\ ExistsBijection(1 .. c, A)
  <2>1. A \in SUBSET p.artifacts /\ IsFiniteSet(p.artifacts)
    BY PlanAssumption
  <2> HIDE DEF A
  <2> QED
    BY <2>1, FS_Subset, FS_CardinalityType
<1> HIDE DEF A
<1>2. \E f \in [1 .. c -> A] : IsInjective(f)
  BY <1>1 DEF ExistsBijection, Bijection, Injection, IsInjective
<1>3. owned \in [1 .. c -> A]
  BY <1>2 DEF SetToSeq
<1>4. DOMAIN owned = 1 .. c
  BY <1>3
<1> HIDE DEF c, owned
<1>5. IsSeq(first) /\ Len(first) = c
  <2>1. first = [i \in 1 .. c |-> first[i]]
    BY <1>4
  <2> HIDE DEF first
  <2> QED
    BY <1>1, <2>1, FunctionIs
<1>6. \A i \in 1 .. c : first[i].do = "write" /\ first[i].value = "artifact"
  BY <1>4
<1> HIDE DEF first
<1>7. IsSeq(rest)
  BY PlanAssumption DEF IsSeq
<1>8. \A s \in ToSet(rest) :
        /\ s.do \in {"write", "copy", "trap"}
        /\ s.do = "write" => s.value \in Contents
        /\ s.do = "copy" => s.from \in Paths
  BY PlanAssumption
<1>9. StepsOf(p, n) = first \o rest
  BY DEF StepsOf, first, owned, A
<1> HIDE DEF rest
<1> DEFINE s == StepsOf(p, n)
<1>10. /\ Len(s) = c + Len(rest) /\ Len(rest) \in Nat /\ DOMAIN rest = 1 .. Len(rest)
       /\ DOMAIN s = 1 .. Len(s)
       /\ \A i \in 1 .. c : s[i] = first[i]
       /\ \A i \in 1 .. Len(rest) : s[c + i] = rest[i]
  <2>1. Joined(first, rest, first \o rest)
    BY <1>5, <1>7, ConcatIs
  <2>2. Joined(first, rest, s)
    BY <1>9, <2>1
  <2> HIDE DEF s
  <2> QED
    BY <1>5, <2>2 DEF Joined
<1> HIDE DEF s
<1>11. "artifact" \in Contents
  BY PlanAssumption
<1>12. ASSUME NEW i \in 1 .. Len(s)
       PROVE  /\ s[i].do \in {"write", "copy", "trap"}
              /\ s[i].do = "write" => s[i].value \in Contents
              /\ s[i].do = "copy" => s[i].from \in Paths
  <2>1. CASE i \in 1 .. c
    BY <1>6, <1>10, <1>11, <2>1
  <2>2. CASE i \notin 1 .. c
    <3>1. i - c \in 1 .. Len(rest) /\ c + (i - c) = i
      BY <1>1, <1>10, <2>2
    <3>2. s[i] = rest[i - c] /\ rest[i - c] \in ToSet(rest)
      BY <1>10, <3>1 DEF ToSet
    <3> QED
      BY <1>8, <3>2
  <2> QED
    BY <2>1, <2>2
<1>13. Len(s) \in Nat /\ DOMAIN s = 1 .. Len(s)
  BY <1>1, <1>10
<1>14. ProgramOK(s)
  BY <1>12, <1>13 DEF ProgramOK
<1> QED
  BY <1>14 DEF s

LEMMA OffIs ==
    /\ Off \in WorkerRecords /\ Off.pc = "off" /\ Off.result = "ok"
    /\ [Off EXCEPT !.pc = "take"] \in WorkerRecords
BY PlanAssumption DEF Off, WorkerRecords, Absent, Outcomes

LEMMA IInit == Init => IInv
<1> SUFFICES ASSUME Init PROVE IInv
  OBVIOUS
<1> USE DEF Init
<1>1. TypeOK
  <2>1. Off \in WorkerRecords
    BY OffIs
  <2>2. worker \in [Workers -> WorkerRecords]
    BY <2>1
  <2>3. files \in [Paths -> Contents] /\ writers \in [Paths -> SUBSET Nodes]
    BY PlanAssumption DEF FilesBefore, Absent
  <2>4. lapses \in 0 .. MaxLapses
    BY WorkerAssumption
  <2>5. waves \in Seq(SUBSET Nodes)
    OBVIOUS
  <2>6. /\ board \in [Nodes -> [at : {"absent", "free", "held", "done"}, gen : Nat]]
        /\ outcome \in [Nodes -> Outcomes \cup {"none"}]
        /\ completed \subseteq Nodes /\ trapped \subseteq Nodes /\ remaining \subseteq Nodes
    BY DEF Nodes
  <2> QED
    BY <2>2, <2>3, <2>4, <2>5, <2>6 DEF TypeOK
<1>2. WorkersOK
  BY DEF WorkersOK, Busy, Off
<1>3. ClaimsOK
  BY DEF ClaimsOK, NewestReports, Off
<1>4. PhaseOK
  BY DEF PhaseOK, Nodes
<1>5. SplitOK
  BY DEF SplitOK, Nodes
<1>6. LevelsOK
  <2>1. Graph(plan)
    BY PlanIs
  <2>2. Before(plan)[0] = {}
    BY <2>1, BeforeIs
  <2>3. Cardinality({}) = 0
    BY FS_EmptySet
  <2> QED
    BY <2>2, <2>3 DEF LevelsOK, Ran, Wave
<1>7. EndOK
  BY DEF EndOK
<1> QED
  BY <1>1, <1>2, <1>3, <1>4, <1>5, <1>6, <1>7 DEF IInv

\* What the workers and the leases leave alone.
Frame == UNCHANGED <<plan, phase, completed, trapped, remaining, waves>>

LEMMA FrameKeeps ==
    ASSUME IInv, Frame
    PROVE  PhaseOK' /\ LevelsOK' /\ EndOK' /\ Wave' = Wave /\ Nodes' = Nodes
           /\ \A n, f : MayWrite(n, f)' <=> MayWrite(n, f)
BY DEF IInv, Frame, PhaseOK, LevelsOK, EndOK, Wave, Nodes, Ran, MayWrite

IsClaim(r, n, g) ==
    r \in WorkerRecords /\ r.pc = "claimed" /\ r.node = n /\ r.gen = g /\ r.result = "ok"

LEMMA ClaimIs ==
    ASSUME NEW n \in Nodes, NEW g \in Nat
    PROVE  IsClaim([Off EXCEPT !.pc = "claimed", !.node = n, !.gen = g], n, g)
<1> DEFINE q == [Off EXCEPT !.pc = "claimed", !.node = n, !.gen = g]
<1>1. "absent" \in Contents
  BY PlanAssumption
<1>2. q = [pc |-> "claimed", node |-> n, gen |-> g, i |-> 1, read |-> "absent", result |-> "ok"]
  <2> DEFINE q1 == [Off EXCEPT !.pc = "claimed"]
             q2 == [q1 EXCEPT !.node = n]
  <2>1. q1 = [pc |-> "claimed", node |-> 0, gen |-> 0, i |-> 1, read |-> "absent", result |-> "ok"]
    BY DEF Off, Absent
  <2>2. q = [q2 EXCEPT !.gen = g]
    BY DEF Off
  <2> HIDE DEF q, q1
  <2>3. q2 = [pc |-> "claimed", node |-> n, gen |-> 0, i |-> 1, read |-> "absent", result |-> "ok"]
    BY <2>1
  <2> HIDE DEF q2
  <2> QED
    BY <2>2, <2>3
<1> HIDE DEF q
<1>3. q.pc = "claimed" /\ q.node = n /\ q.gen = g /\ q.i = 1 /\ q.read = "absent" /\ q.result = "ok"
  BY <1>2
<1>4. q \in WorkerRecords
  BY <1>1, <1>2 DEF WorkerRecords, Outcomes
<1>5. IsClaim(q, n, g)
  BY <1>3, <1>4 DEF IsClaim
<1> QED
  BY <1>5 DEF q

LEMMA TakeKeeps ==
    ASSUME IInv, NEW w \in Workers, NEW n \in Nodes, Take(w, n)
    PROVE  IInv'
<1> USE DEF IInv
<1>1. Frame
  BY DEF Take, Frame
<1>2. phase = "wave" /\ n \in Wave /\ Wave \subseteq Nodes
  BY DEF Take, WorkersOK, SplitOK, ReadyNodes, Nodes
<1>3. /\ board \in [Nodes -> [at : {"absent", "free", "held", "done"}, gen : Nat]]
      /\ worker \in [Workers -> WorkerRecords]
  BY DEF TypeOK
<1>4. board[n].gen + 1 \in Nat /\ board[n].at = "free"
  BY <1>3 DEF Take
<1> DEFINE g == board[n].gen + 1
           r == [Off EXCEPT !.pc = "claimed", !.node = n, !.gen = g]
<1>5. r \in WorkerRecords /\ r.pc = "claimed" /\ r.node = n /\ r.gen = g /\ r.result = "ok"
  <2>1. g \in Nat
    BY <1>4
  <2> HIDE DEF g
  <2>2. IsClaim(r, n, g)
    BY <2>1, ClaimIs
  <2> HIDE DEF r
  <2> QED
    BY <2>2 DEF IsClaim
<1>6. /\ board' \in [Nodes -> [at : {"absent", "free", "held", "done"}, gen : Nat]]
      /\ board'[n].at = "held" /\ board'[n].gen = g
      /\ \A m \in Nodes \ {n} : board'[m] = board[m]
  BY <1>3, <1>4 DEF Take
<1>7. worker' = [worker EXCEPT ![w] = r]
  BY DEF Take
<1> HIDE DEF r
<1>8. /\ worker' \in [Workers -> WorkerRecords] /\ worker'[w] = r
      /\ \A u \in Workers \ {w} : worker'[u] = worker[u]
  BY <1>3, <1>5, <1>7
<1>9. TypeOK'
  <2>1. WorkerRecords' = WorkerRecords /\ Nodes' = Nodes
    BY <1>1 DEF WorkerRecords, Nodes, Frame
  <2> QED
    BY <1>1, <1>6, <1>8, <2>1 DEF Take, TypeOK, Frame
<1>10. WorkersOK'
  <2>1. ASSUME NEW u \in Workers, Busy(u)'
        PROVE  worker'[u].node \in Wave /\ worker'[u].gen <= board'[worker'[u].node].gen
    <3>1. CASE u = w
      BY <1>2, <1>3, <1>4, <1>5, <1>6, <1>8, <3>1
    <3>2. CASE u # w
      <4>1. worker[u].node \in Wave /\ worker[u].gen <= board[worker[u].node].gen
        BY <1>8, <2>1, <3>2 DEF WorkersOK, Busy
      <4>2. worker[u].gen \in Nat
        BY <1>3 DEF WorkerRecords
      <4> QED
        BY <1>2, <1>3, <1>6, <1>8, <3>2, <4>1, <4>2
    <3> QED
      BY <3>1, <3>2
  <2> QED
    BY <1>1, <1>2, <1>5, <1>8, <2>1, FrameKeeps DEF WorkersOK, Frame, Busy
<1>11. ClaimsOK'
  <2>1. ASSUME NEW u \in Workers, u # w, worker[u].pc \in {"report", "finish", "write"}
        PROVE  /\ worker'[u] = worker[u] /\ Step(u)' = Step(u)
               /\ worker[u].node \in Nodes
               /\ IsCurrent(u)' => IsCurrent(u)
    <3>1. worker[u].node \in Nodes /\ worker[u].gen <= board[worker[u].node].gen
      BY <1>2, <2>1 DEF WorkersOK, Busy
    <3>2. worker[u].gen \in Nat
      BY <1>3 DEF WorkerRecords
    <3>3. worker'[u] = worker[u] /\ Step(u)' = Step(u)
      BY <1>1, <1>8, <2>1 DEF Step, Frame
    <3>4. IsCurrent(u)' => worker[u].node # n
      <4>1. IsCurrent(u)' => board'[worker[u].node].gen = worker[u].gen
        BY <3>3 DEF IsCurrent
      <4> QED
        BY <1>3, <1>6, <3>1, <3>2, <4>1
    <3> QED
      BY <1>6, <3>1, <3>3, <3>4 DEF IsCurrent
  <2> QED
    BY <1>1, <1>2, <1>5, <1>6, <1>8, <2>1, FrameKeeps DEF Take, ClaimsOK, NewestReports, Frame
<1>12. SplitOK'
  BY <1>1, <1>2, <1>5, <1>6, <1>8, FrameKeeps DEF Take, SplitOK, Frame, Done
<1> QED
  BY <1>1, <1>9, <1>10, <1>11, <1>12, FrameKeeps

\* What a step of a worker, or of a lease, may do to a worker and to the boards.
Boards == [Nodes -> [at : {"absent", "free", "held", "done"}, gen : Nat]]

Moved(w) ==
    \/ worker'[w] = worker[w]
    \/ /\ worker'[w].pc \notin {"off", "take"} =>
            Busy(w) /\ worker'[w].node = worker[w].node /\ worker'[w].gen = worker[w].gen
       /\ worker'[w].pc \notin {"report", "finish"} => worker'[w].result = "ok"
       /\ worker'[w].pc = "report" /\ worker'[w].result = "fence" => ~IsCurrent(w)
       /\ worker'[w].pc = "write" => MayWrite(worker'[w].node, Step(w)'.path)
       /\ worker'[w].pc = "finish" =>
            /\ board'[worker'[w].node] = [at |-> "done", gen |-> worker'[w].gen]
            /\ worker'[w].result # "fence"
       /\ worker'[w].pc = "off" => Done

Small(w) ==
    /\ phase = "wave" /\ Frame /\ Moved(w)
    /\ worker' \in [Workers -> WorkerRecords] /\ \A u \in Workers \ {w} : worker'[u] = worker[u]
    /\ board' \in Boards /\ \A m \in Nodes :
        \/ board'[m] = board[m]
        \/ /\ board[m].at = "held" /\ board'[m].at \in {"free", "done"}
           /\ board'[m].gen = board[m].gen
    /\ outcome' \in [Nodes -> Outcomes \cup {"none"}] /\ \A m \in Nodes :
        \/ outcome'[m] = outcome[m]
        \/ outcome'[m] # "none" /\ board'[m].at = "done"
    /\ files' \in [Paths -> Contents] /\ writers' \in [Paths -> SUBSET Nodes]
    /\ \A f \in Paths : \A n \in writers'[f] : n \in writers[f] \/ (n \in Wave /\ MayWrite(n, f))
    /\ lapses' \in 0 .. MaxLapses

LEMMA SmallKeeps ==
    ASSUME IInv, NEW w \in Workers, Small(w)
    PROVE  IInv'
<1> USE DEF IInv
<1>1. Frame /\ phase = "wave"
  BY DEF Small
<1>2. Wave \subseteq Nodes /\ board \in Boards /\ worker \in [Workers -> WorkerRecords]
  BY <1>1 DEF SplitOK, ReadyNodes, Nodes, TypeOK, Boards
<1>3. WorkerRecords' = WorkerRecords /\ Nodes' = Nodes
  BY <1>1 DEF WorkerRecords, Nodes, Frame
<1>4. TypeOK'
  BY <1>1, <1>3 DEF Small, TypeOK, Frame, Boards
<1>5. \A m \in Nodes : board'[m].gen = board[m].gen
  BY DEF Small
<1>6. ASSUME NEW u \in Workers, Busy(u)
      PROVE  worker[u].node \in Wave /\ worker[u].node \in Nodes
             /\ worker[u].gen <= board[worker[u].node].gen
  BY <1>2, <1>6 DEF WorkersOK
<1>7. ASSUME NEW u \in Workers
      PROVE  worker'[u] = worker[u] \/ u = w
  BY DEF Small
<1>8. WorkersOK'
  <2>1. ASSUME NEW u \in Workers, Busy(u)'
        PROVE  worker'[u].node \in Wave /\ worker'[u].gen <= board'[worker'[u].node].gen
    <3>1. Busy(u) /\ worker'[u].node = worker[u].node /\ worker'[u].gen = worker[u].gen
      BY <1>7, <2>1 DEF Small, Moved, Busy
    <3> QED
      BY <1>5, <1>6, <3>1
  <2>2. ASSUME NEW u \in Workers, worker'[u].pc \notin {"report", "finish"}
        PROVE  worker'[u].result = "ok"
    BY <1>7, <2>2 DEF Small, Moved, WorkersOK
  <2> QED
    BY <1>1, <2>1, <2>2, FrameKeeps DEF WorkersOK, Frame
<1>9. ASSUME NEW u \in Workers, Busy(u), worker'[u].node = worker[u].node,
             worker'[u].gen = worker[u].gen, IsCurrent(u)'
      PROVE  IsCurrent(u)
  <2>1. board'[worker[u].node] = [at |-> "held", gen |-> worker[u].gen]
    BY <1>9 DEF IsCurrent
  <2>2. board'[worker[u].node] = board[worker[u].node]
    BY <1>6, <1>9, <2>1 DEF Small
  <2> QED
    BY <2>1, <2>2 DEF IsCurrent
<1>10. ClaimsOK'
  <2>1. ASSUME NEW u \in Workers, worker'[u].pc = "report", worker'[u].result = "fence"
        PROVE  ~IsCurrent(u)'
    <3>1. ~IsCurrent(u) /\ Busy(u) /\ worker'[u].node = worker[u].node /\ worker'[u].gen = worker[u].gen
      BY <1>7, <2>1 DEF Small, Moved, ClaimsOK, Busy
    <3> QED
      BY <1>9, <3>1
  <2>2. ASSUME NEW u \in Workers, worker'[u].pc = "write"
        PROVE  MayWrite(worker'[u].node, Step(u)'.path)
    <3>1. CASE worker'[u] = worker[u]
      <4>1. Step(u)' = Step(u)
        BY <1>1, <3>1 DEF Step, Frame
      <4> QED
        BY <2>2, <3>1, <4>1 DEF ClaimsOK
    <3>2. CASE worker'[u] # worker[u]
      BY <1>7, <2>2, <3>2 DEF Small, Moved
    <3> QED
      BY <3>1, <3>2
  <2>3. ASSUME NEW u \in Workers, worker'[u].pc = "finish"
        PROVE  /\ board'[worker'[u].node] = [at |-> "done", gen |-> worker'[u].gen]
               /\ worker'[u].result # "fence"
    <3>1. CASE worker'[u] = worker[u]
      <4>1. board[worker[u].node] = [at |-> "done", gen |-> worker[u].gen] /\ worker[u].result # "fence"
        BY <2>3, <3>1 DEF ClaimsOK, NewestReports
      <4>2. worker[u].node \in Nodes
        BY <1>6, <2>3, <3>1 DEF Busy
      <4>3. board'[worker[u].node] = board[worker[u].node]
        BY <4>1, <4>2 DEF Small
      <4> QED
        BY <3>1, <4>1, <4>3
    <3>2. CASE worker'[u] # worker[u]
      BY <1>7, <2>3, <3>2 DEF Small, Moved
    <3> QED
      BY <3>1, <3>2
  <2>4. ASSUME NEW f \in Paths, NEW n \in writers'[f]
        PROVE  n \in Wave /\ MayWrite(n, f)
    BY <2>4 DEF Small, ClaimsOK
  <2> QED
    BY <1>1, <2>1, <2>2, <2>3, <2>4, FrameKeeps DEF ClaimsOK, NewestReports
<1>11. SplitOK'
  <2>1. ASSUME Done
        PROVE  \A n \in Wave : outcome'[n] # "none"
    BY <1>2, <2>1 DEF Done, Small
  <2>2. ASSUME \A u \in Workers : worker'[u].pc = "off"
        PROVE  Done
    BY <1>1, <1>7, <2>2 DEF Small, Moved, SplitOK
  <2>3. ASSUME NEW n \in Nodes
        PROVE  board'[n].at = IF n \notin remaining THEN "done"
                              ELSE IF n \in Wave THEN board'[n].at ELSE "absent"
    BY <1>1 DEF Small, SplitOK
  <2>4. ASSUME NEW n \in Wave
        PROVE  board'[n].at # "absent" /\ (outcome'[n] # "none" => board'[n].at = "done")
    BY <1>1, <1>2 DEF Small, SplitOK
  <2> QED
    BY <1>1, <2>1, <2>2, <2>3, <2>4, FrameKeeps DEF SplitOK, Frame, Done
<1> QED
  BY <1>1, <1>4, <1>8, <1>10, <1>11, FrameKeeps

\* A step that changes one worker only.
LEMMA MoveIsSmall ==
    ASSUME IInv, phase = "wave", NEW w \in Workers, NEW r \in WorkerRecords,
           worker' = [worker EXCEPT ![w] = r], Frame,
           UNCHANGED <<board, outcome, files, writers, lapses>>,
           worker'[w] = r => Moved(w)
    PROVE  Small(w)
<1>1. worker \in [Workers -> WorkerRecords] /\ board \in Boards
  BY DEF IInv, TypeOK, Boards
<1>2. /\ worker' \in [Workers -> WorkerRecords] /\ worker'[w] = r
      /\ \A u \in Workers \ {w} : worker'[u] = worker[u]
  BY <1>1
<1> QED
  BY <1>1, <1>2 DEF Small, IInv, TypeOK, Boards

LEMMA BusyIs ==
    ASSUME IInv, NEW w \in Workers, worker[w].pc # "off"
    PROVE  /\ phase = "wave" /\ worker[w] \in WorkerRecords /\ plan \in Plans
           /\ Busy(w) => worker[w].node \in Nodes /\ worker[w].node \in Wave
           /\ worker[w].i \in Nat \ {0} /\ worker[w].gen \in Nat
           /\ board \in Boards /\ outcome \in [Nodes -> Outcomes \cup {"none"}]
           /\ files \in [Paths -> Contents] /\ writers \in [Paths -> SUBSET Nodes]
           /\ lapses \in 0 .. MaxLapses
<1>1. phase = "wave" /\ worker[w] \in WorkerRecords /\ plan \in Plans
  BY DEF IInv, WorkersOK, TypeOK
<1>2. Busy(w) => worker[w].node \in Nodes /\ worker[w].node \in Wave
  BY <1>1 DEF IInv, WorkersOK, SplitOK, ReadyNodes, Nodes
<1>3. worker[w].i \in Nat \ {0} /\ worker[w].gen \in Nat
  BY <1>1 DEF WorkerRecords
<1> QED
  BY <1>1, <1>2, <1>3 DEF IInv, TypeOK, Boards

\* The records a worker goes through.
LEMMA RecordsAre ==
    ASSUME NEW r \in WorkerRecords
    PROVE  /\ [r EXCEPT !.pc = "step"] \in WorkerRecords
           /\ [r EXCEPT !.pc = "report"] \in WorkerRecords
           /\ [r EXCEPT !.pc = "write"] \in WorkerRecords
           /\ [r EXCEPT !.pc = "finish"] \in WorkerRecords
           /\ \A reason \in Outcomes :
                [r EXCEPT !.pc = "report", !.result = reason] \in WorkerRecords
           /\ \A c \in Contents : [r EXCEPT !.pc = "fence", !.read = c] \in WorkerRecords
           /\ [r EXCEPT !.pc = "step", !.read = Absent, !.i = r.i + 1] \in WorkerRecords
<1>1. "absent" \in Contents
  BY PlanAssumption
<1>2. r.i + 1 \in Nat \ {0}
  BY DEF WorkerRecords
<1> QED
  BY <1>1, <1>2 DEF WorkerRecords, Absent

LEMMA LeaveKeeps ==
    ASSUME IInv, NEW w \in Workers, Leave(w)
    PROVE  Small(w)
<1>1. phase = "wave" /\ Frame
  BY BusyIs DEF Leave, Frame
<1>2. worker'[w] = Off => Moved(w)
  BY OffIs DEF Leave, Moved
<1> QED
  BY <1>1, <1>2, OffIs, MoveIsSmall DEF Leave

LEMMA BeginKeeps ==
    ASSUME IInv, NEW w \in Workers, Begin(w)
    PROVE  Small(w)
<1> DEFINE r == [worker[w] EXCEPT !.pc = "step"]
<1>1. phase = "wave" /\ Frame /\ worker[w] \in WorkerRecords
  BY BusyIs DEF Begin, Frame
<1>2. r \in WorkerRecords /\ r.pc = "step" /\ r.node = worker[w].node /\ r.gen = worker[w].gen
      /\ r.result = worker[w].result
  <2> DEFINE x == worker[w]
  <2>1. x \in WorkerRecords /\ r = [x EXCEPT !.pc = "step"]
    BY <1>1
  <2> HIDE DEF x, r
  <2>2. [x EXCEPT !.pc = "step"] \in WorkerRecords
    BY <2>1, RecordsAre, Zenon
  <2>3. r \in WorkerRecords
    BY <2>1, <2>2, Zenon
  <2>4. r.pc = "step" /\ r.node = x.node /\ r.gen = x.gen /\ r.result = x.result
    BY <2>1 DEF WorkerRecords
  <2> QED
    BY <2>3, <2>4, Zenon DEF x
<1>3. worker' = [worker EXCEPT ![w] = r]
  BY DEF Begin
<1> HIDE DEF r
<1>4. worker'[w] = r => Moved(w)
  BY <1>2 DEF Begin, Moved, Busy, IInv, WorkersOK
<1> QED
  BY <1>1, <1>2, <1>3, <1>4, MoveIsSmall DEF Begin

LEMMA RunStepKeeps ==
    ASSUME IInv, NEW w \in Workers, RunStep(w)
    PROVE  Small(w)
<1>1. /\ phase = "wave" /\ Frame /\ worker[w] \in WorkerRecords /\ worker[w].node \in Nodes
      /\ UNCHANGED <<board, outcome, files, writers, lapses>> /\ plan \in Plans
      /\ worker[w].i \in Nat \ {0} /\ files \in [Paths -> Contents] /\ Busy(w)
  BY BusyIs DEF RunStep, Frame, Busy
<1>2. worker[w].result = "ok"
  BY DEF RunStep, IInv, WorkersOK
<1>3. ASSUME NEW r \in WorkerRecords, worker' = [worker EXCEPT ![w] = r],
             r.node = worker[w].node, r.gen = worker[w].gen,
             r.pc \in {"report", "fence"}, r.pc = "fence" => r.result = "ok", r.result # "fence"
      PROVE  Small(w)
  <2>1. worker'[w] = r => Moved(w)
    BY <1>1, <1>3 DEF Moved
  <2> QED
    BY <1>1, <1>3, <2>1, MoveIsSmall
<1>4. CASE worker[w].i > Len(StepsOf(plan, worker[w].node))
  <2> DEFINE r == [worker[w] EXCEPT !.pc = "report"]
  <2>1. worker' = [worker EXCEPT ![w] = r]
    BY <1>4 DEF RunStep
  <2>2. r \in WorkerRecords
    BY <1>1, RecordsAre
  <2>3. r.node = worker[w].node /\ r.gen = worker[w].gen /\ r.pc = "report" /\ r.result = "ok"
    BY <1>1, <1>2 DEF WorkerRecords
  <2> QED
    BY <1>3, <2>1, <2>2, <2>3
<1>5. CASE ~(worker[w].i > Len(StepsOf(plan, worker[w].node)))
  <2> DEFINE s == Step(w)
  <2>1. /\ s.do \in {"write", "copy", "trap"}
        /\ s.do = "write" => s.value \in Contents
        /\ s.do = "copy" => s.from \in Paths
    <3>1. ProgramOK(StepsOf(plan, worker[w].node))
      BY <1>1, StepsAre DEF Nodes
    <3>2. worker[w].i \in 1 .. Len(StepsOf(plan, worker[w].node))
      BY <1>1, <1>5, <3>1 DEF ProgramOK
    <3> QED
      BY <3>1, <3>2 DEF ProgramOK, Step
  <2> HIDE DEF s
  <2>2. \/ s.do = "trap" /\ Trap(w, "trap")
        \/ s.do = "copy" /\ files[s.from] = Absent /\ Trap(w, "missing_file")
        \/ /\ s.do = "copy" /\ files[s.from] # Absent
           /\ worker' = [worker EXCEPT ![w].pc = "fence", ![w].read = files[s.from]]
        \/ s.do = "write" /\ worker' = [worker EXCEPT ![w].pc = "fence", ![w].read = s.value]
    <3>1. CASE s.do = "trap"
      BY <1>5, <3>1 DEF RunStep, s
    <3>2. CASE s.do = "copy" /\ files[s.from] = Absent
      BY <1>5, <3>2 DEF RunStep, s
    <3>3. CASE s.do = "copy" /\ files[s.from] # Absent
      BY <1>5, <3>3 DEF RunStep, s
    <3>4. CASE s.do = "write"
      BY <1>5, <3>4 DEF RunStep, s
    <3> QED
      BY <2>1, <3>1, <3>2, <3>3, <3>4
  <2>3. ASSUME NEW reason \in {"trap", "missing_file"}, Trap(w, reason)
        PROVE  Small(w)
    <3> DEFINE r == [worker[w] EXCEPT !.pc = "report", !.result = reason]
    <3>1. worker' = [worker EXCEPT ![w] = r]
      BY <2>3 DEF Trap
    <3>2. r \in WorkerRecords
      BY <1>1, RecordsAre DEF Outcomes
    <3>3. r.node = worker[w].node /\ r.gen = worker[w].gen /\ r.pc = "report" /\ r.result # "fence"
      BY <1>1, <1>2 DEF WorkerRecords
    <3> QED
      BY <1>3, <3>1, <3>2, <3>3
  <2>4. ASSUME NEW c \in Contents,
               worker' = [worker EXCEPT ![w].pc = "fence", ![w].read = c]
        PROVE  Small(w)
    <3> DEFINE r == [worker[w] EXCEPT !.pc = "fence", !.read = c]
    <3>1. worker' = [worker EXCEPT ![w] = r]
      BY <2>4
    <3>2. r \in WorkerRecords
      BY <1>1, RecordsAre
    <3>3. r.node = worker[w].node /\ r.gen = worker[w].gen /\ r.pc = "fence" /\ r.result = "ok"
      BY <1>1, <1>2 DEF WorkerRecords
    <3> QED
      BY <1>3, <3>1, <3>2, <3>3
  <2> QED
    BY <1>1, <2>1, <2>2, <2>3, <2>4
<1> QED
  BY <1>4, <1>5

LEMMA FenceKeeps ==
    ASSUME IInv, NEW w \in Workers, Fence(w)
    PROVE  Small(w)
<1>1. /\ phase = "wave" /\ Frame /\ worker[w] \in WorkerRecords /\ Busy(w)
      /\ UNCHANGED <<board, outcome, files, writers, lapses>>
  BY BusyIs DEF Fence, Frame, Busy
<1>2. worker[w].result = "ok"
  BY DEF Fence, IInv, WorkersOK
<1>3. ASSUME NEW r \in WorkerRecords, worker' = [worker EXCEPT ![w] = r],
             r.node = worker[w].node, r.gen = worker[w].gen,
             r.pc \in {"report", "step", "write"}, r.pc \in {"step", "write"} => r.result = "ok",
             r.pc = "write" => r.i = worker[w].i /\ MayWrite(worker[w].node, Step(w).path),
             r.pc = "report" /\ r.result = "fence" => ~IsCurrent(w)
      PROVE  Small(w)
  <2>1. ASSUME worker'[w] = r, r.pc = "write"
        PROVE  Step(w)' = Step(w)
    BY <1>1, <1>3, <2>1 DEF Step, Frame
  <2>2. worker'[w] = r => Moved(w)
    BY <1>1, <1>3, <2>1 DEF Moved
  <2> QED
    BY <1>1, <1>3, <2>2, MoveIsSmall
<1>4. CASE ~IsCurrent(w) /\ Trap(w, "fence")
  <2> DEFINE r == [worker[w] EXCEPT !.pc = "report", !.result = "fence"]
  <2>1. worker' = [worker EXCEPT ![w] = r]
    BY <1>4 DEF Trap
  <2>2. r \in WorkerRecords
    BY <1>1, RecordsAre DEF Outcomes
  <2>3. r.node = worker[w].node /\ r.gen = worker[w].gen /\ r.pc = "report"
    BY <1>1, <1>2 DEF WorkerRecords
  <2> QED
    BY <1>3, <1>4, <2>1, <2>2, <2>3
<1>5. CASE IsCurrent(w) /\ ~MayWrite(worker[w].node, Step(w).path) /\ Trap(w, "policy")
  <2> DEFINE r == [worker[w] EXCEPT !.pc = "report", !.result = "policy"]
  <2>1. worker' = [worker EXCEPT ![w] = r]
    BY <1>5 DEF Trap
  <2>2. r \in WorkerRecords
    BY <1>1, RecordsAre DEF Outcomes
  <2>3. /\ r.node = worker[w].node /\ r.gen = worker[w].gen
        /\ r.pc = "report" /\ r.result = "policy"
    BY <1>1, <1>2 DEF WorkerRecords
  <2> QED
    BY <1>3, <2>1, <2>2, <2>3
<1>6. CASE Continue(w, "step")
  <2> DEFINE r == [worker[w] EXCEPT !.pc = "step", !.read = Absent, !.i = worker[w].i + 1]
  <2>1. worker' = [worker EXCEPT ![w] = r]
    BY <1>6 DEF Continue
  <2>2. r \in WorkerRecords
    BY <1>1, RecordsAre
  <2>3. /\ r.node = worker[w].node /\ r.gen = worker[w].gen
        /\ r.pc = "step" /\ r.result = "ok"
    BY <1>1, <1>2 DEF WorkerRecords
  <2> QED
    BY <1>3, <2>1, <2>2, <2>3
<1>7. CASE /\ MayWrite(worker[w].node, Step(w).path)
           /\ worker' = [worker EXCEPT ![w].pc = "write"]
  <2> DEFINE r == [worker[w] EXCEPT !.pc = "write"]
  <2>1. worker' = [worker EXCEPT ![w] = r]
    BY <1>7
  <2>2. r \in WorkerRecords
    BY <1>1, RecordsAre
  <2>3. /\ r.node = worker[w].node /\ r.gen = worker[w].gen
        /\ r.pc = "write" /\ r.result = "ok" /\ r.i = worker[w].i
    BY <1>1, <1>2 DEF WorkerRecords
  <2> QED
    BY <1>3, <1>7, <2>1, <2>2, <2>3
<1> QED
  BY <1>4, <1>5, <1>6, <1>7 DEF Fence

LEMMA WriteKeeps ==
    ASSUME IInv, NEW w \in Workers, Write(w)
    PROVE  Small(w)
<1> DEFINE r == [worker[w] EXCEPT !.pc = "step", !.read = Absent, !.i = worker[w].i + 1]
           f == Step(w).path
           n == worker[w].node
<1>1. /\ phase = "wave" /\ Frame /\ worker[w] \in WorkerRecords /\ Busy(w)
      /\ UNCHANGED <<board, outcome, lapses>> /\ n \in Nodes /\ n \in Wave
      /\ board \in Boards /\ outcome \in [Nodes -> Outcomes \cup {"none"}]
      /\ files \in [Paths -> Contents] /\ writers \in [Paths -> SUBSET Nodes]
      /\ lapses \in 0 .. MaxLapses
  BY BusyIs DEF Write, Frame, Busy
<1>2. worker[w].result = "ok" /\ MayWrite(n, f)
  BY DEF Write, IInv, WorkersOK, ClaimsOK
<1>3. worker' = [worker EXCEPT ![w] = r]
  BY DEF Write, Continue
<1>4. r \in WorkerRecords
  BY <1>1, RecordsAre
<1>5. r.node = n /\ r.gen = worker[w].gen /\ r.pc = "step" /\ r.result = "ok"
  BY <1>1, <1>2 DEF WorkerRecords
<1> HIDE DEF r
<1>6. /\ worker' \in [Workers -> WorkerRecords] /\ worker'[w] = r
      /\ \A u \in Workers \ {w} : worker'[u] = worker[u]
  BY <1>3, <1>4 DEF IInv, TypeOK
<1>7. Moved(w)
  BY <1>1, <1>5, <1>6 DEF Moved
<1>8. worker[w].read \in Contents
  BY <1>1 DEF WorkerRecords
<1> HIDE DEF f, n
<1>9. files' = [files EXCEPT ![f] = worker[w].read] /\ writers' = [writers EXCEPT ![f] = @ \cup {n}]
  BY DEF Write, f, n
<1>10. files' \in [Paths -> Contents] /\ writers' \in [Paths -> SUBSET Nodes]
  BY <1>1, <1>8, <1>9
<1>11. ASSUME NEW g \in Paths, NEW m \in writers'[g]
       PROVE  m \in writers[g] \/ (m \in Wave /\ MayWrite(m, g))
  BY <1>1, <1>2, <1>9
<1> QED
  BY <1>1, <1>6, <1>7, <1>10, <1>11 DEF Small

LEMMA ReportKeeps ==
    ASSUME IInv, NEW w \in Workers, Report(w)
    PROVE  Small(w)
<1> DEFINE n == worker[w].node
<1>1. /\ phase = "wave" /\ Frame /\ worker[w] \in WorkerRecords /\ Busy(w)
      /\ UNCHANGED <<outcome, files, writers, lapses>> /\ n \in Nodes /\ n \in Wave
      /\ board \in Boards /\ outcome \in [Nodes -> Outcomes \cup {"none"}]
      /\ files \in [Paths -> Contents] /\ writers \in [Paths -> SUBSET Nodes]
      /\ lapses \in 0 .. MaxLapses
  BY BusyIs DEF Report, Frame, Busy
<1>2. CASE IsCurrent(w)
  <2> DEFINE r == [worker[w] EXCEPT !.pc = "finish"]
  <2>1. worker' = [worker EXCEPT ![w] = r]
    BY <1>2 DEF Report
  <2>2. r \in WorkerRecords
    BY <1>1, RecordsAre
  <2>3. /\ r.node = n /\ r.gen = worker[w].gen /\ r.pc = "finish"
        /\ r.result = worker[w].result
    BY <1>1 DEF WorkerRecords
  <2>4. worker[w].result # "fence"
    BY <1>2 DEF Report, IInv, ClaimsOK
  <2> HIDE DEF r
  <2>5. /\ worker' \in [Workers -> WorkerRecords] /\ worker'[w] = r
        /\ \A u \in Workers \ {w} : worker'[u] = worker[u]
    BY <2>1, <2>2 DEF IInv, TypeOK
  <2>6. board[n] = [at |-> "held", gen |-> worker[w].gen]
    BY <1>2 DEF IsCurrent
  <2>7. board' = [board EXCEPT ![n].at = "done"]
    BY <1>2 DEF Report
  <2> HIDE DEF n
  <2>8. board'[n] = [at |-> "done", gen |-> worker[w].gen]
    BY <1>1, <2>6, <2>7 DEF Boards
  <2>9. board' \in Boards
    BY <1>1, <2>7 DEF Boards
  <2>10. \A m \in Nodes : m # n => board'[m] = board[m]
    BY <1>1, <2>7 DEF Boards
  <2>11. Moved(w)
    BY <1>1, <2>3, <2>4, <2>5, <2>8 DEF Moved, n
  <2>12. \A m \in Nodes :
            \/ board'[m] = board[m]
            \/ /\ board[m].at = "held" /\ board'[m].at \in {"free", "done"}
               /\ board'[m].gen = board[m].gen
    BY <2>6, <2>8, <2>10
  <2> QED
    BY <1>1, <2>5, <2>9, <2>11, <2>12 DEF Small
<1>3. CASE ~IsCurrent(w)
  <2> DEFINE r == [Off EXCEPT !.pc = "take"]
  <2>1. worker' = [worker EXCEPT ![w] = r] /\ UNCHANGED board
    BY <1>3 DEF Report
  <2>2. r \in WorkerRecords /\ r.pc = "take" /\ r.result = "ok"
    BY OffIs DEF Off
  <2> HIDE DEF r
  <2>3. worker'[w] = r => Moved(w)
    BY <2>2 DEF Moved
  <2> QED
    BY <1>1, <2>1, <2>2, <2>3, MoveIsSmall
<1> QED
  BY <1>2, <1>3

LEMMA FinishKeeps ==
    ASSUME IInv, NEW w \in Workers, Finish(w)
    PROVE  Small(w)
<1> DEFINE n == worker[w].node
           r == [Off EXCEPT !.pc = "take"]
<1>1. /\ phase = "wave" /\ Frame /\ worker[w] \in WorkerRecords /\ Busy(w)
      /\ UNCHANGED <<board, files, writers, lapses>> /\ n \in Nodes /\ n \in Wave
      /\ board \in Boards /\ outcome \in [Nodes -> Outcomes \cup {"none"}]
      /\ files \in [Paths -> Contents] /\ writers \in [Paths -> SUBSET Nodes]
      /\ lapses \in 0 .. MaxLapses
  BY BusyIs DEF Finish, Frame, Busy
<1>2. board[n] = [at |-> "done", gen |-> worker[w].gen] /\ worker[w].result \in Outcomes
  BY <1>1 DEF Finish, IInv, ClaimsOK, NewestReports, WorkerRecords
<1>3. worker' = [worker EXCEPT ![w] = r]
  BY DEF Finish
<1>4. r \in WorkerRecords /\ r.pc = "take" /\ r.result = "ok"
  BY OffIs DEF Off
<1> HIDE DEF r
<1>5. /\ worker' \in [Workers -> WorkerRecords] /\ worker'[w] = r
      /\ \A u \in Workers \ {w} : worker'[u] = worker[u]
  BY <1>3, <1>4 DEF IInv, TypeOK
<1>6. Moved(w)
  BY <1>4, <1>5 DEF Moved
<1>7. \/ outcome' = outcome
      \/ outcome' = [outcome EXCEPT ![n] = worker[w].result]
  BY DEF Finish
<1>8. "none" \notin Outcomes
  BY DEF Outcomes
<1> HIDE DEF n
<1>9. outcome' \in [Nodes -> Outcomes \cup {"none"}] /\ \A m \in Nodes :
        \/ outcome'[m] = outcome[m]
        \/ outcome'[m] # "none" /\ board'[m].at = "done"
  BY <1>1, <1>2, <1>7, <1>8
<1> QED
  BY <1>1, <1>5, <1>6, <1>9 DEF Small

LEMMA DiesKeeps ==
    ASSUME IInv, NEW w \in Workers, Dies(w)
    PROVE  Small(w)
<1> DEFINE n == worker[w].node
           r == [Off EXCEPT !.pc = "take"]
<1>1. /\ phase = "wave" /\ Frame /\ worker[w] \in WorkerRecords /\ Busy(w)
      /\ UNCHANGED <<outcome, files, writers>> /\ n \in Nodes /\ n \in Wave
      /\ board \in Boards /\ outcome \in [Nodes -> Outcomes \cup {"none"}]
      /\ files \in [Paths -> Contents] /\ writers \in [Paths -> SUBSET Nodes]
      /\ lapses \in 0 .. MaxLapses
  BY BusyIs DEF Dies, Frame, Busy
<1>2. lapses' \in 0 .. MaxLapses
  BY <1>1, WorkerAssumption DEF Dies, Lapse
<1>3. worker' = [worker EXCEPT ![w] = r]
  BY DEF Dies
<1>4. r \in WorkerRecords /\ r.pc = "take" /\ r.result = "ok"
  BY OffIs DEF Off
<1> HIDE DEF r
<1>5. /\ worker' \in [Workers -> WorkerRecords] /\ worker'[w] = r
      /\ \A u \in Workers \ {w} : worker'[u] = worker[u]
  BY <1>3, <1>4 DEF IInv, TypeOK
<1>6. Moved(w)
  BY <1>4, <1>5 DEF Moved
<1>7. \/ board' = board
      \/ board[n].at = "held" /\ board' = [board EXCEPT ![n].at = "free"]
  BY DEF Dies, IsCurrent
<1> HIDE DEF n
<1>8. board' \in Boards /\ \A m \in Nodes :
            \/ board'[m] = board[m]
            \/ /\ board[m].at = "held" /\ board'[m].at \in {"free", "done"}
               /\ board'[m].gen = board[m].gen
  BY <1>1, <1>7 DEF Boards
<1> QED
  BY <1>1, <1>2, <1>5, <1>6, <1>8 DEF Small

LEMMA LapsesKeeps ==
    ASSUME IInv, NEW n \in Nodes, LeaseLapses(n), NEW w \in Workers
    PROVE  Small(w)
<1>1. /\ board \in Boards /\ outcome \in [Nodes -> Outcomes \cup {"none"}]
      /\ files \in [Paths -> Contents] /\ writers \in [Paths -> SUBSET Nodes]
      /\ lapses \in 0 .. MaxLapses /\ worker \in [Workers -> WorkerRecords]
  BY DEF IInv, TypeOK, Boards
<1>2. /\ phase = "wave" /\ Frame /\ UNCHANGED <<outcome, files, writers, worker>>
  BY DEF LeaseLapses, Frame, IInv, SplitOK
<1>3. lapses' \in 0 .. MaxLapses
  BY <1>1, WorkerAssumption DEF LeaseLapses, Lapse
<1>4. Moved(w)
  BY <1>2 DEF Moved
<1>5. board' \in Boards /\ \A m \in Nodes :
            \/ board'[m] = board[m]
            \/ /\ board[m].at = "held" /\ board'[m].at \in {"free", "done"}
               /\ board'[m].gen = board[m].gen
  BY <1>1 DEF LeaseLapses, Boards
<1> QED
  BY <1>1, <1>2, <1>3, <1>4, <1>5 DEF Small

LEMMA CriticKeeps ==
    ASSUME IInv, Critic
    PROVE  IInv'
<1> USE DEF IInv
<1>1. /\ UNCHANGED <<plan, completed, trapped, remaining, waves, board, worker, outcome,
                     files, writers, lapses>>
      /\ phase = "critic" /\ phase' \in {"between", "rejected"}
      /\ phase' = "between" => CriticAccepts(plan) /\ Plannable(plan)
  <2>1. Graph(plan)
    BY PlanIs DEF TypeOK
  <2>2. CriticAccepts(plan) => Plannable(plan)
    BY <2>1, AcceptedIsPlannable
  <2> QED
    BY <2>2 DEF Critic
<1>2. Nodes' = Nodes /\ Wave' = Wave /\ WorkerRecords' = WorkerRecords
  BY <1>1 DEF Nodes, Wave, WorkerRecords
<1>3. TypeOK'
  BY <1>1, <1>2 DEF TypeOK
<1>4. WorkersOK'
  BY <1>1, <1>2 DEF WorkersOK, Busy
<1>5. ClaimsOK'
  BY <1>1, <1>2 DEF ClaimsOK, NewestReports, IsCurrent, MayWrite, Step
<1>6. PhaseOK'
  BY <1>1, <1>2 DEF PhaseOK
<1>7. SplitOK'
  BY <1>1, <1>2 DEF SplitOK
<1>8. LevelsOK'
  BY <1>1, <1>2 DEF LevelsOK, Ran
<1>9. EndOK'
  BY <1>1 DEF EndOK
<1> QED
  BY <1>3, <1>4, <1>5, <1>6, <1>7, <1>8, <1>9

LEMMA EndRunKeeps ==
    ASSUME IInv, EndRun
    PROVE  IInv'
<1> USE DEF IInv
<1>1. UNCHANGED <<plan, completed, trapped, remaining, waves, board, worker, outcome,
                  files, writers, lapses>>
  BY DEF EndRun
<1>2. phase = "between" /\ phase' = "ended" /\ ReadyNodes(plan, completed) \cap remaining = {}
  <2>1. SUFFICES ASSUME remaining # {}, trapped = {}
                 PROVE  FALSE
    BY DEF EndRun
  <2>2. completed \in SUBSET NodesOf(plan) /\ remaining = NodesOf(plan) \ completed
    BY <2>1 DEF SplitOK, TypeOK, Nodes
  <2>3. ReadyNodes(plan, completed) = {}
    BY <2>2 DEF EndRun, ReadyNodes
  <2>4. Dag(plan)
    BY PlanIs, AcceptedIsPlannable DEF EndRun, PhaseOK, TypeOK
  <2> QED
    BY <2>1, <2>2, <2>3, <2>4, NoneReady
<1>3. Nodes' = Nodes /\ Wave' = Wave /\ WorkerRecords' = WorkerRecords
  BY <1>1 DEF Nodes, Wave, WorkerRecords
<1>4. TypeOK'
  BY <1>1, <1>2, <1>3 DEF TypeOK
<1>5. WorkersOK'
  BY <1>1, <1>2, <1>3 DEF WorkersOK, Busy
<1>6. ClaimsOK'
  BY <1>1, <1>3 DEF ClaimsOK, NewestReports, IsCurrent, MayWrite, Step
<1>7. PhaseOK'
  BY <1>1, <1>2 DEF PhaseOK
<1>8. SplitOK'
  BY <1>1, <1>2, <1>3 DEF SplitOK
<1>9. LevelsOK'
  BY <1>1, <1>2, <1>3 DEF LevelsOK, Ran
<1>10. EndOK'
  BY <1>1, <1>2 DEF EndOK
<1> QED
  BY <1>4, <1>5, <1>6, <1>7, <1>8, <1>9, <1>10

\* The parts of a plan's nodes are finite.
LEMMA SizesAre ==
    ASSUME plan \in Plans, NEW T \in SUBSET Nodes
    PROVE  /\ IsFiniteSet(T) /\ Cardinality(T) \in Nat /\ Cardinality(T) <= Count(plan)
           /\ T # {} => Cardinality(T) >= 1
<1>1. IsFiniteSet(Nodes) /\ Cardinality(Nodes) = Count(plan)
  BY PlanAssumption DEF Nodes, Count
<1>2. IsFiniteSet(T) /\ Cardinality(T) \in Nat /\ Cardinality(T) <= Count(plan)
  BY <1>1, FS_Subset, FS_CardinalityType
<1>3. T # {} => Cardinality(T) # 0
  BY <1>2, FS_EmptySet
<1> QED
  BY <1>2, <1>3

LEMMA StartWaveKeeps ==
    ASSUME IInv, StartWave
    PROVE  IInv'
<1> USE DEF IInv
<1> DEFINE ready == ReadyNodes(plan, completed) \cap remaining
           cap == IF Cardinality(ready) <= Cardinality(Workers)
                  THEN Cardinality(ready) ELSE Cardinality(Workers)
<1>1. /\ phase = "between" /\ ready # {} /\ phase' = "wave" /\ waves' = Append(waves, ready)
      /\ board' = [n \in Nodes |-> IF n \in ready THEN [at |-> "free", gen |-> 0] ELSE board[n]]
      /\ worker' = [w \in Workers |-> IF w <= cap THEN [Off EXCEPT !.pc = "take"] ELSE Off]
      /\ outcome' = [n \in Nodes |-> "none"]
      /\ writers' = [f \in Paths |-> {}]
      /\ UNCHANGED <<plan, completed, trapped, remaining, files, lapses>>
  BY DEF StartWave
<1>2. /\ ready \in SUBSET Nodes /\ ready \subseteq remaining /\ plan \in Plans
      /\ completed \in SUBSET Nodes /\ waves \in Seq(SUBSET Nodes) /\ board \in Boards
  BY DEF ReadyNodes, Nodes, TypeOK, Boards
<1>3. 1 \in Workers /\ 1 <= cap
  <2>1. Cardinality(Workers) \in Nat /\ Cardinality(Workers) # 0
    BY WorkerAssumption, FS_EmptySet, FS_CardinalityType
  <2>2. Cardinality(ready) \in Nat /\ Cardinality(ready) >= 1
    BY <1>1, <1>2, SizesAre
  <2>3. 1 \in 1 .. Cardinality(Workers)
    BY <2>1
  <2> QED
    BY <2>1, <2>2, <2>3, WorkerAssumption
<1> HIDE DEF ready, cap
<1>4. ready = ReadyNodes(plan, completed) \cap remaining
  BY DEF ready
<1>5. /\ waves' \in Seq(SUBSET Nodes) /\ Len(waves') = Len(waves) + 1 /\ Len(waves) \in Nat
      /\ waves' # <<>> /\ waves'[Len(waves) + 1] = ready
      /\ \A k \in 1 .. Len(waves) : waves'[k] = waves[k]
  BY <1>1, <1>2
<1>6. Wave' = ready /\ Nodes' = Nodes /\ WorkerRecords' = WorkerRecords
  BY <1>1, <1>5 DEF Wave, Last, Nodes, WorkerRecords
<1>7. /\ worker' \in [Workers -> WorkerRecords] /\ worker'[1].pc # "off"
      /\ \A w \in Workers : worker'[w].pc \in {"off", "take"} /\ worker'[w].result = "ok"
  <2>1. /\ Off.pc = "off" /\ [Off EXCEPT !.pc = "take"].pc = "take"
        /\ Off.result = "ok" /\ [Off EXCEPT !.pc = "take"].result = "ok"
    BY DEF Off
  <2> DEFINE t == [Off EXCEPT !.pc = "take"]
  <2>2. worker' = [w \in Workers |-> IF w <= cap THEN t ELSE Off]
    BY <1>1
  <2>3. t \in WorkerRecords /\ Off \in WorkerRecords
    BY OffIs
  <2> HIDE DEF t
  <2>4. t.pc = "take" /\ t.result = "ok" /\ Off.pc = "off" /\ Off.result = "ok"
    BY <2>1 DEF t
  <2> QED
    BY <1>3, <2>2, <2>3, <2>4
<1>8. board' \in Boards
  BY <1>1, <1>2 DEF Boards
<1>9. TypeOK'
  BY <1>1, <1>5, <1>6, <1>7, <1>8 DEF TypeOK, Boards
<1>10. WorkersOK'
  BY <1>1, <1>7 DEF WorkersOK, Busy
<1>11. ClaimsOK'
  BY <1>1, <1>7 DEF ClaimsOK, NewestReports
<1>12. PhaseOK'
  BY <1>1 DEF PhaseOK
<1>13. SplitOK'
  <2>1. ASSUME NEW n \in Nodes
        PROVE  board'[n].at = IF n \notin remaining THEN "done"
                              ELSE IF n \in ready THEN board'[n].at ELSE "absent"
    BY <1>1, <1>2 DEF SplitOK
  <2>2. ASSUME NEW n \in ready
        PROVE  board'[n].at # "absent" /\ outcome'[n] = "none"
    BY <1>1, <1>2
  <2> QED
    BY <1>1, <1>3, <1>4, <1>5, <1>6, <1>7, <2>1, <2>2 DEF SplitOK
<1>14. LevelsOK'
  <2>1. SUFFICES ASSUME trapped = {}
                 PROVE  /\ Len(waves') <= Cardinality(completed \cup ready)
                        /\ completed = Before(plan)[Len(waves)]
                        /\ \A k \in 1 .. Len(waves') : waves'[k] # {} /\ waves'[k] = Level(plan, k)
    BY <1>1, <1>5, <1>6 DEF LevelsOK, Ran
  <2>2. /\ Len(waves) <= Cardinality(completed) /\ completed = Before(plan)[Len(waves)]
        /\ \A k \in 1 .. Len(waves) : waves[k] # {} /\ waves[k] = Level(plan, k)
    BY <1>1, <2>1 DEF LevelsOK, Ran
  <2>3. remaining = Nodes \ completed /\ ready = ReadyNodes(plan, completed)
    BY <1>4, <2>1 DEF SplitOK, ReadyNodes, Nodes
  <2>4. ready = Level(plan, Len(waves) + 1)
    BY <1>5, <2>2, <2>3 DEF Level
  <2>5. \A k \in 1 .. Len(waves') : waves'[k] # {} /\ waves'[k] = Level(plan, k)
    BY <1>1, <1>5, <2>2, <2>4
  <2>6. Len(waves') <= Cardinality(completed \cup ready)
    <3>1. completed \cap ready = {} /\ completed \cup ready \in SUBSET Nodes
      BY <1>2, <2>3
    <3>2. IsFiniteSet(completed \cup ready) /\ Cardinality(completed \cup ready) \in Nat
          /\ Cardinality(completed) \in Nat
      BY <1>2, <3>1, SizesAre
    <3>3. completed \in SUBSET (completed \cup ready) /\ completed # completed \cup ready
      BY <1>1, <3>1
    <3>4. Cardinality(completed) <= Cardinality(completed \cup ready)
          /\ Cardinality(completed) # Cardinality(completed \cup ready)
      BY <3>2, <3>3, FS_Subset
    <3> QED
      BY <1>5, <2>2, <3>2, <3>4
  <2> QED
    BY <2>2, <2>5, <2>6
<1>15. EndOK'
  BY <1>1 DEF EndOK
<1> QED
  BY <1>9, <1>10, <1>11, <1>12, <1>13, <1>14, <1>15

LEMMA EndWaveKeeps ==
    ASSUME IInv, EndWave
    PROVE  IInv'
<1> USE DEF IInv
<1>1. /\ phase = "wave" /\ phase' = "between" /\ \A w \in Workers : worker[w].pc = "off"
      /\ completed' = completed \cup {n \in Wave : outcome[n] = "ok"}
      /\ trapped' = trapped \cup {n \in Wave : outcome[n] # "ok"}
      /\ remaining' = remaining \ Wave
      /\ UNCHANGED <<plan, waves, board, worker, outcome, files, writers, lapses>>
      /\ \A n \in Wave : outcome[n] # "none"
  <2>1. \A n \in Wave : outcome[n] # "none"
    BY DEF EndWave, SplitOK, Done
  <2> QED
    BY <2>1 DEF EndWave
<1>2. /\ Wave \subseteq remaining /\ Wave \subseteq Nodes /\ remaining \subseteq Nodes
      /\ plan \in Plans /\ waves \in Seq(SUBSET Nodes) /\ waves # <<>>
  BY <1>1 DEF SplitOK, TypeOK
<1>3. Nodes' = Nodes /\ Wave' = Wave /\ WorkerRecords' = WorkerRecords
  BY <1>1 DEF Nodes, Wave, WorkerRecords
<1>4. TypeOK'
  BY <1>1, <1>2, <1>3 DEF TypeOK
<1>5. WorkersOK'
  BY <1>1, <1>3 DEF WorkersOK, Busy
<1>6. ClaimsOK'
  BY <1>1, <1>3 DEF ClaimsOK, NewestReports, IsCurrent, MayWrite, Step
<1>7. PhaseOK'
  BY <1>1 DEF PhaseOK
<1>8. SplitOK'
  <2>1. remaining' = Nodes \ (completed' \cup trapped') /\ completed' \cap trapped' = {}
    BY <1>1, <1>2 DEF SplitOK
  <2>2. ASSUME NEW n \in Nodes
        PROVE  board[n].at = IF n \notin remaining' THEN "done" ELSE "absent"
    BY <1>1, <1>2 DEF SplitOK
  <2> QED
    BY <1>1, <1>3, <2>1, <2>2 DEF SplitOK
<1>9. LevelsOK'
  <2>1. SUFFICES ASSUME trapped' = {}
                 PROVE  /\ Len(waves) <= Cardinality(completed')
                        /\ completed' = Before(plan)[Len(waves)]
                        /\ \A k \in 1 .. Len(waves) : waves[k] # {} /\ waves[k] = Level(plan, k)
    BY <1>1, <1>3 DEF LevelsOK, Ran
  <2>2. trapped = {} /\ completed' = completed \cup Wave
    BY <1>1, <2>1
  <2>3. /\ Len(waves) <= Cardinality(completed \cup Wave)
        /\ completed = Before(plan)[Len(waves) - 1]
        /\ \A k \in 1 .. Len(waves) : waves[k] # {} /\ waves[k] = Level(plan, k)
    BY <1>1, <2>2 DEF LevelsOK, Ran
  <2>4. Len(waves) \in Nat /\ Len(waves) # 0
    BY <1>2
  <2>5. Wave = Level(plan, Len(waves))
    BY <1>2, <2>3, <2>4 DEF Wave, Last
  <2>6. Cardinality(completed \cup Wave) <= Count(plan) /\ Cardinality(completed \cup Wave) \in Nat
    <3>1. completed \cup Wave \in SUBSET Nodes
      BY <1>2 DEF TypeOK
    <3> QED
      BY <1>2, <3>1, SizesAre
  <2>7. Graph(plan) /\ Count(plan) \in Nat
    BY <1>2, PlanIs, BeforeIs
  <2>8. Len(waves) \in 1 .. Count(plan)
    BY <2>3, <2>4, <2>6, <2>7
  <2>9. Before(plan)[Len(waves)] = completed \cup Wave
    BY <2>3, <2>5, <2>7, <2>8, BeforeIs DEF Level
  <2> QED
    BY <2>2, <2>3, <2>9
<1>10. EndOK'
  BY <1>1 DEF EndOK
<1> QED
  BY <1>4, <1>5, <1>6, <1>7, <1>8, <1>9, <1>10

LEMMA INext == IInv /\ [Next]_vars => IInv'
<1> SUFFICES ASSUME IInv, [Next]_vars PROVE IInv'
  OBVIOUS
<1>1. ASSUME NEW w \in Workers, WorkerStep(w) \/ Dies(w)
      PROVE  IInv'
  BY <1>1, TakeKeeps, LeaveKeeps, BeginKeeps, RunStepKeeps, FenceKeeps, WriteKeeps,
     ReportKeeps, FinishKeeps, DiesKeeps, SmallKeeps DEF WorkerStep
<1>2. ASSUME NEW n \in Nodes, LeaseLapses(n)
      PROVE  IInv'
  <2>1. PICK w \in Workers : TRUE
    BY WorkerAssumption
  <2> QED
    BY <1>2, <2>1, LapsesKeeps, SmallKeeps
<1>3. CASE UNCHANGED vars
  BY <1>3 DEF vars, IInv, TypeOK, WorkersOK, ClaimsOK, PhaseOK, SplitOK, LevelsOK, EndOK, Nodes,
              Wave, WorkerRecords, Busy, NewestReports, IsCurrent, MayWrite, Step, Ran, Done
<1> QED
  BY <1>1, <1>2, <1>3, CriticKeeps, StartWaveKeeps, EndWaveKeeps, EndRunKeeps DEF Next

\* The invariant of a run holds in every state.
THEOREM RunInvariant == Spec => []IInv
<1> QED
  BY IInit, INext, PTL DEF Spec

-----------------------------------------------------------------------------
\* What follows from it.

\* A path is written by one node of a wave at most, however late a worker writes, and an
\* outcome is handed in by the newest claim of its node (node_view, is_current and ack).
THEOREM FencedAlways == Spec => []LateIsFenced
<1>1. ASSUME IInv
      PROVE  LateIsFenced
  <2>1. OneWriter
    <3>1. SUFFICES ASSUME NEW f \in Paths, NEW m \in writers[f], NEW n \in writers[f]
                   PROVE  m = n
      BY DEF OneWriter
    <3>2. /\ m \in Wave /\ MayWrite(m, f)
          /\ n \in Wave /\ MayWrite(n, f)
      BY <1>1 DEF IInv, ClaimsOK
    <3> QED
      BY <3>2 DEF MayWrite
  <2> QED
    BY <1>1, <2>1 DEF LateIsFenced, IInv, ClaimsOK
<1> QED
  BY <1>1, RunInvariant, PTL

\* An accepted plan is carried out: the scheduler never raises, runs the waves that were
\* planned, runs a node when its dependencies have completed, and leaves out only what is
\* behind a node that trapped.
THEOREM CarriedOutAlways == Spec => []PlanCarriedOut
<1>1. ASSUME IInv
      PROVE  PlanCarriedOut
  <2> USE <1>1 DEF IInv
  <2>1. plan \in Plans /\ Graph(plan) /\ completed \in SUBSET Nodes
    BY PlanIs DEF TypeOK
  <2>2. ASSUME phase = "ended"
        PROVE  Dag(plan) /\ ReadyNodes(plan, completed) \cap remaining = {}
    BY <2>1, <2>2, AcceptedIsPlannable DEF PhaseOK, EndOK
  <2>3. ASSUME phase = "ended", trapped = {}
        PROVE  completed = Nodes /\ waves = Levels(plan)
    <3>1. remaining = Nodes \ completed
      BY <2>3 DEF SplitOK
    <3>2. ReadyNodes(plan, completed) = {}
      BY <2>2, <2>3, <3>1 DEF ReadyNodes, Nodes
    <3>3. completed = Nodes
      BY <2>1, <2>2, <2>3, <3>2, NoneReady DEF Nodes
    <3>4. /\ Len(waves) <= Cardinality(completed) /\ completed = Before(plan)[Len(waves)]
          /\ \A k \in 1 .. Len(waves) : waves[k] # {} /\ waves[k] = Level(plan, k)
      BY <2>3 DEF LevelsOK, Ran
    <3>5. Len(waves) \in Nat /\ waves = [k \in 1 .. Len(waves) |-> waves[k]]
      BY DEF TypeOK
    <3>6. Cardinality(completed) <= Count(plan) /\ Count(plan) \in Nat /\ Cardinality(completed) \in Nat
      BY <2>1, SizesAre, BeforeIs
    <3>7. Len(waves) \in 0 .. Count(plan)
      BY <3>4, <3>5, <3>6
    <3> DEFINE ws == waves
               L == Len(waves)
    <3>8. Before(plan)[L] = NodesOf(plan)
      BY <3>3, <3>4 DEF Nodes
    <3> HIDE DEF L
    <3>9. waves = Levels(plan)
      BY <2>2, <2>3, <3>4, <3>5, <3>7, <3>8, LevelsAre DEF L
    <3> QED
      BY <3>3, <3>9
  <2>4. ASSUME phase = "ended", NEW n \in remaining
        PROVE  \E m \in trapped : m \in Reached(plan, n)
    <3> DEFINE U == {k \in remaining : \A m \in trapped : m \notin Reached(plan, k)}
    <3>1. SUFFICES ASSUME U # {} PROVE FALSE
      OBVIOUS
    <3>2. Dag(plan) /\ ReadyNodes(plan, completed) \cap remaining = {}
      BY <2>2, <2>4
    <3>3. remaining = NodesOf(plan) \ (completed \cup trapped)
      BY DEF SplitOK, Nodes
    <3>4. ASSUME NEW k \in U
          PROVE  \E d \in plan.deps[k] : d \in U
      <4>1. k \in NodesOf(plan)
        BY <3>3
      <4>2. PICK d \in plan.deps[k] : d \notin completed
        BY <3>2, <3>3, <4>1 DEF ReadyNodes
      <4>3. d \in Reached(plan, k) /\ d \in NodesOf(plan) /\ Reached(plan, d) \subseteq Reached(plan, k)
        BY <3>2, <4>1, <4>2, ReachedOn DEF Dag
      <4>4. d \in remaining
        BY <3>3, <4>2, <4>3
      <4> QED
        BY <4>2, <4>3, <4>4
    <3>5. U \in SUBSET NodesOf(plan)
      BY <3>3
    <3> HIDE DEF U
    <3> QED
      BY <3>1, <3>2, <3>4, <3>5, WaitingIsACycle DEF Dag
  <2>5. WavesAsPlanned
    BY <2>3, <2>4 DEF WavesAsPlanned, PhaseOK
  <2>6. DependenciesFirst
    BY DEF DependenciesFirst, WorkersOK, SplitOK, ReadyNodes, Busy
  <2> QED
    BY <2>5, <2>6 DEF PlanCarriedOut
<1> QED
  BY <1>1, RunInvariant, PTL

-----------------------------------------------------------------------------
\* One node after the other.

StepIndices(p, n) == 1 .. Len(StepsOf(p, n))

\* What the critic and the fence ask of a step, and a settled plan without a trap.
CleanStep(p, n, i) ==
    StepsOf(p, n)[i].path \in WritesOf(p, n) \cap Paths /\ StepsOf(p, n)[i].do # "trap"

Plain(p) ==
    Settled(p) /\ \A n \in NodesOf(p) : \A i \in StepIndices(p, n) : CleanStep(p, n, i)

\* What a step writes if the files are as they are in fs.
Carried(p, n, i, fs) ==
    IF StepsOf(p, n)[i].do = "copy" THEN fs[StepsOf(p, n)[i].from] ELSE StepsOf(p, n)[i].value

PlainStep(p, n, i) ==
    LET s == StepsOf(p, n)[i]
    IN  /\ s.path \in Paths /\ s.path \in PathsOf(p, n) /\ s.do \in {"write", "copy"}
        /\ s.do = "write" => s.value \in Contents
        /\ s.do = "copy" => s.from \in Paths
        /\ s.do = "copy" => \A m \in NodesOf(p) : s.from \in PathsOf(p, m) => m \in Reached(p, n)

LEMMA PlainStepIs ==
    ASSUME NEW p \in Plans, Plain(p), NEW n \in NodesOf(p), NEW i \in StepIndices(p, n)
    PROVE  PlainStep(p, n, i)
<1> DEFINE s == StepsOf(p, n)[i]
<1>1. \A m \in NodesOf(p) : ProgramOK(StepsOf(p, m))
  BY StepsAre
<1>2. CleanStep(p, n, i)
  BY DEF Plain
<1>3. i \in DOMAIN StepsOf(p, n)
  BY <1>1 DEF ProgramOK, StepIndices
<1>4. /\ s.do \in {"write", "copy", "trap"}
      /\ s.do = "write" => s.value \in Contents
      /\ s.do = "copy" => s.from \in Paths
  BY <1>1 DEF ProgramOK, StepIndices
<1>5. s.path \in PathsOf(p, n)
  BY <1>3 DEF PathsOf
<1>6. ASSUME s.do = "copy", NEW m \in NodesOf(p), s.from \in PathsOf(p, m)
      PROVE  m \in Reached(p, n)
  <2>1. PICK j \in DOMAIN StepsOf(p, m) : s.from = StepsOf(p, m)[j].path
    BY <1>6 DEF PathsOf
  <2>2. j \in StepIndices(p, m)
    BY <1>1 DEF ProgramOK, StepIndices
  <2>3. CleanStep(p, m, j)
    BY <2>2 DEF Plain
  <2>4. s.from \in WritesOf(p, m)
    BY <2>1, <2>3 DEF CleanStep
  <2> QED
    BY <1>3, <1>6, <2>4 DEF Plain, Settled
<1> QED
  BY <1>2, <1>4, <1>5, <1>6 DEF PlainStep, CleanStep

\* A path stands in one step of a node.
LEMMA OnePath ==
    ASSUME NEW p \in Plans, Settled(p), NEW n \in NodesOf(p),
           NEW i \in StepIndices(p, n), NEW j \in StepIndices(p, n),
           StepsOf(p, n)[i].path = StepsOf(p, n)[j].path
    PROVE  i = j
<1>1. i \in DOMAIN StepsOf(p, n) /\ j \in DOMAIN StepsOf(p, n)
  BY StepsAre DEF ProgramOK, StepIndices
<1> QED
  BY <1>1 DEF Settled

LEMMA AfterStepIs ==
    ASSUME NEW p \in Plans, Plain(p), NEW n \in NodesOf(p), NEW i \in StepIndices(p, n),
           NEW fs \in [Paths -> Contents]
    PROVE  /\ Carried(p, n, i, fs) \in Contents
           /\ AfterStep(fs, StepsOf(p, n)[i]) =
                [fs EXCEPT ![StepsOf(p, n)[i].path] = Carried(p, n, i, fs)]
           /\ AfterStep(fs, StepsOf(p, n)[i]) \in [Paths -> Contents]
<1>1. PlainStep(p, n, i)
  BY PlainStepIs
<1> QED
  BY <1>1 DEF PlainStep, Carried, AfterStep

LEMMA AfterStepsIs ==
    ASSUME NEW p \in Plans, Plain(p), NEW n \in NodesOf(p), NEW fs \in [Paths -> Contents]
    PROVE  LET w == AfterSteps(p, n, fs)
           IN  /\ w \in [0 .. Len(StepsOf(p, n)) -> [Paths -> Contents]] /\ w[0] = fs
               /\ \A k \in StepIndices(p, n) : w[k] = AfterStep(w[k - 1], StepsOf(p, n)[k])
<1> DEFINE c == Len(StepsOf(p, n))
           S == [Paths -> Contents]
           Do(k, x) == AfterStep(x, StepsOf(p, n)[k])
           G == [k \in 1 .. c |-> [x \in S |-> Do(k, x)]]
           Is(f) == f = [k \in 0 .. c |-> IF k = 0 THEN fs ELSE Do(k, f[k - 1])]
<1>1. c \in Nat
  BY StepsAre DEF ProgramOK
<1>2. \A k \in 1 .. c : \A x \in S : Do(k, x) \in S
  BY AfterStepIs DEF StepIndices
<1>3. AfterSteps(p, n, fs) = CHOOSE f : Is(f)
  BY DEF AfterSteps
<1>4. fs \in S
  OBVIOUS
<1>5. StepIndices(p, n) = 1 .. c
  BY DEF StepIndices
<1> HIDE DEF S, Do, c
<1>6. G \in [1 .. c -> [S -> S]] /\ \A k \in 1 .. c : \A x \in S : G[k][x] = Do(k, x)
  BY <1>2
<1> HIDE DEF G
<1>7. PICK f : IsSeries(f, S, G, fs, c)
  BY <1>1, <1>4, <1>6, SeriesExists
<1>8. f \in [0 .. c -> S] /\ f[0] = fs /\ \A k \in 1 .. c : f[k] = G[k][f[k - 1]]
  BY <1>7 DEF IsSeries
<1>9. Is(f)
  <2>1. ASSUME NEW k \in 0 .. c
        PROVE  f[k] = IF k = 0 THEN fs ELSE Do(k, f[k - 1])
    <3>1. CASE k = 0
      BY <1>8, <3>1
    <3>2. CASE k # 0
      <4>1. k \in 1 .. c /\ k - 1 \in 0 .. c
        BY <1>1, <3>2
      <4> QED
        BY <1>6, <1>8, <3>2, <4>1
    <3> QED
      BY <3>1, <3>2
  <2> QED
    BY <1>8, <2>1
<1> DEFINE w == AfterSteps(p, n, fs)
<1> HIDE DEF w
<1>10. Is(w)
  BY <1>3, <1>9 DEF w
<1>11. w = [k \in 0 .. c |-> IF k = 0 THEN fs ELSE Do(k, w[k - 1])]
  BY <1>10
<1>12. w[0] = fs /\ \A k \in 1 .. c : w[k] = Do(k, w[k - 1])
  <2>1. 0 \in 0 .. c /\ \A k \in 1 .. c : k \in 0 .. c /\ k # 0
    BY <1>1
  <2> QED
    BY <1>11, <2>1, Zenon
<1>13. \A k \in 0 .. c : w[k] \in S
  <2> DEFINE Bad == {k \in 0 .. c : w[k] \notin S}
  <2> SUFFICES ASSUME Bad # {} PROVE FALSE
    OBVIOUS
  <2>1. PICK m \in Bad : \A j \in Bad : m <= j
    <3>1. Bad \in SUBSET Nat
      BY <1>1
    <3> HIDE DEF Bad
    <3> QED
      BY <3>1, SmallestOf
  <2>2. m \in 1 .. c /\ m - 1 \in 0 .. c
    BY <1>1, <1>4, <1>12, <2>1
  <2>3. w[m - 1] \in S
    BY <1>1, <2>1, <2>2
  <2> QED
    BY <1>2, <1>12, <2>1, <2>2, <2>3
<1>14. w \in [0 .. c -> S]
  BY <1>11, <1>13
<1> QED
  BY <1>5, <1>12, <1>14 DEF w, S, Do, c

\* What a node leaves: its own paths written, all others as they were.
NodeWrites(p, n, fs, g) ==
    /\ g \in [Paths -> Contents]
    /\ \A f \in Paths \ PathsOf(p, n) : g[f] = fs[f]
    /\ \A i \in StepIndices(p, n) : g[StepsOf(p, n)[i].path] = Carried(p, n, i, fs)

LEMMA AfterNodeIs ==
    ASSUME NEW p \in Plans, Dag(p), Plain(p), NEW n \in NodesOf(p), NEW fs \in [Paths -> Contents]
    PROVE  NodeWrites(p, n, fs, AfterNode(p, n, fs))
<1> DEFINE s == StepsOf(p, n)
           c == Len(s)
           w == AfterSteps(p, n, fs)
           Path(i) == s[i].path
           P(k) == /\ \A f \in Paths \ {Path(i) : i \in 1 .. k} : w[k][f] = fs[f]
                   /\ \A i \in 1 .. k : w[k][Path(i)] = Carried(p, n, i, fs)
           Bad == {k \in 0 .. c : ~P(k)}
<1>1. /\ w \in [0 .. c -> [Paths -> Contents]] /\ w[0] = fs
      /\ \A k \in 1 .. c : w[k] = AfterStep(w[k - 1], s[k])
  BY AfterStepsIs DEF StepIndices
<1>2. c \in Nat /\ DOMAIN s = 1 .. c
  BY StepsAre DEF ProgramOK
<1>3. \A i, j \in 1 .. c : Path(i) = Path(j) => i = j
  BY OnePath DEF Plain, StepIndices
<1>4. PathsOf(p, n) = {Path(i) : i \in 1 .. c}
  BY <1>2 DEF PathsOf
<1>5. ASSUME NEW k \in 1 .. c, s[k].do = "copy"
      PROVE  s[k].from \in Paths \ {Path(i) : i \in 1 .. c}
  <2>1. PlainStep(p, n, k)
    BY PlainStepIs DEF StepIndices
  <2>2. n \notin Reached(p, n)
    BY DEF Dag, HasCycle
  <2> QED
    BY <1>4, <1>5, <2>1, <2>2 DEF PlainStep
<1>6. ASSUME NEW k \in 1 .. c, NEW x \in [Paths -> Contents]
      PROVE  AfterStep(x, s[k]) = [x EXCEPT ![Path(k)] = Carried(p, n, k, x)]
  <2>1. k \in StepIndices(p, n)
    BY DEF StepIndices
  <2> QED
    BY <2>1, AfterStepIs
<1>7. \A k \in 1 .. c : Path(k) \in Paths
  BY PlainStepIs DEF PlainStep, StepIndices
<1>8. ASSUME NEW k \in 1 .. c, NEW x \in [Paths -> Contents], s[k].do = "copy" => x[s[k].from] = fs[s[k].from]
      PROVE  Carried(p, n, k, x) = Carried(p, n, k, fs)
  BY <1>8 DEF Carried
<1> HIDE DEF w, c, Path
<1>9. Bad = {}
  <2> SUFFICES ASSUME Bad # {} PROVE FALSE
    OBVIOUS
  <2>1. PICK m \in Bad : \A j \in Bad : m <= j
    <3>1. Bad \in SUBSET Nat
      BY <1>2
    <3> HIDE DEF Bad
    <3> QED
      BY <3>1, SmallestOf
  <2>2. P(0)
    BY <1>1
  <2>3. m \in 1 .. c /\ m - 1 \in 0 .. c
    BY <1>2, <2>1, <2>2
  <2>4. P(m - 1)
    BY <2>1, <2>3
  <2> DEFINE x == w[m - 1]
  <2>5. x \in [Paths -> Contents]
    BY <1>1, <2>3
  <2>6. /\ \A f \in Paths \ {Path(i) : i \in 1 .. m - 1} : x[f] = fs[f]
        /\ \A i \in 1 .. m - 1 : x[Path(i)] = Carried(p, n, i, fs)
    BY <2>4
  <2>7. w[m] = AfterStep(x, s[m])
    BY <1>1, <2>3
  <2> HIDE DEF x, s
  <2>8. s[m].do = "copy" => x[s[m].from] = fs[s[m].from]
    <3>1. \A i \in 1 .. m - 1 : i \in 1 .. c
      BY <1>2, <2>3
    <3> QED
      BY <1>5, <2>3, <2>6, <3>1
  <2>9. Carried(p, n, m, x) = Carried(p, n, m, fs)
    BY <1>8, <2>3, <2>5, <2>8
  <2>10. w[m] = [x EXCEPT ![Path(m)] = Carried(p, n, m, fs)]
    <3>1. AfterStep(x, s[m]) = [x EXCEPT ![Path(m)] = Carried(p, n, m, x)]
      BY <1>6, <2>3, <2>5
    <3> QED
      BY <2>7, <2>9, <3>1, Zenon
  <2>11. ASSUME NEW f \in Paths \ {Path(i) : i \in 1 .. m}
         PROVE  w[m][f] = fs[f]
    <3>1. m \in 1 .. m /\ \A i \in 1 .. m - 1 : i \in 1 .. m
      BY <1>2, <2>3
    <3>2. f # Path(m) /\ f \in Paths \ {Path(i) : i \in 1 .. m - 1}
      BY <3>1
    <3> QED
      BY <2>5, <2>6, <2>10, <3>2
  <2>12. ASSUME NEW i \in 1 .. m
         PROVE  w[m][Path(i)] = Carried(p, n, i, fs)
    <3>1. i \in 1 .. c
      BY <1>2, <2>3
    <3>2. CASE i = m
      BY <1>7, <2>3, <2>5, <2>10, <3>2
    <3>3. CASE i # m
      <4>1. i \in 1 .. m - 1
        BY <1>2, <2>3, <3>3
      <4>2. Path(i) # Path(m) /\ Path(i) \in Paths
        BY <1>3, <1>7, <2>3, <3>1, <3>3
      <4> QED
        BY <2>5, <2>6, <2>10, <4>1, <4>2
    <3> QED
      BY <3>2, <3>3
  <2> QED
    BY <2>1, <2>11, <2>12
<1>10. P(c)
  <2>1. c \in 0 .. c
    BY <1>2
  <2> HIDE DEF P
  <2> QED
    BY <1>9, <2>1
<1>11. w[c] \in [Paths -> Contents]
  BY <1>1, <1>2
<1>12. NodeWrites(p, n, fs, w[c])
  BY <1>4, <1>10, <1>11 DEF NodeWrites, StepIndices, c, Path
<1> QED
  BY <1>12 DEF AfterNode, w, c

LEMMA AfterNodesIs ==
    ASSUME NEW p \in Plans, Dag(p), Plain(p)
    PROVE  LET w == AfterNodes(p)
               o == KahnOrder(p)
           IN  /\ w \in [0 .. Len(o) -> [Paths -> Contents]] /\ w[0] = FilesBefore(p)
               /\ \A k \in 1 .. Len(o) : w[k] = AfterNode(p, o[k], w[k - 1])
<1> DEFINE o == KahnOrder(p)
           c == Len(o)
           a == FilesBefore(p)
           S == [Paths -> Contents]
           Do(k, x) == AfterNode(p, o[k], x)
           G == [k \in 1 .. c |-> [x \in S |-> Do(k, x)]]
           Is(f) == f = [k \in 0 .. c |-> IF k = 0 THEN a ELSE Do(k, f[k - 1])]
<1>1. c \in Nat /\ \A k \in 1 .. c : o[k] \in NodesOf(p)
  BY KahnOrders DEF Ordered
<1>2. \A k \in 1 .. c : \A x \in S : Do(k, x) \in S
  <2> SUFFICES ASSUME NEW k \in 1 .. c, NEW x \in S
               PROVE  Do(k, x) \in S
    OBVIOUS
  <2> DEFINE n == o[k]
  <2>1. n \in NodesOf(p)
    BY <1>1
  <2> HIDE DEF n
  <2>2. NodeWrites(p, n, x, AfterNode(p, n, x))
    BY <2>1, AfterNodeIs
  <2> QED
    BY <2>2 DEF NodeWrites, n
<1>3. AfterNodes(p) = CHOOSE f : Is(f)
  BY DEF AfterNodes
<1>4. a \in S
  BY PlanAssumption DEF FilesBefore, Absent
<1> HIDE DEF S, Do, c, a
<1>6. G \in [1 .. c -> [S -> S]] /\ \A k \in 1 .. c : \A x \in S : G[k][x] = Do(k, x)
  BY <1>2
<1> HIDE DEF G
<1>7. PICK f : IsSeries(f, S, G, a, c)
  BY <1>1, <1>4, <1>6, SeriesExists
<1>8. f \in [0 .. c -> S] /\ f[0] = a /\ \A k \in 1 .. c : f[k] = G[k][f[k - 1]]
  BY <1>7 DEF IsSeries
<1>9. Is(f)
  <2>1. ASSUME NEW k \in 0 .. c
        PROVE  f[k] = IF k = 0 THEN a ELSE Do(k, f[k - 1])
    <3>1. CASE k = 0
      BY <1>8, <3>1
    <3>2. CASE k # 0
      <4>1. k \in 1 .. c /\ k - 1 \in 0 .. c
        BY <1>1, <3>2
      <4> QED
        BY <1>6, <1>8, <3>2, <4>1
    <3> QED
      BY <3>1, <3>2
  <2> QED
    BY <1>8, <2>1
<1> DEFINE w == AfterNodes(p)
<1> HIDE DEF w
<1>10. Is(w)
  BY <1>3, <1>9 DEF w
<1>11. w = [k \in 0 .. c |-> IF k = 0 THEN a ELSE Do(k, w[k - 1])]
  BY <1>10
<1>12. w[0] = a /\ \A k \in 1 .. c : w[k] = Do(k, w[k - 1])
  <2>1. 0 \in 0 .. c /\ \A k \in 1 .. c : k \in 0 .. c /\ k # 0
    BY <1>1
  <2> QED
    BY <1>11, <2>1, Zenon
<1>13. \A k \in 0 .. c : w[k] \in S
  <2> DEFINE Bad == {k \in 0 .. c : w[k] \notin S}
  <2> SUFFICES ASSUME Bad # {} PROVE FALSE
    OBVIOUS
  <2>1. PICK m \in Bad : \A j \in Bad : m <= j
    <3>1. Bad \in SUBSET Nat
      BY <1>1
    <3> HIDE DEF Bad
    <3> QED
      BY <3>1, SmallestOf
  <2>2. m \in 1 .. c /\ m - 1 \in 0 .. c
    BY <1>1, <1>4, <1>12, <2>1
  <2>3. w[m - 1] \in S
    BY <1>1, <2>1, <2>2
  <2> QED
    BY <1>2, <1>12, <2>1, <2>2, <2>3
<1>14. w \in [0 .. c -> S]
  BY <1>11, <1>13
<1> QED
  BY <1>12, <1>14 DEF w, S, Do, c, a

\* A path stays as it is while nodes run that do not write it.
LEMMA StaysSerially ==
    ASSUME NEW p \in Plans, Dag(p), Plain(p), NEW f \in Paths,
           NEW k \in 0 .. Len(KahnOrder(p)),
           \A j \in k + 1 .. Len(KahnOrder(p)) : f \notin PathsOf(p, KahnOrder(p)[j])
    PROVE  SerialFiles(p)[f] = AfterNodes(p)[k][f]
<1> DEFINE o == KahnOrder(p)
           c == Len(o)
           w == AfterNodes(p)
           Bad == {j \in k .. c : w[j][f] # w[k][f]}
<1>1. /\ w \in [0 .. c -> [Paths -> Contents]]
      /\ \A j \in 1 .. c : w[j] = AfterNode(p, o[j], w[j - 1])
  BY AfterNodesIs
<1>2. c \in Nat /\ \A j \in 1 .. c : o[j] \in NodesOf(p)
  BY KahnOrders DEF Ordered
<1>3. ASSUME NEW j \in k + 1 .. c
      PROVE  w[j][f] = w[j - 1][f]
  <2> DEFINE n == o[j]
             x == w[j - 1]
  <2>1. n \in NodesOf(p) /\ x \in [Paths -> Contents] /\ w[j] = AfterNode(p, n, x)
    <3>1. j \in 1 .. c /\ j - 1 \in 0 .. c
      BY <1>2
    <3> QED
      BY <1>1, <1>2, <3>1
  <2>2. f \notin PathsOf(p, n)
    OBVIOUS
  <2> HIDE DEF n, x, w
  <2>3. NodeWrites(p, n, x, AfterNode(p, n, x))
    BY <2>1, AfterNodeIs
  <2>4. AfterNode(p, n, x)[f] = x[f]
    BY <2>2, <2>3 DEF NodeWrites
  <2> QED
    BY <2>1, <2>4 DEF x
<1> HIDE DEF w, c
<1>4. Bad = {}
  <2> SUFFICES ASSUME Bad # {} PROVE FALSE
    OBVIOUS
  <2>1. PICK m \in Bad : \A j \in Bad : m <= j
    <3>1. Bad \in SUBSET Nat
      BY <1>2 DEF c
    <3> HIDE DEF Bad
    <3> QED
      BY <3>1, SmallestOf
  <2>2. m \in k + 1 .. c /\ m - 1 \in k .. c
    BY <1>2, <2>1 DEF c
  <2>3. w[m - 1][f] = w[k][f]
    BY <1>2, <2>1, <2>2 DEF c
  <2> QED
    BY <1>3, <2>1, <2>2, <2>3
<1>5. c \in k .. c
  BY <1>2 DEF c
<1> QED
  BY <1>4, <1>5 DEF SerialFiles, w, c

\* What a plain plan leaves: a path nobody writes is as before, and one that a node is the
\* last to write has what the node carries there from the files as they are in the end.
LEMMA SerialIs ==
    ASSUME NEW p \in Plans, Dag(p), Plain(p)
    PROVE  /\ SerialFiles(p) \in [Paths -> Contents]
           /\ \A f \in Paths : (\A n \in NodesOf(p) : f \notin PathsOf(p, n)) =>
                 SerialFiles(p)[f] = FilesBefore(p)[f]
           /\ \A n \in NodesOf(p) : \A i \in StepIndices(p, n) :
                 (\A m \in NodesOf(p) \ {n} :
                     StepsOf(p, n)[i].path \in PathsOf(p, m) => m \in Reached(p, n)) =>
                 SerialFiles(p)[StepsOf(p, n)[i].path] = Carried(p, n, i, SerialFiles(p))
<1> DEFINE o == KahnOrder(p)
           c == Len(o)
           w == AfterNodes(p)
           F == SerialFiles(p)
<1>1. /\ w \in [0 .. c -> [Paths -> Contents]] /\ w[0] = FilesBefore(p)
      /\ \A j \in 1 .. c : w[j] = AfterNode(p, o[j], w[j - 1])
  BY AfterNodesIs
<1>2. Ordered(p, o) /\ ToSet(o) = NodesOf(p)
  BY KahnOrders
<1>3. /\ c \in Nat /\ DOMAIN o = 1 .. c /\ \A j \in 1 .. c : o[j] \in NodesOf(p)
      /\ \A i, j \in 1 .. c : o[i] = o[j] => i = j
  BY <1>2 DEF Ordered
<1>4. ASSUME NEW f \in Paths, NEW k \in 0 .. c, \A j \in k + 1 .. c : f \notin PathsOf(p, o[j])
      PROVE  F[f] = w[k][f]
  BY <1>4, StaysSerially
<1> HIDE DEF w, F
<1>5. F \in [Paths -> Contents]
  <2>1. c \in 0 .. c
    BY <1>3
  <2> QED
    BY <1>1, <2>1 DEF SerialFiles, F, w
<1>6. ASSUME NEW f \in Paths, \A n \in NodesOf(p) : f \notin PathsOf(p, n)
      PROVE  F[f] = FilesBefore(p)[f]
  <2>1. 0 \in 0 .. c /\ \A j \in 0 + 1 .. c : f \notin PathsOf(p, o[j])
    BY <1>3, <1>6
  <2>2. F[f] = w[0][f]
    BY <1>4, <2>1
  <2> QED
    BY <1>1, <2>2
<1>7. ASSUME NEW n \in NodesOf(p), NEW i \in StepIndices(p, n),
             \A m \in NodesOf(p) \ {n} :
                 StepsOf(p, n)[i].path \in PathsOf(p, m) => m \in Reached(p, n)
      PROVE  F[StepsOf(p, n)[i].path] = Carried(p, n, i, F)
  <2> DEFINE s == StepsOf(p, n)[i]
  <2>1. PICK k \in 1 .. c : o[k] = n
    BY <1>2, <1>3 DEF ToSet
  <2>2. Reached(p, n) \subseteq {o[j] : j \in 1 .. k - 1}
    BY <1>2, <2>1, ReachedInFront
  <2>3. ASSUME NEW j \in k .. c, o[j] \in Reached(p, n)
        PROVE  FALSE
    <3>1. PICK l \in 1 .. k - 1 : o[l] = o[j]
      BY <2>2, <2>3
    <3>2. l \in 1 .. c /\ j \in 1 .. c
      BY <1>3
    <3>3. l = j
      BY <1>3, <3>1, <3>2
    <3> QED
      BY <1>3, <3>3
  <2>4. PlainStep(p, n, i)
    BY PlainStepIs
  <2>5. s.path \in Paths /\ (s.do = "copy" => s.from \in Paths)
    BY <2>4 DEF PlainStep
  <2> DEFINE x == w[k - 1]
  <2>6. x \in [Paths -> Contents] /\ w[k] = AfterNode(p, n, x)
    <3>1. k - 1 \in 0 .. c
      BY <1>3
    <3> QED
      BY <1>1, <2>1, <3>1
  <2>7. NodeWrites(p, n, x, w[k])
    <3> HIDE DEF x
    <3> QED
      BY <2>6, AfterNodeIs
  <2>8. w[k][s.path] = Carried(p, n, i, x)
    BY <2>7 DEF NodeWrites
  <2>9. F[s.path] = w[k][s.path]
    <3>1. ASSUME NEW j \in k + 1 .. c, s.path \in PathsOf(p, o[j])
          PROVE  FALSE
      <4>1. j \in 1 .. c /\ j \in k .. c /\ j # k
        BY <1>3
      <4>2. o[j] # n /\ o[j] \in NodesOf(p)
        BY <1>3, <2>1, <4>1
      <4>3. o[j] \in Reached(p, n)
        BY <1>7, <3>1, <4>2
      <4> QED
        BY <2>3, <4>1, <4>3
    <3>2. k \in 0 .. c
      BY <1>3
    <3> QED
      BY <1>4, <2>5, <3>1, <3>2
  <2>10. ASSUME s.do = "copy"
         PROVE  F[s.from] = x[s.from]
    <3>1. k - 1 \in 0 .. c /\ (k - 1) + 1 = k
      BY <1>3
    <3>2. ASSUME NEW j \in k .. c, s.from \in PathsOf(p, o[j])
          PROVE  FALSE
      <4>1. j \in 1 .. c
        BY <1>3
      <4>2. o[j] \in Reached(p, n)
        BY <1>3, <2>4, <2>10, <3>2, <4>1 DEF PlainStep
      <4> QED
        BY <2>3, <4>2
    <3> QED
      BY <1>4, <2>5, <2>10, <3>1, <3>2
  <2> QED
    BY <2>8, <2>9, <2>10 DEF Carried
<1> QED
  BY <1>5, <1>6, <1>7 DEF F

-----------------------------------------------------------------------------
\* The waves against the nodes one after the other.

\* What of its node's program a worker has behind it, and what somebody has.
Past(r, i) ==
    /\ r.pc \notin {"off", "take"}
    /\ IF r.pc \in {"report", "finish"} THEN r.result = "ok" ELSE i < r.i

DoneStep(n, i) ==
    outcome[n] = "ok" \/ \E w \in Workers : worker[w].node = n /\ Past(worker[w], i)

\* Who writes f is in C.
Over(f, C) == \A n \in Nodes : f \in PathsOf(plan, n) => n \in C

\* Nodes complete behind what they depend on; what was done was allowed and no trap.
CleanOK ==
    /\ Follows(plan, completed)
    /\ \A n \in completed : \A i \in StepIndices(plan, n) : CleanStep(plan, n, i)
    /\ phase = "wave" => \A n \in Wave : \A i \in StepIndices(plan, n) :
          DoneStep(n, i) => CleanStep(plan, n, i)
    /\ \A w \in Workers : worker[w].pc \in {"fence", "write"} =>
          /\ worker[w].i \in StepIndices(plan, worker[w].node)
          /\ StepsOf(plan, worker[w].node)[worker[w].i].do # "trap"

\* A path that everybody who writes it is done with is as it will be in the end, and a
\* worker brings to the fence what its step would carry there in the end.
FilesOK ==
    Plain(plan) =>
        /\ phase = "critic" => files = FilesBefore(plan)
        /\ phase \in {"between", "wave", "ended"} => \A f \in Paths :
              Over(f, completed) => files[f] = SerialFiles(plan)[f]
        /\ phase = "wave" => \A n \in Wave : \A i \in StepIndices(plan, n) :
              DoneStep(n, i) /\ Over(StepsOf(plan, n)[i].path, completed \cup {n}) =>
                  files[StepsOf(plan, n)[i].path] = SerialFiles(plan)[StepsOf(plan, n)[i].path]
        /\ \A w \in Workers : worker[w].pc \in {"fence", "write"} =>
              worker[w].read = Carried(plan, worker[w].node, worker[w].i, SerialFiles(plan))

SerialInv == IInv /\ CleanOK /\ FilesOK

\* What a wave knows of its nodes when the plan is plain.
InWave(n) ==
    /\ plan \in Plans /\ Dag(plan) /\ n \in NodesOf(plan) /\ n \notin completed
    /\ Reached(plan, n) \subseteq completed
    /\ \A m \in Wave \ {n} : PathsOf(plan, m) \cap PathsOf(plan, n) = {}
    /\ \A i \in StepIndices(plan, n) :
        /\ Over(StepsOf(plan, n)[i].path, completed \cup {n}) =>
              SerialFiles(plan)[StepsOf(plan, n)[i].path] = Carried(plan, n, i, SerialFiles(plan))
        /\ StepsOf(plan, n)[i].do = "copy" => Over(StepsOf(plan, n)[i].from, completed)

LEMMA ReachedIsOver ==
    ASSUME plan \in Plans, Dag(plan), Follows(plan, completed),
           NEW n \in NodesOf(plan), plan.deps[n] \subseteq completed
    PROVE  Reached(plan, n) \subseteq completed
BY ReachedLeast DEF Dag

LEMMA InWaveIs ==
    ASSUME IInv, Follows(plan, completed), phase = "wave", Plain(plan), NEW n \in Wave
    PROVE  InWave(n)
<1>1. plan \in Plans /\ Dag(plan)
  BY PlanIs, AcceptedIsPlannable DEF IInv, PhaseOK, TypeOK
<1>2. ASSUME NEW m \in Wave
      PROVE  m \in NodesOf(plan) /\ m \notin completed /\ plan.deps[m] \subseteq completed
  BY DEF IInv, SplitOK, ReadyNodes
<1>3. ASSUME NEW m \in Wave
      PROVE  Reached(plan, m) \subseteq completed
  BY <1>1, <1>2, ReachedIsOver
<1>4. ASSUME NEW m \in Wave, m # n, PathsOf(plan, m) \cap PathsOf(plan, n) # {}
      PROVE  FALSE
  <2>1. m \in Reached(plan, n) \/ n \in Reached(plan, m)
    BY <1>2, <1>4 DEF Plain, Settled
  <2> QED
    BY <1>2, <1>3, <2>1
<1>5. ASSUME NEW i \in StepIndices(plan, n),
             Over(StepsOf(plan, n)[i].path, completed \cup {n})
      PROVE  SerialFiles(plan)[StepsOf(plan, n)[i].path] = Carried(plan, n, i, SerialFiles(plan))
  <2> DEFINE f == StepsOf(plan, n)[i].path
  <2>1. f \in PathsOf(plan, n)
    BY <1>1, <1>2, PlainStepIs DEF PlainStep
  <2>2. ASSUME NEW m \in NodesOf(plan) \ {n}, f \in PathsOf(plan, m)
        PROVE  m \in Reached(plan, n)
    <3>1. m \in completed
      BY <1>5, <2>2 DEF Over, Nodes
    <3>2. m \in Reached(plan, n) \/ n \in Reached(plan, m)
      BY <1>2, <2>1, <2>2 DEF Plain, Settled
    <3>3. Reached(plan, m) \subseteq completed
      BY <1>1, <3>1, ReachedIsOver DEF Follows
    <3> QED
      BY <1>2, <3>2, <3>3
  <2> QED
    BY <1>1, <1>2, <2>2, SerialIs
<1>6. ASSUME NEW i \in StepIndices(plan, n), StepsOf(plan, n)[i].do = "copy"
      PROVE  Over(StepsOf(plan, n)[i].from, completed)
  <2>1. PlainStep(plan, n, i)
    BY <1>1, <1>2, PlainStepIs
  <2> QED
    BY <1>3, <1>6, <2>1 DEF PlainStep, Over, Nodes
<1> QED
  BY <1>1, <1>2, <1>3, <1>4, <1>5, <1>6 DEF InWave

-----------------------------------------------------------------------------
\* What a worker does: nothing to the files, or it reads, or it is done with a step.

\* Nobody is done with more than before, but for the steps in More.
Adds(w, More) ==
    /\ \A u \in Workers \ {w} : worker'[u] = worker[u]
    /\ \A n \in Nodes : \A i \in StepIndices(plan, n) :
        /\ outcome'[n] = "ok" => DoneStep(n, i)
        /\ worker'[w].node = n /\ Past(worker'[w], i) => DoneStep(n, i) \/ <<n, i>> \in More

Quiet(w) ==
    /\ phase = "wave" /\ Frame /\ files' = files /\ Adds(w, {})
    /\ worker'[w].pc \in {"fence", "write"} =>
        /\ worker[w].pc \in {"fence", "write"} /\ worker'[w].node = worker[w].node
        /\ worker'[w].i = worker[w].i /\ worker'[w].read = worker[w].read

Reads(w) ==
    LET n == worker[w].node
        i == worker[w].i
    IN  /\ phase = "wave" /\ Frame /\ files' = files /\ Adds(w, {})
        /\ n \in Wave /\ i \in StepIndices(plan, n) /\ StepsOf(plan, n)[i].do \in {"write", "copy"}
        /\ worker'[w].node = n /\ worker'[w].i = i /\ worker'[w].read = Carried(plan, n, i, files)

Puts(w) ==
    LET n == worker[w].node
        i == worker[w].i
        f == StepsOf(plan, n)[i].path
    IN  /\ phase = "wave" /\ Frame /\ Adds(w, {<<n, i>>})
        /\ n \in Wave /\ worker[w].pc \in {"fence", "write"} /\ MayWrite(n, f)
        /\ files'[f] = worker[w].read /\ \A g \in Paths \ {f} : files'[g] = files[g]
        /\ worker'[w].pc \notin {"fence", "write"}

LEMMA AddsIs ==
    ASSUME NEW w \in Workers, NEW More, Adds(w, More), NEW n \in Nodes,
           NEW i \in StepIndices(plan, n), DoneStep(n, i)'
    PROVE  DoneStep(n, i) \/ <<n, i>> \in More
<1>1. CASE outcome'[n] = "ok"
  BY <1>1 DEF Adds
<1>2. CASE outcome'[n] # "ok"
  <2>1. PICK u \in Workers : worker'[u].node = n /\ Past(worker'[u], i)
    BY <1>2 DEF DoneStep
  <2>2. CASE u = w
    BY <2>1, <2>2 DEF Adds
  <2>3. CASE u # w
    <3>1. worker'[u] = worker[u]
      BY <2>3 DEF Adds
    <3> QED
      BY <2>1, <3>1 DEF DoneStep
  <2> QED
    BY <2>2, <2>3
<1> QED
  BY <1>1, <1>2

LEMMA QuietKeeps ==
    ASSUME SerialInv, NEW w \in Workers, Quiet(w)
    PROVE  CleanOK' /\ FilesOK'
<1>1. /\ phase = "wave" /\ Frame /\ files' = files /\ Adds(w, {}) /\ Wave' = Wave /\ Nodes' = Nodes
      /\ Wave \subseteq Nodes
  BY FrameKeeps DEF Quiet, SerialInv, IInv, SplitOK, ReadyNodes, Nodes
<1>2. plan' = plan /\ completed' = completed /\ phase' = phase
  BY <1>1 DEF Frame
<1>3. ASSUME NEW n \in Wave, NEW i \in StepIndices(plan, n), DoneStep(n, i)'
      PROVE  DoneStep(n, i)
  <2> DEFINE none == {}
  <2>1. n \in Nodes /\ Adds(w, none)
    BY <1>1
  <2>2. \A z : z \notin none
    OBVIOUS
  <2> HIDE DEF none
  <2>3. DoneStep(n, i) \/ <<n, i>> \in none
    BY <1>3, <2>1, AddsIs
  <2> QED
    BY <2>2, <2>3
<1>4. ASSUME NEW u \in Workers, worker'[u].pc \in {"fence", "write"}
      PROVE  /\ worker[u].pc \in {"fence", "write"} /\ worker'[u].node = worker[u].node
             /\ worker'[u].i = worker[u].i /\ worker'[u].read = worker[u].read
  <2>1. CASE u = w
    BY <1>4, <2>1 DEF Quiet
  <2>2. CASE u # w
    BY <1>1, <1>4, <2>2 DEF Adds
  <2> QED
    BY <2>1, <2>2
<1>5. CleanOK'
  BY <1>1, <1>2, <1>3, <1>4 DEF CleanOK, SerialInv, StepIndices
<1>6. FilesOK'
  BY <1>1, <1>2, <1>3, <1>4 DEF FilesOK, SerialInv, StepIndices, Over
<1> QED
  BY <1>5, <1>6

LEMMA ReadsKeeps ==
    ASSUME SerialInv, NEW w \in Workers, Reads(w)
    PROVE  CleanOK' /\ FilesOK'
<1> DEFINE n == worker[w].node
           i == worker[w].i
<1>1. /\ phase = "wave" /\ Frame /\ files' = files /\ Adds(w, {}) /\ Wave' = Wave /\ Nodes' = Nodes
      /\ Wave \subseteq Nodes /\ IInv
  BY FrameKeeps DEF Reads, SerialInv, IInv, SplitOK, ReadyNodes, Nodes
<1>2. plan' = plan /\ completed' = completed /\ phase' = phase
  BY <1>1 DEF Frame
<1>3. ASSUME NEW m \in Wave, NEW j \in StepIndices(plan, m), DoneStep(m, j)'
      PROVE  DoneStep(m, j)
  <2> DEFINE none == {}
  <2>1. m \in Nodes /\ Adds(w, none)
    BY <1>1
  <2>2. \A z : z \notin none
    OBVIOUS
  <2> HIDE DEF none
  <2>3. DoneStep(m, j) \/ <<m, j>> \in none
    BY <1>3, <2>1, AddsIs
  <2> QED
    BY <2>2, <2>3
<1>4. /\ n \in Wave /\ i \in StepIndices(plan, n)
      /\ StepsOf(plan, n)[i].do \in {"write", "copy"}
      /\ worker'[w].node = n /\ worker'[w].i = i /\ worker'[w].read = Carried(plan, n, i, files)
  BY DEF Reads
<1>5. \A u \in Workers \ {w} : worker'[u] = worker[u]
  BY <1>1 DEF Adds
<1>6. ASSUME NEW u \in Workers, worker'[u].pc \in {"fence", "write"}
      PROVE  /\ worker'[u].i \in StepIndices(plan, worker'[u].node)
             /\ StepsOf(plan, worker'[u].node)[worker'[u].i].do # "trap"
  <2>1. CASE u = w
    BY <1>4, <2>1
  <2>2. CASE u # w
    BY <1>5, <1>6, <2>2 DEF SerialInv, CleanOK
  <2> QED
    BY <2>1, <2>2
<1>7. CleanOK'
  BY <1>1, <1>2, <1>3, <1>6 DEF CleanOK, SerialInv, StepIndices
<1>8. ASSUME Plain(plan)
      PROVE  Carried(plan, n, i, files) = Carried(plan, n, i, SerialFiles(plan))
  <2>1. CASE StepsOf(plan, n)[i].do # "copy"
    BY <2>1 DEF Carried
  <2>2. CASE StepsOf(plan, n)[i].do = "copy"
    <3>1. InWave(n)
      BY <1>1, <1>4, <1>8, InWaveIs DEF SerialInv, CleanOK
    <3>2. Over(StepsOf(plan, n)[i].from, completed)
      BY <1>4, <2>2, <3>1 DEF InWave
    <3>3. StepsOf(plan, n)[i].from \in Paths
      BY <1>4, <1>8, <2>2, <3>1, PlainStepIs DEF PlainStep, InWave
    <3>4. files[StepsOf(plan, n)[i].from] = SerialFiles(plan)[StepsOf(plan, n)[i].from]
      BY <1>1, <1>8, <3>2, <3>3 DEF SerialInv, FilesOK
    <3> QED
      BY <3>4 DEF Carried
  <2> QED
    BY <2>1, <2>2
<1>9. ASSUME Plain(plan), NEW u \in Workers, worker'[u].pc \in {"fence", "write"}
      PROVE  worker'[u].read = Carried(plan, worker'[u].node, worker'[u].i, SerialFiles(plan))
  <2>1. CASE u = w
    BY <1>4, <1>8, <1>9, <2>1
  <2>2. CASE u # w
    BY <1>5, <1>9, <2>2 DEF SerialInv, FilesOK
  <2> QED
    BY <2>1, <2>2
<1>10. FilesOK'
  BY <1>1, <1>2, <1>3, <1>9 DEF FilesOK, SerialInv, StepIndices, Over
<1> QED
  BY <1>7, <1>10

LEMMA PutsKeeps ==
    ASSUME SerialInv, NEW w \in Workers, Puts(w)
    PROVE  CleanOK' /\ FilesOK'
<1> DEFINE n == worker[w].node
           i == worker[w].i
           f == StepsOf(plan, n)[i].path
           F == SerialFiles(plan)
<1>1. /\ phase = "wave" /\ Frame /\ Adds(w, {<<n, i>>}) /\ Wave' = Wave /\ Nodes' = Nodes
      /\ Wave \subseteq Nodes /\ IInv
  BY FrameKeeps DEF Puts, SerialInv, IInv, SplitOK, ReadyNodes, Nodes
<1>2. plan' = plan /\ completed' = completed /\ phase' = phase
  BY <1>1 DEF Frame
<1>3. ASSUME NEW m \in Wave, NEW j \in StepIndices(plan, m), DoneStep(m, j)'
      PROVE  DoneStep(m, j) \/ (m = n /\ j = i)
  <2>1. DoneStep(m, j) \/ <<m, j>> \in {<<n, i>>}
    BY <1>1, <1>3, AddsIs
  <2> QED
    BY <2>1
<1>4. /\ n \in Wave /\ i \in StepIndices(plan, n) /\ StepsOf(plan, n)[i].do # "trap"
      /\ MayWrite(n, f) /\ worker[w].pc \in {"fence", "write"}
      /\ worker'[w].pc \notin {"fence", "write"}
      /\ files'[f] = worker[w].read /\ \A g \in Paths \ {f} : files'[g] = files[g]
  BY DEF Puts, SerialInv, CleanOK
<1>5. \A u \in Workers : worker'[u].pc \in {"fence", "write"} => worker'[u] = worker[u]
  BY <1>1, <1>4 DEF Adds
<1>6. CleanStep(plan, n, i)
  BY <1>4 DEF CleanStep, MayWrite
<1>7. CleanOK'
  BY <1>1, <1>2, <1>3, <1>5, <1>6 DEF CleanOK, SerialInv, StepIndices
<1>8. ASSUME Plain(plan)
      PROVE  /\ \A g \in Paths : Over(g, completed) => files'[g] = F[g]
             /\ \A m \in Wave : \A j \in StepIndices(plan, m) :
                   DoneStep(m, j)' /\ Over(StepsOf(plan, m)[j].path, completed \cup {m}) =>
                       files'[StepsOf(plan, m)[j].path] = F[StepsOf(plan, m)[j].path]
  <2>1. InWave(n)
    BY <1>1, <1>4, <1>8, InWaveIs DEF SerialInv, CleanOK
  <2>2. f \in PathsOf(plan, n) /\ f \in Paths
    BY <1>4, <1>8, <2>1, PlainStepIs DEF PlainStep, InWave
  <2>3. files'[f] = Carried(plan, n, i, F)
    BY <1>4, <1>8 DEF SerialInv, FilesOK
  <2>4. ASSUME NEW g \in Paths, Over(g, completed)
        PROVE  files'[g] = F[g]
    <3>1. g # f
      BY <2>1, <2>2, <2>4 DEF Over, InWave, Nodes
    <3> QED
      BY <1>1, <1>4, <1>8, <2>4, <3>1 DEF SerialInv, FilesOK
  <2>5. ASSUME NEW m \in Wave, NEW j \in StepIndices(plan, m), DoneStep(m, j)',
               Over(StepsOf(plan, m)[j].path, completed \cup {m})
        PROVE  files'[StepsOf(plan, m)[j].path] = F[StepsOf(plan, m)[j].path]
    <3> DEFINE g == StepsOf(plan, m)[j].path
    <3>1. m \in NodesOf(plan) /\ plan \in Plans
      BY <1>1, <2>1 DEF InWave, Nodes
    <3>2. g \in Paths /\ g \in PathsOf(plan, m)
      BY <1>8, <3>1, PlainStepIs DEF PlainStep
    <3>3. CASE g = f
      <4>1. m = n
        BY <2>1, <2>2, <3>2, <3>3 DEF InWave
      <4>2. j = i
        BY <1>4, <1>8, <3>1, <3>3, <4>1, OnePath DEF Plain
      <4>3. F[f] = Carried(plan, n, i, F)
        BY <1>4, <2>1, <2>5, <4>1, <4>2 DEF InWave
      <4> QED
        BY <2>3, <3>3, <4>3
    <3>4. CASE g # f
      <4>1. DoneStep(m, j)
        BY <1>3, <2>5, <3>4
      <4>2. files[g] = F[g]
        BY <1>1, <1>8, <2>5, <4>1 DEF SerialInv, FilesOK
      <4> QED
        BY <1>4, <3>2, <3>4, <4>2
    <3> QED
      BY <3>3, <3>4
  <2> QED
    BY <2>4, <2>5
<1>9. FilesOK'
  BY <1>1, <1>2, <1>5, <1>8 DEF FilesOK, SerialInv, StepIndices, Over
<1> QED
  BY <1>7, <1>9

\* A step that changes one worker, and nothing of the outcomes and files.
LEMMA MoveIsQuiet ==
    ASSUME IInv, phase = "wave", NEW w \in Workers, NEW r,
           worker' = [worker EXCEPT ![w] = r], Frame, outcome' = outcome, files' = files,
           \A i \in Nat \ {0} : Past(r, i) =>
              \/ r.node = worker[w].node /\ Past(worker[w], i)
              \/ r.node = worker[w].node /\ i > Len(StepsOf(plan, r.node)),
           r.pc \in {"fence", "write"} =>
              /\ worker[w].pc \in {"fence", "write"} /\ r.node = worker[w].node
              /\ r.i = worker[w].i /\ r.read = worker[w].read
    PROVE  Quiet(w)
<1>1. worker \in [Workers -> WorkerRecords]
  BY DEF IInv, TypeOK
<1>2. worker'[w] = r /\ \A u \in Workers \ {w} : worker'[u] = worker[u]
  BY <1>1
<1>3. ASSUME NEW n \in Nodes, NEW i \in StepIndices(plan, n), r.node = n, Past(r, i)
      PROVE  DoneStep(n, i)
  <2>1. plan \in Plans /\ ProgramOK(StepsOf(plan, n))
    BY StepsAre DEF IInv, TypeOK, Nodes
  <2>2. i \in Nat \ {0} /\ ~(i > Len(StepsOf(plan, n)))
    BY <2>1 DEF ProgramOK, StepIndices
  <2>3. n = worker[w].node /\ Past(worker[w], i)
    BY <1>3, <2>2
  <2> QED
    BY <2>3 DEF DoneStep
<1>4. ASSUME NEW n \in Nodes, NEW i \in StepIndices(plan, n), outcome'[n] = "ok"
      PROVE  DoneStep(n, i)
  BY <1>4 DEF DoneStep
<1>5. Adds(w, {})
  BY <1>2, <1>3, <1>4 DEF Adds
<1> QED
  BY <1>2, <1>5 DEF Quiet

LEMMA TakeIsQuiet ==
    ASSUME IInv, NEW w \in Workers, NEW n \in Nodes, Take(w, n)
    PROVE  Quiet(w)
<1> DEFINE r == [Off EXCEPT !.pc = "claimed", !.node = n, !.gen = board[n].gen + 1]
<1>1. phase = "wave" /\ Frame /\ outcome' = outcome /\ files' = files
  BY BusyIs DEF Take, Frame
<1>2. worker' = [worker EXCEPT ![w] = r]
  BY DEF Take
<1>3. r.pc = "claimed" /\ r.i = 1
  BY DEF Off
<1> HIDE DEF r
<1>4. \A i \in Nat \ {0} : ~Past(r, i)
  BY <1>3 DEF Past
<1> QED
  BY <1>1, <1>2, <1>3, <1>4, MoveIsQuiet

LEMMA LeaveIsQuiet ==
    ASSUME IInv, NEW w \in Workers, Leave(w)
    PROVE  Quiet(w)
<1> DEFINE r == Off
<1>1. phase = "wave" /\ Frame /\ outcome' = outcome /\ files' = files
  BY BusyIs DEF Leave, Frame
<1>2. worker' = [worker EXCEPT ![w] = r] /\ r.pc \in {"off", "take"}
  BY DEF Leave, Off
<1> HIDE DEF r
<1>3. \A i \in Nat \ {0} : ~Past(r, i)
  BY <1>2 DEF Past
<1> QED
  BY <1>1, <1>2, <1>3, MoveIsQuiet

LEMMA DiesIsQuiet ==
    ASSUME IInv, NEW w \in Workers, Dies(w)
    PROVE  Quiet(w)
<1> DEFINE r == [Off EXCEPT !.pc = "take"]
<1>1. phase = "wave" /\ Frame /\ outcome' = outcome /\ files' = files
  BY BusyIs DEF Dies, Frame
<1>2. worker' = [worker EXCEPT ![w] = r] /\ r.pc \in {"off", "take"}
  BY DEF Dies, Off
<1> HIDE DEF r
<1>3. \A i \in Nat \ {0} : ~Past(r, i)
  BY <1>2 DEF Past
<1> QED
  BY <1>1, <1>2, <1>3, MoveIsQuiet

LEMMA LapseIsQuiet ==
    ASSUME IInv, NEW n \in Nodes, LeaseLapses(n), NEW w \in Workers
    PROVE  Quiet(w)
<1>1. phase = "wave" /\ Frame /\ UNCHANGED <<outcome, files, worker>>
  BY DEF LeaseLapses, Frame, IInv, SplitOK
<1>2. worker' = [worker EXCEPT ![w] = worker[w]]
  BY <1>1 DEF IInv, TypeOK
<1> QED
  BY <1>1, <1>2, MoveIsQuiet

LEMMA BeginIsQuiet ==
    ASSUME IInv, NEW w \in Workers, Begin(w)
    PROVE  Quiet(w)
<1> DEFINE x == worker[w]
           r == [x EXCEPT !.pc = "step"]
<1>1. phase = "wave" /\ Frame /\ x \in WorkerRecords /\ outcome' = outcome /\ files' = files
  BY BusyIs DEF Begin, Frame
<1>2. worker' = [worker EXCEPT ![w] = r] /\ x.pc = "claimed"
  BY DEF Begin
<1> HIDE DEF x
<1>3. r.pc = "step" /\ r.node = x.node /\ r.i = x.i
  BY <1>1 DEF WorkerRecords
<1> HIDE DEF r
<1>4. \A i \in Nat \ {0} : Past(r, i) => r.node = x.node /\ Past(x, i)
  BY <1>2, <1>3 DEF Past
<1> QED
  BY <1>1, <1>2, <1>3, <1>4, MoveIsQuiet DEF x

\* A worker that gives up its node: nothing of it counts as done.
LEMMA TrapIsQuiet ==
    ASSUME IInv, phase = "wave", NEW w \in Workers, Frame, outcome' = outcome, files' = files,
           NEW reason \in Outcomes \ {"ok"}, Trap(w, reason)
    PROVE  Quiet(w)
<1> DEFINE x == worker[w]
           r == [x EXCEPT !.pc = "report", !.result = reason]
<1>1. x \in WorkerRecords
  BY DEF IInv, TypeOK
<1>2. worker' = [worker EXCEPT ![w] = r]
  BY DEF Trap
<1> HIDE DEF x
<1>3. r.pc = "report" /\ r.result # "ok"
  BY <1>1 DEF WorkerRecords
<1> HIDE DEF r
<1>4. \A i \in Nat \ {0} : ~Past(r, i)
  BY <1>3 DEF Past
<1> QED
  BY <1>2, <1>3, <1>4, MoveIsQuiet

LEMMA ReportIsQuiet ==
    ASSUME IInv, NEW w \in Workers, Report(w)
    PROVE  Quiet(w)
<1> DEFINE x == worker[w]
<1>1. phase = "wave" /\ Frame /\ x \in WorkerRecords /\ outcome' = outcome /\ files' = files
  BY BusyIs DEF Report, Frame
<1>2. CASE IsCurrent(w)
  <2> DEFINE r == [x EXCEPT !.pc = "finish"]
  <2>1. worker' = [worker EXCEPT ![w] = r] /\ x.pc = "report"
    BY <1>2 DEF Report
  <2> HIDE DEF x
  <2>2. r.pc = "finish" /\ r.node = x.node /\ r.result = x.result
    BY <1>1 DEF WorkerRecords
  <2> HIDE DEF r
  <2>3. \A i \in Nat \ {0} : Past(r, i) => r.node = x.node /\ Past(x, i)
    BY <2>1, <2>2 DEF Past
  <2> QED
    BY <1>1, <2>1, <2>2, <2>3, MoveIsQuiet DEF x
<1>3. CASE ~IsCurrent(w)
  <2> DEFINE r == [Off EXCEPT !.pc = "take"]
  <2>1. worker' = [worker EXCEPT ![w] = r] /\ r.pc \in {"off", "take"}
    BY <1>3 DEF Report, Off
  <2> HIDE DEF r
  <2>2. \A i \in Nat \ {0} : ~Past(r, i)
    BY <2>1 DEF Past
  <2> QED
    BY <1>1, <2>1, <2>2, MoveIsQuiet
<1> QED
  BY <1>2, <1>3

LEMMA FinishIsQuiet ==
    ASSUME IInv, NEW w \in Workers, Finish(w)
    PROVE  Quiet(w)
<1> DEFINE r == [Off EXCEPT !.pc = "take"]
           x == worker[w]
<1>1. phase = "wave" /\ Frame /\ files' = files /\ x.node \in Nodes /\ x.pc = "finish"
  BY BusyIs DEF Finish, Frame, Busy
<1>2. worker' = [worker EXCEPT ![w] = r] /\ r.pc = "take"
  BY DEF Finish, Off
<1> HIDE DEF r
<1>3. worker'[w] = r /\ \A u \in Workers \ {w} : worker'[u] = worker[u]
  BY <1>2 DEF IInv, TypeOK
<1>4. ASSUME NEW n \in Nodes, NEW i \in StepIndices(plan, n), outcome'[n] = "ok"
      PROVE  DoneStep(n, i)
  <2>1. outcome \in [Nodes -> Outcomes \cup {"none"}]
    BY DEF IInv, TypeOK
  <2>2. outcome[n] = "ok" \/ (n = x.node /\ x.result = "ok")
    BY <1>1, <1>4, <2>1 DEF Finish
  <2> QED
    BY <1>1, <2>2 DEF DoneStep, Past
<1>5. \A i : ~Past(r, i)
  BY <1>2 DEF Past
<1>6. Adds(w, {})
  BY <1>3, <1>4, <1>5 DEF Adds
<1> QED
  BY <1>1, <1>2, <1>3, <1>6 DEF Quiet

LEMMA RunStepReads ==
    ASSUME IInv, NEW w \in Workers, RunStep(w)
    PROVE  Quiet(w) \/ Reads(w)
<1> DEFINE x == worker[w]
           n == x.node
           steps == StepsOf(plan, n)
<1>1. /\ phase = "wave" /\ Frame /\ x \in WorkerRecords /\ n \in Nodes /\ n \in Wave
      /\ outcome' = outcome /\ files' = files /\ plan \in Plans /\ x.i \in Nat \ {0} /\ x.pc = "step"
  BY BusyIs DEF RunStep, Frame, Busy
<1>2. x.result = "ok"
  BY DEF RunStep, IInv, WorkersOK
<1>3. ProgramOK(steps)
  BY <1>1, StepsAre DEF Nodes
<1>4. CASE x.i > Len(steps)
  <2> DEFINE r == [x EXCEPT !.pc = "report"]
  <2>1. worker' = [worker EXCEPT ![w] = r]
    BY <1>4 DEF RunStep
  <2> HIDE DEF x
  <2>2. r.node = x.node /\ r.pc = "report"
    BY <1>1 DEF WorkerRecords
  <2> HIDE DEF r
  <2>3. ASSUME NEW i \in Nat \ {0}
        PROVE  \/ r.node = x.node /\ Past(x, i)
               \/ r.node = x.node /\ i > Len(StepsOf(plan, r.node))
    BY <1>1, <1>3, <1>4, <2>2 DEF Past, ProgramOK
  <2>4. Quiet(w)
    BY <1>1, <2>1, <2>2, <2>3, MoveIsQuiet DEF x
  <2> QED
    BY <2>4
<1>5. CASE ~(x.i > Len(steps))
  <2> DEFINE s == steps[x.i]
  <2>1. x.i \in StepIndices(plan, n) /\ s.do \in {"write", "copy", "trap"}
    BY <1>1, <1>3, <1>5 DEF ProgramOK, StepIndices
  <2>2. \/ Trap(w, "trap") \/ Trap(w, "missing_file")
        \/ /\ s.do \in {"write", "copy"}
           /\ worker' = [worker EXCEPT ![w].pc = "fence", ![w].read = Carried(plan, n, x.i, files)]
    <3>1. CASE s.do = "trap"
      BY <1>5, <3>1 DEF RunStep, Step
    <3>2. CASE s.do = "copy" /\ files[s.from] = Absent
      BY <1>5, <3>2 DEF RunStep, Step
    <3>3. CASE s.do = "copy" /\ files[s.from] # Absent
      BY <1>5, <3>3 DEF RunStep, Step, Carried
    <3>4. CASE s.do = "write"
      BY <1>5, <3>4 DEF RunStep, Step, Carried
    <3> QED
      BY <2>1, <3>1, <3>2, <3>3, <3>4
  <2>3. ASSUME Trap(w, "trap") \/ Trap(w, "missing_file")
        PROVE  Quiet(w)
    BY <1>1, <2>3, TrapIsQuiet DEF Outcomes
  <2>4. ASSUME s.do \in {"write", "copy"},
               worker' = [worker EXCEPT ![w].pc = "fence", ![w].read = Carried(plan, n, x.i, files)]
        PROVE  Reads(w)
    <3> DEFINE c == Carried(plan, n, x.i, files)
               r == [x EXCEPT !.pc = "fence", !.read = c]
    <3>1. worker' = [worker EXCEPT ![w] = r]
      BY <2>4
    <3> HIDE DEF c, x
    <3>2. r.pc = "fence" /\ r.node = x.node /\ r.i = x.i /\ r.read = c
      BY <1>1 DEF WorkerRecords
    <3> HIDE DEF r
    <3>3. worker'[w] = r /\ \A u \in Workers \ {w} : worker'[u] = worker[u]
      BY <3>1 DEF IInv, TypeOK
    <3>4. ASSUME NEW m \in Nodes, NEW j \in StepIndices(plan, m), r.node = m, Past(r, j)
          PROVE  DoneStep(m, j)
      <4>1. Past(x, j)
        BY <1>1, <3>2, <3>4 DEF Past
      <4> QED
        BY <3>2, <3>4, <4>1 DEF DoneStep, x
    <3>5. Adds(w, {})
      BY <1>1, <3>3, <3>4 DEF Adds, DoneStep
    <3> QED
      BY <1>1, <2>1, <2>4, <3>2, <3>3, <3>5 DEF Reads, x, c
  <2> QED
    BY <2>2, <2>3, <2>4
<1> QED
  BY <1>4, <1>5

\* The worker goes on to the step after the one it was done with.
LEMMA ContinuePuts ==
    ASSUME IInv, CleanOK, NEW w \in Workers, worker[w].pc \in {"fence", "write"}, Continue(w, "step"),
           MayWrite(worker[w].node, Step(w).path), Frame, outcome' = outcome,
           files'[Step(w).path] = worker[w].read,
           \A g \in Paths \ {Step(w).path} : files'[g] = files[g]
    PROVE  Puts(w)
<1> DEFINE x == worker[w]
           r == [x EXCEPT !.pc = "step", !.read = Absent, !.i = x.i + 1]
<1>1. phase = "wave" /\ x \in WorkerRecords /\ x.node \in Wave /\ x.i \in Nat \ {0}
  BY BusyIs DEF Busy
<1>2. worker' = [worker EXCEPT ![w] = r]
  BY DEF Continue
<1>3. x.pc \in {"fence", "write"}
  OBVIOUS
<1> HIDE DEF x
<1>4. r.pc = "step" /\ r.node = x.node /\ r.i = x.i + 1
  BY <1>1 DEF WorkerRecords
<1> HIDE DEF r
<1>5. worker'[w] = r /\ \A u \in Workers \ {w} : worker'[u] = worker[u]
  BY <1>2 DEF IInv, TypeOK
<1>6. ASSUME NEW m \in Nodes, NEW j \in StepIndices(plan, m), r.node = m, Past(r, j)
      PROVE  DoneStep(m, j) \/ <<m, j>> \in {<<x.node, x.i>>}
  <2>1. plan \in Plans /\ ProgramOK(StepsOf(plan, m))
    BY StepsAre DEF IInv, TypeOK, Nodes
  <2>2. j \in Nat /\ j < x.i + 1 /\ m = x.node
    BY <1>4, <1>6, <2>1 DEF Past, ProgramOK, StepIndices
  <2>3. CASE j = x.i
    BY <2>2, <2>3
  <2>4. CASE j # x.i
    <3>1. Past(x, j)
      BY <1>1, <1>3, <2>2, <2>4 DEF Past
    <3> QED
      BY <2>2, <3>1 DEF DoneStep, x
  <2> QED
    BY <2>3, <2>4
<1>7. Adds(w, {<<x.node, x.i>>})
  BY <1>5, <1>6 DEF Adds, DoneStep
<1> QED
  BY <1>1, <1>4, <1>5, <1>7 DEF Puts, Step, x

LEMMA FencePuts ==
    ASSUME IInv, CleanOK, NEW w \in Workers, Fence(w)
    PROVE  Quiet(w) \/ Puts(w)
<1> DEFINE x == worker[w]
<1>1. phase = "wave" /\ Frame /\ x \in WorkerRecords /\ outcome' = outcome /\ files' = files
  BY BusyIs DEF Fence, Frame
<1>2. ASSUME Trap(w, "fence") \/ Trap(w, "policy")
      PROVE  Quiet(w)
  BY <1>1, <1>2, TrapIsQuiet DEF Outcomes
<1>3. CASE MayWrite(x.node, Step(w).path) /\ Idempotent(w) /\ Continue(w, "step")
  <2>1. files'[Step(w).path] = worker[w].read
    BY <1>1, <1>3 DEF Idempotent
  <2>2. Puts(w)
    BY <1>1, <1>3, <2>1, ContinuePuts DEF Fence
  <2> QED
    BY <2>2
<1>4. CASE worker' = [worker EXCEPT ![w].pc = "write"]
  <2> DEFINE r == [x EXCEPT !.pc = "write"]
  <2>1. worker' = [worker EXCEPT ![w] = r] /\ x.pc = "fence"
    BY <1>4 DEF Fence
  <2> HIDE DEF x
  <2>2. r.pc = "write" /\ r.node = x.node /\ r.i = x.i /\ r.read = x.read
    BY <1>1 DEF WorkerRecords
  <2> HIDE DEF r
  <2>3. \A i \in Nat \ {0} : Past(r, i) => r.node = x.node /\ Past(x, i)
    BY <2>1, <2>2 DEF Past
  <2>4. Quiet(w)
    BY <1>1, <2>1, <2>2, <2>3, MoveIsQuiet DEF x
  <2> QED
    BY <2>4
<1> QED
  BY <1>2, <1>3, <1>4 DEF Fence

LEMMA WritePuts ==
    ASSUME IInv, CleanOK, NEW w \in Workers, Write(w)
    PROVE  Puts(w)
<1> DEFINE f == Step(w).path
<1>1. Frame /\ outcome' = outcome /\ MayWrite(worker[w].node, f)
  BY DEF Write, Frame, IInv, ClaimsOK
<1>2. files \in [Paths -> Contents] /\ files' = [files EXCEPT ![f] = worker[w].read] /\ f \in Paths
  BY <1>1 DEF Write, IInv, TypeOK, MayWrite
<1> HIDE DEF f
<1>3. files'[f] = worker[w].read /\ \A g \in Paths \ {f} : files'[g] = files[g]
  BY <1>2
<1> QED
  BY <1>1, <1>3, ContinuePuts DEF Write, f

-----------------------------------------------------------------------------
\* The scheduler's steps.

LEMMA SerialInit == Init => SerialInv
<1> SUFFICES ASSUME Init PROVE CleanOK /\ FilesOK
  BY IInit DEF SerialInv
<1>1. CleanOK
  BY DEF Init, CleanOK, Follows, Off
<1>2. FilesOK
  BY DEF Init, FilesOK, Off
<1> QED
  BY <1>1, <1>2

LEMMA CriticSerial ==
    ASSUME SerialInv, Critic
    PROVE  CleanOK' /\ FilesOK'
<1> USE DEF SerialInv
<1>1. /\ UNCHANGED <<plan, completed, trapped, waves, worker, outcome, files>>
      /\ phase = "critic" /\ phase' \in {"between", "rejected", "error"}
      /\ phase' = "between" => CriticAccepts(plan)
  BY DEF Critic
<1>2. completed = {} /\ plan \in Plans /\ \A w \in Workers : worker[w].pc = "off"
  BY <1>1 DEF IInv, PhaseOK, TypeOK, WorkersOK
<1>3. CleanOK'
  BY <1>1, <1>2 DEF CleanOK, Follows
<1>4. ASSUME Plain(plan), phase' = "between", NEW f \in Paths, Over(f, {})
      PROVE  files[f] = SerialFiles(plan)[f]
  <2>1. Dag(plan)
    BY <1>1, <1>2, <1>4, PlanIs, AcceptedIsPlannable
  <2>2. \A n \in NodesOf(plan) : f \notin PathsOf(plan, n)
    BY <1>4 DEF Over, Nodes
  <2>3. SerialFiles(plan)[f] = FilesBefore(plan)[f]
    BY <1>2, <1>4, <2>1, <2>2, SerialIs
  <2> QED
    BY <1>1, <1>4, <2>3 DEF FilesOK
<1>5. FilesOK'
  <2>1. SUFFICES ASSUME Plain(plan), phase' = "between", NEW f \in Paths, Over(f, completed)'
                 PROVE  files[f] = SerialFiles(plan)[f]
    BY <1>1, <1>2 DEF FilesOK
  <2>2. Over(f, {})
    BY <1>1, <1>2, <2>1 DEF Over, Nodes
  <2> QED
    BY <1>4, <2>1, <2>2
<1> QED
  BY <1>3, <1>5

LEMMA StartWaveSerial ==
    ASSUME SerialInv, StartWave
    PROVE  CleanOK' /\ FilesOK'
<1> USE DEF SerialInv
<1>1. /\ UNCHANGED <<plan, completed, trapped, files>> /\ phase = "between" /\ phase' = "wave"
      /\ outcome' = [n \in Nodes |-> "none"]
      /\ \A w \in Workers : worker'[w].pc \in {"off", "take"}
  BY DEF StartWave, Off
<1>2. Nodes' = Nodes /\ Wave' \subseteq Nodes
  <2>1. waves \in Seq(SUBSET Nodes)
    BY DEF IInv, TypeOK
  <2> DEFINE ready == ReadyNodes(plan, completed) \cap remaining
  <2>2. ready \in SUBSET Nodes
    BY DEF ReadyNodes, Nodes
  <2>3. waves' = Append(waves, ready)
    BY DEF StartWave
  <2> HIDE DEF ready
  <2>4. waves' # <<>> /\ Last(waves') = ready
    BY <2>1, <2>2, <2>3 DEF Last
  <2> QED
    BY <1>1, <2>2, <2>4 DEF Wave, Nodes
<1>3. ASSUME NEW n \in Nodes, NEW i
      PROVE  ~DoneStep(n, i)'
  BY <1>1 DEF DoneStep, Past
<1>4. CleanOK'
  BY <1>1, <1>2, <1>3 DEF CleanOK, StepIndices
<1>5. FilesOK'
  BY <1>1, <1>2, <1>3 DEF FilesOK, StepIndices, Over
<1> QED
  BY <1>4, <1>5

LEMMA EndRunSerial ==
    ASSUME SerialInv, EndRun
    PROVE  CleanOK' /\ FilesOK'
<1> USE DEF SerialInv
<1>1. /\ UNCHANGED <<plan, completed, waves, worker, outcome, files>>
      /\ phase = "between" /\ phase' \in {"ended", "error"} /\ Nodes' = Nodes
  BY DEF EndRun, Nodes
<1>2. CleanOK'
  BY <1>1 DEF CleanOK
<1>3. FilesOK'
  BY <1>1 DEF FilesOK, Over
<1> QED
  BY <1>2, <1>3

LEMMA EndWaveSerial ==
    ASSUME SerialInv, EndWave
    PROVE  CleanOK' /\ FilesOK'
<1> USE DEF SerialInv
<1>1. /\ UNCHANGED <<plan, waves, worker, outcome, files>> /\ Nodes' = Nodes
      /\ phase = "wave" /\ phase' \in {"between", "error"}
      /\ completed' = completed \cup {n \in Wave : outcome[n] = "ok"}
      /\ \A w \in Workers : worker[w].pc = "off"
  BY DEF EndWave, Nodes
<1>2. /\ plan \in Plans /\ completed \subseteq NodesOf(plan)
      /\ \A n \in Wave : n \in NodesOf(plan) /\ n \notin completed /\ plan.deps[n] \subseteq completed
  BY <1>1 DEF IInv, TypeOK, SplitOK, ReadyNodes, Nodes
<1>3. ASSUME NEW n \in Wave, outcome[n] = "ok", NEW i
      PROVE  DoneStep(n, i)
  BY <1>3 DEF DoneStep
<1>4. Follows(plan, completed)'
  BY <1>1, <1>2 DEF CleanOK, Follows
<1>5. CleanOK'
  BY <1>1, <1>3, <1>4 DEF CleanOK
<1>6. ASSUME Plain(plan), NEW f \in Paths, Over(f, completed')
      PROVE  files[f] = SerialFiles(plan)[f]
  <2>1. CASE Over(f, completed)
    BY <1>1, <1>6, <2>1 DEF FilesOK
  <2>2. CASE ~Over(f, completed)
    <3>1. PICK n \in Wave : outcome[n] = "ok" /\ f \in PathsOf(plan, n)
      BY <1>1, <1>6, <2>2 DEF Over
    <3>2. InWave(n)
      BY <1>1, <1>6, InWaveIs DEF CleanOK
    <3>3. ASSUME NEW m \in Nodes, f \in PathsOf(plan, m), m # n
          PROVE  m \in completed
      <4>1. m \in completed \cup Wave
        BY <1>1, <1>6, <3>3 DEF Over
      <4>2. m \notin Wave
        BY <3>1, <3>2, <3>3 DEF InWave
      <4> QED
        BY <4>1, <4>2
    <3>4. Over(f, completed \cup {n})
      BY <3>3 DEF Over
    <3>5. PICK i \in StepIndices(plan, n) : f = StepsOf(plan, n)[i].path
      <4>1. ProgramOK(StepsOf(plan, n))
        BY <1>2, StepsAre
      <4> QED
        BY <3>1, <4>1 DEF ProgramOK, StepIndices, PathsOf
    <3>6. DoneStep(n, i)
      BY <1>3, <3>1
    <3> QED
      BY <1>1, <1>6, <3>4, <3>5, <3>6 DEF FilesOK
  <2> QED
    BY <2>1, <2>2
<1>7. FilesOK'
  <2>1. SUFFICES ASSUME Plain(plan), NEW f \in Paths, Over(f, completed)'
                 PROVE  files[f] = SerialFiles(plan)[f]
    BY <1>1 DEF FilesOK
  <2>2. Over(f, completed')
    BY <1>1, <2>1 DEF Over
  <2> QED
    BY <1>6, <2>1, <2>2
<1> QED
  BY <1>5, <1>7

LEMMA SerialNext == SerialInv /\ [Next]_vars => SerialInv'
<1> SUFFICES ASSUME SerialInv, [Next]_vars PROVE CleanOK' /\ FilesOK'
  BY INext DEF SerialInv
<1>1. IInv /\ CleanOK
  BY DEF SerialInv
<1>2. ASSUME NEW w \in Workers, Quiet(w) \/ Reads(w) \/ Puts(w)
      PROVE  CleanOK' /\ FilesOK'
  BY <1>2, QuietKeeps, ReadsKeeps, PutsKeeps
<1>3. ASSUME NEW w \in Workers, WorkerStep(w) \/ Dies(w)
      PROVE  CleanOK' /\ FilesOK'
  BY <1>1, <1>2, <1>3, TakeIsQuiet, LeaveIsQuiet, BeginIsQuiet, RunStepReads, FencePuts,
     WritePuts, ReportIsQuiet, FinishIsQuiet, DiesIsQuiet DEF WorkerStep
<1>4. ASSUME NEW n \in Nodes, LeaseLapses(n)
      PROVE  CleanOK' /\ FilesOK'
  <2>1. PICK w \in Workers : TRUE
    BY WorkerAssumption
  <2> QED
    BY <1>1, <1>2, <1>4, <2>1, LapseIsQuiet
<1>5. CASE UNCHANGED vars
  BY <1>5 DEF vars, SerialInv, CleanOK, FilesOK, DoneStep, Over, Wave, Nodes
<1> QED
  BY <1>3, <1>4, <1>5, CriticSerial, StartWaveSerial, EndWaveSerial, EndRunSerial DEF Next

\* A run of waves without a trap leaves the files that its nodes leave one after the other
\* in Kahn's order, whatever leases run out, whatever runs twice and however late it writes,
\* for every plan whose nodes write a path once, read only what they depend on wrote, and are
\* ordered where two write the same path (execute_waves, node_view, host.write_file).
THEOREM SameAsSerialAlways == Spec => []SameAsSerial
<1>1. ASSUME SerialInv, PlanCarriedOut
      PROVE  SameAsSerial
  <2>1. SUFFICES ASSUME phase = "ended", trapped = {}, Settled(plan)
                 PROVE  files = SerialFiles(plan)
    BY DEF SameAsSerial
  <2>2. completed = Nodes /\ plan \in Plans /\ Dag(plan) /\ files \in [Paths -> Contents]
    BY <1>1, <2>1, PlanIs, AcceptedIsPlannable
    DEF PlanCarriedOut, WavesAsPlanned, SerialInv, IInv, PhaseOK, TypeOK
  <2>3. Plain(plan)
    BY <1>1, <2>1, <2>2 DEF Plain, SerialInv, CleanOK, Nodes
  <2>4. ASSUME NEW f \in Paths
        PROVE  files[f] = SerialFiles(plan)[f]
    BY <1>1, <2>1, <2>2, <2>3 DEF SerialInv, FilesOK, Over
  <2>5. SerialFiles(plan) \in [Paths -> Contents]
    BY <2>2, <2>3, SerialIs
  <2> QED
    BY <2>2, <2>4, <2>5
<1>2. Spec => []SerialInv
  BY SerialInit, SerialNext, PTL DEF Spec
<1> QED
  BY <1>1, <1>2, CarriedOutAlways, PTL
====
