------------------------------ MODULE JobProofs ------------------------------
(***************************************************************************)
(* Theorems about a job's two sides: its episodes (Episode), for every set *)
(* of plans, contract, mode and bound; the session that its planners share *)
(* and what they print (Planner), for any number of clients; and the       *)
(* stream of a request (Request), for any number of calls and lines.       *)
(*                                                                         *)
(* The argument for the session. A service that rotates the refresh token  *)
(* grants a second refresh only to a client that has read the token of the *)
(* first, and that is in the file only when the first client has renamed   *)
(* its copy: there is one holder at a time (Fenced). When the service      *)
(* keeps its token, two holders are an overlap, which the history          *)
(* remembers (Apart). A lone holder has the copy to itself (Alone), so     *)
(* what it renames is whole, and tells of the last grant (Current). What   *)
(* it read of the other login is what the file has, unless a write raced   *)
(* with it (Undisturbed).                                                  *)
(***************************************************************************)
EXTENDS Episode, Planner, Request, SequenceTheorems, FiniteSetTheorems, WellFoundedInduction, TLAPS

-----------------------------------------------------------------------------
\* The kernel's fold.

LEMMA SmallestOf ==
    ASSUME NEW T \in SUBSET Nat, T # {}
    PROVE  \E m \in T : \A n \in T : m <= n
<1>1. PICK m \in T : \A n \in T : <<n, m>> \notin OpToRel(<, Nat)
  BY WFMin, NatLessThanWellFounded
<1>2. ASSUME NEW n \in T, n < m
      PROVE  FALSE
  <2>1. n \in Nat /\ m \in Nat
    OBVIOUS
  <2>2. <<n, m>> \in {ss \in Nat \X Nat : ss[1] < ss[2]}
    BY <1>2, <2>1
  <2>3. <<n, m>> \in OpToRel(<, Nat)
    BY <2>1, <2>2, Zenon DEF OpToRel
  <2> QED
    BY <1>1, <2>3, Zenon
<1> QED
  BY <1>2

\* There is a function that reduces n events one after the other.
LEMMA AfterExists ==
    ASSUME NEW s, NEW n \in Nat, NEW events
    PROVE  \E f : f = [k \in 0 .. n |-> IF k = 0 THEN s ELSE Reduce(f[k - 1], events[k])]
<1> DEFINE P(m) == \E f : f = [k \in 0 .. m |->
                                 IF k = 0 THEN s ELSE Reduce(f[k - 1], events[k])]
           T == {m \in Nat : ~P(m)}
<1> SUFFICES ASSUME T # {}
             PROVE  FALSE
  OBVIOUS
<1> HIDE DEF P
<1>1. PICK m \in T : \A n1 \in T : m <= n1
  BY SmallestOf
<1>2. P(0)
  <2> DEFINE f == [k \in 0 .. 0 |-> s]
  <2>1. f = [k \in 0 .. 0 |-> IF k = 0 THEN s ELSE Reduce(f[k - 1], events[k])]
    OBVIOUS
  <2> QED
    BY <2>1 DEF P
<1>3. m # 0 /\ m \in Nat /\ P(m - 1)
  BY <1>1, <1>2
<1>4. PICK f : f = [k \in 0 .. m - 1 |-> IF k = 0 THEN s ELSE Reduce(f[k - 1], events[k])]
  BY <1>3 DEF P
<1> DEFINE g == [k \in 0 .. m |-> IF k = m THEN Reduce(f[m - 1], events[m]) ELSE f[k]]
<1>5. ASSUME NEW k \in 0 .. m
      PROVE  g[k] = IF k = 0 THEN s ELSE Reduce(g[k - 1], events[k])
  BY <1>3, <1>4
<1> HIDE DEF g
<1>6. g = [k \in 0 .. m |-> g[k]]
  BY DEF g
<1>7. g = [k \in 0 .. m |-> IF k = 0 THEN s ELSE Reduce(g[k - 1], events[k])]
  BY <1>5, <1>6
<1>8. P(m)
  BY <1>7 DEF P
<1> QED
  BY <1>1, <1>8

\* The states a fold goes through.
AfterEach(s, events) ==
    CHOOSE f : f = [k \in 0 .. Len(events) |->
                       IF k = 0 THEN s ELSE Reduce(f[k - 1], events[k])]

\* f has the states between s and r.
Between(s, events, f, r) ==
    /\ r = f[Len(events)] /\ f[0] = s
    /\ \A k \in 1 .. Len(events) : f[k] = Reduce(f[k - 1], events[k])

LEMMA ReducedIs ==
    ASSUME NEW s, NEW events, Len(events) \in Nat
    PROVE  Between(s, events, AfterEach(s, events), Reduced(s, events))
<1> DEFINE n == Len(events)
           f == AfterEach(s, events)
<1>1. f = [k \in 0 .. n |-> IF k = 0 THEN s ELSE Reduce(f[k - 1], events[k])]
  BY AfterExists DEF AfterEach
<1>2. Reduced(s, events) = f[n]
  BY DEF Reduced, AfterEach
<1> HIDE DEF f
<1>3. f[0] = s
  BY <1>1
<1>4. ASSUME NEW k \in 1 .. n
      PROVE  f[k] = Reduce(f[k - 1], events[k])
  BY <1>1
<1> QED
  BY <1>2, <1>3, <1>4, Zenon DEF f, n, Between

\* A State has its fields; of gates and seen nothing is assumed.
St(v, sn, d, p, g, u) ==
    [revision |-> v, seen |-> sn, dups |-> d, pending |-> p, gates |-> g, used |-> u]

IsState(s) ==
    /\ s = St(s.revision, s.seen, s.dups, s.pending, s.gates, s.used)
    /\ s.revision \in Nat /\ s.dups \in Nat /\ s.used \in Nat

\* Reduce, for each kind of event.
LEMMA ReduceOf ==
    ASSUME NEW s, IsState(s), NEW e
    PROVE  LET v == s.revision
               sn == s.seen
               d == s.dups
               p == s.pending
               g == s.gates
               u == s.used
           IN  /\ e.kind = "planned" /\ e.data \in sn =>
                     \E q : Reduce(s, e) = St(v + 1, sn, d, q, g, u)
               /\ e.kind = "planned" /\ e.data \notin sn =>
                     \E q : Reduce(s, e) = St(v + 1, sn \cup {e.data}, 0, q, g, u)
               /\ e.kind = "blocked" => \E q : Reduce(s, e) = St(v + 1, sn, d + 1, q, g, u)
               /\ e.kind = "rejected" => \E q : Reduce(s, e) = St(v + 1, sn, d, q, g, u)
               /\ e.kind = "measured" => \E q : Reduce(s, e) = St(v + 1, sn, d, q, e.data.gates, u)
               /\ e.kind = "budget" => \E q : Reduce(s, e) = St(v + 1, sn, d, q, g, u + 1)
               /\ e.kind \notin {"planned", "blocked", "rejected", "measured", "budget"} =>
                     \E q : Reduce(s, e) = St(v + 1, sn, d, q, g, u)
<1> DEFINE v == s.revision
           sn == s.seen
           d == s.dups
           p == s.pending
           g == s.gates
           u == s.used
<1>0. s = St(v, sn, d, p, g, u) /\ v = s.revision /\ sn = s.seen /\ d = s.dups
  BY DEF IsState
<1> HIDE DEF v, sn, d, p, g, u
<1> DEFINE next == CASE e.kind = "planned" ->
                          IF e.data \in s.seen THEN [s EXCEPT !.pending = FALSE]
                          ELSE [s EXCEPT !.seen = @ \cup {e.data}, !.dups = 0, !.pending = TRUE]
                   [] e.kind = "blocked"  -> [s EXCEPT !.pending = FALSE, !.dups = @ + 1]
                   [] e.kind = "rejected" -> [s EXCEPT !.pending = FALSE]
                   [] e.kind = "measured" -> [s EXCEPT !.gates = e.data.gates]
                   [] e.kind = "budget"   -> [s EXCEPT !.used = @ + 1]
                   [] OTHER -> s
<1>1. Reduce(s, e) = [next EXCEPT !.revision = s.revision + 1]
  BY DEF Reduce
<1>2. CASE e.kind = "planned" /\ e.data \in sn
  <2>1. next = [s EXCEPT !.pending = FALSE]
    BY <1>0, <1>2
  <2>2. next = St(v, sn, d, FALSE, g, u)
    BY <1>0, <2>1 DEF St
  <2> HIDE DEF next
  <2>3. PICK q : next = St(v, sn, d, q, g, u)
    BY <2>2, Zenon
  <2>4. Reduce(s, e) = St(v + 1, sn, d, q, g, u)
    BY <1>0, <1>1, <2>3 DEF St
  <2> QED
    BY <1>2, <2>4 DEF v, sn, d, p, g, u
<1>3. CASE e.kind = "planned" /\ e.data \notin sn
  <2>1. next = [s EXCEPT !.seen = @ \cup {e.data}, !.dups = 0, !.pending = TRUE]
    BY <1>0, <1>3
  <2>2. next = St(v, sn \cup {e.data}, 0, TRUE, g, u)
    BY <1>0, <2>1 DEF St
  <2> HIDE DEF next
  <2>3. PICK q : next = St(v, sn \cup {e.data}, 0, q, g, u)
    BY <2>2, Zenon
  <2>4. Reduce(s, e) = St(v + 1, sn \cup {e.data}, 0, q, g, u)
    BY <1>0, <1>1, <2>3 DEF St
  <2> QED
    BY <1>3, <2>4 DEF v, sn, d, p, g, u
<1>4. CASE e.kind = "blocked"
  <2>1. next = [s EXCEPT !.pending = FALSE, !.dups = @ + 1]
    BY <1>0, <1>4
  <2>2. next = St(v, sn, d + 1, FALSE, g, u)
    BY <1>0, <2>1 DEF St
  <2> HIDE DEF next
  <2>3. PICK q : next = St(v, sn, d + 1, q, g, u)
    BY <2>2, Zenon
  <2>4. Reduce(s, e) = St(v + 1, sn, d + 1, q, g, u)
    BY <1>0, <1>1, <2>3 DEF St
  <2> QED
    BY <1>4, <2>4 DEF v, sn, d, p, g, u
<1>5. CASE e.kind = "rejected"
  <2>1. next = [s EXCEPT !.pending = FALSE]
    BY <1>0, <1>5
  <2>2. next = St(v, sn, d, FALSE, g, u)
    BY <1>0, <2>1 DEF St
  <2> HIDE DEF next
  <2>3. PICK q : next = St(v, sn, d, q, g, u)
    BY <2>2, Zenon
  <2>4. Reduce(s, e) = St(v + 1, sn, d, q, g, u)
    BY <1>0, <1>1, <2>3 DEF St
  <2> QED
    BY <1>5, <2>4 DEF v, sn, d, p, g, u
<1>6. CASE e.kind = "measured"
  <2>1. next = [s EXCEPT !.gates = e.data.gates]
    BY <1>0, <1>6
  <2>2. next = St(v, sn, d, p, e.data.gates, u)
    BY <1>0, <2>1 DEF St
  <2> HIDE DEF next
  <2>3. PICK q : next = St(v, sn, d, q, e.data.gates, u)
    BY <2>2, Zenon
  <2>4. Reduce(s, e) = St(v + 1, sn, d, q, e.data.gates, u)
    BY <1>0, <1>1, <2>3 DEF St
  <2> QED
    BY <1>6, <2>4 DEF v, sn, d, p, g, u
<1>7. CASE e.kind = "budget"
  <2>1. next = [s EXCEPT !.used = @ + 1]
    BY <1>0, <1>7
  <2>2. next = St(v, sn, d, p, g, u + 1)
    BY <1>0, <2>1 DEF St
  <2> HIDE DEF next
  <2>3. PICK q : next = St(v, sn, d, q, g, u + 1)
    BY <2>2, Zenon
  <2>4. Reduce(s, e) = St(v + 1, sn, d, q, g, u + 1)
    BY <1>0, <1>1, <2>3 DEF St
  <2> QED
    BY <1>7, <2>4 DEF v, sn, d, p, g, u
<1>8. CASE e.kind \notin {"planned", "blocked", "rejected", "measured", "budget"}
  <2>1. next = s
    BY <1>0, <1>8
  <2>2. next = St(v, sn, d, p, g, u)
    BY <1>0, <2>1 DEF St
  <2> HIDE DEF next
  <2>3. PICK q : next = St(v, sn, d, q, g, u)
    BY <2>2, Zenon
  <2>4. Reduce(s, e) = St(v + 1, sn, d, q, g, u)
    BY <1>0, <1>1, <2>3 DEF St
  <2> QED
    BY <1>8, <2>4 DEF v, sn, d, p, g, u
<1> QED
  BY <1>2, <1>3, <1>4, <1>5, <1>6, <1>7, <1>8 DEF v, sn, d, p, g, u

LEMMA ReduceIs ==
    ASSUME NEW s, IsState(s), NEW e
    PROVE  /\ IsState(Reduce(s, e)) /\ Reduce(s, e).revision = s.revision + 1
           /\ Reduce(s, e).gates = IF e.kind = "measured" THEN e.data.gates ELSE s.gates
           /\ e.kind \notin {"planned", "blocked"} =>
                 Reduce(s, e).dups = s.dups /\ Reduce(s, e).seen = s.seen
           /\ e.kind = "blocked" => Reduce(s, e).dups = s.dups + 1 /\ Reduce(s, e).seen = s.seen
           /\ e.kind = "planned" =>
                 /\ Reduce(s, e).seen = s.seen \cup {e.data}
                 /\ Reduce(s, e).dups = IF e.data \in s.seen THEN s.dups ELSE 0
<1> DEFINE v == s.revision
           sn == s.seen
           d == s.dups
           p == s.pending
           g == s.gates
           u == s.used
           r == Reduce(s, e)
<1>1. /\ v \in Nat /\ d \in Nat /\ u \in Nat /\ s = St(v, sn, d, p, g, u)
  BY DEF IsState
<1> HIDE DEF v, sn, d, p, g, u
<1>2. CASE e.kind = "planned" /\ e.data \in sn
  <2>1. PICK q : r = St(v + 1, sn, d, q, g, u)
    BY <1>2, ReduceOf DEF v, sn, d, p, g, u
  <2> QED
    BY <1>1, <1>2, <2>1 DEF IsState, St, v, sn, d, p, g, u, r
<1>3. CASE e.kind = "planned" /\ e.data \notin sn
  <2>1. PICK q : r = St(v + 1, sn \cup {e.data}, 0, q, g, u)
    BY <1>3, ReduceOf DEF v, sn, d, p, g, u
  <2> QED
    BY <1>1, <1>3, <2>1 DEF IsState, St, v, sn, d, p, g, u, r
<1>4. CASE e.kind = "blocked"
  <2>1. PICK q : r = St(v + 1, sn, d + 1, q, g, u)
    BY <1>4, ReduceOf DEF v, sn, d, p, g, u
  <2> QED
    BY <1>1, <1>4, <2>1 DEF IsState, St, v, sn, d, p, g, u, r
<1>5. CASE e.kind = "rejected"
  <2>1. PICK q : r = St(v + 1, sn, d, q, g, u)
    BY <1>5, ReduceOf DEF v, sn, d, p, g, u
  <2> QED
    BY <1>1, <1>5, <2>1 DEF IsState, St, v, sn, d, p, g, u, r
<1>6. CASE e.kind = "measured"
  <2>1. PICK q : r = St(v + 1, sn, d, q, e.data.gates, u)
    BY <1>6, ReduceOf DEF v, sn, d, p, g, u
  <2> QED
    BY <1>1, <1>6, <2>1 DEF IsState, St, v, sn, d, p, g, u, r
<1>7. CASE e.kind = "budget"
  <2>1. PICK q : r = St(v + 1, sn, d, q, g, u + 1)
    BY <1>7, ReduceOf DEF v, sn, d, p, g, u
  <2> QED
    BY <1>1, <1>7, <2>1 DEF IsState, St, v, sn, d, p, g, u, r
<1>8. CASE e.kind \notin {"planned", "blocked", "rejected", "measured", "budget"}
  <2>1. PICK q : r = St(v + 1, sn, d, q, g, u)
    BY <1>8, ReduceOf DEF v, sn, d, p, g, u
  <2> QED
    BY <1>1, <1>8, <2>1 DEF IsState, St, v, sn, d, p, g, u, r
<1> QED
  BY <1>2, <1>3, <1>4, <1>5, <1>6, <1>7, <1>8

\* r is the state s after the events.
Follows(s, events, r) ==
    /\ IsState(r) /\ r.revision = s.revision + Len(events)
    /\ (\A i \in 1 .. Len(events) : events[i].kind \notin {"planned", "blocked"}) =>
          r.dups = s.dups /\ r.seen = s.seen
    /\ (\A i \in 1 .. Len(events) : events[i].kind # "measured") => r.gates = s.gates
    /\ \A m \in 1 .. Len(events) :
          events[m].kind = "measured" /\ (\A i \in m + 1 .. Len(events) : events[i].kind # "measured")
             => r.gates = events[m].data.gates

LEMMA ReducedFields ==
    ASSUME NEW s, IsState(s), NEW events, Len(events) \in Nat
    PROVE  Follows(s, events, Reduced(s, events))
<1> DEFINE n == Len(events)
           f == AfterEach(s, events)
<1>1. /\ Reduced(s, events) = f[n] /\ f[0] = s
      /\ \A k \in 1 .. n : f[k] = Reduce(f[k - 1], events[k])
  BY ReducedIs DEF Between
<1> HIDE DEF f
<1> DEFINE Good(k) ==
        /\ IsState(f[k]) /\ f[k].revision = s.revision + k
        /\ (\A i \in 1 .. k : events[i].kind \notin {"planned", "blocked"}) =>
              f[k].dups = s.dups /\ f[k].seen = s.seen
        /\ (\A i \in 1 .. k : events[i].kind # "measured") => f[k].gates = s.gates
        /\ \A m \in 1 .. k :
              /\ events[m].kind = "measured"
              /\ \A i \in m + 1 .. k : events[i].kind # "measured"
              => f[k].gates = events[m].data.gates
           Bad == {k \in 0 .. n : ~Good(k)}
<1>2. Good(0)
  BY <1>1 DEF IsState
<1>3. ASSUME NEW k \in 1 .. n, Good(k - 1)
      PROVE  Good(k)
  <2>0. f[k] = Reduce(f[k - 1], events[k]) /\ IsState(f[k - 1])
    BY <1>1, <1>3
  <2>1. k - 1 \in Nat /\ k \in Nat /\ 1 .. k = (1 .. k - 1) \cup {k}
    OBVIOUS
  <2>6. /\ IsState(f[k]) /\ f[k].revision = f[k - 1].revision + 1
        /\ f[k].gates = IF events[k].kind = "measured" THEN events[k].data.gates
                        ELSE f[k - 1].gates
        /\ events[k].kind \notin {"planned", "blocked"} =>
              f[k].dups = f[k - 1].dups /\ f[k].seen = f[k - 1].seen
    <3> DEFINE old == f[k - 1]
               e == events[k]
    <3>1. IsState(old) /\ f[k] = Reduce(old, e)
      BY <2>0
    <3> HIDE DEF old, e
    <3>2. /\ IsState(f[k]) /\ f[k].revision = old.revision + 1
          /\ f[k].gates = IF e.kind = "measured" THEN e.data.gates ELSE old.gates
          /\ e.kind \notin {"planned", "blocked"} => f[k].dups = old.dups /\ f[k].seen = old.seen
      BY <3>1, ReduceIs
    <3> QED
      BY <3>2 DEF old, e
  <2>2. IsState(f[k]) /\ f[k].revision = s.revision + k
    BY <1>3, <2>6, <2>1 DEF IsState
  <2>3. (\A i \in 1 .. k : events[i].kind \notin {"planned", "blocked"}) =>
            f[k].dups = s.dups /\ f[k].seen = s.seen
    BY <1>3, <2>6, <2>1
  <2>4. (\A i \in 1 .. k : events[i].kind # "measured") => f[k].gates = s.gates
    BY <1>3, <2>6, <2>1
  <2>5. ASSUME NEW m \in 1 .. k, events[m].kind = "measured",
               \A i \in m + 1 .. k : events[i].kind # "measured"
        PROVE  f[k].gates = events[m].data.gates
    <3>1. CASE m = k
      BY <2>6, <2>1, <2>5, <3>1
    <3>2. CASE m # k
      <4>1. /\ m \in 1 .. k - 1 /\ events[k].kind # "measured"
            /\ \A i \in m + 1 .. k - 1 : events[i].kind # "measured"
        BY <2>1, <2>5, <3>2
      <4> QED
        BY <1>3, <2>6, <2>1, <2>5, <4>1
    <3> QED
      BY <3>1, <3>2
  <2> QED
    BY <2>2, <2>3, <2>4, <2>5
<1> HIDE DEF Good
<1>4. Bad = {}
  <2> SUFFICES ASSUME Bad # {}
               PROVE  FALSE
    OBVIOUS
  <2>1. PICK k \in Bad : \A i \in Bad : k <= i
    <3>1. Bad \in SUBSET Nat
      OBVIOUS
    <3> HIDE DEF Bad
    <3> QED
      BY <3>1, SmallestOf
  <2>2. k \in 1 .. n
    BY <1>2, <2>1
  <2>3. Good(k - 1)
    BY <2>1, <2>2
  <2> QED
    BY <1>3, <2>1, <2>2, <2>3
<1>5. Good(n)
  BY <1>4
<1> QED
  BY <1>1, <1>5, Zenon DEF Good, Follows

-----------------------------------------------------------------------------
\* The ledger as a sequence.

IsSeq(a) == a \in Seq(ToSet(a))

LEMMA ConcatIs ==
    ASSUME NEW a, IsSeq(a), NEW b, IsSeq(b)
    PROVE  /\ IsSeq(a \o b) /\ Len(a \o b) = Len(a) + Len(b)
           /\ Len(a) \in Nat /\ Len(b) \in Nat
           /\ DOMAIN (a \o b) = 1 .. Len(a) + Len(b)
           /\ DOMAIN a = 1 .. Len(a) /\ DOMAIN b = 1 .. Len(b)
           /\ \A i \in 1 .. Len(a) : (a \o b)[i] = a[i]
           /\ \A i \in 1 .. Len(b) : (a \o b)[Len(a) + i] = b[i]
<1> DEFINE S == ToSet(a) \cup ToSet(b)
<1>1. a \in Seq(S) /\ b \in Seq(S)
  BY SeqMonotonic DEF IsSeq
<1>2. /\ Len(a) \in Nat /\ Len(b) \in Nat
      /\ DOMAIN a = 1 .. Len(a) /\ DOMAIN b = 1 .. Len(b)
  BY <1>1, LenProperties
<1>3. /\ a \o b \in Seq(S) /\ Len(a \o b) = Len(a) + Len(b)
      /\ \A i \in 1 .. Len(a) + Len(b) :
            (a \o b)[i] = IF i <= Len(a) THEN a[i] ELSE b[i - Len(a)]
  BY <1>1, ConcatProperties
<1>4. DOMAIN (a \o b) = 1 .. Len(a) + Len(b)
  BY <1>3, LenProperties
<1>5. IsSeq(a \o b)
  <2> DEFINE c == a \o b
  <2>1. c \in [1 .. Len(c) -> S]
    BY <1>3, LenProperties
  <2> HIDE DEF c
  <2>2. c \in [1 .. Len(c) -> ToSet(c)]
    BY <2>1 DEF ToSet
  <2>3. Len(c) \in Nat
    BY <1>2, <1>3 DEF c
  <2>4. c \in Seq(ToSet(c))
    BY <2>2, <2>3, SeqDef
  <2> QED
    BY <2>4 DEF IsSeq, c
<1> QED
  BY <1>2, <1>3, <1>4, <1>5

\* Any function on 1 .. n is a sequence.
LEMMA FunctionIs ==
    ASSUME NEW n \in Nat, NEW f, f = [i \in 1 .. n |-> f[i]]
    PROVE  IsSeq(f) /\ Len(f) = n
<1>1. f \in [1 .. n -> ToSet(f)]
  BY DEF ToSet
<1>2. f \in Seq(ToSet(f))
  BY <1>1, SeqDef
<1> QED
  BY <1>1, <1>2, LenProperties DEF IsSeq

\* The sequence of a set with at most one member.
LEMMA SetToSeqIs ==
    ASSUME NEW S, S = {} \/ \E x : S = {x}
    PROVE  /\ IsSeq(SetToSeq(S)) /\ Len(SetToSeq(S)) = Cardinality(S)
           /\ \A i \in 1 .. Len(SetToSeq(S)) : SetToSeq(S)[i] \in S
<1>1. Cardinality(S) \in Nat /\ Cardinality(S) <= 1
  <2>1. S = {} => Cardinality(S) = 0
    BY FS_EmptySet
  <2>2. (\E x : S = {x}) => Cardinality(S) = 1
    BY FS_Singleton
  <2> QED
    BY <2>1, <2>2
<1>2. \E f \in [1 .. Cardinality(S) -> S] : IsInjective(f)
  <2>1. CASE S = {}
    <3>1. Cardinality(S) = 0
      BY <2>1, FS_EmptySet
    <3> DEFINE f == [i \in 1 .. 0 |-> i]
    <3>2. f \in [1 .. 0 -> S]
      OBVIOUS
    <3>3. IsInjective(f)
      BY DEF IsInjective
    <3> HIDE DEF f
    <3> QED
      BY <3>1, <3>2, <3>3
  <2>2. ASSUME NEW x, S = {x}
        PROVE  \E f \in [1 .. Cardinality(S) -> S] : IsInjective(f)
    <3>1. Cardinality(S) = 1
      BY <2>2, FS_Singleton
    <3>2. [i \in 1 .. 1 |-> x] \in [1 .. 1 -> S] /\ IsInjective([i \in 1 .. 1 |-> x])
      BY <2>2 DEF IsInjective
    <3> QED
      BY <3>1, <3>2
  <2> QED
    BY <2>1, <2>2
<1> DEFINE f == SetToSeq(S)
<1>3. f \in [1 .. Cardinality(S) -> S]
  BY <1>2 DEF SetToSeq
<1> HIDE DEF f
<1>4. f = [i \in 1 .. Cardinality(S) |-> f[i]]
  BY <1>3
<1>5. IsSeq(f) /\ Len(f) = Cardinality(S)
  BY <1>1, <1>4, FunctionIs
<1> QED
  BY <1>3, <1>5 DEF f

\* The last r entries of a ledger are there, and are numbered from 1.
Numbered(l, r) ==
    /\ IsSeq(l) /\ r \in Nat /\ r <= Len(l)
    /\ \A i \in 1 .. r : l[Len(l) - r + i].seq = i

\* The invariant of the kernel and its ledger: the last entries are this job's.
KernelOK == IsState(state) /\ Numbered(ledger, state.revision)

\* The last r entries of a ledger.
LastOf(l, r) == SubSeq(l, Len(l) - r + 1, Len(l))

LEMMA OwnIs ==
    ASSUME NEW l, NEW r, Numbered(l, r)
    PROVE  /\ Len(LastOf(l, r)) = r /\ DOMAIN LastOf(l, r) = 1 .. r
           /\ Len(l) \in Nat /\ DOMAIN l = 1 .. Len(l)
           /\ \A i \in 1 .. r : LastOf(l, r)[i] = l[Len(l) - r + i]
<1> DEFINE m == Len(l) - r + 1
           n == Len(l)
           o == LastOf(l, r)
<1>1. /\ n \in Nat /\ DOMAIN l = 1 .. n /\ m \in Int /\ r \in Nat /\ r <= n
      /\ \A i \in m .. n : l[i] \in ToSet(l)
  BY LenProperties DEF IsSeq, Numbered
<1>2. o = SubSeq(l, m, n)
  BY DEF LastOf
<1> HIDE DEF o
<1>3. /\ o \in Seq(ToSet(l)) /\ Len(o) = IF m <= n THEN n - m + 1 ELSE 0
      /\ \A i \in 1 .. n - m + 1 : o[i] = l[m + i - 1]
  <2> DEFINE S == ToSet(l)
  <2>1. \A i \in m .. n : l[i] \in S
    BY <1>1
  <2> HIDE DEF m, n, S
  <2>2. /\ SubSeq(l, m, n) \in Seq(S)
        /\ Len(SubSeq(l, m, n)) = IF m <= n THEN n - m + 1 ELSE 0
        /\ \A i \in 1 .. n - m + 1 : SubSeq(l, m, n)[i] = l[m + i - 1]
    <3>1. m \in Int /\ n \in Int
      BY <1>1
    <3> QED
      BY <2>1, <3>1, SubSeqProperties
  <2> QED
    BY <1>2, <2>2, Zenon DEF S
<1>4. Len(o) = r
  BY <1>1, <1>3
<1>5. DOMAIN o = 1 .. r
  BY <1>3, <1>4, LenProperties
<1> QED
  BY <1>1, <1>3, <1>4, <1>5 DEF o

\* Numbered entries after numbered entries.
LEMMA AppendIs ==
    ASSUME NEW a, NEW r, Numbered(a, r), NEW b, IsSeq(b),
           \A i \in 1 .. Len(b) : b[i].seq = r + i
    PROVE  LET c == a \o b
               v == r + Len(b)
           IN  /\ Numbered(c, v) /\ Len(c) = Len(a) + Len(b)
               /\ \A i \in 1 .. Len(a) : c[i] = a[i]
               /\ \A i \in 1 .. Len(b) : c[Len(a) + i] = b[i]
               /\ \A i \in 1 .. r : LastOf(c, v)[i] = LastOf(a, r)[i]
               /\ \A i \in 1 .. Len(b) : LastOf(c, v)[r + i] = b[i]
<1> DEFINE c == a \o b
           m == Len(a)
           n == Len(b)
           v == r + n
<1>0. IsSeq(a) /\ r \in Nat /\ r <= m
  BY DEF Numbered
<1>1. /\ IsSeq(c) /\ Len(c) = m + n /\ m \in Nat /\ n \in Nat
      /\ \A i \in 1 .. m : c[i] = a[i]
      /\ \A i \in 1 .. n : c[m + i] = b[i]
  BY <1>0, ConcatIs
<1>2. v \in Nat /\ v <= m + n /\ r <= m /\ v = r + n
  BY <1>0, <1>1
<1>3. \A i \in 1 .. r : a[m - r + i].seq = i
  BY DEF Numbered
<1>4. \A i \in 1 .. n : b[i].seq = r + i
  OBVIOUS
<1> HIDE DEF c, m, n, v
<1>6. \A i \in 1 .. v : c[m - r + i] = IF i <= r THEN a[m - r + i] ELSE b[i - r]
  <2> SUFFICES ASSUME NEW i \in 1 .. v
               PROVE  c[m - r + i] = IF i <= r THEN a[m - r + i] ELSE b[i - r]
    OBVIOUS
  <2>1. CASE i <= r
    <3>1. m - r + i \in 1 .. m
      BY <1>0, <1>1, <1>2, <2>1
    <3> QED
      BY <1>1, <2>1, <3>1
  <2>2. CASE i > r
    <3>1. i - r \in 1 .. n /\ m - r + i = m + (i - r) /\ ~(i <= r)
      BY <1>0, <1>1, <1>2, <2>2
    <3> QED
      BY <1>1, <3>1
  <2> QED
    BY <1>0, <1>2, <2>1, <2>2
<1>7. Len(c) - v = m - r
  BY <1>0, <1>1, <1>2
<1>8. Numbered(c, v)
  <2>1. ASSUME NEW i \in 1 .. v
        PROVE  c[Len(c) - v + i].seq = i
    <3>1. c[Len(c) - v + i] = IF i <= r THEN a[m - r + i] ELSE b[i - r]
      BY <1>6, <1>7
    <3>2. CASE i <= r
      <4>1. i \in 1 .. r
        BY <1>0, <1>2, <3>2
      <4> QED
        BY <1>3, <3>1, <3>2, <4>1
    <3>3. CASE ~(i <= r)
      <4>1. i - r \in 1 .. n /\ r + (i - r) = i
        BY <1>0, <1>1, <1>2, <3>3
      <4> QED
        BY <1>4, <3>1, <3>3, <4>1 DEF n
    <3> QED
      BY <3>2, <3>3
  <2>2. v <= Len(c)
    BY <1>1, <1>2
  <2> QED
    BY <1>1, <1>2, <2>1, <2>2 DEF Numbered
<1> DEFINE o == LastOf(a, r)
           q == LastOf(c, v)
<1>9. /\ \A i \in 1 .. r : o[i] = a[m - r + i]
      /\ \A i \in 1 .. v : q[i] = c[Len(c) - v + i]
  BY <1>8, OwnIs DEF m
<1> HIDE DEF o, q
<1>10. ASSUME NEW i \in 1 .. r
       PROVE  q[i] = o[i]
  <2>1. i \in 1 .. v /\ i <= r
    BY <1>0, <1>1, <1>2
  <2> QED
    BY <1>6, <1>7, <1>9, <2>1
<1>11. ASSUME NEW i \in 1 .. n
       PROVE  q[r + i] = b[i]
  <2>1. r + i \in 1 .. v /\ ~(r + i <= r) /\ (r + i) - r = i
    BY <1>0, <1>1, <1>2
  <2> QED
    BY <1>6, <1>7, <1>9, <2>1
<1> QED
  BY <1>1, <1>8, <1>10, <1>11 DEF c, m, n, v, o, q

\* What a commit does.
LEMMA CommitIs ==
    ASSUME KernelOK, NEW events, IsSeq(events), Commit(events)
    PROVE  /\ KernelOK'
           /\ Len(events) \in Nat /\ Len(ledger) \in Nat /\ state.revision \in Nat
           /\ Len(ledger') = Len(ledger) + Len(events)
           /\ \A i \in 1 .. Len(ledger) : ledger'[i] = ledger[i]
           /\ \A i \in 1 .. Len(events) :
                 /\ ledger'[Len(ledger) + i].kind = events[i].kind
                 /\ ledger'[Len(ledger) + i].data = events[i].data
           /\ state' = Reduced(state, events)
           /\ state'.revision = state.revision + Len(events)
           /\ Len(Own') = Len(Own) + Len(events) /\ Len(Own) = state.revision
           /\ \A i \in 1 .. Len(Own) : Own'[i] = Own[i]
           /\ \A i \in 1 .. Len(events) :
                 /\ Own'[Len(Own) + i].kind = events[i].kind
                 /\ Own'[Len(Own) + i].data = events[i].data
<1> DEFINE new == [i \in DOMAIN events |->
                      [kind |-> events[i].kind, data |-> events[i].data,
                       seq |-> state.revision + i]]
           n == Len(events)
<1>1. state' = Reduced(state, events) /\ ledger' = ledger \o new
  BY DEF Commit
<1>2. /\ n \in Nat /\ DOMAIN events = 1 .. n
  BY LenProperties DEF IsSeq
<1>3. /\ new = [i \in 1 .. n |-> new[i]]
      /\ \A i \in 1 .. n : /\ new[i].kind = events[i].kind /\ new[i].data = events[i].data
                           /\ new[i].seq = state.revision + i
  BY <1>2
<1> HIDE DEF new
<1>4. IsSeq(new) /\ Len(new) = n
  BY <1>2, <1>3, FunctionIs
<1>5. /\ IsState(state') /\ state'.revision = state.revision + n /\ state.revision \in Nat
  <2>1. IsState(state)
    BY DEF KernelOK
  <2>2. Follows(state, events, Reduced(state, events))
    BY <1>2, <2>1, ReducedFields
  <2> QED
    BY <1>1, <2>1, <2>2, Zenon DEF Follows, IsState
<1> HIDE DEF n
<1>6. Numbered(ledger, state.revision) /\ \A i \in 1 .. Len(new) : new[i].seq = state.revision + i
  BY <1>3, <1>4 DEF KernelOK
<1> DEFINE l == ledger'
           v == state'.revision
           r == state.revision
<1>7. l = ledger \o new /\ v = r + Len(new)
  BY <1>1, <1>4, <1>5
<1> HIDE DEF l, v, r
<1>16. Numbered(ledger, r) /\ IsSeq(new) /\ \A i \in 1 .. Len(new) : new[i].seq = r + i
  BY <1>4, <1>6, Zenon DEF r
<1>8. /\ Numbered(l, v) /\ Len(l) = Len(ledger) + Len(new)
      /\ \A i \in 1 .. Len(ledger) : l[i] = ledger[i]
      /\ \A i \in 1 .. Len(new) : l[Len(ledger) + i] = new[i]
      /\ \A i \in 1 .. r : LastOf(l, v)[i] = LastOf(ledger, r)[i]
      /\ \A i \in 1 .. Len(new) : LastOf(l, v)[r + i] = new[i]
  <2>1. LET c == ledger \o new
            w == r + Len(new)
        IN  /\ Numbered(c, w) /\ Len(c) = Len(ledger) + Len(new)
            /\ \A i \in 1 .. Len(ledger) : c[i] = ledger[i]
            /\ \A i \in 1 .. Len(new) : c[Len(ledger) + i] = new[i]
            /\ \A i \in 1 .. r : LastOf(c, w)[i] = LastOf(ledger, r)[i]
            /\ \A i \in 1 .. Len(new) : LastOf(c, w)[r + i] = new[i]
    BY <1>16, AppendIs
  <2> QED
    BY <1>7, <2>1, Zenon
<1> DEFINE o == LastOf(ledger, r)
           q == LastOf(l, v)
<1>9. Len(o) = r /\ Len(q) = v /\ Len(ledger) \in Nat
  BY <1>6, <1>8, OwnIs DEF r
<1> HIDE DEF o, q
<1>10. ASSUME NEW i \in 1 .. n
       PROVE  /\ l[Len(ledger) + i].kind = events[i].kind
              /\ l[Len(ledger) + i].data = events[i].data
              /\ q[Len(o) + i].kind = events[i].kind
              /\ q[Len(o) + i].data = events[i].data
  <2>1. l[Len(ledger) + i] = new[i] /\ q[Len(o) + i] = new[i]
    BY <1>4, <1>8, <1>9, Zenon DEF o, q
  <2>2. new[i].kind = events[i].kind /\ new[i].data = events[i].data
    BY <1>3, Zenon
  <2> QED
    BY <2>1, <2>2, Zenon
<1>11. \A i \in 1 .. Len(o) : q[i] = o[i]
  BY <1>8, <1>9, Zenon DEF o, q
<1>12. o = Own /\ q = Own'
  BY Zenon DEF o, q, l, v, r, Own, LastOf
<1>13. KernelOK'
  BY <1>5, <1>8, Zenon DEF KernelOK, l, v
<1>14. /\ Len(ledger') = Len(ledger) + n /\ Len(ledger) \in Nat
       /\ \A i \in 1 .. Len(ledger) : ledger'[i] = ledger[i]
       /\ \A i \in 1 .. n : /\ ledger'[Len(ledger) + i].kind = events[i].kind
                            /\ ledger'[Len(ledger) + i].data = events[i].data
  BY <1>4, <1>8, <1>9, <1>10, Zenon DEF l
<1>15. /\ Len(q) = Len(o) + n /\ Len(o) = state.revision
  BY <1>4, <1>7, <1>9, Zenon DEF r
<1> QED
  BY <1>1, <1>2, <1>5, <1>10, <1>11, <1>12, <1>13, <1>14, <1>15, Zenon DEF n

-----------------------------------------------------------------------------
\* The judge.

\* Who wrote the frozen contract, and when; no file holds Same.
JudgeOK ==
    /\ mode \in Modes /\ kills \in Nat
    /\ pc \in {"head", "critic", "execute", "measure", "gates", "close", "done"}
    /\ pc \in {"critic", "execute"} => plan \in Plans
    /\ mode.judge \in {"hidden", "approved"} => author = "human" /\ judge = Given
    /\ mode.judge \in {"own", "missing"} => author = IF judge = NoFile THEN "none" ELSE "model"
    /\ ws = [product |-> ws.product, claims |-> ws.claims]
    /\ ws.claims # Same /\ judge # Same

\* While the gates run the contract is in the place of claims.json, which is held.
GatesOK ==
    pc = "gates" =>
        /\ candidate => judge = NoFile /\ ws.claims # NoFile
        /\ judge = NoFile => held = Same
        /\ judge # NoFile => held # Same /\ ws.claims = judge
        /\ source = ClaimsSource(mode, judge, Restored.claims)
        /\ mode.judge = "hidden" /\ kills = 0 => held # Given

JInv == JudgeOK /\ GatesOK /\ JudgeIsApart

LEMMA SourceIs ==
    ASSUME NEW m \in Modes, NEW f, NEW c
    PROVE  /\ ClaimsSource(m, f, c) \in {"hidden", "approved"} <=> m.judge # "own" /\ f # NoFile
           /\ m.judge \in {"own", "hidden", "missing", "approved"}
           /\ ClaimsSource(m, f, c) = "workspace" => c # NoFile
<1>1. m.judge \in {"own", "hidden", "missing", "approved"}
  BY ModeAssumption DEF ModeAssumption
<1>2. CASE m.judge # "own" /\ f # NoFile
  <2>1. ClaimsSource(m, f, c) = IF m.judge = "approved" THEN "approved" ELSE "hidden"
    BY <1>2 DEF ClaimsSource
  <2> QED
    BY <1>1, <1>2, <2>1
<1>3. CASE ~(m.judge # "own" /\ f # NoFile)
  <2>1. ClaimsSource(m, f, c) = IF c # NoFile THEN "workspace" ELSE "none"
    BY <1>3 DEF ClaimsSource
  <2> QED
    BY <1>1, <1>3, <2>1
<1> QED
  BY <1>1, <1>2, <1>3

\* What a plan, or some of it, writes: no file holds Same or the user's contract.
LEMMA WrittenIs ==
    ASSUME JInv, pc \in {"critic", "execute"}, NEW w \in Partly
    PROVE  /\ w = [product |-> w.product, claims |-> w.claims] /\ w.claims # Same
           /\ ws.claims # Given => w.claims # Given
<1>1. plan \in Plans /\ plan.claims # Given
  BY PlanAssumption DEF JInv, JudgeOK
<1>2. /\ Written.claims # Same /\ (ws.claims # Given => Written.claims # Given)
      /\ Written = [product |-> Written.product, claims |-> Written.claims]
  BY <1>1 DEF Written, JInv, JudgeOK
<1>3. ws.claims # Same /\ ws = [product |-> ws.product, claims |-> ws.claims]
  BY DEF JInv, JudgeOK
<1> QED
  BY <1>2, <1>3 DEF Partly

LEMMA JInit == Init => JInv
<1> SUFFICES ASSUME Init
             PROVE  JInv
  OBVIOUS
<1>1. JudgeOK
  BY ModeAssumption, FileAssumption DEF Init, JudgeOK
<1>2. GatesOK /\ JudgeIsApart
  BY FileAssumption DEF Init, GatesOK, JudgeIsApart, WhoseChecksRun, HiddenIsPutAway
<1> QED
  BY <1>1, <1>2 DEF JInv

LEMMA JNext == JInv /\ [Next]_vars => JInv'
<1> SUFFICES ASSUME JInv, [Next]_vars
             PROVE  JInv'
  OBVIOUS
<1> USE DEF disk, turn, past, kernel
<1>1. ASSUME pc' = "done", UNCHANGED <<disk, turn, mode, tree, tried, judged>>, kills' \in Nat,
             kills' = kills \/ kills' = kills + 1, pc # "gates" \/ kills' # 0
      PROVE  JInv'
  <2>1. JudgeOK'
    BY <1>1 DEF JInv, JudgeOK
  <2>2. GatesOK' /\ WhoseChecksRun'
    BY <1>1 DEF JInv, GatesOK, JudgeIsApart, WhoseChecksRun
  <2>3. HiddenIsPutAway'
    BY <1>1 DEF JInv, JudgeOK, JudgeIsApart, HiddenIsPutAway
  <2> QED
    BY <2>1, <2>2, <2>3 DEF JInv, JudgeIsApart
<1>2. CASE Conclude \/ PlannerFails \/ ContractUnreadable \/ Cancel
  <2>1. /\ pc = "head" /\ pc' = "done" /\ UNCHANGED <<disk, turn, past, tree, tried, judged>>
    BY <1>2 DEF Conclude, PlannerFails, ContractUnreadable, Cancel, End
  <2> QED
    BY <1>1, <2>1 DEF JInv, JudgeOK
<1>3. CASE Kill
  <2>1. /\ pc' = "done" /\ kills' = kills + 1
        /\ UNCHANGED <<disk, turn, mode, tree, tried, judged>>
    BY <1>3 DEF Kill, End
  <2> QED
    BY <1>1, <2>1 DEF JInv, JudgeOK
<1>4. ASSUME UNCHANGED <<ws, judge, author, past, judged>>, plan' \in Plans,
             pc' \in {"head", "critic", "execute", "measure"}, pc # "gates"
      PROVE  JInv'
  BY <1>4 DEF JInv, JudgeOK, GatesOK, JudgeIsApart, WhoseChecksRun, HiddenIsPutAway
<1>5. ASSUME NEW p \in Plans, Propose(p)
      PROVE  JInv'
  BY <1>4, <1>5 DEF Propose
<1>6. CASE Criticise
  BY <1>4, <1>6 DEF Criticise, JInv, JudgeOK
<1>7. ASSUME pc = "execute", pc' \in {"measure", "head"}, ws' \in Partly,
             UNCHANGED <<judge, author, past, judged>>
      PROVE  JInv'
  <2>1. /\ ws' = [product |-> ws'.product, claims |-> ws'.claims] /\ ws'.claims # Same
        /\ ws.claims # Given => ws'.claims # Given
    BY <1>7, WrittenIs
  <2> QED
    BY <1>7, <2>1 DEF JInv, JudgeOK, GatesOK, JudgeIsApart, WhoseChecksRun, HiddenIsPutAway
<1>8. CASE ExecuteClean \/ ExecuteTraps \/ ExecuteNodeTraps
  <2>1. Written \in Partly
    BY DEF Partly
  <2> QED
    BY <1>7, <1>8, <2>1 DEF ExecuteClean, ExecuteTraps, ExecuteNodeTraps
<1>9. CASE Swap
  <2>1. /\ pc' = "gates" /\ UNCHANGED <<judge, author, past, judged>>
        /\ source' = ClaimsSource(mode, judge, ws.claims)
        /\ candidate' = (judge = NoFile /\ ws.claims # NoFile)
        /\ held' = IF judge = NoFile THEN Same ELSE ws.claims
        /\ ws' = IF judge = NoFile THEN ws ELSE [ws EXCEPT !.claims = judge]
    BY <1>9 DEF Swap
  <2>2. /\ ws' = [product |-> ws'.product, claims |-> ws'.claims] /\ ws'.claims # Same
        /\ ws'.claims = IF judge = NoFile THEN ws.claims ELSE judge
    BY <2>1 DEF JInv, JudgeOK
  <2>3. JudgeOK'
    BY <2>1, <2>2 DEF JInv, JudgeOK
  <2>4. Restored'.claims = ws.claims
    BY <2>1, <2>2 DEF Restored, JInv, JudgeOK
  <2>5. GatesOK'
    BY <1>9, <2>1, <2>2, <2>4, FileAssumption
       DEF JInv, JudgeOK, GatesOK, JudgeIsApart, HiddenIsPutAway, Swap
  <2>6. JudgeIsApart'
    BY <2>1 DEF JInv, JudgeIsApart, WhoseChecksRun, HiddenIsPutAway
  <2> QED
    BY <2>3, <2>5, <2>6 DEF JInv
<1>10. CASE Measure
  <2>1. PICK gates : /\ gates = RunGates(ws.product, ws.claims, Allow)
                     /\ pc = "gates" /\ pc' = "close" /\ ws' = Restored
                     /\ judge' = IF Ready(gates) THEN Restored.claims ELSE judge
                     /\ author' = IF Ready(gates) THEN "model" ELSE author
                     /\ judged' = [ws |-> ws, allow |-> Allow, source |-> source, author |-> author]
                     /\ UNCHANGED past
    BY <1>10 DEF Measure
  <2>2. /\ Restored = [product |-> Restored.product, claims |-> Restored.claims]
        /\ Restored.claims # Same
        /\ judge # NoFile => Restored.claims = held
        /\ judge = NoFile => Restored.claims = ws.claims
    BY <2>1 DEF JInv, JudgeOK, GatesOK, Restored
  <2>3. Ready(gates) => judge = NoFile /\ mode.judge \notin {"hidden", "approved"}
    BY <2>1, FileAssumption DEF Ready, JInv, JudgeOK, GatesOK
  <2>4. Ready(gates) => Restored.claims # NoFile
    BY <2>1, <2>2, <2>3 DEF Ready, JInv, GatesOK
  <2>5. JudgeOK'
    BY <2>1, <2>2, <2>3, <2>4, SourceIs DEF JInv, JudgeOK
  <2>6. GatesOK' /\ HiddenIsPutAway'
    BY <2>1, <2>2, FileAssumption
       DEF GatesOK, HiddenIsPutAway, JInv, JudgeOK
  <2>7. Allow <=> \/ mode.benchmark
                  \/ author = "human"
                  \/ author = "model" /\ mode.judge = "missing"
    BY <2>1, SourceIs, FileAssumption DEF Allow, JInv, JudgeOK, GatesOK
  <2>8. WhoseChecksRun'
    <3>1. judged'.allow = Allow /\ judged'.author = author /\ mode' = mode
      BY <2>1, Zenon
    <3>2. judged'.allow <=> \/ mode.benchmark
                            \/ judged'.author = "human"
                            \/ judged'.author = "model" /\ mode.judge = "missing"
      BY <2>7, <3>1, Zenon
    <3> QED
      BY <3>1, <3>2 DEF WhoseChecksRun
  <2> QED
    BY <2>5, <2>6, <2>8 DEF JInv, JudgeIsApart
<1>11. CASE Close
  <2>1. /\ pc = "close" /\ pc' \in {"head", "done"} /\ UNCHANGED <<disk, past, judged>>
    BY <1>11 DEF Close, End
  <2> QED
    BY <2>1 DEF JInv, JudgeOK, GatesOK, JudgeIsApart, WhoseChecksRun, HiddenIsPutAway
<1>12. CASE Again
  <2>1. /\ pc = "done" /\ pc' = "head" /\ judged' = NoFile /\ UNCHANGED <<mode, disk, kills>>
    BY <1>12 DEF Again
  <2> QED
    BY <2>1 DEF JInv, JudgeOK, GatesOK, JudgeIsApart, WhoseChecksRun, HiddenIsPutAway
<1>13. CASE UNCHANGED vars
  BY <1>13 DEF vars, JInv, JudgeOK, GatesOK, JudgeIsApart, WhoseChecksRun, HiddenIsPutAway, Restored
<1> QED
  BY <1>2, <1>3, <1>5, <1>6, <1>8, <1>9, <1>10, <1>11, <1>12, <1>13 DEF Next, Step

\* The judge is kept apart from the work, whatever the planner writes (JudgeIsApart): the
\* user's hidden contract is in the workspace only while the gates run, and check commands
\* run if they are the user's, in a benchmark, or if they are the model's own, frozen under
\* the path that the user gave.
THEOREM ApartAlways == Spec => []JudgeIsApart
<1>1. JInv => JudgeIsApart
  BY DEF JInv
<1> QED
  BY JInit, JNext, <1>1, PTL DEF Spec

\* The same invariant by itself, for the proofs about success below.
THEOREM JudgeInvariant == Spec => []JInv
BY JInit, JNext, PTL DEF Spec

\* A contract that was frozen is never frozen again and changes no hands, in no later
\* episode and no later job of the run directory (JudgeIsSettled).
THEOREM SettledAlways == Spec => JudgeIsSettled
<1>1. JInv /\ [Next]_vars => [judge # NoFile => judge' = judge /\ author' = author]_vars
  <2> SUFFICES ASSUME JInv, Next, judge # NoFile
               PROVE  judge' = judge /\ author' = author
    OBVIOUS
  <2> USE DEF disk, turn, past, kernel
  <2>1. CASE Measure
    <3>1. PICK gates : /\ pc = "gates"
                       /\ judge' = IF Ready(gates) THEN Restored.claims ELSE judge
                       /\ author' = IF Ready(gates) THEN "model" ELSE author
      BY <2>1 DEF Measure
    <3>2. ~Ready(gates)
      BY <3>1 DEF Ready, JInv, GatesOK
    <3> QED
      BY <3>1, <3>2
  <2>2. CASE ~Measure
    BY <2>2 DEF Next, Step, Conclude, PlannerFails, ContractUnreadable, Propose, Criticise,
                ExecuteClean, ExecuteTraps, ExecuteNodeTraps, Swap, Close, Cancel, Kill, Again
  <2> QED
    BY <2>1, <2>2
<1> QED
  BY JudgeInvariant, <1>1, PTL DEF Spec, JudgeIsSettled

-----------------------------------------------------------------------------
\* The events of each step.

\* A program defines one word at most.
PromotedOK == \A v, w \in promoted : v = w

KInv == KernelOK /\ PromotedOK

\* c is a with b after it.
Joined(a, b, c) ==
    /\ IsSeq(c) /\ Len(c) = Len(a) + Len(b) /\ Len(a) \in Nat /\ Len(b) \in Nat
    /\ \A i \in 1 .. Len(a) : c[i] = a[i]
    /\ \A i \in 1 .. Len(b) : c[Len(a) + i] = b[i]

LEMMA ConcatOf ==
    ASSUME NEW a, IsSeq(a), NEW b, IsSeq(b), NEW c, c = a \o b
    PROVE  Joined(a, b, c)
BY ConcatIs DEF Joined

LEMMA OneIs ==
    ASSUME NEW a
    PROVE  IsSeq(<<a>>) /\ Len(<<a>>) = 1 /\ <<a>>[1] = a
BY DEF IsSeq, ToSet

LEMMA TwoIs ==
    ASSUME NEW a, NEW b
    PROVE  IsSeq(<<a, b>>) /\ Len(<<a, b>>) = 2 /\ <<a, b>>[1] = a /\ <<a, b>>[2] = b
BY DEF IsSeq, ToSet

LEMMA ThreeIs ==
    ASSUME NEW a, NEW b, NEW c
    PROVE  /\ IsSeq(<<a>> \o <<b, c>>) /\ Len(<<a>> \o <<b, c>>) = 3
           /\ (<<a>> \o <<b, c>>)[1] = a /\ (<<a>> \o <<b, c>>)[2] = b
           /\ (<<a>> \o <<b, c>>)[3] = c
<1> DEFINE x == <<a>>
           y == <<b, c>>
<1>1. /\ IsSeq(x) /\ Len(x) = 1 /\ x[1] = a
      /\ IsSeq(y) /\ Len(y) = 2 /\ y[1] = b /\ y[2] = c
  BY OneIs, TwoIs
<1> HIDE DEF x, y
<1> DEFINE e == x \o y
<1>2. /\ IsSeq(e) /\ Len(e) = Len(x) + Len(y)
      /\ \A i \in 1 .. Len(x) : e[i] = x[i]
      /\ \A i \in 1 .. Len(y) : e[Len(x) + i] = y[i]
  <2>1. e = x \o y
    OBVIOUS
  <2> HIDE DEF e
  <2>2. Joined(x, y, e)
    BY <1>1, <2>1, ConcatOf
  <2> QED
    BY <2>2, Zenon DEF Joined
<1> HIDE DEF e
<1>3. IsSeq(e) /\ Len(e) = 3 /\ e[1] = x[1] /\ e[2] = y[1] /\ e[3] = y[2]
  BY <1>1, <1>2
<1> QED
  BY <1>1, <1>3, Zenon DEF e, x, y

\* e is x, then m, then z, then b.
Around(x, m, z, b, e) ==
    /\ IsSeq(e) /\ Len(e) \in Nat /\ Len(x) \in Nat /\ Len(x) + 1 \in 1 .. Len(e)
    /\ e[Len(x) + 1] = m
    /\ \A i \in 1 .. Len(x) : e[i] = x[i]
    /\ \A i \in Len(x) + 2 .. Len(e) : e[i] = b \/ \E k \in 1 .. Len(z) : e[i] = z[k]

LEMMA AroundIs ==
    ASSUME NEW x, IsSeq(x), NEW m, NEW z, IsSeq(z), NEW b, NEW e, e = x \o <<m>> \o z \o <<b>>
    PROVE  Around(x, m, z, b, e)
<1> DEFINE y == <<m>>
           w == <<b>>
           xy == x \o y
           xyz == xy \o z
           n == Len(x)
           l == Len(z)
<1>1. IsSeq(y) /\ Len(y) = 1 /\ y[1] = m /\ IsSeq(w) /\ Len(w) = 1 /\ w[1] = b
  BY OneIs
<1>2. xy = x \o y /\ xyz = xy \o z /\ e = xyz \o w
  OBVIOUS
<1> HIDE DEF y, w, xy, xyz
<1>3. /\ IsSeq(xy) /\ Len(xy) = n + 1 /\ n \in Nat
      /\ \A i \in 1 .. n : xy[i] = x[i]
      /\ \A i \in 1 .. 1 : xy[n + i] = y[i]
  <2>1. /\ IsSeq(xy) /\ Len(xy) = Len(x) + Len(y) /\ Len(x) \in Nat
        /\ \A i \in 1 .. Len(x) : xy[i] = x[i]
        /\ \A i \in 1 .. Len(y) : xy[Len(x) + i] = y[i]
    <3>1. Joined(x, y, xy)
      BY <1>1, <1>2, ConcatOf
    <3> QED
      BY <3>1, Zenon DEF Joined
  <2> QED
    BY <1>1, <2>1, Zenon
<1>4. /\ IsSeq(xyz) /\ Len(xyz) = Len(xy) + l /\ l \in Nat
      /\ \A i \in 1 .. Len(xy) : xyz[i] = xy[i]
      /\ \A i \in 1 .. l : xyz[Len(xy) + i] = z[i]
  <2>1. Joined(xy, z, xyz)
    BY <1>2, <1>3, ConcatOf
  <2> QED
    BY <2>1, Zenon DEF Joined
<1>5. /\ IsSeq(e) /\ Len(e) = Len(xyz) + 1
      /\ \A i \in 1 .. Len(xyz) : e[i] = xyz[i]
      /\ \A i \in 1 .. 1 : e[Len(xyz) + i] = w[i]
  <2>1. /\ IsSeq(e) /\ Len(e) = Len(xyz) + Len(w)
        /\ \A i \in 1 .. Len(xyz) : e[i] = xyz[i]
        /\ \A i \in 1 .. Len(w) : e[Len(xyz) + i] = w[i]
    <3>1. Joined(xyz, w, e)
      BY <1>1, <1>2, <1>4, ConcatOf
    <3> QED
      BY <3>1, Zenon DEF Joined
  <2> QED
    BY <1>1, <2>1, Zenon
<1> HIDE DEF n, l
<1>6. Len(xyz) = n + 1 + l /\ Len(e) = n + 1 + l + 1 /\ n \in Nat /\ l \in Nat
  BY <1>3, <1>4, <1>5
<1>7. ASSUME NEW i \in 1 .. n
      PROVE  e[i] = x[i]
  <2>1. i \in 1 .. Len(xy) /\ i \in 1 .. Len(xyz)
    BY <1>3, <1>6
  <2> QED
    BY <1>3, <1>4, <1>5, <2>1, Zenon
<1>10. e[n + 1] = m
  <2>1. n + 1 \in 1 .. Len(xy) /\ n + 1 \in 1 .. Len(xyz) /\ 1 \in 1 .. 1
    BY <1>3, <1>6
  <2> QED
    BY <1>1, <1>3, <1>4, <1>5, <2>1, Zenon
<1>8. ASSUME NEW i \in n + 2 .. Len(e)
      PROVE  e[i] = b \/ \E k \in 1 .. l : e[i] = z[k]
  <2>1. CASE i = n + 1 + l + 1
    <3>1. i = Len(xyz) + 1 /\ 1 \in 1 .. 1
      BY <1>6, <2>1
    <3> QED
      BY <1>1, <1>5, <3>1, Zenon
  <2>2. CASE i # n + 1 + l + 1
    <3>1. /\ i - (n + 1) \in 1 .. l /\ i = Len(xy) + (i - (n + 1)) /\ i \in 1 .. Len(xyz)
      BY <1>3, <1>6, <2>2
    <3>2. e[i] = z[i - (n + 1)]
      BY <1>4, <1>5, <3>1, Zenon
    <3> QED
      BY <3>1, <3>2, Zenon
  <2> QED
    BY <2>1, <2>2
<1>9. Len(e) \in Nat /\ n + 1 \in 1 .. Len(e)
  BY <1>6
<1> QED
  BY <1>5, <1>6, <1>7, <1>8, <1>9, <1>10, Zenon DEF n, l, Around

LEMMA ProposeIs ==
    ASSUME NEW p, Propose(p)
    PROVE  \E events :
              /\ IsSeq(events) /\ Commit(events)
              /\ DedupeKey(p) \in state.seen =>
                    /\ Len(events) = 3 /\ events[1].kind = "planned" /\ events[2].kind = "blocked"
                    /\ events[3].kind = "budget" /\ events[1].data = DedupeKey(p) /\ pc' = "head"
              /\ DedupeKey(p) \notin state.seen =>
                    /\ Len(events) = 1 /\ events[1].kind = "planned"
                    /\ events[1].data = DedupeKey(p) /\ pc' = "critic"
<1> DEFINE known == DedupeKey(p) \in state.seen
           a == Event("planned", DedupeKey(p))
           b == Event("blocked", p)
           c == Event("budget", 1)
<1>1. /\ a.kind = "planned" /\ a.data = DedupeKey(p) /\ b.kind = "blocked" /\ c.kind = "budget"
  BY DEF Event
<1>2. CASE known
  <2>1. Commit(<<a>> \o <<b, c>>) /\ pc' = "head"
    BY <1>2 DEF Propose
  <2> HIDE DEF a, b, c
  <2>2. /\ IsSeq(<<a>> \o <<b, c>>) /\ Len(<<a>> \o <<b, c>>) = 3
        /\ (<<a>> \o <<b, c>>)[1] = a /\ (<<a>> \o <<b, c>>)[2] = b
        /\ (<<a>> \o <<b, c>>)[3] = c
    BY ThreeIs
  <2> QED
    BY <1>1, <1>2, <2>1, <2>2, Zenon
<1>3. CASE ~known
  <2>1. Commit(<<a>>) /\ pc' = "critic"
    BY <1>3 DEF Propose
  <2> HIDE DEF a
  <2>2. IsSeq(<<a>>) /\ Len(<<a>>) = 1 /\ <<a>>[1] = a
    BY OneIs
  <2> QED
    BY <1>1, <1>3, <2>1, <2>2, Zenon
<1> QED
  BY <1>2, <1>3

LEMMA RejectIs ==
    ASSUME Commit(<<Event("rejected", plan), Event("budget", 1)>>)
    PROVE  \E events :
              /\ IsSeq(events) /\ Commit(events) /\ Len(events) = 2
              /\ events[1].kind = "rejected" /\ events[2].kind = "budget"
<1> DEFINE a == Event("rejected", plan)
           b == Event("budget", 1)
<1>1. a.kind = "rejected" /\ b.kind = "budget" /\ Commit(<<a, b>>)
  BY DEF Event
<1> HIDE DEF a, b
<1>2. IsSeq(<<a, b>>) /\ Len(<<a, b>>) = 2 /\ <<a, b>>[1] = a /\ <<a, b>>[2] = b
  BY TwoIs
<1> QED
  BY <1>1, <1>2, Zenon

LEMMA AcceptIs ==
    ASSUME Commit(<<Event("accepted", plan)>>)
    PROVE  \E events : /\ IsSeq(events) /\ Commit(events) /\ Len(events) = 1
                       /\ events[1].kind = "accepted"
<1> DEFINE a == Event("accepted", plan)
<1>1. a.kind = "accepted" /\ Commit(<<a>>)
  BY DEF Event
<1> HIDE DEF a
<1>2. IsSeq(<<a>>) /\ Len(<<a>>) = 1 /\ <<a>>[1] = a
  BY OneIs
<1> QED
  BY <1>1, <1>2, Zenon

\* What is said of each word of a program, as a sequence.
LEMMA WordEvents ==
    ASSUME NEW S, \A x, y \in S : x = y
    PROVE  IsSeq(SetToSeq(S)) /\ \A i \in 1 .. Len(SetToSeq(S)) : SetToSeq(S)[i] \in S
<1>1. S = {} \/ \E x : S = {x}
  OBVIOUS
<1> QED
  BY <1>1, SetToSeqIs, Zenon

LEMMA CleanIs ==
    ASSUME ExecuteClean
    PROVE  /\ PromotedOK'
           /\ \E events :
                 /\ IsSeq(events) /\ Commit(events) /\ Len(events) \in Nat
                 /\ \A i \in 1 .. Len(events) : events[i].kind \in {"applied", "promoted"}
<1> DEFINE a == Event("applied", [tree |-> Written])
           z == SetToSeq({Event("promoted", w) : w \in promoted'})
           y == <<a>>
<1>1. \A v, w \in promoted' : v = w
  BY DEF ExecuteClean, NewWords
<1>2. Commit(y \o z) /\ a.kind = "applied"
  BY DEF ExecuteClean, Event
<1>4. IsSeq(z) /\ \A i \in 1 .. Len(z) : z[i].kind = "promoted"
  <2> DEFINE S == {Event("promoted", w) : w \in promoted'}
  <2>1. (\A r, s \in S : r = s) /\ \A s \in S : s.kind = "promoted"
    BY <1>1 DEF Event
  <2> HIDE DEF S
  <2>2. IsSeq(SetToSeq(S)) /\ \A i \in 1 .. Len(SetToSeq(S)) : SetToSeq(S)[i] \in S
    BY <2>1, WordEvents, Zenon
  <2>3. IsSeq(SetToSeq(S)) /\ \A i \in 1 .. Len(SetToSeq(S)) : SetToSeq(S)[i].kind = "promoted"
    BY <2>1, <2>2, Zenon
  <2> QED
    BY <2>3, Zenon DEF S
<1> HIDE DEF a, z
<1>5. IsSeq(y) /\ Len(y) = 1 /\ y[1] = a
  BY OneIs
<1> HIDE DEF y
<1> DEFINE e == y \o z
<1>6. /\ IsSeq(e) /\ Len(e) = 1 + Len(z) /\ Len(z) \in Nat
      /\ \A i \in 1 .. 1 : e[i] = y[i]
      /\ \A i \in 1 .. Len(z) : e[1 + i] = z[i]
  <2>0. e = y \o z
    OBVIOUS
  <2> HIDE DEF e
  <2>1. /\ IsSeq(e) /\ Len(e) = Len(y) + Len(z) /\ Len(z) \in Nat
        /\ \A i \in 1 .. Len(y) : e[i] = y[i]
        /\ \A i \in 1 .. Len(z) : e[Len(y) + i] = z[i]
    <3>1. Joined(y, z, e)
      BY <1>4, <1>5, <2>0, ConcatOf
    <3> QED
      BY <3>1, Zenon DEF Joined
  <2> QED
    BY <1>5, <2>1, Zenon
<1> HIDE DEF e
<1>7. ASSUME NEW i \in 1 .. Len(e)
      PROVE  e[i].kind \in {"applied", "promoted"}
  <2>1. CASE i = 1
    BY <1>2, <1>5, <1>6, <2>1
  <2>2. CASE i # 1
    <3>1. i - 1 \in 1 .. Len(z) /\ i = 1 + (i - 1)
      BY <1>6, <2>2
    <3> QED
      BY <1>4, <1>6, <3>1
  <2> QED
    BY <2>1, <2>2
<1>8. Commit(e) /\ Len(e) \in Nat
  BY <1>2, <1>6 DEF e
<1> QED
  BY <1>1, <1>6, <1>7, <1>8 DEF PromotedOK

LEMMA TrapIs ==
    ASSUME ExecuteTraps
    PROVE  \E events : /\ IsSeq(events) /\ Commit(events) /\ Len(events) = 1
                       /\ events[1].kind = "applied"
<1> DEFINE a == Event("applied", [tree |-> Written])
<1>1. a.kind = "applied" /\ Commit(<<a>>)
  BY DEF Event, ExecuteTraps
<1> HIDE DEF a
<1>2. IsSeq(<<a>>) /\ Len(<<a>>) = 1 /\ <<a>>[1] = a
  BY OneIs
<1> QED
  BY <1>1, <1>2, Zenon

\* The events at the end of an episode.
LEMMA CloseIs ==
    ASSUME PromotedOK, Close, ~(candidate /\ ~judge.parses)
    PROVE  \E events : \E m \in 1 .. Len(events) :
              /\ IsSeq(events) /\ Commit(events) /\ Len(events) \in Nat
              /\ events[m].kind = "measured" /\ events[m].data.tree = ws
              /\ events[m].data.gates = report
              /\ \A i \in 1 .. Len(events) : i # m => events[i].kind \in {"approved", "evidence", "budget"}
              /\ \A i \in 1 .. Len(events) :
                    events[i].kind = "evidence" => (events[i].data.eligible <=> Eligible(report))
<1> DEFINE x == IF candidate THEN <<Event("approved", judge)>> ELSE <<>>
           d == Event("measured", [tree |-> ws, gates |-> report])
           z == SetToSeq({Event("evidence", [word |-> w, eligible |-> Eligible(report)]) :
                            w \in promoted})
           b == Event("budget", 1)
<1>1. Commit(x \o <<d>> \o z \o <<b>>)
  BY Zenon DEF Close
<1>2. d.kind = "measured" /\ d.data.tree = ws /\ d.data.gates = report /\ b.kind = "budget"
  BY DEF Event
<1>3. IsSeq(x) /\ \A i \in 1 .. Len(x) : x[i].kind = "approved"
  <2>1. IsSeq(<<>>) /\ Len(<<>>) = 0
    BY DEF IsSeq, ToSet
  <2> DEFINE a == Event("approved", judge)
  <2>2. a.kind = "approved"
    BY DEF Event
  <2> HIDE DEF a
  <2>3. IsSeq(<<a>>) /\ Len(<<a>>) = 1 /\ <<a>>[1] = a
    BY OneIs
  <2>4. CASE candidate
    <3>1. x = <<a>>
      BY <2>4 DEF a
    <3> HIDE DEF x
    <3> QED
      BY <2>2, <2>3, <3>1
  <2>5. CASE ~candidate
    <3>1. x = <<>>
      BY <2>5
    <3> HIDE DEF x
    <3> QED
      BY <2>1, <3>1
  <2> QED
    BY <2>4, <2>5
<1>4. IsSeq(z) /\ \A i \in 1 .. Len(z) : z[i].kind = "evidence"
                                         /\ (z[i].data.eligible <=> Eligible(report))
  <2> DEFINE Said(w) == Event("evidence", [word |-> w, eligible |-> Eligible(report)])
             S == {Said(w) : w \in promoted}
             Good(s) == s.kind = "evidence" /\ (s.data.eligible <=> Eligible(report))
  <2>1. \A w : Good(Said(w))
    <3> SUFFICES ASSUME NEW w
                 PROVE  Good(Said(w))
      OBVIOUS
    <3> DEFINE v == [word |-> w, eligible |-> Eligible(report)]
    <3>1. v.eligible = Eligible(report)
      BY Zenon
    <3> HIDE DEF v
    <3>2. Event("evidence", v).kind = "evidence" /\ Event("evidence", v).data = v
      BY Zenon DEF Event
    <3>3. Said(w) = Event("evidence", v)
      BY Zenon DEF v
    <3> QED
      BY <3>1, <3>2, <3>3, Zenon
  <2>2. \A v, w \in promoted : v = w
    BY DEF PromotedOK
  <2> HIDE DEF Said, Good
  <2>3. (\A r, s \in S : r = s) /\ \A s \in S : Good(s)
    BY <2>1, <2>2, Zenon
  <2> HIDE DEF S
  <2>4. IsSeq(SetToSeq(S)) /\ \A i \in 1 .. Len(SetToSeq(S)) : SetToSeq(S)[i] \in S
    BY <2>3, WordEvents, Zenon
  <2>5. IsSeq(SetToSeq(S)) /\ \A i \in 1 .. Len(SetToSeq(S)) : Good(SetToSeq(S)[i])
    BY <2>3, <2>4, Zenon
  <2>6. z = SetToSeq(S)
    BY Zenon DEF S, Said
  <2> HIDE DEF z
  <2> QED
    BY <2>5, <2>6, Zenon DEF Good
<1> HIDE DEF x, d, z, b
<1> DEFINE e == x \o <<d>> \o z \o <<b>>
           n == Len(x)
<1>0. e = x \o <<d>> \o z \o <<b>>
  OBVIOUS
<1>6. Commit(e)
  BY <1>1
<1> HIDE DEF e
<1>5. /\ IsSeq(e) /\ Len(e) \in Nat /\ n \in Nat /\ n + 1 \in 1 .. Len(e)
      /\ e[n + 1] = d
      /\ \A i \in 1 .. n : e[i] = x[i]
      /\ \A i \in n + 2 .. Len(e) : e[i] = b \/ \E k \in 1 .. Len(z) : e[i] = z[k]
  <2>1. Around(x, d, z, b, e)
    BY <1>0, <1>3, <1>4, AroundIs
  <2> QED
    BY <2>1, Zenon DEF Around
<1> HIDE DEF n
<1>7. ASSUME NEW i \in 1 .. Len(e)
      PROVE  /\ i # n + 1 => e[i].kind \in {"approved", "evidence", "budget"}
             /\ e[i].kind = "evidence" => (e[i].data.eligible <=> Eligible(report))
  <2>1. CASE i \in 1 .. n
    <3>1. e[i] = x[i] /\ x[i].kind = "approved"
      BY <1>3, <1>5, <2>1 DEF n
    <3> QED
      BY <3>1
  <2>2. CASE i = n + 1
    BY <1>2, <1>5, <2>2
  <2>3. CASE i \in n + 2 .. Len(e)
    BY <1>2, <1>4, <1>5, <2>3, Zenon
  <2> QED
    BY <1>5, <2>1, <2>2, <2>3
<1> DEFINE m == n + 1
<1>8. /\ m \in 1 .. Len(e) /\ IsSeq(e) /\ Commit(e) /\ Len(e) \in Nat
      /\ e[m].kind = "measured" /\ e[m].data.tree = ws /\ e[m].data.gates = report
      /\ \A i \in 1 .. Len(e) : i # m => e[i].kind \in {"approved", "evidence", "budget"}
      /\ \A i \in 1 .. Len(e) : e[i].kind = "evidence" => (e[i].data.eligible <=> Eligible(report))
  BY <1>2, <1>5, <1>6, <1>7, Zenon
<1> QED
  BY <1>8, Zenon

-----------------------------------------------------------------------------
\* What the steps do to the kernel and its ledger.

Committed(events) ==
    /\ KernelOK' /\ Len(events) \in Nat /\ Len(Own) \in Nat /\ state.dups \in Nat
    /\ Len(Own') = Len(Own) + Len(events)
    /\ \A i \in 1 .. Len(Own) : Own'[i] = Own[i]
    /\ \A i \in 1 .. Len(events) : /\ Own'[Len(Own) + i].kind = events[i].kind
                                   /\ Own'[Len(Own) + i].data = events[i].data
    /\ state' = Reduced(state, events)
    /\ Follows(state, events, state')

LEMMA CommittedIs ==
    ASSUME KernelOK, NEW events, IsSeq(events), Commit(events)
    PROVE  Committed(events)
<1>1. /\ KernelOK' /\ Len(events) \in Nat /\ state.revision \in Nat
      /\ state' = Reduced(state, events)
      /\ Len(Own') = Len(Own) + Len(events) /\ Len(Own) = state.revision
      /\ \A i \in 1 .. Len(Own) : Own'[i] = Own[i]
      /\ \A i \in 1 .. Len(events) :
            /\ Own'[Len(Own) + i].kind = events[i].kind
            /\ Own'[Len(Own) + i].data = events[i].data
  BY CommitIs, Zenon
<1>2. IsState(state) /\ state.dups \in Nat
  BY DEF KernelOK, IsState
<1>3. Follows(state, events, Reduced(state, events))
  BY <1>1, <1>2, ReducedFields
<1> QED
  BY <1>1, <1>2, <1>3, Zenon DEF Committed

\* A job starts with an empty state, and with its approved contract in the ledger.
Started(own, s) ==
    /\ Len(own) \in {0, 1}
    /\ \A i \in 1 .. Len(own) : own[i].kind = "approved"
    /\ s.seen = {} /\ s.dups = 0 /\ s.gates = NoGates

LEMMA StartIs ==
    ASSUME NEW start, start = <<[kind |-> "approved", data |-> Same, seq |-> 1]>> \/ start = <<>>,
           NEW l, IsSeq(l), NEW c, c = l \o start,
           NEW s, s = [EmptyState EXCEPT !.revision = Len(start)]
    PROVE  IsState(s) /\ Numbered(c, s.revision) /\ Started(LastOf(c, s.revision), s)
<1>1. /\ IsSeq(start) /\ Len(start) \in {0, 1}
      /\ \A i \in 1 .. Len(start) : start[i].kind = "approved" /\ start[i].seq = i
  <2>1. IsSeq(<<>>) /\ Len(<<>>) = 0
    BY DEF IsSeq, ToSet
  <2> DEFINE a == [kind |-> "approved", data |-> Same, seq |-> 1]
  <2>2. a.kind = "approved" /\ a.seq = 1
    OBVIOUS
  <2>3. start = <<a>> \/ start = <<>>
    OBVIOUS
  <2> HIDE DEF a
  <2>4. IsSeq(<<a>>) /\ Len(<<a>>) = 1 /\ <<a>>[1] = a
    BY OneIs
  <2>5. CASE start = <<a>>
    BY <2>2, <2>4, <2>5
  <2>6. CASE start = <<>>
    BY <2>1, <2>6
  <2> QED
    BY <2>3, <2>5, <2>6
<1> DEFINE n == Len(start)
<1>2. /\ s.revision = n /\ s.seen = {} /\ s.dups = 0 /\ s.gates = NoGates /\ IsState(s)
  <2> HIDE DEF n
  <2>1. s = [EmptyState EXCEPT !.revision = n] /\ n \in Nat
    BY <1>1 DEF n
  <2>2. PICK q : EmptyState = St(0, {}, 0, q, NoGates, 0)
    BY Zenon DEF EmptyState, St
  <2>3. s = St(n, {}, 0, q, NoGates, 0)
    BY <2>1, <2>2 DEF St
  <2> QED
    <3>1. s.revision = n /\ s.seen = {} /\ s.dups = 0 /\ s.gates = NoGates /\ s.used = 0
          /\ s.pending = q
      BY <2>3 DEF St
    <3>2. s = St(s.revision, s.seen, s.dups, s.pending, s.gates, s.used)
      BY <2>3, <3>1, Zenon
    <3> QED
      BY <2>1, <3>1, <3>2 DEF IsState
<1> HIDE DEF n
<1>3. Numbered(l, 0)
  <2>1. Len(l) \in Nat
    BY LenProperties DEF IsSeq
  <2> QED
    BY <2>1 DEF Numbered
<1>4. \A i \in 1 .. Len(start) : start[i].seq = 0 + i
  BY <1>1
<1>5. LET d == l \o start
          v == 0 + Len(start)
      IN  Numbered(d, v) /\ \A i \in 1 .. Len(start) : LastOf(d, v)[0 + i] = start[i]
  BY <1>1, <1>3, <1>4, AppendIs
<1>6. Numbered(c, 0 + n) /\ \A i \in 1 .. n : LastOf(c, 0 + n)[0 + i] = start[i]
  BY <1>5, Zenon DEF n
<1>7. Numbered(c, n) /\ \A i \in 1 .. n : LastOf(c, n)[i] = start[i]
  <2>1. 0 + n = n /\ \A i \in 1 .. n : 0 + i = i
    BY <1>1 DEF n
  <2> QED
    BY <1>6, <2>1, Zenon
<1>8. Len(LastOf(c, n)) = n
  BY <1>7, OwnIs
<1>9. \A i \in 1 .. n : LastOf(c, n)[i].kind = "approved"
  BY <1>1, <1>7 DEF n
<1>10. n \in {0, 1}
  BY <1>1, Zenon DEF n
<1>11. Started(LastOf(c, n), s)
  BY <1>2, <1>8, <1>9, <1>10, Zenon DEF Started
<1> QED
  BY <1>2, <1>7, <1>11, Zenon

LEMMA InitIs ==
    ASSUME Init
    PROVE  KernelOK /\ Started(Own, state)
<1> DEFINE start == IF mode.judge = "approved"
                    THEN <<[kind |-> "approved", data |-> Same, seq |-> 1]>> ELSE <<>>
           e == <<>>
<1>1. /\ ledger = start /\ state = [EmptyState EXCEPT !.revision = Len(start)]
      /\ start = <<[kind |-> "approved", data |-> Same, seq |-> 1]>> \/ start = <<>>
  BY DEF Init
<1>2. IsSeq(e) /\ start = e \o start
  <2> DEFINE a == [kind |-> "approved", data |-> Same, seq |-> 1]
  <2>1. start = <<a>> \/ start = <<>>
    OBVIOUS
  <2> HIDE DEF start, a
  <2>2. start \in Seq({a})
    <3>1. <<a>> \in Seq({a}) /\ <<>> \in Seq({a})
      OBVIOUS
    <3> QED
      BY <2>1, <3>1, Zenon
  <2>3. <<>> \o start = start
    BY <2>2, ConcatEmptySeq
  <2> QED
    BY <2>3 DEF IsSeq, ToSet
<1> HIDE DEF start, e
<1>3. ledger = e \o start
  BY <1>1, <1>2, Zenon
<1>4. /\ IsState(state) /\ Numbered(ledger, state.revision)
      /\ Started(LastOf(ledger, state.revision), state)
  BY <1>1, <1>2, <1>3, StartIs
<1>5. Own = LastOf(ledger, state.revision)
  BY Zenon DEF Own, LastOf
<1> QED
  BY <1>4, <1>5, Zenon DEF KernelOK

LEMMA AgainIs ==
    ASSUME KernelOK, Again
    PROVE  KernelOK' /\ Started(Own', state')
<1> DEFINE start == IF mode.judge = "approved"
                    THEN <<[kind |-> "approved", data |-> Same, seq |-> 1]>> ELSE <<>>
<1>1. /\ ledger' = ledger \o start /\ state' = [EmptyState EXCEPT !.revision = Len(start)]
      /\ start = <<[kind |-> "approved", data |-> Same, seq |-> 1]>> \/ start = <<>>
  BY DEF Again
<1> HIDE DEF start
<1> DEFINE l == ledger'
           s == state'
<1>2. IsSeq(ledger) /\ l = ledger \o start /\ s = [EmptyState EXCEPT !.revision = Len(start)]
  BY <1>1 DEF KernelOK, Numbered
<1> HIDE DEF l, s
<1>3. IsState(s) /\ Numbered(l, s.revision) /\ Started(LastOf(l, s.revision), s)
  BY <1>1, <1>2, StartIs
<1>4. Own' = LastOf(l, s.revision)
  BY Zenon DEF Own, LastOf, l, s
<1> QED
  BY <1>3, <1>4, Zenon DEF KernelOK, l, s

LEMMA KInit == Init => KInv
BY InitIs DEF Init, KInv, PromotedOK

LEMMA KNext == KInv /\ [Next]_vars => KInv'
<1> SUFFICES ASSUME KInv, [Next]_vars
             PROVE  KInv'
  OBVIOUS
<1> USE DEF disk, turn, past, kernel
<1>0. KernelOK /\ PromotedOK
  BY DEF KInv
<1>1. ASSUME UNCHANGED <<kernel, promoted>>
      PROVE  KInv'
  BY <1>0, <1>1 DEF KInv, KernelOK, PromotedOK
<1>2. CASE Conclude \/ PlannerFails \/ ContractUnreadable \/ Cancel \/ Kill \/ Swap \/ Measure
           \/ UNCHANGED vars
  BY <1>1, <1>2 DEF Conclude, PlannerFails, ContractUnreadable, Cancel, Kill, Swap, Measure, vars
<1>3. ASSUME NEW p \in Plans, Propose(p)
      PROVE  KInv'
  <2>1. PICK events : IsSeq(events) /\ Commit(events)
    BY <1>3, ProposeIs, Zenon
  <2>2. KernelOK'
    BY <1>0, <2>1, CommitIs, Zenon
  <2> QED
    BY <1>3, <2>2 DEF Propose, KInv, PromotedOK
<1>4. CASE Criticise
  <2>1. PICK events : IsSeq(events) /\ Commit(events)
    <3>1. \/ Commit(<<Event("accepted", plan)>>)
          \/ Commit(<<Event("rejected", plan), Event("budget", 1)>>)
      BY <1>4 DEF Criticise
    <3> QED
      BY <3>1, AcceptIs, RejectIs, Zenon
  <2>2. KernelOK'
    BY <1>0, <2>1, CommitIs, Zenon
  <2> QED
    BY <1>0, <1>4, <2>2 DEF Criticise, KInv, PromotedOK
<1>5. CASE ExecuteClean
  <2>1. PromotedOK' /\ \E events : IsSeq(events) /\ Commit(events)
    BY <1>5, CleanIs, Zenon
  <2> QED
    BY <1>0, <2>1, CommitIs, Zenon DEF KInv
<1>6. CASE ExecuteTraps
  <2>1. \E events : IsSeq(events) /\ Commit(events)
    BY <1>6, TrapIs, Zenon
  <2>2. KernelOK'
    BY <1>0, <2>1, CommitIs, Zenon
  <2> QED
    BY <1>0, <1>6, <2>2 DEF ExecuteTraps, KInv, PromotedOK
<1>7. CASE ExecuteNodeTraps
  <2>1. \E events : IsSeq(events) /\ Commit(events)
    BY <1>7, RejectIs, Zenon DEF ExecuteNodeTraps
  <2>2. KernelOK'
    BY <1>0, <2>1, CommitIs, Zenon
  <2> QED
    BY <1>0, <1>7, <2>2 DEF ExecuteNodeTraps, KInv, PromotedOK
<1>8. CASE Close
  <2>1. CASE candidate /\ ~judge.parses
    BY <1>1, <1>8, <2>1 DEF Close
  <2>2. CASE ~(candidate /\ ~judge.parses)
    <3>1. \E events : IsSeq(events) /\ Commit(events)
      BY <1>0, <1>8, <2>2, CloseIs, Zenon
    <3>2. KernelOK'
      BY <1>0, <3>1, CommitIs, Zenon
    <3> QED
      BY <1>0, <1>8, <3>2 DEF Close, KInv, PromotedOK
  <2> QED
    BY <2>1, <2>2
<1>9. CASE Again
  <2>1. KernelOK'
    BY <1>0, <1>9, AgainIs, Zenon
  <2>2. promoted' = {}
    BY <1>9 DEF Again
  <2> QED
    BY <2>1, <2>2 DEF KInv, PromotedOK
<1> QED
  BY <1>2, <1>3, <1>4, <1>5, <1>6, <1>7, <1>8, <1>9 DEF Next, Step

\* This job's entries are the last of the ledger and are numbered from 1, whoever wrote the
\* entries before them.
THEOREM KernelInvariant == Spec => []KInv
BY KInit, KNext, PTL DEF Spec

-----------------------------------------------------------------------------
\* The ledger and the tree.

\* The last entry with a tree has the tree of the last measurement.
TreeOK ==
    judged # NoFile /\ pc \in {"head", "critic", "execute"} =>
        \E m \in 1 .. Len(Own) :
            /\ Own[m].kind \in {"applied", "measured"} /\ Own[m].data.tree = tree
            /\ \A j \in m + 1 .. Len(Own) : Own[j].kind \notin {"applied", "measured"}

\* What is known of the plans, and of the workspace they were made for.
SeenOK ==
    ~NodeTrapped =>
        /\ state.seen \subseteq tried
        /\ pc \in {"head", "critic", "execute"} => tree = ws

DupsOK ==
    /\ pc \notin {"head", "done"} => state.dups = 0
    /\ pc = "execute" => Len(Own) >= 1 /\ Own[Len(Own)].kind = "accepted"
    /\ pc = "head" /\ state.dups >= 1 => Len(Own) >= 3 /\ Own[Len(Own) - 1].kind = "blocked"
    /\ pc = "head" /\ state.dups >= 2 => Len(Own) >= 6 /\ Own[Len(Own) - 4].kind = "blocked"

LInv == TreeOK /\ SeenOK /\ DupsOK

\* A plan that was seen before is blocked; one that was not becomes the last that was seen.
LEMMA DupIs ==
    ASSUME NEW s, IsState(s), NEW events, Len(events) = 3, events[1].kind = "planned",
           events[1].data \in s.seen, events[2].kind = "blocked", events[3].kind = "budget"
    PROVE  Reduced(s, events).dups = s.dups + 1 /\ Reduced(s, events).seen = s.seen
<1> DEFINE f == AfterEach(s, events)
           r == Reduced(s, events)
<1>0. Len(events) \in Nat
  OBVIOUS
<1>1. r = f[Len(events)] /\ f[0] = s /\ \A k \in 1 .. Len(events) : f[k] = Reduce(f[k - 1], events[k])
  <2>1. Between(s, events, AfterEach(s, events), Reduced(s, events))
    BY <1>0, ReducedIs
  <2> QED
    BY <2>1, Zenon DEF Between
<1> HIDE DEF f, r
<1>2. r = f[3] /\ f[1] = Reduce(s, events[1]) /\ f[2] = Reduce(f[1], events[2])
      /\ f[3] = Reduce(f[2], events[3])
  BY <1>1
<1>3. IsState(f[1]) /\ f[1].seen = s.seen /\ f[1].dups = s.dups
  <2>1. IsState(Reduce(s, events[1])) /\ Reduce(s, events[1]).seen = s.seen \cup {events[1].data}
        /\ Reduce(s, events[1]).dups = s.dups
    BY ReduceIs
  <2>2. s.seen \cup {events[1].data} = s.seen
    OBVIOUS
  <2> QED
    BY <1>2, <2>1, <2>2, Zenon
<1>4. IsState(f[2]) /\ f[2].seen = s.seen /\ f[2].dups = s.dups + 1
  <2>1. /\ IsState(Reduce(f[1], events[2])) /\ Reduce(f[1], events[2]).seen = f[1].seen
        /\ Reduce(f[1], events[2]).dups = f[1].dups + 1
    BY <1>3, ReduceIs
  <2> QED
    BY <1>2, <1>3, <2>1, Zenon
<1>5. f[3].seen = s.seen /\ f[3].dups = s.dups + 1
  <2>1. /\ Reduce(f[2], events[3]).seen = f[2].seen
        /\ Reduce(f[2], events[3]).dups = f[2].dups
    BY <1>4, ReduceIs
  <2> QED
    BY <1>2, <1>4, <2>1, Zenon
<1> QED
  BY <1>2, <1>5, Zenon DEF r

LEMMA NewIs ==
    ASSUME NEW s, IsState(s), NEW events, Len(events) = 1, events[1].kind = "planned",
           events[1].data \notin s.seen
    PROVE  Reduced(s, events).dups = 0 /\ Reduced(s, events).seen = s.seen \cup {events[1].data}
<1> DEFINE f == AfterEach(s, events)
           r == Reduced(s, events)
<1>0. Len(events) \in Nat
  OBVIOUS
<1>1. r = f[Len(events)] /\ f[0] = s /\ \A k \in 1 .. Len(events) : f[k] = Reduce(f[k - 1], events[k])
  <2>1. Between(s, events, AfterEach(s, events), Reduced(s, events))
    BY <1>0, ReducedIs
  <2> QED
    BY <2>1, Zenon DEF Between
<1> HIDE DEF f, r
<1>2. r = Reduce(s, events[1])
  BY <1>1
<1>3. Reduce(s, events[1]).seen = s.seen \cup {events[1].data} /\ Reduce(s, events[1]).dups = 0
  BY ReduceIs
<1> QED
  BY <1>2, <1>3, Zenon DEF r

\* An entry of this job is an old one or a new one.
LEMMA OwnSplit ==
    ASSUME NEW events, Committed(events), NEW j \in 1 .. Len(Own')
    PROVE  \/ j \in 1 .. Len(Own) /\ Own'[j] = Own[j]
           \/ \E i \in 1 .. Len(events) : /\ j = Len(Own) + i /\ Own'[j].kind = events[i].kind
                                          /\ Own'[j].data = events[i].data
<1> DEFINE n == Len(Own)
           l == Len(events)
           o == Own'
<1>1. /\ n \in Nat /\ l \in Nat /\ Len(o) = n + l /\ j \in 1 .. Len(o)
      /\ \A i \in 1 .. n : o[i] = Own[i]
      /\ \A i \in 1 .. l : o[n + i].kind = events[i].kind /\ o[n + i].data = events[i].data
  BY Zenon DEF Committed
<1> HIDE DEF n, l, o
<1>2. CASE j <= n
  <2>1. j \in 1 .. n
    BY <1>1, <1>2
  <2> QED
    BY <1>1, <2>1, Zenon DEF n, o
<1>3. CASE ~(j <= n)
  <2>1. j - n \in 1 .. l /\ j = n + (j - n)
    BY <1>1, <1>3
  <2> QED
    BY <1>1, <2>1, Zenon DEF n, l, o
<1> QED
  BY <1>2, <1>3

\* An entry that was not the job's before the step is one of the events of the step.
LEMMA NewEntry ==
    ASSUME NEW events, Committed(events), NEW j \in 1 .. Len(Own'), j \notin 1 .. Len(Own)
    PROVE  \E i \in 1 .. Len(events) : /\ j = Len(Own) + i /\ Own'[j].kind = events[i].kind
                                      /\ Own'[j].data = events[i].data
<1>1. \/ j \in 1 .. Len(Own) /\ Own'[j] = Own[j]
      \/ \E i \in 1 .. Len(events) : /\ j = Len(Own) + i /\ Own'[j].kind = events[i].kind
                                     /\ Own'[j].data = events[i].data
  BY OwnSplit, Zenon
<1> QED
  BY <1>1, Zenon

LEMMA KeepTree ==
    ASSUME TreeOK, NEW events, Committed(events), pc \in {"head", "critic", "execute"},
           \A i \in 1 .. Len(events) : events[i].kind \notin {"applied", "measured"},
           UNCHANGED <<tree, judged>>
    PROVE  TreeOK'
<1> SUFFICES ASSUME judged # NoFile
             PROVE  \E m \in 1 .. Len(Own') :
                       /\ Own'[m].kind \in {"applied", "measured"} /\ Own'[m].data.tree = tree
                       /\ \A j \in m + 1 .. Len(Own') : Own'[j].kind \notin {"applied", "measured"}
  BY DEF TreeOK
<1>1. PICK m \in 1 .. Len(Own) :
         /\ Own[m].kind \in {"applied", "measured"} /\ Own[m].data.tree = tree
         /\ \A j \in m + 1 .. Len(Own) : Own[j].kind \notin {"applied", "measured"}
  BY DEF TreeOK
<1>2. Len(Own) \in Nat /\ Len(events) \in Nat /\ Len(Own') = Len(Own) + Len(events)
      /\ Own'[m] = Own[m]
  BY Zenon DEF Committed
<1>3. m \in 1 .. Len(Own')
  BY <1>2
<1>4. ASSUME NEW j \in m + 1 .. Len(Own')
      PROVE  Own'[j].kind \notin {"applied", "measured"}
  <2>1. j \in 1 .. Len(Own')
    BY <1>2
  <2>2. CASE j \in 1 .. Len(Own) /\ Own'[j] = Own[j]
    <3>1. j \in m + 1 .. Len(Own)
      BY <1>2, <2>2
    <3> QED
      BY <1>1, <2>2, <3>1, Zenon
  <2>3. CASE \E i \in 1 .. Len(events) : Own'[j].kind = events[i].kind
    BY <2>3, Zenon
  <2> QED
    BY <2>1, <2>2, <2>3, OwnSplit, Zenon
<1> QED
  BY <1>1, <1>2, <1>3, <1>4, Zenon

LEMMA StillTrapped ==
    ASSUME NEW events, Committed(events), NodeTrapped
    PROVE  NodeTrapped'
<1>1. PICK i \in 1 .. Len(Own) - 1 : Own[i].kind = "accepted" /\ Own[i + 1].kind = "rejected"
  BY DEF NodeTrapped
<1>2. /\ Len(Own) \in Nat /\ Len(events) \in Nat /\ Len(Own') = Len(Own) + Len(events)
      /\ \A k \in 1 .. Len(Own) : Own'[k] = Own[k]
  BY Zenon DEF Committed
<1>3. i \in 1 .. Len(Own) /\ i + 1 \in 1 .. Len(Own) /\ i \in 1 .. Len(Own') - 1
  BY <1>2
<1> QED
  BY <1>1, <1>2, <1>3, Zenon DEF NodeTrapped

LEMMA LInit == Init => LInv
<1> SUFFICES ASSUME Init
             PROVE  LInv
  OBVIOUS
<1>1. state.seen = {} /\ state.dups = 0
  BY InitIs, Zenon DEF Started
<1>2. judged = NoFile /\ pc = "head" /\ tree = ws
  BY DEF Init
<1> QED
  BY <1>1, <1>2 DEF LInv, TreeOK, SeenOK, DupsOK

LEMMA LNext == KInv /\ LInv /\ [Next]_vars => LInv'
<1> SUFFICES ASSUME KInv, LInv, [Next]_vars
             PROVE  LInv'
  OBVIOUS
<1> USE DEF disk, turn, past, kernel
<1>0. KernelOK /\ PromotedOK /\ TreeOK /\ SeenOK /\ DupsOK /\ IsState(state)
  BY DEF KInv, LInv, KernelOK
<1>1. ASSUME UNCHANGED <<kernel, tried>>, pc' \notin {"head", "critic", "execute"},
             pc \notin {"head", "done"} \/ pc' = "done"
      PROVE  LInv'
  <2>1. TreeOK'
    BY <1>1 DEF TreeOK
  <2>2. SeenOK'
    BY <1>0, <1>1 DEF SeenOK, NodeTrapped, Own
  <2>3. DupsOK'
    BY <1>0, <1>1 DEF DupsOK
  <2> QED
    BY <2>1, <2>2, <2>3 DEF LInv
<1>2. CASE Conclude \/ PlannerFails \/ ContractUnreadable \/ Cancel \/ Kill
  BY <1>1, <1>2 DEF Conclude, PlannerFails, ContractUnreadable, Cancel, Kill, End
<1>3. CASE Swap \/ Measure
  BY <1>1, <1>3 DEF Swap, Measure
<1>4. ASSUME NEW p \in Plans, Propose(p)
      PROVE  LInv'
  <2>1. PICK events :
              /\ IsSeq(events) /\ Commit(events)
              /\ DedupeKey(p) \in state.seen =>
                    /\ Len(events) = 3 /\ events[1].kind = "planned" /\ events[2].kind = "blocked"
                    /\ events[3].kind = "budget" /\ events[1].data = DedupeKey(p) /\ pc' = "head"
              /\ DedupeKey(p) \notin state.seen =>
                    /\ Len(events) = 1 /\ events[1].kind = "planned"
                    /\ events[1].data = DedupeKey(p) /\ pc' = "critic"
    BY <1>4, ProposeIs, Zenon
  <2>2. Committed(events)
    BY <1>0, <2>1, CommittedIs, Zenon
  <2>3. /\ pc = "head" /\ UNCHANGED <<tree, judged, ws>> /\ tried' = tried \cup {<<p, ws>>}
    BY <1>4 DEF Propose
  <2>4. TreeOK'
    <3>1. \A i \in 1 .. Len(events) : events[i].kind \notin {"applied", "measured"}
      BY <2>1
    <3> QED
      BY <1>0, <2>2, <2>3, <3>1, KeepTree
  <2>5. /\ state' = Reduced(state, events) /\ Len(Own) \in Nat
        /\ Len(Own') = Len(Own) + Len(events) /\ state.dups \in Nat
        /\ \A i \in 1 .. Len(Own) : Own'[i] = Own[i]
        /\ \A i \in 1 .. Len(events) : Own'[Len(Own) + i].kind = events[i].kind
    BY <2>2, Zenon DEF Committed
  <2>6. ~NodeTrapped' => state.seen \subseteq tried /\ tree = ws
    BY <1>0, <2>2, <2>3, StillTrapped DEF SeenOK
  <2>7. CASE DedupeKey(p) \in state.seen
    <3>1. state'.dups = state.dups + 1 /\ state'.seen = state.seen
      BY <1>0, <2>1, <2>5, <2>7, DupIs
    <3>2. SeenOK'
      BY <2>3, <2>6, <3>1 DEF SeenOK
    <3>3. Len(Own') = Len(Own) + 3 /\ Own'[Len(Own) + 2].kind = "blocked" /\ pc' = "head"
      <4>1. Len(events) = 3 /\ 2 \in 1 .. Len(events) /\ events[2].kind = "blocked" /\ pc' = "head"
        BY <2>1, <2>7
      <4> QED
        BY <2>5, <4>1, Zenon
    <3>4. ASSUME state.dups >= 1
          PROVE  Len(Own) >= 3 /\ Own'[Len(Own) - 1].kind = "blocked"
      <4>1. Len(Own) >= 3 /\ Own[Len(Own) - 1].kind = "blocked"
        BY <1>0, <2>3, <3>4 DEF DupsOK
      <4>2. Len(Own) - 1 \in 1 .. Len(Own)
        BY <2>5, <4>1
      <4> QED
        BY <2>5, <4>1, <4>2, Zenon
    <3> DEFINE o == Own'
               n == Len(Own)
               d == state.dups
    <3>5. /\ Len(o) = n + 3 /\ o[n + 2].kind = "blocked" /\ n \in Nat /\ d \in Nat
          /\ d >= 1 => n >= 3 /\ o[n - 1].kind = "blocked"
      BY <2>5, <3>3, <3>4
    <3> HIDE DEF o, n, d
    <3>6. /\ Len(o) >= 3 /\ o[Len(o) - 1].kind = "blocked"
          /\ d + 1 >= 2 => Len(o) >= 6 /\ o[Len(o) - 4].kind = "blocked"
      BY <3>5
    <3>7. DupsOK'
      BY <3>1, <3>3, <3>6 DEF DupsOK, o, d
    <3> QED
      BY <2>4, <3>2, <3>7 DEF LInv
  <2>8. CASE DedupeKey(p) \notin state.seen
    <3>1. state'.dups = 0 /\ state'.seen = state.seen \cup {DedupeKey(p)} /\ pc' = "critic"
      BY <1>0, <2>1, <2>5, <2>8, NewIs
    <3>2. SeenOK'
      BY <2>3, <2>6, <3>1 DEF SeenOK, DedupeKey
    <3>3. DupsOK'
      BY <3>1 DEF DupsOK
    <3> QED
      BY <2>4, <3>2, <3>3 DEF LInv
  <2> QED
    BY <2>7, <2>8
\* A commit that proposes nothing.
<1>5. ASSUME NEW events, Committed(events),
             \A i \in 1 .. Len(events) : events[i].kind \notin {"planned", "blocked"},
             pc \notin {"head", "done"}, tried' = tried
      PROVE  /\ state'.dups = 0 /\ state'.seen = state.seen
             /\ ~NodeTrapped' => state'.seen \subseteq tried'
                                 /\ (pc \in {"critic", "execute"} => tree = ws)
  <2>1. state'.dups = state.dups /\ state'.seen = state.seen
    BY <1>5, Zenon DEF Committed, Follows
  <2>2. state.dups = 0
    BY <1>0, <1>5 DEF DupsOK
  <2>3. ~NodeTrapped' => ~NodeTrapped
    BY <1>5, StillTrapped
  <2> QED
    BY <1>0, <1>5, <2>1, <2>2, <2>3 DEF SeenOK
<1>6. CASE Criticise /\ Admitted(plan)
  <2>1. PICK events : /\ IsSeq(events) /\ Commit(events) /\ Len(events) = 1
                      /\ events[1].kind = "accepted"
    BY <1>6, AcceptIs, Zenon DEF Criticise
  <2>2. Committed(events)
    BY <1>0, <2>1, CommittedIs, Zenon
  <2>3. pc = "critic" /\ pc' = "execute" /\ UNCHANGED <<tree, judged, ws, tried>>
    BY <1>6 DEF Criticise
  <2>4. \A i \in 1 .. Len(events) : events[i].kind = "accepted"
    BY <2>1
  <2>5. TreeOK'
    BY <1>0, <2>2, <2>3, <2>4, KeepTree
  <2>6. /\ state'.dups = 0
        /\ ~NodeTrapped' => state'.seen \subseteq tried' /\ tree = ws
    BY <1>5, <2>2, <2>3, <2>4
  <2>7. Len(Own') >= 1 /\ Own'[Len(Own')].kind = "accepted"
    BY <2>1, <2>2 DEF Committed
  <2> QED
    BY <2>3, <2>5, <2>6, <2>7 DEF LInv, SeenOK, DupsOK
<1>7. CASE (Criticise /\ ~Admitted(plan)) \/ ExecuteNodeTraps
  <2>1. PICK events : /\ IsSeq(events) /\ Commit(events) /\ Len(events) = 2
                      /\ events[1].kind = "rejected" /\ events[2].kind = "budget"
    BY <1>7, RejectIs, Zenon DEF Criticise, ExecuteNodeTraps
  <2>2. Committed(events)
    BY <1>0, <2>1, CommittedIs, Zenon
  <2>3. pc \in {"critic", "execute"} /\ pc' = "head" /\ UNCHANGED <<tree, judged, tried>>
    BY <1>7 DEF Criticise, ExecuteNodeTraps
  <2>4. \A i \in 1 .. Len(events) : events[i].kind \in {"rejected", "budget"}
    BY <2>1
  <2>5. TreeOK'
    BY <1>0, <2>2, <2>3, <2>4, KeepTree
  <2>6. /\ state'.dups = 0
        /\ ~NodeTrapped' => state'.seen \subseteq tried' /\ tree = ws
    BY <1>5, <2>2, <2>3, <2>4
  <2>7. ~NodeTrapped' => ws' = ws
    <3>1. CASE Criticise
      BY <3>1 DEF Criticise
    <3>2. CASE ExecuteNodeTraps
      <4>1. Len(Own) >= 1 /\ Own[Len(Own)].kind = "accepted"
        BY <1>0, <3>2 DEF DupsOK, ExecuteNodeTraps
      <4>2. /\ Len(Own) \in Nat /\ Len(Own') = Len(Own) + 2
            /\ \A i \in 1 .. Len(Own) : Own'[i] = Own[i]
            /\ \A i \in 1 .. 2 : Own'[Len(Own) + i].kind = events[i].kind
        BY <2>1, <2>2, Zenon DEF Committed
      <4>3. Len(Own) \in 1 .. Len(Own') - 1 /\ Len(Own) \in 1 .. Len(Own)
        BY <4>1, <4>2
      <4>4. Own'[Len(Own)].kind = "accepted" /\ Own'[Len(Own) + 1].kind = "rejected"
        BY <2>1, <4>1, <4>2, <4>3
      <4> QED
        BY <4>3, <4>4, Zenon DEF NodeTrapped
    <3> QED
      BY <1>7, <3>1, <3>2
  <2> QED
    BY <2>3, <2>5, <2>6, <2>7 DEF LInv, SeenOK, DupsOK
<1>8. CASE ExecuteClean \/ ExecuteTraps
  <2>1. PICK events : /\ IsSeq(events) /\ Commit(events)
                      /\ \A i \in 1 .. Len(events) : events[i].kind \in {"applied", "promoted"}
    <3>1. CASE ExecuteClean
      BY <3>1, CleanIs, Zenon
    <3>2. CASE ExecuteTraps
      <4>1. PICK events : IsSeq(events) /\ Commit(events) /\ Len(events) = 1 /\ events[1].kind = "applied"
        BY <3>2, TrapIs, Zenon
      <4>2. \A i \in 1 .. Len(events) : events[i].kind \in {"applied", "promoted"}
        BY <4>1
      <4> QED
        BY <4>1, <4>2, Zenon
    <3> QED
      BY <1>8, <3>1, <3>2
  <2>2. Committed(events)
    BY <1>0, <2>1, CommittedIs, Zenon
  <2>3. pc = "execute" /\ pc' = "measure" /\ tried' = tried
    BY <1>8 DEF ExecuteClean, ExecuteTraps
  <2>4. state'.dups = 0 /\ (~NodeTrapped' => state'.seen \subseteq tried')
    BY <1>5, <2>1, <2>2, <2>3
  <2> QED
    BY <2>3, <2>4 DEF LInv, TreeOK, SeenOK, DupsOK
<1>9. CASE Close
  <2>1. CASE candidate /\ ~judge.parses
    BY <1>1, <1>9, <2>1 DEF Close, End
  <2>2. CASE ~(candidate /\ ~judge.parses)
    <3>1. PICK events : \E m \in 1 .. Len(events) :
              /\ IsSeq(events) /\ Commit(events) /\ Len(events) \in Nat
              /\ events[m].kind = "measured" /\ events[m].data.tree = ws
              /\ \A i \in 1 .. Len(events) : i # m => events[i].kind \in {"approved", "evidence", "budget"}
      BY <1>0, <1>9, <2>2, CloseIs, Zenon
    <3>2. PICK m \in 1 .. Len(events) :
              /\ IsSeq(events) /\ Commit(events) /\ Len(events) \in Nat
              /\ events[m].kind = "measured" /\ events[m].data.tree = ws
              /\ \A i \in 1 .. Len(events) : i # m => events[i].kind \in {"approved", "evidence", "budget"}
      BY <3>1
    <3>3. Committed(events)
      BY <1>0, <3>2, CommittedIs, Zenon
    <3>4. pc = "close" /\ pc' = "head" /\ tree' = ws /\ ws' = ws /\ tried' = tried
      BY <1>9, <2>2 DEF Close
    <3>5. \A i \in 1 .. Len(events) : events[i].kind \notin {"planned", "blocked"}
      BY <3>2
    <3>6. state'.dups = 0 /\ (~NodeTrapped' => state'.seen \subseteq tried')
      BY <1>5, <3>3, <3>4, <3>5
    <3>7. /\ Len(Own) \in Nat /\ Len(Own') = Len(Own) + Len(events)
          /\ Own'[Len(Own) + m].kind = events[m].kind /\ Own'[Len(Own) + m].data = events[m].data
      BY <3>3, Zenon DEF Committed
    <3>8. Len(Own) + m \in 1 .. Len(Own')
      BY <3>2, <3>7
    <3>9. ASSUME NEW j \in Len(Own) + m + 1 .. Len(Own')
          PROVE  Own'[j].kind \notin {"applied", "measured"}
      <4>1. j \in 1 .. Len(Own') /\ j \notin 1 .. Len(Own)
        BY <3>2, <3>7
      <4>0. \E i \in 1 .. Len(events) : /\ j = Len(Own) + i /\ Own'[j].kind = events[i].kind
                                        /\ Own'[j].data = events[i].data
        BY <3>3, <4>1, NewEntry, Zenon
      <4>2. PICK i \in 1 .. Len(events) : j = Len(Own) + i /\ Own'[j].kind = events[i].kind
        BY <4>0, Zenon
      <4>3. i # m
        BY <3>2, <3>7, <4>2
      <4> QED
        BY <3>2, <4>2, <4>3
    <3>10. TreeOK'
      <4> DEFINE k == Len(Own) + m
                 o == Own'
      <4>1. /\ k \in 1 .. Len(o) /\ o[k].kind \in {"applied", "measured"} /\ o[k].data.tree = ws
            /\ \A j \in k + 1 .. Len(o) : o[j].kind \notin {"applied", "measured"}
        BY <3>2, <3>7, <3>8, <3>9
      <4> HIDE DEF k, o
      <4>2. \E i \in 1 .. Len(o) :
               /\ o[i].kind \in {"applied", "measured"} /\ o[i].data.tree = tree'
               /\ \A j \in i + 1 .. Len(o) : o[j].kind \notin {"applied", "measured"}
        BY <3>4, <4>1, Zenon
      <4> QED
        BY <4>2, Zenon DEF TreeOK, o
    <3> QED
      BY <3>4, <3>6, <3>10 DEF LInv, SeenOK, DupsOK
  <2> QED
    BY <2>1, <2>2
<1>10. CASE Again
  <2>1. state'.seen = {} /\ state'.dups = 0
    BY <1>0, <1>10, AgainIs, Zenon DEF Started
  <2>2. judged' = NoFile /\ pc' = "head" /\ tree' = ws /\ ws' = ws
    BY <1>10 DEF Again
  <2> QED
    BY <2>1, <2>2 DEF LInv, TreeOK, SeenOK, DupsOK
<1>11. CASE UNCHANGED vars
  <2>1. Own' = Own
    BY <1>11 DEF vars, Own
  <2> QED
    BY <1>0, <1>11, <2>1 DEF vars, LInv, TreeOK, SeenOK, DupsOK, NodeTrapped
<1> QED
  BY <1>2, <1>3, <1>4, <1>6, <1>7, <1>8, <1>9, <1>10, <1>11 DEF Next, Step

\* What the ledger says of the tree, the plans that were tried and the repetitions
\* (commit, as_of, and the dedupe of plans in run_job).
THEOREM LedgerInvariant == Spec => [](KInv /\ LInv)
BY KInit, KNext, LInit, LNext, PTL DEF Spec

\* The ledger replays if one job wrote it, and if not, only until the job that writes now
\* commits; and between two episodes it says what tree was measured last (LedgerIsOneJobs).
THEOREM LedgerAlways == Spec => []LedgerIsOneJobs
<1>1. KInv /\ LInv => LedgerIsOneJobs
  <2> SUFFICES ASSUME KInv, LInv
               PROVE  LedgerIsOneJobs
    OBVIOUS
  <2> DEFINE r == state.revision
             l == ledger
  <2>1. Numbered(l, r) /\ TreeOK
    BY DEF KInv, KernelOK, LInv
  <2>2. /\ Len(l) \in Nat /\ r \in Nat /\ r <= Len(l) /\ DOMAIN l = 1 .. Len(l)
        /\ \A i \in 1 .. r : l[Len(l) - r + i].seq = i
    BY <2>1, OwnIs DEF Numbered
  <2>3. Len(Own) = r /\ \A i \in 1 .. r : Own[i] = l[Len(l) - r + i]
    <3>1. Own = LastOf(l, r)
      BY Zenon DEF Own, LastOf
    <3> QED
      BY <2>1, <3>1, OwnIs
  <2> HIDE DEF r, l
  <2>4. ASSUME Len(l) = r
        PROVE  Replays(l)
    <3>1. \A i \in 1 .. r : Len(l) - r + i = i
      BY <2>2, <2>4
    <3>2. \A i \in 1 .. r : l[i].seq = i
      BY <2>2, <3>1, Zenon
    <3> QED
      BY <2>2, <2>4, <3>2, Zenon DEF Replays
  <2>5. ASSUME Replays(l)
        PROVE  r \in {0, Len(l)}
    <3>1. CASE r # 0
      <4>1. Len(l) - r + r = Len(l) /\ r \in 1 .. r /\ Len(l) \in 1 .. Len(l)
        BY <2>2, <3>1
      <4>2. l[Len(l)].seq = r
        BY <2>2, <4>1
      <4>3. l[Len(l)].seq = Len(l)
        BY <2>2, <2>5, <4>1 DEF Replays
      <4> QED
        BY <4>2, <4>3
    <3> QED
      BY <3>1
  <2>6. ASSUME Len(l) = r, pc = "head", judged # NoFile
        PROVE  AsOf(l, r) = tree
    <3>1. PICK m \in 1 .. Len(Own) :
              /\ Own[m].kind \in {"applied", "measured"} /\ Own[m].data.tree = tree
              /\ \A j \in m + 1 .. Len(Own) : Own[j].kind \notin {"applied", "measured"}
      BY <2>1, <2>6 DEF TreeOK
    <3>2. \A i \in 1 .. r : Own[i] = l[i] /\ l[i].seq = i
      BY <2>2, <2>3, <2>6
    <3> DEFINE seen == {i \in DOMAIN l : l[i].seq <= r /\ l[i].kind \in {"applied", "measured"}}
    <3>3. m \in seen /\ l[m].data.tree = tree
      BY <2>2, <2>3, <2>6, <3>1, <3>2
    <3>4. ASSUME NEW i \in seen
          PROVE  i <= m /\ i \in Nat
      BY <2>2, <2>3, <2>6, <3>1, <3>2
    <3>5. m \in Nat
      BY <2>2, <2>3, <3>1
    <3>6. AsOf(l, r) = IF seen = {} THEN NoFile ELSE l[Max(seen)].data.tree
      BY Zenon DEF AsOf
    <3> HIDE DEF seen
    <3>7. Max(seen) = m
      <4>1. m \in seen /\ \A y \in seen : m >= y
        BY <3>3, <3>4, <3>5
      <4>2. Max(seen) \in seen /\ \A y \in seen : Max(seen) >= y
        BY <4>1, Zenon DEF Max
      <4> DEFINE x == Max(seen)
      <4> HIDE DEF x
      <4>3. x <= m /\ x \in Nat /\ x >= m
        <5>1. x \in seen /\ x >= m
          BY <4>1, <4>2, Zenon DEF x
        <5> QED
          BY <3>4, <5>1, Zenon
      <4>4. x = m
        BY <3>5, <4>3
      <4> QED
        BY <4>4, Zenon DEF x
    <3> QED
      BY <3>3, <3>6, <3>7
  <2> QED
    BY <2>4, <2>5, <2>6 DEF LedgerIsOneJobs, r, l
<1> QED
  BY LedgerInvariant, <1>1, PTL

\* A plan is blocked only as the repetition that it is, unless a node trapped, and a job ends
\* as a feedback loop only after two repetitions in a row (BlockedAreRepeats).
THEOREM BlockedAlways == Spec => BlockedAreRepeats
<1> DEFINE A == /\ state'.dups > state.dups /\ ~NodeTrapped => <<plan', ws>> \in tried
                /\ ended' = "blocked" /\ ended # "blocked" =>
                      \A k \in {1, 4} : Own[Len(Own) - k].kind = "blocked"
<1>1. KInv /\ LInv /\ [Next]_vars => [A]_vars
  <2> SUFFICES ASSUME KInv, LInv, Next
               PROVE  A
    OBVIOUS
  <2> USE DEF disk, turn, past, kernel
  <2>0. KernelOK /\ PromotedOK /\ SeenOK /\ DupsOK /\ IsState(state) /\ state.dups \in Nat
    BY DEF KInv, LInv, KernelOK, IsState
  <2>1. ASSUME NEW events, IsSeq(events), Commit(events),
               \A i \in 1 .. Len(events) : events[i].kind \notin {"planned", "blocked"}
        PROVE  state'.dups = state.dups
    <3>1. Committed(events)
      BY <2>0, <2>1, CommittedIs, Zenon
    <3> QED
      BY <2>1, <3>1, Zenon DEF Committed, Follows
  <2>2. CASE Conclude
    <3>1. pc = "head" /\ state' = state /\ ended' = Decision(state)
      BY <2>2 DEF Conclude, End
    <3>2. ended' = "blocked" => state.dups >= 2
      BY <3>1 DEF Decision
    <3>3. state.dups >= 2 => Own[Len(Own) - 1].kind = "blocked" /\ Own[Len(Own) - 4].kind = "blocked"
      BY <2>0, <3>1 DEF DupsOK
    <3> QED
      BY <2>0, <3>1, <3>2, <3>3
  <2>3. CASE PlannerFails \/ ContractUnreadable \/ Cancel \/ Kill \/ Swap \/ Measure
    <3>1. state' = state /\ (ended' = ended \/ ended' # "blocked")
      BY <2>3 DEF PlannerFails, ContractUnreadable, Cancel, Kill, Swap, Measure, End
    <3> QED
      BY <2>0, <3>1
  <2>4. ASSUME NEW p \in Plans, Propose(p)
        PROVE  A
    <3>1. pc = "head" /\ ended' = ended /\ plan' = p
      BY <2>4 DEF Propose
    <3>2. ~NodeTrapped => state.seen \subseteq tried /\ DedupeKey(p) = <<p, ws>>
      BY <2>0, <3>1 DEF SeenOK, DedupeKey
    <3>3. DedupeKey(p) \notin state.seen => state'.dups = 0
      <4>1. PICK events :
              /\ IsSeq(events) /\ Commit(events)
              /\ DedupeKey(p) \notin state.seen =>
                    Len(events) = 1 /\ events[1].kind = "planned" /\ events[1].data = DedupeKey(p)
        BY <2>4, ProposeIs, Zenon
      <4>2. state' = Reduced(state, events)
        BY <4>1, Zenon DEF Commit
      <4> QED
        BY <2>0, <4>1, <4>2, NewIs
    <3> QED
      BY <2>0, <3>1, <3>2, <3>3
  <2>5. ASSUME state'.dups = state.dups \/ state'.dups = 0,
               ended' = ended \/ ended' # "blocked"
        PROVE  A
    BY <2>0, <2>5
  <2>6. CASE Criticise \/ ExecuteNodeTraps
    <3>1. PICK events : /\ IsSeq(events) /\ Commit(events)
                        /\ \A i \in 1 .. Len(events) : events[i].kind \notin {"planned", "blocked"}
      <4>1. \/ Commit(<<Event("accepted", plan)>>)
            \/ Commit(<<Event("rejected", plan), Event("budget", 1)>>)
        BY <2>6 DEF Criticise, ExecuteNodeTraps
      <4>2. \E events : IsSeq(events) /\ Commit(events)
                        /\ \/ Len(events) = 1 /\ events[1].kind = "accepted"
                           \/ Len(events) = 2 /\ events[1].kind = "rejected" /\ events[2].kind = "budget"
        BY <4>1, AcceptIs, RejectIs, Zenon
      <4> QED
        BY <4>2
    <3>2. ended' = ended
      BY <2>6 DEF Criticise, ExecuteNodeTraps
    <3> QED
      BY <2>1, <2>5, <3>1, <3>2
  <2>7. CASE ExecuteClean
    <3>1. PICK events : /\ IsSeq(events) /\ Commit(events)
                        /\ \A i \in 1 .. Len(events) : events[i].kind \in {"applied", "promoted"}
      BY <2>7, CleanIs, Zenon
    <3>2. ended' = ended
      BY <2>7 DEF ExecuteClean
    <3> QED
      BY <2>1, <2>5, <3>1, <3>2
  <2>8. CASE ExecuteTraps
    <3>1. PICK events : IsSeq(events) /\ Commit(events) /\ Len(events) = 1 /\ events[1].kind = "applied"
      BY <2>8, TrapIs, Zenon
    <3>2. ended' = ended
      BY <2>8 DEF ExecuteTraps
    <3> QED
      BY <2>1, <2>5, <3>1, <3>2
  <2>9. CASE Close
    <3>1. CASE candidate /\ ~judge.parses
      BY <2>5, <2>9, <3>1 DEF Close, End
    <3>2. CASE ~(candidate /\ ~judge.parses)
      <4>1. PICK events : \E m \in 1 .. Len(events) :
              /\ IsSeq(events) /\ Commit(events) /\ events[m].kind = "measured"
              /\ \A i \in 1 .. Len(events) : i # m => events[i].kind \in {"approved", "evidence", "budget"}
        BY <2>0, <2>9, <3>2, CloseIs, Zenon
      <4>2. IsSeq(events) /\ Commit(events)
            /\ \A i \in 1 .. Len(events) : events[i].kind \notin {"planned", "blocked"}
        BY <4>1
      <4>3. ended' = ended
        BY <2>9, <3>2 DEF Close
      <4> QED
        BY <2>1, <2>5, <4>2, <4>3
    <3> QED
      BY <3>1, <3>2
  <2>10. CASE Again
    <3>1. state'.dups = 0
      BY <2>0, <2>10, AgainIs, Zenon DEF Started
    <3>2. ended' = "no"
      BY <2>10 DEF Again
    <3> QED
      BY <2>5, <3>1, <3>2
  <2> HIDE DEF A
  <2> QED
    BY <2>2, <2>3, <2>4, <2>6, <2>7, <2>8, <2>9, <2>10 DEF Next, Step
<1> QED
  BY LedgerInvariant, <1>1, PTL DEF Spec, BlockedAreRepeats

-----------------------------------------------------------------------------
\* Success.

\* SuccessIsEarned, of a job that has not ended yet.
Earned ==
    LET c == judged.ws.claims
    IN  /\ judged.ws.product = ws.product
        /\ OwnGatePassed \/ ClaimsHeld(c)
        /\ judge \in {NoFile, c}
        /\ "look" \in DOMAIN report => report["look"] # "fail"
        /\ judged.source = "workspace" => ws.claims = c /\ ws.product # before.product

Won == ClaimsDischarged(state.gates)

EarnedOK ==
    /\ pc \notin {"head", "done"} => ~Won
    /\ pc = "close" /\ ClaimsDischarged(report) => Earned
    /\ pc = "head" /\ Won => Earned
    /\ ended = "success" => pc = "done" /\ Earned
    /\ pc # "done" => ended = "no"

\* Evidence that a word is good is the end of this job's work.
EvidenceOK ==
    \A i \in 1 .. Len(Own) : Own[i].kind = "evidence" /\ Own[i].data.eligible =>
        /\ Won /\ ended \in {"no", "success", "cancelled", "killed"}
        /\ \A j \in i .. Len(Own) : Own[j].kind # "planned"

SInv == EarnedOK /\ EvidenceOK

LEMMA RunGatesIs ==
    ASSUME NEW p, NEW c, NEW allow, NEW gates, gates = RunGates(p, c, allow),
           "claims" \in DOMAIN gates, gates["claims"] = "pass"
    PROVE  (p.layout = "owned" /\ p.own = "pass") \/ ClaimsHold(p, c, allow)
<1> DEFINE D == ToSet(Specs(p, c))
<1>1. gates = [g \in D |-> IF g = "claims" THEN ClaimsGate(p, c, allow) ELSE Structural(p, g)]
  BY DEF RunGates
<1> HIDE DEF D
<1>2. gates["claims"] = ClaimsGate(p, c, allow)
  BY <1>1
<1> QED
  BY <1>2 DEF ClaimsGate

\* A report counts only with neither the contract nor the progress gate in it.
LEMMA CompletedIs ==
    ASSUME NEW gates, NEW r, r = Completed(gates), ClaimsDischarged(r)
    PROVE  /\ "claims" \in DOMAIN gates /\ gates["claims"] = "pass"
           /\ ~ContractChanged /\ ~NoProgress(gates)
           /\ "look" \in DOMAIN r => r["look"] # "fail"
<1> DEFINE c == IF ContractChanged THEN With(gates, "contract", "fail") ELSE gates
<1>1. r = IF NoProgress(gates) THEN With(c, "progress", "fail") ELSE c
  BY DEF Completed
<1>2. /\ "claims" \in DOMAIN r /\ r["claims"] = "pass"
      /\ \A g \in {"look", "progress", "contract"} \cap DOMAIN r : r[g] # "fail"
  BY DEF ClaimsDischarged
<1>3. ~NoProgress(gates)
  <2> SUFFICES ASSUME NoProgress(gates)
               PROVE  FALSE
    OBVIOUS
  <2> HIDE DEF c
  <2>1. "progress" \in DOMAIN r /\ r["progress"] = "fail"
    BY <1>1 DEF With
  <2> QED
    BY <1>2, <2>1
<1>4. r = c
  BY <1>1, <1>3
<1>5. ~ContractChanged
  <2> SUFFICES ASSUME ContractChanged
               PROVE  FALSE
    OBVIOUS
  <2>1. r = With(gates, "contract", "fail")
    BY <1>4
  <2>2. "contract" \in DOMAIN r /\ r["contract"] = "fail"
    BY <2>1 DEF With
  <2> QED
    BY <1>2, <2>2
<1>6. r = gates
  BY <1>4, <1>5
<1> QED
  BY <1>2, <1>3, <1>5, <1>6

\* Only a commit with a measurement can end the work.
LEMMA KeepWon ==
    ASSUME NEW events, Committed(events), \A i \in 1 .. Len(events) : events[i].kind # "measured"
    PROVE  Won' <=> Won
<1>1. state'.gates = state.gates
  BY Zenon DEF Committed, Follows
<1> QED
  BY <1>1 DEF Won

LEMMA NotWon ==
    ASSUME Decision(state) = "plan"
    PROVE  ~Won
BY DEF Decision, Won

LEMMA MeasureEarns ==
    ASSUME JInv, Measure, ClaimsDischarged(report')
    PROVE  Earned'
<1> USE DEF past
<1> DEFINE gates == RunGates(ws.product, ws.claims, Allow)
           c == ws.claims
<1>1. /\ pc = "gates" /\ ws' = Restored /\ report' = Completed(gates)
      /\ judge' = IF Ready(gates) THEN Restored.claims ELSE judge
      /\ judged' = [ws |-> ws, allow |-> Allow, source |-> source, author |-> author]
      /\ UNCHANGED <<mode, before>>
  BY DEF Measure
<1>2. gates = RunGates(ws.product, ws.claims, Allow)
  OBVIOUS
<1> HIDE DEF gates
<1>3. /\ "claims" \in DOMAIN gates /\ gates["claims"] = "pass"
      /\ ~ContractChanged /\ ~NoProgress(gates)
      /\ "look" \in DOMAIN report' => report'["look"] # "fail"
  BY <1>1, CompletedIs
<1> DEFINE own == ws.product.layout = "owned" /\ ws.product.own = "pass"
<1>4. own \/ ClaimsHold(ws.product, c, Allow)
  BY <1>2, <1>3, RunGatesIs
<1>5. judged'.ws = ws /\ judged'.allow = Allow /\ judged'.source = source /\ judged'.author = author
  BY <1>1, Zenon
<1>6. /\ judge # NoFile => c = judge /\ author # "none"
      /\ judge = NoFile => Restored = ws
      /\ Restored.product = ws.product
      /\ source = ClaimsSource(mode, judge, Restored.claims)
      /\ mode \in Modes /\ candidate => judge = NoFile
  BY <1>1, SourceIs DEF JInv, JudgeOK, GatesOK, Restored
<1>7. judge' \in {NoFile, c} /\ (judge # NoFile => judge' = judge)
  BY <1>1, <1>6 DEF Ready, JInv, JudgeOK, GatesOK
<1>8. JudgeInSight => JudgeInSight'
  BY <1>1, <1>7 DEF JudgeInSight
<1>9. ~own => /\ c.kinds # {}
              /\ "source" \in c.kinds =>
                    \/ ws.product \in c.holds
                    \/ c.anywhere /\ author # "none" /\ JudgeInSight'
              /\ "check" \in c.kinds => Allow /\ ws.product \in c.checked
  <2> SUFFICES ASSUME ~own, ClaimsHold(ws.product, c, Allow)
               PROVE  /\ c.kinds # {}
                      /\ "source" \in c.kinds =>
                            \/ ws.product \in c.holds
                            \/ c.anywhere /\ author # "none" /\ JudgeInSight'
                      /\ "check" \in c.kinds => Allow /\ ws.product \in c.checked
    BY <1>4
  <2>1. "source" \in c.kinds =>
            \/ ws.product \in c.holds
            \/ c.anywhere /\ author # "none" /\ JudgeInSight'
    BY <1>6, <1>8 DEF ClaimsHold, Found, JudgeInSight
  <2> QED
    BY <2>1 DEF ClaimsHold
<1>12. source = "workspace" => Restored.claims = c /\ ws.product # before.product
  <2> SUFFICES ASSUME source = "workspace"
               PROVE  Restored.claims = c /\ ws.product # before.product
    OBVIOUS
  <2>1. ws.product # before.product
    BY <1>3 DEF NoProgress
  <2>2. Restored.claims # NoFile
    <3>1. mode \in Modes
      BY DEF JInv, JudgeOK
    <3> QED
      BY <1>6, <3>1, SourceIs
  <2>3. CASE judge = NoFile
    BY <1>6, <2>1, <2>3
  <2>4. CASE judge # NoFile
    BY <1>3, <1>6, <2>1, <2>2, <2>4 DEF ContractChanged
  <2> QED
    BY <2>3, <2>4
<1>13. ws'.product = ws.product /\ ws'.claims = Restored.claims /\ before' = before
       /\ judged'.ws.claims = c
  BY <1>1, <1>5, <1>6
<1>14. OwnGatePassed' <=> own
  BY <1>13 DEF OwnGatePassed
<1> HIDE DEF c, own
<1>15. judged'.ws.product = ws'.product /\ judge' \in {NoFile, c}
  BY <1>5, <1>7, <1>13, Zenon
<1>16. ~OwnGatePassed' => ClaimsHeld(judged.ws.claims)'
  BY <1>5, <1>9, <1>13, <1>14 DEF ClaimsHeld
<1>17. judged'.source = "workspace" => ws'.claims = c /\ ws'.product # before'.product
  BY <1>5, <1>12, <1>13, Zenon
<1> QED
  BY <1>3, <1>13, <1>15, <1>16, <1>17, Zenon DEF Earned

LEMMA SInit == Init => SInv
<1> SUFFICES ASSUME Init
             PROVE  SInv
  OBVIOUS
<1>1. Started(Own, state) /\ pc = "head" /\ ended = "no"
  BY InitIs DEF Init
<1>2. ~Won
  BY <1>1 DEF Started, Won, ClaimsDischarged, NoGates
<1>3. EvidenceOK
  BY <1>1 DEF Started, EvidenceOK
<1> QED
  BY <1>1, <1>2, <1>3 DEF SInv, EarnedOK

LEMMA SNext == JInv /\ KInv /\ SInv /\ [Next]_vars => SInv'
<1> SUFFICES ASSUME JInv, KInv, SInv, [Next]_vars
             PROVE  SInv'
  OBVIOUS
<1> USE DEF disk, turn, past, kernel
<1>0. KernelOK /\ PromotedOK /\ EarnedOK /\ EvidenceOK
  BY DEF KInv, SInv
<1>1. ASSUME UNCHANGED <<ws, judge, report, judged, before, mode>>
      PROVE  Earned' <=> Earned
  BY <1>1, Zenon DEF Earned, OwnGatePassed, ClaimsHeld, JudgeInSight
<1>2. ASSUME UNCHANGED kernel
      PROVE  (Won' <=> Won) /\ Own' = Own
  BY <1>2 DEF Won, Own
\* While the work goes on there is no evidence that counts.
<1>3. ASSUME ~Won
      PROVE  \A i \in 1 .. Len(Own) : ~(Own[i].kind = "evidence" /\ Own[i].data.eligible)
  BY <1>0, <1>3 DEF EvidenceOK
<1>4. ASSUME NEW events, Committed(events), ~Won,
             \A i \in 1 .. Len(events) : events[i].kind \notin {"measured", "evidence"},
             ended' = ended, ended = "no", pc' # "close"
      PROVE  SInv'
  <2>1. ~Won'
    BY <1>4, KeepWon
  <2>2. ASSUME NEW j \in 1 .. Len(Own'), Own'[j].kind = "evidence"
        PROVE  ~Own'[j].data.eligible
    <3>1. CASE j \in 1 .. Len(Own) /\ Own'[j] = Own[j]
      BY <1>3, <1>4, <2>2, <3>1, Zenon
    <3>2. CASE \E i \in 1 .. Len(events) : Own'[j].kind = events[i].kind
      BY <1>4, <2>2, <3>2
    <3> QED
      BY <1>4, <3>1, <3>2, OwnSplit, Zenon
  <2>3. EvidenceOK'
    BY <2>2, Zenon DEF EvidenceOK
  <2>4. EarnedOK'
    BY <1>4, <2>1 DEF EarnedOK
  <2> QED
    BY <2>3, <2>4 DEF SInv
<1>5. ASSUME UNCHANGED kernel, pc' = "done", pc # "done",
             ended' = "success" => Won /\ Earned', 
             Won => ended' \in {"success", "cancelled", "killed"}
      PROVE  SInv'
  <2>1. (Won' <=> Won) /\ Own' = Own
    BY <1>2, <1>5
  <2>2. EarnedOK'
    BY <1>5 DEF EarnedOK
  <2>3. EvidenceOK'
    BY <1>0, <1>5, <2>1 DEF EvidenceOK
  <2> QED
    BY <2>2, <2>3 DEF SInv
<1>6. CASE Conclude
  <2>1. /\ pc = "head" /\ UNCHANGED <<kernel, ws, judge, report, judged, before, mode>>
        /\ pc' = "done" /\ ended' = Decision(state)
    BY <1>6 DEF Conclude, End
  <2>2. ended' = "success" <=> Won
    BY <2>1 DEF Decision, Won
  <2>3. Won => Earned'
    BY <1>0, <1>1, <2>1 DEF EarnedOK
  <2> QED
    BY <1>5, <2>1, <2>2, <2>3
<1>7. CASE PlannerFails \/ ContractUnreadable \/ Cancel \/ Kill
  <2>1. /\ pc # "done" /\ UNCHANGED kernel /\ pc' = "done"
        /\ ended' # "success" /\ (Decision(state) = "plan" \/ ended' \in {"cancelled", "killed"})
    BY <1>7 DEF PlannerFails, ContractUnreadable, Cancel, Kill, End
  <2> QED
    BY <1>5, <2>1, NotWon
<1>8. ASSUME NEW p \in Plans, Propose(p)
      PROVE  SInv'
  <2>1. PICK events :
              /\ IsSeq(events) /\ Commit(events)
              /\ DedupeKey(p) \in state.seen =>
                    /\ Len(events) = 3 /\ events[1].kind = "planned" /\ events[2].kind = "blocked"
                    /\ events[3].kind = "budget" /\ pc' = "head"
              /\ DedupeKey(p) \notin state.seen =>
                    Len(events) = 1 /\ events[1].kind = "planned" /\ pc' = "critic"
    BY <1>8, ProposeIs, Zenon
  <2>2. Committed(events)
    BY <1>0, <2>1, CommittedIs, Zenon
  <2>3. \A i \in 1 .. Len(events) : events[i].kind \notin {"measured", "evidence"}
    BY <2>1
  <2>4. pc = "head" /\ Decision(state) = "plan" /\ ended' = ended /\ pc' # "close"
    BY <1>8, <2>1 DEF Propose
  <2>5. ~Won /\ ended = "no"
    BY <1>0, <2>4, NotWon DEF EarnedOK
  <2> QED
    BY <1>4, <2>2, <2>3, <2>4, <2>5
<1>9. CASE Criticise \/ ExecuteNodeTraps
  <2>1. PICK events : /\ IsSeq(events) /\ Commit(events)
                      /\ \A i \in 1 .. Len(events) : events[i].kind \notin {"measured", "evidence"}
    <3>1. \/ Commit(<<Event("accepted", plan)>>)
          \/ Commit(<<Event("rejected", plan), Event("budget", 1)>>)
      BY <1>9 DEF Criticise, ExecuteNodeTraps
    <3>2. \E events : IsSeq(events) /\ Commit(events)
                      /\ \/ Len(events) = 1 /\ events[1].kind = "accepted"
                         \/ Len(events) = 2 /\ events[1].kind = "rejected" /\ events[2].kind = "budget"
      BY <3>1, AcceptIs, RejectIs, Zenon
    <3> QED
      BY <3>2
  <2>2. Committed(events)
    BY <1>0, <2>1, CommittedIs, Zenon
  <2>3. pc \in {"critic", "execute"} /\ ended' = ended /\ pc' # "close"
    BY <1>9 DEF Criticise, ExecuteNodeTraps
  <2>4. ~Won /\ ended = "no"
    BY <1>0, <2>3 DEF EarnedOK
  <2> QED
    BY <1>4, <2>1, <2>2, <2>3, <2>4
<1>10. CASE ExecuteClean \/ ExecuteTraps
  <2>1. PICK events : /\ IsSeq(events) /\ Commit(events)
                      /\ \A i \in 1 .. Len(events) : events[i].kind \in {"applied", "promoted"}
    <3>1. CASE ExecuteClean
      BY <3>1, CleanIs, Zenon
    <3>2. CASE ExecuteTraps
      <4>1. PICK events : IsSeq(events) /\ Commit(events) /\ Len(events) = 1 /\ events[1].kind = "applied"
        BY <3>2, TrapIs, Zenon
      <4>2. \A i \in 1 .. Len(events) : events[i].kind \in {"applied", "promoted"}
        BY <4>1
      <4> QED
        BY <4>1, <4>2, Zenon
    <3> QED
      BY <1>10, <3>1, <3>2
  <2>2. Committed(events)
    BY <1>0, <2>1, CommittedIs, Zenon
  <2>3. pc = "execute" /\ pc' = "measure" /\ ended' = ended
    BY <1>10 DEF ExecuteClean, ExecuteTraps
  <2>4. ~Won /\ ended = "no"
    BY <1>0, <2>3 DEF EarnedOK
  <2> QED
    BY <1>4, <2>1, <2>2, <2>3, <2>4
<1>11. CASE Swap \/ Measure
  <2>1. /\ pc \in {"measure", "gates"} /\ UNCHANGED <<kernel, ended>>
        /\ pc' = "gates" \/ (pc' = "close" /\ Measure)
    BY <1>11 DEF Swap, Measure
  <2>2. ~Won /\ ended = "no"
    BY <1>0, <2>1 DEF EarnedOK
  <2>3. ~Won' /\ Own' = Own
    BY <1>2, <2>1, <2>2
  <2>4. EvidenceOK'
    BY <1>3, <2>2, <2>3 DEF EvidenceOK
  <2>5. pc' = "close" /\ ClaimsDischarged(report') => Earned'
    BY <2>1, MeasureEarns
  <2> QED
    BY <2>1, <2>2, <2>3, <2>4, <2>5 DEF SInv, EarnedOK
<1>12. CASE Close
  <2>0. pc = "close" /\ ~Won /\ ended = "no"
    BY <1>0, <1>12 DEF Close, EarnedOK
  <2>1. CASE candidate /\ ~judge.parses
    BY <1>5, <1>12, <2>0, <2>1 DEF Close, End
  <2>2. CASE ~(candidate /\ ~judge.parses)
    <3>1. PICK events : \E m \in 1 .. Len(events) :
              /\ IsSeq(events) /\ Commit(events) /\ Len(events) \in Nat
              /\ events[m].kind = "measured" /\ events[m].data.gates = report
              /\ \A i \in 1 .. Len(events) : i # m => events[i].kind \in {"approved", "evidence", "budget"}
              /\ \A i \in 1 .. Len(events) :
                    events[i].kind = "evidence" => (events[i].data.eligible <=> Eligible(report))
      BY <1>0, <1>12, <2>2, CloseIs, Zenon
    <3>2. PICK m \in 1 .. Len(events) :
              /\ IsSeq(events) /\ Commit(events) /\ Len(events) \in Nat
              /\ events[m].kind = "measured" /\ events[m].data.gates = report
              /\ \A i \in 1 .. Len(events) : i # m => events[i].kind \in {"approved", "evidence", "budget"}
              /\ \A i \in 1 .. Len(events) :
                    events[i].kind = "evidence" => (events[i].data.eligible <=> Eligible(report))
      BY <3>1, Zenon
    <3>3. Committed(events)
      BY <1>0, <3>2, CommittedIs, Zenon
    <3>4. /\ pc' = "head" /\ ended' = ended
          /\ UNCHANGED <<ws, judge, report, judged, before, mode>>
      BY <1>12, <2>2 DEF Close
    <3>5. state'.gates = report
      <4>1. \A i \in m + 1 .. Len(events) : i \in 1 .. Len(events) /\ i # m
        BY <3>2
      <4>2. \A i \in m + 1 .. Len(events) : events[i].kind # "measured"
        BY <3>2, <4>1
      <4> QED
        BY <3>2, <3>3, <4>2, Zenon DEF Committed, Follows
    <3>6. Won' <=> ClaimsDischarged(report)
      BY <3>5 DEF Won
    <3>7. EarnedOK'
      <4>1. ClaimsDischarged(report) => Earned'
        BY <1>0, <1>1, <2>0, <3>4 DEF EarnedOK
      <4> QED
        BY <2>0, <3>4, <3>6, <4>1 DEF EarnedOK
    <3>8. ASSUME NEW j \in 1 .. Len(Own'), Own'[j].kind = "evidence", Own'[j].data.eligible
          PROVE  Won' /\ j \notin 1 .. Len(Own)
      <4>1. CASE j \in 1 .. Len(Own)
        <5>1. Own'[j] = Own[j]
          BY <3>3, <4>1, Zenon DEF Committed
        <5> QED
          BY <1>3, <2>0, <3>8, <4>1, <5>1, Zenon
      <4>2. CASE j \notin 1 .. Len(Own)
        <5>1. PICK i \in 1 .. Len(events) : Own'[j].kind = events[i].kind /\ Own'[j].data = events[i].data
          BY <3>3, <4>2, NewEntry, Zenon
        <5>2. Eligible(report)
          BY <3>2, <3>8, <5>1, Zenon
        <5> QED
          BY <3>6, <4>2, <5>2 DEF Eligible
      <4> QED
        BY <4>1, <4>2
    <3>9. ASSUME NEW j \in 1 .. Len(Own'), j \notin 1 .. Len(Own)
          PROVE  Own'[j].kind # "planned"
      <4>0. \E i \in 1 .. Len(events) : /\ j = Len(Own) + i /\ Own'[j].kind = events[i].kind
                                        /\ Own'[j].data = events[i].data
        BY <3>3, <3>9, NewEntry, Zenon
      <4>1. PICK i \in 1 .. Len(events) : Own'[j].kind = events[i].kind
        BY <4>0, Zenon
      <4> QED
        BY <3>2, <4>1
    <3>10. Len(Own) \in Nat /\ Len(Own') \in Nat
      BY <3>3 DEF Committed
    <3>11. EvidenceOK'
      <4> SUFFICES ASSUME NEW i \in 1 .. Len(Own'), Own'[i].kind = "evidence", Own'[i].data.eligible
                   PROVE  /\ Won' /\ ended' \in {"no", "success", "cancelled", "killed"}
                          /\ \A j \in i .. Len(Own') : Own'[j].kind # "planned"
        BY Zenon DEF EvidenceOK
      <4>1. Won' /\ i \notin 1 .. Len(Own)
        BY <3>8
      <4>2. \A j \in i .. Len(Own') : j \in 1 .. Len(Own') /\ j \notin 1 .. Len(Own)
        BY <3>10, <4>1
      <4>3. ended' = "no"
        BY <2>0, <3>4
      <4> QED
        BY <3>9, <4>1, <4>2, <4>3
    <3> QED
      BY <3>7, <3>11 DEF SInv
  <2> QED
    BY <2>1, <2>2
<1>13. CASE Again
  <2>1. Started(Own', state') /\ pc' = "head" /\ ended' = "no"
    BY <1>0, <1>13, AgainIs DEF Again
  <2>2. ~Won'
    BY <2>1 DEF Started, Won, ClaimsDischarged, NoGates
  <2>3. EvidenceOK'
    BY <2>1 DEF Started, EvidenceOK
  <2> QED
    BY <2>1, <2>2, <2>3 DEF SInv, EarnedOK
<1>14. CASE UNCHANGED vars
  <2>1. Own' = Own /\ (Won' <=> Won) /\ (Earned' <=> Earned)
    BY <1>1, <1>2, <1>14 DEF vars
  <2> QED
    BY <1>0, <1>14, <2>1 DEF vars, SInv, EarnedOK, EvidenceOK
<1> QED
  BY <1>6, <1>7, <1>8, <1>9, <1>10, <1>11, <1>12, <1>13, <1>14 DEF Next, Step

\* A job ends as a success only if its last episode measured the product as it is now: every
\* claim held, checks were allowed to run, the frozen contract was the judge, and the model's
\* own claims came with a change; and evidence for a word is recorded as eligible only at
\* that end (SuccessIsReal).
THEOREM SuccessAlways == Spec => []SuccessIsReal
<1>1. Spec => [](JInv /\ KInv /\ SInv)
  BY JInit, JNext, KInit, KNext, SInit, SNext, PTL DEF Spec
<1>2. KInv /\ SInv => SuccessIsReal
  <2> SUFFICES ASSUME KInv, SInv
               PROVE  SuccessIsReal
    OBVIOUS
  <2>1. SuccessIsEarned
    <3>1. ended = "success" => Earned
      BY DEF SInv, EarnedOK
    <3> QED
      BY <3>1, Zenon DEF SuccessIsEarned, Earned
  <2>2. DOMAIN Own = 1 .. Len(Own)
    <3>1. Numbered(ledger, state.revision) /\ Own = LastOf(ledger, state.revision)
      BY DEF KInv, KernelOK, Own, LastOf
    <3> QED
      BY <3>1, OwnIs
  <2>3. Won => Decision(state) = "success"
    BY DEF Won, Decision
  <2>4. EvidenceIsOfSuccess
    BY <2>2, <2>3, Zenon DEF SInv, EvidenceOK, EvidenceIsOfSuccess
  <2> QED
    BY <2>1, <2>4 DEF SuccessIsReal
<1> QED
  BY <1>1, <1>2, PTL

-----------------------------------------------------------------------------
\* The planners' session.

\* Where one holder at a time is promised.
Single == policy # "keeps" \/ ~overlapped

\* No grant was lost on its way, and no service has taken an old token for a theft.
Intact == ~lost /\ (policy = "rotates" \/ ~overlapped)

\* No token is newer than the last grant.
Bounded ==
    /\ server.refresh <= server.grants
    /\ file \in Texts => file.refresh <= server.grants
    /\ copy \in Texts => copy.refresh <= server.grants
    /\ \A c \in Sharing : rec[c] \in Records => rec[c].refresh <= server.grants

Apart ==
    ~overlapped => \A c, d \in Sharing :
        c # d => ~(stage[c] \in Refreshing /\ stage[d] \in Refreshing)

\* While a grant is held, its token is the one the service takes, and no one else has it.
Fenced ==
    policy # "keeps" => \A c \in Sharing : stage[c] \in Holding =>
        /\ rec[c].refresh = server.refresh
        /\ file \in Texts => file.refresh # server.refresh
        /\ \A d \in Sharing : d # c => /\ stage[d] \notin Holding
                                       /\ stage[d] = "post" => rec[d].refresh # server.refresh

Alone ==
    Single =>
        /\ file \in Texts
        /\ \A c \in Sharing :
            /\ fd[c] = IF stage[c] = "fill" THEN "copy" ELSE None
            /\ stage[c] = "fill" => copy = Empty
            /\ stage[c] \in {"chmod", "rename"} => copy = Contents(rec[c], blob[c].theirs)

Current ==
    Intact =>
        /\ ~server.dead
        /\ (\A c \in Sharing : stage[c] \notin Holding) => file.refresh = server.refresh
        /\ \A c \in Sharing : /\ stage[c] \in Holding => rec[c].refresh = server.refresh
                              /\ stage[c] = "post" /\ ~overlapped => rec[c].refresh = server.refresh

\* What will replace the file has the last write of the other login.
Undisturbed ==
    ~raced =>
        /\ file \in Texts => file.theirs = theirs
        /\ \A c \in Sharing :
            /\ stage[c] \in Refreshing /\ blob[c] \in Texts => blob[c].theirs = theirs
            /\ stage[c] \in {"fill", "chmod", "rename"} /\ copy \in Texts => copy.theirs = theirs

IInv == TypeOK /\ Bounded /\ Apart /\ Fenced /\ Alone /\ Current /\ Undisturbed

USE ClientAssumption, TextAssumption
    DEF Sharing, Clients, Records, Texts, Policies, Holding, Refreshing,
        service, files, client, history, Single, Intact

-----------------------------------------------------------------------------
\* Where one holder at a time is promised, the one that is about to rename finds its copy as
\* it wrote it, and nobody else has that copy open.
LEMMA CopyIsMine ==
    ASSUME IInv, Single, NEW c \in Clients, stage[c] \in {"chmod", "rename"}
    PROVE  /\ c \in Sharing
           /\ copy \in Texts /\ copy # None /\ copy.refresh = rec[c].refresh
           /\ \A d \in Sharing : stage[d] # "fill"
<1>1. c \in Sharing
    BY DEF IInv, TypeOK
<1>2. rec[c] \in Records /\ blob[c] \in Texts
    BY <1>1 DEF IInv, TypeOK
<1>3. copy = Contents(rec[c], blob[c].theirs)
    BY <1>1 DEF IInv, Alone
<1>4. copy \in Texts /\ copy # Empty /\ copy # None /\ copy.refresh = rec[c].refresh
    BY <1>2, <1>3 DEF Contents
<1> QED BY <1>1, <1>4 DEF IInv, Alone

\* What the end of a process leaves of the types.
LEMMA OverKeepsTypes ==
    ASSUME IInv, NEW c \in Clients, NEW end, Over(c, end)
    PROVE  /\ stage' \in [Clients -> Refreshing \cup {"rest", "ask"}]
           /\ rec' \in [Clients -> Records \cup {None}]
           /\ blob' \in [Clients -> Texts \cup {None}]
           /\ fd' \in [Clients -> {"file", "copy", "gone", None}]
           /\ retried' \in [Clients -> BOOLEAN]
           /\ overlapped' \in BOOLEAN
           /\ (\A d \in Sharing :
                /\ stage[d] # "rest" => rec[d] \in Records
                /\ stage[d] \in Holding \ {"back"} \/ (stage[d] = "post" /\ d \in Beam)
                     => blob[d] \in Texts)'
           /\ (\A d \in Keyed : stage[d] \in {"rest", "ask"})'
    BY DEF IInv, TypeOK, Over

\* A call begins: the record is that of the file.
LEMMA BeginStep == ASSUME IInv, NEW c \in Sharing, Begin(c) PROVE IInv'
<1>1. TypeOK'
  <2>1. CASE Whole
    BY <2>1 DEF IInv, TypeOK, Begin, Reads, Over, Go, Session, Whole
  <2>2. CASE ~Whole
    BY <2>2, OverKeepsTypes DEF IInv, TypeOK, Begin, Reads, Go, Session, Whole
  <2> QED BY <2>1, <2>2
<1>2. Bounded'
    BY <1>1 DEF IInv, TypeOK, Bounded, Begin, Reads, Over, Go, Session, Whole
<1>3. Apart'
    BY <1>1 DEF IInv, TypeOK, Apart, Begin, Reads, Over, Go, Session, Whole
<1>4. Fenced'
    BY <1>1 DEF IInv, TypeOK, Bounded, Apart, Fenced, Begin, Reads, Over, Go, Session, Whole
<1>5. Alone'
    BY <1>1 DEF IInv, TypeOK, Apart, Fenced, Alone, Begin, Reads, Over, Go, Session, Whole
<1>6. Current'
    BY <1>1 DEF IInv, TypeOK, Bounded, Apart, Fenced, Alone, Current, Begin, Reads, Over, Go,
           Session, Whole
<1>7. Undisturbed'
    BY <1>1 DEF IInv, TypeOK, Undisturbed, Begin, Reads, Over, Go, Session, Whole
<1> QED BY <1>1, <1>2, <1>3, <1>4, <1>5, <1>6, <1>7 DEF IInv

\* A grant. The token was that of the service, so nobody else holds one that is in force.
LEMMA PostStep == ASSUME IInv, NEW c \in Clients, Post(c) PROVE IInv'
<1>1. TypeOK'
    BY DEF IInv, TypeOK, Post, Rotated, Granted, Grants, Go
<1>2. Bounded'
    BY <1>1 DEF IInv, TypeOK, Bounded, Post, Rotated, Granted, Grants, Go
<1>3. Apart'
    BY <1>1 DEF IInv, TypeOK, Apart, Post, Rotated, Granted, Grants, Go
<1>4. Fenced'
    BY <1>1 DEF IInv, TypeOK, Bounded, Apart, Fenced, Post, Rotated, Granted, Grants, Go
<1>5. Alone'
    BY <1>1 DEF IInv, TypeOK, Apart, Fenced, Alone, Post, Rotated, Granted, Grants, Go
<1>6. Current'
    BY <1>1
       DEF IInv, TypeOK, Bounded, Apart, Fenced, Alone, Current, Post, Rotated, Granted, Grants,
           Go
<1>7. Undisturbed'
    BY <1>1 DEF IInv, TypeOK, Undisturbed, Post, Rotated, Granted, Grants, Go
<1> QED BY <1>1, <1>2, <1>3, <1>4, <1>5, <1>6, <1>7 DEF IInv

\* A refusal ends the call; a service that revokes does so for an old token only.
LEMMA PostRefusedStep == ASSUME IInv, NEW c \in Clients, PostRefused(c) PROVE IInv'
<1>1. TypeOK'
  <2>1. Over(c, Ends("error"))
    BY DEF PostRefused
  <2>2. server' \in [refresh : Nat, dead : BOOLEAN, grants : Nat]
    BY DEF IInv, TypeOK, PostRefused
  <2> QED BY <2>1, <2>2, OverKeepsTypes DEF IInv, TypeOK, PostRefused
<1>2. Bounded'
    BY <1>1 DEF IInv, TypeOK, Bounded, PostRefused, Grants, Over
<1>3. Apart'
    BY <1>1 DEF IInv, TypeOK, Apart, PostRefused, Grants, Over
<1>4. Fenced'
    BY <1>1 DEF IInv, TypeOK, Bounded, Apart, Fenced, PostRefused, Grants, Over
<1>5. Alone'
    BY <1>1 DEF IInv, TypeOK, Apart, Fenced, Alone, PostRefused, Grants, Over
<1>6. Current'
    BY <1>1 DEF IInv, TypeOK, Bounded, Apart, Fenced, Alone, Current, PostRefused, Grants, Over
<1>7. Undisturbed'
    BY <1>1 DEF IInv, TypeOK, Undisturbed, PostRefused, Grants, Over
<1> QED BY <1>1, <1>2, <1>3, <1>4, <1>5, <1>6, <1>7 DEF IInv

\* An answer is lost, which the history remembers.
LEMMA PostLostStep == ASSUME IInv, NEW c \in Sharing, PostLost(c) PROVE IInv'
<1>1. TypeOK'
    BY DEF IInv, TypeOK, PostLost, Rotated, Grants, Over
<1>2. Bounded'
  <2>1. CASE Grants(c)
    BY <1>1, <2>1 DEF IInv, TypeOK, Bounded, PostLost, Rotated, Over
  <2>2. CASE ~Grants(c)
    BY <1>1, <2>2 DEF IInv, TypeOK, Bounded, PostLost, Rotated, Over
  <2> QED BY <2>1, <2>2
<1>3. Apart'
    BY <1>1 DEF IInv, TypeOK, Apart, PostLost, Rotated, Grants, Over
<1>4. Fenced'
    BY <1>1 DEF IInv, TypeOK, Bounded, Apart, Fenced, PostLost, Rotated, Grants, Over
<1>5. Alone'
    BY <1>1 DEF IInv, TypeOK, Apart, Fenced, Alone, PostLost, Rotated, Grants, Over
<1>6. Current'
    BY <1>1
       DEF IInv, TypeOK, Bounded, Apart, Fenced, Alone, Current, PostLost, Rotated, Grants, Over
<1>7. Undisturbed'
    BY <1>1 DEF IInv, TypeOK, Undisturbed, PostLost, Rotated, Grants, Over
<1> QED BY <1>1, <1>2, <1>3, <1>4, <1>5, <1>6, <1>7 DEF IInv

\* The file is read again for the other records.
LEMMA ReadBackStep == ASSUME IInv, NEW c \in Clients, ReadBack(c) PROVE IInv'
<1>1. TypeOK'
  <2>1. CASE Whole
    BY <2>1 DEF IInv, TypeOK, ReadBack, Whole, Go, Over
  <2>2. CASE ~Whole
    BY <2>2, OverKeepsTypes DEF IInv, TypeOK, ReadBack, Whole, Go
  <2> QED BY <2>1, <2>2
<1>2. Bounded'
    BY <1>1 DEF IInv, TypeOK, Bounded, ReadBack, Whole, Go, Over
<1>3. Apart'
    BY <1>1 DEF IInv, TypeOK, Apart, ReadBack, Whole, Go, Over
<1>4. Fenced'
    BY <1>1 DEF IInv, TypeOK, Bounded, Apart, Fenced, ReadBack, Whole, Go, Over
<1>5. Alone'
    BY <1>1 DEF IInv, TypeOK, Apart, Fenced, Alone, ReadBack, Whole, Go, Over
<1>6. Current'
    BY <1>1 DEF IInv, TypeOK, Bounded, Apart, Fenced, Alone, Current, ReadBack, Whole, Go, Over
<1>7. Undisturbed'
    BY <1>1 DEF IInv, TypeOK, Undisturbed, ReadBack, Whole, Go, Over
<1> QED BY <1>1, <1>2, <1>3, <1>4, <1>5, <1>6, <1>7 DEF IInv

\* The copy is cut to nothing: where one holder is promised it was no one else's.
LEMMA OpenStep == ASSUME IInv, NEW c \in Clients, Open(c) PROVE IInv'
<1>1. TypeOK'
    BY DEF IInv, TypeOK, Open, Go
<1>2. Bounded'
    BY <1>1 DEF IInv, TypeOK, Bounded, Open, Go
<1>3. Apart'
    BY <1>1 DEF IInv, TypeOK, Apart, Open, Go
<1>4. Fenced'
    BY <1>1 DEF IInv, TypeOK, Bounded, Apart, Fenced, Open, Go
<1>5. Alone'
    BY <1>1 DEF IInv, TypeOK, Apart, Fenced, Alone, Open, Go
<1>6. Current'
    BY <1>1 DEF IInv, TypeOK, Bounded, Apart, Fenced, Alone, Current, Open, Go
<1>7. Undisturbed'
    BY <1>1 DEF IInv, TypeOK, Undisturbed, Open, Go
<1> QED BY <1>1, <1>2, <1>3, <1>4, <1>5, <1>6, <1>7 DEF IInv

\* The copy is written.
LEMMA FillStep == ASSUME IInv, NEW c \in Clients, Fill(c) PROVE IInv'
<1>1. TypeOK'
    BY DEF IInv, TypeOK, Fill, Go, WrittenOver, Contents
<1>2. Bounded'
    BY <1>1 DEF IInv, TypeOK, Bounded, Fill, Go, WrittenOver, Contents
<1>3. Apart'
    BY <1>1 DEF IInv, TypeOK, Apart, Fill, Go, WrittenOver, Contents
<1>4. Fenced'
    BY <1>1 DEF IInv, TypeOK, Bounded, Apart, Fenced, Alone, Fill, Go, WrittenOver, Contents
<1>5. Alone'
    BY <1>1 DEF IInv, TypeOK, Apart, Fenced, Alone, Fill, Go, WrittenOver, Contents
<1>6. Current'
    BY <1>1 DEF IInv, TypeOK, Bounded, Apart, Fenced, Alone, Current, Fill, Go, WrittenOver, Contents
<1>7. Undisturbed'
    BY <1>1 DEF IInv, TypeOK, Undisturbed, Fill, Go, WrittenOver, Contents
<1> QED BY <1>1, <1>2, <1>3, <1>4, <1>5, <1>6, <1>7 DEF IInv

\* The name of the copy is there.
LEMMA ChmodStep == ASSUME IInv, NEW c \in Clients, Chmod(c) PROVE IInv'
<1>1. TypeOK'
  <2>1. CASE copy = None
    BY <2>1, OverKeepsTypes DEF IInv, TypeOK, Chmod, Go
  <2>2. CASE copy # None
    BY <2>2 DEF IInv, TypeOK, Chmod, Go, Over
  <2> QED BY <2>1, <2>2
<1>2. Bounded'
    BY <1>1, CopyIsMine DEF IInv, TypeOK, Bounded, Chmod, Go, Over
<1>3. Apart'
    BY <1>1 DEF IInv, TypeOK, Apart, Chmod, Go, Over
<1>4. Fenced'
    BY <1>1 DEF IInv, TypeOK, Bounded, Apart, Fenced, Chmod, Go, Over
<1>5. Alone'
    BY <1>1, CopyIsMine DEF IInv, TypeOK, Apart, Fenced, Alone, Chmod, Go, Over
<1>6. Current'
    BY <1>1, CopyIsMine DEF IInv, TypeOK, Bounded, Apart, Fenced, Alone, Current, Chmod, Go, Over
<1>7. Undisturbed'
    BY <1>1 DEF IInv, TypeOK, Undisturbed, Chmod, Go, Over
<1> QED BY <1>1, <1>2, <1>3, <1>4, <1>5, <1>6, <1>7 DEF IInv

\* What replaces the file has the token that the service takes.
LEMMA RenameStep == ASSUME IInv, NEW c \in Clients, Rename(c) PROVE IInv'
<1>1. TypeOK'
  <2>1. CASE copy = None
    BY <2>1, OverKeepsTypes DEF IInv, TypeOK, Rename, Go, Moved
  <2>2. CASE copy # None
    BY <2>2 DEF IInv, TypeOK, Rename, Go, Over, Moved
  <2> QED BY <2>1, <2>2
<1>2. Bounded'
    BY <1>1, CopyIsMine DEF IInv, TypeOK, Bounded, Rename, Go, Over, Moved
<1>3. Apart'
    BY <1>1 DEF IInv, TypeOK, Apart, Rename, Go, Over, Moved
<1>4. Fenced'
    BY <1>1 DEF IInv, TypeOK, Bounded, Apart, Fenced, Rename, Go, Over, Moved
<1>5. Alone'
  <2>1. CASE copy = None
    BY <1>1, <2>1, CopyIsMine DEF IInv, TypeOK, Apart, Fenced, Alone, Rename, Go, Over, Moved
  <2>2. CASE copy # None
    <3>1. Single' => file' \in Texts
      BY <2>2, CopyIsMine DEF Rename, Go
    <3>2. Single' => \A d \in Sharing : stage'[d] \notin {"fill", "chmod", "rename"}
      BY <1>1, <2>2, CopyIsMine DEF IInv, TypeOK, Apart, Fenced, Rename, Go
    <3>3. Single' => \A d \in Sharing : fd'[d] = None
      BY <2>2, CopyIsMine DEF IInv, TypeOK, Alone, Rename, Go, Moved
    <3> QED BY <3>1, <3>2, <3>3 DEF Alone
  <2> QED BY <2>1, <2>2
<1>6. Current'
    BY <1>1, CopyIsMine
       DEF IInv, TypeOK, Bounded, Apart, Fenced, Alone, Current, Rename, Go, Over, Moved
<1>7. Undisturbed'
    BY <1>1 DEF IInv, TypeOK, Undisturbed, Rename, Go, Over, Moved
<1> QED BY <1>1, <1>2, <1>3, <1>4, <1>5, <1>6, <1>7 DEF IInv

\* The record of the file is exchanged after a 401, or the call ends.
LEMMA DeniedStep == ASSUME IInv, NEW c \in Clients, Denied(c) PROVE IInv'
<1>1. TypeOK'
  <2>1. CASE Whole /\ c \in Python /\ ~retried[c]
    <3>1. Whole \in BOOLEAN
      BY DEF Whole
    <3>2. retried' \in [Clients -> BOOLEAN]
      BY <2>1, <3>1, Zenon DEF IInv, TypeOK, Denied
    <3> QED BY <2>1, <3>2 DEF IInv, TypeOK, Denied, Reads, Go, Session, Whole
  <2>2. CASE ~Whole /\ c \in Python /\ ~retried[c]
    BY <2>2, OverKeepsTypes DEF IInv, TypeOK, Denied, Reads, Go, Session, Whole
  <2>3. CASE ~(c \in Python /\ ~retried[c])
    BY <2>3, OverKeepsTypes DEF IInv, TypeOK, Denied, Reads, Go, Session, Whole
  <2> QED BY <2>1, <2>2, <2>3
<1>2. Bounded'
    BY <1>1 DEF IInv, TypeOK, Bounded, Denied, Reads, Over, Go, Session, Whole
<1>3. Apart'
    BY <1>1 DEF IInv, TypeOK, Apart, Denied, Reads, Over, Go, Session, Whole
<1>4. Fenced'
    BY <1>1 DEF IInv, TypeOK, Bounded, Apart, Fenced, Denied, Reads, Over, Go, Session, Whole
<1>5. Alone'
    BY <1>1 DEF IInv, TypeOK, Apart, Fenced, Alone, Denied, Reads, Over, Go, Session, Whole
<1>6. Current'
    BY <1>1 DEF IInv, TypeOK, Bounded, Apart, Fenced, Alone, Current, Denied, Reads, Over, Go,
           Session, Whole
<1>7. Undisturbed'
    BY <1>1 DEF IInv, TypeOK, Undisturbed, Denied, Reads, Over, Go, Session, Whole
<1> QED BY <1>1, <1>2, <1>3, <1>4, <1>5, <1>6, <1>7 DEF IInv

\* A reply ends the call.
LEMMA AnswerStep == ASSUME IInv, NEW c \in Clients, Answer(c) PROVE IInv'
<1>1. TypeOK'
    BY DEF IInv, TypeOK, Answer, Over
<1>2. Bounded'
    BY <1>1 DEF IInv, TypeOK, Bounded, Answer, Over
<1>3. Apart'
    BY <1>1 DEF IInv, TypeOK, Apart, Answer, Over
<1>4. Fenced'
    BY <1>1 DEF IInv, TypeOK, Bounded, Apart, Fenced, Answer, Over
<1>5. Alone'
    BY <1>1 DEF IInv, TypeOK, Apart, Fenced, Alone, Answer, Over
<1>6. Current'
    BY <1>1 DEF IInv, TypeOK, Bounded, Apart, Fenced, Alone, Current, Answer, Over
<1>7. Undisturbed'
    BY <1>1 DEF IInv, TypeOK, Undisturbed, Answer, Over
<1> QED BY <1>1, <1>2, <1>3, <1>4, <1>5, <1>6, <1>7 DEF IInv

\* A failed request ends the call.
LEMMA AskFailsStep == ASSUME IInv, NEW c \in Clients, AskFails(c) PROVE IInv'
<1>1. TypeOK'
    BY DEF IInv, TypeOK, AskFails, Over
<1>2. Bounded'
    BY <1>1 DEF IInv, TypeOK, Bounded, AskFails, Over
<1>3. Apart'
    BY <1>1 DEF IInv, TypeOK, Apart, AskFails, Over
<1>4. Fenced'
    BY <1>1 DEF IInv, TypeOK, Bounded, Apart, Fenced, AskFails, Over
<1>5. Alone'
    BY <1>1 DEF IInv, TypeOK, Apart, Fenced, Alone, AskFails, Over
<1>6. Current'
    BY <1>1 DEF IInv, TypeOK, Bounded, Apart, Fenced, Alone, Current, AskFails, Over
<1>7. Undisturbed'
    BY <1>1 DEF IInv, TypeOK, Undisturbed, AskFails, Over
<1> QED BY <1>1, <1>2, <1>3, <1>4, <1>5, <1>6, <1>7 DEF IInv

\* A kill ends the call; that of a holder is remembered.
LEMMA KillStep == ASSUME IInv, NEW c \in Clients, KillClient(c) PROVE IInv'
<1>1. TypeOK'
    BY DEF IInv, TypeOK, KillClient, Over
<1>2. Bounded'
    BY <1>1 DEF IInv, TypeOK, Bounded, KillClient, Over
<1>3. Apart'
    BY <1>1 DEF IInv, TypeOK, Apart, KillClient, Over
<1>4. Fenced'
    BY <1>1 DEF IInv, TypeOK, Bounded, Apart, Fenced, KillClient, Over
<1>5. Alone'
    BY <1>1 DEF IInv, TypeOK, Apart, Fenced, Alone, KillClient, Over
<1>6. Current'
    BY <1>1 DEF IInv, TypeOK, Bounded, Apart, Fenced, Alone, Current, KillClient, Over
<1>7. Undisturbed'
    BY <1>1 DEF IInv, TypeOK, Undisturbed, KillClient, Over
<1> QED BY <1>1, <1>2, <1>3, <1>4, <1>5, <1>6, <1>7 DEF IInv

\* A client with a key does not touch the session.
LEMMA BeginKeyedStep == ASSUME IInv, NEW c \in Keyed, BeginKeyed(c) PROVE IInv'
    BY DEF IInv, TypeOK, Bounded, Apart, Fenced, Alone, Current, Undisturbed, BeginKeyed, Go

\* Time passes.
LEMMA ExpireStep == ASSUME IInv, Expire PROVE IInv'
    BY DEF IInv, TypeOK, Bounded, Apart, Fenced, Alone, Current, Undisturbed, Expire

\* An access token is taken back.
LEMMA RevokeStep == ASSUME IInv, Revoke PROVE IInv'
    BY DEF IInv, TypeOK, Bounded, Apart, Fenced, Alone, Current, Undisturbed, Revoke

\* The other login is new in the file; whoever holds an older text is remembered.
LEMMA GrokWritesStep == ASSUME IInv, GrokWrites PROVE IInv'
<1>1. TypeOK'
    BY DEF IInv, TypeOK, GrokWrites, Contents, Moved, Whole
<1>2. Bounded'
    BY <1>1 DEF IInv, TypeOK, Bounded, GrokWrites, Contents, Moved, Whole
<1>3. Apart'
    BY <1>1 DEF IInv, TypeOK, Apart, GrokWrites, Contents, Moved, Whole
<1>4. Fenced'
    BY <1>1 DEF IInv, TypeOK, Bounded, Apart, Fenced, GrokWrites, Contents, Moved, Whole
<1>5. Alone'
  <2>1. theirs' \in Nat
    BY <1>1 DEF TypeOK
  <2>2. file' = [key |-> file.key, refresh |-> file.refresh, exp |-> file.exp, theirs |-> theirs']
    BY DEF GrokWrites, Contents
  <2>3. file' \in Texts
    BY <2>1, <2>2 DEF IInv, TypeOK, GrokWrites, Whole
  <2> QED BY <1>1, <2>3 DEF IInv, TypeOK, Apart, Fenced, Alone, GrokWrites, Contents, Moved, Whole
<1>6. Current'
    BY <1>1 DEF IInv, TypeOK, Bounded, Apart, Fenced, Alone, Current, GrokWrites, Contents, Moved,
           Whole
<1>7. Undisturbed'
  <2>1. raced' = (raced \/ \E d \in Sharing : blob[d] # None /\ stage[d] \in Refreshing)
    BY DEF GrokWrites, Replacing
  <2>2. file' = [key |-> file.key, refresh |-> file.refresh, exp |-> file.exp, theirs |-> theirs']
    BY DEF GrokWrites, Contents
  <2>3. ~raced' => \A d \in Sharing : blob[d] = None \/ stage[d] \notin Refreshing
    BY <2>1
  <2>4. \A d \in Sharing : stage[d] \in {"fill", "chmod", "rename"} => blob[d] \in Texts
    BY DEF IInv, TypeOK
  <2> QED BY <2>2, <2>3, <2>4 DEF Undisturbed, GrokWrites
<1> QED BY <1>1, <1>2, <1>3, <1>4, <1>5, <1>6, <1>7 DEF IInv

\* The invariant holds at first: the file is whole and nobody has begun.
LEMMA InitIInv == ASSUME PlannerInit PROVE IInv
<1>1. file = [key |-> 0, refresh |-> 0, exp |-> 0, theirs |-> 0]
    BY DEF PlannerInit, Contents
<1>2. file \in Texts
    BY <1>1
<1>3. file.refresh = 0 /\ file.theirs = 0
    BY <1>1
<1>4. server.refresh = 0 /\ server.grants = 0 /\ ~server.dead
    BY DEF PlannerInit
<1>5. TypeOK
    BY <1>2 DEF PlannerInit, TypeOK
<1>6. \A c \in Clients : stage[c] = "rest" /\ rec[c] = None /\ blob[c] = None /\ fd[c] = None
    BY DEF PlannerInit
<1> QED BY <1>2, <1>3, <1>4, <1>5, <1>6
   DEF PlannerInit, IInv, Bounded, Apart, Fenced, Alone, Current, Undisturbed

\* The invariant is kept by every step.
LEMMA NextIInv == ASSUME IInv, [PlannerNext]_session PROVE IInv'
<1>1. CASE UNCHANGED session
    BY <1>1 DEF session, IInv, TypeOK, Bounded, Apart, Fenced, Alone, Current, Undisturbed
<1>2. CASE PlannerNext
    BY <1>2, BeginStep, PostStep, PostRefusedStep, PostLostStep, ReadBackStep, OpenStep, FillStep,
       ChmodStep, RenameStep, DeniedStep, AnswerStep, AskFailsStep, KillStep, BeginKeyedStep,
       ExpireStep, RevokeStep, GrokWritesStep DEF PlannerNext, Refresh, Call
<1> QED BY <1>1, <1>2

\* IInv is an invariant, whatever the number of clients, refreshes, faults and writes.
THEOREM SessionInvariant == PlannerSpec => []IInv
<1> QED BY InitIInv, NextIInv, PTL DEF PlannerSpec

\* Every variable keeps its type, and what a client relies on at its program counter is there.
THEOREM TypeCorrect == PlannerSpec => []TypeOK
<1>1. IInv => TypeOK
    BY DEF IInv
<1> QED BY <1>1, SessionInvariant, PTL

\* The session outlives its refreshes, for any number of clients of either host.
THEOREM SessionKept == PlannerSpec => []SessionIsKept
<1>1. ASSUME IInv PROVE SessionIsKept
  <2>1. Single => Whole
    BY <1>1 DEF IInv, Alone, Whole
  <2>2. Single => \A c \in Sharing : stage[c] \in {"chmod", "rename"} => copy # None
    BY <1>1, CopyIsMine
  <2> QED BY <1>1, <2>1, <2>2 DEF IInv, Current, SessionIsKept
<1> QED BY <1>1, SessionInvariant, PTL

\* No write of the other login is undone but in the window the model names.
THEOREM OthersKept == PlannerSpec => []OthersAreKept
<1>1. IInv => OthersAreKept
    BY DEF IInv, TypeOK, Undisturbed, OthersAreKept, Whole
<1> QED BY <1>1, SessionInvariant, PTL

-----------------------------------------------------------------------------
\* What the planner prints.

\* A node that passes is handed on as one that parses.
LEMMA NodesParse ==
    ASSUME NEW n \in Nodes, NodePasses(n)
    PROVE  NodeParses(NormalNode(n))
  BY DEF NodePasses, NodeParses, NormalNode, Nodes, Fields, Falsy

\* What becomes of a reply that passes: an envelope that parses, with its program and nodes.
LEMMA NormalParses ==
    ASSUME NEW raw \in Messages, Normalize(raw) # None
    PROVE  /\ Parses(Normalize(raw))
           /\ Normalize(raw).program = IF raw.program = "none" THEN "blank" ELSE raw.program
           /\ DOMAIN Normalize(raw).nodes.list = DOMAIN raw.nodes.list
<1> DEFINE list    == [i \in DOMAIN raw.nodes.list |-> NormalNode(raw.nodes.list[i])]
           graph   == HasNodes(raw)
           program == IF raw.program = "none" /\ graph THEN "blank" ELSE raw.program
           env     == [program |-> program, artifacts |-> "dict",
                       rationale |-> IF raw.rationale \in Falsy THEN "blank" ELSE "text",
                       nodes |-> [is |-> IF graph THEN "list" ELSE "none", list |-> list]]
<1>1. /\ raw.nodes.list \in Seq(Nodes)
      /\ \A i \in DOMAIN raw.nodes.list : NodePasses(raw.nodes.list[i])
      /\ program \in {"text"} \cup (IF graph THEN {"blank"} ELSE {})
      /\ Normalize(raw) = env
  BY DEF Normalize, Messages
<1>2. \A i \in DOMAIN list : NodeParses(list[i])
  <2>1. \A i \in DOMAIN raw.nodes.list : raw.nodes.list[i] \in Nodes
    BY <1>1
  <2> QED
    BY <1>1, <2>1, NodesParse
<1>3. program = IF raw.program = "none" THEN "blank" ELSE raw.program
  BY <1>1
<1>4. /\ env.nodes.is # "bad" /\ env.nodes.list = list /\ env.program = program
      /\ env.artifacts = "dict" /\ env.rationale \in {"text"} \cup Falsy
  BY DEF Falsy
<1> HIDE DEF env, list
<1>5. Parses(env)
  BY <1>1, <1>2, <1>4 DEF Parses
<1>6. DOMAIN list = DOMAIN raw.nodes.list
  BY DEF list
<1> QED
  BY <1>1, <1>3, <1>4, <1>5, <1>6

\* A call ends with an envelope only where the reply passed, or what was heard of it.
LEMMA EndingsParse ==
    ASSUME NEW beam \in BOOLEAN, NEW end \in Endings(beam), end.envelope # None
    PROVE  /\ end.how = "done" /\ Parses(end.envelope)
           /\ end.envelope.program = IF end.reply.program = "none" THEN "blank"
                                     ELSE end.reply.program
           /\ DOMAIN end.envelope.nodes.list = DOMAIN end.reply.nodes.list
<1>1. PICK phase \in Phases(beam), heard \in UNION {Heard(reply) : reply \in Replies} :
          end = IF Extracted(heard, beam) # None THEN Extracted(heard, beam) ELSE Made(phase, heard)
  BY DEF Endings
<1>2. heard \in Messages
  BY <1>1, ReplyAssumption DEF Heard, Messages
<1>3. \A how : Ends(how).envelope = None
  BY DEF Ends
<1>4. Extracted(heard, beam) # None => Extracted(heard, beam).envelope = None
  <2>1. heard.is \in {"object", "prose", "broken"}
    BY <1>2 DEF Messages
  <2> QED
    BY <1>3, <2>1 DEF Extracted
<1>5. end = Made(phase, heard)
  BY <1>1, <1>4
<1>6. phase \in {"plan", "claims", "audit"}
  BY DEF Phases
<1>7. phase = "plan" /\ Normalize(heard) # None
  BY <1>3, <1>5, <1>6 DEF Made
<1>8. end = [how |-> "done", envelope |-> Normalize(heard), reply |-> heard]
  BY <1>5, <1>7 DEF Made
<1> QED
  BY <1>2, <1>7, <1>8, NormalParses

\* A step is silent, ends a call without an envelope, or as the reply has it.
LEMMA SaidIs ==
    ASSUME PlannerNext
    PROVE  \/ said' = None \/ \E how : said' = Ends(how)
           \/ \E beam \in BOOLEAN : said' \in Endings(beam)
<1>1. ASSUME NEW c, NEW anyway, Reads(c, anyway)
      PROVE  said' = None \/ \E how : said' = Ends(how)
  BY <1>1 DEF Reads, Over, Go
<1>2. CASE \E c \in Sharing : Begin(c) \/ PostLost(c)
  BY <1>1, <1>2 DEF Begin, PostLost, Over
<1>3. CASE \E c \in Keyed : BeginKeyed(c)
  BY <1>3 DEF BeginKeyed, Go
<1>4. CASE \E c \in Clients : Refresh(c)
  BY <1>4 DEF Refresh, Post, PostRefused, ReadBack, Open, Fill, Chmod, Rename, Go, Over
<1>5. CASE \E c \in Clients : Denied(c)
  BY <1>1, <1>5 DEF Denied, Over
<1>6. CASE \E c \in Clients : Answer(c)
  BY <1>6 DEF Answer, Over, PythonEndings, BeamEndings
<1>7. CASE \E c \in Clients : AskFails(c) \/ KillClient(c)
  BY <1>7 DEF AskFails, KillClient, Over
<1>8. CASE Expire \/ Revoke \/ GrokWrites
  BY <1>8 DEF Expire, Revoke, GrokWrites
<1> QED
  BY <1>2, <1>3, <1>4, <1>5, <1>6, <1>7, <1>8 DEF PlannerNext, Call

\* What the planner prints is an envelope that the harness parses, with the program and the
\* nodes of the reply, for every reply the model may give.
THEOREM HarnessParsesAlways == PlannerSpec => []HarnessParses
<1>1. PlannerInit => HarnessParses
  BY DEF PlannerInit, HarnessParses
<1>2. HarnessParses /\ [PlannerNext]_session => HarnessParses'
  <2>1. SUFFICES ASSUME HarnessParses, [PlannerNext]_session PROVE HarnessParses'
    OBVIOUS
  <2>2. CASE UNCHANGED session
    BY <2>1, <2>2 DEF session, HarnessParses, Parses
  <2>3. CASE said' = None
    BY <2>3 DEF HarnessParses
  <2>4. CASE \E how : said' = Ends(how)
    BY <2>4 DEF HarnessParses, Ends
  <2>5. CASE \E beam \in BOOLEAN : said' \in Endings(beam)
    BY <2>5, EndingsParse DEF HarnessParses
  <2> QED
    BY <2>1, <2>2, <2>3, <2>4, <2>5, SaidIs
<1> QED
  BY <1>1, <1>2, PTL DEF PlannerSpec

-----------------------------------------------------------------------------
\* A request and its stream.

\* Where the main thread is when the outcome is known.
Late == {"last", "done", "gone"}

\* The lines that are no outcome.
Kinds == {"run.started", "planner.call", "planner.stderr", "plan.proposed", "budget.consumed",
          "livingdict.receipt", "message.delta"}

Refusals == {"deadline", "invalid_request", "grant_expired", "grant_invalid", "provider_unmapped"}
Words == Refusals \cup {"", "limits", "succeeded", "success", "blocked", "halt_cap", "cancelled",
                        "planner", "internal", "interrupted"}

\* Lines, and lines with their number.
Events  == [kind : Kinds \cup Terminals, data : Words, shape : {"line", "split"}]
Numbers == [line : Events, seq : Nat]
Quiet(l) == l.kind \notin Terminals

\* The variables, as far as the proof needs their types.
RTypes ==
    /\ used \in 0 .. MaxCalls /\ seq \in Nat
    /\ todo \in Seq(Events) /\ out \in Seq(Numbers)
    /\ hand \in [Threads -> {Nothing} \cup Numbers]
    /\ pump \in [Pumps -> {"off", "reads", "gone"}]
    /\ left \in BOOLEAN /\ broken \in BOOLEAN /\ closed \in BOOLEAN

\* Only who has come to an outcome is cut off for good.
EndingOK ==
    /\ place \notin Late => ending = "" /\ ~broken
    /\ broken => ending = "interrupted"

\* A line in a pump's hand means that it reads; none reads but during its call, or one was left.
PumpsOK ==
    /\ \A p \in Pumps : hand[p] # Nothing => pump[p] = "reads"
    /\ ~left => \A p \in Pumps : pump[p] = "reads" =>
           p = used /\ place = "call" /\ todo = <<>> /\ hand[Main] = Nothing

\* Until a pump is left behind one thread writes at a time: the numbers on stdout grow, and a
\* line in hand has the last one.
NumbersOK ==
    ~left =>
        /\ \A i \in DOMAIN out : out[i].seq \in 1 .. seq
        /\ \A i, j \in DOMAIN out : i < j => out[i].seq < out[j].seq
        /\ \A t \in Threads : hand[t] # Nothing =>
              hand[t].seq = seq /\ seq # 0 /\ \A i \in DOMAIN out : out[i].seq < seq

\* The stream is open and no outcome is on it.
QuietOut == ~closed /\ \A i \in DOMAIN out : Quiet(out[i].line)

\* A line of this kind is the last, and the ones before it are no outcomes.
EndsWith(ls, kind) ==
    ls # <<>> /\ ls[Len(ls)].kind = kind /\ \A i \in 1 .. Len(ls) - 1 : Quiet(ls[i])

\* While the request is worked on, no outcome is on its way.
Working ==
    /\ QuietOut
    /\ \A i \in DOMAIN todo : Quiet(todo[i])
    /\ \A t \in Threads : hand[t] # Nothing => Quiet(hand[t].line)

\* The outcome is to be emitted, is in the main thread's hand, or is the last line; or there was
\* no request to speak of.
ToCome ==
    /\ QuietOut /\ EndsWith(todo, Outcome(ending))
    /\ hand[Main] # Nothing => Quiet(hand[Main].line)
InHand == QuietOut /\ todo = <<>> /\ hand[Main] # Nothing /\ hand[Main].line.kind = Outcome(ending)
Said   ==
    /\ todo = <<>> /\ hand[Main] = Nothing /\ out # <<>>
    /\ out[Len(out)].line.kind = Outcome(ending)
    /\ \A i \in 1 .. Len(out) - 1 : Quiet(out[i].line)
Unread == ending = "unreadable" /\ out = <<>> /\ todo = <<>> /\ hand[Main] = Nothing

\* How far the outcome has come, unless a pump was left or an interrupt cut a line off.
OutcomeOK ==
    ~left /\ ~broken =>
        /\ place \notin Late => Working
        /\ place = "last" => ending # "unreadable" /\ (ToCome \/ InHand \/ Said)
        /\ place \in {"done", "gone"} => Unread \/ (ending # "unreadable" /\ Said)

\* Before the request is read there is nothing; a call that was announced may be made.
StartOK ==
    /\ place = "read" =>
          /\ out = <<>> /\ todo = <<>> /\ hand[Main] = Nothing
          /\ \A p \in Pumps : pump[p] # "reads"
    /\ place = "spawn" => used < MaxCalls

\* The invariant.
RInv == RTypes /\ EndingOK /\ PumpsOK /\ NumbersOK /\ OutcomeOK /\ StartOK

\* The main thread is no pump.
LEMMA ThreadsAre == /\ Main \in Threads /\ Main \notin Pumps /\ Pumps \subseteq Threads
                    /\ \A t \in Threads : t = Main \/ t \in Pumps
  BY RangeAssumption DEF Main, Threads, Pumps

\* It holds at first.
LEMMA RequestStarts == RequestInit => RInv
<1> SUFFICES ASSUME RequestInit PROVE RInv
  OBVIOUS
<1>1. RTypes
  <2>1. used = 0 /\ seq = 0 /\ todo = <<>> /\ out = <<>> /\ hand = [t \in Threads |-> Nothing]
        /\ pump = [p \in Pumps |-> "off"]
    BY DEF RequestInit
  <2>2. left \in BOOLEAN /\ broken \in BOOLEAN /\ closed \in BOOLEAN
    BY DEF RequestInit
  <2>3. 0 \in 0 .. MaxCalls
    BY RangeAssumption
  <2> QED
    BY <2>1, <2>2, <2>3 DEF RTypes
<1>2. (\A p \in Pumps : pump[p] = "off") /\ (\A t \in Threads : hand[t] = Nothing) /\ Main \in Threads
  BY ThreadsAre DEF RequestInit
<1>5. place = "read" /\ ending = "" /\ todo = <<>> /\ out = <<>> /\ ~broken /\ ~closed
  BY DEF RequestInit
<1>6. DOMAIN out = {} /\ DOMAIN todo = {}
  <2>1. out \in Seq(Nat) /\ todo \in Seq(Nat) /\ Len(out) = 0 /\ Len(todo) = 0
    BY <1>5, EmptySeq
  <2>2. DOMAIN out = 1 .. 0 /\ DOMAIN todo = 1 .. 0
    BY <2>1, LenProperties
  <2> QED
    BY <2>2
<1>3. EndingOK /\ PumpsOK /\ NumbersOK /\ StartOK
  <2>1. EndingOK
    BY <1>5 DEF EndingOK
  <2>2. PumpsOK
    BY <1>2, ThreadsAre DEF PumpsOK
  <2>3. NumbersOK
    BY <1>2, <1>6 DEF NumbersOK
  <2>4. StartOK
    BY <1>2, <1>5 DEF StartOK
  <2> QED
    BY <2>1, <2>2, <2>3, <2>4
<1>4. OutcomeOK
  <2>1. Working
    BY <1>2, <1>5, <1>6 DEF Working, QuietOut
  <2> QED
    BY <1>5, <2>1 DEF OutcomeOK, Late
<1> QED
  BY <1>1, <1>3, <1>4 DEF RInv

\* A line in hand is something.
LEMMA NothingIs == \A n \in Numbers : n # Nothing
  BY DEF Numbers, Nothing

\* A line gets its number, unless the stream is closed.
LEMMA NumberIs ==
    ASSUME RTypes, NEW t \in Threads, NEW line \in Events, Number(t, line)
    PROVE  /\ out' = out /\ closed' = closed /\ seq' \in Nat
           /\ hand' \in [Threads -> {Nothing} \cup Numbers]
           /\ closed => hand' = hand /\ seq' = seq
           /\ ~closed => /\ seq' = seq + 1 /\ hand'[t].line = line /\ hand'[t].seq = seq + 1
                         /\ hand'[t] # Nothing
                         /\ \A u \in Threads : u # t => hand'[u] = hand[u]
<1>1. [line |-> line, seq |-> seq + 1] \in Numbers
  BY DEF RTypes, Numbers
<1>2. CASE closed
  BY <1>2 DEF Number, stream, RTypes
<1>3. CASE ~closed
  <2>1. /\ seq' = seq + 1 /\ hand' = [hand EXCEPT ![t] = [line |-> line, seq |-> seq + 1]]
        /\ UNCHANGED <<closed, out>>
    BY <1>3 DEF Number
  <2>2. hand'[t] = [line |-> line, seq |-> seq + 1]
    BY <2>1 DEF RTypes
  <2>3. hand'[t] # Nothing
    BY <1>1, <2>2, NothingIs
  <2> QED
    BY <1>1, <1>3, <2>1, <2>2, <2>3 DEF RTypes
<1> QED
  BY <1>2, <1>3

\* A line goes out.
LEMMA WriteIs ==
    ASSUME RTypes, NEW t \in Threads, Write(t)
    PROVE  /\ hand[t] \in Numbers /\ hand[t] # Nothing
           /\ out' \in Seq(Numbers) /\ Len(out') = Len(out) + 1 /\ out'[Len(out) + 1] = hand[t]
           /\ \A i \in 1 .. Len(out) : out'[i] = out[i]
           /\ hand' \in [Threads -> {Nothing} \cup Numbers] /\ hand'[t] = Nothing
           /\ \A u \in Threads : u # t => hand'[u] = hand[u]
           /\ closed' = (closed \/ ~Quiet(hand[t].line)) /\ closed' \in BOOLEAN /\ seq' = seq
<1>1. hand[t] \in Numbers /\ out \in Seq(Numbers) /\ out' = Append(out, hand[t])
  BY DEF Write, RTypes
<1>2. /\ out' \in Seq(Numbers) /\ Len(out') = Len(out) + 1 /\ out'[Len(out) + 1] = hand[t]
      /\ \A i \in 1 .. Len(out) : out'[i] = out[i]
  BY <1>1
<1> QED
  BY <1>1, <1>2 DEF Write, RTypes, Quiet

\* What is left to emit.
LEMMA TailIs ==
    ASSUME NEW s \in Seq(Events), s # <<>>
    PROVE  /\ Head(s) \in Events /\ Head(s) = s[1] /\ Tail(s) \in Seq(Events)
           /\ Len(Tail(s)) = Len(s) - 1 /\ Len(s) \in Nat \ {0}
           /\ \A i \in 1 .. Len(Tail(s)) : Tail(s)[i] = s[i + 1]
           /\ Tail(s) = <<>> <=> Len(s) = 1
<1>1. /\ Head(s) \in Events /\ Head(s) = s[1] /\ Tail(s) \in Seq(Events)
      /\ Len(Tail(s)) = Len(s) - 1 /\ Len(s) \in Nat \ {0}
      /\ \A i \in 1 .. Len(Tail(s)) : Tail(s)[i] = s[i + 1]
  OBVIOUS
<1>2. Tail(s) = <<>> <=> Len(Tail(s)) = 0
  BY <1>1, EmptySeq
<1> QED
  BY <1>1, <1>2

\* Every kind of line there is.
LEMMA LinesAre ==
    /\ \A kind \in Kinds \cup Terminals, data \in Words : Plain(kind, data) \in Events
    /\ \A kind \in Kinds \cup Terminals, data \in Words, shape \in {"line", "split"} :
          Line(kind, data, shape) \in Events
    /\ \A kind, data : Plain(kind, data).kind = kind
    /\ \A kind, data, shape : Line(kind, data, shape).kind = kind
    /\ Kinds \cap Terminals = {} /\ \A how : Outcome(how) \in Terminals
  BY DEF Line, Plain, Events, Kinds, Terminals, Outcome

\* The limits are no outcome.
LEMMA BudgetIs ==
    /\ Budget \in Seq(Events) /\ Len(Budget) \in {0, 1}
    /\ \A i \in 1 .. Len(Budget) : Quiet(Budget[i])
<1>1. Plain("budget.consumed", "limits") \in Events /\ Quiet(Plain("budget.consumed", "limits"))
  BY LinesAre DEF Kinds, Words, Quiet
<1>2. CASE req.deadline = Never
  BY <1>2 DEF Budget
<1>3. CASE req.deadline # Never
  BY <1>1, <1>3 DEF Budget
<1> QED
  BY <1>2, <1>3

\* A refusal ends with the outcome it has.
LEMMA RefusalIs ==
    ASSUME NEW code \in Refusals
    PROVE  Refusal(code) \in Seq(Events) /\ EndsWith(Refusal(code), Outcome(code))
<1>1. CASE code = "deadline"
  <2> DEFINE last == Plain("run.cancelled", code)
  <2>1. last \in Events /\ last.kind = Outcome(code)
    BY <1>1, LinesAre DEF Terminals, Words, Refusals, Outcome
  <2>2. Refusal(code) = Append(Budget, last)
    BY <1>1 DEF Refusal
  <2>3. Budget \in Seq(Events) /\ \A i \in 1 .. Len(Budget) : Quiet(Budget[i])
    BY BudgetIs
  <2> HIDE DEF last
  <2>4. /\ Append(Budget, last) \in Seq(Events) /\ Len(Append(Budget, last)) = Len(Budget) + 1
        /\ Append(Budget, last)[Len(Budget) + 1] = last
        /\ \A i \in 1 .. Len(Budget) : Append(Budget, last)[i] = Budget[i]
        /\ Len(Budget) \in Nat
    BY <2>1, <2>3
  <2>5. Append(Budget, last) # <<>>
    BY <2>4, EmptySeq
  <2> QED
    BY <2>1, <2>2, <2>3, <2>4, <2>5 DEF EndsWith
<1>2. CASE code = "invalid_request"
  <2>1. /\ Refusal(code) = <<Plain("run.failed", code)>>
        /\ Plain("run.failed", code).kind = Outcome(code)
    BY <1>2, LinesAre DEF Refusal, Outcome
  <2>2. Plain("run.failed", code) \in Events
    BY LinesAre, <1>2 DEF Terminals, Words, Refusals
  <2> QED
    BY <2>1, <2>2 DEF EndsWith
<1>3. CASE code \in {"grant_expired", "grant_invalid", "provider_unmapped"}
  <2> DEFINE a == Plain("livingdict.receipt", code)
             b == Plain("run.failed", code)
  <2>1. Refusal(code) = <<a, b>>
    BY <1>3 DEF Refusal
  <2>3. code \in Words /\ "livingdict.receipt" \in Kinds /\ "run.failed" \in Terminals
    BY DEF Kinds, Terminals, Words
  <2>4. a \in Events /\ b \in Events /\ Quiet(a)
    BY <2>3, LinesAre DEF Quiet
  <2>5. Outcome(code) = "run.failed"
    BY <1>3 DEF Outcome
  <2>2. a \in Events /\ b \in Events /\ Quiet(a) /\ b.kind = Outcome(code)
    BY <2>4, <2>5, LinesAre
  <2> HIDE DEF a, b
  <2> QED
    BY <2>1, <2>2 DEF EndsWith
<1> QED
  BY <1>1, <1>2, <1>3 DEF Refusals

\* A gate lets pass or refuses.
LEMMA VerdictIs ==
    ASSUME NEW gate \in ToSet(Gates)
    PROVE  Verdict(gate) \in {"pass"} \cup Refusals
<1>1. gate \in {"fields", "witness", "expires", "provider", "deadline", "workspace"}
  BY DEF Gates, ToSet
<1>2. WitnessVerdict \in {"pass"} \cup Refusals /\ ProviderVerdict \in {"pass"} \cup Refusals
  BY DEF WitnessVerdict, ProviderVerdict, Refusals
<1> QED
  BY <1>1, <1>2 DEF Verdict, Refusals

-----------------------------------------------------------------------------
\* The steps.

\* One thread at a time has a line in hand.
LEMMA OneHand ==
    ASSUME RInv, ~left
    PROVE  /\ place # "call" \/ todo # <<>> => \A p \in Pumps : hand[p] = Nothing
           /\ \A p \in Pumps : hand[p] # Nothing => \A t \in Threads : t # p => hand[t] = Nothing
<1>1. PumpsOK
  BY DEF RInv
<1> QED
  BY <1>1, ThreadsAre DEF PumpsOK

\* Every step keeps the invariant.
LEMMA EmitKeeps == ASSUME RInv, Emit PROVE RInv'
<1>0. RTypes /\ EndingOK /\ PumpsOK /\ NumbersOK /\ OutcomeOK /\ StartOK
  BY DEF RInv
<1>1. /\ place # "gone" /\ todo # <<>> /\ hand[Main] = Nothing
      /\ Number(Main, Head(todo)) /\ todo' = Tail(todo)
      /\ UNCHANGED <<place, ending, broken, used, pump, left>>
  BY DEF Emit, job
<1>2. /\ todo \in Seq(Events) /\ Head(todo) \in Events /\ Head(todo) = todo[1]
      /\ Tail(todo) \in Seq(Events)
      /\ Len(todo') = Len(todo) - 1 /\ Len(todo) \in Nat \ {0}
      /\ \A i \in 1 .. Len(todo') : todo'[i] = todo[i + 1]
      /\ todo' = <<>> <=> Len(todo) = 1
  BY <1>0, <1>1, TailIs DEF RTypes
<1>3. /\ out' = out /\ closed' = closed /\ seq' \in Nat
      /\ hand' \in [Threads -> {Nothing} \cup Numbers]
      /\ closed => hand' = hand /\ seq' = seq
      /\ ~closed => /\ seq' = seq + 1 /\ hand'[Main].line = Head(todo) /\ hand'[Main].seq = seq + 1
                    /\ hand'[Main] # Nothing
                    /\ \A u \in Threads : u # Main => hand'[u] = hand[u]
  BY <1>0, <1>1, <1>2, NumberIs, ThreadsAre
<1>4. RTypes'
  BY <1>0, <1>1, <1>2, <1>3 DEF RTypes
<1>5. EndingOK' /\ StartOK'
  BY <1>0, <1>1 DEF EndingOK, StartOK
<1>6. \A p \in Pumps : hand'[p] = hand[p] /\ p \in Threads /\ p # Main
  BY <1>3, ThreadsAre
<1>7. PumpsOK'
  BY <1>0, <1>1, <1>6 DEF PumpsOK
<1>8. NumbersOK'
  <2>1. SUFFICES ASSUME ~left PROVE NumbersOK'
    BY <1>1 DEF NumbersOK
  <2>2. \A t \in Threads : hand[t] = Nothing
    BY <1>1, <2>1, OneHand, ThreadsAre
  <2>3. CASE closed
    BY <1>0, <1>3, <2>1, <2>3 DEF NumbersOK
  <2>4. CASE ~closed
    <3>1. seq \in Nat /\ \A i \in DOMAIN out : out[i].seq \in 1 .. seq
      BY <1>0, <2>1 DEF RTypes, NumbersOK
    <3> QED
      BY <1>0, <1>3, <2>1, <2>2, <2>4, <3>1 DEF NumbersOK
  <2> QED
    BY <2>3, <2>4
<1>9. OutcomeOK'
  <2>1. SUFFICES ASSUME ~left, ~broken PROVE OutcomeOK'
    BY <1>1 DEF OutcomeOK
  <2>2. CASE place \notin Late
    <3>1. Working /\ ~closed
      BY <1>0, <2>1, <2>2 DEF OutcomeOK, Working, QuietOut
    <3>2. \A i \in DOMAIN todo' : Quiet(todo'[i])
      BY <1>1, <1>2, <3>1 DEF Working
    <3>3. Quiet(Head(todo))
      BY <1>2, <3>1 DEF Working
    <3>4. Working'
      BY <1>1, <1>3, <3>1, <3>2, <3>3 DEF Working, QuietOut
    <3> QED
      BY <1>1, <2>2, <3>4 DEF OutcomeOK, Late
  <2>3. CASE place \in Late
    <3>1. place = "last" /\ ending # "unreadable" /\ ToCome
      BY <1>0, <1>1, <2>1, <2>3 DEF OutcomeOK, Late, Unread, Said, InHand
    <3>2. ~closed /\ QuietOut' /\ hand'[Main].line = todo[1] /\ hand'[Main] # Nothing
      BY <1>2, <1>3, <3>1 DEF ToCome, QuietOut
    <3>3. ToCome' \/ InHand'
      <4>1. CASE Len(todo) = 1
        <5>1. todo' = <<>> /\ todo[1].kind = Outcome(ending)
          BY <1>2, <3>1, <4>1 DEF ToCome, EndsWith
        <5> QED
          BY <1>1, <3>2, <5>1 DEF InHand
      <4>2. CASE Len(todo) # 1
        <5>1. todo' # <<>> /\ todo'[Len(todo')] = todo[Len(todo)] /\ Quiet(todo[1])
              /\ \A i \in 1 .. Len(todo') - 1 : todo'[i] = todo[i + 1] /\ i + 1 \in 1 .. Len(todo) - 1
          BY <1>2, <3>1, <4>2 DEF ToCome, EndsWith
        <5>2. EndsWith(todo', Outcome(ending))
          BY <1>2, <3>1, <5>1 DEF ToCome, EndsWith
        <5> QED
          BY <1>1, <3>2, <5>1, <5>2 DEF ToCome
      <4> QED
        BY <4>1, <4>2
    <3> QED
      BY <1>1, <3>1, <3>3 DEF OutcomeOK, Late
  <2> QED
    BY <2>2, <2>3
<1> QED
  BY <1>4, <1>5, <1>7, <1>8, <1>9 DEF RInv

\* A line goes out, of the main thread or of a pump.
LEMMA WritingKeeps ==
    ASSUME RInv, place # "gone", NEW t \in Threads, Write(t),
           UNCHANGED <<place, todo, ending, broken, used, pump, left>>
    PROVE  RInv'
<1>0. RTypes /\ EndingOK /\ PumpsOK /\ NumbersOK /\ OutcomeOK /\ StartOK
  BY DEF RInv
<1>1. /\ hand[t] \in Numbers /\ hand[t] # Nothing
      /\ out' \in Seq(Numbers) /\ Len(out') = Len(out) + 1 /\ out'[Len(out) + 1] = hand[t]
      /\ \A i \in 1 .. Len(out) : out'[i] = out[i]
      /\ hand' \in [Threads -> {Nothing} \cup Numbers] /\ hand'[t] = Nothing
      /\ \A u \in Threads : u # t => hand'[u] = hand[u]
      /\ closed' = (closed \/ ~Quiet(hand[t].line)) /\ closed' \in BOOLEAN /\ seq' = seq
  BY <1>0, WriteIs
<1>2. /\ out \in Seq(Numbers) /\ Len(out) \in Nat
      /\ DOMAIN out = 1 .. Len(out) /\ DOMAIN out' = 1 .. Len(out) + 1
  BY <1>0, <1>1, LenProperties DEF RTypes
<1>4. RTypes'
  BY <1>0, <1>1 DEF RTypes
<1>5. EndingOK'
  BY <1>0 DEF EndingOK
<1>6. StartOK'
  <2>1. place # "read"
    BY <1>0, <1>1, ThreadsAre DEF StartOK, PumpsOK
  <2> QED
    BY <1>0, <2>1 DEF StartOK
<1>7. PumpsOK'
  BY <1>0, <1>1, ThreadsAre DEF PumpsOK
<1>8. NumbersOK'
  <2>1. SUFFICES ASSUME ~left PROVE NumbersOK'
    BY DEF NumbersOK
  <2>2. /\ hand[t].seq = seq /\ seq # 0 /\ \A i \in DOMAIN out : out[i].seq < seq
        /\ \A i \in DOMAIN out : out[i].seq \in 1 .. seq
        /\ \A i, j \in DOMAIN out : i < j => out[i].seq < out[j].seq
    BY <1>0, <1>1, <2>1 DEF NumbersOK
  <2>3. \A u \in Threads : hand'[u] = Nothing
    BY <1>0, <1>1, <2>1, OneHand, ThreadsAre DEF PumpsOK
  <2>4. seq \in Nat
    BY <1>0 DEF RTypes
  <2>5. \A i \in DOMAIN out' : \/ i \in DOMAIN out /\ out'[i] = out[i]
                               \/ i = Len(out) + 1 /\ out'[i].seq = seq
    BY <1>1, <1>2, <2>2
  <2>6. \A i \in DOMAIN out' : out'[i].seq \in 1 .. seq
    BY <2>2, <2>4, <2>5
  <2>7. ASSUME NEW i \in DOMAIN out', NEW j \in DOMAIN out', i < j PROVE out'[i].seq < out'[j].seq
    <3>1. i \in DOMAIN out /\ out'[i] = out[i]
      BY <1>1, <1>2, <2>7
    <3> QED
      BY <1>2, <2>2, <2>5, <2>7, <3>1
  <2> QED
    BY <1>1, <2>3, <2>6, <2>7 DEF NumbersOK
<1>9. OutcomeOK'
  <2>1. SUFFICES ASSUME ~left, ~broken PROVE OutcomeOK'
    BY DEF OutcomeOK
  <2>2. CASE place \notin Late
    <3>1. Working
      BY <1>0, <2>1, <2>2 DEF OutcomeOK
    <3>2. Quiet(hand[t].line) /\ ~closed'
      BY <1>1, <3>1 DEF Working, QuietOut
    <3>3. \A i \in DOMAIN out' : Quiet(out'[i].line)
      BY <1>1, <1>2, <3>1, <3>2 DEF Working, QuietOut
    <3>4. Working'
      BY <1>1, <3>1, <3>2, <3>3 DEF Working, QuietOut
    <3> QED
      BY <2>2, <3>4 DEF OutcomeOK, Late
  <2>3. CASE place \in Late
    <3>1. t = Main
      BY <1>0, <1>1, <2>1, <2>3, ThreadsAre DEF PumpsOK, Late
    <3>2. place = "last" /\ ending # "unreadable" /\ (ToCome \/ InHand)
      BY <1>0, <1>1, <2>1, <2>3, <3>1 DEF OutcomeOK, Late, Unread, Said
    <3>3. CASE ToCome
      <4>1. Quiet(hand[t].line) /\ ~closed'
        BY <1>1, <3>1, <3>3 DEF ToCome, QuietOut
      <4>2. \A i \in DOMAIN out' : Quiet(out'[i].line)
        BY <1>1, <1>2, <3>3, <4>1 DEF ToCome, QuietOut
      <4>3. ToCome'
        BY <1>1, <3>1, <3>3, <4>1, <4>2 DEF ToCome, QuietOut
      <4> QED
        BY <3>2, <4>3 DEF OutcomeOK, Late
    <3>4. CASE InHand
      <4>1. todo' = <<>> /\ hand'[Main] = Nothing /\ out'[Len(out')].line.kind = Outcome(ending)
        BY <1>1, <3>1, <3>4 DEF InHand
      <4>2. \A i \in 1 .. Len(out') - 1 : Quiet(out'[i].line)
        BY <1>1, <1>2, <3>4 DEF InHand, QuietOut
      <4>3. out' # <<>>
        BY <1>1, <1>2, EmptySeq
      <4>4. Said'
        BY <4>1, <4>2, <4>3 DEF Said
      <4> QED
        BY <3>2, <4>4 DEF OutcomeOK, Late
    <3> QED
      BY <3>2, <3>3, <3>4
  <2> QED
    BY <2>2, <2>3
<1> QED
  BY <1>4, <1>5, <1>6, <1>7, <1>8, <1>9 DEF RInv

\* The numbers are as they were where nothing is written.
LEMMA NumbersStay == ASSUME RInv, UNCHANGED stream, ~left' => ~left PROVE NumbersOK'
  BY DEF RInv, NumbersOK, stream

\* The main thread goes on with its work.
LEMMA GoingOnKeeps ==
    ASSUME RInv, place \notin Late, place' \notin Late \cup {"read"}, hand[Main] = Nothing,
           todo' \in Seq(Events), \A i \in DOMAIN todo' : Quiet(todo'[i]),
           place' = "spawn" => used < MaxCalls,
           left' \in BOOLEAN, ~left' => ~left, ~left' => \A p \in Pumps : pump[p] # "reads",
           UNCHANGED <<stream, ending, broken, used, pump>>
    PROVE  RInv'
<1>0. RTypes /\ EndingOK /\ PumpsOK /\ NumbersOK /\ OutcomeOK /\ StartOK
  BY DEF RInv
<1>1. RTypes' /\ EndingOK' /\ StartOK' /\ PumpsOK'
  <2>1. RTypes'
    BY <1>0 DEF RTypes, stream
  <2>2. EndingOK' /\ StartOK'
    BY <1>0 DEF EndingOK, StartOK, Late
  <2>3. PumpsOK'
    BY <1>0 DEF PumpsOK, stream
  <2> QED
    BY <2>1, <2>2, <2>3
<1>2. NumbersOK'
  BY NumbersStay
<1>3. OutcomeOK'
  <2>1. SUFFICES ASSUME ~left', ~broken PROVE OutcomeOK'
    BY DEF OutcomeOK
  <2>2. Working
    BY <1>0, <2>1 DEF OutcomeOK
  <2>3. Working'
    BY <2>2 DEF Working, QuietOut, stream
  <2> QED
    BY <2>3 DEF OutcomeOK, Late
<1> QED
  BY <1>0, <1>1, <1>2, <1>3 DEF RInv

\* It has come to an outcome and says so.
LEMMA SayingKeeps ==
    ASSUME RInv, place \notin Late, Free, NEW how, NEW words \in Seq(Events),
           EndsWith(words, Outcome(how)), how # "unreadable", Say(how, words),
           left' \in BOOLEAN, ~left' => ~left, ~left' => \A p \in Pumps : pump[p] # "reads",
           UNCHANGED <<stream, broken, used, pump>>
    PROVE  RInv'
<1>0. RTypes /\ EndingOK /\ PumpsOK /\ NumbersOK /\ OutcomeOK /\ StartOK
  BY DEF RInv
<1>1. place' = "last" /\ ending' = how /\ todo' = words /\ hand[Main] = Nothing /\ todo = <<>>
  BY DEF Say, Free
<1>2. RTypes' /\ EndingOK' /\ StartOK' /\ PumpsOK'
  <2>1. RTypes'
    BY <1>0, <1>1 DEF RTypes, stream
  <2>2. EndingOK' /\ StartOK'
    BY <1>0, <1>1 DEF EndingOK, StartOK, Late
  <2>3. PumpsOK'
    BY <1>0 DEF PumpsOK, stream
  <2> QED
    BY <2>1, <2>2, <2>3
<1>3. NumbersOK'
  BY NumbersStay
<1>4. OutcomeOK'
  <2>1. SUFFICES ASSUME ~left', ~broken PROVE OutcomeOK'
    BY DEF OutcomeOK
  <2>2. Working
    BY <1>0, <2>1 DEF OutcomeOK
  <2>3. QuietOut' /\ hand'[Main] = Nothing
    BY <1>1, <2>2 DEF Working, QuietOut, stream
  <2>4. ToCome'
    BY <1>1, <2>3 DEF ToCome
  <2> QED
    BY <1>1, <2>4 DEF OutcomeOK, Late
<1> QED
  BY <1>0, <1>2, <1>3, <1>4 DEF RInv

\* While it is not in a call no stderr is read, unless a thread was left behind.
LEMMA NobodyReads == ASSUME RInv, place # "call" PROVE ~left => \A p \in Pumps : pump[p] # "reads"
  BY DEF RInv, PumpsOK

\* One line by itself.
LEMMA OneLineIs ==
    ASSUME NEW l \in Events
    PROVE  /\ <<l>> \in Seq(Events) /\ DOMAIN <<l>> = {1} /\ <<l>>[1] = l
           /\ EndsWith(<<l>>, l.kind)
  BY DEF EndsWith

\* run_main: the request is read.
LEMMA ReadKeeps == ASSUME RInv, Read PROVE RInv'
<1>0. RTypes /\ EndingOK /\ PumpsOK /\ NumbersOK /\ OutcomeOK /\ StartOK
  BY DEF RInv
<1>1. /\ place = "read" /\ UNCHANGED <<stream, broken, used, pump, left>>
      /\ out = <<>> /\ todo = <<>> /\ hand[Main] = Nothing /\ \A p \in Pumps : pump[p] # "reads"
  BY <1>0 DEF Read, job, StartOK
<1>2. CASE req.parses
  <2> DEFINE l == Plain("run.started", "")
  <2>1. l \in Events /\ Quiet(l)
    BY LinesAre DEF Quiet, Kinds, Words
  <2>2. place' = "fields" /\ todo' = <<l>> /\ UNCHANGED ending
    BY <1>2 DEF Read
  <2> HIDE DEF l
  <2>3. todo' \in Seq(Events) /\ \A i \in DOMAIN todo' : Quiet(todo'[i])
    BY <2>1, <2>2, OneLineIs
  <2>4. place \notin Late /\ place' \notin Late \cup {"read"} /\ left' \in BOOLEAN
    BY <1>0, <1>1, <2>2 DEF Late, RTypes
  <2> QED
    BY <1>1, <2>2, <2>3, <2>4, GoingOnKeeps
<1>3. CASE ~req.parses
  <2>1. place' = "done" /\ ending' = "unreadable" /\ UNCHANGED todo
    BY <1>3 DEF Read
  <2>2. RTypes'
    BY <1>0, <1>1, <2>1 DEF RTypes, stream
  <2>3. EndingOK' /\ StartOK'
    BY <1>0, <1>1, <2>1 DEF EndingOK, StartOK, Late
  <2>4. PumpsOK'
    BY <1>0, <1>1 DEF PumpsOK, stream
  <2>5. NumbersOK'
    BY <1>1, NumbersStay
  <2>6. Unread'
    BY <1>1, <2>1 DEF Unread, stream
  <2>7. OutcomeOK'
    BY <2>1, <2>6 DEF OutcomeOK, Late
  <2> QED
    BY <2>2, <2>3, <2>4, <2>5, <2>7 DEF RInv
<1> QED
  BY <1>2, <1>3

\* A gate.
LEMMA GateKeeps == ASSUME RInv, Gate PROVE RInv'
<1>0. RTypes
  BY DEF RInv
<1>1. place \in ToSet(Gates) /\ Free /\ UNCHANGED <<stream, broken, used, pump, left>>
  BY DEF Gate, job
<1>2. place \in {"fields", "witness", "expires", "provider", "deadline", "workspace"}
  BY <1>1 DEF Gates, ToSet
<1>3. /\ place \notin Late /\ left' \in BOOLEAN /\ hand[Main] = Nothing
      /\ ~left' => ~left /\ \A p \in Pumps : pump[p] # "reads"
  BY <1>0, <1>1, <1>2, NobodyReads DEF Late, RTypes, Free
<1>4. CASE Verdict(place) # "pass"
  <2>1. Verdict(place) \in Refusals
    BY <1>1, <1>4, VerdictIs
  <2>2. Say(Verdict(place), Refusal(Verdict(place)))
    BY <1>4 DEF Gate
  <2>3. /\ Refusal(Verdict(place)) \in Seq(Events)
        /\ EndsWith(Refusal(Verdict(place)), Outcome(Verdict(place)))
    BY <2>1, RefusalIs
  <2>4. Verdict(place) # "unreadable"
    BY <2>1 DEF Refusals
  <2> QED
    BY <1>1, <1>3, <2>2, <2>3, <2>4, SayingKeeps
<1>5. CASE Verdict(place) = "pass"
  <2> DEFINE i == CHOOSE i \in DOMAIN Gates : Gates[i] = place
  <2>1. i \in DOMAIN Gates
    BY <1>2 DEF Gates
  <2>2. /\ place' = IF i = Len(Gates) THEN "head" ELSE Gates[i + 1]
        /\ todo' = IF place = "deadline" THEN Budget ELSE <<>>
        /\ UNCHANGED ending
    BY <1>5 DEF Gate
  <2> HIDE DEF i
  <2>3. place' \notin Late \cup {"read", "spawn"}
    BY <2>1, <2>2 DEF Gates, Late
  <2>4. todo' \in Seq(Events) /\ \A j \in DOMAIN todo' : Quiet(todo'[j])
    <3>1. CASE place = "deadline"
      BY <2>2, <3>1, BudgetIs, LenProperties
    <3>2. CASE place # "deadline"
      <4>1. todo' \in Seq(Events) /\ Len(todo') = 0
        BY <2>2, <3>2, EmptySeq
      <4>2. DOMAIN todo' = 1 .. 0
        BY <4>1, LenProperties
      <4> QED
        BY <4>1, <4>2
    <3> QED
      BY <3>1, <3>2
  <2> QED
    BY <1>1, <1>3, <2>2, <2>3, <2>4, GoingOnKeeps
<1> QED
  BY <1>4, <1>5

\* A job that ends says its outcome last.
LEMMA FinishIs ==
    ASSUME NEW decision \in {"cancelled", "success", "blocked", "halt_cap"}, Finish(decision)
    PROVE  \E words \in Seq(Events) : EndsWith(words, Outcome(decision)) /\ Say(decision, words)
<1> DEFINE a == Plain("livingdict.receipt", decision)
           b == Plain("message.delta", decision)
           c == TerminalOf(decision)
<1>1. Say(decision, <<a, b, c>>)
  BY DEF Finish
<1>2. decision \in Words /\ "livingdict.receipt" \in Kinds /\ "message.delta" \in Kinds
      /\ "succeeded" \in Words /\ "deadline" \in Words
      /\ {"run.completed", "run.cancelled", "run.failed"} \subseteq Kinds \cup Terminals
  BY DEF Words, Kinds, Terminals, Refusals
<1>3. a \in Events /\ b \in Events /\ Quiet(a) /\ Quiet(b)
  BY <1>2, LinesAre DEF Quiet
<1>4. c \in Events /\ c.kind = Outcome(decision)
  <2>1. CASE decision = "success"
    BY <1>2, <2>1, LinesAre DEF TerminalOf, Outcome
  <2>2. CASE decision = "cancelled"
    BY <1>2, <2>2, LinesAre DEF TerminalOf, Outcome
  <2>3. CASE decision \notin {"success", "cancelled"}
    BY <1>2, <2>3, LinesAre DEF TerminalOf, Outcome
  <2> QED
    BY <2>1, <2>2, <2>3
<1> HIDE DEF a, b, c
<1>5. <<a, b, c>> \in Seq(Events) /\ EndsWith(<<a, b, c>>, Outcome(decision))
  BY <1>3, <1>4 DEF EndsWith
<1> QED
  BY <1>1, <1>5

\* The head of the loop.
LEMMA DecideKeeps == ASSUME RInv, Decide PROVE RInv'
<1>0. RTypes
  BY DEF RInv
<1>1. place = "head" /\ Free /\ UNCHANGED <<stream, broken, used, pump, left>>
  BY DEF Decide, job
<1>3. /\ place \notin Late /\ left' \in BOOLEAN
      /\ ~left' => ~left /\ \A p \in Pumps : pump[p] # "reads"
  BY <1>0, <1>1, NobodyReads DEF Late, RTypes
<1>4. PICK d \in {"cancelled", "success", "blocked", "halt_cap"} : Finish(d)
  BY DEF Decide
<1>5. PICK words \in Seq(Events) : EndsWith(words, Outcome(d)) /\ Say(d, words)
  BY <1>4, FinishIs
<1>6. d # "unreadable"
  OBVIOUS
<1> QED
  BY <1>1, <1>3, <1>5, <1>6, SayingKeeps

\* A call of the planner is announced.
LEMMA AnnounceKeeps == ASSUME RInv, Announce PROVE RInv'
<1>0. RTypes
  BY DEF RInv
<1> DEFINE l == Plain("planner.call", "")
<1>1. /\ place = "head" /\ Free /\ UNCHANGED <<stream, ending, broken, used, pump, left>>
      /\ place' = "spawn" /\ todo' = <<l>> /\ used < MaxCalls
  BY DEF Announce, job
<1>2. l \in Events /\ Quiet(l)
  BY LinesAre DEF Quiet, Kinds, Words
<1> HIDE DEF l
<1>3. todo' \in Seq(Events) /\ \A i \in DOMAIN todo' : Quiet(todo'[i])
  BY <1>1, <1>2, OneLineIs
<1>4. /\ place \notin Late /\ place' \notin Late \cup {"read"} /\ left' \in BOOLEAN
      /\ ~left' => ~left /\ \A p \in Pumps : pump[p] # "reads"
  BY <1>0, <1>1, NobodyReads DEF Late, RTypes
<1> QED
  BY <1>1, <1>3, <1>4, GoingOnKeeps DEF Free

\* The planner and its pump are started.
LEMMA SpawnKeeps == ASSUME RInv, Spawn PROVE RInv'
<1>0. RTypes /\ EndingOK /\ PumpsOK /\ NumbersOK /\ OutcomeOK /\ StartOK
  BY DEF RInv
<1>1. /\ place = "spawn" /\ todo = <<>> /\ hand[Main] = Nothing
      /\ place' = "call" /\ used' = used + 1 /\ pump' = [pump EXCEPT ![used + 1] = "reads"]
      /\ UNCHANGED <<stream, todo, ending, broken, left>>
  BY DEF Spawn, Free
<1>2. used + 1 \in Pumps /\ used + 1 \in 0 .. MaxCalls
  BY <1>0, <1>1, RangeAssumption DEF RTypes, Pumps, StartOK
<1>3. pump'[used + 1] = "reads" /\ \A p \in Pumps : p # used + 1 => pump'[p] = pump[p]
  BY <1>0, <1>1, <1>2 DEF RTypes
<1>4. RTypes'
  BY <1>0, <1>1, <1>2 DEF RTypes, stream
<1>5. EndingOK' /\ StartOK'
  BY <1>0, <1>1 DEF EndingOK, StartOK, Late
<1>6. PumpsOK'
  BY <1>0, <1>1, <1>3, NobodyReads DEF PumpsOK, stream
<1>7. NumbersOK'
  BY <1>1, NumbersStay
<1>8. OutcomeOK'
  BY <1>0, <1>1 DEF OutcomeOK, Late, Working, QuietOut, stream
<1> QED
  BY <1>4, <1>5, <1>6, <1>7, <1>8 DEF RInv

\* The call returns.
LEMMA ReturnKeeps == ASSUME RInv, Return PROVE RInv'
<1>0. RTypes /\ PumpsOK
  BY DEF RInv
<1>1. /\ place = "call" /\ Free /\ left' = (left \/ pump[used] = "reads")
      /\ UNCHANGED <<stream, broken, used, pump>>
  BY DEF Return
<1>2. /\ place \notin Late /\ left' \in BOOLEAN
      /\ ~left' => ~left /\ \A p \in Pumps : pump[p] # "reads"
  BY <1>0, <1>1 DEF Late, RTypes, PumpsOK
<1>3. CASE planner = "nothing"
  <2>1. PICK shape \in {"line", "split"} : Say("planner", <<Line("run.failed", "planner", shape)>>)
    BY <1>3 DEF Return
  <2> DEFINE l == Line("run.failed", "planner", shape)
  <2>4. "run.failed" \in Terminals /\ "planner" \in Words
    BY DEF Words, Terminals
  <2>2. l \in Events /\ l.kind = Outcome("planner")
    BY <2>4, LinesAre DEF Outcome
  <2>3. Say("planner", <<l>>)
    BY <2>1
  <2> HIDE DEF l
  <2>5. <<l>> \in Seq(Events) /\ EndsWith(<<l>>, Outcome("planner"))
    BY <2>2, OneLineIs
  <2> QED
    BY <1>1, <1>2, <2>3, <2>5, SayingKeeps
<1>4. CASE place' = "head" /\ todo' = <<Plain("plan.proposed", "")>> /\ UNCHANGED ending
  <2> DEFINE l == Plain("plan.proposed", "")
  <2>1. l \in Events /\ Quiet(l) /\ todo' = <<l>>
    BY <1>4, LinesAre DEF Quiet, Kinds, Words
  <2> HIDE DEF l
  <2>2. todo' \in Seq(Events) /\ \A i \in DOMAIN todo' : Quiet(todo'[i])
    BY <2>1, OneLineIs
  <2>3. place' \notin Late \cup {"read", "spawn"}
    BY <1>4 DEF Late
  <2> QED
    BY <1>1, <1>2, <1>4, <2>2, <2>3, GoingOnKeeps DEF Free
<1>5. CASE Say("internal", <<Plain("run.failed", "internal")>>)
  <2> DEFINE l == Plain("run.failed", "internal")
  <2>1. l \in Events /\ l.kind = Outcome("internal") /\ Say("internal", <<l>>)
    BY <1>5, LinesAre DEF Words, Terminals, Outcome
  <2> HIDE DEF l
  <2>2. <<l>> \in Seq(Events) /\ EndsWith(<<l>>, Outcome("internal"))
    BY <2>1, OneLineIs
  <2> QED
    BY <1>1, <1>2, <2>1, <2>2, SayingKeeps
<1> QED
  BY <1>3, <1>4, <1>5 DEF Return

\* Nothing of what the invariant speaks of changes.
LEMMA StayingKeeps ==
    ASSUME RInv, UNCHANGED <<place, todo, ending, broken, stream, used, pump, left>>
    PROVE  RInv'
<1>0. RTypes /\ EndingOK /\ PumpsOK /\ NumbersOK /\ OutcomeOK /\ StartOK
  BY DEF RInv
<1>1. RTypes' /\ EndingOK' /\ PumpsOK'
  BY <1>0 DEF RTypes, EndingOK, PumpsOK, stream
<1>2. NumbersOK'
  BY NumbersStay
<1>3. StartOK'
  BY <1>0 DEF StartOK, stream
<1>4. /\ Working' = Working /\ ToCome' = ToCome /\ InHand' = InHand /\ Said' = Said
      /\ Unread' = Unread
  BY DEF Working, ToCome, InHand, Said, Unread, QuietOut, stream
<1>5. OutcomeOK'
  BY <1>0, <1>4 DEF OutcomeOK
<1> QED
  BY <1>1, <1>2, <1>3, <1>5 DEF RInv

\* The main thread is done, and then the process is.
LEMMA LeavingKeeps ==
    ASSUME RInv, \/ place = "last" /\ Free /\ place' = "done"
                 \/ place = "done" /\ place' = "gone",
           UNCHANGED <<todo, ending, broken, stream, used, pump, left>>
    PROVE  RInv'
<1>0. RTypes /\ EndingOK /\ PumpsOK /\ NumbersOK /\ OutcomeOK /\ StartOK
  BY DEF RInv
<1>1. RTypes' /\ EndingOK' /\ PumpsOK' /\ StartOK'
  BY <1>0 DEF RTypes, EndingOK, PumpsOK, StartOK, stream, Late
<1>2. NumbersOK'
  BY NumbersStay
<1>4. Said' = Said /\ Unread' = Unread
  BY DEF Said, Unread, stream
<1>5. OutcomeOK'
  <2>1. SUFFICES ASSUME ~left, ~broken PROVE OutcomeOK'
    BY DEF OutcomeOK
  <2>2. Unread \/ (ending # "unreadable" /\ Said)
    BY <1>0, <2>1 DEF OutcomeOK, ToCome, InHand, Free, EndsWith
  <2> QED
    BY <1>4, <2>2 DEF OutcomeOK, Late
<1> QED
  BY <1>1, <1>2, <1>5 DEF RInv

\* SIGINT.
LEMMA InterruptKeeps == ASSUME RInv, Interrupt PROVE RInv'
<1>0. RTypes /\ EndingOK /\ PumpsOK /\ NumbersOK /\ OutcomeOK /\ StartOK
  BY DEF RInv
<1> DEFINE l == Plain("run.cancelled", "interrupted")
<1>1. /\ place \notin {"read", "done", "gone"}
      /\ broken' = (hand[Main] # Nothing \/ place = "last")
      /\ left' = (left \/ \E p \in Pumps : pump[p] = "reads")
      /\ hand' = [hand EXCEPT ![Main] = Nothing] /\ ending' = "interrupted"
      /\ UNCHANGED <<seq, closed, out, used, pump>>
      /\ \/ place' = "last" /\ todo' = <<l>>
         \/ place = "last" /\ place' = "done" /\ todo' = <<>>
  BY DEF Interrupt
<1>2. l \in Events /\ l.kind = Outcome("interrupted")
  BY LinesAre DEF Words, Terminals, Outcome
<1> HIDE DEF l
<1>3. <<l>> \in Seq(Events) /\ EndsWith(<<l>>, Outcome("interrupted")) /\ <<>> \in Seq(Events)
  BY <1>2, OneLineIs
<1>4. /\ hand' \in [Threads -> {Nothing} \cup Numbers] /\ hand'[Main] = Nothing
      /\ \A t \in Threads : hand'[t] # Nothing => hand'[t] = hand[t]
      /\ \A p \in Pumps : hand'[p] = hand[p]
  BY <1>0, <1>1, ThreadsAre DEF RTypes
<1>5. RTypes'
  BY <1>0, <1>1, <1>3, <1>4 DEF RTypes
<1>6. EndingOK' /\ StartOK'
  BY <1>0, <1>1 DEF EndingOK, StartOK, Late
<1>7. PumpsOK'
  BY <1>0, <1>1, <1>4 DEF PumpsOK
<1>8. NumbersOK'
  BY <1>0, <1>1, <1>4 DEF NumbersOK
<1>9. OutcomeOK'
  <2>1. SUFFICES ASSUME ~left', ~broken' PROVE OutcomeOK'
    BY DEF OutcomeOK
  <2>2. place \notin Late /\ place' = "last" /\ todo' = <<l>> /\ ~left /\ ~broken
    BY <1>0, <1>1, <2>1 DEF Late, EndingOK
  <2>3. Working
    BY <1>0, <2>2 DEF OutcomeOK
  <2>4. ToCome'
    BY <1>1, <1>3, <1>4, <2>2, <2>3 DEF Working, ToCome, QuietOut
  <2> QED
    BY <1>1, <2>2, <2>4 DEF OutcomeOK, Late
<1> QED
  BY <1>5, <1>6, <1>7, <1>8, <1>9 DEF RInv

\* A pump numbers a line.
LEMMA PumpEmitKeeps == ASSUME RInv, NEW p \in Pumps, PumpEmit(p) PROVE RInv'
<1>0. RTypes /\ EndingOK /\ PumpsOK /\ NumbersOK /\ OutcomeOK /\ StartOK
  BY DEF RInv
<1>1. /\ pump[p] = "reads" /\ hand[p] = Nothing
      /\ UNCHANGED <<place, todo, ending, broken, used, pump, left>>
  BY DEF PumpEmit
<1>2. PICK shape \in {"line", "split"} : Number(p, Line("planner.stderr", "", shape))
  BY DEF PumpEmit
<1> DEFINE l == Line("planner.stderr", "", shape)
<1>3. l \in Events /\ Quiet(l) /\ Number(p, l)
  <2>1. "planner.stderr" \in Kinds /\ "" \in Words
    BY DEF Words, Kinds
  <2>2. /\ Line("planner.stderr", "", shape) \in Events
        /\ Line("planner.stderr", "", shape).kind = "planner.stderr"
    BY <2>1, LinesAre
  <2>3. "planner.stderr" \notin Terminals
    BY DEF Terminals
  <2> QED
    BY <1>2, <2>2, <2>3 DEF Quiet
<1> HIDE DEF l
<1>4. /\ out' = out /\ closed' = closed /\ seq' \in Nat
      /\ hand' \in [Threads -> {Nothing} \cup Numbers]
      /\ closed => hand' = hand /\ seq' = seq
      /\ ~closed => /\ seq' = seq + 1 /\ hand'[p].line = l /\ hand'[p].seq = seq + 1
                    /\ hand'[p] # Nothing
                    /\ \A u \in Threads : u # p => hand'[u] = hand[u]
  BY <1>0, <1>3, NumberIs, ThreadsAre
<1>5. RTypes'
  BY <1>0, <1>1, <1>4 DEF RTypes
<1>6. EndingOK' /\ StartOK'
  BY <1>0, <1>1 DEF EndingOK, StartOK
<1>7. hand'[Main] = hand[Main] /\ \A u \in Pumps : u # p => hand'[u] = hand[u]
  BY <1>4, ThreadsAre
<1>8. PumpsOK'
  BY <1>0, <1>1, <1>7 DEF PumpsOK
<1>9. NumbersOK' /\ OutcomeOK'
  <2>1. SUFFICES ASSUME ~left PROVE NumbersOK' /\ OutcomeOK'
    BY <1>1 DEF NumbersOK, OutcomeOK
  <2>2. /\ p = used /\ place = "call" /\ hand[Main] = Nothing
        /\ \A t \in Threads : hand[t] = Nothing
    BY <1>0, <1>1, <2>1, ThreadsAre DEF PumpsOK
  <2>3. NumbersOK'
    <3>2. CASE closed
      BY <1>0, <1>4, <2>1, <3>2 DEF NumbersOK
    <3>3. CASE ~closed
      <4>1. seq \in Nat /\ \A i \in DOMAIN out : out[i].seq \in 1 .. seq
        BY <1>0, <2>1 DEF RTypes, NumbersOK
      <4> QED
        BY <1>0, <1>4, <2>1, <2>2, <3>3, <4>1 DEF NumbersOK
    <3> QED
      BY <3>2, <3>3
  <2>4. OutcomeOK'
    <3>1. SUFFICES ASSUME ~broken PROVE Working'
      BY <1>1, <2>2 DEF OutcomeOK, Late
    <3>2. Working
      BY <1>0, <2>1, <2>2, <3>1 DEF OutcomeOK, Late
    <3> QED
      BY <1>1, <1>3, <1>4, <3>2 DEF Working, QuietOut
  <2> QED
    BY <2>3, <2>4
<1> QED
  BY <1>5, <1>6, <1>8, <1>9 DEF RInv

\* A pump ends.
LEMMA PumpEndsKeeps == ASSUME RInv, NEW p \in Pumps, PumpEnds(p) PROVE RInv'
<1>0. RTypes /\ EndingOK /\ PumpsOK /\ NumbersOK /\ OutcomeOK /\ StartOK
  BY DEF RInv
<1>1. /\ pump[p] = "reads" /\ hand[p] = Nothing /\ pump' = [pump EXCEPT ![p] = "gone"]
      /\ UNCHANGED <<place, todo, ending, broken, stream, used, left>>
  BY DEF PumpEnds
<1>2. pump'[p] = "gone" /\ \A u \in Pumps : u # p => pump'[u] = pump[u]
  BY <1>0, <1>1 DEF RTypes
<1>3. RTypes' /\ EndingOK' /\ StartOK'
  BY <1>0, <1>1, <1>2 DEF RTypes, EndingOK, StartOK, stream
<1>4. PumpsOK'
  BY <1>0, <1>1, <1>2 DEF PumpsOK, stream
<1>5. NumbersOK'
  BY <1>1, NumbersStay
<1>6. /\ Working' = Working /\ ToCome' = ToCome /\ InHand' = InHand /\ Said' = Said
      /\ Unread' = Unread
  BY <1>1 DEF Working, ToCome, InHand, Said, Unread, QuietOut, stream
<1>7. OutcomeOK'
  BY <1>0, <1>1, <1>6 DEF OutcomeOK
<1> QED
  BY <1>3, <1>4, <1>5, <1>7 DEF RInv

\* Any step.
LEMMA RequestKeeps == ASSUME RInv, [RequestNext]_request PROVE RInv'
<1>1. CASE Read
  BY <1>1, ReadKeeps
<1>2. CASE Emit
  BY <1>2, EmitKeeps
<1>3. CASE Put
  <2>1. place # "gone" /\ Write(Main) /\ UNCHANGED <<place, todo, ending, broken, used, pump, left>>
    BY <1>3 DEF Put, job
  <2> QED
    BY <2>1, ThreadsAre, WritingKeeps
<1>4. CASE Gate
  BY <1>4, GateKeeps
<1>5. CASE Decide
  BY <1>5, DecideKeeps
<1>6. CASE Announce
  BY <1>6, AnnounceKeeps
<1>7. CASE Spawn
  BY <1>7, SpawnKeeps
<1>8. CASE Return
  BY <1>8, ReturnKeeps
<1>9. CASE Done \/ Exit
  <2>1. /\ \/ place = "last" /\ Free /\ place' = "done"
           \/ place = "done" /\ place' = "gone"
        /\ UNCHANGED <<todo, ending, broken, stream, used, pump, left>>
    BY <1>9 DEF Done, Exit, job
  <2> QED
    BY <2>1, LeavingKeeps
<1>10. CASE PlannerEnds \/ Tick \/ UNCHANGED request
  <2>1. UNCHANGED <<place, todo, ending, broken, stream, used, pump, left>>
    BY <1>10 DEF PlannerEnds, Tick, request, job
  <2> QED
    BY <2>1, StayingKeeps
<1>11. CASE Interrupt
  BY <1>11, InterruptKeeps
<1>12. CASE \E p \in Pumps : PumpEmit(p) \/ PumpPut(p) \/ PumpEnds(p)
  <2>1. PICK p \in Pumps : PumpEmit(p) \/ PumpPut(p) \/ PumpEnds(p)
    BY <1>12
  <2>2. CASE PumpPut(p)
    <3>1. place # "gone" /\ Write(p) /\ UNCHANGED <<place, todo, ending, broken, used, pump, left>>
      BY <2>2 DEF PumpPut, job
    <3> QED
      BY <3>1, ThreadsAre, WritingKeeps
  <2> QED
    BY <2>1, <2>2, PumpEmitKeeps, PumpEndsKeeps
<1> QED
  BY <1>1, <1>2, <1>3, <1>4, <1>5, <1>6, <1>7, <1>8, <1>9, <1>10, <1>11, <1>12
     DEF RequestNext, MainStep

-----------------------------------------------------------------------------
\* The reader.

\* What the reader has made of the lines before the first.
Fresh == [error |-> "none", outcome |-> "none", previous |-> 0]

\* There is a function that takes n lines one after the other.
LEMMA TakenExists ==
    ASSUME NEW text, NEW n \in Nat
    PROVE  \E f : f = [k \in 0 .. n |-> IF k = 0 THEN Fresh ELSE Take(f[k - 1], text[k])]
<1> DEFINE P(m) == \E f : f = [k \in 0 .. m |-> IF k = 0 THEN Fresh ELSE Take(f[k - 1], text[k])]
           T == {m \in Nat : ~P(m)}
<1> SUFFICES ASSUME T # {}
             PROVE  FALSE
  OBVIOUS
<1> HIDE DEF P
<1>1. PICK m \in T : \A n1 \in T : m <= n1
  BY SmallestOf
<1>2. P(0)
  <2> DEFINE f == [k \in 0 .. 0 |-> Fresh]
  <2>1. f = [k \in 0 .. 0 |-> IF k = 0 THEN Fresh ELSE Take(f[k - 1], text[k])]
    OBVIOUS
  <2> QED
    BY <2>1 DEF P
<1>3. m # 0 /\ m \in Nat /\ P(m - 1)
  BY <1>1, <1>2
<1>4. PICK f : f = [k \in 0 .. m - 1 |-> IF k = 0 THEN Fresh ELSE Take(f[k - 1], text[k])]
  BY <1>3 DEF P
<1> DEFINE g == [k \in 0 .. m |-> IF k = m THEN Take(f[m - 1], text[m]) ELSE f[k]]
<1>5. ASSUME NEW k \in 0 .. m
      PROVE  g[k] = IF k = 0 THEN Fresh ELSE Take(g[k - 1], text[k])
  BY <1>3, <1>4
<1> HIDE DEF g
<1>6. g = [k \in 0 .. m |-> g[k]]
  BY DEF g
<1>7. g = [k \in 0 .. m |-> IF k = 0 THEN Fresh ELSE Take(g[k - 1], text[k])]
  BY <1>5, <1>6
<1>8. P(m)
  BY <1>7 DEF P
<1> QED
  BY <1>1, <1>8

\* The reader takes the lines one after the other.
LEMMA TakenIs ==
    ASSUME NEW text, Len(text) \in Nat
    PROVE  /\ Taken(text)[0] = Fresh
           /\ \A k \in 1 .. Len(text) : Taken(text)[k] = Take(Taken(text)[k - 1], text[k])
<1> DEFINE n == Len(text)
           f == Taken(text)
<1>1. f = [k \in 0 .. n |-> IF k = 0 THEN Fresh ELSE Take(f[k - 1], text[k])]
  BY TakenExists DEF Taken, Fresh
<1> HIDE DEF f
<1>2. f[0] = Fresh /\ \A k \in 1 .. n : f[k] = Take(f[k - 1], text[k])
  BY <1>1
<1> QED
  BY <1>2 DEF f

\* One line, numbered higher than the one before.
LEMMA TakeIs ==
    ASSUME NEW previous \in Nat, NEW event, event.seq \in Nat, event.seq > previous,
           event.line.shape # "split"
    PROVE  Take([error |-> "none", outcome |-> "none", previous |-> previous], event)
           = [error |-> "none", previous |-> event.seq,
              outcome |-> IF Quiet(event.line) THEN "none" ELSE event.line.kind]
<1> DEFINE r == [error |-> "none", outcome |-> "none", previous |-> previous]
<1>1. r.error = "none" /\ r.outcome = "none" /\ r.previous = previous /\ ~(event.seq <= previous)
  OBVIOUS
<1>2. Take(r, event) = [r EXCEPT !.previous = event.seq,
                                 !.outcome = IF event.line.kind \in Terminals
                                             THEN event.line.kind ELSE @]
  BY <1>1 DEF Take
<1>3. CASE Quiet(event.line)
  BY <1>2, <1>3 DEF Quiet
<1>4. CASE ~Quiet(event.line)
  BY <1>2, <1>4 DEF Quiet
<1> QED
  BY <1>3, <1>4

\* A split line.
LEMMA TakeFails ==
    ASSUME NEW previous, NEW event, event.line.shape = "split"
    PROVE  Take([error |-> "none", outcome |-> "none", previous |-> previous], event).error = "decode"
  BY DEF Take

\* A stream whose numbers grow and whose only terminal line is the last.
Regular(text) ==
    /\ text # <<>> /\ Len(text) \in Nat \ {0}
    /\ \A i \in 1 .. Len(text) : text[i].seq \in Nat \ {0}
    /\ \A i, j \in 1 .. Len(text) : i < j => text[i].seq < text[j].seq
    /\ \A i \in 1 .. Len(text) - 1 : Quiet(text[i].line)

\* As far as no line is split, the reader has got the numbers and no outcome before the last.
LEMMA ReadsOn ==
    ASSUME NEW text, Regular(text), NEW top \in 1 .. Len(text),
           \A i \in 1 .. top : text[i].line.shape # "split"
    PROVE  /\ top < Len(text) => \E v \in Nat : v = text[top].seq /\
                  Taken(text)[top] = [error |-> "none", outcome |-> "none", previous |-> v]
           /\ top = Len(text) /\ ~Quiet(text[top].line) =>
                  Taken(text)[top].error = "none" /\ Taken(text)[top].outcome = text[top].line.kind
<1> DEFINE f == Taken(text)
           is(k, v) == f[k] = [error |-> "none", outcome |-> "none", previous |-> v]
           seen(k) == IF k = 0 THEN 0 ELSE text[k].seq
           T == {k \in Nat : k < Len(text) /\ k <= top /\ ~is(k, seen(k))}
<1>0. /\ Len(text) \in Nat \ {0} /\ top \in Nat /\ f[0] = Fresh
      /\ \A k \in 1 .. Len(text) : f[k] = Take(f[k - 1], text[k])
      /\ \A i \in 1 .. Len(text) : text[i].seq \in Nat \ {0}
      /\ \A i, j \in 1 .. Len(text) : i < j => text[i].seq < text[j].seq
      /\ \A i \in 1 .. Len(text) - 1 : Quiet(text[i].line)
  <2>1. Len(text) \in Nat \ {0} /\ top \in Nat
    BY DEF Regular
  <2>2. f[0] = Fresh /\ \A k \in 1 .. Len(text) : f[k] = Take(f[k - 1], text[k])
    BY <2>1, TakenIs
  <2> HIDE DEF f
  <2> QED
    BY <2>1, <2>2 DEF Regular
<1> HIDE DEF f
<1>1. ASSUME NEW k \in 1 .. top, is(k - 1, seen(k - 1))
      PROVE  f[k] = [error |-> "none", previous |-> text[k].seq,
                     outcome |-> IF Quiet(text[k].line) THEN "none" ELSE text[k].line.kind]
  <2>1. k \in 1 .. Len(text) /\ text[k].line.shape # "split" /\ text[k].seq \in Nat
    BY <1>0
  <2>2. seen(k - 1) \in Nat /\ text[k].seq > seen(k - 1)
    BY <1>0, <2>1
  <2>3. f[k] = Take([error |-> "none", outcome |-> "none", previous |-> seen(k - 1)], text[k])
    BY <1>0, <1>1, <2>1
  <2> HIDE DEF seen
  <2> QED
    BY <2>1, <2>2, <2>3, TakeIs
<1>2. T = {}
  <2>1. SUFFICES ASSUME T # {} PROVE FALSE
    OBVIOUS
  <2>2. PICK k \in T : \A j \in T : k <= j
    BY <2>1, SmallestOf
  <2>3. k # 0
    BY <1>0, <2>2 DEF Fresh
  <2>4. k - 1 \in Nat /\ k - 1 \notin T /\ k \in 1 .. top /\ k \in 1 .. Len(text) - 1
    BY <1>0, <2>2, <2>3
  <2>5. is(k - 1, seen(k - 1))
    BY <1>0, <2>4
  <2>6. Quiet(text[k].line)
    BY <1>0, <2>4
  <2>7. is(k, seen(k))
    BY <1>1, <2>3, <2>4, <2>5, <2>6
  <2> QED
    BY <2>2, <2>7
<1>3. ASSUME NEW k \in 0 .. top, k < Len(text) PROVE is(k, seen(k))
  <2>1. k \in Nat /\ k <= top
    BY <1>0
  <2> HIDE DEF is, seen
  <2> QED
    BY <1>2, <1>3, <2>1
<1>4. ASSUME top < Len(text)
      PROVE  \E v \in Nat : v = text[top].seq /\ is(top, v)
  BY <1>0, <1>3, <1>4
<1>5. ASSUME top = Len(text), ~Quiet(text[top].line)
      PROVE  f[top].error = "none" /\ f[top].outcome = text[top].line.kind
  <2>1. top - 1 \in 0 .. top /\ top - 1 < Len(text)
    BY <1>0, <1>5
  <2>2. is(top - 1, seen(top - 1))
    BY <1>3, <2>1
  <2>3. f[top] = [error |-> "none", previous |-> text[top].seq, outcome |-> text[top].line.kind]
    BY <1>1, <1>5, <2>2
  <2> QED
    BY <2>3
<1> QED
  BY <1>4, <1>5 DEF f

\* A split line makes it refuse the stream.
LEMMA SplitRefused ==
    ASSUME NEW text, Regular(text), NEW i0 \in 1 .. Len(text), text[i0].line.shape = "split"
    PROVE  Consume(text).error = "decode"
<1> DEFINE f == Taken(text)
           n == Len(text)
           T == {k \in Nat : k \in 1 .. n /\ text[k].line.shape = "split"}
<1>0. n \in Nat \ {0} /\ f[0] = Fresh /\ \A k \in 1 .. n : f[k] = Take(f[k - 1], text[k])
  BY TakenIs DEF Regular
<1>1. PICK k \in T : \A j \in T : k <= j
  <2>1. i0 \in T
    BY <1>0
  <2> QED
    BY <2>1, SmallestOf
<1>2. \E v : f[k - 1] = [error |-> "none", outcome |-> "none", previous |-> v]
  <2>1. CASE k = 1
    <3>1. k - 1 = 0 /\ f[0] = [error |-> "none", outcome |-> "none", previous |-> 0]
      BY <1>0, <2>1 DEF Fresh
    <3> HIDE DEF f
    <3> QED
      BY <3>1
  <2>2. CASE k # 1
    <3>1. k - 1 \in 1 .. n /\ k - 1 < n
      BY <1>0, <1>1, <2>2
    <3>2. \A j \in 1 .. k - 1 : text[j].line.shape # "split"
      BY <1>0, <1>1, <3>1
    <3> HIDE DEF T
    <3>3. \E v \in Nat : v = text[k - 1].seq
             /\ Taken(text)[k - 1] = [error |-> "none", outcome |-> "none", previous |-> v]
      BY <3>1, <3>2, ReadsOn
    <3> QED
      BY <3>3
  <2> QED
    BY <2>1, <2>2
<1>3. f[k].error = "decode"
  BY <1>0, <1>1, <1>2, TakeFails
<1> DEFINE U == {j \in Nat : k <= j /\ j <= n /\ f[j].error # "decode"}
<1>4. U = {}
  <2>1. SUFFICES ASSUME U # {} PROVE FALSE
    OBVIOUS
  <2> HIDE DEF f
  <2>2. PICK j \in U : \A j1 \in U : j <= j1
    BY <2>1, SmallestOf
  <2>3. j # k
    BY <1>3, <2>2
  <2>4. j - 1 \in Nat /\ k <= j - 1 /\ j - 1 <= n /\ j \in 1 .. n
    BY <1>0, <1>1, <2>2, <2>3
  <2>5. f[j - 1].error = "decode"
    BY <2>2, <2>4
  <2>6. f[j] = f[j - 1]
    BY <1>0, <2>4, <2>5 DEF Take
  <2> QED
    BY <2>2, <2>5, <2>6
<1>5. f[n].error = "decode"
  BY <1>0, <1>1, <1>4
<1> QED
  BY <1>5 DEF Consume

\* A regular stream without one is accepted, with the outcome of its last line.
LEMMA AcceptsIt ==
    ASSUME NEW text, Regular(text), \A i \in 1 .. Len(text) : text[i].line.shape # "split",
           text[Len(text)].line.kind \in Terminals
    PROVE  Consume(text).error = "none" /\ Consume(text).outcome = text[Len(text)].line.kind
<1>1. Len(text) \in 1 .. Len(text) /\ ~Quiet(text[Len(text)].line)
  BY DEF Regular, Quiet
<1>2. /\ Taken(text)[Len(text)].error = "none"
      /\ Taken(text)[Len(text)].outcome = text[Len(text)].line.kind
  BY <1>1, ReadsOn
<1>3. text[Len(text)].line.kind # "none"
  BY DEF Terminals
<1> QED
  BY <1>2, <1>3 DEF Consume

\* The invariant tells what the reader finds.
LEMMA ReaderDoes == RInv => ReaderAgrees
<1> SUFFICES ASSUME RInv, place = "gone", ~left, ~broken
             PROVE  IF ending = "unreadable" THEN out = <<>>
                    ELSE IF Splits THEN Consume(out).error = "decode"
                    ELSE Consume(out).error = "none" /\ Consume(out).outcome = Outcome(ending)
  BY DEF ReaderAgrees
<1>0. RTypes /\ NumbersOK /\ OutcomeOK
  BY DEF RInv
<1>1. Unread \/ (ending # "unreadable" /\ Said)
  BY <1>0 DEF OutcomeOK
<1>2. CASE ending = "unreadable"
  BY <1>1, <1>2 DEF Unread
<1>3. CASE ending # "unreadable"
  <2>1. Said
    BY <1>1, <1>3 DEF Unread
  <2>2. out \in Seq(Numbers) /\ seq \in Nat
    BY <1>0 DEF RTypes
  <2>3. out # <<>> /\ DOMAIN out = 1 .. Len(out) /\ Len(out) \in Nat \ {0}
    BY <2>1, <2>2, EmptySeq, LenProperties DEF Said
  <2>4. Regular(out)
    BY <1>0, <2>1, <2>2, <2>3 DEF Regular, NumbersOK, Said
  <2>5. out[Len(out)].line.kind = Outcome(ending) /\ Outcome(ending) \in Terminals
    BY <2>1, LinesAre DEF Said
  <2>6. CASE Splits
    <3>1. PICK i \in 1 .. Len(out) : out[i].line.shape = "split"
      BY <2>3, <2>6 DEF Splits
    <3> QED
      BY <1>3, <2>4, <2>6, <3>1, SplitRefused
  <2>7. CASE ~Splits
    <3>1. \A i \in 1 .. Len(out) : out[i].line.shape # "split"
      BY <2>3, <2>7 DEF Splits
    <3> QED
      BY <1>3, <2>4, <2>5, <2>7, <3>1, AcceptsIt
  <2> QED
    BY <2>6, <2>7
<1> QED
  BY <1>2, <1>3

\* The stream's invariant: who may write when, in which order, and where the outcome is
\* (EventStream.emit, cli.call_planner_json, runner.execute_request).
THEOREM StreamInvariant == RequestSpec => []RInv
<1>1. RequestInit => RInv
  BY RequestStarts
<1>2. RInv /\ [RequestNext]_request => RInv'
  BY RequestKeeps
<1> QED
  BY <1>1, <1>2, PTL DEF RequestSpec

\* What the parent reads is what happened, for every request, clock, number of calls and of lines
\* (rho.consume_rho_v1 on what EventStream.emit wrote).
THEOREM ReaderAgreesAlways == RequestSpec => []ReaderAgrees
  BY StreamInvariant, ReaderDoes, PTL
=============================================================================
