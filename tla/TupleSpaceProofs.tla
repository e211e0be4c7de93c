-------------------------- MODULE TupleSpaceProofs --------------------------
(***************************************************************************)
(* Theorems about TupleSpace, for every set of tuples and patterns and     *)
(* every bound. The state is split in two: Core speaks of where each tuple *)
(* is and which claims were made of it, Queue of the waiters.              *)
(***************************************************************************)
EXTENDS TupleSpace, FiniteSetTheorems, WellFoundedInduction, TLAPS

-----------------------------------------------------------------------------
\* The inductive invariant.

Entries == [key : Seqs, id : Ids, gen : Nat, tuple : Tuples]
Leases  == [id : Ids, gen : Nat \ {0}, tuple : Tuples, ref : Nat]
Waiters == [seq : Seqs, pattern : Patterns, timed : BOOLEAN]
Grants  == [seq : Seqs, id : Ids, gen : Nat \ {0}]

\* b, ls: a bag and a set of leases; tk, ak, ex: tokens taken, acknowledged and
\* expired; n: the next tuple id.
CoreTypes(b, ls, tk, ak, ex, n) ==
    /\ b \subseteq Entries /\ ls \subseteq Leases
    /\ tk \subseteq Tokens /\ ak \subseteq Tokens /\ ex \subseteq Tokens
    /\ n \in 1 .. MaxTuples + 1

Placed(b, ls, ak) ==
    /\ \A d, e \in b : d.id = e.id => d = e
    /\ \A l, m \in ls : l.id = m.id => l = m
    /\ \A e \in b, l \in ls : e.id # l.id
    /\ \A x \in b \cup ls, t \in ak : t.id # x.id

NoneLost(b, ls, ak, n) ==
    \A i \in 1 .. n - 1 : (\E x \in b \cup ls : x.id = i) \/ (\E t \in ak : t.id = i)

\* No token is newer than the tuple it names, and none names a tuple yet to come.
Fenced(b, ls, tk, n) ==
    /\ \A x \in b \cup ls, t \in tk : t.id = x.id => t.gen <= x.gen
    /\ \A x \in b \cup ls : x.id < n
    /\ \A t \in tk : t.id < n

Accounted(ls, tk, ak, ex) ==
    /\ tk = {Token(l) : l \in ls} \cup ak \cup ex
    /\ {Token(l) : l \in ls} \cap ak = {}
    /\ {Token(l) : l \in ls} \cap ex = {}
    /\ ak \cap ex = {}

AckedNewest(tk, ak) == \A t \in ak, u \in tk : u.id = t.id => u.gen <= t.gen

Core(b, ls, tk, ak, ex, n) ==
    /\ CoreTypes(b, ls, tk, ak, ex, n)
    /\ Placed(b, ls, ak)
    /\ NoneLost(b, ls, ak, n)
    /\ Fenced(b, ls, tk, n)
    /\ Accounted(ls, tk, ak, ex)
    /\ AckedNewest(tk, ak)

CoreInv == Core(bag, leases, taken, acked, expired, nextId)

-----------------------------------------------------------------------------
\* Claiming some entries of a bag, as handoff and take do.

Claimed(given) == {NewLease(e) : e \in given}
ClaimTokens(given) == {Token(l) : l \in Claimed(given)}

\* The token of a new claim was never given out before.
LEMMA ClaimsAreFresh ==
    ASSUME NEW b, NEW ls, NEW tk, NEW ak, NEW ex, NEW n,
           Core(b, ls, tk, ak, ex, n), NEW given \in SUBSET b
    PROVE  ClaimTokens(given) \cap tk = {}
<1> SUFFICES ASSUME NEW t \in ClaimTokens(given), t \in tk PROVE FALSE
  OBVIOUS
<1>1. PICK e \in given : t.id = e.id /\ t.gen = e.gen + 1
  BY DEF ClaimTokens, Claimed, NewLease, Token
<1>2. t.gen <= e.gen /\ e.gen \in Nat
  BY <1>1 DEF Core, Fenced, CoreTypes, Entries
<1>3. QED BY <1>1, <1>2

LEMMA ClaimKeepsCore ==
    ASSUME NEW b, NEW ls, NEW tk, NEW ak, NEW ex, NEW n,
           Core(b, ls, tk, ak, ex, n), NEW given \in SUBSET b
    PROVE  Core(b \ given, ls \cup Claimed(given), tk \cup ClaimTokens(given), ak, ex, n)
<1> DEFINE c == b \ given
           ms == ls \cup Claimed(given)
           uk == tk \cup ClaimTokens(given)
<1>1. CoreTypes(c, ms, uk, ak, ex, n)
  BY DEF Core, CoreTypes, Claimed, ClaimTokens, NewLease, Token, Entries, Leases, Tokens
<1>2. Placed(c, ms, ak)
  <2>1. \A m \in Claimed(given) : \E e \in given : m.id = e.id /\ m = NewLease(e)
    BY DEF Claimed, NewLease
  <2>2. QED BY <2>1 DEF Core, Placed
<1>3. NoneLost(c, ms, ak, n)
  <2>1. \A e \in given : NewLease(e) \in ms /\ NewLease(e).id = e.id
    BY DEF Claimed, NewLease
  <2> SUFFICES ASSUME NEW i \in 1 .. n - 1, \A t \in ak : t.id # i
               PROVE  \E x \in c \cup ms : x.id = i
    BY DEF NoneLost
  <2>2. PICK x \in b \cup ls : x.id = i
    BY DEF Core, NoneLost
  <2>3. CASE x \in given BY <2>1, <2>2, <2>3
  <2>4. CASE x \notin given BY <2>2, <2>4
  <2>5. QED BY <2>3, <2>4
<1>4. Fenced(c, ms, uk, n)
  <2>1. \A m \in Claimed(given) : \E e \in given :
            m.id = e.id /\ m.gen = e.gen + 1 /\ Token(m).id = e.id /\ Token(m).gen = e.gen + 1
    BY DEF Claimed, NewLease, Token
  <2>2. \A t \in ClaimTokens(given) : \E e \in given : t.id = e.id /\ t.gen = e.gen + 1
    BY <2>1 DEF ClaimTokens
  <2>3. \A x \in c \cup ms : x \in b \cup ls \/ x \in Claimed(given)
    OBVIOUS
  <2>4. \A e \in b : e.gen \in Nat
    BY DEF Core, CoreTypes, Entries
  <2>5. \A t \in tk : t.gen \in Nat
    BY DEF Core, CoreTypes, Tokens
  <2>6. ASSUME NEW x \in c \cup ms, NEW t \in uk, t.id = x.id
        PROVE  t.gen <= x.gen
    <3>1. CASE x \in Claimed(given)
      <4>1. PICK e \in given : x.id = e.id /\ x.gen = e.gen + 1 BY <3>1, <2>1
      <4>2. CASE t \in tk
        <5>1. t.gen <= e.gen BY <4>1, <4>2, <2>6 DEF Core, Fenced
        <5>2. QED BY <5>1, <4>1, <4>2, <2>4, <2>5
      <4>3. CASE t \in ClaimTokens(given)
        <5>1. PICK d \in given : t.id = d.id /\ t.gen = d.gen + 1 BY <4>3, <2>2
        <5>2. d = e BY <5>1, <4>1, <2>6 DEF Core, Placed
        <5>3. QED BY <5>1, <5>2, <4>1, <2>4
      <4>4. QED BY <4>2, <4>3
    <3>2. CASE x \in c
      <4>1. t \in tk
        <5>1. ASSUME t \in ClaimTokens(given) PROVE FALSE
          <6>1. PICK d \in given : t.id = d.id BY <5>1, <2>2
          <6>2. QED BY <6>1, <3>2, <2>6 DEF Core, Placed
        <5>2. QED BY <5>1
      <4>2. QED BY <4>1, <3>2, <2>6 DEF Core, Fenced
    <3>3. CASE x \in ls
      <4>1. t \in tk
        <5>1. ASSUME t \in ClaimTokens(given) PROVE FALSE
          <6>1. PICK d \in given : t.id = d.id BY <5>1, <2>2
          <6>2. QED BY <6>1, <3>3, <2>6 DEF Core, Placed
        <5>2. QED BY <5>1
      <4>2. QED BY <4>1, <3>3, <2>6 DEF Core, Fenced
    <3>4. QED BY <3>1, <3>2, <3>3
  <2>7. \A x \in c \cup ms : x.id < n
    BY <2>1 DEF Core, Fenced
  <2>8. \A t \in uk : t.id < n
    BY <2>2 DEF Core, Fenced
  <2>9. QED BY <2>6, <2>7, <2>8 DEF Fenced
<1>5. Accounted(ms, uk, ak, ex)
  <2>1. {Token(l) : l \in ms} = {Token(l) : l \in ls} \cup ClaimTokens(given)
    BY DEF ClaimTokens
  <2>3. ClaimTokens(given) \cap tk = {}
    BY ClaimsAreFresh
  <2>4. ak \subseteq tk /\ ex \subseteq tk
    BY DEF Core, Accounted
  <2>5. QED BY <2>1, <2>3, <2>4 DEF Core, Accounted
<1>6. AckedNewest(uk, ak)
  <2>1. \A u \in ClaimTokens(given) : \E e \in given : u.id = e.id
    BY DEF ClaimTokens, Claimed, NewLease, Token
  <2>2. QED BY <2>1 DEF Core, Placed, AckedNewest
<1>7. QED BY <1>1, <1>2, <1>3, <1>4, <1>5, <1>6 DEF Core

-----------------------------------------------------------------------------
\* The other changes of the core: a new tuple, an expired lease, a renewal, an ack.

LEMMA NewTupleKeepsCore ==
    ASSUME NEW b, NEW ls, NEW tk, NEW ak, NEW ex, NEW n,
           Core(b, ls, tk, ak, ex, n), n <= MaxTuples,
           NEW e \in Entries, e.id = n, e.gen = 0
    PROVE  Core(b \cup {e}, ls, tk, ak, ex, n + 1)
<1> USE BoundsAssumption
<1>1. n \in Nat /\ n >= 1
  BY DEF Core, CoreTypes
<1>2. \A x \in b \cup ls : x.id # n /\ x.id < n + 1
  BY <1>1 DEF Core, Fenced, CoreTypes, Entries, Leases, Ids
<1>3. \A t \in tk : t.id # n /\ t.id < n + 1
  BY <1>1 DEF Core, Fenced, CoreTypes, Tokens, Ids
<1>4. ak \subseteq tk
  BY DEF Core, Accounted
<1>5. CoreTypes(b \cup {e}, ls, tk, ak, ex, n + 1)
  BY <1>1 DEF Core, CoreTypes
<1>6. Placed(b \cup {e}, ls, ak)
  BY <1>2, <1>3, <1>4 DEF Core, Placed
<1>7. NoneLost(b \cup {e}, ls, ak, n + 1)
  BY <1>1 DEF Core, NoneLost
<1>8. Fenced(b \cup {e}, ls, tk, n + 1)
  BY <1>1, <1>2, <1>3 DEF Core, Fenced
<1>9. QED BY <1>5, <1>6, <1>7, <1>8 DEF Core

LEMMA ExpiryKeepsCore ==
    ASSUME NEW b, NEW ls, NEW tk, NEW ak, NEW ex, NEW n,
           Core(b, ls, tk, ak, ex, n),
           NEW l \in ls, NEW e \in Entries, e.id = l.id, e.gen = l.gen
    PROVE  Core(b \cup {e}, ls \ {l}, tk, ak, ex \cup {Token(l)}, n)
<1>1. \A m \in ls \ {l} : m.id # l.id
  BY DEF Core, Placed
<1>2. Token(l) \in Tokens /\ Token(l) \notin ak
  BY DEF Core, CoreTypes, Leases, Tokens, Token, Accounted
<1>3. CoreTypes(b \cup {e}, ls \ {l}, tk, ak, ex \cup {Token(l)}, n)
  BY <1>2 DEF Core, CoreTypes
<1>4. Placed(b \cup {e}, ls \ {l}, ak)
  BY <1>1 DEF Core, Placed
<1>5. NoneLost(b \cup {e}, ls \ {l}, ak, n)
  <2> SUFFICES ASSUME NEW i \in 1 .. n - 1, \A t \in ak : t.id # i
               PROVE  \E x \in (b \cup {e}) \cup (ls \ {l}) : x.id = i
    BY DEF NoneLost
  <2>1. PICK x \in b \cup ls : x.id = i BY DEF Core, NoneLost
  <2>2. CASE x = l BY <2>1, <2>2
  <2>3. CASE x # l BY <2>1, <2>3
  <2>4. QED BY <2>2, <2>3
<1>6. Fenced(b \cup {e}, ls \ {l}, tk, n)
  BY DEF Core, Fenced
<1>7. Accounted(ls \ {l}, tk, ak, ex \cup {Token(l)})
  <2>1. {Token(m) : m \in ls} = {Token(m) : m \in ls \ {l}} \cup {Token(l)}
    OBVIOUS
  <2>2. Token(l) \notin {Token(m) : m \in ls \ {l}}
    BY <1>1 DEF Token
  <2>3. QED BY <1>2, <2>1, <2>2 DEF Core, Accounted
<1>8. QED BY <1>3, <1>4, <1>5, <1>6, <1>7 DEF Core

LEMMA RenewKeepsCore ==
    ASSUME NEW b, NEW ls, NEW tk, NEW ak, NEW ex, NEW n,
           Core(b, ls, tk, ak, ex, n),
           NEW l \in ls, NEW m \in Leases, m.id = l.id, m.gen = l.gen
    PROVE  Core(b, (ls \ {l}) \cup {m}, tk, ak, ex, n)
<1> DEFINE ms == (ls \ {l}) \cup {m}
<1>1. \A k \in ls \ {l} : k.id # l.id
  BY DEF Core, Placed
<1>2. CoreTypes(b, ms, tk, ak, ex, n)
  BY DEF Core, CoreTypes
<1>3. Placed(b, ms, ak)
  BY <1>1 DEF Core, Placed
<1>4. NoneLost(b, ms, ak, n)
  <2> SUFFICES ASSUME NEW i \in 1 .. n - 1, \A t \in ak : t.id # i
               PROVE  \E x \in b \cup ms : x.id = i
    BY DEF NoneLost
  <2>1. PICK x \in b \cup ls : x.id = i BY DEF Core, NoneLost
  <2>2. CASE x = l BY <2>1, <2>2
  <2>3. CASE x # l BY <2>1, <2>3
  <2>4. QED BY <2>2, <2>3
<1>5. Fenced(b, ms, tk, n)
  BY DEF Core, Fenced
<1>6. Accounted(ms, tk, ak, ex)
  <2>1. Token(m) = Token(l) BY DEF Token
  <2>2. {Token(k) : k \in ms} = {Token(k) : k \in ls} BY <2>1
  <2>3. QED BY <2>2 DEF Core, Accounted
<1>7. QED BY <1>2, <1>3, <1>4, <1>5, <1>6 DEF Core

LEMMA AckKeepsCore ==
    ASSUME NEW b, NEW ls, NEW tk, NEW ak, NEW ex, NEW n,
           Core(b, ls, tk, ak, ex, n), NEW l \in ls
    PROVE  Core(b, ls \ {l}, tk, ak \cup {Token(l)}, ex, n)
<1>1. \A m \in ls \ {l} : m.id # l.id
  BY DEF Core, Placed
<1>2. Token(l).id = l.id /\ Token(l).gen = l.gen
  BY DEF Token
<1>3. CoreTypes(b, ls \ {l}, tk, ak \cup {Token(l)}, ex, n)
  BY DEF Core, CoreTypes, Leases, Tokens, Token
<1>4. Placed(b, ls \ {l}, ak \cup {Token(l)})
  BY <1>1, <1>2 DEF Core, Placed
<1>5. NoneLost(b, ls \ {l}, ak \cup {Token(l)}, n)
  BY <1>2 DEF Core, NoneLost
<1>6. Fenced(b, ls \ {l}, tk, n)
  BY DEF Core, Fenced
<1>7. Accounted(ls \ {l}, tk, ak \cup {Token(l)}, ex)
  <2>1. {Token(m) : m \in ls} = {Token(m) : m \in ls \ {l}} \cup {Token(l)}
    OBVIOUS
  <2>2. Token(l) \notin {Token(m) : m \in ls \ {l}}
    BY <1>1 DEF Token
  <2>3. QED BY <2>1, <2>2 DEF Core, Accounted
<1>8. AckedNewest(tk, ak \cup {Token(l)})
  BY <1>2 DEF Core, Fenced, AckedNewest
<1>9. QED BY <1>3, <1>4, <1>5, <1>6, <1>7, <1>8 DEF Core

-----------------------------------------------------------------------------
\* The queue of waiters.

\* ws: waiters; n: the last waiter seq; gr, rf: waiters answered with a claim, with
\* nil; tk: tokens taken.
Queue(ws, n, gr, rf, tk) ==
    /\ ws \subseteq Waiters /\ n \in Nat /\ gr \subseteq Grants /\ rf \subseteq Seqs
    /\ \A v, w \in ws : v.seq = w.seq => v = w
    /\ \A w \in ws : w.seq <= n /\ w.seq \notin rf
    /\ \A s \in rf : s <= n
    /\ \A g \in gr : g.seq <= n /\ Token(g) \in tk /\ g.seq \notin rf
    /\ \A g, h \in gr : g.seq = h.seq \/ Token(g) = Token(h) => g = h
    /\ \A w \in ws, g \in gr : g.seq # w.seq

NobodyStarved(b, ws) == \A w \in ws, e \in b : ~SubsetMatch(w.pattern, e.tuple)

QueueInv == Queue(waiters, waiterSeq, granted, refused, taken)

\* The service order is total on the queue.
LEMMA BeforeIsTotal ==
    ASSUME NEW v \in waiters, NEW w \in waiters, v # w, QueueInv
    PROVE  Before(v, w) \/ Before(w, v)
<1>1. \A u \in waiters : Specificity(u.pattern) \in Nat
  BY PatternAssumption, FS_CardinalityType DEF QueueInv, Queue, Waiters, Specificity
<1>2. v.seq \in Nat /\ w.seq \in Nat /\ v.seq # w.seq
  BY DEF QueueInv, Queue, Waiters, Seqs
<1>3. QED BY <1>1, <1>2 DEF Before

\* Entries have an oldest one.
LEMMA SomeOldest ==
    ASSUME NEW S, S # {}, \A e \in S : e.key \in Nat
    PROVE  Oldest(S) \in S /\ \A d \in S : Oldest(S).key <= d.key
<1> DEFINE K == {e.key : e \in S}
<1>1. K \subseteq Nat /\ K # {}
  OBVIOUS
<1>2. PICK k \in K : \A j \in K : <<j, k>> \notin OpToRel(<, Nat)
  BY <1>1, WFMin, NatLessThanWellFounded
<1>3. \A j \in K : k <= j
  <2> SUFFICES ASSUME NEW j \in K, j < k PROVE FALSE
    BY <1>1
  <2>1. j \in Nat /\ k \in Nat
    BY <1>1
  <2>2. <<j, k>> \in {ss \in Nat \X Nat : ss[1] < ss[2]}
    BY <2>1
  <2>3. <<j, k>> \in OpToRel(<, Nat)
    BY <2>1, <2>2, Zenon DEF OpToRel
  <2>4. QED BY <2>3, <1>2, Zenon
<1>4. PICK e \in S : e.key = k
  OBVIOUS
<1>5. \E x \in S : \A d \in S : x.key <= d.key
  BY <1>3, <1>4
<1>6. QED BY <1>5 DEF Oldest

\* A handoff is a one-to-one assignment of matching entries, and leaves no waiter
\* with an entry it could have had.
LEMMA HandoffAssignment ==
    ASSUME NEW b, \A e \in b : e.key \in Nat, NEW f \in Handoffs(b), QueueInv
    PROVE  /\ DOMAIN f \subseteq waiters
           /\ \A w \in DOMAIN f : f[w] \in b
           /\ \A v, w \in DOMAIN f : f[v] = f[w] => v = w
           /\ NobodyStarved(b \ {f[w] : w \in DOMAIN f}, waiters \ DOMAIN f)
<1>1. PICK W \in SUBSET waiters : f \in [W -> b]
  BY DEF Handoffs
<1>2. \A w \in waiters : w \in DOMAIN f <=> LeftFor(b, f, w) # {}
  BY DEF Handoffs
<1>3. \A w \in DOMAIN f : f[w] = Oldest(LeftFor(b, f, w))
  BY DEF Handoffs
<1>4. \A v, w \in DOMAIN f : f[v] = f[w] => v = w
  <2>1. ASSUME NEW v \in DOMAIN f, NEW w \in DOMAIN f, Before(v, w)
        PROVE  f[v] # f[w]
    <3>1. LeftFor(b, f, w) # {} BY <1>1, <1>2
    <3>2. f[w] \in LeftFor(b, f, w)
      <4>1. LeftFor(b, f, w) \subseteq b BY DEF LeftFor, Matching
      <4>2. QED BY <3>1, <1>3, <4>1, SomeOldest
    <3>3. QED BY <3>2, <2>1 DEF LeftFor
  <2>2. QED BY <2>1, <1>1, BeforeIsTotal
<1>5. NobodyStarved(b \ {f[w] : w \in DOMAIN f}, waiters \ DOMAIN f)
  <2> SUFFICES ASSUME NEW w \in waiters, w \notin DOMAIN f,
                      NEW e \in b, e \notin {f[v] : v \in DOMAIN f},
                      SubsetMatch(w.pattern, e.tuple)
               PROVE  FALSE
    BY DEF NobodyStarved
  <2>1. e \in LeftFor(b, f, w) BY DEF LeftFor, Matching
  <2>2. QED BY <2>1, <1>2
<1>6. QED BY <1>1, <1>4, <1>5

-----------------------------------------------------------------------------
\* Timers.

\* run, msgs: the running lease timers and the messages of those that fired. A timer
\* runs or has fired, was started for a claim, and never for a later renewal than
\* the lease's last.
Clock(ls, run, msgs, tk) ==
    /\ run \subseteq Timers /\ msgs \subseteq Timers
    /\ run \cap msgs = {}
    /\ \A t \in run \cup msgs : Token(t) \in tk
    /\ \A t \in run \cup msgs, l \in ls : Token(l) = Token(t) => t.ref <= l.ref

ClockInv == Clock(leases, leaseTimers, leaseMsgs, taken)

OtherTypes ==
    /\ seq \in Nat
    /\ waiterTimers \subseteq Seqs /\ timeoutMsgs \subseteq Seqs /\ downMsgs \subseteq Seqs

IInv == CoreInv /\ QueueInv /\ NobodyStarved(bag, waiters) /\ ClockInv /\ OtherTypes

NewTimers(given) == {TimerOf(l) : l \in Claimed(given)}

LEMMA ClaimKeepsClock ==
    ASSUME NEW b, NEW ls, NEW tk, NEW ak, NEW ex, NEW n,
           Core(b, ls, tk, ak, ex, n), NEW given \in SUBSET b,
           NEW run, NEW msgs, Clock(ls, run, msgs, tk)
    PROVE  Clock(ls \cup Claimed(given), run \cup NewTimers(given), msgs,
                 tk \cup ClaimTokens(given))
<1>1. ClaimTokens(given) \cap tk = {}
  BY ClaimsAreFresh
<1>2. \A l \in Claimed(given) : l.ref = 0 /\ Token(l) \in ClaimTokens(given)
  BY DEF Claimed, NewLease, ClaimTokens
<1>3. \A t \in NewTimers(given) : t.ref = 0 /\ Token(t) \in ClaimTokens(given)
  <2>1. \A l : TimerOf(l).ref = l.ref /\ Token(TimerOf(l)) = Token(l)
    BY DEF TimerOf, Token
  <2>2. QED BY <1>2, <2>1 DEF NewTimers
<1>4. \A l \in ls : Token(l) \in tk /\ l.ref \in Nat
  BY DEF Core, CoreTypes, Accounted, Leases
<1>5. NewTimers(given) \subseteq Timers
  BY DEF Core, CoreTypes, NewTimers, Claimed, NewLease, TimerOf, Entries, Timers
<1>6. NewTimers(given) \cap msgs = {}
  BY <1>1, <1>3 DEF Clock
<1>7. ASSUME NEW t \in run \cup NewTimers(given) \cup msgs, NEW l \in ls \cup Claimed(given),
             Token(l) = Token(t)
      PROVE  t.ref <= l.ref
  <2>1. CASE t \in NewTimers(given)
    BY <2>1, <1>2, <1>3, <1>4, <1>7
  <2>2. CASE t \in run \cup msgs
    BY <2>2, <1>1, <1>2, <1>7 DEF Clock
  <2>3. QED BY <2>1, <2>2
<1>8. QED BY <1>3, <1>5, <1>6, <1>7 DEF Clock

\* What a handoff does to all of it. b, ls, run, msgs: the bag, leases, timers and
\* messages it starts from.
LEMMA HandoffKeeps ==
    ASSUME NEW b, NEW ls, NEW ak, NEW ex, NEW n, NEW run, NEW msgs,
           Core(b, ls, taken, ak, ex, n), Clock(ls, run, msgs, taken),
           QueueInv, OtherTypes, Handoff(b, ls, run)
    PROVE  /\ Core(bag', leases', taken', ak, ex, n)
           /\ Clock(leases', leaseTimers', msgs, taken')
           /\ Queue(waiters', waiterSeq, granted', refused, taken')
           /\ NobodyStarved(bag', waiters')
           /\ waiterTimers' \subseteq Seqs /\ downMsgs' \subseteq Seqs
           /\ ls \subseteq leases'
<1>1. PICK f \in Handoffs(b) :
        LET given  == {f[w] : w \in DOMAIN f}
            new    == {NewLease(e) : e \in given}
            served == {w.seq : w \in DOMAIN f}
        IN  /\ bag' = b \ given
            /\ leases' = ls \cup new
            /\ leaseTimers' = run \cup {TimerOf(l) : l \in new}
            /\ taken' = taken \cup {Token(l) : l \in new}
            /\ granted' = granted \cup
                   {[seq |-> w.seq, id |-> f[w].id, gen |-> f[w].gen + 1] : w \in DOMAIN f}
            /\ waiters' = waiters \ DOMAIN f
            /\ waiterTimers' = waiterTimers \ served
            /\ downMsgs' = downMsgs \ served
  BY DEF Handoff
<1> DEFINE given == {f[w] : w \in DOMAIN f}
<1>2. /\ bag' = b \ given
      /\ leases' = ls \cup Claimed(given)
      /\ leaseTimers' = run \cup NewTimers(given)
      /\ taken' = taken \cup ClaimTokens(given)
  BY <1>1 DEF Claimed, NewTimers, ClaimTokens
<1>3. \A e \in b : e \in Entries /\ e.key \in Nat
  BY DEF Core, CoreTypes, Entries, Seqs
<1>4. /\ DOMAIN f \subseteq waiters
      /\ \A w \in DOMAIN f : f[w] \in b
      /\ \A v, w \in DOMAIN f : f[v] = f[w] => v = w
      /\ NobodyStarved(b \ given, waiters \ DOMAIN f)
  BY <1>3, HandoffAssignment
<1> HIDE DEF given
<1>5. given \in SUBSET b
  BY <1>4 DEF given
<1>6. Core(bag', leases', taken', ak, ex, n)
  BY <1>2, <1>5, ClaimKeepsCore
<1>7. Clock(leases', leaseTimers', msgs, taken')
  BY <1>2, <1>5, ClaimKeepsClock
<1>8. NobodyStarved(bag', waiters')
  BY <1>1, <1>2, <1>4
<1>9. Queue(waiters', waiterSeq, granted', refused, taken')
  <2> DEFINE G(w) == [seq |-> w.seq, id |-> f[w].id, gen |-> f[w].gen + 1]
  <2>1. granted' = granted \cup {G(w) : w \in DOMAIN f}
    BY <1>1
  <2>2. \A w \in DOMAIN f : /\ G(w) \in Grants /\ G(w).seq = w.seq
                            /\ Token(G(w)) \in ClaimTokens(given)
    <3> SUFFICES ASSUME NEW w \in DOMAIN f
                 PROVE  /\ G(w) \in Grants /\ G(w).seq = w.seq
                        /\ Token(G(w)) \in ClaimTokens(given)
      OBVIOUS
    <3>1. f[w] \in Entries /\ w \in Waiters /\ f[w] \in given
      BY <1>3, <1>4 DEF QueueInv, Queue, given
    <3>2. Token(G(w)) = Token(NewLease(f[w]))
      BY DEF Token, NewLease
    <3>3. QED BY <3>1, <3>2 DEF Entries, Waiters, Grants, ClaimTokens, Claimed
  <2>3. ClaimTokens(given) \cap taken = {}
    BY <1>5, ClaimsAreFresh
  <2>4. \A v, w \in DOMAIN f : Token(G(v)) = Token(G(w)) => v = w
    <3> SUFFICES ASSUME NEW v \in DOMAIN f, NEW w \in DOMAIN f, Token(G(v)) = Token(G(w))
                 PROVE  v = w
      OBVIOUS
    <3>1. f[v].id = f[w].id
      BY DEF Token
    <3>2. f[v] = f[w]
      BY <3>1, <1>4 DEF Core, Placed
    <3>3. QED BY <3>2, <1>4
  <2> HIDE DEF G
  <2>5. \A w \in DOMAIN f : w \in waiters /\ w.seq <= waiterSeq /\ w.seq \notin refused
                           /\ \A g \in granted : g.seq # w.seq
    BY <1>4 DEF QueueInv, Queue
  <2>6. \A v, w \in DOMAIN f : v.seq = w.seq => v = w
    BY <1>4 DEF QueueInv, Queue
  <2>7. ASSUME NEW g \in granted', NEW h \in granted', g.seq = h.seq \/ Token(g) = Token(h)
        PROVE  g = h
    <3>1. CASE g \in granted /\ h \in granted
      BY <3>1, <2>7 DEF QueueInv, Queue
    <3>2. CASE g \in granted /\ h \notin granted
      BY <3>2, <2>1, <2>2, <2>3, <2>5, <2>7 DEF QueueInv, Queue
    <3>3. CASE g \notin granted /\ h \in granted
      BY <3>3, <2>1, <2>2, <2>3, <2>5, <2>7 DEF QueueInv, Queue
    <3>4. CASE g \notin granted /\ h \notin granted
      BY <3>4, <2>1, <2>2, <2>4, <2>6, <2>7
    <3>5. QED BY <3>1, <3>2, <3>3, <3>4
  <2>8. \A g \in granted' : g.seq <= waiterSeq /\ Token(g) \in taken' /\ g.seq \notin refused
    BY <2>1, <2>2, <2>5, <1>2 DEF QueueInv, Queue
  <2>9. \A w \in waiters', g \in granted' : g.seq # w.seq
    BY <1>1, <1>4, <2>1, <2>2 DEF QueueInv, Queue
  <2>10. waiters' \subseteq waiters /\ granted' \subseteq Grants
    BY <1>1, <2>1, <2>2 DEF QueueInv, Queue
  <2>11. QED BY <2>7, <2>8, <2>9, <2>10 DEF QueueInv, Queue
<1>10. QED BY <1>1, <1>2, <1>6, <1>7, <1>8, <1>9 DEF OtherTypes

-----------------------------------------------------------------------------
\* The invariant is inductive.

LEMMA InitIInv == Init => IInv
<1> SUFFICES ASSUME Init PROVE IInv
  OBVIOUS
<1> USE BoundsAssumption DEF Init
<1>1. CoreInv
  BY DEF CoreInv, Core, CoreTypes, Placed, NoneLost, Fenced, Accounted, AckedNewest
<1>2. QueueInv
  BY DEF QueueInv, Queue
<1>3. NobodyStarved(bag, waiters) /\ ClockInv /\ OtherTypes
  BY DEF NobodyStarved, ClockInv, Clock, OtherTypes
<1>4. QED BY <1>1, <1>2, <1>3 DEF IInv

\* An expiry, whoever causes it: the timers that keep running do not include l's.
LEMMA ExpireLeaseKeeps ==
    ASSUME IInv, NEW l \in leases, NEW run, NEW msgs,
           run \subseteq leaseTimers, msgs \subseteq leaseMsgs,
           ExpireLease(l, run), leaseMsgs' = msgs
    PROVE  IInv' /\ leases \ {l} \subseteq leases'
<1> DEFINE e  == Entry(seq + 1, l)
           b  == bag \cup {e}
           ex == expired \cup {Token(l)}
<1>1. l \in Leases /\ seq \in Nat
  BY DEF IInv, CoreInv, Core, CoreTypes, OtherTypes
<1>2. e \in Entries /\ e.id = l.id /\ e.gen = l.gen
  BY <1>1 DEF Entry, Entries, Leases, Seqs
<1>3. Core(b, leases \ {l}, taken, acked, ex, nextId)
  BY <1>2, ExpiryKeepsCore DEF IInv, CoreInv
<1>4. Clock(leases \ {l}, run, msgs, taken)
  BY DEF IInv, ClockInv, Clock
<1>5. Handoff(b, leases \ {l}, run)
  BY DEF ExpireLease
<1>6. /\ Core(bag', leases', taken', acked, ex, nextId)
      /\ Clock(leases', leaseTimers', msgs, taken')
      /\ Queue(waiters', waiterSeq, granted', refused, taken')
      /\ NobodyStarved(bag', waiters')
      /\ waiterTimers' \subseteq Seqs /\ downMsgs' \subseteq Seqs
      /\ leases \ {l} \subseteq leases'
  BY <1>3, <1>4, <1>5, HandoffKeeps DEF IInv
<1>7. QED
  BY <1>1, <1>6 DEF ExpireLease, IInv, CoreInv, QueueInv, ClockInv, OtherTypes

LEMMA NextIInv == IInv /\ [Next]_vars => IInv'
<1> SUFFICES ASSUME IInv, [Next]_vars PROVE IInv'
  OBVIOUS
<1> USE BoundsAssumption
<1>1. ASSUME NEW t \in Tuples, Out(t) PROVE IInv'
  <2> DEFINE e == [key |-> seq + 1, id |-> nextId, gen |-> 0, tuple |-> t]
  <2>1. e \in Entries /\ nextId <= MaxTuples /\ nextId \in Nat
    BY <1>1 DEF Out, IInv, OtherTypes, CoreInv, Core, CoreTypes, Entries, Seqs, Ids
  <2>2. Core(bag \cup {e}, leases, taken, acked, expired, nextId + 1)
    BY <2>1, NewTupleKeepsCore DEF IInv, CoreInv
  <2>3. Handoff(bag \cup {e}, leases, leaseTimers)
    BY <1>1 DEF Out
  <2>4. /\ Core(bag', leases', taken', acked, expired, nextId + 1)
        /\ Clock(leases', leaseTimers', leaseMsgs, taken')
        /\ Queue(waiters', waiterSeq, granted', refused, taken')
        /\ NobodyStarved(bag', waiters')
        /\ waiterTimers' \subseteq Seqs /\ downMsgs' \subseteq Seqs
    BY <2>2, <2>3, HandoffKeeps DEF IInv, ClockInv
  <2>5. QED
    BY <1>1, <2>4 DEF Out, IInv, CoreInv, QueueInv, ClockInv, OtherTypes
<1>2. ASSUME NEW p \in Patterns, TakeNow(p) PROVE IInv'
  <2> DEFINE e == Oldest(Matching(bag, p))
  <2>1. \A x \in Matching(bag, p) : x \in bag /\ x.key \in Nat
    BY DEF Matching, IInv, CoreInv, Core, CoreTypes, Entries, Seqs
  <2>2. e \in bag
    BY <1>2, <2>1, SomeOldest DEF TakeNow
  <2>3. /\ bag' = bag \ {e}
        /\ leases' = leases \cup Claimed({e})
        /\ leaseTimers' = leaseTimers \cup NewTimers({e})
        /\ taken' = taken \cup ClaimTokens({e})
    BY <1>2 DEF TakeNow, Claimed, NewTimers, ClaimTokens
  <2> HIDE DEF e
  <2>4. CoreInv'
    <3>1. Core(bag', leases', taken', acked, expired, nextId)
      BY <2>2, <2>3, ClaimKeepsCore DEF IInv, CoreInv
    <3>2. QED BY <3>1, <1>2 DEF CoreInv, TakeNow
  <2>5. ClockInv'
    <3>1. Clock(leases', leaseTimers', leaseMsgs, taken')
      BY <2>2, <2>3, ClaimKeepsClock DEF IInv, CoreInv, ClockInv
    <3>2. QED BY <3>1, <1>2 DEF ClockInv, TakeNow
  <2>6. QueueInv'
    BY <1>2, <2>3 DEF TakeNow, IInv, QueueInv, Queue
  <2>7. NobodyStarved(bag, waiters)'
    BY <1>2, <2>3 DEF TakeNow, IInv, NobodyStarved
  <2>8. QED
    BY <1>2, <2>4, <2>5, <2>6, <2>7 DEF TakeNow, IInv, OtherTypes
<1>3. ASSUME NEW p \in Patterns, NEW timed \in BOOLEAN, TakeWait(p, timed) PROVE IInv'
  <2> DEFINE w == [seq |-> waiterSeq + 1, pattern |-> p, timed |-> timed]
  <2>1. waiterSeq \in Nat /\ waiters' = waiters \cup {w} /\ w \in Waiters
        /\ waiterSeq' = waiterSeq + 1 /\ waiterSeq + 1 \in Seqs
    BY <1>3 DEF TakeWait, IInv, QueueInv, Queue, Waiters, Seqs
  <2>2. \A v \in waiters : v.seq \in Nat /\ v.seq <= waiterSeq
    BY DEF IInv, QueueInv, Queue, Waiters, Seqs
  <2>3. \A g \in granted : g.seq \in Nat /\ g.seq <= waiterSeq
    BY DEF IInv, QueueInv, Queue, Grants, Seqs
  <2>4. \A s \in refused : s \in Nat /\ s <= waiterSeq
    BY DEF IInv, QueueInv, Queue, Seqs
  <2>5. QueueInv'
    <3>1. UNCHANGED <<granted, refused, taken>>
      BY <1>3 DEF TakeWait, history
    <3>2. QED BY <2>1, <2>2, <2>3, <2>4, <3>1 DEF IInv, QueueInv, Queue
  <2>6. NobodyStarved(bag, waiters)'
    BY <1>3, <2>1 DEF TakeWait, Matching, IInv, NobodyStarved
  <2>7. CoreInv' /\ ClockInv'
    BY <1>3 DEF TakeWait, history, IInv, CoreInv, ClockInv
  <2>8. QED
    BY <1>3, <2>1, <2>5, <2>6, <2>7 DEF TakeWait, IInv, OtherTypes
<1>4. ASSUME NEW l \in leases, Renew(l) PROVE IInv'
  <2> DEFINE m == [l EXCEPT !.ref = l.ref + 1]
  <2>1. l \in Leases /\ l.ref \in Nat
    BY DEF IInv, CoreInv, Core, CoreTypes, Leases
  <2>2. /\ m \in Leases /\ m.id = l.id /\ m.gen = l.gen /\ m.ref = l.ref + 1
        /\ Token(m) = Token(l)
    BY <2>1 DEF Leases, Token
  <2>3. /\ leases' = (leases \ {l}) \cup {m}
        /\ leaseTimers' = (leaseTimers \ {TimerOf(l)}) \cup {TimerOf(m)}
        /\ UNCHANGED <<bag, seq, nextId, waiters, waiterSeq, leaseMsgs, waiterTimers,
                       timeoutMsgs, downMsgs, taken, acked, expired, granted, refused>>
    BY <1>4 DEF Renew, history
  <2> HIDE DEF m
  <2>4. CoreInv'
    <3>1. Core(bag, leases', taken, acked, expired, nextId)
      BY <2>2, <2>3, RenewKeepsCore DEF IInv, CoreInv
    <3>2. QED BY <3>1, <2>3 DEF CoreInv
  <2>5. ClockInv'
    <3>1. /\ TimerOf(m) \in Timers /\ TimerOf(m).ref = l.ref + 1
          /\ Token(TimerOf(m)) = Token(l)
      BY <2>2 DEF TimerOf, Timers, Token, Leases
    <3>2. Token(l) \in taken
      BY DEF IInv, CoreInv, Core, Accounted
    <3>3. \A t \in leaseTimers \cup leaseMsgs : t.ref \in Nat /\ (Token(t) = Token(l) => t.ref <= l.ref)
      BY DEF IInv, ClockInv, Clock, Timers
    <3>4. TimerOf(m) \notin leaseMsgs
      BY <2>1, <3>1, <3>3
    <3>5. \A k \in leases \ {l} : Token(k) # Token(l)
      BY DEF IInv, CoreInv, Core, Placed, Token
    <3>6. ASSUME NEW t \in leaseTimers' \cup leaseMsgs', NEW k \in leases', Token(k) = Token(t)
          PROVE  t.ref <= k.ref
      <4>1. CASE k = m
        <5>1. Token(t) = Token(l) /\ k.ref = l.ref + 1
          BY <4>1, <3>6, <2>2
        <5>2. t = TimerOf(m) \/ t \in leaseTimers \cup leaseMsgs
          BY <2>3
        <5>3. CASE t = TimerOf(m)
          BY <5>1, <5>3, <2>1, <3>1
        <5>4. CASE t \in leaseTimers \cup leaseMsgs
          <6>1. t.ref \in Nat /\ t.ref <= l.ref
            BY <5>1, <5>4, <3>3
          <6>2. QED BY <5>1, <6>1, <2>1
        <5>5. QED BY <5>2, <5>3, <5>4
      <4>2. CASE k # m
        <5>1. k \in leases \ {l} BY <4>2, <2>3
        <5>2. t \in leaseTimers \cup leaseMsgs
          BY <5>1, <3>1, <3>5, <3>6, <2>3
        <5>3. QED BY <5>1, <5>2, <3>6 DEF IInv, ClockInv, Clock
      <4>3. QED BY <4>1, <4>2
    <3>7. QED BY <2>3, <3>1, <3>2, <3>4, <3>6 DEF IInv, ClockInv, Clock
  <2>6. QueueInv' /\ NobodyStarved(bag, waiters)' /\ OtherTypes'
    BY <2>3 DEF IInv, QueueInv, NobodyStarved, OtherTypes
  <2>7. QED BY <2>4, <2>5, <2>6 DEF IInv
<1>5. ASSUME NEW l \in leases, Ack(l) PROVE IInv'
  <2>1. Core(bag, leases', taken, acked', expired, nextId)
    BY <1>5, AckKeepsCore DEF Ack, IInv, CoreInv
  <2>2. CoreInv'
    BY <1>5, <2>1 DEF Ack, CoreInv
  <2>3. ClockInv'
    BY <1>5 DEF Ack, IInv, ClockInv, Clock
  <2>4. QED
    BY <1>5, <2>2, <2>3 DEF Ack, IInv, QueueInv, NobodyStarved, OtherTypes
<1>6. ASSUME NEW l \in leases, Expire(l) PROVE IInv'
  BY <1>6, ExpireLeaseKeeps DEF Expire
<1>7. ASSUME NEW t \in leaseTimers, LeaseTimerFires(t) PROVE IInv'
  <2>1. ClockInv'
    BY <1>7 DEF LeaseTimerFires, history, IInv, ClockInv, Clock
  <2>2. QED
    BY <1>7, <2>1 DEF LeaseTimerFires, history, IInv, CoreInv, QueueInv, NobodyStarved, OtherTypes
<1>8. ASSUME NEW s \in waiterTimers, WaiterTimerFires(s) PROVE IInv'
  BY <1>8 DEF WaiterTimerFires, history, IInv, CoreInv, QueueInv, ClockInv, NobodyStarved,
              OtherTypes
<1>9. ASSUME NEW w \in waiters, WaiterDies(w) PROVE IInv'
  <2>1. w.seq \in Seqs
    BY DEF IInv, QueueInv, Queue, Waiters
  <2>2. QED
    BY <1>9, <2>1 DEF WaiterDies, history, IInv, CoreInv, QueueInv, ClockInv, NobodyStarved,
                      OtherTypes
<1>10. ASSUME NEW m \in leaseMsgs, HandleLeaseExpired(m) PROVE IInv'
  <2>1. CASE \E l \in leases : TimerOf(l) = m /\ ExpireLease(l, leaseTimers)
    BY <1>10, <2>1, ExpireLeaseKeeps DEF HandleLeaseExpired
  <2>2. CASE UNCHANGED <<bag, seq, nextId, leases, waiters, waiterSeq, leaseTimers,
                         waiterTimers, timeoutMsgs, downMsgs, history>>
    <3>1. ClockInv'
      BY <1>10, <2>2 DEF HandleLeaseExpired, history, IInv, ClockInv, Clock
    <3>2. QED
      BY <2>2, <3>1 DEF history, IInv, CoreInv, QueueInv, NobodyStarved, OtherTypes
  <2>3. QED BY <1>10, <2>1, <2>2 DEF HandleLeaseExpired
<1>11. ASSUME NEW s \in timeoutMsgs, HandleWaiterTimeout(s) PROVE IInv'
  <2>1. QueueInv' /\ NobodyStarved(bag, waiters)' /\ OtherTypes'
    <3>1. CASE \E w \in waiters : /\ w.seq = s
                                  /\ waiters' = waiters \ {w}
                                  /\ downMsgs' = downMsgs \ {s}
                                  /\ refused' = refused \cup {s}
      BY <1>11, <3>1 DEF HandleWaiterTimeout, IInv, QueueInv, Queue, NobodyStarved, OtherTypes
    <3>2. CASE UNCHANGED <<waiters, downMsgs, refused>>
      BY <1>11, <3>2 DEF HandleWaiterTimeout, IInv, QueueInv, Queue, NobodyStarved, OtherTypes
    <3>3. QED BY <1>11, <3>1, <3>2 DEF HandleWaiterTimeout
  <2>2. CoreInv' /\ ClockInv'
    BY <1>11 DEF HandleWaiterTimeout, IInv, CoreInv, ClockInv
  <2>3. QED BY <2>1, <2>2 DEF IInv
<1>12. ASSUME NEW s \in downMsgs, HandleDown(s) PROVE IInv'
  BY <1>12 DEF HandleDown, history, IInv, CoreInv, QueueInv, Queue, ClockInv, NobodyStarved,
               OtherTypes
<1>13. CASE UNCHANGED vars
  BY <1>13 DEF vars, timing, history, IInv, CoreInv, QueueInv, ClockInv, NobodyStarved,
               OtherTypes
<1>14. QED
  BY <1>1, <1>2, <1>3, <1>4, <1>5, <1>6, <1>7, <1>8, <1>9, <1>10, <1>11, <1>12, <1>13 DEF Next

LEMMA SpecIInv == Spec => []IInv
BY InitIInv, NextIInv, PTL DEF Spec

-----------------------------------------------------------------------------
\* The properties of the runs.

\* Every variable keeps its type.
THEOREM TypeCorrect == Spec => []TypeOK
<1>1. IInv => TypeOK
  BY DEF IInv, CoreInv, Core, CoreTypes, QueueInv, Queue, ClockInv, Clock, OtherTypes, TypeOK,
         Entries, Leases, Waiters, Grants
<1>2. QED BY <1>1, SpecIInv, PTL

\* A tuple is never lost and never in two places.
THEOREM TuplesInOnePlace == Spec => []OnePlacePerTuple
<1>1. IInv => OnePlacePerTuple
  BY DEF IInv, CoreInv, Core, Placed, NoneLost, OnePlacePerTuple
<1>2. QED BY <1>1, SpecIInv, PTL

\* The generation fence: only the newest claim of a tuple is ever acknowledged.
THEOREM StaleTokensNeverAck == Spec => []AckIsNewestClaim
<1>1. IInv => AckIsNewestClaim
  BY DEF IInv, CoreInv, Core, AckedNewest, AckIsNewestClaim
<1>2. QED BY <1>1, SpecIInv, PTL

\* A claim ends in one way, and the record says which.
THEOREM RecordAccountsForClaims == Spec => []ClaimsAccountedFor
<1>1. IInv => ClaimsAccountedFor
  BY DEF IInv, CoreInv, Core, Accounted, ClaimsAccountedFor
<1>2. QED BY <1>1, SpecIInv, PTL

\* Nobody waits beside a tuple that would serve.
THEOREM WaitersNotStarved == Spec => []NoStarvedWaiter
<1>1. IInv => NoStarvedWaiter
  BY DEF IInv, NobodyStarved, NoStarvedWaiter
<1>2. QED BY <1>1, SpecIInv, PTL

\* Waiters and claims are matched one to one.
THEOREM AnswersOneToOne == Spec => []OneAnswerPerWaiter
<1>1. IInv => OneAnswerPerWaiter
  BY DEF IInv, QueueInv, Queue, OneAnswerPerWaiter
<1>2. QED BY <1>1, SpecIInv, PTL

\* A tuple is at one place and its claims are accounted for, for all bounds.
THEOREM TuplesKept == Spec => []TuplesAreKept
<1>1. TypeOK /\ OnePlacePerTuple /\ ClaimsAccountedFor => TuplesAreKept
  BY DEF TuplesAreKept
<1>2. QED BY <1>1, TypeCorrect, TuplesInOnePlace, RecordAccountsForClaims, PTL

\* The queue of waiters: nobody beside a tuple that would serve, nobody answered twice.
THEOREM WaitersServed == Spec => []WaitersAreServed
<1>1. NoStarvedWaiter /\ OneAnswerPerWaiter => WaitersAreServed
  BY DEF WaitersAreServed
<1>2. QED BY <1>1, WaitersNotStarved, AnswersOneToOne, PTL

-----------------------------------------------------------------------------
\* The steps: none takes from a process what is its own, and every step is a step of
\* LeaseBoard or leaves the board alone. Both rest on what a handoff does to a bag in which
\* nobody finds anything: only the entry that was just added can leave it.

\* A handoff after entry e was added to the bag.

Untouched(e, ls) == bag' = bag \cup {e} /\ leases' = ls

HandedOut(e, ls) ==
    /\ bag' = bag /\ leases' = ls \cup {NewLease(e)}
    /\ \A v \in waiters \cap waiters' : SubsetMatch(v.pattern, e.tuple) =>
           \E w \in waiters \ waiters' : Before(w, v)

LEMMA OnlyTheNewLeaves ==
    ASSUME IInv, NEW e, e \notin bag, e.key \in Nat, NEW ls, NEW run,
           Handoff(bag \cup {e}, ls, run)
    PROVE  Untouched(e, ls) \/ HandedOut(e, ls)
<1> DEFINE b == bag \cup {e}
<1>1. PICK f \in Handoffs(b) :
        /\ bag' = b \ {f[w] : w \in DOMAIN f}
        /\ leases' = ls \cup {NewLease(d) : d \in {f[w] : w \in DOMAIN f}}
        /\ waiters' = waiters \ DOMAIN f
  BY DEF Handoff
<1>2. \A d \in b : d.key \in Nat
  BY DEF IInv, CoreInv, Core, CoreTypes, Entries, Seqs
<1>3. PICK W \in SUBSET waiters : f \in [W -> b]
  BY DEF Handoffs
<1>4. /\ \A w \in waiters : w \in DOMAIN f <=> LeftFor(b, f, w) # {}
      /\ \A w \in DOMAIN f : f[w] = Oldest(LeftFor(b, f, w))
  BY DEF Handoffs
<1>5. \A w \in DOMAIN f : f[w] = e
  <2> SUFFICES ASSUME NEW w \in DOMAIN f PROVE f[w] = e
    OBVIOUS
  <2>1. LeftFor(b, f, w) # {} /\ \A d \in LeftFor(b, f, w) : d \in b /\ SubsetMatch(w.pattern, d.tuple)
    BY <1>3, <1>4 DEF LeftFor, Matching
  <2>2. f[w] \in LeftFor(b, f, w)
    BY <1>2, <1>4, <2>1, SomeOldest
  <2>3. f[w] \notin bag
    BY <1>3, <2>1, <2>2 DEF IInv, NobodyStarved
  <2>4. QED BY <2>1, <2>2, <2>3
<1>6. CASE DOMAIN f = {}
  BY <1>1, <1>6 DEF Untouched
<1>7. CASE DOMAIN f # {}
  <2>1. {f[w] : w \in DOMAIN f} = {e}
    BY <1>5, <1>7
  <2>2. ASSUME NEW v \in waiters, v \notin DOMAIN f, SubsetMatch(v.pattern, e.tuple)
        PROVE  \E w \in DOMAIN f : Before(w, v)
    <3>1. LeftFor(b, f, v) = {} /\ e \in Matching(b, v.pattern)
      BY <1>4, <2>2 DEF Matching
    <3>2. QED BY <3>1 DEF LeftFor
  <2>3. QED BY <1>1, <1>3, <2>1, <2>2 DEF HandedOut
<1>8. QED BY <1>6, <1>7

\* The entry that an expiry puts back.
LEMMA ExpiredEntryIsNew ==
    ASSUME IInv, NEW l \in leases
    PROVE  Entry(seq + 1, l) \notin bag /\ Entry(seq + 1, l).key \in Nat
BY DEF IInv, CoreInv, Core, Placed, OtherTypes, Entry

LEMMA PostedEntryIsNew ==
    ASSUME IInv, NEW t
    PROVE  LET e == [key |-> seq + 1, id |-> nextId, gen |-> 0, tuple |-> t]
           IN  e \notin bag /\ e.key \in Nat
BY DEF IInv, CoreInv, Core, CoreTypes, Fenced, OtherTypes

-----------------------------------------------------------------------------
\* Rights.

LEMMA HandoffTakesNoTurn ==
    ASSUME IInv, NEW e, e \notin bag, e.key \in Nat, NEW ls, NEW run,
           \A l \in ls : Token(l) \in taken, Handoff(bag \cup {e}, ls, run)
    PROVE  NoOvertaking
<1>1. CASE Untouched(e, ls)
  BY <1>1 DEF Untouched, NoOvertaking
<1>2. CASE HandedOut(e, ls)
  <2>1. \A l \in leases' : Token(l) \notin taken => l.tuple = e.tuple
    BY <1>2 DEF HandedOut, NewLease
  <2>2. QED BY <1>2, <2>1 DEF HandedOut, NoOvertaking
<1>3. QED BY <1>1, <1>2, OnlyTheNewLeaves

LEMMA NobodyOvertakes == ASSUME IInv, [Next]_vars PROVE NoOvertaking
<1>1. \A l \in leases : Token(l) \in taken
  BY DEF IInv, CoreInv, Core, Accounted
<1>2. ASSUME NEW l \in leases, NEW run, ExpireLease(l, run) PROVE NoOvertaking
  BY <1>1, <1>2, ExpiredEntryIsNew, HandoffTakesNoTurn DEF ExpireLease
<1>3. ASSUME NEW t \in Tuples, Out(t) PROVE NoOvertaking
  BY <1>1, <1>3, PostedEntryIsNew, HandoffTakesNoTurn DEF Out
<1>4. ASSUME NEW p \in Patterns, TakeNow(p) PROVE NoOvertaking
  <2> DEFINE e == Oldest(Matching(bag, p))
  <2>1. e \in bag
    <3>1. \A d \in Matching(bag, p) : d \in bag /\ d.key \in Nat
      BY DEF Matching, IInv, CoreInv, Core, CoreTypes, Entries, Seqs
    <3>2. QED BY <1>4, <3>1, SomeOldest DEF TakeNow
  <2>2. leases' = leases \cup {NewLease(e)}
    BY <1>4 DEF TakeNow
  <2> HIDE DEF e
  <2>3. \A v \in waiters : ~SubsetMatch(v.pattern, e.tuple)
    BY <2>1 DEF IInv, NobodyStarved
  <2>4. QED BY <1>1, <2>2, <2>3 DEF NoOvertaking, NewLease
<1>5. ASSUME NEW l \in leases, Renew(l) PROVE NoOvertaking
  <2>1. Token([l EXCEPT !.ref = l.ref + 1]) = Token(l)
    BY DEF IInv, CoreInv, Core, CoreTypes, Leases, Token
  <2>2. QED BY <1>1, <1>5, <2>1 DEF Renew, NoOvertaking
<1>6. ASSUME NEW m \in leaseMsgs, HandleLeaseExpired(m) PROVE NoOvertaking
  <2>1. CASE UNCHANGED leases
    BY <1>1, <2>1 DEF NoOvertaking
  <2>2. QED BY <1>2, <1>6, <2>1 DEF HandleLeaseExpired
<1>7. CASE leases' \subseteq leases
  BY <1>1, <1>7 DEF NoOvertaking
<1>8. QED
  BY <1>2, <1>3, <1>4, <1>5, <1>6, <1>7
     DEF Next, vars, Expire, TakeWait, Ack, LeaseTimerFires, WaiterTimerFires, WaiterDies,
         HandleWaiterTimeout, HandleDown

LEMMA StaleTimersEndNothing == ASSUME IInv, [Next]_vars PROVE StaleTimersAreHarmless
<1> SUFFICES ASSUME Next, leaseMsgs' \subseteq leaseMsgs, leaseMsgs' # leaseMsgs,
                    NEW k \in leases, TimerOf(k) \in leaseTimers
             PROVE  k \in leases'
  BY DEF vars, timing, StaleTimersAreHarmless
<1>1. PICK m \in leaseMsgs : HandleLeaseExpired(m)
  BY DEF Next, Out, TakeNow, TakeWait, Renew, Ack, Expire, LeaseTimerFires, WaiterTimerFires,
         WaiterDies, HandleWaiterTimeout, HandleDown
<1>2. CASE \E l \in leases : TimerOf(l) = m /\ ExpireLease(l, leaseTimers)
  <2>1. PICK l \in leases : TimerOf(l) = m /\ ExpireLease(l, leaseTimers)
    BY <1>2
  <2>2. k # l
    BY <2>1 DEF IInv, ClockInv, Clock
  <2>3. leases \ {l} \subseteq leases'
    BY <1>1, <2>1, ExpireLeaseKeeps DEF HandleLeaseExpired
  <2>4. QED BY <2>2, <2>3
<1>3. CASE UNCHANGED leases
  BY <1>3
<1>4. QED BY <1>1, <1>2, <1>3 DEF HandleLeaseExpired

\* No step takes a waiter's turn, or a lease that was renewed in time, for all tuples,
\* patterns and bounds.
THEOREM RightsKept == Spec => RightsAreKept
<1>1. IInv /\ [Next]_vars => [NoOvertaking /\ StaleTimersAreHarmless]_vars
  BY NobodyOvertakes, StaleTimersEndNothing
<1>2. QED BY <1>1, SpecIInv, PTL DEF Spec, RightsAreKept

-----------------------------------------------------------------------------
\* Where a tuple is, with bag, leases and acknowledgements as parameters.

Place(b, ls, ak, i) ==
    IF \E e \in b : e.id = i
    THEN [at |-> "free", gen |-> (CHOOSE e \in b : e.id = i).gen]
    ELSE IF \E l \in ls : l.id = i
    THEN [at |-> "held", gen |-> (CHOOSE l \in ls : l.id = i).gen]
    ELSE IF \E t \in ak : t.id = i
    THEN [at |-> "done", gen |-> (CHOOSE t \in ak : t.id = i).gen]
    ELSE [at |-> "absent", gen |-> 0]

LEMMA PlaceIsAt == \A i : /\ At(i)  = Place(bag, leases, acked, i)
                          /\ At(i)' = Place(bag', leases', acked', i)
BY DEF At, Place

LEMMA Places ==
    ASSUME NEW b, NEW ls, NEW tk, NEW ak, NEW ex, NEW n, Core(b, ls, tk, ak, ex, n), NEW i
    PROVE  /\ \A e \in b  : e.id = i => Place(b, ls, ak, i) = Board!Free(e.gen)
           /\ \A l \in ls : l.id = i => Place(b, ls, ak, i) = Board!Held(l.gen)
           /\ \A t \in ak : t.id = i => Place(b, ls, ak, i) = Board!Done(t.gen)
           /\ (\A x \in b \cup ls \cup ak : x.id # i) => Place(b, ls, ak, i) = Board!Absent
<1> USE DEF Board!Free, Board!Held, Board!Done, Board!Absent
<1>1. ASSUME NEW e \in b, e.id = i PROVE Place(b, ls, ak, i) = Board!Free(e.gen)
  <2>1. (CHOOSE d \in b : d.id = i) = e
    BY <1>1 DEF Core, Placed
  <2>2. QED BY <1>1, <2>1 DEF Place
<1>2. ASSUME NEW l \in ls, l.id = i PROVE Place(b, ls, ak, i) = Board!Held(l.gen)
  <2>1. (CHOOSE m \in ls : m.id = i) = l
    BY <1>2 DEF Core, Placed
  <2>2. \A e \in b : e.id # i
    BY <1>2 DEF Core, Placed
  <2>3. QED BY <1>2, <2>1, <2>2 DEF Place
<1>3. ASSUME NEW t \in ak, t.id = i PROVE Place(b, ls, ak, i) = Board!Done(t.gen)
  <2>1. PICK u \in ak : u = (CHOOSE a \in ak : a.id = i) /\ u.id = i
    BY <1>3
  <2>2. u \in tk /\ t \in tk /\ u.gen \in Nat /\ t.gen \in Nat
    BY DEF Core, Accounted, CoreTypes, Tokens
  <2>3. u.gen <= t.gen /\ t.gen <= u.gen
    BY <1>3, <2>1, <2>2 DEF Core, AckedNewest
  <2>4. \A x \in b \cup ls : x.id # i
    BY <1>3 DEF Core, Placed
  <2>5. QED BY <1>3, <2>1, <2>2, <2>3, <2>4 DEF Place
<1>4. QED BY <1>1, <1>2, <1>3 DEF Place

\* A tuple is where it was if its entry, its lease's generation and its acknowledgement are.
LEMMA PlaceStays ==
    ASSUME IInv, IInv', NEW i,
           \A e \in bag : e.id = i => \E d \in bag' : d.id = i /\ d.gen = e.gen,
           \A l \in leases : l.id = i => \E m \in leases' : m.id = i /\ m.gen = l.gen,
           \A t \in acked : t.id = i => t \in acked',
           \A x \in bag' \cup leases' \cup acked' : x.id = i =>
               \E y \in bag \cup leases \cup acked : y.id = i
    PROVE  At(i)' = At(i)
<1>1. /\ Core(bag, leases, taken, acked, expired, nextId)
      /\ Core(bag', leases', taken', acked', expired', nextId')
  BY DEF IInv, CoreInv
<1>2. CASE \E e \in bag : e.id = i
  BY <1>1, <1>2, Places, PlaceIsAt
<1>3. CASE \E l \in leases : l.id = i
  BY <1>1, <1>3, Places, PlaceIsAt
<1>4. CASE \E t \in acked : t.id = i
  BY <1>1, <1>4, Places, PlaceIsAt
<1>5. CASE \A x \in bag \cup leases \cup acked : x.id # i
  BY <1>1, <1>5, Places, PlaceIsAt
<1>6. QED BY <1>2, <1>3, <1>4, <1>5

-----------------------------------------------------------------------------
\* The board.

Mapped == [i \in Ids |-> At(i)]

\* What the board allows one tuple to do.
Moves(p, q) ==
    \/ p = Board!Absent /\ q \in {Board!Free(0), Board!Held(1)}
    \/ p.at = "free" /\ q = Board!Held(p.gen + 1)
    \/ p.at = "held" /\ q \in {Board!Free(p.gen), Board!Held(p.gen + 1), Board!Done(p.gen)}

LEMMA OneMoves ==
    ASSUME NEW i \in Ids, Moves(At(i), At(i)'), \A j \in Ids \ {i} : At(j)' = At(j)
    PROVE  Board!Next
<1>1. Mapped' = [Mapped EXCEPT ![i] = At(i)']
  BY DEF Mapped
<1>2. Mapped[i] = At(i)
  BY DEF Mapped
<1>3. Board!Post(i) \/ Board!Claim(i) \/ Board!Release(i) \/ Board!Finish(i)
  BY <1>1, <1>2 DEF Mapped, Moves, Board!Post, Board!Claim, Board!Release, Board!Finish,
                    Board!Becomes
<1>4. QED BY <1>3 DEF Board!Next

LEMMA AllStay ==
    ASSUME \A i \in Ids : At(i)' = At(i)
    PROVE  UNCHANGED Mapped
BY DEF Mapped

\* A handoff moves the tuple whose entry was added, and no other.
LEMMA HandoffOnBoard ==
    ASSUME IInv, IInv', NEW e, e \notin bag, e.key \in Nat, NEW ls \in SUBSET leases, NEW run,
           \A l \in leases : l \in ls \/ l.id = e.id,
           acked' = acked, Handoff(bag \cup {e}, ls, run)
    PROVE  /\ At(e.id)' \in {Board!Free(e.gen), Board!Held(e.gen + 1)}
           /\ \A j \in Ids \ {e.id} : At(j)' = At(j)
<1>1. Core(bag', leases', taken', acked', expired', nextId')
  BY DEF IInv, CoreInv
<1>2. CASE Untouched(e, ls)
  <2>1. e \in bag' /\ bag \subseteq bag' /\ bag' \subseteq bag \cup {e} /\ leases' = ls
    BY <1>2 DEF Untouched
  <2>2. At(e.id)' = Board!Free(e.gen)
    BY <1>1, <2>1, Places, PlaceIsAt
  <2>3. ASSUME NEW j \in Ids \ {e.id} PROVE At(j)' = At(j)
    BY <2>1, PlaceStays
  <2>4. QED BY <2>2, <2>3
<1>3. CASE HandedOut(e, ls)
  <2>1. bag' = bag /\ leases' = ls \cup {NewLease(e)}
    BY <1>3 DEF HandedOut
  <2>2. NewLease(e).id = e.id /\ NewLease(e).gen = e.gen + 1
    BY DEF NewLease
  <2>3. At(e.id)' = Board!Held(e.gen + 1)
    <3>1. Place(bag', leases', acked', e.id) = Board!Held(NewLease(e).gen)
      BY <1>1, <2>1, <2>2, Places
    <3>2. QED BY <2>2, <3>1, PlaceIsAt
  <2>4. ASSUME NEW j \in Ids \ {e.id} PROVE At(j)' = At(j)
    BY <2>1, <2>2, PlaceStays
  <2>5. QED BY <2>3, <2>4
<1>4. QED BY <1>2, <1>3, OnlyTheNewLeaves

LEMMA ExpiryOnBoard ==
    ASSUME IInv, IInv', NEW l \in leases, NEW run, ExpireLease(l, run)
    PROVE  Board!Next
<1> DEFINE e == Entry(seq + 1, l)
<1>1. /\ e.id = l.id /\ e.gen = l.gen /\ l.id \in Ids /\ e \notin bag /\ e.key \in Nat
  BY ExpiredEntryIsNew DEF Entry, IInv, CoreInv, Core, CoreTypes, Leases
<1>2. acked' = acked /\ Handoff(bag \cup {e}, leases \ {l}, run)
  BY DEF ExpireLease
<1> HIDE DEF e
<1>3. /\ At(l.id)' \in {Board!Free(l.gen), Board!Held(l.gen + 1)}
      /\ \A j \in Ids \ {l.id} : At(j)' = At(j)
  BY <1>1, <1>2, HandoffOnBoard
<1>4. At(l.id) = Board!Held(l.gen)
  BY Places, PlaceIsAt DEF IInv, CoreInv
<1>5. Moves(At(l.id), At(l.id)')
  BY <1>3, <1>4 DEF Moves, Board!Held
<1>6. QED BY <1>1, <1>3, <1>5, OneMoves

LEMMA OutOnBoard ==
    ASSUME IInv, IInv', NEW t \in Tuples, Out(t)
    PROVE  Board!Next
<1>1. PICK e : e = [key |-> seq + 1, id |-> nextId, gen |-> 0, tuple |-> t]
  OBVIOUS
<1>2. e.id = nextId /\ e.gen = 0 /\ e.id \in Ids /\ e \notin bag /\ e.key \in Nat
  BY <1>1, PostedEntryIsNew, BoundsAssumption DEF Out, IInv, CoreInv, Core, CoreTypes, Ids
<1>3. acked' = acked /\ Handoff(bag \cup {e}, leases, leaseTimers)
  BY <1>1 DEF Out
<1>4. /\ At(e.id)' \in {Board!Free(0), Board!Held(1)}
      /\ \A j \in Ids \ {e.id} : At(j)' = At(j)
  <2>1. /\ At(e.id)' \in {Board!Free(e.gen), Board!Held(e.gen + 1)}
        /\ \A j \in Ids \ {e.id} : At(j)' = At(j)
    BY <1>2, <1>3, HandoffOnBoard
  <2>2. e.gen + 1 = 1
    BY <1>2
  <2>3. QED BY <1>2, <2>1, <2>2
<1>5. At(e.id) = Board!Absent
  <2>1. \A x \in bag \cup leases \cup acked : x.id \in Nat /\ x.id < nextId
    BY DEF IInv, CoreInv, Core, CoreTypes, Fenced, Accounted, Entries, Leases, Tokens, Ids
  <2>2. \A x \in bag \cup leases \cup acked : x.id # e.id
    BY <1>2, <2>1 DEF Ids
  <2>3. QED BY <2>2, Places, PlaceIsAt DEF IInv, CoreInv
<1>6. Moves(At(e.id), At(e.id)')
  BY <1>4, <1>5 DEF Moves
<1>7. QED BY <1>2, <1>4, <1>6, OneMoves

LEMMA TakeOnBoard ==
    ASSUME IInv, IInv', NEW p \in Patterns, TakeNow(p)
    PROVE  Board!Next
<1>1. PICK e : e = Oldest(Matching(bag, p))
  OBVIOUS
<1>2. e \in bag
  <2>1. \A d \in Matching(bag, p) : d \in bag /\ d.key \in Nat
    BY DEF Matching, IInv, CoreInv, Core, CoreTypes, Entries, Seqs
  <2>2. QED BY <1>1, <2>1, SomeOldest DEF TakeNow
<1>3. bag' = bag \ {e} /\ leases' = leases \cup {NewLease(e)} /\ acked' = acked
  BY <1>1 DEF TakeNow
<1>4. NewLease(e).id = e.id /\ NewLease(e).gen = e.gen + 1 /\ e.id \in Ids
  BY <1>2 DEF NewLease, IInv, CoreInv, Core, CoreTypes, Entries
<1>5. At(e.id) = Board!Free(e.gen)
  BY <1>2, Places, PlaceIsAt DEF IInv, CoreInv
<1>6. At(e.id)' = Board!Held(e.gen + 1)
  <2>1. Place(bag', leases', acked', e.id) = Board!Held(NewLease(e).gen)
    BY <1>3, <1>4, Places DEF IInv, CoreInv
  <2>2. QED BY <1>4, <2>1, PlaceIsAt
<1>7. ASSUME NEW j \in Ids \ {e.id} PROVE At(j)' = At(j)
  BY <1>3, <1>4, PlaceStays
<1>8. Moves(At(e.id), At(e.id)')
  <2>1. At(e.id).at = "free" /\ At(e.id).gen = e.gen
    BY <1>5 DEF Board!Free
  <2>2. QED BY <1>6, <2>1 DEF Moves
<1>9. QED BY <1>4, <1>7, <1>8, OneMoves

LEMMA AckOnBoard ==
    ASSUME IInv, IInv', NEW l \in leases, Ack(l)
    PROVE  Board!Next
<1>1. leases' = leases \ {l} /\ acked' = acked \cup {Token(l)} /\ bag' = bag
  BY DEF Ack
<1>2. Token(l).id = l.id /\ Token(l).gen = l.gen /\ l.id \in Ids
  BY DEF Token, IInv, CoreInv, Core, CoreTypes, Leases
<1>3. At(l.id) = Board!Held(l.gen)
  BY Places, PlaceIsAt DEF IInv, CoreInv
<1>4. At(l.id)' = Board!Done(l.gen)
  <2>1. Place(bag', leases', acked', l.id) = Board!Done(Token(l).gen)
    BY <1>1, <1>2, Places DEF IInv, CoreInv
  <2>2. QED BY <1>2, <2>1, PlaceIsAt
<1>5. ASSUME NEW j \in Ids \ {l.id} PROVE At(j)' = At(j)
  BY <1>1, <1>2, PlaceStays
<1>6. Moves(At(l.id), At(l.id)')
  BY <1>3, <1>4 DEF Moves, Board!Held
<1>7. QED BY <1>2, <1>5, <1>6, OneMoves

LEMMA RenewOffBoard ==
    ASSUME IInv, IInv', NEW l \in leases, Renew(l)
    PROVE  UNCHANGED Mapped
<1> DEFINE m == [l EXCEPT !.ref = l.ref + 1]
<1>1. leases' = (leases \ {l}) \cup {m} /\ bag' = bag /\ acked' = acked
  BY DEF Renew, history
<1>2. m.id = l.id /\ m.gen = l.gen
  BY DEF IInv, CoreInv, Core, CoreTypes, Leases
<1> HIDE DEF m
<1>3. ASSUME NEW i \in Ids PROVE At(i)' = At(i)
  BY <1>1, <1>2, PlaceStays
<1>4. QED BY <1>3, AllStay

LEMMA StepOnBoard == ASSUME IInv, IInv', [Next]_vars PROVE [Board!Next]_Mapped
<1>1. CASE UNCHANGED <<bag, leases, acked>>
  <2>1. \A i \in Ids : At(i)' = At(i)
    BY <1>1, PlaceIsAt
  <2>2. QED BY <2>1, AllStay
<1>2. ASSUME NEW m \in leaseMsgs, HandleLeaseExpired(m) PROVE [Board!Next]_Mapped
  <2>1. CASE UNCHANGED <<bag, leases, history>>
    BY <1>1, <2>1 DEF history
  <2>2. QED BY <1>2, <2>1, ExpiryOnBoard DEF HandleLeaseExpired
<1>3. QED
  BY <1>1, <1>2, OutOnBoard, TakeOnBoard, RenewOffBoard, AckOnBoard, ExpiryOnBoard
     DEF Next, vars, history, Expire, TakeWait, LeaseTimerFires, WaiterTimerFires, WaiterDies,
         HandleWaiterTimeout, HandleDown

\* The space implements the lease board, for all tuples, patterns and bounds: whatever
\* waiters and timers do, a tuple goes through the life the board describes.
THEOREM BoardImplemented == Spec => ImplementsBoard
<1>1. Init => Board!Init
  BY DEF Init, Board!Init, Board!Absent, At
<1>2. IInv /\ IInv' /\ [Next]_vars => [Board!Next]_Mapped
  BY StepOnBoard
<1>3. QED BY <1>1, <1>2, SpecIInv, PTL DEF Spec, ImplementsBoard, Board!Spec, Mapped
=============================================================================
