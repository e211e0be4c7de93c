-------------------------- MODULE DurableRunProofs --------------------------
(***************************************************************************)
(* Theorems about DurableRun, for every scenario, every number of results, *)
(* replays, kills and provider processes: first the journal, with the      *)
(* pending record it may hold; then, from the order in which a route asks  *)
(* for its effects and passes one only when it is committed, that the      *)
(* checkpoint is settled, that the run implements EffectProtocol, and that *)
(* every route of every process goes through the same states.              *)
(***************************************************************************)
EXTENDS DurableRun, SequenceTheorems, FiniteSetTheorems, WellFoundedInduction, TLAPS

-----------------------------------------------------------------------------
\* The routes as programs.

LEMMA SmallestOf ==
    ASSUME NEW T \in SUBSET Nat, T # {}
    PROVE  \E m \in T : \A n \in T : m <= n
<1>1. PICK m \in T : \A n \in T : <<n, m>> \notin OpToRel(<, Nat)
  BY WFMin, NatLessThanWellFounded
<1>2. ASSUME NEW n \in T, n < m
      PROVE  FALSE
  <2>1. n \in Nat /\ m \in Nat
    OBVIOUS
  <2>2. <<n, m>> \in {ss \in Nat \X Nat : ss[1] < ss[2]}
    BY <1>2, <2>1
  <2>3. <<n, m>> \in OpToRel(<, Nat)
    BY <2>1, <2>2, Zenon DEF OpToRel
  <2> QED
    BY <1>1, <2>3, Zenon
<1> QED
  BY <1>2

Flattens(f, s, m) == f = [i \in 1 .. m |-> IF i = 1 THEN s[i] ELSE f[i - 1] \o s[i]]

\* h goes through s, concatenating, and ends with all of it.
FlatteningOf(h, S, s, n) ==
    /\ \A i \in 1 .. n : h[i] = IF i = 1 THEN s[i] ELSE h[i - 1] \o s[i]
    /\ \A i \in 1 .. n : h[i] \in Seq(S)
    /\ FlattenSeq(s) = h[n]

LEMMA FlattensTo ==
    ASSUME NEW S, NEW n \in Nat, NEW s \in [1 .. n -> Seq(S)]
    PROVE  /\ n = 0 => FlattenSeq(s) = <<>>
           /\ n # 0 => \E h : FlatteningOf(h, S, s, n)
<1>1. s \in Seq(Seq(S)) /\ Len(s) = n
  BY SeqDef, LenProperties
<1>2. CASE n = 0
  <2>1. FlattenSeq(s) = s
    BY <1>1, <1>2 DEF FlattenSeq
  <2>2. s = <<>>
    BY <1>1, <1>2
  <2> QED
    BY <1>2, <2>1, <2>2
<1>3. CASE n # 0
  <2> DEFINE P(m) == \E f : Flattens(f, s, m) /\ f \in [1 .. m -> Seq(S)]
             Bad  == {m \in 1 .. n : ~P(m)}
  <2>1. Bad = {}
    <3> SUFFICES ASSUME Bad # {} PROVE FALSE
      OBVIOUS
    <3>1. PICK m \in Bad : \A j \in Bad : m <= j
      <4>1. Bad \in SUBSET Nat
        OBVIOUS
      <4> HIDE DEF Bad
      <4> QED
        BY <4>1, SmallestOf
    <3>2. m \in 1 .. n /\ ~P(m)
      BY <3>1
    <3>3. CASE m = 1
      <4> DEFINE f == [i \in 1 .. 1 |-> s[i]]
      <4>1. f \in [1 .. 1 -> Seq(S)]
        BY <1>3
      <4>2. Flattens(f, s, 1)
        BY DEF Flattens
      <4> HIDE DEF f
      <4> QED
        BY <3>2, <3>3, <4>1, <4>2
    <3>4. CASE m # 1
      <4>1. m - 1 \in 1 .. n /\ m - 1 \notin Bad /\ m \in Nat
        <5>1. m \in Nat /\ m - 1 \in 1 .. n /\ m \in Nat /\ ~(m <= m - 1)
          BY <3>2, <3>4
        <5> HIDE DEF Bad
        <5> QED
          BY <3>1, <5>1
      <4>2. P(m - 1)
        BY <4>1
      <4>3. PICK f \in [1 .. m - 1 -> Seq(S)] : Flattens(f, s, m - 1)
        BY <4>2
      <4> DEFINE g == [i \in 1 .. m |-> IF i = m THEN f[m - 1] \o s[m] ELSE f[i]]
      <4>4. f[m - 1] \o s[m] \in Seq(S)
        <5>1. f[m - 1] \in Seq(S) /\ s[m] \in Seq(S)
          BY <3>2, <4>1, <4>3
        <5> QED
          BY <5>1, ConcatProperties
      <4>5. g \in [1 .. m -> Seq(S)]
        BY <4>1, <4>3, <4>4
      <4>6. ASSUME NEW i \in 1 .. m
            PROVE  g[i] = IF i = 1 THEN s[i] ELSE g[i - 1] \o s[i]
        <5>1. CASE i = m
          <6>1. g[i] = f[m - 1] \o s[m] /\ g[i - 1] = f[i - 1] /\ i # 1
            BY <3>4, <4>1, <5>1
          <6> QED
            BY <5>1, <6>1
        <5>2. CASE i # m
          <6>1. i \in 1 .. m - 1 /\ g[i] = f[i] /\ (i # 1 => g[i - 1] = f[i - 1])
            BY <4>1, <5>2
          <6>2. f[i] = IF i = 1 THEN s[i] ELSE f[i - 1] \o s[i]
            BY <4>3, <6>1 DEF Flattens
          <6> QED
            BY <6>1, <6>2
        <5> QED
          BY <5>1, <5>2
      <4>7. Flattens(g, s, m)
        <5>1. g = [i \in 1 .. m |-> g[i]]
          OBVIOUS
        <5> HIDE DEF g
        <5> QED
          BY <4>6, <5>1 DEF Flattens
      <4> HIDE DEF g
      <4> QED
        BY <3>2, <4>5, <4>7
    <3> QED
      BY <3>3, <3>4
  <2>2. P(n)
    <3>1. n \in 1 .. n
      BY <1>3
    <3> HIDE DEF P
    <3> QED
      BY <2>1, <3>1
  <2> DEFINE h == CHOOSE f : Flattens(f, s, n)
  <2>3. Flattens(h, s, n)
    BY <2>2
  <2>4. FlattenSeq(s) = h[n]
    BY <1>1, <1>3 DEF FlattenSeq, Flattens
  <2> HIDE DEF h
  <2>5. \A i \in 1 .. n : h[i] = IF i = 1 THEN s[i] ELSE h[i - 1] \o s[i]
    BY <2>3 DEF Flattens
  <2> DEFINE Off2 == {i \in 1 .. n : h[i] \notin Seq(S)}
  <2>6. Off2 = {}
    <3> SUFFICES ASSUME Off2 # {} PROVE FALSE
      OBVIOUS
    <3>1. PICK m \in Off2 : \A j \in Off2 : m <= j
      <4>1. Off2 \in SUBSET Nat
        OBVIOUS
      <4> HIDE DEF Off2
      <4> QED
        BY <4>1, SmallestOf
    <3>2. m # 1
      BY <2>5, <3>1
    <3>3. m - 1 \in 1 .. n /\ m - 1 \notin Off2
      BY <3>1, <3>2
    <3>4. h[m - 1] \in Seq(S) /\ s[m] \in Seq(S) /\ h[m] = h[m - 1] \o s[m]
      BY <2>5, <3>1, <3>2, <3>3
    <3>5. h[m] \in Seq(S)
      BY <3>4, ConcatProperties
    <3> QED
      BY <3>1, <3>5
  <2>7. \A i \in 1 .. n : h[i] \in Seq(S)
    BY <2>6
  <2>8. FlatteningOf(h, S, s, n)
    BY <2>4, <2>5, <2>7 DEF FlatteningOf
  <2> QED
    BY <1>3, <2>8
<1> QED
  BY <1>2, <1>3

LEMMA FlattenIs ==
    ASSUME NEW S, NEW n \in Nat, NEW s \in [1 .. n -> Seq(S)]
    PROVE  FlattenSeq(s) \in Seq(S)
<1>1. CASE n = 0
  <2>1. FlattenSeq(s) = <<>>
    BY <1>1, FlattensTo
  <2> QED
    BY <2>1
<1>2. CASE n # 0
  <2>1. PICK h : FlatteningOf(h, S, s, n)
    BY <1>2, FlattensTo
  <2> QED
    BY <1>2, <2>1 DEF FlatteningOf
<1> QED
  BY <1>1, <1>2

\* The operations of a route before its last one.
Branches == {"parent", "fork"}
Modes    == {"record", "replay"}
OpRecords ==
    [do : {"effect"}, name : Names, branch : Branches, mode : Modes]
        \cup [do : {"invoke"}, branch : Branches] \cup [do : {"checkpoint"}, branch : Branches]

\* Those of events on branch b, in mode m.
OpsOf(b, m) ==
    [do : {"effect"}, name : Names, branch : {b}, mode : {m}]
        \cup [do : {"invoke"}, branch : {b}] \cup [do : {"checkpoint"}, branch : {b}]

LEMMA EventOpsAre ==
    ASSUME NEW event \in Seq(Names), NEW b, NEW m
    PROVE  EventOps(event, b, m) \in Seq(OpsOf(b, m))
<1> DEFINE n == Len(event)
           f == [i \in DOMAIN event |-> EffectOp(event[i], b, m)]
           one == [do |-> "invoke", branch |-> b]
<1>1. n \in Nat /\ DOMAIN event = 1 .. n /\ \A i \in 1 .. n : event[i] \in Names
  BY LenProperties
<1>2. f \in [1 .. n -> OpsOf(b, m)]
  BY <1>1 DEF EffectOp, OpsOf
<1>3. one \in OpsOf(b, m)
  BY DEF OpsOf
<1> HIDE DEF f, n, one
<1>4. f \in Seq(OpsOf(b, m)) /\ <<one>> \in Seq(OpsOf(b, m))
  BY <1>1, <1>2, <1>3, SeqDef
<1>5. f \o <<one>> \in Seq(OpsOf(b, m))
  BY <1>4, ConcatProperties
<1> QED
  BY <1>5 DEF EventOps, f, one

LEMMA OpsAre ==
    ASSUME NEW events \in Seq(Seq(Names)), NEW b, NEW m, NEW cut
    PROVE  Ops(events, b, m, cut) \in Seq(OpsOf(b, m))
<1> DEFINE n == Len(events)
           one == [do |-> "checkpoint", branch |-> b]
           rest(i) == IF i = cut THEN <<one>> ELSE <<>>
           s == [i \in DOMAIN events |-> EventOps(events[i], b, m) \o rest(i)]
<1>1. n \in Nat /\ DOMAIN events = 1 .. n /\ \A i \in 1 .. n : events[i] \in Seq(Names)
  BY LenProperties
<1>2. one \in OpsOf(b, m)
  BY DEF OpsOf
<1>3. ASSUME NEW i \in 1 .. n
      PROVE  EventOps(events[i], b, m) \o rest(i) \in Seq(OpsOf(b, m))
  <2>1. EventOps(events[i], b, m) \in Seq(OpsOf(b, m))
    BY <1>1, EventOpsAre
  <2>2. rest(i) \in Seq(OpsOf(b, m))
    <3> HIDE DEF one
    <3> QED
      BY <1>2
  <2> HIDE DEF rest
  <2> QED
    BY <2>1, <2>2, ConcatProperties
<1>4. s \in [1 .. n -> Seq(OpsOf(b, m))]
  BY <1>1, <1>3
<1>5. Ops(events, b, m, cut) = FlattenSeq(s)
  BY DEF Ops
<1> HIDE DEF s, n
<1> QED
  BY <1>1, <1>4, <1>5, FlattenIs

LEMMA OpsAreRecords ==
    ASSUME NEW b \in Branches, NEW m \in Modes, NEW s \in Seq(OpsOf(b, m))
    PROVE  s \in Seq(OpRecords)
<1>1. OpsOf(b, m) \subseteq OpRecords
  BY DEF OpsOf, OpRecords
<1> QED
  BY <1>1, SeqMonotonic

\* A route: operations, and an exit at the end.
RouteOK(s) ==
    /\ Len(s) \in Nat \ {0} /\ s[Len(s)].do = "exit"
    /\ \A i \in 1 .. Len(s) :
        /\ s[i].do \in {"effect", "invoke", "checkpoint", "exit"}
        /\ s[i].do = "exit" => i = Len(s)
        /\ s[i].do = "effect" => s[i].name \in Names

LEMMA RouteIs ==
    ASSUME NEW s \in Seq(OpRecords)
    PROVE  RouteOK(s \o <<[do |-> "exit"]>>)
<1> DEFINE one == [do |-> "exit"]
           t == s \o <<one>>
           S == OpRecords \cup {one}
<1>1. s \in Seq(S) /\ <<one>> \in Seq(S)
  <2>1. OpRecords \subseteq S /\ one \in S
    OBVIOUS
  <2> HIDE DEF S, one
  <2> QED
    BY <2>1, SeqMonotonic
<1> HIDE DEF S
<1>2. /\ Len(s) \in Nat /\ Len(t) = Len(s) + 1 /\ t[Len(s) + 1] = one
      /\ \A i \in 1 .. Len(s) : t[i] = s[i] /\ s[i] \in OpRecords
  <2> HIDE DEF one
  <2>1. Len(<<one>>) = 1 /\ <<one>>[1] = one
    OBVIOUS
  <2>2. /\ Len(t) = Len(s) + Len(<<one>>) /\ Len(s) \in Nat
        /\ \A i \in 1 .. Len(s) + Len(<<one>>) :
              t[i] = IF i <= Len(s) THEN s[i] ELSE <<one>>[i - Len(s)]
    BY <1>1, ConcatProperties, LenProperties
  <2>3. \A i \in 1 .. Len(s) : s[i] \in OpRecords
    BY LenProperties
  <2> HIDE DEF t
  <2> QED
    BY <2>1, <2>2, <2>3
<1> HIDE DEF t
<1>3. \A r \in OpRecords : r.do \in {"effect", "invoke", "checkpoint"}
                           /\ (r.do = "effect" => r.name \in Names)
  BY DEF OpRecords
<1>4. one.do = "exit"
  OBVIOUS
<1> HIDE DEF one
<1>5. RouteOK(t)
  BY <1>2, <1>3, <1>4 DEF RouteOK
<1> QED
  BY <1>5 DEF t, one

LEMMA RoutesAre ==
    ASSUME NEW r \in 1 .. ForkRoute
    PROVE  RouteOK(Program[r])
<1> DEFINE tail == SubSeq(ParentEvents, CheckpointIndex + 1, Len(ParentEvents))
           ops == IF r = 1 THEN Ops(ParentEvents, "parent", "record", CheckpointIndex)
                  ELSE IF r <= Replays + 1 THEN Ops(ParentEvents, "parent", "replay", 0)
                  ELSE IF r = Recovered THEN Ops(tail, "parent", "replay", 0)
                  ELSE Ops(Prefix, "parent", "replay", 0) \o Ops(Fork, "fork", "record", 0)
<1>1. "parent" \in Branches /\ "fork" \in Branches /\ "record" \in Modes /\ "replay" \in Modes
  BY DEF Branches, Modes
<1>2. /\ Prefix \in Seq(Seq(Names)) /\ Parent \in Seq(Seq(Names)) /\ Fork \in Seq(Seq(Names))
      /\ Replays \in Nat \ {0}
  BY ScenarioAssumption
<1>3. ParentEvents \in Seq(Seq(Names)) /\ Len(ParentEvents) = Len(Prefix) + Len(Parent)
  BY <1>2, ConcatProperties DEF ParentEvents
<1>4. tail \in Seq(Seq(Names))
  <2>1. /\ CheckpointIndex \in Nat /\ Len(ParentEvents) \in Nat
        /\ CheckpointIndex <= Len(ParentEvents)
    BY <1>2, <1>3, ScenarioAssumption, LenProperties
  <2> QED
    BY <1>3, <2>1, SubSeqProperties
<1> HIDE DEF tail
<1>5. ops \in Seq(OpRecords)
  <2>1. /\ Ops(ParentEvents, "parent", "record", CheckpointIndex) \in Seq(OpRecords)
        /\ Ops(ParentEvents, "parent", "replay", 0) \in Seq(OpRecords)
        /\ Ops(tail, "parent", "replay", 0) \in Seq(OpRecords)
        /\ Ops(Prefix, "parent", "replay", 0) \in Seq(OpRecords)
        /\ Ops(Fork, "fork", "record", 0) \in Seq(OpRecords)
    BY <1>1, <1>2, <1>3, <1>4, OpsAre, OpsAreRecords
  <2> QED
    BY <2>1, ConcatProperties
<1>6. Program[r] = ops \o <<[do |-> "exit"]>>
  <2>1. Program[r] = LET exit == <<[do |-> "exit"]>>
                     IN  IF r = 1 THEN Ops(ParentEvents, "parent", "record", CheckpointIndex) \o exit
                         ELSE IF r <= Replays + 1 THEN Ops(ParentEvents, "parent", "replay", 0) \o exit
                         ELSE IF r = Recovered THEN Ops(tail, "parent", "replay", 0) \o exit
                         ELSE Ops(Prefix, "parent", "replay", 0) \o Ops(Fork, "fork", "record", 0) \o exit
    BY Zenon DEF Program, tail
  <2> QED
    BY <2>1, Zenon
<1> HIDE DEF ops
<1> QED
  BY <1>5, <1>6, RouteIs

-----------------------------------------------------------------------------
\* The inductive invariant.

\* s is a sequence, of whatever elements.
IsSeq(s) == s \in Seq({s[i] : i \in DOMAIN s})

Places    == {"down", "opened", "ensure", "spawn", "wait", "op", "asked", "intended", "calling",
              "replied", "committed", "publish", "next", "stop", "stopping", "seal", "report", "done"}
InEffect  == {"asked", "intended", "calling", "replied", "committed"}
Cursors   == [event : Nat, effect : Nat]

\* The executor is at an operation of a route, and in the middle of an effect only
\* at an effect.
PositionOK ==
    /\ pc \in Places
    /\ route \in 1 .. ForkRoute /\ at \in 1 .. Len(Program[route])
    /\ pc \in InEffect => Op.do = "effect"
    /\ host \in Cursors /\ saved.host \in Cursors

\* The executor's files: what is torn was torn by a process that died.
FilesOK ==
    /\ IsSeq(oplog) /\ resumedAt \in 0 .. Len(oplog)
    /\ torn \in BOOLEAN
    /\ torn => pc = "down" /\ runs # 0
    /\ runState \in {"none", "running", "complete"}
    /\ runs \in 0 .. MaxFaults + 1 /\ faults \in 0 .. MaxFaults
    /\ runs = 0 => pc = "down"

IsCall(c) ==
    \/ c = [op |-> "shutdown", open |-> c.open]
    \/ /\ c = [op |-> "effect", open |-> c.open, key |-> c.key, name |-> c.name,
               request |-> c.request]
       /\ c.name \in Names

Knows(p) == prov[p].st \in {"rebuilt", "serving"}

IsProcess(r) ==
    /\ r = [st |-> r.st, executed |-> r.executed, consumed |-> r.consumed, seq |-> r.seq,
            backlog |-> r.backlog]
    /\ r.st \in {"off", "starting", "bound", "rebuilt", "serving"}
    /\ r.consumed \in [Names -> Nat] /\ r.seq \in Nat
    /\ IsSeq(r.backlog) /\ \A i \in DOMAIN r.backlog : IsCall(r.backlog[i])

ProcessesOK ==
    /\ DOMAIN prov = Providers /\ \A p \in Providers : IsProcess(prov[p])
    /\ IsSeq(plog) /\ \A i \in Executions : plog[i].name \in Names
    /\ sock \in Providers \cup {NoProvider}
    /\ ptorn \in BOOLEAN /\ overlapped \in BOOLEAN

\* What process p knows: the executions up to its sequence number, all of them unless
\* the log does not verify.
Mine(p) == {i \in Executions : i <= prov[p].seq}

MemoryOK ==
    \A p \in Providers : Knows(p) =>
        /\ prov[p].seq <= Len(plog)
        /\ prov[p].executed \subseteq {Bound(plog[i]) : i \in Executions}
        /\ LogIntact =>
              /\ prov[p].executed = {Bound(plog[i]) : i \in Mine(p)}
              /\ \A n \in Names :
                    prov[p].consumed[n] = Cardinality({i \in Mine(p) : plog[i].name = n})

\* Alone, a process knows the whole log and writes behind a whole line.
AloneOK ==
    ~overlapped =>
        /\ LogIntact
        /\ \A p, q \in Providers : prov[p].st # "off" /\ prov[q].st # "off" => p = q
        /\ \A p \in Providers : Knows(p) => prov[p].seq = Len(plog) /\ ~ptorn

ProviderOK == ProcessesOK /\ MemoryOK /\ VerifiedMeansOnce /\ AloneOK

\* The conversation: one request, of the effect that is performed, and its answer.
EffectCall(x, e) == [op |-> "effect", open |-> x, key |-> e.key, name |-> e.name,
                     request |-> e.request]

IsOpen(p, i) == i \in DOMAIN prov[p].backlog /\ prov[p].backlog[i].open

IntendedBy(x, entries) ==
    \E e \in entries : e.key = x.key /\ e.name = x.name /\ e.request = x.request

Intended(x) == IntendedBy(x, Entries("intent"))

Bounds == {Bound(plog[i]) : i \in Executions}

Performed(x, result) == [key |-> x.key, name |-> x.name, request |-> x.request,
                         result |-> result] \in Bounds

AnswerOK ==
    /\ answer.status \in {"none", "executed", "duplicate", "mismatch", "rejected", "bye"}
    /\ answer.status = "none" => answer = NoAnswer
    /\ answer # NoAnswer => answer = [status |-> answer.status, result |-> answer.result,
                                      from |-> answer.from]
    /\ pc \notin {"calling", "replied", "committed", "stopping"} => answer = NoAnswer
    /\ pc \in {"replied", "committed"} =>
          answer.from = NoProvider /\ answer.status \in {"executed", "duplicate"}
    /\ pc \in {"calling", "replied", "committed"} /\ answer.status \in {"executed", "duplicate"}
          => Performed(Current, answer.result)

CallsOK ==
    /\ \A p, q \in Providers : \A i, j : IsOpen(p, i) /\ IsOpen(q, j) => p = q /\ i = j
    /\ \A p \in Providers : \A i : IsOpen(p, i) =>
          /\ answer = NoAnswer
          /\ \/ pc = "stopping" /\ prov[p].backlog[i].op = "shutdown"
             \/ /\ pc = "calling"
                /\ prov[p].backlog[i] = EffectCall(TRUE, Current)

\* Written ahead: also what is about to be sent.
AheadOK ==
    /\ \A i \in Executions : Intended(plog[i])
    /\ \A p \in Providers : \A i \in DOMAIN prov[p].backlog :
          prov[p].backlog[i].op = "effect" => Intended(prov[p].backlog[i])
    /\ pc \in {"intended", "calling"} => Intended(Current)

ConversationOK == AnswerOK /\ CallsOK /\ AheadOK /\ CommitsWereExecuted

-----------------------------------------------------------------------------
\* Sequences of whatever elements.

Longer(s, e, t) ==
    /\ IsSeq(t) /\ Len(t) = Len(s) + 1 /\ t[Len(s) + 1] = e
    /\ Len(s) \in Nat /\ DOMAIN s = 1 .. Len(s) /\ DOMAIN t = 1 .. Len(s) + 1
    /\ \A i \in 1 .. Len(s) : t[i] = s[i]

LEMMA AppendIs ==
    ASSUME NEW s, NEW e, IsSeq(s)
    PROVE  Longer(s, e, Append(s, e))
<1> DEFINE S == {s[i] : i \in DOMAIN s}
           T == S \cup {e}
           t == Append(s, e)
<1>1. s \in Seq(S)
  BY DEF IsSeq
<1>2. Len(s) \in Nat /\ DOMAIN s = 1 .. Len(s)
  <2> HIDE DEF S
  <2> QED
    BY <1>1, LenProperties
<1>3. s \in Seq(T) /\ e \in T
  <2>1. S \subseteq T /\ e \in T
    OBVIOUS
  <2> HIDE DEF S, T
  <2> QED
    BY <1>1, <2>1, SeqMonotonic
<1> HIDE DEF S, T
<1>4. /\ t \in Seq(T) /\ Len(t) = Len(s) + 1 /\ t[Len(s) + 1] = e
      /\ \A i \in 1 .. Len(s) : t[i] = s[i]
  BY <1>3, AppendProperties
<1>5. DOMAIN t = 1 .. Len(s) + 1
  BY <1>4, LenProperties
<1> HIDE DEF t
<1>6. IsSeq(t)
  <2>1. t \in [1 .. Len(s) + 1 -> {t[i] : i \in DOMAIN t}]
    <3>1. t \in [1 .. Len(t) -> T]
      BY <1>4, LenProperties
    <3>2. t = [i \in 1 .. Len(s) + 1 |-> t[i]]
      BY <1>4, <3>1
    <3>3. \A i \in 1 .. Len(s) + 1 : t[i] \in {t[j] : j \in DOMAIN t}
      BY <1>5
    <3> QED
      BY <3>2, <3>3
  <2>2. Len(s) + 1 \in Nat
    BY <1>2
  <2> QED
    BY <2>1, <2>2, SeqDef DEF IsSeq
<1>7. Longer(s, e, t)
  BY <1>2, <1>4, <1>5, <1>6 DEF Longer
<1> QED
  BY <1>7 DEF t

\* t is s without its first element.
Shorter(s, t) ==
    /\ IsSeq(t) /\ Len(s) \in Nat /\ Len(s) # 0 /\ DOMAIN s = 1 .. Len(s) /\ Head(s) = s[1]
    /\ DOMAIN t = 1 .. Len(s) - 1
    /\ \A i \in 1 .. Len(s) - 1 : t[i] = s[i + 1]

LEMMA TailIs ==
    ASSUME NEW s, IsSeq(s), s # <<>>
    PROVE  Shorter(s, Tail(s))
<1> DEFINE S == {s[i] : i \in DOMAIN s}
           t == Tail(s)
<1>1. s \in Seq(S)
  BY DEF IsSeq
<1> HIDE DEF S
<1>2. /\ Len(s) \in Nat /\ DOMAIN s = 1 .. Len(s) /\ Len(s) # 0
      /\ Head(s) = s[1]
  <2>1. Len(s) \in Nat /\ DOMAIN s = 1 .. Len(s)
    BY <1>1, LenProperties
  <2>2. Len(s) # 0
    BY <1>1, EmptySeq
  <2> QED
    BY <1>1, <2>1, <2>2, HeadTailProperties
<1>3. /\ t \in Seq(S) /\ Len(t) = Len(s) - 1
      /\ \A i \in 1 .. Len(s) - 1 : t[i] = s[i + 1]
  <2>1. Tail(s) \in Seq(S) /\ Len(Tail(s)) = Len(s) - 1
        /\ \A i \in 1 .. Len(Tail(s)) : Tail(s)[i] = s[i + 1]
    BY <1>1, HeadTailProperties
  <2> QED
    BY <2>1
<1>4. DOMAIN t = 1 .. Len(s) - 1 /\ t \in [1 .. Len(s) - 1 -> S]
  BY <1>3, LenProperties
<1> HIDE DEF t
<1>5. IsSeq(t)
  <2>1. t = [i \in 1 .. Len(s) - 1 |-> t[i]]
    BY <1>4
  <2>2. \A i \in 1 .. Len(s) - 1 : t[i] \in {t[j] : j \in DOMAIN t}
    BY <1>4
  <2>3. t \in [1 .. Len(s) - 1 -> {t[i] : i \in DOMAIN t}]
    BY <2>1, <2>2
  <2>4. Len(s) - 1 \in Nat
    BY <1>2
  <2> QED
    BY <2>3, <2>4, SeqDef DEF IsSeq
<1>6. Shorter(s, t)
  BY <1>2, <1>3, <1>4, <1>5 DEF Shorter
<1> QED
  BY <1>6 DEF t

LEMMA EmptyIs ==
    IsSeq(<<>>) /\ Len(<<>>) = 0 /\ DOMAIN (<<>>) = 1 .. 0
<1>1. <<>> \in Seq({<<>>[i] : i \in DOMAIN <<>>})
  BY SMT
<1> QED
  BY <1>1 DEF IsSeq

\* The journal only grows, by whole entries.
LEMMA SeqIs ==
    ASSUME NEW s, IsSeq(s)
    PROVE  Len(s) \in Nat /\ DOMAIN s = 1 .. Len(s)
<1> DEFINE S == {s[i] : i \in DOMAIN s}
<1>1. s \in Seq(S)
  BY DEF IsSeq
<1> HIDE DEF S
<1> QED
  BY <1>1, LenProperties

LEMMA MapIs ==
    ASSUME NEW s, IsSeq(s), NEW F, NEW t, t = [i \in DOMAIN s |-> F[i]]
    PROVE  IsSeq(t)
<1>1. Len(s) \in Nat /\ DOMAIN s = 1 .. Len(s)
  BY SeqIs
<1>2. t \in [1 .. Len(s) -> {t[i] : i \in DOMAIN t}]
  BY <1>1
<1> QED
  BY <1>1, <1>2, SeqDef DEF IsSeq

-----------------------------------------------------------------------------
\* The executor's position and files: what a step may do to them.

Start0 == [event |-> 0, effect |-> 0]

\* It stays at its operation, goes on to the next one, goes home, or begins a route.
Stays ==
    /\ pc' \in Places /\ route' = route /\ at' = at
    /\ pc' \in InEffect => Op.do = "effect"
    /\ host' \in Cursors /\ saved'.host \in Cursors

Advances ==
    /\ pc' = "op" /\ route' = route /\ at' = at + 1 /\ Op.do # "exit"
    /\ host' \in Cursors /\ saved'.host \in Cursors

GoesTo(r) ==
    /\ pc' \in {"op", "down"} /\ route' = r /\ r \in 1 .. ForkRoute /\ at' = 1
    /\ host' \in Cursors /\ saved'.host \in Cursors

FilesStep ==
    /\ oplog' = oplog \/ \E e : oplog' = Append(oplog, e)
    /\ UNCHANGED <<torn, resumedAt, runs>>
    /\ pc # "down"
    /\ runState' \in {"none", "running", "complete"} /\ faults' \in 0 .. MaxFaults

LEMMA Constants ==
    /\ Replays \in Nat /\ MaxFaults \in Nat /\ ForkRoute \in Nat /\ ForkRoute = Replays + 3
    /\ 1 \in 1 .. ForkRoute /\ Start0 \in Cursors /\ NoCheckpoint.host = Start0
<1>1. /\ Replays \in Nat /\ MaxFaults \in Nat /\ ForkRoute = Replays + 3
  BY ScenarioAssumption DEF ForkRoute
<1>2. Start0 \in Cursors
  BY DEF Start0, Cursors
<1>3. NoCheckpoint.host = Start0
  BY DEF NoCheckpoint, Start0
<1> QED
  BY <1>1, <1>2, <1>3

LEMMA PositionKept ==
    ASSUME PositionOK, Stays \/ Advances \/ \E r : GoesTo(r)
    PROVE  PositionOK'
<1>1. CASE Stays
  <2>1. (Op.do = "effect") => (Op.do = "effect")'
    BY <1>1 DEF Stays, Op
  <2> QED
    BY <1>1, <2>1 DEF Stays, PositionOK
<1>2. CASE Advances
  <2>1. RouteOK(Program[route])
    BY RoutesAre DEF PositionOK
  <2>2. at + 1 \in 1 .. Len(Program[route])
    BY <1>2, <2>1 DEF RouteOK, Advances, PositionOK, Op
  <2> QED
    BY <1>2, <2>2 DEF Advances, PositionOK, Places, InEffect
<1>3. ASSUME NEW r, GoesTo(r)
      PROVE  PositionOK'
  <2>1. RouteOK(Program[r])
    BY <1>3, RoutesAre DEF GoesTo
  <2>2. 1 \in 1 .. Len(Program[r])
    BY <2>1 DEF RouteOK
  <2> QED
    BY <1>3, <2>2 DEF GoesTo, PositionOK, Places, InEffect
<1> QED
  BY <1>1, <1>2, <1>3

LEMMA FilesKept ==
    ASSUME FilesOK, FilesStep
    PROVE  FilesOK'
<1>1. IsSeq(oplog') /\ Len(oplog') \in Nat /\ Len(oplog) \in Nat /\ Len(oplog) <= Len(oplog')
  <2>1. CASE oplog' = oplog
    BY <2>1, SeqIs DEF FilesOK
  <2>2. ASSUME NEW e, oplog' = Append(oplog, e)
        PROVE  /\ IsSeq(oplog') /\ Len(oplog') \in Nat /\ Len(oplog) \in Nat
               /\ Len(oplog) <= Len(oplog')
    <3>1. Longer(oplog, e, oplog')
      BY <2>2, AppendIs DEF FilesOK
    <3> QED
      BY <3>1 DEF Longer
  <2> QED
    BY <2>1, <2>2 DEF FilesStep
<1> QED
  BY <1>1 DEF FilesOK, FilesStep

\* Giving up, beginning a route, and writing one entry.
LEMMA GaveUp ==
    ASSUME NEW why, GiveUp(why), PositionOK, FilesOK, pc # "down", faults' \in 0 .. MaxFaults
    PROVE  GoesTo(1) /\ FilesStep
<1>1. /\ pc' = "down" /\ route' = 1 /\ at' = 1 /\ host' = Start0 /\ saved' = NoCheckpoint
      /\ UNCHANGED <<oplog, torn, runState, resumedAt, runs>>
  BY DEF GiveUp, files, Start0
<1> QED
  BY <1>1, Constants DEF GoesTo, FilesStep, FilesOK

LEMMA Began ==
    ASSUME NEW r \in 1 .. ForkRoute, Begin(r), PositionOK, FilesOK, pc # "down",
           UNCHANGED <<published, bookkeeping>>
    PROVE  GoesTo(r) /\ FilesStep
<1> DEFINE from == IF r = Recovered THEN saved ELSE [seen |-> <<>>, host |-> Start0]
<1>1. /\ pc' = "op" /\ route' = r /\ at' = 1 /\ host' = from.host
      /\ oplog' = Append(oplog, [kind |-> "creation", route |-> r, host |-> from.host])
      /\ UNCHANGED <<torn, runState, resumedAt, runs, saved, faults>>
  BY DEF Begin, Start0, bookkeeping
<1>2. from.host \in Cursors
  BY Constants DEF PositionOK
<1> HIDE DEF from
<1> QED
  BY <1>1, <1>2 DEF GoesTo, FilesStep, FilesOK, PositionOK

\* What every step does to the executor, except for the steps over a process boundary.
Ordinary == FilesStep /\ (Stays \/ Advances \/ \E r : GoesTo(r))

LEMMA StepIsOrdinary ==
    ASSUME ExecutorStep, PositionOK, FilesOK
    PROVE  Ordinary
<1> USE DEF position, files, bookkeeping
<1>0. /\ host \in Cursors /\ saved.host \in Cursors /\ faults \in 0 .. MaxFaults
      /\ runState \in {"none", "running", "complete"}
      /\ host.effect \in Nat /\ host.event \in Nat
  BY DEF PositionOK, FilesOK, Cursors
<1>01. [host EXCEPT !.effect = @ + 1] \in Cursors /\ [host EXCEPT !.event = @ + 1] \in Cursors
  BY <1>0 DEF Cursors
<1>02. [host |-> host, seen |-> seen].host = host
  OBVIOUS
<1>1. CASE WriteRunState
  BY <1>0, <1>1 DEF WriteRunState, Ordinary, FilesStep, Stays, Places, InEffect
<1>2. CASE Ensure
  <2>1. CASE Connectable
    BY <1>2, <2>1, Began, Constants DEF Ensure, Ordinary
  <2>2. CASE ~Connectable
    BY <1>0, <1>2, <2>2 DEF Ensure, Ordinary, FilesStep, Stays, Places, InEffect
  <2> QED
    BY <2>1, <2>2
<1>3. CASE EnsureSpawns
  BY <1>0, <1>3 DEF EnsureSpawns, Ordinary, FilesStep, Stays, Places, InEffect
<1>4. CASE EnsureSucceeds
  BY <1>4, Began, Constants DEF EnsureSucceeds, Ordinary
<1>5. CASE EnsureTimesOut
  <2>1. faults' \in 0 .. MaxFaults
    <3>1. (faults < MaxFaults /\ faults' = faults + 1) \/ faults' = faults
      BY <1>5, Zenon DEF EnsureTimesOut
    <3> QED
      BY <1>0, <3>1, Constants
  <2> QED
    BY <1>5, <2>1, GaveUp DEF EnsureTimesOut, Ordinary
<1>6. CASE AskEffect
  BY <1>0, <1>01, <1>6 DEF AskEffect, Reaches, Write, Ordinary, FilesStep, Stays, Places, InEffect
<1>7. CASE FromJournal
  <2>1. PICK c \in CommitsOf(Current.key) :
            IF Matches(c)
            THEN DeliverResult(c.result, "journal")
            ELSE GiveUp("journal mismatch") /\ UNCHANGED <<faults, providerVars>>
    BY <1>7 DEF FromJournal
  <2>2. CASE Matches(c)
    <3>1. Op.do = "effect" /\ pc = "asked"
      BY <1>7 DEF FromJournal, PositionOK, InEffect
    <3> QED
      BY <1>0, <2>1, <2>2, <3>1 DEF DeliverResult, Write, Ordinary, FilesStep, Advances
  <2>3. CASE ~Matches(c)
    BY <1>0, <1>7, <2>1, <2>3, GaveUp DEF FromJournal, Ordinary
  <2> QED
    BY <2>2, <2>3
<1>8. CASE JournalIntent
  <2>1. CASE Op.mode = "record"
    BY <1>0, <1>8, <2>1 DEF JournalIntent, Write, Ordinary, FilesStep, Stays, Places, InEffect, PositionOK
  <2>2. CASE Op.mode # "record"
    BY <1>0, <1>8, <2>2, GaveUp DEF JournalIntent, Ordinary
  <2> QED
    BY <2>1, <2>2
<1>9. CASE Reissue
  <2>1. PICK i \in DanglingOf(Current.key) :
          IF Op.mode = "record" /\ Matches(i)
          THEN /\ Write(EffectLine("reissue"))
               /\ pc' = "intended"
               /\ UNCHANGED <<position, bookkeeping>>
          ELSE /\ GiveUp(IF Op.mode = "record" THEN "reissue differs"
                         ELSE "missing committed effect")
               /\ UNCHANGED faults
    BY <1>9 DEF Reissue
  <2>2. pc = "asked"
    BY <1>9 DEF Reissue
  <2>3. CASE Op.mode = "record" /\ Matches(i)
    BY <1>0, <2>1, <2>2, <2>3 DEF Write, Ordinary, FilesStep, Stays, Places, InEffect, PositionOK
  <2>4. CASE ~(Op.mode = "record" /\ Matches(i))
    BY <1>0, <2>1, <2>2, <2>4, GaveUp DEF Ordinary
  <2> QED
    BY <2>3, <2>4
<1>10. CASE CallProvider
  <2>1. CASE Connectable
    BY <1>0, <1>10, <2>1 DEF CallProvider, Ordinary, FilesStep, Stays, Places, InEffect, PositionOK
  <2>2. CASE ~Connectable
    BY <1>0, <1>10, <2>2, GaveUp DEF CallProvider, Ordinary
  <2> QED
    BY <2>1, <2>2
<1>11. CASE ProviderReplies
  <2>1. CASE answer.status \in {"executed", "duplicate"}
    BY <1>0, <1>11, <2>1 DEF ProviderReplies, Ordinary, FilesStep, Stays, Places, InEffect, PositionOK
  <2>2. CASE answer.status \notin {"executed", "duplicate"}
    BY <1>0, <1>11, <2>2, GaveUp DEF ProviderReplies, Ordinary
  <2> QED
    BY <2>1, <2>2
<1>12. CASE ProviderHangsUp
  BY <1>0, <1>12, GaveUp DEF ProviderHangsUp, Ordinary
<1>13. CASE JournalCommit
  BY <1>0, <1>13 DEF JournalCommit, Write, Ordinary, FilesStep, Stays, Places, InEffect, PositionOK
<1>14. CASE DeliverFromProvider
  <2>1. Op.do = "effect" /\ pc = "committed"
    BY <1>14 DEF DeliverFromProvider, PositionOK, InEffect
  <2> QED
    BY <1>0, <1>14, <2>1 DEF DeliverFromProvider, Write, Ordinary, FilesStep, Advances
<1>15. CASE FinishEvent
  BY <1>0, <1>01, <1>15 DEF FinishEvent, Reaches, Write, Ordinary, FilesStep, Advances
<1>16. CASE TakeCheckpoint
  BY <1>0, <1>02, <1>16 DEF TakeCheckpoint, Reaches, Write, Ordinary, FilesStep, Advances
<1>17. CASE ExitRoute
  BY <1>0, <1>17 DEF ExitRoute, Reaches, Write, Ordinary, FilesStep, Stays, Places, InEffect
<1>18. CASE PublishCheckpoint
  <2>1. CASE saved = NoCheckpoint
    BY <1>0, <1>18, <2>1, GaveUp DEF PublishCheckpoint, Ordinary
  <2>2. CASE saved # NoCheckpoint
    BY <1>0, <1>18, <2>2 DEF PublishCheckpoint, Ordinary, FilesStep, Stays, Places, InEffect
  <2> QED
    BY <2>1, <2>2
<1>19. CASE NextRoute
  <2>1. CASE route < ForkRoute
    <3>1. route + 1 \in 1 .. ForkRoute
      BY <2>1, Constants DEF PositionOK
    <3> QED
      BY <1>19, <2>1, <3>1, Began DEF NextRoute, Ordinary
  <2>2. CASE ~(route < ForkRoute)
    BY <1>0, <1>19, <2>2 DEF NextRoute, Ordinary, FilesStep, Stays, Places, InEffect
  <2> QED
    BY <2>1, <2>2
<1>20. CASE StopProvider
  BY <1>0, <1>20 DEF StopProvider, Ordinary, FilesStep, Stays, Places, InEffect
<1>21. CASE ProviderStopped
  BY <1>0, <1>21 DEF ProviderStopped, Ordinary, FilesStep, Stays, Places, InEffect
<1>22. CASE Seal
  <2>1. CASE LogIntact /\ ~ptorn
    BY <1>0, <1>22, <2>1 DEF Seal, Ordinary, FilesStep, Stays, Places, InEffect
  <2>2. CASE ~(LogIntact /\ ~ptorn)
    BY <1>0, <1>22, <2>2, GaveUp DEF Seal, Ordinary
  <2> QED
    BY <2>1, <2>2
<1>23. CASE Report
  BY <1>0, <1>23 DEF Report, Ordinary, FilesStep, Stays, Places, InEffect
<1> QED
  BY <1>1, <1>2, <1>3, <1>4, <1>5, <1>6, <1>7, <1>8, <1>9, <1>10, <1>11, <1>12, <1>13, <1>14,
     <1>15, <1>16, <1>17, <1>18, <1>19, <1>20, <1>21, <1>22, <1>23 DEF ExecutorStep

\* Starting, resuming and dying.
LEMMA StartMoves ==
    ASSUME Start, PositionOK, FilesOK
    PROVE  PositionOK' /\ FilesOK'
<1> USE DEF position, files
<1>1. Stays
  BY DEF Start, Stays, PositionOK, Places, InEffect
<1>2. FilesOK'
  <2>1. 1 \in 0 .. MaxFaults + 1 /\ 0 \in 0 .. Len(oplog)
    BY Constants, SeqIs DEF FilesOK
  <2> QED
    BY <2>1 DEF Start, FilesOK
<1> QED
  BY <1>1, <1>2, PositionKept

LEMMA ResumeMoves ==
    ASSUME Resume, PositionOK, FilesOK
    PROVE  PositionOK' /\ FilesOK'
<1> USE DEF position, files
<1>1. Stays
  BY DEF Resume, Stays, PositionOK, Places, InEffect
<1>2. Longer(oplog, [kind |-> "resume", route |-> 1], oplog')
  BY AppendIs DEF Resume, FilesOK
<1>3. IsSeq(oplog') /\ Len(oplog) \in 0 .. Len(oplog')
  BY <1>2 DEF Longer
<1>4. runs + 1 \in 0 .. MaxFaults + 1 /\ runs + 1 # 0
  BY Constants DEF Resume, FilesOK
<1>5. FilesOK'
  BY <1>3, <1>4 DEF Resume, FilesOK
<1> QED
  BY <1>1, <1>5, PositionKept

LEMMA DeathMoves ==
    ASSUME ExecutorDies, PositionOK, FilesOK
    PROVE  PositionOK' /\ FilesOK'
<1>1. GoesTo(1)
  BY Constants DEF ExecutorDies, GoesTo, Start0
<1>2. torn' \in BOOLEAN /\ faults' \in 0 .. MaxFaults /\ runs # 0
  <2>1. torn' \in IF pc \in {"ensure", "wait", "op", "asked", "replied", "committed", "next"}
                  THEN BOOLEAN ELSE {FALSE}
    BY DEF ExecutorDies
  <2>2. torn' \in BOOLEAN
    BY <2>1
  <2> QED
    BY <2>2, Constants DEF ExecutorDies, FilesOK
<1>3. FilesOK'
  BY <1>2 DEF ExecutorDies, FilesOK
<1> QED
  BY <1>1, <1>3, PositionKept

LEMMA ExecutorKept ==
    ASSUME [Next]_vars, PositionOK, FilesOK
    PROVE  PositionOK' /\ FilesOK'
<1> USE DEF position, files, bookkeeping, executorVars
<1>1. CASE ExecutorStep
  BY <1>1, StepIsOrdinary, PositionKept, FilesKept DEF Ordinary
<1>2. CASE UNCHANGED executorVars
  BY <1>2 DEF PositionOK, FilesOK, Op
<1>3. ASSUME NEW p \in Providers, ProviderKilled(p)
      PROVE  PositionOK' /\ FilesOK'
  <2>1. faults' \in 0 .. MaxFaults
    BY <1>3, Constants DEF ProviderKilled, FilesOK
  <2> QED
    BY <1>3, <2>1 DEF ProviderKilled, PositionOK, FilesOK, Op
<1> QED
  BY <1>1, <1>2, <1>3, StartMoves, ResumeMoves, DeathMoves DEF Next, ProviderStep, vars

-----------------------------------------------------------------------------
\* The provider's log and what the processes know of it.

Only(p) == DOMAIN prov' = Providers /\ \A q \in Providers \ {p} : prov'[q] = prov[q]

\* Nothing is logged, and no process learns or forgets anything; one may bind.
Quiet ==
    /\ plog' = plog /\ ptorn' = ptorn /\ overlapped' = overlapped
    /\ \A p \in Providers :
          /\ prov'[p].executed = prov[p].executed /\ prov'[p].consumed = prov[p].consumed
          /\ prov'[p].seq = prov[p].seq
          /\ prov'[p].st # prov[p].st => prov[p].st = "starting" /\ prov'[p].st = "bound"

Spawned(p) ==
    /\ plog' = plog /\ ptorn' = ptorn /\ Only(p) /\ prov'[p].st = "starting"
    /\ ~overlapped' => ~overlapped /\ \A q \in Providers : prov[q].st = "off"

Gone(p) ==
    /\ plog' = plog /\ overlapped' = overlapped /\ Only(p)
    /\ prov[p].st # "off" /\ prov'[p].st = "off"

Learned(p) ==
    /\ plog' = plog /\ ptorn' = FALSE /\ overlapped' = overlapped /\ Only(p) /\ LogIntact
    /\ prov[p].st # "off" /\ prov'[p].st = "rebuilt"
    /\ prov'[p].executed = {Bound(plog[i]) : i \in Executions}
    /\ prov'[p].consumed = [n \in Names |-> Cardinality({i \in Executions : plog[i].name = n})]
    /\ prov'[p].seq = Len(plog)

\* Process p appends one line.
Writes(p, line) ==
    /\ Knows(p) /\ plog' = Append(plog, line) /\ ptorn' = FALSE /\ overlapped' = overlapped
    /\ Only(p)
    /\ line.seq = prov[p].seq + 1 /\ (line.whole <=> ~ptorn)
    /\ prov'[p].st # "off" => Knows(p)' /\ prov'[p].seq = prov[p].seq + 1

Marks(p, line) ==
    /\ Writes(p, line) /\ line.status # "executed"
    /\ prov'[p].st # "off" => prov'[p].executed = prov[p].executed
                              /\ prov'[p].consumed = prov[p].consumed

Executes(p, line) ==
    /\ Writes(p, line) /\ line.status = "executed" /\ line.name \in Names
    /\ prov'[p].st # "off"
    /\ \A b \in prov[p].executed : b.key # line.key
    /\ line.result = <<line.name, prov[p].consumed[line.name] + 1>>
    /\ prov'[p].executed = prov[p].executed \cup {Bound(line)}
    /\ prov'[p].consumed = [prov[p].consumed EXCEPT ![line.name] = @ + 1]

LEMMA ExecutionsAre ==
    ASSUME ProcessesOK
    PROVE  /\ Len(plog) \in Nat /\ DOMAIN plog = 1 .. Len(plog)
           /\ IsFiniteSet(Executions) /\ Executions \subseteq 1 .. Len(plog)
           /\ \A T \in SUBSET Executions : IsFiniteSet(T) /\ Cardinality(T) \in Nat
<1>1. Len(plog) \in Nat /\ DOMAIN plog = 1 .. Len(plog)
  BY SeqIs DEF ProcessesOK
<1>2. Executions \subseteq 1 .. Len(plog)
  BY <1>1 DEF Executions
<1>3. IsFiniteSet(1 .. Len(plog))
  BY <1>1, FS_Interval
<1>4. IsFiniteSet(Executions)
  BY <1>2, <1>3, FS_Subset
<1>5. \A T \in SUBSET Executions : IsFiniteSet(T) /\ Cardinality(T) \in Nat
  BY <1>4, FS_Subset, FS_CardinalityType
<1> QED
  BY <1>1, <1>2, <1>4, <1>5

\* When nothing is logged the properties of the log stay.
LEMMA SameLog ==
    ASSUME plog' = plog
    PROVE  /\ Executions' = Executions /\ (LogIntact' <=> LogIntact)
           /\ VerifiedMeansOnce => VerifiedMeansOnce'
<1>1. Executions' = Executions
  BY DEF Executions
<1>2. LogIntact' <=> LogIntact
  BY DEF LogIntact
<1>3. VerifiedMeansOnce => VerifiedMeansOnce'
  BY <1>1, <1>2 DEF VerifiedMeansOnce
<1> QED
  BY <1>1, <1>2, <1>3

\* A process that does not change knows what it knew, when nothing is logged.
Remembers(p) ==
    /\ prov'[p].executed = prov[p].executed /\ prov'[p].consumed = prov[p].consumed
    /\ prov'[p].seq = prov[p].seq

MemoryOf(p) ==
    /\ prov[p].seq <= Len(plog)
    /\ prov[p].executed \subseteq {Bound(plog[i]) : i \in Executions}
    /\ LogIntact =>
          /\ prov[p].executed = {Bound(plog[i]) : i \in Mine(p)}
          /\ \A n \in Names :
                prov[p].consumed[n] = Cardinality({i \in Mine(p) : plog[i].name = n})

LEMMA MemoryIs ==
    MemoryOK <=> \A p \in Providers : Knows(p) => MemoryOf(p)
  BY DEF MemoryOK, MemoryOf

LEMMA SameMemory ==
    ASSUME NEW p \in Providers, plog' = plog, Remembers(p), MemoryOf(p)
    PROVE  MemoryOf(p)'
<1>1. Executions' = Executions /\ (LogIntact' <=> LogIntact)
  BY SameLog
<1>2. Mine(p)' = Mine(p)
  BY <1>1 DEF Mine, Remembers
<1>3. {Bound(plog'[i]) : i \in Executions'} = {Bound(plog[i]) : i \in Executions}
  BY <1>1
<1>4. {Bound(plog'[i]) : i \in Mine(p)'} = {Bound(plog[i]) : i \in Mine(p)}
  BY <1>2
<1>5. \A n \in Names : {i \in Mine(p)' : plog'[i].name = n} = {i \in Mine(p) : plog[i].name = n}
  BY <1>2
<1> QED
  BY <1>1, <1>3, <1>4, <1>5 DEF MemoryOf, Remembers

LEMMA QuietKept ==
    ASSUME ProviderOK, Quiet, ProcessesOK'
    PROVE  ProviderOK'
<1>1. ASSUME NEW p \in Providers
      PROVE  (Knows(p)' <=> Knows(p)) /\ Remembers(p)
             /\ (prov'[p].st # "off" <=> prov[p].st # "off")
  BY DEF Quiet, Knows, Remembers
<1>2. MemoryOK'
  <2>1. ASSUME NEW p \in Providers, Knows(p)'
        PROVE  MemoryOf(p)'
    BY <1>1, <2>1, MemoryIs, SameMemory DEF Quiet, ProviderOK
  <2> QED
    BY <2>1 DEF MemoryOK, MemoryOf
<1>3. VerifiedMeansOnce'
  BY SameLog DEF Quiet, ProviderOK
<1>4. AloneOK'
  BY <1>1, SameLog DEF Quiet, ProviderOK, AloneOK, Remembers
<1> QED
  BY <1>2, <1>3, <1>4 DEF ProviderOK

LEMMA SpawnedKept ==
    ASSUME NEW p \in Providers, ProviderOK, Spawned(p), ProcessesOK'
    PROVE  ProviderOK'
<1>1. MemoryOK'
  <2>1. ASSUME NEW q \in Providers, Knows(q)'
        PROVE  MemoryOf(q)'
    <3>1. q # p /\ Knows(q) /\ Remembers(q)
      BY <2>1 DEF Spawned, Only, Knows, Remembers
    <3> QED
      BY <3>1, MemoryIs, SameMemory DEF Spawned, ProviderOK
  <2> QED
    BY <2>1 DEF MemoryOK, MemoryOf
<1>2. VerifiedMeansOnce'
  BY SameLog DEF Spawned, ProviderOK
<1>3. AloneOK'
  BY SameLog DEF Spawned, Only, ProviderOK, AloneOK, Knows
<1> QED
  BY <1>1, <1>2, <1>3 DEF ProviderOK

LEMMA GoneKept ==
    ASSUME NEW p \in Providers, ProviderOK, Gone(p), ProcessesOK'
    PROVE  ProviderOK'
<1>1. MemoryOK'
  <2>1. ASSUME NEW q \in Providers, Knows(q)'
        PROVE  MemoryOf(q)'
    <3>1. q # p /\ Knows(q) /\ Remembers(q)
      BY <2>1 DEF Gone, Only, Knows, Remembers
    <3> QED
      BY <3>1, MemoryIs, SameMemory DEF Gone, ProviderOK
  <2> QED
    BY <2>1 DEF MemoryOK, MemoryOf
<1>2. VerifiedMeansOnce'
  BY SameLog DEF Gone, ProviderOK
<1>3. AloneOK'
  <2>1. ASSUME ~overlapped'
        PROVE  LogIntact' /\ \A q \in Providers : prov'[q].st = "off"
    BY <2>1, SameLog DEF Gone, Only, ProviderOK, AloneOK
  <2> QED
    BY <2>1 DEF AloneOK, Knows
<1> QED
  BY <1>1, <1>2, <1>3 DEF ProviderOK

LEMMA LearnedKept ==
    ASSUME NEW p \in Providers, ProviderOK, Learned(p), ProcessesOK'
    PROVE  ProviderOK'
<1>1. MemoryOK'
  <2>1. ASSUME NEW q \in Providers, q # p, Knows(q)'
        PROVE  MemoryOf(q)'
    <3>1. Knows(q) /\ Remembers(q)
      BY <2>1 DEF Learned, Only, Knows, Remembers
    <3> QED
      BY <3>1, MemoryIs, SameMemory DEF Learned, ProviderOK
  <2>2. MemoryOf(p)'
    <3>1. Executions' = Executions /\ plog' = plog
      BY SameLog DEF Learned
    <3>2. Mine(p)' = Executions
      BY <3>1, ExecutionsAre DEF Mine, Learned, ProviderOK
    <3>3. Len(plog) <= Len(plog)
      BY ExecutionsAre DEF ProviderOK
    <3> QED
      BY <3>1, <3>2, <3>3 DEF MemoryOf, Learned
  <2> QED
    BY <2>1, <2>2 DEF MemoryOK, MemoryOf
<1>2. VerifiedMeansOnce'
  BY SameLog DEF Learned, ProviderOK
<1>3. AloneOK'
  BY SameLog DEF Learned, Only, ProviderOK, AloneOK, Knows
<1> QED
  BY <1>1, <1>2, <1>3 DEF ProviderOK

LEMMA LogGrows ==
    ASSUME ProcessesOK, NEW line, plog' = Append(plog, line)
    PROVE  /\ Longer(plog, line, plog')
           /\ line.status # "executed" => Executions' = Executions
           /\ line.status = "executed" => Executions' = Executions \cup {Len(plog) + 1}
           /\ \A i \in Executions : plog'[i] = plog[i] /\ i \in 1 .. Len(plog)
           /\ LogIntact' => LogIntact /\ line.whole /\ line.seq = Len(plog) + 1
           /\ LogIntact /\ line.whole /\ line.seq = Len(plog) + 1 => LogIntact'
<1>1. Longer(plog, line, plog')
  BY AppendIs DEF ProcessesOK
<1>2. /\ Len(plog) \in Nat /\ DOMAIN plog = 1 .. Len(plog) /\ DOMAIN plog' = 1 .. Len(plog) + 1
      /\ plog'[Len(plog) + 1] = line /\ \A i \in 1 .. Len(plog) : plog'[i] = plog[i]
  BY <1>1 DEF Longer
<1>3. DOMAIN plog' = DOMAIN plog \cup {Len(plog) + 1}
  BY <1>2
<1>4. \A i \in Executions : plog'[i] = plog[i] /\ i \in 1 .. Len(plog)
  BY <1>2 DEF Executions
<1>5. /\ line.status # "executed" => Executions' = Executions
      /\ line.status = "executed" => Executions' = Executions \cup {Len(plog) + 1}
  BY <1>2, <1>3 DEF Executions
<1>6. LogIntact' <=> (LogIntact /\ line.whole /\ line.seq = Len(plog) + 1)
  BY <1>2, <1>3 DEF LogIntact
<1> QED
  BY <1>1, <1>4, <1>5, <1>6

\* A process that does not write knows what it knew.
LEMMA OthersRemember ==
    ASSUME ProcessesOK, ProcessesOK', NEW line, plog' = Append(plog, line),
           NEW q \in Providers, prov'[q] = prov[q], MemoryOf(q)
    PROVE  MemoryOf(q)'
<1>1. Longer(plog, line, plog') /\ Len(plog) \in Nat /\ Len(plog') = Len(plog) + 1
  BY LogGrows DEF Longer
<1>2. prov[q].seq \in Nat /\ prov[q].seq <= Len(plog) /\ prov[q].seq <= Len(plog')
  BY <1>1 DEF MemoryOf, ProcessesOK, IsProcess
<1>3. Executions \subseteq Executions' /\ \A i \in Executions : plog'[i] = plog[i]
  BY LogGrows
<1>4. Mine(q)' = Mine(q)
  <2>1. Len(plog) + 1 > prov[q].seq
    BY <1>1, <1>2
  <2>2. Executions' = Executions \/ Executions' = Executions \cup {Len(plog) + 1}
    BY LogGrows
  <2> QED
    BY <1>2, <2>1, <2>2 DEF Mine
<1>5. {Bound(plog[i]) : i \in Executions} \subseteq {Bound(plog'[i]) : i \in Executions'}
  BY <1>3
<1>6. \A i \in Mine(q) : plog'[i] = plog[i]
  BY <1>3 DEF Mine
<1>7. {Bound(plog'[i]) : i \in Mine(q)'} = {Bound(plog[i]) : i \in Mine(q)}
  BY <1>4, <1>6
<1>8. \A n \in Names : {i \in Mine(q)' : plog'[i].name = n} = {i \in Mine(q) : plog[i].name = n}
  BY <1>4, <1>6
<1>9. LogIntact' => LogIntact
  BY LogGrows
<1> QED
  BY <1>2, <1>5, <1>7, <1>8, <1>9 DEF MemoryOf

\* The writer that stays knows its line as well.
LEMMA WriterKnows ==
    ASSUME ProviderOK, ProcessesOK', NEW p \in Providers, NEW line, Writes(p, line),
           prov'[p].st # "off"
    PROVE  /\ prov'[p].seq <= Len(plog')
           /\ LogIntact' => Mine(p) = Executions /\ Mine(p)' = Executions' /\ prov[p].seq = Len(plog)
<1>1. Longer(plog, line, plog') /\ Len(plog) \in Nat /\ Len(plog') = Len(plog) + 1
  BY LogGrows DEF Longer, Writes, ProviderOK
<1>2. MemoryOf(p) /\ prov[p].seq \in Nat
  BY MemoryIs DEF ProviderOK, Writes, ProcessesOK, IsProcess
<1>3. prov'[p].seq <= Len(plog')
  BY <1>1, <1>2 DEF MemoryOf, Writes
<1>4. ASSUME LogIntact'
      PROVE  Mine(p) = Executions /\ Mine(p)' = Executions' /\ prov[p].seq = Len(plog)
  <2>1. prov[p].seq = Len(plog) /\ prov'[p].seq = Len(plog')
    BY <1>1, <1>2, <1>4, LogGrows DEF Writes, ProviderOK
  <2>2. Mine(p) = Executions
    BY <2>1, ExecutionsAre DEF Mine, ProviderOK
  <2>3. Executions' \subseteq 1 .. Len(plog')
    BY <1>1, LogGrows DEF Writes, ProviderOK, Executions, Longer
  <2>4. Mine(p)' = Executions'
    <3>1. \A i \in Executions' : i <= prov'[p].seq
      BY <1>1, <2>1, <2>3
    <3> QED
      BY <3>1 DEF Mine
  <2> QED
    BY <2>1, <2>2, <2>4
<1> QED
  BY <1>3, <1>4

LEMMA AloneWrites ==
    ASSUME ProviderOK, ProcessesOK', NEW p \in Providers, NEW line, Writes(p, line)
    PROVE  AloneOK'
<1> SUFFICES ASSUME ~overlapped'
             PROVE  /\ LogIntact'
                    /\ \A q, r \in Providers : prov'[q].st # "off" /\ prov'[r].st # "off" => q = r
                    /\ \A q \in Providers : Knows(q)' => prov'[q].seq = Len(plog') /\ ~ptorn'
  BY DEF AloneOK
<1>1. /\ LogIntact /\ prov[p].seq = Len(plog) /\ ~ptorn
      /\ \A q \in Providers : q # p => prov[q].st = "off"
  BY DEF Writes, ProviderOK, AloneOK, Knows
<1>2. Longer(plog, line, plog') /\ Len(plog) \in Nat /\ Len(plog') = Len(plog) + 1
  BY LogGrows DEF Longer, Writes, ProviderOK
<1>3. LogIntact'
  BY <1>1, <1>2, LogGrows DEF Writes, ProviderOK
<1>4. \A q \in Providers : q # p => prov'[q].st = "off"
  BY <1>1 DEF Writes, Only
<1> QED
  BY <1>1, <1>2, <1>3, <1>4 DEF Writes, Knows

LEMMA MarksKept ==
    ASSUME ProviderOK, ProcessesOK', NEW p \in Providers, NEW line, Marks(p, line)
    PROVE  ProviderOK'
<1>1. Executions' = Executions /\ \A i \in Executions : plog'[i] = plog[i]
  BY LogGrows DEF Marks, Writes, ProviderOK
<1>2. MemoryOK'
  <2>1. ASSUME NEW q \in Providers, q # p, Knows(q)'
        PROVE  MemoryOf(q)'
    <3>1. prov'[q] = prov[q] /\ Knows(q)
      BY <2>1 DEF Marks, Writes, Only, Knows
    <3> QED
      BY <3>1, MemoryIs, OthersRemember DEF Marks, Writes, ProviderOK
  <2>2. ASSUME Knows(p)'
        PROVE  MemoryOf(p)'
    <3>1. prov'[p].st # "off" /\ MemoryOf(p)
      BY <2>2, MemoryIs DEF Knows, Marks, Writes, ProviderOK
    <3>2. /\ prov'[p].seq <= Len(plog')
          /\ LogIntact' => Mine(p) = Executions /\ Mine(p)' = Executions
      BY <1>1, <3>1, WriterKnows DEF Marks
    <3>3. {Bound(plog'[i]) : i \in Executions'} = {Bound(plog[i]) : i \in Executions}
      BY <1>1
    <3>4. \A n \in Names : {i \in Executions : plog'[i].name = n} = {i \in Executions : plog[i].name = n}
      BY <1>1
    <3>5. LogIntact' => LogIntact
      BY LogGrows DEF Marks, Writes, ProviderOK
    <3> QED
      BY <1>1, <3>1, <3>2, <3>3, <3>4, <3>5 DEF MemoryOf, Marks
  <2> QED
    BY <2>1, <2>2 DEF MemoryOK, MemoryOf
<1>3. VerifiedMeansOnce'
  <2>1. LogIntact' => LogIntact
    BY LogGrows DEF Marks, Writes, ProviderOK
  <2>2. ASSUME NEW i \in Executions
        PROVE  {j \in Executions' : j < i /\ plog'[j].name = plog'[i].name}
                 = {j \in Executions : j < i /\ plog[j].name = plog[i].name}
    BY <1>1
  <2> SUFFICES ASSUME LogIntact', NEW i \in Executions
               PROVE  LET earlier == {j \in Executions' : j < i /\ plog'[j].name = plog'[i].name}
                      IN  /\ plog'[i].result = <<plog'[i].name, Cardinality(earlier) + 1>>
                          /\ \A j \in earlier : plog'[j].key # plog'[i].key
    BY <1>1 DEF VerifiedMeansOnce
  <2> DEFINE earlier == {j \in Executions : j < i /\ plog[j].name = plog[i].name}
  <2>3. earlier \subseteq Executions
    OBVIOUS
  <2>4. /\ plog[i].result = <<plog[i].name, Cardinality(earlier) + 1>>
        /\ \A j \in earlier : plog[j].key # plog[i].key
    BY <2>1 DEF VerifiedMeansOnce, ProviderOK
  <2>5. {j \in Executions' : j < i /\ plog'[j].name = plog'[i].name} = earlier
    BY <2>2
  <2> HIDE DEF earlier
  <2> QED
    BY <1>1, <2>3, <2>4, <2>5
<1>4. AloneOK'
  BY AloneWrites DEF Marks
<1> QED
  BY <1>2, <1>3, <1>4 DEF ProviderOK

LEMMA ExecutesKept ==
    ASSUME ProviderOK, ProcessesOK', NEW p \in Providers, NEW line, Executes(p, line)
    PROVE  ProviderOK'
<1> DEFINE new == Len(plog) + 1
<1>0. Longer(plog, line, plog') /\ Len(plog) \in Nat /\ new \notin Executions
  BY LogGrows, ExecutionsAre DEF Longer, Executes, Writes, ProviderOK
<1>1. /\ Executions' = Executions \cup {new}
      /\ \A i \in Executions : plog'[i] = plog[i] /\ i < new
      /\ plog'[new] = line
  BY <1>0, LogGrows DEF Executes, Writes, ProviderOK, Longer
<1>2. /\ MemoryOf(p) /\ prov'[p].seq <= Len(plog')
      /\ LogIntact' => LogIntact /\ Mine(p) = Executions /\ Mine(p)' = Executions'
  BY MemoryIs, WriterKnows, LogGrows DEF Executes, Writes, ProviderOK
<1> HIDE DEF new
<1>3. {Bound(plog'[i]) : i \in Executions'} = {Bound(plog[i]) : i \in Executions} \cup {Bound(line)}
  BY <1>1
<1>4. ASSUME NEW n \in Names
      PROVE  Cardinality({i \in Executions' : plog'[i].name = n})
               = Cardinality({i \in Executions : plog[i].name = n}) + IF n = line.name THEN 1 ELSE 0
  <2> DEFINE T == {i \in Executions : plog[i].name = n}
  <2>1. IsFiniteSet(T) /\ Cardinality(T) \in Nat /\ new \notin T
    BY <1>0, ExecutionsAre DEF ProviderOK
  <2>2. CASE n = line.name
    <3>1. {i \in Executions' : plog'[i].name = n} = T \cup {new}
      BY <1>1, <2>2
    <3>2. Cardinality(T \cup {new}) = Cardinality(T) + 1
      <4> HIDE DEF T
      <4> QED
        BY <2>1, FS_AddElement
    <3> QED
      BY <2>2, <3>1, <3>2, Zenon
  <2>3. CASE n # line.name
    <3>1. {i \in Executions' : plog'[i].name = n} = T
      BY <1>1, <2>3
    <3>2. Cardinality(T) = Cardinality(T) + 0
      <4> HIDE DEF T
      <4> QED
        BY <2>1
    <3> QED
      BY <2>3, <3>1, <3>2, Zenon
  <2> QED
    BY <2>2, <2>3
<1>5. MemoryOK'
  <2>1. ASSUME NEW q \in Providers, q # p, Knows(q)'
        PROVE  MemoryOf(q)'
    <3>1. prov'[q] = prov[q] /\ Knows(q)
      BY <2>1 DEF Executes, Writes, Only, Knows
    <3> QED
      BY <3>1, MemoryIs, OthersRemember DEF Executes, Writes, ProviderOK
  <2>2. MemoryOf(p)'
    <3>1. prov'[p].executed \subseteq {Bound(plog'[i]) : i \in Executions'}
      BY <1>2, <1>3 DEF MemoryOf, Executes
    <3>2. ASSUME LogIntact'
          PROVE  /\ prov'[p].executed = {Bound(plog'[i]) : i \in Mine(p)'}
                 /\ \A n \in Names :
                       prov'[p].consumed[n] = Cardinality({i \in Mine(p)' : plog'[i].name = n})
      <4>1. prov'[p].executed = {Bound(plog'[i]) : i \in Mine(p)'}
        BY <1>2, <1>3, <3>2 DEF MemoryOf, Executes
      <4>2. ASSUME NEW n \in Names
            PROVE  prov'[p].consumed[n] = Cardinality({i \in Mine(p)' : plog'[i].name = n})
        <5>1. prov[p].consumed \in [Names -> Nat]
          BY DEF ProviderOK, ProcessesOK, IsProcess
        <5>2. prov'[p].consumed[n] = prov[p].consumed[n] + IF n = line.name THEN 1 ELSE 0
          BY <5>1 DEF Executes
        <5>3. prov[p].consumed[n] = Cardinality({i \in Executions : plog[i].name = n})
          BY <1>2, <3>2 DEF MemoryOf
        <5> QED
          BY <1>2, <1>4, <3>2, <5>2, <5>3
      <4> QED
        BY <4>1, <4>2
    <3> QED
      BY <1>2, <3>1, <3>2 DEF MemoryOf
  <2> QED
    BY <2>1, <2>2 DEF MemoryOK, MemoryOf
<1>6. VerifiedMeansOnce'
  <2> SUFFICES ASSUME LogIntact', NEW i \in Executions'
               PROVE  LET earlier == {j \in Executions' : j < i /\ plog'[j].name = plog'[i].name}
                      IN  /\ plog'[i].result = <<plog'[i].name, Cardinality(earlier) + 1>>
                          /\ \A j \in earlier : plog'[j].key # plog'[i].key
    BY DEF VerifiedMeansOnce
  <2> DEFINE earlier == {j \in Executions' : j < i /\ plog'[j].name = plog'[i].name}
  <2>1. CASE i \in Executions
    <3>1. earlier = {j \in Executions : j < i /\ plog[j].name = plog[i].name}
      <4>1. new \in Nat /\ i \in Nat /\ ~(new < i)
        BY <1>0, <1>1, <2>1, ExecutionsAre DEF ProviderOK, new
      <4> QED
        BY <1>1, <2>1, <4>1
    <3> HIDE DEF earlier
    <3>2. /\ plog[i].result = <<plog[i].name, Cardinality(earlier) + 1>>
          /\ \A j \in earlier : plog[j].key # plog[i].key
      BY <1>2, <2>1, <3>1 DEF VerifiedMeansOnce, ProviderOK
    <3>3. earlier \subseteq Executions
      BY <3>1
    <3> QED
      BY <1>1, <2>1, <3>2, <3>3 DEF earlier
  <2>2. CASE i = new
    <3>1. earlier = {j \in Executions : plog[j].name = line.name}
      <4>1. new \in Nat /\ ~(new < new)
        BY <1>0 DEF new
      <4> QED
        BY <1>1, <2>2, <4>1
    <3> HIDE DEF earlier
    <3>2. prov[p].consumed[line.name] = Cardinality(earlier)
      BY <1>2, <3>1 DEF MemoryOf, Executes
    <3>3. prov[p].executed = {Bound(plog[j]) : j \in Executions}
      BY <1>2 DEF MemoryOf
    <3>4. ASSUME NEW j \in earlier
          PROVE  plog'[j].key # plog'[i].key
      <4>1. Bound(plog[j]) \in prov[p].executed /\ Bound(plog[j]).key = plog[j].key
        BY <3>1, <3>3 DEF Bound
      <4>2. plog[j].key # line.key
        BY <4>1 DEF Executes
      <4> QED
        BY <1>1, <2>2, <3>1, <4>2
    <3>5. plog'[i].result = <<plog'[i].name, Cardinality(earlier) + 1>>
      BY <1>1, <2>2, <3>2 DEF Executes
    <3> QED
      BY <3>4, <3>5 DEF earlier
  <2> QED
    BY <1>1, <2>1, <2>2
<1>7. AloneOK'
  BY AloneWrites DEF Executes
<1> QED
  BY <1>5, <1>6, <1>7 DEF ProviderOK

-----------------------------------------------------------------------------
\* What each action does to a process.

Process(st, executed, consumed, seq, backlog) ==
    [st |-> st, executed |-> executed, consumed |-> consumed, seq |-> seq, backlog |-> backlog]

Becomes(p, r) == Only(p) /\ prov'[p] = r

LEMMA BecomesIs ==
    ASSUME ProcessesOK, NEW p \in Providers, NEW st, NEW executed, NEW consumed, NEW seq,
           NEW backlog, Becomes(p, Process(st, executed, consumed, seq, backlog))
    PROVE  /\ prov'[p].st = st /\ prov'[p].executed = executed /\ prov'[p].consumed = consumed
           /\ prov'[p].seq = seq /\ prov'[p].backlog = backlog
           /\ Only(p)
           /\ prov'[p] = Process(prov'[p].st, prov'[p].executed, prov'[p].consumed,
                                 prov'[p].seq, prov'[p].backlog)
  BY DEF Becomes, Process

LEMMA ProcessIs ==
    ASSUME ProcessesOK, NEW p \in Providers
    PROVE  /\ prov[p] = Process(prov[p].st, prov[p].executed, prov[p].consumed, prov[p].seq,
                                prov[p].backlog)
           /\ prov[p].st \in {"off", "starting", "bound", "rebuilt", "serving"}
           /\ prov[p].consumed \in [Names -> Nat] /\ prov[p].seq \in Nat
           /\ IsSeq(prov[p].backlog) /\ \A i \in DOMAIN prov[p].backlog : IsCall(prov[p].backlog[i])
  BY DEF ProcessesOK, IsProcess, Process

\* A process that changes into a process, the log and the socket being in order.
LEMMA BecomesProcess ==
    ASSUME ProcessesOK, NEW p \in Providers, NEW st, NEW executed, NEW consumed, NEW seq,
           NEW backlog, Becomes(p, Process(st, executed, consumed, seq, backlog)),
           st \in {"off", "starting", "bound", "rebuilt", "serving"},
           consumed \in [Names -> Nat], seq \in Nat, IsSeq(backlog),
           \A i \in DOMAIN backlog : IsCall(backlog[i])
    PROVE  DOMAIN prov' = Providers /\ \A q \in Providers : IsProcess(prov'[q])
<1>1. IsProcess(prov'[p])
  BY BecomesIs DEF IsProcess, Process
<1>2. \A q \in Providers : q # p => prov'[q] = prov[q] /\ IsProcess(prov[q])
  BY DEF Becomes, Only, ProcessesOK
<1>3. DOMAIN prov' = Providers
  BY DEF Becomes, Only
<1>4. \A q \in Providers : IsProcess(prov'[q])
  BY <1>1, <1>2
<1> QED
  BY <1>3, <1>4

LEMMA OffIs ==
    /\ Off = Process("off", {}, [n \in Names |-> 0], 0, <<>>)
    /\ [n \in Names |-> 0] \in [Names -> Nat] /\ 0 \in Nat /\ IsSeq(<<>>)
    /\ \A i \in DOMAIN <<>> : IsCall(<<>>[i])
<1>1. DOMAIN <<>> = {} /\ IsSeq(<<>>)
  BY EmptyIs
<1> QED
  BY <1>1 DEF Off, Process

\* A process that ends, the log staying as it is.
LEMMA EndedKept ==
    ASSUME ProviderOK, NEW p \in Providers, prov[p].st # "off", prov' = [prov EXCEPT ![p] = Off],
           plog' = plog, overlapped' = overlapped, ptorn' \in BOOLEAN, sock' = sock
    PROVE  ProviderOK'
<1>1. Becomes(p, Off)
  BY DEF Becomes, Only, ProviderOK, ProcessesOK
<1>2. prov'[p].st = "off" /\ DOMAIN prov' = Providers /\ \A q \in Providers : IsProcess(prov'[q])
  BY <1>1, OffIs, BecomesIs, BecomesProcess DEF ProviderOK
<1>3. ProcessesOK'
  BY <1>2, SameLog DEF ProviderOK, ProcessesOK
<1>4. Gone(p)
  BY <1>1, <1>2 DEF Gone, Becomes
<1> QED
  BY <1>3, <1>4, GoneKept

LEMMA BindKept ==
    ASSUME ProviderOK, NEW p \in Providers, Bind(p), UNCHANGED executorVars
    PROVE  ProviderOK'
<1> USE DEF executorVars, bookkeeping
<1>1. Becomes(p, Process("bound", prov[p].executed, prov[p].consumed, prov[p].seq, prov[p].backlog))
  <2>1. prov[p] = Process(prov[p].st, prov[p].executed, prov[p].consumed, prov[p].seq, prov[p].backlog)
    BY ProcessIs DEF ProviderOK
  <2> QED
    BY <2>1 DEF Becomes, Only, Bind, Process, ProviderOK, ProcessesOK
<1>2. DOMAIN prov' = Providers /\ \A q \in Providers : IsProcess(prov'[q])
  BY <1>1, BecomesProcess, ProcessIs DEF ProviderOK
<1>3. ProcessesOK'
  BY <1>2, SameLog DEF ProviderOK, ProcessesOK, Bind
<1>4. Quiet
  BY <1>1, BecomesIs DEF Quiet, Bind, ProviderOK, Only
<1> QED
  BY <1>3, <1>4, QuietKept

LEMMA RebuildKept ==
    ASSUME ProviderOK, NEW p \in Providers, Rebuild(p), UNCHANGED executorVars
    PROVE  ProviderOK'
<1> USE DEF executorVars, bookkeeping
<1> DEFINE E == {Bound(plog[i]) : i \in Executions}
           C == [n \in Names |-> Cardinality({i \in Executions : plog[i].name = n})]
<1>1. CASE LogIntact
  <2>0. prov' = [prov EXCEPT ![p].st = "rebuilt", ![p].executed = E, ![p].consumed = C,
                             ![p].seq = Len(plog)]
        /\ prov[p].st = "bound"
    BY <1>1 DEF Rebuild
  <2>1. C \in [Names -> Nat] /\ Len(plog) \in Nat
    <3>1. \A n \in Names : {i \in Executions : plog[i].name = n} \in SUBSET Executions
      OBVIOUS
    <3> QED
      BY <3>1, ExecutionsAre DEF ProviderOK
  <2> HIDE DEF E, C
  <2>2. Becomes(p, Process("rebuilt", E, C, Len(plog), prov[p].backlog))
    <3>1. prov[p] = Process(prov[p].st, prov[p].executed, prov[p].consumed, prov[p].seq, prov[p].backlog)
      BY ProcessIs DEF ProviderOK
    <3> QED
      BY <2>0, <3>1 DEF Becomes, Only, Process, ProviderOK, ProcessesOK
  <2>3. DOMAIN prov' = Providers /\ \A q \in Providers : IsProcess(prov'[q])
    BY <2>1, <2>2, BecomesProcess, ProcessIs DEF ProviderOK
  <2>4. ProcessesOK'
    BY <2>3, SameLog DEF ProviderOK, ProcessesOK, Rebuild
  <2>5. Learned(p)
    <3>1. /\ prov'[p].st = "rebuilt" /\ prov'[p].executed = E /\ prov'[p].consumed = C
          /\ prov'[p].seq = Len(plog) /\ Only(p)
      BY <2>2, BecomesIs DEF ProviderOK
    <3>2. plog' = plog /\ ptorn' = FALSE /\ overlapped' = overlapped
      BY DEF Rebuild
    <3> QED
      BY <1>1, <2>0, <3>1, <3>2 DEF Learned, E, C
  <2> QED
    BY <2>4, <2>5, LearnedKept
<1>2. CASE ~LogIntact
  BY <1>2, EndedKept DEF Rebuild
<1> QED
  BY <1>1, <1>2

LEMMA DiesKept ==
    ASSUME ProviderOK, NEW p \in Providers, ProviderDies(p), UNCHANGED overlapped
    PROVE  ProviderOK'
<1>1. ptorn' \in BOOLEAN
  BY DEF ProviderDies, ProviderOK, ProcessesOK
<1> QED
  BY <1>1, EndedKept DEF ProviderDies

\* The line a process appends.
LEMMA WrittenIs ==
    ASSUME ProcessesOK, NEW line, plog' = Append(plog, line),
           line.status = "executed" => line.name \in Names
    PROVE  IsSeq(plog') /\ \A i \in Executions' : plog'[i].name \in Names
<1>1. Longer(plog, line, plog')
  BY LogGrows
<1>2. \A i \in Executions : plog'[i] = plog[i] /\ plog[i].name \in Names
  BY LogGrows DEF ProcessesOK
<1>3. CASE line.status = "executed"
  <2>1. Executions' = Executions \cup {Len(plog) + 1} /\ plog'[Len(plog) + 1].name \in Names
    BY <1>1, <1>3, LogGrows DEF Longer
  <2> QED
    BY <1>1, <1>2, <2>1 DEF Longer
<1>4. CASE line.status # "executed"
  BY <1>1, <1>2, <1>4, LogGrows DEF Longer
<1> QED
  BY <1>3, <1>4

MarkLine(p, status) == [status |-> status, seq |-> prov[p].seq + 1, whole |-> ~ptorn]

LEMMA MarkLineIs ==
    ASSUME NEW p, NEW status
    PROVE  /\ MarkLine(p, status).status = status /\ MarkLine(p, status).seq = prov[p].seq + 1
           /\ (MarkLine(p, status).whole <=> ~ptorn)
  BY Zenon DEF MarkLine

LEMMA AnnounceKept ==
    ASSUME ProviderOK, NEW p \in Providers, Announce(p), UNCHANGED executorVars
    PROVE  ProviderOK'
<1> USE DEF executorVars, bookkeeping
<1> DEFINE line == MarkLine(p, "start")
<1>1. plog' = Append(plog, line) /\ ptorn' = FALSE
  BY DEF Announce, Mark, Record, MarkLine
<1>2. line.status = "start" /\ line.seq = prov[p].seq + 1 /\ (line.whole <=> ~ptorn)
  BY MarkLineIs
<1> HIDE DEF line
<1>3. /\ prov[p].st = "rebuilt" /\ sock' = sock /\ overlapped' = overlapped
      /\ prov' = [prov EXCEPT ![p].st = "serving", ![p].seq = @ + 1]
  BY DEF Announce
<1>4. prov[p].seq + 1 \in Nat
  BY ProcessIs DEF ProviderOK
<1>5. Becomes(p, Process("serving", prov[p].executed, prov[p].consumed, prov[p].seq + 1, prov[p].backlog))
  <2>1. prov[p] = Process(prov[p].st, prov[p].executed, prov[p].consumed, prov[p].seq, prov[p].backlog)
    BY ProcessIs DEF ProviderOK
  <2> QED
    BY <1>3, <2>1 DEF Becomes, Only, Process, ProviderOK, ProcessesOK
<1>6. DOMAIN prov' = Providers /\ \A q \in Providers : IsProcess(prov'[q])
  BY <1>4, <1>5, BecomesProcess, ProcessIs DEF ProviderOK
<1>7. ProcessesOK'
  BY <1>1, <1>2, <1>3, <1>6, WrittenIs DEF ProviderOK, ProcessesOK
<1>8. Marks(p, line)
  <2>1. /\ prov'[p].st = "serving" /\ prov'[p].executed = prov[p].executed
        /\ prov'[p].consumed = prov[p].consumed /\ prov'[p].seq = prov[p].seq + 1 /\ Only(p)
    BY <1>5, BecomesIs DEF ProviderOK
  <2> QED
    BY <1>1, <1>2, <1>3, <2>1 DEF Marks, Writes, Knows
<1> QED
  BY <1>7, <1>8, MarksKept

LEMMA ShutdownKept ==
    ASSUME ProviderOK, NEW p \in Providers, prov[p].st = "serving", NEW r, Shutdown(p, r),
           UNCHANGED executorVars
    PROVE  ProviderOK'
<1> USE DEF executorVars, bookkeeping
<1> DEFINE line == MarkLine(p, "shutdown")
<1>1. plog' = Append(plog, line) /\ ptorn' = FALSE
  BY DEF Shutdown, Mark, Record, MarkLine
<1>2. line.status = "shutdown" /\ line.seq = prov[p].seq + 1 /\ (line.whole <=> ~ptorn)
  BY MarkLineIs
<1> HIDE DEF line
<1>3. /\ sock' = NoProvider /\ overlapped' = overlapped
      /\ prov' = [prov EXCEPT ![p] = Off]
  BY DEF Shutdown
<1>4. Becomes(p, Off)
  BY <1>3 DEF Becomes, Only, ProviderOK, ProcessesOK
<1>5. prov'[p].st = "off" /\ DOMAIN prov' = Providers /\ \A q \in Providers : IsProcess(prov'[q])
  BY <1>4, OffIs, BecomesIs, BecomesProcess DEF ProviderOK
<1>6. ProcessesOK'
  BY <1>1, <1>2, <1>3, <1>5, WrittenIs DEF ProviderOK, ProcessesOK
<1>7. Marks(p, line)
  BY <1>1, <1>2, <1>3, <1>4, <1>5 DEF Marks, Writes, Knows, Becomes
<1> QED
  BY <1>6, <1>7, MarksKept

\* Answering the request at the head of the backlog.
ReplyLine(p, r, status, result) ==
    [status |-> status, key |-> r.key, name |-> r.name, request |-> r.request,
     result |-> result, seq |-> prov[p].seq + 1, whole |-> ~ptorn]

IsReplyLine(line, p, r, status, result) ==
    /\ line.status = status /\ line.key = r.key /\ line.name = r.name
    /\ line.request = r.request /\ line.result = result
    /\ line.seq = prov[p].seq + 1 /\ (line.whole <=> ~ptorn)

LEMMA ReplyLineIs ==
    ASSUME NEW p, NEW r, NEW status, NEW result
    PROVE  IsReplyLine(ReplyLine(p, r, status, result), p, r, status, result)
  BY Zenon DEF ReplyLine, IsReplyLine

WithConsumed(r, new) == [r EXCEPT !.consumed = new]
WithExecuted(r, new) == [r EXCEPT !.executed = new]

LEMMA ProcessExcept ==
    ASSUME NEW st, NEW executed, NEW consumed, NEW seq, NEW backlog, NEW new
    PROVE  /\ WithExecuted(Process(st, executed, consumed, seq, backlog), new)
                = Process(st, new, consumed, seq, backlog)
           /\ WithConsumed(Process(st, executed, consumed, seq, backlog), new)
                = Process(st, executed, new, seq, backlog)
  BY DEF Process, WithExecuted, WithConsumed

LEMMA LoggedIs ==
    ASSUME NEW p, NEW r, NEW status, NEW result, Logged(p, r, status, result)
    PROVE  /\ plog' = Append(plog, ReplyLine(p, r, status, result)) /\ ptorn' = FALSE
           /\ Reply(p, r, status, result)
  BY DEF Logged, Record, ReplyLine

\* Serving an effect whose key the process knows, or whose name has no result left.
LEMMA AnsweredKept ==
    ASSUME ProviderOK, NEW p \in Providers, prov[p].st = "serving", prov[p].backlog # <<>>,
           NEW r, NEW status, NEW result, Logged(p, r, status, result), status # "executed",
           prov' = Answered(p), UNCHANGED sock, UNCHANGED executorVars
    PROVE  ProviderOK' /\ Becomes(p, Process("serving", prov[p].executed, prov[p].consumed,
                                             prov[p].seq + 1, Tail(prov[p].backlog)))
<1> USE DEF executorVars, bookkeeping
<1> DEFINE line == ReplyLine(p, r, status, result)
<1>1. /\ plog' = Append(plog, line) /\ ptorn' = FALSE
      /\ line.status = status /\ line.seq = prov[p].seq + 1 /\ (line.whole <=> ~ptorn)
  <2>1. plog' = Append(plog, line) /\ ptorn' = FALSE
    BY LoggedIs
  <2>2. line.status = status /\ line.seq = prov[p].seq + 1 /\ (line.whole <=> ~ptorn)
    <3>1. IsReplyLine(line, p, r, status, result)
      BY ReplyLineIs
    <3> HIDE DEF line
    <3> QED
      BY <3>1 DEF IsReplyLine
  <2> QED
    BY <2>1, <2>2
<1> HIDE DEF line
<1>2. overlapped' = overlapped /\ sock' = sock
  OBVIOUS
<1>3. prov[p].seq + 1 \in Nat
  BY ProcessIs DEF ProviderOK
<1>4. Becomes(p, Process("serving", prov[p].executed, prov[p].consumed, prov[p].seq + 1,
                         Tail(prov[p].backlog)))
  <2>1. prov[p] = Process(prov[p].st, prov[p].executed, prov[p].consumed, prov[p].seq, prov[p].backlog)
    BY ProcessIs DEF ProviderOK
  <2> QED
    BY <2>1 DEF Answered, Becomes, Only, Process, ProviderOK, ProcessesOK
<1>5. Shorter(prov[p].backlog, Tail(prov[p].backlog))
  BY ProcessIs, TailIs DEF ProviderOK
<1>6. IsSeq(Tail(prov[p].backlog)) /\ \A i \in DOMAIN Tail(prov[p].backlog) : IsCall(Tail(prov[p].backlog)[i])
  <2>1. \A i \in DOMAIN prov[p].backlog : IsCall(prov[p].backlog[i])
    BY ProcessIs DEF ProviderOK
  <2> QED
    BY <1>5, <2>1 DEF Shorter
<1>7. DOMAIN prov' = Providers /\ \A q \in Providers : IsProcess(prov'[q])
  BY <1>3, <1>4, <1>6, BecomesProcess, ProcessIs DEF ProviderOK
<1>8. ProcessesOK'
  BY <1>1, <1>2, <1>7, WrittenIs DEF ProviderOK, ProcessesOK
<1>9. Marks(p, line)
  <2>1. /\ prov'[p].st = "serving" /\ prov'[p].executed = prov[p].executed
        /\ prov'[p].consumed = prov[p].consumed /\ prov'[p].seq = prov[p].seq + 1 /\ Only(p)
    BY <1>4, BecomesIs DEF ProviderOK
  <2> QED
    BY <1>1, <1>2, <2>1 DEF Marks, Writes, Knows
<1> QED
  BY <1>4, <1>8, <1>9, MarksKept

Executed(p, r, result) ==
    [key |-> r.key, name |-> r.name, request |-> r.request, result |-> result]

LEMMA ExecutedShape ==
    ASSUME ProviderOK, NEW p \in Providers, prov[p].st = "serving", NEW n \in Names, NEW done,
           prov' = [Answered(p) EXCEPT
                      ![p].consumed[n] = prov[p].consumed[n] + 1,
                      ![p].executed = @ \cup {done}]
    PROVE  Becomes(p, Process("serving", prov[p].executed \cup {done},
                              [prov[p].consumed EXCEPT ![n] = @ + 1],
                              prov[p].seq + 1, Tail(prov[p].backlog)))
<1> DEFINE C == [prov[p].consumed EXCEPT ![n] = @ + 1]
           S == prov[p].seq + 1
           B == Tail(prov[p].backlog)
           a == Answered(p)
           b == [a EXCEPT ![p].consumed[n] = prov[p].consumed[n] + 1]
<1>1. prov[p] = Process(prov[p].st, prov[p].executed, prov[p].consumed, prov[p].seq, prov[p].backlog)
  BY ProcessIs DEF ProviderOK
<1>2. a[p] = Process("serving", prov[p].executed, prov[p].consumed, S, B)
      /\ DOMAIN a = Providers /\ \A q \in Providers \ {p} : a[q] = prov[q]
  BY <1>1 DEF Answered, Process, ProviderOK, ProcessesOK
<1>3. prov' = [b EXCEPT ![p].executed = @ \cup {done}]
  BY Zenon
<1> HIDE DEF a, C, S, B
<1>4. /\ b[p] = [a[p] EXCEPT !.consumed = [@ EXCEPT ![n] = prov[p].consumed[n] + 1]]
      /\ DOMAIN b = Providers /\ \A q \in Providers \ {p} : b[q] = prov[q]
  BY <1>2
<1> HIDE DEF b
<1>5. a[p].consumed = prov[p].consumed
  BY <1>2 DEF Process
<1>6. [a[p].consumed EXCEPT ![n] = prov[p].consumed[n] + 1] = C
  BY <1>5 DEF C
<1>7. b[p] = WithConsumed(a[p], C)
  BY <1>4, <1>6, Zenon DEF WithConsumed
<1>8. b[p] = Process("serving", prov[p].executed, C, S, B)
  BY <1>2, <1>7, ProcessExcept
<1>9. DOMAIN prov' = Providers /\ \A q \in Providers \ {p} : prov'[q] = prov[q]
  BY <1>3, <1>4
<1>10. prov'[p] = [b[p] EXCEPT !.executed = b[p].executed \cup {done}]
  BY <1>3, <1>4
<1>11. b[p].executed = prov[p].executed
  BY <1>8 DEF Process
<1>12. prov'[p] = WithExecuted(b[p], prov[p].executed \cup {done})
  BY <1>10, <1>11, Zenon DEF WithExecuted
<1>13. prov'[p] = Process("serving", prov[p].executed \cup {done}, C, S, B)
  BY <1>8, <1>12, ProcessExcept
<1>14. Becomes(p, Process("serving", prov[p].executed \cup {done}, C, S, B))
  BY <1>9, <1>13 DEF Becomes, Only
<1> QED
  BY <1>14 DEF C, S, B

LEMMA ExecutedKept ==
    ASSUME ProviderOK, NEW p \in Providers, prov[p].st = "serving", prov[p].backlog # <<>>,
           NEW r, r.name \in Names, NEW result, Logged(p, r, "executed", result),
           result = <<r.name, prov[p].consumed[r.name] + 1>>,
           \A b \in prov[p].executed : b.key # r.key,
           Becomes(p, Process("serving", prov[p].executed \cup {Executed(p, r, result)},
                              [prov[p].consumed EXCEPT ![r.name] = @ + 1],
                              prov[p].seq + 1, Tail(prov[p].backlog))),
           UNCHANGED sock, UNCHANGED executorVars
    PROVE  ProviderOK'
<1> USE DEF executorVars, bookkeeping
<1> DEFINE line == ReplyLine(p, r, "executed", result)
           done == Executed(p, r, result)
           C == [prov[p].consumed EXCEPT ![r.name] = @ + 1]
<1>1. /\ plog' = Append(plog, line) /\ ptorn' = FALSE
      /\ line.status = "executed" /\ line.seq = prov[p].seq + 1 /\ (line.whole <=> ~ptorn)
      /\ line.name = r.name /\ line.key = r.key /\ line.result = result /\ line.request = r.request
  <2>1. plog' = Append(plog, line) /\ ptorn' = FALSE
    BY LoggedIs
  <2>2. /\ line.status = "executed" /\ line.seq = prov[p].seq + 1 /\ (line.whole <=> ~ptorn)
        /\ line.name = r.name /\ line.key = r.key /\ line.result = result /\ line.request = r.request
    <3>1. IsReplyLine(line, p, r, "executed", result)
      BY ReplyLineIs
    <3> HIDE DEF line
    <3> QED
      BY <3>1 DEF IsReplyLine
  <2> QED
    BY <2>1, <2>2
<1>2. Bound(line) = done
  <2> HIDE DEF line
  <2> QED
    BY <1>1 DEF Bound, Executed
<1> HIDE DEF line, done
<1>3. overlapped' = overlapped /\ sock' = sock
  OBVIOUS
<1>4. prov[p].seq + 1 \in Nat /\ C \in [Names -> Nat] /\ prov[p].consumed \in [Names -> Nat]
  BY ProcessIs DEF ProviderOK
<1>5. Becomes(p, Process("serving", prov[p].executed \cup {done}, C, prov[p].seq + 1,
                         Tail(prov[p].backlog)))
  BY Zenon DEF done
<1> HIDE DEF C
<1>6. Shorter(prov[p].backlog, Tail(prov[p].backlog))
  BY ProcessIs, TailIs DEF ProviderOK
<1>7. IsSeq(Tail(prov[p].backlog)) /\ \A i \in DOMAIN Tail(prov[p].backlog) : IsCall(Tail(prov[p].backlog)[i])
  <2>1. \A i \in DOMAIN prov[p].backlog : IsCall(prov[p].backlog[i])
    BY ProcessIs DEF ProviderOK
  <2> QED
    BY <1>6, <2>1 DEF Shorter
<1>8. DOMAIN prov' = Providers /\ \A q \in Providers : IsProcess(prov'[q])
  BY <1>4, <1>5, <1>7, BecomesProcess, ProcessIs DEF ProviderOK
<1>9. ProcessesOK'
  BY <1>1, <1>3, <1>8, WrittenIs DEF ProviderOK, ProcessesOK
<1>10. Executes(p, line)
  <2>1. /\ prov'[p].st = "serving" /\ prov'[p].executed = prov[p].executed \cup {done}
        /\ prov'[p].consumed = C /\ prov'[p].seq = prov[p].seq + 1 /\ Only(p)
    <3> DEFINE E == prov[p].executed \cup {done}
               B == Tail(prov[p].backlog)
               S == prov[p].seq + 1
    <3>1. Becomes(p, Process("serving", E, C, S, B))
      BY <1>5
    <3> HIDE DEF E, B, S
    <3>2. /\ prov'[p].st = "serving" /\ prov'[p].executed = E
          /\ prov'[p].consumed = C /\ prov'[p].seq = S /\ Only(p)
      BY <3>1, BecomesIs DEF ProviderOK
    <3> QED
      BY <3>2 DEF E, S
  <2>2. Writes(p, line)
    BY <1>1, <1>3, <2>1 DEF Writes, Knows
  <2> QED
    BY <1>1, <1>2, <2>1, <2>2 DEF Executes, C
<1>11. ProviderOK'
  BY <1>9, <1>10, ExecutesKept
<1> QED
  BY <1>11

LEMMA HeadIsCall ==
    ASSUME ProviderOK, NEW p \in Providers, prov[p].backlog # <<>>
    PROVE  /\ Shorter(prov[p].backlog, Tail(prov[p].backlog))
           /\ 1 \in DOMAIN prov[p].backlog
           /\ Head(prov[p].backlog) = prov[p].backlog[1] /\ IsCall(Head(prov[p].backlog))
<1>1. Shorter(prov[p].backlog, Tail(prov[p].backlog))
  BY ProcessIs, TailIs DEF ProviderOK
<1>2. 1 \in DOMAIN prov[p].backlog /\ Head(prov[p].backlog) = prov[p].backlog[1]
  BY <1>1 DEF Shorter
<1> QED
  BY <1>1, <1>2, ProcessIs DEF ProviderOK

\* The three answers to an effect, and what they do to the process.
Answers(p, r, status, result) ==
    /\ status \in {"duplicate", "mismatch", "rejected"} /\ Logged(p, r, status, result)
    /\ Becomes(p, Process("serving", prov[p].executed, prov[p].consumed, prov[p].seq + 1,
                          Tail(prov[p].backlog)))
    /\ status = "duplicate" => \E b \in prov[p].executed :
          b.key = r.key /\ b.name = r.name /\ b.request = r.request /\ b.result = result

Performs(p, r, result) ==
    /\ Logged(p, r, "executed", result)
    /\ Becomes(p, Process("serving", prov[p].executed \cup {Executed(p, r, result)},
                          [prov[p].consumed EXCEPT ![r.name] = @ + 1],
                          prov[p].seq + 1, Tail(prov[p].backlog)))

LEMMA DuplicateKept ==
    ASSUME ProviderOK, NEW p \in Providers, prov[p].st = "serving", prov[p].backlog # <<>>,
           NEW r, Duplicate(p, r), UNCHANGED sock, UNCHANGED executorVars
    PROVE  ProviderOK' /\ \E status, result : Answers(p, r, status, result)
<1>1. PICK b \in prov[p].executed :
          /\ b.key = r.key
          /\ IF b.name = r.name /\ b.request = r.request
             THEN Logged(p, r, "duplicate", b.result)
             ELSE Logged(p, r, "mismatch", <<>>)
  BY DEF Duplicate
<1>2. prov' = Answered(p)
  BY DEF Duplicate
<1>3. CASE b.name = r.name /\ b.request = r.request
  <2>1. Logged(p, r, "duplicate", b.result)
    BY <1>1, <1>3
  <2>2. /\ ProviderOK'
        /\ Becomes(p, Process("serving", prov[p].executed, prov[p].consumed, prov[p].seq + 1,
                              Tail(prov[p].backlog)))
    BY <1>2, <2>1, AnsweredKept
  <2>3. Answers(p, r, "duplicate", b.result)
    BY <1>1, <1>3, <2>1, <2>2 DEF Answers
  <2> QED
    BY <2>2, <2>3
<1>4. CASE ~(b.name = r.name /\ b.request = r.request)
  <2>1. Logged(p, r, "mismatch", <<>>)
    BY <1>1, <1>4
  <2>2. /\ ProviderOK'
        /\ Becomes(p, Process("serving", prov[p].executed, prov[p].consumed, prov[p].seq + 1,
                              Tail(prov[p].backlog)))
    BY <1>2, <2>1, AnsweredKept
  <2>3. Answers(p, r, "mismatch", <<>>)
    BY <2>1, <2>2 DEF Answers
  <2> QED
    BY <2>2, <2>3
<1> QED
  BY <1>3, <1>4

LEMMA ExecuteKept ==
    ASSUME ProviderOK, NEW p \in Providers, prov[p].st = "serving", prov[p].backlog # <<>>,
           NEW r, r.name \in Names, Execute(p, r), UNCHANGED sock, UNCHANGED executorVars
    PROVE  ProviderOK' /\ \/ \E status, result : Answers(p, r, status, result)
                          \/ \E result : Performs(p, r, result)
<1> DEFINE n == prov[p].consumed[r.name] + 1
           result == <<r.name, n>>
<1>1. CASE n <= Canned[r.name]
  <2>1. /\ Logged(p, r, "executed", result)
        /\ prov' = [Answered(p) EXCEPT
              ![p].consumed[r.name] = n,
              ![p].executed = @ \cup {[key |-> r.key, name |-> r.name,
                                        request |-> r.request, result |-> result]}]
        /\ \A b \in prov[p].executed : b.key # r.key
    BY <1>1 DEF Execute
  <2>2. prov' = [Answered(p) EXCEPT
              ![p].consumed[r.name] = prov[p].consumed[r.name] + 1,
              ![p].executed = @ \cup {Executed(p, r, result)}]
    BY <2>1, Zenon DEF Executed
  <2>3. Becomes(p, Process("serving", prov[p].executed \cup {Executed(p, r, result)},
                           [prov[p].consumed EXCEPT ![r.name] = @ + 1],
                           prov[p].seq + 1, Tail(prov[p].backlog)))
    <3> DEFINE done == Executed(p, r, result)
    <3>1. prov' = [Answered(p) EXCEPT
              ![p].consumed[r.name] = prov[p].consumed[r.name] + 1,
              ![p].executed = @ \cup {done}]
      BY <2>2
    <3> HIDE DEF done
    <3>2. Becomes(p, Process("serving", prov[p].executed \cup {done},
                           [prov[p].consumed EXCEPT ![r.name] = @ + 1],
                           prov[p].seq + 1, Tail(prov[p].backlog)))
      BY <3>1, ExecutedShape
    <3> QED
      BY <3>2 DEF done
  <2> HIDE DEF result, n
  <2>4. result = <<r.name, prov[p].consumed[r.name] + 1>>
    BY DEF result, n
  <2>5. ProviderOK'
    BY <2>1, <2>3, <2>4, ExecutedKept
  <2>6. Performs(p, r, result)
    BY <2>1, <2>3 DEF Performs
  <2> QED
    BY <2>5, <2>6
<1>2. CASE ~(n <= Canned[r.name])
  <2>1. Logged(p, r, "rejected", <<>>) /\ prov' = Answered(p)
    BY <1>2 DEF Execute
  <2>2. /\ ProviderOK'
        /\ Becomes(p, Process("serving", prov[p].executed, prov[p].consumed, prov[p].seq + 1,
                              Tail(prov[p].backlog)))
    BY <2>1, AnsweredKept
  <2>3. Answers(p, r, "rejected", <<>>)
    BY <2>1, <2>2 DEF Answers
  <2> QED
    BY <2>2, <2>3
<1> QED
  BY <1>1, <1>2

\* What serving one request does.
Served(p, r) ==
    \/ r.op = "shutdown" /\ Shutdown(p, r)
    \/ r.op = "effect" /\ \/ \E status, result : Answers(p, r, status, result)
                          \/ \E result : Performs(p, r, result)

LEMMA ServeKept ==
    ASSUME ProviderOK, NEW p \in Providers, Serve(p), UNCHANGED executorVars
    PROVE  ProviderOK' /\ Served(p, Head(prov[p].backlog))
<1> DEFINE r == Head(prov[p].backlog)
<1>1. prov[p].st = "serving" /\ prov[p].backlog # <<>> /\ IsCall(r)
  BY HeadIsCall DEF Serve
<1>2. \/ r.op = "shutdown" /\ Shutdown(p, r)
      \/ r.op = "effect" /\ (Duplicate(p, r) \/ Execute(p, r)) /\ UNCHANGED sock
  BY DEF Serve
<1> HIDE DEF r
<1>3. ASSUME r.op = "shutdown" /\ Shutdown(p, r)
      PROVE  ProviderOK' /\ Served(p, r)
  BY <1>1, <1>3, ShutdownKept DEF Served
<1>4. ASSUME r.op = "effect" /\ Duplicate(p, r) /\ UNCHANGED sock
      PROVE  ProviderOK' /\ Served(p, r)
  BY <1>1, <1>4, DuplicateKept DEF Served
<1>5. ASSUME r.op = "effect" /\ Execute(p, r) /\ UNCHANGED sock
      PROVE  ProviderOK' /\ Served(p, r)
  <2>1. r.name \in Names
    BY <1>1, <1>5 DEF IsCall
  <2> QED
    BY <1>1, <1>5, <2>1, ExecuteKept DEF Served
<1>6. ProviderOK' /\ Served(p, r)
  BY <1>2, <1>3, <1>4, <1>5
<1> QED
  BY <1>6 DEF r

LEMMA ProviderStepKept ==
    ASSUME ProviderOK, NEW p \in Providers, ProviderStep(p)
    PROVE  ProviderOK'
  BY BindKept, RebuildKept, AnnounceKept, ServeKept DEF ProviderStep

-----------------------------------------------------------------------------
\* The client's side.

WithOpen(c, x)    == [c EXCEPT !.open = x]
ShutdownCall(x)   == [op |-> "shutdown", open |-> x]

\* c and d ask for the same, and d is open when x is.
SameCall(c, d, x) ==
    /\ d.op = c.op /\ d.open = x
    /\ c.op = "effect" => d.key = c.key /\ d.name = c.name /\ d.request = c.request

LEMMA CallsAre ==
    ASSUME NEW x, NEW e
    PROVE  /\ IsCall(ShutdownCall(x)) /\ ShutdownCall(x).op = "shutdown"
           /\ e.name \in Names => IsCall(EffectCall(x, e))
           /\ EffectCall(x, e).op = "effect"
  BY DEF IsCall, ShutdownCall, EffectCall

LEMMA WithOpenIs ==
    ASSUME NEW c, IsCall(c), NEW x
    PROVE  IsCall(WithOpen(c, x)) /\ SameCall(c, WithOpen(c, x), x)
<1>1. CASE c = [op |-> "shutdown", open |-> c.open]
  <2>1. WithOpen(c, x) = [op |-> "shutdown", open |-> x]
    BY <1>1 DEF WithOpen
  <2> QED
    BY <1>1, <2>1 DEF IsCall, SameCall
<1>2. CASE /\ c = [op |-> "effect", open |-> c.open, key |-> c.key, name |-> c.name,
                   request |-> c.request]
           /\ c.name \in Names
  <2>1. WithOpen(c, x) = [op |-> "effect", open |-> x, key |-> c.key, name |-> c.name,
                          request |-> c.request]
    BY <1>2 DEF WithOpen
  <2> QED
    BY <1>2, <2>1 DEF IsCall, SameCall
<1> QED
  BY <1>1, <1>2 DEF IsCall

\* A request was sent to process p.
Sent(p, c) ==
    /\ Becomes(p, Process(prov[p].st, prov[p].executed, prov[p].consumed, prov[p].seq,
                          Append(prov[p].backlog, c)))
    /\ UNCHANGED <<plog, ptorn, sock, answer>>

LEMMA SendIs ==
    ASSUME ProcessesOK, NEW c, Send(c)
    PROVE  sock \in Providers /\ Sent(sock, c)
<1>1. sock \in Providers
  BY DEF ProcessesOK, Send, Connectable
<1>2. prov' = [prov EXCEPT ![sock].backlog = Append(@, c)] /\ UNCHANGED <<plog, ptorn, sock, answer>>
  BY DEF Send
<1>3. prov[sock] = Process(prov[sock].st, prov[sock].executed, prov[sock].consumed,
                           prov[sock].seq, prov[sock].backlog)
  BY <1>1, ProcessIs
<1>4. Becomes(sock, Process(prov[sock].st, prov[sock].executed, prov[sock].consumed,
                            prov[sock].seq, Append(prov[sock].backlog, c)))
  BY <1>1, <1>2, <1>3 DEF Becomes, Only, Process, ProcessesOK
<1> QED
  BY <1>1, <1>2, <1>4 DEF Sent

LEMMA SentKept ==
    ASSUME ProviderOK, NEW p \in Providers, NEW c, IsCall(c), Sent(p, c), UNCHANGED overlapped
    PROVE  ProviderOK'
<1> DEFINE B == Append(prov[p].backlog, c)
<1>1. Longer(prov[p].backlog, c, B)
  BY AppendIs, ProcessIs DEF ProviderOK
<1> HIDE DEF B
<1>2. IsSeq(B) /\ \A i \in DOMAIN B : IsCall(B[i])
  <2>1. \A i \in DOMAIN prov[p].backlog : IsCall(prov[p].backlog[i])
    BY ProcessIs DEF ProviderOK
  <2> QED
    BY <1>1, <2>1 DEF Longer
<1>3. Becomes(p, Process(prov[p].st, prov[p].executed, prov[p].consumed, prov[p].seq, B))
  BY DEF Sent, B
<1>4. /\ plog' = plog /\ ptorn' = ptorn /\ sock' = sock /\ overlapped' = overlapped
  BY DEF Sent
<1>5. DOMAIN prov' = Providers /\ \A q \in Providers : IsProcess(prov'[q])
  BY <1>2, <1>3, BecomesProcess, ProcessIs DEF ProviderOK
<1>6. ProcessesOK'
  BY <1>4, <1>5, SameLog DEF ProviderOK, ProcessesOK
<1>7. Quiet
  <2>1. /\ prov'[p].st = prov[p].st /\ prov'[p].executed = prov[p].executed
        /\ prov'[p].consumed = prov[p].consumed /\ prov'[p].seq = prov[p].seq /\ Only(p)
    BY <1>3, BecomesIs DEF ProviderOK
  <2> QED
    BY <1>4, <2>1 DEF Quiet, Only
<1> QED
  BY <1>6, <1>7, QuietKept

\* The client died: what it sent is read by processes that answer nobody.
HungUp(p) ==
    prov'[p] = Process(prov[p].st, prov[p].executed, prov[p].consumed, prov[p].seq,
                       [i \in DOMAIN prov[p].backlog |-> WithOpen(prov[p].backlog[i], FALSE)])

LEMMA HangUpIs ==
    ASSUME ProcessesOK, HangUp
    PROVE  DOMAIN prov' = Providers /\ (\A p \in Providers : HungUp(p)) /\ answer' = NoAnswer
<1>1. prov' = [p \in Providers |->
          [prov[p] EXCEPT !.backlog =
              [i \in DOMAIN @ |-> [@[i] EXCEPT !.open = FALSE]]]]
      /\ answer' = NoAnswer
  BY Zenon DEF HangUp
<1>2. ASSUME NEW p \in Providers
      PROVE  HungUp(p)
  <2> DEFINE B == [i \in DOMAIN prov[p].backlog |-> WithOpen(prov[p].backlog[i], FALSE)]
  <2>1. B = [i \in DOMAIN prov[p].backlog |-> [prov[p].backlog[i] EXCEPT !.open = FALSE]]
    BY Zenon DEF WithOpen
  <2> HIDE DEF B
  <2>2. prov'[p] = [prov[p] EXCEPT !.backlog = B]
    BY <1>1, <2>1, Zenon
  <2>3. prov[p] = Process(prov[p].st, prov[p].executed, prov[p].consumed, prov[p].seq, prov[p].backlog)
    BY ProcessIs
  <2>4. prov'[p] = Process(prov[p].st, prov[p].executed, prov[p].consumed, prov[p].seq, B)
    BY <2>2, <2>3 DEF Process
  <2> QED
    BY <2>4 DEF HungUp, B
<1>3. DOMAIN prov' = Providers
  BY <1>1, Zenon
<1> QED
  BY <1>1, <1>2, <1>3

LEMMA HungUpProcess ==
    ASSUME ProcessesOK, NEW p \in Providers, HungUp(p)
    PROVE  /\ prov'[p].st = prov[p].st /\ prov'[p].executed = prov[p].executed
           /\ prov'[p].consumed = prov[p].consumed /\ prov'[p].seq = prov[p].seq
           /\ DOMAIN prov'[p].backlog = DOMAIN prov[p].backlog
           /\ \A i \in DOMAIN prov[p].backlog :
                 /\ prov'[p].backlog[i] = WithOpen(prov[p].backlog[i], FALSE)
                 /\ SameCall(prov[p].backlog[i], prov'[p].backlog[i], FALSE)
           /\ IsProcess(prov'[p])
<1> DEFINE B == [i \in DOMAIN prov[p].backlog |-> WithOpen(prov[p].backlog[i], FALSE)]
<1>1. IsSeq(prov[p].backlog) /\ \A i \in DOMAIN prov[p].backlog : IsCall(prov[p].backlog[i])
  BY ProcessIs
<1>2. DOMAIN B = DOMAIN prov[p].backlog
      /\ \A i \in DOMAIN prov[p].backlog : B[i] = WithOpen(prov[p].backlog[i], FALSE)
  OBVIOUS
<1>3. prov'[p] = Process(prov[p].st, prov[p].executed, prov[p].consumed, prov[p].seq, B)
  BY DEF HungUp
<1>4. IsSeq(B)
  <2> DEFINE F == [i \in DOMAIN prov[p].backlog |-> WithOpen(prov[p].backlog[i], FALSE)]
  <2>1. B = [i \in DOMAIN prov[p].backlog |-> F[i]]
    OBVIOUS
  <2> HIDE DEF F, B
  <2> QED
    BY <1>1, <2>1, MapIs
<1> HIDE DEF B
<1>5. \A i \in DOMAIN B : IsCall(B[i]) /\ SameCall(prov[p].backlog[i], B[i], FALSE)
  BY <1>1, <1>2, WithOpenIs
<1>6. /\ prov'[p].st = prov[p].st /\ prov'[p].executed = prov[p].executed
      /\ prov'[p].consumed = prov[p].consumed /\ prov'[p].seq = prov[p].seq
      /\ prov'[p].backlog = B
  BY <1>3 DEF Process
<1>7. IsProcess(prov'[p])
  BY <1>3, <1>4, <1>5, <1>6, ProcessIs DEF IsProcess, Process
<1> QED
  BY <1>2, <1>5, <1>6, <1>7

LEMMA HangUpKept ==
    ASSUME ProviderOK, HangUp, UNCHANGED <<plog, ptorn, sock, overlapped>>
    PROVE  ProviderOK'
<1>1. ASSUME NEW p \in Providers
      PROVE  /\ prov'[p].st = prov[p].st /\ prov'[p].executed = prov[p].executed
             /\ prov'[p].consumed = prov[p].consumed /\ prov'[p].seq = prov[p].seq
             /\ IsProcess(prov'[p])
  BY HangUpIs, HungUpProcess DEF ProviderOK
<1>2. ProcessesOK'
  BY <1>1, HangUpIs, SameLog DEF ProviderOK, ProcessesOK
<1>3. Quiet
  BY <1>1 DEF Quiet
<1> QED
  BY <1>2, <1>3, QuietKept

\* A process is spawned.
LEMMA SpawnKept ==
    ASSUME ProviderOK, EnsureSpawns
    PROVE  ProviderOK'
<1>1. PICK p \in Providers : Spawn(p)
  BY DEF EnsureSpawns
<1>2. /\ prov[p].st = "off" /\ prov' = [prov EXCEPT ![p].st = "starting"] /\ sock' = NoProvider
      /\ plog' = plog /\ ptorn' = ptorn
  BY <1>1 DEF Spawn
<1>3. overlapped' = (overlapped \/ \E q \in Providers : prov[q].st # "off")
  BY DEF EnsureSpawns
<1>4. Becomes(p, Process("starting", prov[p].executed, prov[p].consumed, prov[p].seq, prov[p].backlog))
  <2>1. prov[p] = Process(prov[p].st, prov[p].executed, prov[p].consumed, prov[p].seq, prov[p].backlog)
    BY ProcessIs DEF ProviderOK
  <2> QED
    BY <1>2, <2>1 DEF Becomes, Only, Process, ProviderOK, ProcessesOK
<1>5. DOMAIN prov' = Providers /\ \A q \in Providers : IsProcess(prov'[q])
  BY <1>4, BecomesProcess, ProcessIs DEF ProviderOK
<1>6. overlapped' \in BOOLEAN
  BY <1>3
<1>7. ProcessesOK'
  BY <1>2, <1>5, <1>6, SameLog DEF ProviderOK, ProcessesOK
<1>8. Spawned(p)
  <2>1. prov'[p].st = "starting" /\ Only(p)
    BY <1>4, BecomesIs DEF ProviderOK
  <2> QED
    BY <1>2, <1>3, <2>1 DEF Spawned
<1> QED
  BY <1>7, <1>8, SpawnedKept

\* Nothing of the provider changes.
LEMMA StillKept ==
    ASSUME ProviderOK, UNCHANGED <<plog, ptorn, prov, sock, overlapped>>
    PROVE  ProviderOK'
<1>1. ProcessesOK'
  BY SameLog DEF ProviderOK, ProcessesOK
<1>2. Quiet
  BY DEF Quiet
<1> QED
  BY <1>1, <1>2, QuietKept

\* What a step of the executor does to the provider.
ProviderSide ==
    \/ UNCHANGED <<plog, ptorn, prov, sock>>
    \/ EnsureSpawns
    \/ CallProvider /\ sock \in Providers /\ Sent(sock, EffectCall(TRUE, Current))
    \/ StopProvider /\ sock \in Providers /\ Sent(sock, ShutdownCall(TRUE))

LEMMA SidesAre ==
    ASSUME ExecutorStep, ProcessesOK
    PROVE  ProviderSide /\ (~EnsureSpawns => UNCHANGED overlapped)
<1> USE DEF position, files, bookkeeping, providerVars
<1>1. CASE WriteRunState
  BY <1>1 DEF WriteRunState, ProviderSide
<1>2. CASE Ensure
  BY <1>2 DEF Ensure, ProviderSide
<1>3. CASE EnsureSpawns
  BY <1>3 DEF ProviderSide
<1>4. CASE EnsureSucceeds
  BY <1>4 DEF EnsureSucceeds, ProviderSide
<1>5. CASE EnsureTimesOut
  BY <1>5 DEF EnsureTimesOut, GiveUp, ProviderSide
<1>6. CASE AskEffect
  BY <1>6 DEF AskEffect, ProviderSide
<1>7. CASE FromJournal
  <2>1. PICK c \in CommitsOf(Current.key) :
            IF Matches(c)
            THEN DeliverResult(c.result, "journal")
            ELSE GiveUp("journal mismatch") /\ UNCHANGED <<faults, providerVars>>
    BY <1>7 DEF FromJournal
  <2> QED
    BY <2>1 DEF DeliverResult, GiveUp, ProviderSide
<1>8. CASE JournalIntent
  BY <1>8 DEF JournalIntent, GiveUp, ProviderSide
<1>9. CASE Reissue
  <2>1. PICK i \in DanglingOf(Current.key) :
          IF Op.mode = "record" /\ Matches(i)
          THEN /\ Write(EffectLine("reissue"))
               /\ pc' = "intended"
               /\ UNCHANGED <<position, bookkeeping>>
          ELSE /\ GiveUp(IF Op.mode = "record" THEN "reissue differs"
                         ELSE "missing committed effect")
               /\ UNCHANGED faults
    BY <1>9 DEF Reissue
  <2>2. UNCHANGED providerVars
    BY <1>9 DEF Reissue
  <2> QED
    BY <2>1, <2>2 DEF GiveUp, ProviderSide
<1>10. CASE CallProvider
  <2>1. CASE Connectable
    <3>1. Send(EffectCall(TRUE, Current)) /\ UNCHANGED overlapped
      BY <1>10, <2>1, Zenon DEF CallProvider, EffectCall
    <3> QED
      BY <1>10, <3>1, SendIs DEF ProviderSide
  <2>2. CASE ~Connectable
    BY <1>10, <2>2 DEF CallProvider, GiveUp, ProviderSide
  <2> QED
    BY <2>1, <2>2
<1>11. CASE ProviderReplies
  BY <1>11 DEF ProviderReplies, GiveUp, ProviderSide
<1>12. CASE ProviderHangsUp
  BY <1>12 DEF ProviderHangsUp, GiveUp, ProviderSide
<1>13. CASE JournalCommit
  BY <1>13 DEF JournalCommit, ProviderSide
<1>14. CASE DeliverFromProvider
  BY <1>14 DEF DeliverFromProvider, ProviderSide
<1>15. CASE FinishEvent
  BY <1>15 DEF FinishEvent, ProviderSide
<1>16. CASE TakeCheckpoint
  BY <1>16 DEF TakeCheckpoint, ProviderSide
<1>17. CASE ExitRoute
  BY <1>17 DEF ExitRoute, ProviderSide
<1>18. CASE PublishCheckpoint
  BY <1>18 DEF PublishCheckpoint, GiveUp, ProviderSide
<1>19. CASE NextRoute
  BY <1>19 DEF NextRoute, ProviderSide
<1>20. CASE StopProvider
  <2>1. CASE Connectable
    <3>1. Send(ShutdownCall(TRUE)) /\ UNCHANGED overlapped
      BY <1>20, <2>1, Zenon DEF StopProvider, ShutdownCall
    <3> QED
      BY <1>20, <3>1, SendIs DEF ProviderSide
  <2>2. CASE ~Connectable
    BY <1>20, <2>2 DEF StopProvider, ProviderSide
  <2> QED
    BY <2>1, <2>2
<1>21. CASE ProviderStopped
  BY <1>21 DEF ProviderStopped, ProviderSide
<1>22. CASE Seal
  BY <1>22 DEF Seal, GiveUp, ProviderSide
<1>23. CASE Report
  BY <1>23 DEF Report, ProviderSide
<1> QED
  BY <1>1, <1>2, <1>3, <1>4, <1>5, <1>6, <1>7, <1>8, <1>9, <1>10, <1>11, <1>12, <1>13, <1>14,
     <1>15, <1>16, <1>17, <1>18, <1>19, <1>20, <1>21, <1>22, <1>23 DEF ExecutorStep

LEMMA CurrentName ==
    ASSUME PositionOK, pc \in InEffect
    PROVE  Current.name = Op.name /\ Current.name \in Names /\ Op.do = "effect"
<1>1. RouteOK(Program[route]) /\ at \in 1 .. Len(Program[route])
  BY RoutesAre DEF PositionOK
<1>2. Op.do = "effect"
  BY DEF PositionOK
<1>3. Op.name \in Names
  BY <1>1, <1>2 DEF RouteOK, Op
<1> QED
  BY <1>2, <1>3 DEF Current

LEMMA ProviderKept ==
    ASSUME [Next]_vars, PositionOK, ProviderOK
    PROVE  ProviderOK'
<1> USE DEF bookkeeping, executorVars, providerVars
<1>1. CASE ExecutorStep
  <2>1. ProviderSide /\ (~EnsureSpawns => UNCHANGED overlapped)
    BY <1>1, SidesAre DEF ProviderOK
  <2>2. CASE EnsureSpawns
    BY <2>2, SpawnKept
  <2>3. CASE ~EnsureSpawns /\ UNCHANGED <<plog, ptorn, prov, sock>>
    BY <2>1, <2>3, StillKept
  <2>4. CASE ~EnsureSpawns /\ CallProvider /\ sock \in Providers
             /\ Sent(sock, EffectCall(TRUE, Current))
    <3>1. Current.name \in Names
      BY <2>4, CurrentName DEF CallProvider, InEffect
    <3>2. IsCall(EffectCall(TRUE, Current))
      BY <3>1, CallsAre
    <3> QED
      BY <2>1, <2>4, <3>2, SentKept
  <2>5. CASE ~EnsureSpawns /\ StopProvider /\ sock \in Providers /\ Sent(sock, ShutdownCall(TRUE))
    BY <2>1, <2>5, CallsAre, SentKept
  <2> QED
    BY <2>1, <2>2, <2>3, <2>4, <2>5 DEF ProviderSide
<1>2. CASE Start \/ Resume
  BY <1>2, StillKept DEF Start, Resume
<1>3. CASE ExecutorDies
  BY <1>3, HangUpKept DEF ExecutorDies
<1>4. ASSUME NEW p \in Providers, ProviderStep(p)
      PROVE  ProviderOK'
  BY <1>4, ProviderStepKept
<1>5. ASSUME NEW p \in Providers, ProviderKilled(p)
      PROVE  ProviderOK'
  BY <1>5, DiesKept DEF ProviderKilled
<1>6. CASE UNCHANGED vars
  BY <1>6, StillKept DEF vars
<1> QED
  BY <1>1, <1>2, <1>3, <1>4, <1>5, <1>6 DEF Next

-----------------------------------------------------------------------------
\* The conversation.

ExecutorSame == pc' = pc /\ oplog' = oplog /\ Current' = Current

LogGrew == Executions \subseteq Executions' /\ \A i \in Executions : plog'[i] = plog[i]
LogSame == LogGrew /\ Executions' = Executions

LEMMA SameExecutor ==
    ASSUME UNCHANGED <<pc, route, at, host, seen, oplog>>
    PROVE  ExecutorSame
<1>1. Op' = Op
  BY DEF Op
<1> QED
  BY <1>1 DEF ExecutorSame, Current, Key, Request

LEMMA SameEntries ==
    ASSUME oplog' = oplog
    PROVE  \A kind : Entries(kind)' = Entries(kind)
  BY DEF Entries

\* What was intended, performed or committed stays so.
LEMMA BoundsStay ==
    ASSUME LogGrew
    PROVE  Bounds \subseteq Bounds'
  BY DEF LogGrew, Bounds, Bound

\* The journal's commits are the provider's.
LEMMA CommitsAre ==
    CommitsWereExecuted <=> \A c \in Entries("commit") : Bound(c) \in Bounds
  BY DEF CommitsWereExecuted, Bounds

\* The provider goes on, and no new request is open.
Fewer ==
    \A p \in Providers : \/ prov'[p].backlog = prov[p].backlog
                         \/ prov'[p].backlog = <<>>

LEMMA FewerCalls ==
    ASSUME Fewer, NEW p \in Providers, NEW i
    PROVE  /\ IsOpen(p, i)' => IsOpen(p, i)
           /\ i \in DOMAIN prov'[p].backlog =>
                 i \in DOMAIN prov[p].backlog /\ prov'[p].backlog[i] = prov[p].backlog[i]
<1>1. DOMAIN <<>> = {}
  BY EmptyIs
<1> QED
  BY <1>1 DEF Fewer, IsOpen

LEMMA QuietTalk ==
    ASSUME ConversationOK, ExecutorSame, LogSame, Fewer,
           answer' = answer \/ (answer' = NoAnswer /\ answer.from \in Providers)
    PROVE  ConversationOK'
<1>0. /\ Bounds \subseteq Bounds' /\ Executions' = Executions
      /\ \A i \in Executions : plog'[i] = plog[i]
      /\ \A kind : Entries(kind)' = Entries(kind)
      /\ pc' = pc /\ Current' = Current
  BY BoundsStay, SameEntries DEF LogSame, LogGrew, ExecutorSame
<1>1. AnswerOK'
  <2>1. CASE answer' = answer
    BY <1>0, <2>1 DEF AnswerOK, ConversationOK, Performed
  <2>2. CASE answer' = NoAnswer /\ answer.from \in Providers
    <3>1. pc \notin {"replied", "committed"}
      BY <2>2, ProvidersAssumption DEF AnswerOK, ConversationOK
    <3>2. NoAnswer.status = "none"
      BY DEF NoAnswer
    <3> QED
      BY <1>0, <2>2, <3>1, <3>2 DEF AnswerOK
  <2> QED
    BY <2>1, <2>2
<1>2. CallsOK'
  <2>1. ASSUME NEW p \in Providers, NEW i, IsOpen(p, i)'
        PROVE  IsOpen(p, i) /\ prov'[p].backlog[i] = prov[p].backlog[i]
    BY <2>1, FewerCalls DEF IsOpen
  <2>2. ASSUME NEW p \in Providers, NEW i, IsOpen(p, i)'
        PROVE  /\ answer' = NoAnswer
               /\ \/ pc' = "stopping" /\ prov'[p].backlog[i].op = "shutdown"
                  \/ /\ pc' = "calling"
                     /\ prov'[p].backlog[i] = EffectCall(TRUE, Current')
    <3>1. IsOpen(p, i) /\ prov'[p].backlog[i] = prov[p].backlog[i]
      BY <2>1, <2>2
    <3> QED
      BY <1>0, <3>1 DEF ConversationOK, CallsOK
  <2>3. \A p, q \in Providers : \A i, j : IsOpen(p, i)' /\ IsOpen(q, j)' => p = q /\ i = j
    BY <2>1 DEF ConversationOK, CallsOK
  <2> QED
    BY <2>2, <2>3 DEF CallsOK, EffectCall
<1>3. AheadOK'
  <2>1. ASSUME NEW i \in Executions'
        PROVE  IntendedBy(plog'[i], Entries("intent")')
    BY <1>0 DEF ConversationOK, AheadOK, Intended
  <2>2. ASSUME NEW p \in Providers, NEW i \in DOMAIN prov'[p].backlog,
               prov'[p].backlog[i].op = "effect"
        PROVE  IntendedBy(prov'[p].backlog[i], Entries("intent")')
    <3>1. i \in DOMAIN prov[p].backlog /\ prov'[p].backlog[i] = prov[p].backlog[i]
      BY FewerCalls
    <3> QED
      BY <1>0, <2>2, <3>1 DEF ConversationOK, AheadOK, Intended
  <2>3. pc' \in {"intended", "calling"} => IntendedBy(Current', Entries("intent")')
    BY <1>0 DEF ConversationOK, AheadOK, Intended
  <2> QED
    BY <2>1, <2>2, <2>3 DEF AheadOK, Intended
<1>4. CommitsWereExecuted'
  <2>1. \A c \in Entries("commit")' : Bound(c) \in Bounds'
    BY <1>0, CommitsAre DEF ConversationOK
  <2> QED
    BY <2>1 DEF CommitsWereExecuted, Bounds
<1> QED
  BY <1>1, <1>2, <1>3, <1>4 DEF ConversationOK

\* The process has taken the request at the head of its backlog, and dropped the rest
\* when it ends.
Took(p) ==
    /\ \/ prov'[p].backlog = Tail(prov[p].backlog)
       \/ prov'[p].backlog = <<>>
    /\ \A q \in Providers \ {p} : prov'[q].backlog = prov[q].backlog

LEMMA TookCalls ==
    ASSUME ProviderOK, NEW p \in Providers, prov[p].backlog # <<>>, Took(p)
    PROVE  /\ \A i \in DOMAIN prov'[p].backlog :
                 /\ i + 1 \in DOMAIN prov[p].backlog /\ i + 1 # 1 /\ i \in Nat
                 /\ prov'[p].backlog[i] = prov[p].backlog[i + 1]
           /\ \A q \in Providers : q # p => prov'[q].backlog = prov[q].backlog
           /\ 1 \in DOMAIN prov[p].backlog /\ Head(prov[p].backlog) = prov[p].backlog[1]
<1>1. Shorter(prov[p].backlog, Tail(prov[p].backlog))
  BY HeadIsCall
<1>2. DOMAIN <<>> = {}
  BY EmptyIs
<1>3. \A i \in DOMAIN prov'[p].backlog :
         /\ i + 1 \in DOMAIN prov[p].backlog /\ i + 1 # 1 /\ i \in Nat
         /\ prov'[p].backlog[i] = prov[p].backlog[i + 1]
  <2>1. CASE prov'[p].backlog = Tail(prov[p].backlog)
    <3> DEFINE B == prov[p].backlog
               T == Tail(prov[p].backlog)
    <3>1. /\ Len(B) \in Nat /\ DOMAIN B = 1 .. Len(B) /\ DOMAIN T = 1 .. Len(B) - 1
          /\ \A i \in 1 .. Len(B) - 1 : T[i] = B[i + 1]
      BY <1>1 DEF Shorter
    <3>2. prov'[p].backlog = T
      BY <2>1
    <3> HIDE DEF B, T
    <3>3. \A i \in DOMAIN T : i + 1 \in DOMAIN B /\ i + 1 # 1 /\ i \in Nat /\ T[i] = B[i + 1]
      BY <3>1
    <3> QED
      BY <3>2, <3>3 DEF B
  <2>2. CASE prov'[p].backlog = <<>>
    BY <1>2, <2>2
  <2> QED
    BY <2>1, <2>2 DEF Took
<1> QED
  BY <1>1, <1>3, HeadIsCall DEF Took

\* Every request still open was open, and is not the one that was taken.
LEMMA TookOpen ==
    ASSUME ProviderOK, ConversationOK, NEW p \in Providers, prov[p].backlog # <<>>, Took(p)
    PROVE  /\ \A q \in Providers : \A i : IsOpen(q, i)' =>
                 \E j : /\ IsOpen(q, j) /\ prov'[q].backlog[i] = prov[q].backlog[j]
                        /\ q = p => j = i + 1 /\ i \in Nat
                        /\ q # p => j = i
           /\ Head(prov[p].backlog).open =>
                 /\ answer = NoAnswer /\ IsOpen(p, 1)
                 /\ \A q \in Providers : \A i : ~IsOpen(q, i)'
<1>1. ASSUME NEW q \in Providers, NEW i, IsOpen(q, i)'
      PROVE  \E j : /\ IsOpen(q, j) /\ prov'[q].backlog[i] = prov[q].backlog[j]
                    /\ q = p => j = i + 1 /\ i \in Nat /\ j # 1
                    /\ q # p => j = i
  <2>1. CASE q = p
    <3>1. i \in DOMAIN prov'[p].backlog /\ prov'[p].backlog[i].open
      BY <1>1, <2>1 DEF IsOpen
    <3>2. /\ i + 1 \in DOMAIN prov[p].backlog /\ i + 1 # 1 /\ i \in Nat
          /\ prov'[p].backlog[i] = prov[p].backlog[i + 1]
      BY <3>1, TookCalls
    <3>3. IsOpen(p, i + 1)
      BY <3>1, <3>2 DEF IsOpen
    <3> QED
      BY <2>1, <3>2, <3>3
  <2>2. CASE q # p
    <3>1. prov'[q].backlog = prov[q].backlog
      BY <2>2, TookCalls
    <3> QED
      BY <1>1, <2>2, <3>1 DEF IsOpen
  <2> QED
    BY <2>1, <2>2
<1>2. ASSUME Head(prov[p].backlog).open
      PROVE  /\ answer = NoAnswer /\ IsOpen(p, 1)
             /\ \A q \in Providers : \A i : ~IsOpen(q, i)'
  <2>1. IsOpen(p, 1)
    BY <1>2, TookCalls DEF IsOpen
  <2>2. answer = NoAnswer
    BY <2>1 DEF ConversationOK, CallsOK
  <2>3. ASSUME NEW q \in Providers, NEW i, IsOpen(q, i)'
        PROVE  FALSE
    <3>1. PICK j : /\ IsOpen(q, j)
                   /\ q = p => j = i + 1 /\ i \in Nat /\ j # 1
      BY <1>1, <2>3
    <3>2. q = p /\ j = 1
      BY <2>1, <3>1 DEF ConversationOK, CallsOK
    <3> QED
      BY <3>1, <3>2
  <2> QED
    BY <2>1, <2>2, <2>3
<1> QED
  BY <1>1, <1>2

\* The process answers the request it took, if anybody is still listening.
AnswersOpen(p, status, result) ==
    IF Head(prov[p].backlog).open
    THEN answer' = [status |-> status, result |-> result, from |-> p]
    ELSE UNCHANGED answer

LEMMA AnsweredTalk ==
    ASSUME ProviderOK, ConversationOK, NEW p \in Providers, prov[p].backlog # <<>>, Took(p),
           ExecutorSame, LogGrew,
           NEW status \in {"executed", "duplicate", "mismatch", "rejected", "bye"}, NEW result,
           AnswersOpen(p, status, result),
           \A i \in Executions' : i \notin Executions =>
               Intended(Head(prov[p].backlog)) /\ plog'[i].key = Head(prov[p].backlog).key
               /\ plog'[i].name = Head(prov[p].backlog).name
               /\ plog'[i].request = Head(prov[p].backlog).request,
           status \in {"executed", "duplicate"} =>
               /\ Head(prov[p].backlog).op = "effect"
               /\ [key |-> Head(prov[p].backlog).key, name |-> Head(prov[p].backlog).name,
                   request |-> Head(prov[p].backlog).request, result |-> result] \in Bounds',
           status = "bye" => Head(prov[p].backlog).op = "shutdown"
    PROVE  ConversationOK'
<1> DEFINE r == Head(prov[p].backlog)
<1>0. /\ Bounds \subseteq Bounds' /\ \A kind : Entries(kind)' = Entries(kind)
      /\ pc' = pc /\ Current' = Current
      /\ Executions \subseteq Executions' /\ \A i \in Executions : plog'[i] = plog[i]
  BY BoundsStay, SameEntries DEF ExecutorSame, LogGrew
<1>1. ASSUME r.open
      PROVE  AnswerOK' /\ CallsOK'
  <2>1. /\ answer = NoAnswer /\ IsOpen(p, 1) /\ r = prov[p].backlog[1]
        /\ \A q \in Providers : \A i : ~IsOpen(q, i)'
    BY <1>1, TookOpen, TookCalls
  <2>2. answer' = [status |-> status, result |-> result, from |-> p]
    BY <1>1 DEF AnswersOpen
  <2>3. \/ pc = "stopping" /\ r.op = "shutdown"
        \/ pc = "calling" /\ r = EffectCall(TRUE, Current)
    <3>1. ASSUME NEW i, IsOpen(p, i)
          PROVE  \/ pc = "stopping" /\ prov[p].backlog[i].op = "shutdown"
                 \/ pc = "calling" /\ prov[p].backlog[i] = EffectCall(TRUE, Current)
      <4>1. CallsOK
        BY Zenon DEF ConversationOK
      <4> QED
        BY <3>1, <4>1, Zenon DEF CallsOK
    <3>2. \/ pc = "stopping" /\ prov[p].backlog[1].op = "shutdown"
          \/ pc = "calling" /\ prov[p].backlog[1] = EffectCall(TRUE, Current)
      BY <2>1, <3>1, Zenon
    <3> HIDE DEF r
    <3> QED
      BY <2>1, <3>2, Zenon
  <2>4. answer'.status = status /\ answer'.result = result /\ answer'.from = p
    BY <2>2
  <2>5. pc' = "calling" /\ status \in {"executed", "duplicate"}
            => [key |-> Current'.key, name |-> Current'.name, request |-> Current'.request,
                result |-> result] \in Bounds'
    <3>1. pc = "calling" => r.key = Current.key /\ r.name = Current.name /\ r.request = Current.request
      BY <2>3 DEF EffectCall
    <3> HIDE DEF r
    <3>2. status \in {"executed", "duplicate"} =>
            [key |-> r.key, name |-> r.name, request |-> r.request, result |-> result] \in Bounds'
      BY DEF r
    <3> QED
      BY <1>0, <3>1, <3>2
  <2>6. AnswerOK'
    <3>1. pc' \in {"calling", "stopping"}
      BY <1>0, <2>3
    <3>2. answer'.status # "none" /\ answer'.status \in {"none", "executed", "duplicate", "mismatch", "rejected", "bye"}
      BY <2>4
    <3>3. answer' = [status |-> answer'.status, result |-> answer'.result, from |-> answer'.from]
      BY <2>2, <2>4
    <3> QED
      BY <2>4, <2>5, <3>1, <3>2, <3>3 DEF AnswerOK, Performed
  <2>7. CallsOK'
    BY <2>1 DEF CallsOK
  <2> QED
    BY <2>6, <2>7
<1>2. ASSUME ~r.open
      PROVE  AnswerOK' /\ CallsOK'
  <2>1. answer' = answer
    BY <1>2 DEF AnswersOpen
  <2>2. AnswerOK'
    BY <1>0, <2>1 DEF AnswerOK, ConversationOK, Performed
  <2>3. CallsOK'
    <3>1. ASSUME NEW q \in Providers, NEW i, IsOpen(q, i)'
          PROVE  /\ answer' = NoAnswer
                 /\ \/ pc' = "stopping" /\ prov'[q].backlog[i].op = "shutdown"
                    \/ /\ pc' = "calling"
                       /\ prov'[q].backlog[i] = EffectCall(TRUE, Current')
      <4>1. PICK j : IsOpen(q, j) /\ prov'[q].backlog[i] = prov[q].backlog[j]
        BY <3>1, TookOpen
      <4>2. /\ answer = NoAnswer
            /\ \/ pc = "stopping" /\ prov[q].backlog[j].op = "shutdown"
               \/ pc = "calling" /\ prov[q].backlog[j] = EffectCall(TRUE, Current)
        BY <4>1 DEF ConversationOK, CallsOK
      <4>3. CASE pc = "stopping" /\ prov[q].backlog[j].op = "shutdown"
        BY <1>0, <2>1, <4>1, <4>2, <4>3, Zenon
      <4>4. CASE pc = "calling" /\ prov[q].backlog[j] = EffectCall(TRUE, Current)
        BY <1>0, <2>1, <4>1, <4>2, <4>4, Zenon
      <4> QED
        BY <4>2, <4>3, <4>4
    <3>2. ASSUME NEW q1 \in Providers, NEW q2 \in Providers, NEW i1, NEW i2,
                 IsOpen(q1, i1)', IsOpen(q2, i2)'
          PROVE  q1 = q2 /\ i1 = i2
      <4>1. PICK j1 : IsOpen(q1, j1) /\ (q1 = p => j1 = i1 + 1 /\ i1 \in Nat) /\ (q1 # p => j1 = i1)
        BY <3>2, TookOpen
      <4>2. PICK j2 : IsOpen(q2, j2) /\ (q2 = p => j2 = i2 + 1 /\ i2 \in Nat) /\ (q2 # p => j2 = i2)
        BY <3>2, TookOpen
      <4>3. q1 = q2 /\ j1 = j2
        BY <4>1, <4>2 DEF ConversationOK, CallsOK
      <4> QED
        BY <4>1, <4>2, <4>3
    <3> QED
      BY <3>1, <3>2 DEF CallsOK
  <2> QED
    BY <2>2, <2>3
<1>3. AheadOK'
  <2>1. ASSUME NEW i \in Executions'
        PROVE  IntendedBy(plog'[i], Entries("intent")')
    <3>1. CASE i \in Executions
      BY <1>0, <3>1 DEF ConversationOK, AheadOK, Intended
    <3>2. CASE i \notin Executions
      <4>1. IntendedBy(Head(prov[p].backlog), Entries("intent"))
        BY <3>2 DEF Intended
      <4> QED
        BY <1>0, <3>2, <4>1 DEF IntendedBy
    <3> QED
      BY <3>1, <3>2
  <2>2. ASSUME NEW q \in Providers, NEW i \in DOMAIN prov'[q].backlog,
               prov'[q].backlog[i].op = "effect"
        PROVE  IntendedBy(prov'[q].backlog[i], Entries("intent")')
    <3>1. PICK j \in DOMAIN prov[q].backlog : prov'[q].backlog[i] = prov[q].backlog[j]
      BY TookCalls
    <3> QED
      BY <1>0, <2>2, <3>1 DEF ConversationOK, AheadOK, Intended
  <2>3. pc' \in {"intended", "calling"} => IntendedBy(Current', Entries("intent")')
    BY <1>0 DEF ConversationOK, AheadOK, Intended
  <2> QED
    BY <2>1, <2>2, <2>3 DEF AheadOK, Intended
<1>4. CommitsWereExecuted'
  <2>1. \A c \in Entries("commit")' : Bound(c) \in Bounds'
    BY <1>0, CommitsAre DEF ConversationOK
  <2> QED
    BY <2>1 DEF CommitsWereExecuted, Bounds
<1>5. AnswerOK' /\ CallsOK'
  BY <1>1, <1>2
<1> QED
  BY <1>3, <1>4, <1>5 DEF ConversationOK

LEMMA StepExecutor ==
    ASSUME NEW p, ProviderStep(p) \/ ProviderKilled(p)
    PROVE  ExecutorSame
<1>1. UNCHANGED <<pc, route, at, host, seen, oplog>>
  BY DEF ProviderStep, ProviderKilled, executorVars, position, files
<1> QED
  BY <1>1, SameExecutor

LEMMA SameLogSame ==
    ASSUME plog' = plog
    PROVE  LogSame
  BY SameLog DEF LogSame, LogGrew

LEMMA EndedFewer ==
    ASSUME ProcessesOK, NEW p \in Providers, prov' = [prov EXCEPT ![p] = Off]
    PROVE  Fewer
<1>1. Off.backlog = <<>>
  BY DEF Off
<1> QED
  BY <1>1 DEF Fewer, ProcessesOK

LEMMA ProviderTalk ==
    ASSUME ProviderOK, ConversationOK, NEW p \in Providers, Bind(p) \/ Rebuild(p) \/ Announce(p),
           ExecutorSame
    PROVE  ConversationOK'
<1>0. prov[p] = Process(prov[p].st, prov[p].executed, prov[p].consumed, prov[p].seq, prov[p].backlog)
      /\ DOMAIN prov = Providers
  BY ProcessIs DEF ProviderOK, ProcessesOK
<1>1. CASE Bind(p)
  <2>1. Fewer
    BY <1>0, <1>1 DEF Fewer, Bind, Process
  <2> QED
    BY <1>1, <2>1, SameLogSame, QuietTalk DEF Bind
<1>2. CASE Rebuild(p)
  <2>1. CASE LogIntact
    <3> DEFINE E == {Bound(plog[i]) : i \in Executions}
               C == [n \in Names |-> Cardinality({i \in Executions : plog[i].name = n})]
    <3>1. prov' = [prov EXCEPT ![p].st = "rebuilt", ![p].executed = E, ![p].consumed = C,
                               ![p].seq = Len(plog)]
      BY <1>2, <2>1 DEF Rebuild
    <3> HIDE DEF E, C
    <3>2. Fewer
      BY <1>0, <3>1 DEF Fewer, Process
    <3> QED
      BY <1>2, <3>2, SameLogSame, QuietTalk DEF Rebuild
  <2>2. CASE ~LogIntact
    BY <1>2, <2>2, EndedFewer, SameLogSame, QuietTalk DEF Rebuild, ProviderOK
  <2> QED
    BY <2>1, <2>2
<1>3. CASE Announce(p)
  <2>1. Fewer
    BY <1>0, <1>3 DEF Fewer, Announce, Process
  <2>2. plog' = Append(plog, MarkLine(p, "start"))
    BY <1>3 DEF Announce, Mark, Record, MarkLine
  <2>3. MarkLine(p, "start").status # "executed"
    BY MarkLineIs
  <2>4. LogSame
    BY <2>2, <2>3, LogGrows DEF LogSame, LogGrew, ProviderOK
  <2>5. answer' = answer
    BY <1>3 DEF Announce
  <2> QED
    BY <2>1, <2>4, <2>5, QuietTalk
<1> QED
  BY <1>1, <1>2, <1>3

LEMMA DiesTalk ==
    ASSUME ProviderOK, ConversationOK, NEW p \in Providers, ProviderDies(p), ExecutorSame
    PROVE  ConversationOK'
<1>1. Fewer /\ LogSame
  BY EndedFewer, SameLogSame DEF ProviderDies, ProviderOK
<1>2. answer' = answer \/ (answer' = NoAnswer /\ answer.from \in Providers)
  BY DEF ProviderDies
<1> QED
  BY <1>1, <1>2, QuietTalk

\* The line a request leaves in the log, and what its process has taken.
LEMMA LoggedGrew ==
    ASSUME ProviderOK, NEW p, NEW r, NEW status, NEW result, Logged(p, r, status, result)
    PROVE  /\ LogGrew
           /\ \A i \in Executions' : i \notin Executions =>
                 /\ plog'[i].key = r.key /\ plog'[i].name = r.name /\ plog'[i].request = r.request
                 /\ status = "executed"
           /\ status = "executed" => Executed(p, r, result) \in Bounds'
<1> DEFINE line == ReplyLine(p, r, status, result)
<1>1. plog' = Append(plog, line)
  BY LoggedIs
<1>2. IsReplyLine(line, p, r, status, result)
  BY ReplyLineIs
<1> HIDE DEF line
<1>3. /\ line.status = status /\ line.key = r.key /\ line.name = r.name
      /\ line.request = r.request /\ line.result = result
  BY <1>2 DEF IsReplyLine
<1>4. Longer(plog, line, plog')
  BY <1>1, LogGrows DEF ProviderOK
<1>5. CASE status = "executed"
  <2>1. Executions' = Executions \cup {Len(plog) + 1} /\ plog'[Len(plog) + 1] = line
        /\ \A i \in Executions : plog'[i] = plog[i]
    BY <1>1, <1>3, <1>4, <1>5, LogGrows DEF ProviderOK, Longer
  <2>2. Bound(line) = Executed(p, r, result)
    BY <1>3 DEF Bound, Executed
  <2>3. Bound(line) \in Bounds'
    BY <2>1 DEF Bounds
  <2> QED
    BY <1>3, <1>5, <2>1, <2>2, <2>3 DEF LogGrew
<1>6. CASE status # "executed"
  <2>1. Executions' = Executions /\ \A i \in Executions : plog'[i] = plog[i]
    BY <1>1, <1>3, <1>6, LogGrows DEF ProviderOK
  <2> QED
    BY <1>6, <2>1 DEF LogGrew
<1> QED
  BY <1>5, <1>6

LEMMA ServedTalk ==
    ASSUME ProviderOK, ConversationOK, NEW p \in Providers, prov[p].st = "serving",
           prov[p].backlog # <<>>, Served(p, Head(prov[p].backlog)), ExecutorSame
    PROVE  ConversationOK'
<1> DEFINE r == Head(prov[p].backlog)
<1>1. CASE r.op = "shutdown" /\ Shutdown(p, r)
  <2>1. /\ plog' = Append(plog, MarkLine(p, "shutdown")) /\ prov' = [prov EXCEPT ![p] = Off]
        /\ Reply(p, r, "bye", <<>>)
    BY <1>1 DEF Shutdown, Mark, Record, MarkLine
  <2>2. MarkLine(p, "shutdown").status # "executed"
    BY MarkLineIs
  <2>3. LogGrew /\ Executions' = Executions
    BY <2>1, <2>2, LogGrows DEF LogGrew, ProviderOK
  <2>4. Off.backlog = <<>>
    BY DEF Off
  <2>5. Took(p)
    BY <2>1, <2>4 DEF Took, ProviderOK, ProcessesOK
  <2>6. AnswersOpen(p, "bye", <<>>)
    BY <2>1 DEF Reply, AnswersOpen
  <2> QED
    BY <1>1, <2>3, <2>5, <2>6, AnsweredTalk
<1>2. ASSUME r.op = "effect", NEW status, NEW result, Answers(p, r, status, result)
      PROVE  ConversationOK'
  <2>1. LogGrew /\ Executions' = Executions
    BY <1>2, LoggedGrew DEF Answers, LogGrew
  <2>2. Took(p)
    <3>1. prov'[p].backlog = Tail(prov[p].backlog) /\ Only(p)
      BY <1>2, BecomesIs DEF Answers, ProviderOK
    <3> QED
      BY <3>1 DEF Took, Only
  <2>3. AnswersOpen(p, status, result)
    BY <1>2, LoggedIs DEF Reply, AnswersOpen, Answers
  <2>4. status = "duplicate" =>
           [key |-> r.key, name |-> r.name, request |-> r.request, result |-> result] \in Bounds'
    <3>1. ASSUME status = "duplicate"
          PROVE  [key |-> r.key, name |-> r.name, request |-> r.request, result |-> result] \in Bounds'
      <4>1. PICK b \in prov[p].executed :
                b.key = r.key /\ b.name = r.name /\ b.request = r.request /\ b.result = result
        BY <1>2, <3>1 DEF Answers
      <4>2. b \in Bounds
        BY <4>1 DEF ProviderOK, MemoryOK, Knows, Bounds
      <4>3. b = [key |-> r.key, name |-> r.name, request |-> r.request, result |-> result]
        <5>1. b = [key |-> b.key, name |-> b.name, request |-> b.request, result |-> b.result]
          BY <4>2 DEF Bounds, Bound
        <5> HIDE DEF r
        <5>2. b.key = r.key /\ b.name = r.name /\ b.request = r.request /\ b.result = result
          BY <4>1 DEF r
        <5> QED
          BY <5>1, <5>2
      <4> QED
        BY <2>1, <4>2, <4>3, BoundsStay
    <3> QED
      BY <3>1
  <2> HIDE DEF r
  <2>5. status \in {"duplicate", "mismatch", "rejected"} /\ r.op = "effect"
    BY <1>2 DEF Answers
  <2> QED
    BY <2>1, <2>2, <2>3, <2>4, <2>5, AnsweredTalk DEF r
<1>3. ASSUME r.op = "effect", NEW result, Performs(p, r, result)
      PROVE  ConversationOK'
  <2>1. Logged(p, r, "executed", result)
    BY <1>3 DEF Performs
  <2>2. /\ LogGrew /\ Executed(p, r, result) \in Bounds'
        /\ \A i \in Executions' : i \notin Executions =>
                 /\ plog'[i].key = r.key /\ plog'[i].name = r.name /\ plog'[i].request = r.request
    BY <2>1, LoggedGrew
  <2>3. Took(p)
    <3>1. prov'[p].backlog = Tail(prov[p].backlog) /\ Only(p)
      <4> DEFINE E == prov[p].executed \cup {Executed(p, r, result)}
                 C == [prov[p].consumed EXCEPT ![r.name] = @ + 1]
                 S == prov[p].seq + 1
                 B == Tail(prov[p].backlog)
      <4>1. Becomes(p, Process("serving", E, C, S, B))
        BY <1>3 DEF Performs
      <4> HIDE DEF E, C, S, B
      <4>2. prov'[p].backlog = B /\ Only(p)
        BY <4>1, BecomesIs DEF ProviderOK
      <4> QED
        BY <4>2 DEF B
    <3> QED
      BY <3>1 DEF Took, Only
  <2>4. AnswersOpen(p, "executed", result)
    BY <2>1, LoggedIs DEF Reply, AnswersOpen
  <2>5. Intended(r)
    BY <1>3, HeadIsCall DEF ConversationOK, AheadOK
  <2>6. [key |-> r.key, name |-> r.name, request |-> r.request, result |-> result] \in Bounds'
    BY <2>2 DEF Executed
  <2> HIDE DEF r
  <2>7. r.op = "effect"
    BY <1>3
  <2> QED
    BY <2>2, <2>3, <2>4, <2>5, <2>6, <2>7, AnsweredTalk DEF r
<1> QED
  BY <1>1, <1>2, <1>3 DEF Served

LEMMA ProcessTalk ==
    ASSUME ProviderOK, ConversationOK, NEW p \in Providers, ProviderStep(p) \/ ProviderKilled(p)
    PROVE  ConversationOK'
<1>1. ExecutorSame
  BY StepExecutor
<1>2. CASE ProviderKilled(p)
  BY <1>1, <1>2, DiesTalk DEF ProviderKilled
<1>3. CASE Serve(p) /\ UNCHANGED executorVars
  <2>1. Served(p, Head(prov[p].backlog)) /\ prov[p].st = "serving" /\ prov[p].backlog # <<>>
    BY <1>3, ServeKept DEF Serve
  <2> QED
    BY <1>1, <2>1, ServedTalk
<1>4. CASE Bind(p) \/ Rebuild(p) \/ Announce(p)
  BY <1>1, <1>4, ProviderTalk
<1> QED
  BY <1>2, <1>3, <1>4 DEF ProviderStep

\* The executor's side: what a step writes to the journal.
LEMMA EntriesGrow ==
    ASSUME FilesOK, NEW e, oplog' = Append(oplog, e), NEW kind
    PROVE  /\ e.kind = kind => Entries(kind)' = Entries(kind) \cup {e}
           /\ e.kind # kind => Entries(kind)' = Entries(kind)
<1>1. Longer(oplog, e, oplog')
  BY AppendIs DEF FilesOK
<1>2. /\ DOMAIN oplog' = DOMAIN oplog \cup {Len(oplog) + 1} /\ oplog'[Len(oplog) + 1] = e
      /\ \A i \in DOMAIN oplog : oplog'[i] = oplog[i]
  BY <1>1 DEF Longer
<1>3. CASE e.kind = kind
  <2>1. {j \in DOMAIN oplog' : oplog'[j].kind = kind}
          = {j \in DOMAIN oplog : oplog[j].kind = kind} \cup {Len(oplog) + 1}
    BY <1>2, <1>3
  <2> QED
    BY <1>2, <1>3, <2>1 DEF Entries
<1>4. CASE e.kind # kind
  <2>1. {j \in DOMAIN oplog' : oplog'[j].kind = kind} = {j \in DOMAIN oplog : oplog[j].kind = kind}
    BY <1>2, <1>4
  <2> QED
    BY <1>2, <1>4, <2>1 DEF Entries
<1> QED
  BY <1>3, <1>4

\* It writes no commit.
NoCommit == oplog' = oplog \/ \E e : oplog' = Append(oplog, e) /\ e.kind # "commit"

LEMMA NoCommitEntries ==
    ASSUME FilesOK, NoCommit
    PROVE  Entries("commit")' = Entries("commit") /\ Entries("intent") \subseteq Entries("intent")'
<1>1. CASE oplog' = oplog
  BY <1>1, SameEntries
<1>2. ASSUME NEW e, oplog' = Append(oplog, e), e.kind # "commit"
      PROVE  Entries("commit")' = Entries("commit") /\ Entries("intent") \subseteq Entries("intent")'
  BY <1>2, EntriesGrow
<1> QED
  BY <1>1, <1>2 DEF NoCommit

Talking == {"calling", "replied", "committed", "stopping"}

LEMMA NobodyTalks ==
    ASSUME ConversationOK, pc \notin Talking
    PROVE  answer = NoAnswer /\ \A q \in Providers : \A i : ~IsOpen(q, i)
  BY DEF ConversationOK, AnswerOK, CallsOK, Talking

\* The backlogs hold what they held, possibly of a client that has gone.
SameCalls ==
    \A q \in Providers : \A i \in DOMAIN prov'[q].backlog :
        /\ i \in DOMAIN prov[q].backlog
        /\ prov'[q].backlog[i].op = prov[q].backlog[i].op
        /\ prov[q].backlog[i].op = "effect" =>
              /\ prov'[q].backlog[i].key = prov[q].backlog[i].key
              /\ prov'[q].backlog[i].name = prov[q].backlog[i].name
              /\ prov'[q].backlog[i].request = prov[q].backlog[i].request

\* After the step nobody is talking.
TalkOver ==
    /\ pc' \notin Talking /\ answer' = NoAnswer
    /\ \A q \in Providers : \A i : ~IsOpen(q, i)'
    /\ SameCalls /\ plog' = plog /\ NoCommit
    /\ pc' = "intended" => Intended(Current)'

LEMMA TalkOverKept ==
    ASSUME FilesOK, ConversationOK, TalkOver
    PROVE  ConversationOK'
<1>0. /\ Bounds \subseteq Bounds' /\ Executions' = Executions /\ plog' = plog
      /\ Entries("commit")' = Entries("commit") /\ Entries("intent") \subseteq Entries("intent")'
  BY BoundsStay, SameLogSame, NoCommitEntries DEF LogSame, LogGrew, TalkOver
<1>1. AnswerOK'
  <2>1. NoAnswer.status = "none"
    BY DEF NoAnswer
  <2> QED
    BY <2>1 DEF AnswerOK, TalkOver, Talking
<1>2. CallsOK'
  BY DEF TalkOver, CallsOK
<1>3. AheadOK'
  <2>1. ASSUME NEW i \in Executions'
        PROVE  IntendedBy(plog'[i], Entries("intent")')
    BY <1>0 DEF ConversationOK, AheadOK, Intended, IntendedBy
  <2>2. ASSUME NEW q \in Providers, NEW i \in DOMAIN prov'[q].backlog,
               prov'[q].backlog[i].op = "effect"
        PROVE  IntendedBy(prov'[q].backlog[i], Entries("intent")')
    <3>1. /\ i \in DOMAIN prov[q].backlog /\ prov[q].backlog[i].op = "effect"
          /\ prov'[q].backlog[i].key = prov[q].backlog[i].key
          /\ prov'[q].backlog[i].name = prov[q].backlog[i].name
          /\ prov'[q].backlog[i].request = prov[q].backlog[i].request
      BY <2>2 DEF TalkOver, SameCalls
    <3>2. IntendedBy(prov[q].backlog[i], Entries("intent"))
      BY <3>1 DEF ConversationOK, AheadOK, Intended
    <3> QED
      BY <1>0, <3>1, <3>2 DEF IntendedBy
  <2>3. pc' \in {"intended", "calling"} => IntendedBy(Current', Entries("intent")')
    BY DEF TalkOver, Talking, Intended
  <2> QED
    BY <2>1, <2>2, <2>3 DEF AheadOK, Intended
<1>4. CommitsWereExecuted'
  <2>1. \A c \in Entries("commit")' : Bound(c) \in Bounds'
    BY <1>0, CommitsAre DEF ConversationOK
  <2> QED
    BY <2>1 DEF CommitsWereExecuted, Bounds
<1> QED
  BY <1>1, <1>2, <1>3, <1>4 DEF ConversationOK

\* A step of an executor that is not talking.
Silent ==
    /\ pc \notin Talking /\ pc' \notin Talking
    /\ UNCHANGED <<plog, answer>> /\ \A q \in Providers : prov'[q].backlog = prov[q].backlog
    /\ NoCommit
    /\ pc' = "intended" => Intended(Current)'

LEMMA SilentIsOver ==
    ASSUME ConversationOK, Silent
    PROVE  TalkOver
<1>1. answer = NoAnswer /\ \A q \in Providers : \A i : ~IsOpen(q, i)
  BY NobodyTalks DEF Silent
<1> QED
  BY <1>1 DEF Silent, TalkOver, SameCalls, IsOpen

\* A step that ends the talk: the answer was taken, or none will come.
Hears ==
    /\ pc' \notin Talking /\ pc' # "intended" /\ answer' = NoAnswer
    /\ \A q \in Providers : \A i : ~IsOpen(q, i)
    /\ UNCHANGED <<plog, prov>> /\ NoCommit

LEMMA HearsIsOver ==
    ASSUME Hears
    PROVE  TalkOver
  BY DEF Hears, TalkOver, SameCalls, IsOpen

LEMMA AnsweredMeansClosed ==
    ASSUME ConversationOK, answer # NoAnswer
    PROVE  \A q \in Providers : \A i : ~IsOpen(q, i)
  BY DEF ConversationOK, CallsOK

LEMMA DroppedMeansClosed ==
    ASSUME Dropped
    PROVE  answer = NoAnswer /\ \A q \in Providers : \A i : ~IsOpen(q, i)
  BY DEF Dropped, IsOpen

LEMMA DeathTalk ==
    ASSUME FilesOK, ProviderOK, ConversationOK, ExecutorDies
    PROVE  ConversationOK'
<1>1. HangUp /\ pc' = "down" /\ plog' = plog /\ oplog' = oplog
  BY DEF ExecutorDies
<1>2. answer' = NoAnswer /\ \A q \in Providers : HungUp(q)
  BY <1>1, HangUpIs DEF ProviderOK
<1>3. ASSUME NEW q \in Providers
      PROVE  /\ DOMAIN prov'[q].backlog = DOMAIN prov[q].backlog
             /\ \A i \in DOMAIN prov[q].backlog :
                   SameCall(prov[q].backlog[i], prov'[q].backlog[i], FALSE)
  BY <1>2, HungUpProcess DEF ProviderOK
<1>4. ASSUME NEW q \in Providers, NEW i, IsOpen(q, i)'
      PROVE  FALSE
  <2>1. prov'[q].backlog[i].open = FALSE
    BY <1>3, <1>4 DEF IsOpen, SameCall
  <2>2. prov'[q].backlog[i].open
    BY <1>4 DEF IsOpen
  <2> QED
    BY <2>1, <2>2, Zenon
<1>5. SameCalls
  BY <1>3 DEF SameCalls, SameCall
<1>6. TalkOver
  BY <1>1, <1>2, <1>4, <1>5 DEF TalkOver, Talking, NoCommit
<1> QED
  BY <1>6, TalkOverKept

LEMMA LinesAre ==
    /\ \A kind : EffectLine(kind).kind = kind /\ EffectLine(kind).key = Current.key
                 /\ EffectLine(kind).name = Current.name /\ EffectLine(kind).request = Current.request
    /\ \A kind : StateLine(kind).kind = kind
    /\ \A result, source : ResultLine(result, source).kind = "result"
    /\ CommitLine.kind = "commit" /\ CommitLine.key = Current.key /\ CommitLine.name = Current.name
    /\ CommitLine.request = Current.request /\ CommitLine.result = answer.result
  BY DEF EffectLine, StateLine, ResultLine, CommitLine

LEMMA BeginWrites ==
    ASSUME NEW r, Begin(r)
    PROVE  NoCommit /\ pc' = "op"
<1> DEFINE from == IF r = Recovered THEN saved
                   ELSE [seen |-> <<>>, host |-> [event |-> 0, effect |-> 0]]
           line == [kind |-> "creation", route |-> r, host |-> from.host]
<1>1. oplog' = Append(oplog, line) /\ pc' = "op"
  BY DEF Begin
<1>2. line.kind # "commit"
  OBVIOUS
<1> HIDE DEF line
<1> QED
  BY <1>1, <1>2 DEF NoCommit

LEMMA GivesUp ==
    ASSUME NEW why, GiveUp(why)
    PROVE  NoCommit /\ pc' = "down"
  BY DEF GiveUp, files, NoCommit

LEMMA WriteIs ==
    ASSUME NEW line, Write(line), line.kind # "commit"
    PROVE  NoCommit
  BY DEF Write, NoCommit

\* The steps of an executor that talks, or has talked.
LEMMA CallTalk ==
    ASSUME PositionOK, FilesOK, ProviderOK, ConversationOK, CallProvider
    PROVE  ConversationOK'
<1> USE DEF position, files, bookkeeping
<1>0. pc = "intended" /\ Intended(Current)
      /\ answer = NoAnswer /\ \A q \in Providers : \A i : ~IsOpen(q, i)
  BY NobodyTalks DEF CallProvider, ConversationOK, AheadOK, Talking
<1>1. CASE ~Connectable
  <2>1. GiveUp("provider unavailable") /\ UNCHANGED <<plog, prov, answer>>
    BY <1>1 DEF CallProvider, providerVars
  <2>2. TalkOver
    BY <1>0, <2>1, GivesUp, HearsIsOver DEF Hears, Talking
  <2> QED
    BY <2>2, TalkOverKept
<1>2. CASE Connectable
  <2>1. Send(EffectCall(TRUE, Current)) /\ pc' = "calling" /\ UNCHANGED <<route, at, host, seen, oplog>>
    BY <1>2, Zenon DEF CallProvider, EffectCall
  <2>2. sock \in Providers /\ Sent(sock, EffectCall(TRUE, Current))
    BY <2>1, SendIs DEF ProviderOK
  <2>3. Op' = Op
    BY <2>1 DEF Op
  <2>4. Current' = Current
    BY <2>1, <2>3 DEF Current, Key, Request
  <2> DEFINE B == prov[sock].backlog
             call == EffectCall(TRUE, Current)
  <2>5. Longer(B, call, Append(B, call))
    BY <2>2, AppendIs, ProcessIs DEF ProviderOK
  <2>6. prov'[sock].backlog = Append(B, call) /\ Only(sock)
    <3> DEFINE T == Append(B, call)
    <3>1. Becomes(sock, Process(prov[sock].st, prov[sock].executed, prov[sock].consumed,
                                prov[sock].seq, T))
      BY <2>2 DEF Sent
    <3> HIDE DEF T
    <3>2. prov'[sock].backlog = T /\ Only(sock)
      BY <2>2, <3>1, BecomesIs DEF ProviderOK
    <3> QED
      BY <3>2 DEF T
  <2>7. UNCHANGED <<plog, answer>>
    BY <2>2 DEF Sent
  <2>8. call.op = "effect" /\ call.key = Current.key /\ call.name = Current.name
        /\ call.request = Current.request
    BY DEF EffectCall
  <2> HIDE DEF B, call
  <2>9. ASSUME NEW q \in Providers, NEW i \in DOMAIN prov'[q].backlog
        PROVE  \/ i \in DOMAIN prov[q].backlog /\ prov'[q].backlog[i] = prov[q].backlog[i]
               \/ q = sock /\ i = Len(B) + 1 /\ prov'[q].backlog[i] = call
    BY <2>5, <2>6 DEF Longer, Only, B
  <2>10. ASSUME NEW q \in Providers, NEW i, IsOpen(q, i)'
         PROVE  q = sock /\ i = Len(B) + 1 /\ prov'[q].backlog[i] = call
    BY <1>0, <2>9, <2>10 DEF IsOpen
  <2>11. CallsOK'
    <3>1. EffectCall(TRUE, Current)' = call
      BY <2>4, Zenon DEF call, EffectCall
    <3> DEFINE next == EffectCall(TRUE, Current)'
    <3>2. \A q \in Providers : \A i : IsOpen(q, i)' => prov'[q].backlog[i] = next
      BY <2>10, <3>1, Zenon
    <3>3. \A p, q \in Providers : \A i, j : IsOpen(p, i)' /\ IsOpen(q, j)' => p = q /\ i = j
      BY <2>10
    <3>4. pc' = "calling" /\ answer' = NoAnswer
      BY <1>0, <2>1, <2>7
    <3> HIDE DEF next
    <3>5. \A q \in Providers : \A i : IsOpen(q, i)' =>
            /\ answer' = NoAnswer
            /\ \/ pc' = "stopping" /\ prov'[q].backlog[i].op = "shutdown"
               \/ pc' = "calling" /\ prov'[q].backlog[i] = next
      BY <3>2, <3>4
    <3> QED
      BY <3>3, <3>5, Zenon DEF CallsOK, next
  <2>12. AnswerOK'
    <3>1. NoAnswer.status = "none"
      BY DEF NoAnswer
    <3> QED
      BY <1>0, <2>1, <2>7, <3>1 DEF AnswerOK
  <2>13. Executions' = Executions /\ Bounds' = Bounds /\ plog' = plog
         /\ \A kind : Entries(kind)' = Entries(kind)
    BY <2>1, <2>7, SameLog, SameEntries DEF Bounds
  <2>14. AheadOK'
    <3>1. IntendedBy(call, Entries("intent"))
      BY <1>0, <2>8 DEF Intended, IntendedBy
    <3>2. ASSUME NEW q \in Providers, NEW i \in DOMAIN prov'[q].backlog,
                 prov'[q].backlog[i].op = "effect"
          PROVE  IntendedBy(prov'[q].backlog[i], Entries("intent")')
      BY <2>9, <2>13, <3>1, <3>2 DEF ConversationOK, AheadOK, Intended
    <3>3. \A i \in Executions' : IntendedBy(plog'[i], Entries("intent")')
      BY <2>13 DEF ConversationOK, AheadOK, Intended
    <3>4. IntendedBy(Current', Entries("intent")')
      BY <1>0, <2>4, <2>13 DEF Intended
    <3> QED
      BY <3>2, <3>3, <3>4 DEF AheadOK, Intended
  <2>15. CommitsWereExecuted'
    <3>1. \A c \in Entries("commit")' : Bound(c) \in Bounds'
      BY <2>13, CommitsAre DEF ConversationOK
    <3> QED
      BY <3>1 DEF CommitsWereExecuted, Bounds
  <2> QED
    BY <2>11, <2>12, <2>14, <2>15 DEF ConversationOK
<1> QED
  BY <1>1, <1>2

\* A step between the reply and its delivery.
Keeps ==
    /\ pc' \in {"replied", "committed"} /\ Current' = Current
    /\ UNCHANGED <<plog, prov>>
    /\ \A q \in Providers : \A i : ~IsOpen(q, i)
    /\ answer'.status \in {"executed", "duplicate"} /\ answer'.from = NoProvider
    /\ answer' = [status |-> answer'.status, result |-> answer'.result, from |-> answer'.from]
    /\ Performed(Current, answer'.result)
    /\ Entries("intent")' = Entries("intent")
    /\ \A c \in Entries("commit")' : c \in Entries("commit") \/ Bound(c) \in Bounds

LEMMA KeepsKept ==
    ASSUME ConversationOK, Keeps
    PROVE  ConversationOK'
<1>1. Executions' = Executions /\ Bounds' = Bounds /\ plog' = plog /\ prov' = prov
  BY SameLog DEF Bounds, Keeps
<1>2. AnswerOK'
  BY <1>1 DEF Keeps, AnswerOK, Performed
<1>3. CallsOK'
  BY <1>1 DEF Keeps, CallsOK, IsOpen
<1>4. AheadOK'
  BY <1>1 DEF Keeps, AheadOK, ConversationOK, Intended
<1>5. CommitsWereExecuted'
  <2>1. \A c \in Entries("commit")' : Bound(c) \in Bounds'
    BY <1>1, CommitsAre DEF ConversationOK, Keeps
  <2> QED
    BY <2>1 DEF CommitsWereExecuted, Bounds
<1> QED
  BY <1>2, <1>3, <1>4, <1>5 DEF ConversationOK

LEMMA RepliesTalk ==
    ASSUME PositionOK, FilesOK, ConversationOK, ProviderReplies
    PROVE  ConversationOK'
<1> USE DEF position, files, bookkeeping
<1>0. pc = "calling" /\ answer # NoAnswer /\ \A q \in Providers : \A i : ~IsOpen(q, i)
  BY AnsweredMeansClosed DEF ProviderReplies
<1>1. CASE answer.status \in {"executed", "duplicate"}
  <2>1. /\ pc' = "replied" /\ answer' = [answer EXCEPT !.from = NoProvider]
        /\ UNCHANGED <<route, at, host, seen, oplog, plog, prov>>
    BY <1>1 DEF ProviderReplies
  <2>2. Op' = Op
    BY <2>1 DEF Op
  <2>3. Current' = Current
    BY <2>1, <2>2 DEF Current, Key, Request
  <2>4. answer = [status |-> answer.status, result |-> answer.result, from |-> answer.from]
    BY <1>0 DEF ConversationOK, AnswerOK
  <2>5. /\ answer'.status = answer.status /\ answer'.result = answer.result
        /\ answer'.from = NoProvider
        /\ answer' = [status |-> answer'.status, result |-> answer'.result, from |-> answer'.from]
    BY <2>1, <2>4
  <2>6. Performed(Current, answer'.result)
    BY <1>0, <1>1, <2>5 DEF ConversationOK, AnswerOK
  <2>7. Keeps
    BY <1>0, <1>1, <2>1, <2>3, <2>5, <2>6, SameEntries DEF Keeps
  <2> QED
    BY <2>7, KeepsKept
<1>2. CASE answer.status \notin {"executed", "duplicate"}
  <2>1. /\ answer' = NoAnswer /\ GiveUp(answer.status)
        /\ UNCHANGED <<plog, prov>>
    BY <1>2 DEF ProviderReplies
  <2>2. Hears
    BY <1>0, <2>1, GivesUp DEF Hears, Talking
  <2> QED
    BY <2>2, HearsIsOver, TalkOverKept
<1> QED
  BY <1>1, <1>2

LEMMA CommitTalk ==
    ASSUME PositionOK, FilesOK, ConversationOK, JournalCommit
    PROVE  ConversationOK'
<1> USE DEF position, files, bookkeeping
<1>1. /\ pc = "replied" /\ pc' = "committed" /\ oplog' = Append(oplog, CommitLine)
      /\ UNCHANGED <<route, at, host, seen, plog, prov, answer>>
  BY DEF JournalCommit, Write, providerVars
<1>2. Op' = Op
  BY <1>1 DEF Op
<1>3. Current' = Current
  BY <1>1, <1>2 DEF Current, Key, Request
<1>4. /\ answer.status \in {"executed", "duplicate"} /\ answer.from = NoProvider
      /\ Performed(Current, answer.result)
  BY <1>1 DEF ConversationOK, AnswerOK
<1>5. answer # NoAnswer
  <2>1. NoAnswer.status = "none"
    BY DEF NoAnswer
  <2> QED
    BY <1>4, <2>1
<1>6. answer = [status |-> answer.status, result |-> answer.result, from |-> answer.from]
      /\ \A q \in Providers : \A i : ~IsOpen(q, i)
  BY <1>5, AnsweredMeansClosed DEF ConversationOK, AnswerOK
<1>7. Bound(CommitLine) \in Bounds
  <2>1. Bound(CommitLine) = [key |-> Current.key, name |-> Current.name,
                             request |-> Current.request, result |-> answer.result]
    BY LinesAre, Zenon DEF Bound
  <2> QED
    BY <1>4, <2>1 DEF Performed
<1>8. Entries("commit")' = Entries("commit") \cup {CommitLine} /\ Entries("intent")' = Entries("intent")
  BY <1>1, EntriesGrow, LinesAre
<1>9. Keeps
  BY <1>1, <1>3, <1>4, <1>6, <1>7, <1>8 DEF Keeps
<1> QED
  BY <1>9, KeepsKept

LEMMA StopTalk ==
    ASSUME FilesOK, ProviderOK, ConversationOK, StopProvider
    PROVE  ConversationOK'
<1> USE DEF position, files, bookkeeping
<1>0. pc = "stop" /\ answer = NoAnswer /\ \A q \in Providers : \A i : ~IsOpen(q, i)
  BY NobodyTalks DEF StopProvider, Talking
<1>00. oplog' = oplog
  BY DEF StopProvider
<1>1. CASE ~Connectable
  <2>1. UNCHANGED <<plog, prov, answer>> /\ pc' = "seal"
    BY <1>1 DEF StopProvider, providerVars
  <2>2. Hears
    BY <1>0, <1>00, <2>1 DEF Hears, Talking, NoCommit
  <2> QED
    BY <2>2, HearsIsOver, TalkOverKept
<1>2. CASE Connectable
  <2>1. Send(ShutdownCall(TRUE)) /\ pc' = "stopping"
    BY <1>2, Zenon DEF StopProvider, ShutdownCall
  <2>2. sock \in Providers /\ Sent(sock, ShutdownCall(TRUE))
    BY <2>1, SendIs DEF ProviderOK
  <2> DEFINE B == prov[sock].backlog
             call == ShutdownCall(TRUE)
  <2>5. Longer(B, call, Append(B, call))
    BY <2>2, AppendIs, ProcessIs DEF ProviderOK
  <2>6. prov'[sock].backlog = Append(B, call) /\ Only(sock)
    <3> DEFINE T == Append(B, call)
    <3>1. Becomes(sock, Process(prov[sock].st, prov[sock].executed, prov[sock].consumed,
                                prov[sock].seq, T))
      BY <2>2 DEF Sent
    <3> HIDE DEF T
    <3>2. prov'[sock].backlog = T /\ Only(sock)
      BY <2>2, <3>1, BecomesIs DEF ProviderOK
    <3> QED
      BY <3>2 DEF T
  <2>7. UNCHANGED <<plog, answer>>
    BY <2>2 DEF Sent
  <2>8. call.op = "shutdown"
    BY CallsAre
  <2> HIDE DEF B, call
  <2>9. ASSUME NEW q \in Providers, NEW i \in DOMAIN prov'[q].backlog
        PROVE  \/ i \in DOMAIN prov[q].backlog /\ prov'[q].backlog[i] = prov[q].backlog[i]
               \/ q = sock /\ i = Len(B) + 1 /\ prov'[q].backlog[i] = call
    BY <2>5, <2>6 DEF Longer, Only, B
  <2>10. ASSUME NEW q \in Providers, NEW i, IsOpen(q, i)'
         PROVE  q = sock /\ i = Len(B) + 1 /\ prov'[q].backlog[i] = call
    BY <1>0, <2>9, <2>10 DEF IsOpen
  <2>11. CallsOK'
    BY <1>0, <2>1, <2>7, <2>8, <2>10 DEF CallsOK
  <2>12. AnswerOK'
    <3>1. NoAnswer.status = "none"
      BY DEF NoAnswer
    <3> QED
      BY <1>0, <2>1, <2>7, <3>1 DEF AnswerOK
  <2>13. Executions' = Executions /\ Bounds' = Bounds /\ plog' = plog
         /\ \A kind : Entries(kind)' = Entries(kind)
    BY <1>00, <2>7, SameLog, SameEntries DEF Bounds
  <2>14. AheadOK'
    <3>1. ASSUME NEW q \in Providers, NEW i \in DOMAIN prov'[q].backlog,
                 prov'[q].backlog[i].op = "effect"
          PROVE  IntendedBy(prov'[q].backlog[i], Entries("intent")')
      BY <2>8, <2>9, <2>13, <3>1 DEF ConversationOK, AheadOK, Intended
    <3>2. \A i \in Executions' : IntendedBy(plog'[i], Entries("intent")')
      BY <2>13 DEF ConversationOK, AheadOK, Intended
    <3> QED
      BY <2>1, <3>1, <3>2 DEF AheadOK, Intended
  <2>15. CommitsWereExecuted'
    <3>1. \A c \in Entries("commit")' : Bound(c) \in Bounds'
      BY <2>13, CommitsAre DEF ConversationOK
    <3> QED
      BY <3>1 DEF CommitsWereExecuted, Bounds
  <2> QED
    BY <2>11, <2>12, <2>14, <2>15 DEF ConversationOK
<1> QED
  BY <1>1, <1>2

LEMMA ExecutorTalk ==
    ASSUME ExecutorStep, PositionOK, FilesOK, ProviderOK, ConversationOK
    PROVE  ConversationOK'
<1> USE DEF position, files, bookkeeping, providerVars
<1>0. UNCHANGED <<plog, prov, answer>> =>
        UNCHANGED <<plog, answer>> /\ \A q \in Providers : prov'[q].backlog = prov[q].backlog
  OBVIOUS
<1> DEFINE Quietly == UNCHANGED <<plog, prov, answer>>
<1>s. ASSUME Quietly, NoCommit, pc \notin Talking, pc' \notin Talking,
             pc' = "intended" => Intended(Current)'
      PROVE  ConversationOK'
  BY <1>s, <1>0, SilentIsOver, TalkOverKept DEF Silent
<1>t. "op" \notin Talking /\ "down" \notin Talking /\ "next" \notin Talking
  BY DEF Talking
<1>1. CASE WriteRunState
  BY <1>1, <1>s DEF WriteRunState, Talking, NoCommit
<1>2. CASE Ensure
  <2>1. Quietly /\ pc = "ensure"
    BY <1>2 DEF Ensure
  <2>2. NoCommit /\ pc' \in {"op", "spawn"}
    BY <1>2, BeginWrites DEF Ensure, NoCommit
  <2> QED
    BY <2>1, <2>2, <1>s DEF Talking
<1>3. CASE EnsureSpawns
  <2>1. PICK p \in Providers : Spawn(p)
    BY <1>3 DEF EnsureSpawns
  <2>2. prov' = [prov EXCEPT ![p].st = "starting"] /\ UNCHANGED <<plog, answer>>
    BY <2>1 DEF Spawn
  <2>3. prov[p] = Process(prov[p].st, prov[p].executed, prov[p].consumed, prov[p].seq, prov[p].backlog)
        /\ DOMAIN prov = Providers
    BY ProcessIs DEF ProviderOK, ProcessesOK
  <2>4. \A q \in Providers : prov'[q].backlog = prov[q].backlog
    BY <2>2, <2>3 DEF Process
  <2>5. Silent
    BY <1>3, <2>2, <2>4 DEF EnsureSpawns, Silent, Talking, NoCommit
  <2> QED
    BY <2>5, SilentIsOver, TalkOverKept
<1>4. CASE EnsureSucceeds
  <2>1. Quietly /\ pc = "wait" /\ NoCommit /\ pc' = "op"
    BY <1>4, BeginWrites DEF EnsureSucceeds
  <2> QED
    BY <2>1, <1>s DEF Talking
<1>5. CASE EnsureTimesOut
  <2>1. Quietly /\ pc = "wait" /\ NoCommit /\ pc' = "down"
    BY <1>5, GivesUp DEF EnsureTimesOut
  <2> QED
    BY <2>1, <1>s DEF Talking
<1>6. CASE AskEffect
  <2> DEFINE line == [kind |-> "request", route |-> route, key |-> Key(host), name |-> Op.name,
                      request |-> Request]
  <2>1. line.kind # "commit"
    OBVIOUS
  <2>2. Write(line) /\ pc = "op" /\ pc' = "asked" /\ Quietly
    BY <1>6 DEF AskEffect, Reaches
  <2> HIDE DEF line
  <2> QED
    BY <2>1, <2>2, <1>s, WriteIs DEF Talking
<1>7. CASE FromJournal
  <2>1. PICK c \in CommitsOf(Current.key) :
            IF Matches(c)
            THEN DeliverResult(c.result, "journal")
            ELSE GiveUp("journal mismatch") /\ UNCHANGED <<faults, providerVars>>
    BY <1>7 DEF FromJournal
  <2>2. pc = "asked"
    BY <1>7 DEF FromJournal
  <2>3. CASE Matches(c)
    <3>1. Write(ResultLine(c.result, "journal")) /\ pc' = "op" /\ Quietly
      BY <2>1, <2>3 DEF DeliverResult
    <3> QED
      BY <2>2, <3>1, <1>s, WriteIs, LinesAre DEF Talking
  <2>4. CASE ~Matches(c)
    BY <2>1, <2>2, <2>4, <1>s, GivesUp DEF Talking
  <2> QED
    BY <2>3, <2>4
<1>8. CASE JournalIntent
  <2>1. pc = "asked" /\ Quietly
    BY <1>8 DEF JournalIntent
  <2>2. CASE Op.mode = "record"
    <3>1. /\ oplog' = Append(oplog, EffectLine("intent")) /\ pc' = "intended"
          /\ UNCHANGED <<route, at, host, seen>>
      BY <1>8, <2>2 DEF JournalIntent, Write
    <3>2. Op' = Op
      BY <3>1 DEF Op
    <3>3. Current' = Current
      BY <3>1, <3>2 DEF Current, Key, Request
    <3>4. EffectLine("intent") \in Entries("intent")'
      BY <3>1, EntriesGrow, LinesAre
    <3>5. Intended(Current)'
      BY <3>3, <3>4, LinesAre DEF Intended, IntendedBy
    <3>6. NoCommit
      BY <3>1, LinesAre DEF NoCommit
    <3> QED
      BY <2>1, <3>1, <3>5, <3>6, <1>s DEF Talking
  <2>3. CASE Op.mode # "record"
    <3>1. GiveUp("missing committed effect")
      BY <1>8, <2>3 DEF JournalIntent
    <3> QED
      BY <2>1, <3>1, <1>s, GivesUp DEF Talking
  <2> QED
    BY <2>2, <2>3
<1>9. CASE Reissue
  <2>1. PICK i \in DanglingOf(Current.key) :
          IF Op.mode = "record" /\ Matches(i)
          THEN /\ Write(EffectLine("reissue"))
               /\ pc' = "intended"
               /\ UNCHANGED <<position, bookkeeping>>
          ELSE /\ GiveUp(IF Op.mode = "record" THEN "reissue differs"
                         ELSE "missing committed effect")
               /\ UNCHANGED faults
    BY <1>9 DEF Reissue
  <2>2. pc = "asked" /\ Quietly
    BY <1>9 DEF Reissue
  <2>3. CASE Op.mode = "record" /\ Matches(i)
    <3>1. Write(EffectLine("reissue")) /\ pc' = "intended" /\ UNCHANGED <<route, at, host, seen>>
      BY <2>1, <2>3
    <3>2. Op' = Op
      BY <3>1 DEF Op
    <3>3. Current' = Current
      BY <3>1, <3>2 DEF Current, Key, Request
    <3>4. NoCommit
      BY <3>1, WriteIs, LinesAre
    <3>5. i \in Entries("intent") /\ i.key = Current.key /\ i.name = Current.name
          /\ i.request = Current.request
      BY <2>3 DEF DanglingOf, Matches, Current
    <3>6. i \in Entries("intent")'
      BY <3>4, <3>5, NoCommitEntries
    <3>7. Intended(Current)'
      BY <3>3, <3>5, <3>6 DEF Intended, IntendedBy
    <3> QED
      BY <2>2, <3>1, <3>4, <3>7, <1>s DEF Talking
  <2>4. CASE ~(Op.mode = "record" /\ Matches(i))
    BY <2>1, <2>2, <2>4, <1>s, GivesUp DEF Talking
  <2> QED
    BY <2>3, <2>4
<1>10. CASE CallProvider
  BY <1>10, CallTalk
<1>11. CASE ProviderReplies
  BY <1>11, RepliesTalk
<1>12. CASE ProviderHangsUp
  <2>1. GiveUp("provider hung up") /\ Dropped /\ Quietly
    BY <1>12 DEF ProviderHangsUp
  <2>2. Hears
    BY <2>1, DroppedMeansClosed, GivesUp DEF Hears, Talking
  <2> QED
    BY <2>2, HearsIsOver, TalkOverKept
<1>13. CASE JournalCommit
  BY <1>13, CommitTalk
<1>14. CASE DeliverFromProvider
  <2>1. /\ pc = "committed" /\ pc' = "op" /\ answer' = NoAnswer /\ UNCHANGED <<plog, prov>>
        /\ Write(ResultLine(answer.result, "provider"))
    BY <1>14 DEF DeliverFromProvider
  <2>2. answer # NoAnswer
    <3>1. NoAnswer.status = "none"
      BY DEF NoAnswer
    <3> QED
      BY <2>1, <3>1 DEF ConversationOK, AnswerOK
  <2>3. Hears
    BY <2>1, <2>2, AnsweredMeansClosed, WriteIs, LinesAre DEF Hears, Talking
  <2> QED
    BY <2>3, HearsIsOver, TalkOverKept
<1>15. CASE FinishEvent
  <2> DEFINE line == [kind |-> "invocation", route |-> route, event |-> host.event,
                      branch |-> Op.branch, state |-> seen]
  <2>1. line.kind # "commit"
    OBVIOUS
  <2>2. Write(line) /\ pc = "op" /\ pc' = "op" /\ Quietly
    BY <1>15 DEF FinishEvent, Reaches
  <2> HIDE DEF line
  <2> QED
    BY <2>1, <2>2, <1>s, WriteIs DEF Talking
<1>16. CASE TakeCheckpoint
  <2>1. Write(StateLine("checkpoint")) /\ pc = "op" /\ pc' = "op" /\ Quietly
    BY <1>16 DEF TakeCheckpoint, Reaches
  <2> QED
    BY <2>1, <1>s, WriteIs, LinesAre DEF Talking
<1>17. CASE ExitRoute
  <2>1. Write(StateLine("exit")) /\ pc = "op" /\ pc' \in {"publish", "next"} /\ Quietly
    BY <1>17 DEF ExitRoute, Reaches
  <2> QED
    BY <2>1, <1>s, WriteIs, LinesAre DEF Talking
<1>18. CASE PublishCheckpoint
  <2>1. Quietly /\ pc = "publish" /\ NoCommit /\ pc' \in {"next", "down"}
    BY <1>18, GivesUp DEF PublishCheckpoint, NoCommit
  <2> QED
    BY <2>1, <1>s DEF Talking
<1>19. CASE NextRoute
  <2>1. Quietly /\ pc = "next" /\ NoCommit /\ pc' \in {"op", "stop"}
    BY <1>19, BeginWrites DEF NextRoute, NoCommit
  <2> QED
    BY <2>1, <1>s DEF Talking
<1>20. CASE StopProvider
  BY <1>20, StopTalk
<1>21. CASE ProviderStopped
  <2>1. \A q \in Providers : \A i : ~IsOpen(q, i)
    BY <1>21, AnsweredMeansClosed, DroppedMeansClosed DEF ProviderStopped
  <2>2. Hears
    BY <1>21, <2>1 DEF ProviderStopped, Hears, Talking, NoCommit
  <2> QED
    BY <2>2, HearsIsOver, TalkOverKept
<1>22. CASE Seal
  <2>1. Quietly /\ pc = "seal" /\ NoCommit /\ pc' \in {"report", "down"}
    BY <1>22, GivesUp DEF Seal, NoCommit
  <2> QED
    BY <2>1, <1>s DEF Talking
<1>23. CASE Report
  BY <1>23, <1>s DEF Report, Talking, NoCommit
<1> QED
  BY <1>1, <1>2, <1>3, <1>4, <1>5, <1>6, <1>7, <1>8, <1>9, <1>10, <1>11, <1>12, <1>13, <1>14,
     <1>15, <1>16, <1>17, <1>18, <1>19, <1>20, <1>21, <1>22, <1>23 DEF ExecutorStep

LEMMA ConversationKept ==
    ASSUME [Next]_vars, PositionOK, FilesOK, ProviderOK, ConversationOK
    PROVE  ConversationOK'
<1> USE DEF position, files, bookkeeping, providerVars, executorVars
<1>1. CASE Start \/ Resume
  <2> DEFINE line == [kind |-> "resume", route |-> 1]
  <2>1. line.kind # "commit"
    OBVIOUS
  <2> HIDE DEF line
  <2>2. NoCommit
    BY <1>1, <2>1 DEF Start, Resume, NoCommit, line
  <2>3. pc = "down" /\ pc' = "opened" /\ UNCHANGED <<plog, prov, answer>>
    BY <1>1 DEF Start, Resume
  <2>4. Silent
    BY <2>2, <2>3 DEF Silent, Talking
  <2> QED
    BY <2>4, SilentIsOver, TalkOverKept
<1>2. CASE UNCHANGED vars
  <2>1. ExecutorSame /\ LogSame /\ Fewer /\ answer' = answer
    BY <1>2, SameExecutor, SameLogSame DEF vars, Fewer
  <2> QED
    BY <2>1, QuietTalk
<1> QED
  BY <1>1, <1>2, ExecutorTalk, DeathTalk, ProcessTalk DEF Next

-----------------------------------------------------------------------------
\* The theorems.

IInv == PositionOK /\ FilesOK /\ ProviderOK /\ ConversationOK

LEMMA InitHolds ==
    ASSUME Init
    PROVE  IInv
<1> USE DEF Init, ProviderInit
<1>1. PositionOK
  <2>1. RouteOK(Program[1])
    BY Constants, RoutesAre
  <2>2. 1 \in 1 .. Len(Program[1])
    BY <2>1 DEF RouteOK
  <2> QED
    BY <2>2, Constants DEF PositionOK, Places, InEffect, Start0
<1>2. FilesOK
  <2>1. IsSeq(oplog) /\ Len(oplog) = 0
    BY EmptyIs
  <2>2. /\ resumedAt \in 0 .. Len(oplog) /\ runs \in 0 .. MaxFaults + 1
        /\ faults \in 0 .. MaxFaults
    BY <2>1, Constants
  <2>3. torn \in BOOLEAN /\ ~torn /\ pc = "down" /\ runState = "none"
    OBVIOUS
  <2> QED
    BY <2>1, <2>2, <2>3 DEF FilesOK
<1>3. DOMAIN plog = {} /\ Executions = {}
  BY EmptyIs DEF Executions
<1>4. \A p \in Providers : prov[p] = Off /\ IsProcess(prov[p]) /\ prov[p].st = "off"
                            /\ DOMAIN prov[p].backlog = {}
  <2>1. IsProcess(Off) /\ Off.st = "off" /\ Off.backlog = <<>>
    BY OffIs, EmptyIs DEF IsProcess, Off
  <2> QED
    BY <2>1, EmptyIs
<1>5. ProviderOK
  <2>1. ProcessesOK
    BY <1>3, <1>4, EmptyIs DEF ProcessesOK
  <2>2. MemoryOK
    BY <1>4 DEF MemoryOK, Knows
  <2>3. VerifiedMeansOnce
    BY <1>3 DEF VerifiedMeansOnce
  <2>4. AloneOK
    BY <1>3, <1>4 DEF AloneOK, Knows, LogIntact
  <2> QED
    BY <2>1, <2>2, <2>3, <2>4 DEF ProviderOK
<1>6. ConversationOK
  <2>1. AnswerOK
    <3>1. NoAnswer.status = "none"
      BY DEF NoAnswer
    <3> QED
      BY <3>1 DEF AnswerOK
  <2>2. CallsOK
    BY <1>4 DEF CallsOK, IsOpen
  <2>3. AheadOK
    BY <1>3, <1>4 DEF AheadOK
  <2>4. CommitsWereExecuted
    BY EmptyIs DEF CommitsWereExecuted, Entries
  <2> QED
    BY <2>1, <2>2, <2>3, <2>4 DEF ConversationOK
<1> QED
  BY <1>1, <1>2, <1>5, <1>6 DEF IInv

\* The executor, its files, the provider's log, what every provider process knows of it,
\* and the conversation between them, in every reachable state (Host::effect,
\* Server::handle).
THEOREM RunInvariant ==
    Spec => []IInv
<1>1. Init => IInv
  BY InitHolds
<1>2. IInv /\ [Next]_vars => IInv'
  BY ExecutorKept, ProviderKept, ConversationKept DEF IInv
<1> QED
  BY <1>1, <1>2, PTL DEF Spec

\* However often the executor and the provider are killed, in a log that verifies no
\* effect was performed twice, and the log verifies unless two provider processes were
\* alive at once (Server::handle, Server::open).
THEOREM OnceAlways ==
    Spec => []OnceUnlessOverlapped
<1>1. IInv => OnceUnlessOverlapped
  BY DEF IInv, ProviderOK, AloneOK, OnceUnlessOverlapped, IntactUnlessOverlapped
<1> QED
  BY <1>1, RunInvariant, PTL

\* The journal is written ahead of the provider, is never appended to behind a torn
\* line, and holds no commit that the provider did not perform (Host::effect,
\* OplogWriter::open).
THEOREM JournalAlways ==
    Spec => []JournalIsSound
<1>1. IInv => JournalIsSound
  <2> SUFFICES ASSUME IInv PROVE JournalIsSound
    OBVIOUS
  <2>1. TypeOK
    BY DEF IInv, PositionOK, FilesOK, ProviderOK, ProcessesOK, IsProcess, TypeOK, Cursors
  <2>2. WriteAheadIntent
    BY DEF IInv, ConversationOK, AheadOK, WriteAheadIntent, Intended, IntendedBy
  <2>3. NeverAppendsToTorn
    BY DEF IInv, FilesOK, NeverAppendsToTorn
  <2>4. CommitsWereExecuted
    BY DEF IInv, ConversationOK
  <2> QED
    BY <2>1, <2>2, <2>3, <2>4 DEF JournalIsSound
<1> QED
  BY <1>1, RunInvariant, PTL

-----------------------------------------------------------------------------
\* The operations of the routes.

ExitOp == [do |-> "exit"]
RouteOps == OpRecords \cup {ExitOp}

LEMMA SeqOfUnion ==
    ASSUME NEW S, NEW s \in Seq(S)
    PROVE  s \in Seq(S \cup {ExitOp}) /\ <<ExitOp>> \in Seq(S \cup {ExitOp})
<1> DEFINE T == S \cup {ExitOp}
<1>1. S \subseteq T /\ ExitOp \in T
  OBVIOUS
<1> HIDE DEF T
<1>2. s \in Seq(T) /\ <<ExitOp>> \in Seq(T)
  BY <1>1, SeqMonotonic
<1> QED
  BY <1>2 DEF T

LEMMA EndsInExit ==
    ASSUME NEW S, NEW s \in Seq(S)
    PROVE  s \o <<ExitOp>> \in Seq(S \cup {ExitOp})
<1> DEFINE T == S \cup {ExitOp}
<1>1. s \in Seq(T) /\ <<ExitOp>> \in Seq(T)
  BY SeqOfUnion
<1> HIDE DEF T
<1>2. s \o <<ExitOp>> \in Seq(T)
  BY <1>1, ConcatProperties
<1> QED
  BY <1>2 DEF T

\* What a route is made of. Only the parent's route and the fork record, each its own
\* branch, and the parent's route records every effect it asks for.
RouteSet(r) ==
    IF r = 1 THEN OpsOf("parent", "record")
    ELSE IF r = ForkRoute THEN OpsOf("parent", "replay") \cup OpsOf("fork", "record")
    ELSE OpsOf("parent", "replay")

LEMMA ProgramIs ==
    ASSUME NEW r \in 1 .. ForkRoute
    PROVE  Program[r] = IF r = 1 THEN Ops(ParentEvents, "parent", "record", CheckpointIndex) \o <<ExitOp>>
                   ELSE IF r <= Replays + 1 THEN Ops(ParentEvents, "parent", "replay", 0) \o <<ExitOp>>
                   ELSE IF r = Recovered
                   THEN Ops(SubSeq(ParentEvents, CheckpointIndex + 1, Len(ParentEvents)),
                            "parent", "replay", 0) \o <<ExitOp>>
                   ELSE (Ops(Prefix, "parent", "replay", 0) \o Ops(Fork, "fork", "record", 0))
                            \o <<ExitOp>>
<1>1. Program[r] =
          LET exit == <<[do |-> "exit"]>>
          IN  IF r = 1 THEN Ops(ParentEvents, "parent", "record", CheckpointIndex) \o exit
              ELSE IF r <= Replays + 1 THEN Ops(ParentEvents, "parent", "replay", 0) \o exit
              ELSE IF r = Recovered
              THEN Ops(SubSeq(ParentEvents, CheckpointIndex + 1, Len(ParentEvents)),
                       "parent", "replay", 0) \o exit
              ELSE Ops(Prefix, "parent", "replay", 0) \o Ops(Fork, "fork", "record", 0) \o exit
  BY Zenon DEF Program
<1> QED
  BY <1>1, Zenon DEF ExitOp

LEMMA RoutesMadeOf ==
    ASSUME NEW r \in 1 .. ForkRoute
    PROVE  Program[r] \in Seq(RouteSet(r) \cup {ExitOp})
<1> DEFINE tail == SubSeq(ParentEvents, CheckpointIndex + 1, Len(ParentEvents))
<1>1. /\ Prefix \in Seq(Seq(Names)) /\ Parent \in Seq(Seq(Names)) /\ Fork \in Seq(Seq(Names))
      /\ Replays \in Nat \ {0} /\ Recovered = Replays + 2 /\ ForkRoute = Replays + 3
  BY ScenarioAssumption DEF Recovered, ForkRoute
<1>2. ParentEvents \in Seq(Seq(Names)) /\ Len(ParentEvents) = Len(Prefix) + Len(Parent)
  BY <1>1, ConcatProperties DEF ParentEvents
<1>3. tail \in Seq(Seq(Names))
  <2>1. /\ CheckpointIndex \in Nat /\ Len(ParentEvents) \in Nat
        /\ CheckpointIndex <= Len(ParentEvents)
    BY <1>1, <1>2, ScenarioAssumption, LenProperties
  <2> QED
    BY <1>2, <2>1, SubSeqProperties
<1>4. Program[r] = IF r = 1 THEN Ops(ParentEvents, "parent", "record", CheckpointIndex) \o <<ExitOp>>
                   ELSE IF r <= Replays + 1 THEN Ops(ParentEvents, "parent", "replay", 0) \o <<ExitOp>>
                   ELSE IF r = Recovered THEN Ops(tail, "parent", "replay", 0) \o <<ExitOp>>
                   ELSE (Ops(Prefix, "parent", "replay", 0) \o Ops(Fork, "fork", "record", 0))
                            \o <<ExitOp>>
  BY ProgramIs
<1> HIDE DEF tail
<1>5. CASE r = 1
  <2>1. Ops(ParentEvents, "parent", "record", CheckpointIndex) \in Seq(RouteSet(1))
    BY <1>2, OpsAre DEF RouteSet
  <2> QED
    BY <1>4, <1>5, <2>1, EndsInExit
<1>6. CASE r # 1 /\ r <= Replays + 1
  <2>1. Ops(ParentEvents, "parent", "replay", 0) \in Seq(RouteSet(r))
    BY <1>1, <1>2, <1>6, OpsAre DEF RouteSet
  <2> QED
    BY <1>4, <1>6, <2>1, EndsInExit
<1>7. CASE r = Recovered
  <2>0. r # 1 /\ r # ForkRoute /\ ~(r <= Replays + 1)
    BY <1>1, <1>7
  <2>1. Ops(tail, "parent", "replay", 0) \in Seq(RouteSet(r))
    BY <1>3, <2>0, OpsAre DEF RouteSet
  <2> QED
    BY <1>4, <1>7, <2>0, <2>1, EndsInExit
<1>8. CASE r = ForkRoute
  <2>0. r # 1 /\ r # Recovered /\ ~(r <= Replays + 1)
    BY <1>1, <1>8
  <2> DEFINE A == OpsOf("parent", "replay")
             B == OpsOf("fork", "record")
             a == Ops(Prefix, "parent", "replay", 0)
             b == Ops(Fork, "fork", "record", 0)
             U == A \cup B
  <2>1. a \in Seq(A) /\ b \in Seq(B)
    BY <1>1, OpsAre
  <2>2. A \subseteq U /\ B \subseteq U /\ RouteSet(r) = U
    BY <2>0, <1>8 DEF RouteSet
  <2>3. Program[r] = (a \o b) \o <<ExitOp>>
    BY <1>4, <2>0
  <2> HIDE DEF A, B, U, a, b
  <2>4. a \in Seq(U) /\ b \in Seq(U)
    BY <2>1, <2>2, SeqMonotonic
  <2>5. a \o b \in Seq(U)
    BY <2>4, ConcatProperties
  <2> QED
    BY <2>2, <2>3, <2>5, EndsInExit
<1> QED
  BY <1>1, <1>5, <1>6, <1>7, <1>8

LEMMA RouteIsSeq ==
    ASSUME NEW r \in 1 .. ForkRoute
    PROVE  /\ Len(Program[r]) \in Nat \ {0} /\ Program[r] \in Seq(RouteOps)
           /\ Program[r][Len(Program[r])].do = "exit"
           /\ \A a \in 1 .. Len(Program[r]) : Program[r][a].do = "exit" => a = Len(Program[r])
<1>1. RouteSet(r) \cup {ExitOp} \subseteq RouteOps
  BY DEF RouteSet, OpsOf, RouteOps, OpRecords, Branches, Modes
<1>2. Program[r] \in Seq(RouteOps)
  BY <1>1, RoutesMadeOf, SeqMonotonic
<1> QED
  BY <1>2, RoutesAre DEF RouteOK

LEMMA WhoRecords ==
    ASSUME NEW r \in 1 .. ForkRoute, NEW a \in 1 .. Len(Program[r]), Program[r][a].do = "effect"
    PROVE  /\ Program[r][a].mode = "record" =>
                 \/ r = 1 /\ Program[r][a].branch = "parent"
                 \/ r = ForkRoute /\ Program[r][a].branch = "fork"
           /\ r = 1 => Program[r][a].mode = "record" /\ Program[r][a].branch = "parent"
<1> DEFINE S == RouteSet(r) \cup {ExitOp}
<1>1. Program[r][a] \in S
  <2>1. Program[r] \in Seq(S)
    BY RoutesMadeOf
  <2> HIDE DEF S
  <2> QED
    BY <2>1, LenProperties
<1>2. Program[r][a] \in RouteSet(r)
  BY <1>1 DEF ExitOp
<1>3. \A b, m : \A o \in OpsOf(b, m) : o.do = "effect" => o.branch = b /\ o.mode = m
  BY DEF OpsOf
<1>4. \A x \in RouteSet(r) : x.do = "effect" =>
         IF r = 1 THEN x.branch = "parent" /\ x.mode = "record"
         ELSE x.mode = "replay" \/ (r = ForkRoute /\ x.branch = "fork")
  BY <1>3 DEF RouteSet
<1>5. ForkRoute # 1
  BY Constants
<1> QED
  BY <1>2, <1>4, <1>5

-----------------------------------------------------------------------------
\* Counting the operations a route has behind it.

Passed(r, a, d) == {j \in 1 .. a - 1 : Program[r][j].do = d}
Count(r, a, d)  == Cardinality(Passed(r, a, d))

LEMMA CountStarts == \A r, d : Count(r, 1, d) = 0
<1>1. \A r, d : Passed(r, 1, d) = {}
  BY DEF Passed
<1> QED
  BY <1>1, FS_EmptySet DEF Count

LEMMA PassedIs ==
    ASSUME NEW r, NEW d, NEW a \in Nat
    PROVE  IsFiniteSet(Passed(r, a, d)) /\ Count(r, a, d) \in Nat
<1>1. IsFiniteSet(1 .. a - 1)
  BY FS_Interval
<1>2. IsFiniteSet(Passed(r, a, d))
  BY <1>1, FS_Subset DEF Passed
<1> QED
  BY <1>2, FS_CardinalityType DEF Count

LEMMA CountNext ==
    ASSUME NEW r, NEW d, NEW a \in Nat \ {0}
    PROVE  Count(r, a + 1, d) = Count(r, a, d) + (IF Program[r][a].do = d THEN 1 ELSE 0)
<1>1. IsFiniteSet(Passed(r, a, d)) /\ Count(r, a, d) \in Nat /\ a \notin Passed(r, a, d)
  <2>1. a \notin Passed(r, a, d)
    BY DEF Passed
  <2> QED
    BY <2>1, PassedIs
<1>2. CASE Program[r][a].do = d
  <2>1. Passed(r, a + 1, d) = Passed(r, a, d) \cup {a}
    BY <1>2 DEF Passed
  <2> QED
    BY <1>1, <1>2, <2>1, FS_AddElement DEF Count
<1>3. CASE Program[r][a].do # d
  <2>1. Passed(r, a + 1, d) = Passed(r, a, d)
    BY <1>3 DEF Passed
  <2> QED
    BY <1>1, <1>3, <2>1 DEF Count
<1> QED
  BY <1>2, <1>3

LEMMA CountGrows ==
    ASSUME NEW r, NEW d, NEW a \in Nat \ {0}, NEW b \in Nat, a < b, Program[r][a].do = d
    PROVE  Count(r, a, d) < Count(r, b, d)
<1>1. Passed(r, a + 1, d) \subseteq Passed(r, b, d)
  BY DEF Passed
<1>2. IsFiniteSet(Passed(r, b, d)) /\ Count(r, b, d) \in Nat /\ Count(r, a, d) \in Nat
  BY PassedIs
<1>3. Count(r, a + 1, d) <= Count(r, b, d)
  BY <1>1, <1>2, FS_Subset DEF Count
<1>4. Count(r, a + 1, d) = Count(r, a, d) + 1
  BY CountNext
<1> QED
  BY <1>2, <1>3, <1>4

-----------------------------------------------------------------------------
\* The order of the journal.

\* The key of the effect at an operation of a route that starts at the beginning.
KeyAt(r, a) == [branch |-> Program[r][a].branch, event |-> Count(r, a, "invoke"),
                effect |-> Count(r, a, "effect")]

Records(r, a) ==
    /\ r \in {1, ForkRoute} /\ a \in 1 .. Len(Program[r])
    /\ Program[r][a].do = "effect" /\ Program[r][a].mode = "record"

\* The recorded keys that a route has behind it: its own, and before the fork the parent's.
IsBehind(k, r, a) ==
    \E q, b : /\ Records(q, b) /\ k = KeyAt(q, b)
              /\ (q = r /\ b < a) \/ (q = 1 /\ r > 1)

\* A set of entries has one for the key.
Has(E, k) == \E e \in E : e.key = k

Ending  == {"publish", "next", "stop", "stopping", "seal", "report", "done"}
Home    == {"down", "opened", "ensure", "spawn", "wait"}
Asking  == {"intended", "calling", "replied"}

\* An executor at home has not begun, and one that ends a route is at its exit; the host's
\* cursors count what the route has behind it. The recovered route goes on from others.
PlaceOK ==
    /\ pc \in Home => route = 1 /\ at = 1 /\ saved = NoCheckpoint /\ seen = <<>> /\ host = Start0
    /\ pc \in Ending => Op.do = "exit"
    /\ route # Recovered =>
          host = [event  |-> Count(route, at, "invoke"),
                  effect |-> Count(route, at, "effect") + (IF pc \in InEffect THEN 1 ELSE 0)]

\* Entries are of effects that are recorded; what was intended has only committed effects
\* behind it, and an effect has one result.
MarkedIn(I, C) == \A e \in I \cup C : \E r, a : Records(r, a) /\ e.key = KeyAt(r, a)

InOrder(I, C) ==
    \A e \in I : \A r, a : Records(r, a) /\ e.key = KeyAt(r, a) =>
        \A k : IsBehind(k, r, a) => Has(C, k)

OneResult(C) == \A c, d \in C : c.key = d.key => c.result = d.result

JournalOK(I, C) == MarkedIn(I, C) /\ InOrder(I, C) /\ OneResult(C)

\* What the executor has behind it is committed, what it asks for is intended and not
\* committed, and what it is about to deliver is what was committed.
ProgressOK(I, C) ==
    /\ \A k : IsBehind(k, route, at) => Has(C, k)
    /\ pc \in Asking => Op.mode = "record" /\ ~Has(C, Current.key) /\ Has(I, Current.key)
    /\ pc = "committed" => \E c \in C : c.key = Current.key /\ c.result = answer.result

Intents == Entries("intent")
Commits == Entries("commit")

OrderOK == PlaceOK /\ JournalOK(Intents, Commits) /\ ProgressOK(Intents, Commits)

LEMMA HasIs ==
    ASSUME NEW k
    PROVE  /\ CommitsOf(k) = {} <=> ~Has(Commits, k)
           /\ ~Has(Commits, k) => (DanglingOf(k) = {} <=> ~Has(Intents, k))
           /\ Has(Commits, k) => DanglingOf(k) = {}
           /\ DanglingOf(k) # {} => Has(Intents, k)
  BY DEF CommitsOf, DanglingOf, Has, Commits, Intents

LEMMA KeysDiffer ==
    ASSUME NEW r, NEW a, NEW q, NEW b, Records(r, a), Records(q, b),
           KeyAt(r, a).branch = KeyAt(q, b).branch,
           KeyAt(r, a).effect = KeyAt(q, b).effect
    PROVE  r = q /\ a = b
<1>1. 1 \in 1 .. ForkRoute /\ ForkRoute \in 1 .. ForkRoute /\ ForkRoute # 1
  BY Constants
<1>2. r \in 1 .. ForkRoute /\ q \in 1 .. ForkRoute /\ r \in {1, ForkRoute} /\ q \in {1, ForkRoute}
  BY <1>1 DEF Records
<1>3. Program[r][a].branch = Program[q][b].branch /\ Count(r, a, "effect") = Count(q, b, "effect")
  BY DEF KeyAt
<1>4. /\ (r = 1 /\ Program[r][a].branch = "parent") \/ (r = ForkRoute /\ Program[r][a].branch = "fork")
      /\ (q = 1 /\ Program[q][b].branch = "parent") \/ (q = ForkRoute /\ Program[q][b].branch = "fork")
  BY <1>2, WhoRecords DEF Records
<1>5. r = q
  BY <1>1, <1>3, <1>4
<1>6. a \in Nat \ {0} /\ b \in Nat \ {0} /\ Program[r][a].do = "effect" /\ Program[q][b].do = "effect"
  <2>1. Len(Program[r]) \in Nat /\ Len(Program[q]) \in Nat
    BY <1>2, RouteIsSeq
  <2> QED
    BY <2>1 DEF Records
<1>7. ~(a < b) /\ ~(b < a)
  <2>1. Count(r, a, "effect") \in Nat /\ Count(r, b, "effect") \in Nat
    BY <1>6, PassedIs
  <2>2. a < b => Count(r, a, "effect") < Count(r, b, "effect")
    BY <1>6, CountGrows
  <2>3. b < a => Count(q, b, "effect") < Count(q, a, "effect")
    BY <1>6, CountGrows
  <2> QED
    BY <1>3, <1>5, <2>1, <2>2, <2>3
<1> QED
  BY <1>5, <1>6, <1>7

LEMMA Here ==
    ASSUME PositionOK
    PROVE  /\ route \in 1 .. ForkRoute /\ at \in 1 .. Len(Program[route]) /\ at \in Nat \ {0}
           /\ Len(Program[route]) \in Nat /\ Op = Program[route][at]
           /\ pc \in InEffect => Op.do = "effect"
           /\ Op.do = "exit" => at = Len(Program[route])
<1>1. route \in 1 .. ForkRoute /\ at \in 1 .. Len(Program[route])
  BY DEF PositionOK
<1>2. Len(Program[route]) \in Nat /\ (Program[route][at].do = "exit" => at = Len(Program[route]))
  BY <1>1, RouteIsSeq
<1> QED
  BY <1>1, <1>2 DEF PositionOK, Op

LEMMA CurrentIs ==
    ASSUME PositionOK, PlaceOK, pc \in InEffect, route # Recovered
    PROVE  Current.key = KeyAt(route, at)
<1>1. host = [event |-> Count(route, at, "invoke"), effect |-> Count(route, at, "effect") + 1]
  BY DEF PlaceOK
<1>2. Count(route, at, "effect") \in Nat
  BY Here, PassedIs
<1>3. [host EXCEPT !.effect = @ - 1] = [event  |-> Count(route, at, "invoke"),
                                        effect |-> Count(route, at, "effect")]
  BY <1>1, <1>2
<1>4. Current.key = Key([host EXCEPT !.effect = @ - 1])
  BY DEF Current
<1> QED
  BY <1>3, <1>4 DEF Key, KeyAt, Op

LEMMA RecordsHere ==
    ASSUME PositionOK, pc \in InEffect, Op.mode = "record"
    PROVE  Records(route, at) /\ route # Recovered
<1>1. route = 1 \/ route = ForkRoute
  BY Here, WhoRecords
<1>2. Recovered # 1 /\ Recovered # ForkRoute
  BY Constants DEF Recovered
<1> QED
  BY <1>1, <1>2, Here DEF Records

-----------------------------------------------------------------------------
\* What a step does to the order of the journal.

\* The journal stays, or grows by an entry of no account here, of this route or the first.
PlainLine(r) ==
    \/ oplog' = oplog
    \/ \E e : oplog' = Append(oplog, e) /\ e.kind \notin {"intent", "commit"} /\ e.route \in {1, r}

SamePlace == UNCHANGED <<route, at, host, seen, saved, published>>

Waits ==
    /\ PlainLine(route) /\ SamePlace
    /\ pc' \in InEffect <=> pc \in InEffect
    /\ pc' \in Home => pc \in Home
    /\ pc' \in Ending => pc \in Ending \/ Op.do = "exit"
    /\ pc' \in Ending \ {"publish"} => pc \in Ending \ {"publish"} \/ route # 1
    /\ pc' = "publish" => pc = "publish" \/ route = 1
    /\ pc' \in Asking =>
          \/ pc \in Asking
          \/ Op.mode = "record" /\ ~Has(Commits, Current.key) /\ Has(Intents, Current.key)
    /\ pc' = "committed" => pc = "committed" /\ answer' = answer

GoesHome ==
    /\ pc' = "down" /\ route' = 1 /\ at' = 1 /\ host' = Start0 /\ seen' = <<>>
    /\ saved' = NoCheckpoint /\ UNCHANGED <<oplog, published>>

BeginsRoute(r) ==
    /\ (r = 1 /\ pc \in Home) \/ (r = route + 1 /\ r <= ForkRoute /\ pc = "next")
    /\ Begin(r) /\ UNCHANGED <<saved, published>>

Asks ==
    /\ pc = "op" /\ Op.do = "effect" /\ pc' = "asked"
    /\ host' = [host EXCEPT !.effect = @ + 1]
    /\ PlainLine(route) /\ UNCHANGED <<route, at, seen, saved, published>>

Delivers(c) ==
    /\ c \in Commits /\ c.key = Current.key /\ pc \in {"asked", "committed"} /\ pc' = "op"
    /\ at' = at + 1 /\ seen' = Append(seen, c.result)
    /\ PlainLine(route) /\ UNCHANGED <<route, host, saved, published>>

Intends ==
    /\ pc = "asked" /\ pc' = "intended" /\ Op.mode = "record"
    /\ ~Has(Commits, Current.key) /\ ~Has(Intents, Current.key)
    /\ oplog' = Append(oplog, EffectLine("intent")) /\ SamePlace

CommitsIt ==
    /\ pc = "replied" /\ pc' = "committed"
    /\ oplog' = Append(oplog, CommitLine) /\ SamePlace /\ answer' = answer

Finishes ==
    /\ pc = "op" /\ Op.do = "invoke" /\ pc' = "op"
    /\ host' = [host EXCEPT !.event = @ + 1] /\ at' = at + 1
    /\ PlainLine(route) /\ UNCHANGED <<route, seen, saved, published>>

Snaps ==
    /\ pc = "op" /\ Op.do = "checkpoint" /\ pc' = "op"
    /\ saved' = [host |-> host, seen |-> seen] /\ at' = at + 1
    /\ PlainLine(route) /\ UNCHANGED <<route, host, seen, published>>

Publishes ==
    /\ pc = "publish" /\ pc' = "next" /\ saved # NoCheckpoint /\ published' = saved
    /\ UNCHANGED <<oplog, route, at, host, seen, saved>>

Moves ==
    \/ Waits \/ GoesHome \/ (\E r : BeginsRoute(r)) \/ Asks \/ (\E c : Delivers(c))
    \/ Intends \/ CommitsIt \/ Finishes \/ Snaps \/ Publishes

LEMMA GivesUpGoesHome ==
    ASSUME NEW why, GiveUp(why)
    PROVE  GoesHome
  BY DEF GiveUp, GoesHome, files, Start0

LEMMA PlainWrites ==
    ASSUME NEW line, Write(line), line.kind \notin {"intent", "commit"}, line.route \in {1, route}
    PROVE  PlainLine(route)
  BY DEF Write, PlainLine

LEMMA LineRoutes ==
    /\ \A kind : EffectLine(kind).route = route /\ StateLine(kind).route = route
    /\ \A result, source : ResultLine(result, source).route = route
  BY DEF EffectLine, StateLine, ResultLine

LEMMA ExecutorMoves ==
    ASSUME ExecutorStep, PositionOK, OrderOK
    PROVE  Moves
<1> USE DEF position, files, bookkeeping
<1>a. /\ SamePlace <=> UNCHANGED <<route, at, host, seen, saved, published>>
      /\ oplog' = oplog => PlainLine(route)
  BY DEF SamePlace, PlainLine
<1>1. CASE WriteRunState
  BY <1>1, <1>a DEF WriteRunState, Moves, Waits, Home, InEffect, Ending, Asking
<1>2. CASE Ensure
  <2>1. CASE Connectable
    <3>1. BeginsRoute(1)
      BY <1>2, <2>1 DEF Ensure, BeginsRoute, Home
    <3> QED
      BY <3>1 DEF Moves
  <2>2. CASE ~Connectable
    BY <1>2, <1>a, <2>2 DEF Ensure, Moves, Waits, Home, InEffect, Ending, Asking
  <2> QED
    BY <2>1, <2>2
<1>3. CASE EnsureSpawns
  BY <1>3, <1>a DEF EnsureSpawns, Moves, Waits, Home, InEffect, Ending, Asking
<1>4. CASE EnsureSucceeds
  <2>1. BeginsRoute(1)
    BY <1>4 DEF EnsureSucceeds, BeginsRoute, Home
  <2> QED
    BY <2>1 DEF Moves
<1>5. CASE EnsureTimesOut
  BY <1>5, GivesUpGoesHome DEF EnsureTimesOut, Moves
<1>6. CASE AskEffect
  <2> DEFINE line == [kind |-> "request", route |-> route, key |-> Key(host), name |-> Op.name,
                      request |-> Request]
  <2>1. line.kind \notin {"intent", "commit"} /\ line.route \in {1, route}
    OBVIOUS
  <2>2. Write(line)
    BY <1>6 DEF AskEffect
  <2> HIDE DEF line
  <2>3. PlainLine(route)
    BY <2>1, <2>2, PlainWrites
  <2>4. Asks
    BY <1>6, <2>3 DEF AskEffect, Reaches, Asks, Write
  <2> QED
    BY <2>4 DEF Moves
<1>7. CASE FromJournal
  <2>1. PICK c \in CommitsOf(Current.key) :
            IF Matches(c)
            THEN DeliverResult(c.result, "journal")
            ELSE GiveUp("journal mismatch") /\ UNCHANGED <<faults, providerVars>>
    BY <1>7 DEF FromJournal
  <2>2. CASE Matches(c)
    <3>1. DeliverResult(c.result, "journal") /\ pc = "asked"
      BY <1>7, <2>1, <2>2 DEF FromJournal
    <3>2. PlainLine(route)
      BY <3>1, PlainWrites, LinesAre, LineRoutes DEF DeliverResult
    <3>3. c \in Commits /\ c.key = Current.key
      BY DEF CommitsOf, Commits
    <3>4. Delivers(c)
      BY <3>1, <3>2, <3>3 DEF DeliverResult, Delivers, Write
    <3> QED
      BY <3>4 DEF Moves
  <2>3. CASE ~Matches(c)
    BY <2>1, <2>3, GivesUpGoesHome DEF Moves
  <2> QED
    BY <2>2, <2>3
<1>8. CASE JournalIntent
  <2>1. CASE Op.mode = "record"
    <3>1. ~Has(Commits, Current.key) /\ ~Has(Intents, Current.key)
      BY <1>8, HasIs DEF JournalIntent
    <3>2. Write(EffectLine("intent")) /\ pc = "asked" /\ pc' = "intended" /\ SamePlace
      BY <1>8, <2>1, <1>a DEF JournalIntent, Write
    <3>3. Intends
      BY <2>1, <3>1, <3>2 DEF Intends, Write
    <3> QED
      BY <3>3 DEF Moves
  <2>2. CASE Op.mode # "record"
    BY <1>8, <2>2, GivesUpGoesHome DEF JournalIntent, Moves
  <2> QED
    BY <2>1, <2>2
<1>9. CASE Reissue
  <2>1. PICK i \in DanglingOf(Current.key) :
          IF Op.mode = "record" /\ Matches(i)
          THEN /\ Write(EffectLine("reissue"))
               /\ pc' = "intended"
               /\ UNCHANGED <<position, bookkeeping>>
          ELSE /\ GiveUp(IF Op.mode = "record" THEN "reissue differs"
                         ELSE "missing committed effect")
               /\ UNCHANGED faults
    BY <1>9 DEF Reissue
  <2>2. CASE Op.mode = "record" /\ Matches(i)
    <3>1. ~Has(Commits, Current.key) /\ Has(Intents, Current.key)
      BY <2>1, HasIs
    <3>2. Write(EffectLine("reissue")) /\ pc = "asked" /\ pc' = "intended" /\ SamePlace
      BY <1>9, <2>1, <2>2, <1>a DEF Reissue, Write
    <3>3. PlainLine(route)
      BY <3>2, PlainWrites, LinesAre, LineRoutes
    <3>4. Waits
      BY <2>2, <3>1, <3>2, <3>3 DEF Waits, Home, InEffect, Ending, Asking
    <3> QED
      BY <3>4 DEF Moves
  <2>3. CASE ~(Op.mode = "record" /\ Matches(i))
    BY <2>1, <2>3, GivesUpGoesHome DEF Moves
  <2> QED
    BY <2>2, <2>3
<1>10. CASE CallProvider
  <2>1. CASE Connectable
    BY <1>10, <1>a, <2>1 DEF CallProvider, Moves, Waits, Home, InEffect, Ending, Asking
  <2>2. CASE ~Connectable
    BY <1>10, <2>2, GivesUpGoesHome DEF CallProvider, Moves
  <2> QED
    BY <2>1, <2>2
<1>11. CASE ProviderReplies
  <2>1. CASE answer.status \in {"executed", "duplicate"}
    BY <1>11, <1>a, <2>1 DEF ProviderReplies, Moves, Waits, Home, InEffect, Ending, Asking
  <2>2. CASE answer.status \notin {"executed", "duplicate"}
    BY <1>11, <2>2, GivesUpGoesHome DEF ProviderReplies, Moves
  <2> QED
    BY <2>1, <2>2
<1>12. CASE ProviderHangsUp
  BY <1>12, GivesUpGoesHome DEF ProviderHangsUp, Moves
<1>13. CASE JournalCommit
  <2>1. CommitsIt
    BY <1>13, <1>a DEF JournalCommit, Write, CommitsIt, providerVars
  <2> QED
    BY <2>1 DEF Moves
<1>14. CASE DeliverFromProvider
  <2>1. /\ Write(ResultLine(answer.result, "provider")) /\ pc = "committed" /\ pc' = "op"
        /\ seen' = Append(seen, answer.result) /\ at' = at + 1
        /\ UNCHANGED <<route, host, saved>>
    BY <1>14 DEF DeliverFromProvider
  <2>2. PlainLine(route) /\ published' = published
    BY <2>1, PlainWrites, LinesAre, LineRoutes DEF Write
  <2>3. PICK c \in Commits : c.key = Current.key /\ c.result = answer.result
    BY <2>1 DEF OrderOK, ProgressOK
  <2>4. Delivers(c)
    BY <2>1, <2>2, <2>3 DEF Delivers
  <2> QED
    BY <2>4 DEF Moves
<1>15. CASE FinishEvent
  <2> DEFINE line == [kind |-> "invocation", route |-> route, event |-> host.event,
                      branch |-> Op.branch, state |-> seen]
  <2>1. line.kind \notin {"intent", "commit"} /\ line.route \in {1, route}
    OBVIOUS
  <2>2. Write(line)
    BY <1>15 DEF FinishEvent
  <2> HIDE DEF line
  <2>3. PlainLine(route) /\ published' = published
    BY <2>1, <2>2, PlainWrites DEF Write
  <2>4. Finishes
    BY <1>15, <2>3 DEF FinishEvent, Reaches, Finishes
  <2> QED
    BY <2>4 DEF Moves
<1>16. CASE TakeCheckpoint
  <2>1. PlainLine(route) /\ published' = published
    BY <1>16, PlainWrites, LinesAre, LineRoutes DEF TakeCheckpoint, Write
  <2>2. Snaps
    BY <1>16, <2>1 DEF TakeCheckpoint, Reaches, Snaps
  <2> QED
    BY <2>2 DEF Moves
<1>17. CASE ExitRoute
  <2>1. PlainLine(route) /\ published' = published
    BY <1>17, PlainWrites, LinesAre, LineRoutes DEF ExitRoute, Write
  <2>2. pc = "op" /\ Op.do = "exit" /\ pc' = (IF route = 1 THEN "publish" ELSE "next")
    BY <1>17 DEF ExitRoute, Reaches
  <2>3. Waits
    BY <1>17, <2>1, <2>2, <1>a DEF ExitRoute, Waits, Home, InEffect, Ending, Asking
  <2> QED
    BY <2>3 DEF Moves
<1>18. CASE PublishCheckpoint
  <2>1. CASE saved = NoCheckpoint
    BY <1>18, <2>1, GivesUpGoesHome DEF PublishCheckpoint, Moves
  <2>2. CASE saved # NoCheckpoint
    BY <1>18, <2>2 DEF PublishCheckpoint, Publishes, Moves
  <2> QED
    BY <2>1, <2>2
<1>19. CASE NextRoute
  <2>1. CASE route < ForkRoute
    <3>1. BeginsRoute(route + 1)
      BY <1>19, <2>1, Constants DEF NextRoute, BeginsRoute, PositionOK
    <3> QED
      BY <3>1 DEF Moves
  <2>2. CASE ~(route < ForkRoute)
    BY <1>19, <1>a, <2>2 DEF NextRoute, Moves, Waits, Home, InEffect, Ending, Asking
  <2> QED
    BY <2>1, <2>2
<1>20. CASE StopProvider
  BY <1>20, <1>a DEF StopProvider, Moves, Waits, Home, InEffect, Ending, Asking
<1>21. CASE ProviderStopped
  BY <1>21, <1>a DEF ProviderStopped, Moves, Waits, Home, InEffect, Ending, Asking
<1>22. CASE Seal
  <2>1. CASE LogIntact /\ ~ptorn
    BY <1>22, <1>a, <2>1 DEF Seal, Moves, Waits, Home, InEffect, Ending, Asking
  <2>2. CASE ~(LogIntact /\ ~ptorn)
    BY <1>22, <2>2, GivesUpGoesHome DEF Seal, Moves
  <2> QED
    BY <2>1, <2>2
<1>23. CASE Report
  BY <1>23, <1>a DEF Report, Moves, Waits, Home, InEffect, Ending, Asking
<1> QED
  BY <1>1, <1>2, <1>3, <1>4, <1>5, <1>6, <1>7, <1>8, <1>9, <1>10, <1>11, <1>12, <1>13, <1>14,
     <1>15, <1>16, <1>17, <1>18, <1>19, <1>20, <1>21, <1>22, <1>23 DEF ExecutorStep

\* An answer that was taken from its connection is nobody's to change.
LEMMA TakenAnswerStays ==
    ASSUME ProviderOK, ConversationOK, pc = "committed", NEW p \in Providers,
           ProviderStep(p) \/ ProviderKilled(p)
    PROVE  answer' = answer
<1>1. answer.from = NoProvider /\ answer # NoAnswer
  <2>1. NoAnswer.status = "none"
    BY DEF NoAnswer
  <2> QED
    BY <2>1 DEF ConversationOK, AnswerOK
<1>2. CASE ProviderKilled(p)
  BY <1>1, <1>2, ProvidersAssumption DEF ProviderKilled, ProviderDies
<1>3. CASE Bind(p) \/ Rebuild(p) \/ Announce(p)
  BY <1>3 DEF Bind, Rebuild, Announce
<1>4. CASE Serve(p) /\ UNCHANGED executorVars
  <2> DEFINE r == Head(prov[p].backlog)
  <2>1. Served(p, r) /\ prov[p].backlog # <<>>
    BY <1>4, ServeKept DEF Serve
  <2>2. ~r.open
    <3>1. 1 \in DOMAIN prov[p].backlog /\ r = prov[p].backlog[1]
      BY <2>1, HeadIsCall
    <3> HIDE DEF r
    <3>2. r.open => IsOpen(p, 1)
      BY <3>1 DEF IsOpen
    <3> QED
      BY <1>1, <3>2 DEF ConversationOK, CallsOK
  <2> HIDE DEF r
  <2>3. \A status, result : Reply(p, r, status, result) => answer' = answer
    BY <2>2 DEF Reply
  <2>4. \A status, result : Logged(p, r, status, result) => answer' = answer
    BY <2>3, LoggedIs
  <2>5. CASE r.op = "shutdown" /\ Shutdown(p, r)
    BY <2>3, <2>5 DEF Shutdown
  <2>6. ASSUME NEW status, NEW result, Answers(p, r, status, result) PROVE answer' = answer
    BY <2>4, <2>6 DEF Answers
  <2>7. ASSUME NEW result, Performs(p, r, result) PROVE answer' = answer
    BY <2>4, <2>7 DEF Performs
  <2> QED
    BY <2>1, <2>5, <2>6, <2>7 DEF Served
<1> QED
  BY <1>2, <1>3, <1>4 DEF ProviderStep

LEMMA StepMoves ==
    ASSUME [Next]_vars, IInv, OrderOK
    PROVE  Moves
<1> USE DEF position, files, bookkeeping, executorVars, providerVars
<1>0. PositionOK /\ FilesOK /\ ProviderOK /\ ConversationOK
  BY DEF IInv
<1>1. CASE Start
  <2>1. Waits
    BY <1>1 DEF Start, Waits, SamePlace, PlainLine, Home, InEffect, Ending, Asking
  <2> QED
    BY <2>1 DEF Moves
<1>2. CASE Resume
  <2> DEFINE line == [kind |-> "resume", route |-> 1]
  <2>1. line.kind \notin {"intent", "commit"} /\ line.route \in {1, route}
    OBVIOUS
  <2>2. oplog' = Append(oplog, line)
    BY <1>2 DEF Resume
  <2> HIDE DEF line
  <2>3. PlainLine(route)
    BY <2>1, <2>2 DEF PlainLine
  <2>4. Waits
    BY <1>2, <2>3 DEF Resume, Waits, SamePlace, Home, InEffect, Ending, Asking
  <2> QED
    BY <2>4 DEF Moves
<1>3. CASE ExecutorStep
  BY <1>0, <1>3, ExecutorMoves
<1>4. CASE ExecutorDies
  <2>1. GoesHome
    BY <1>4 DEF ExecutorDies, GoesHome, Start0
  <2> QED
    BY <2>1 DEF Moves
<1>5. ASSUME UNCHANGED <<pc, position, oplog, published, saved>>, pc = "committed" => answer' = answer
      PROVE  Moves
  <2>1. Waits
    BY <1>5 DEF Waits, SamePlace, PlainLine
  <2> QED
    BY <2>1 DEF Moves
<1>6. ASSUME NEW p \in Providers, ProviderStep(p) \/ ProviderKilled(p) PROVE Moves
  BY <1>0, <1>5, <1>6, TakenAnswerStays DEF ProviderStep, ProviderKilled
<1>7. CASE UNCHANGED vars
  BY <1>5, <1>7 DEF vars
<1> QED
  BY <1>1, <1>2, <1>3, <1>4, <1>6, <1>7 DEF Next

-----------------------------------------------------------------------------
\* The order is kept.

\* What the journal holds after a step.
LEMMA PlainEntries ==
    ASSUME FilesOK, NEW r, PlainLine(r)
    PROVE  Intents' = Intents /\ Commits' = Commits
<1>1. CASE oplog' = oplog
  BY <1>1, SameEntries DEF Intents, Commits
<1>2. ASSUME NEW e, oplog' = Append(oplog, e), e.kind \notin {"intent", "commit"}
      PROVE  Intents' = Intents /\ Commits' = Commits
  BY <1>2, EntriesGrow DEF Intents, Commits
<1> QED
  BY <1>1, <1>2 DEF PlainLine

LEMMA SamePlaceSameCurrent ==
    ASSUME UNCHANGED <<route, at, host, seen>>
    PROVE  Op' = Op /\ Current' = Current
<1>1. Op' = Op
  BY DEF Op
<1> QED
  BY <1>1 DEF Current, Key, Request

LEMMA WaitsKeeps ==
    ASSUME PositionOK, FilesOK, OrderOK, Waits
    PROVE  OrderOK'
<1>1. Intents' = Intents /\ Commits' = Commits
  BY PlainEntries DEF Waits
<1>2. /\ UNCHANGED <<route, at, host, seen, saved>> /\ Op' = Op /\ Current' = Current
      /\ (pc' \in InEffect <=> pc \in InEffect) /\ (pc' \in Home => pc \in Home)
      /\ (pc' \in Ending => pc \in Ending \/ Op.do = "exit")
  BY SamePlaceSameCurrent DEF Waits, SamePlace
<1>3. PlaceOK'
  BY <1>2 DEF OrderOK, PlaceOK
<1>4. JournalOK(Intents, Commits)'
  BY <1>1 DEF OrderOK, JournalOK, MarkedIn, InOrder, OneResult
<1>5. ProgressOK(Intents, Commits)'
  <2>1. \A k : IsBehind(k, route, at) => Has(Commits, k)
    BY DEF OrderOK, ProgressOK
  <2>2. pc' \in Asking => Op.mode = "record" /\ ~Has(Commits, Current.key) /\ Has(Intents, Current.key)
    BY DEF OrderOK, ProgressOK, Waits
  <2>3. pc' = "committed" => \E c \in Commits : c.key = Current.key /\ c.result = answer'.result
    BY DEF OrderOK, ProgressOK, Waits
  <2> QED
    BY <1>1, <1>2, <2>1, <2>2, <2>3 DEF ProgressOK
<1> QED
  BY <1>3, <1>4, <1>5 DEF OrderOK

\* Nothing lies behind the first operation of the first route.
LEMMA NothingBehind == \A k : ~IsBehind(k, 1, 1)
<1>1. 1 \in 1 .. ForkRoute
  BY Constants
<1>2. Len(Program[1]) \in Nat
  BY <1>1, RouteIsSeq
<1> QED
  BY <1>2 DEF IsBehind, Records

LEMMA HomePlaces ==
    /\ "down" \in Home /\ "down" \notin Ending /\ "down" \notin InEffect /\ "down" \notin Asking
    /\ "op" \notin Home /\ "op" \notin Ending /\ "op" \notin InEffect /\ "op" \notin Asking
    /\ Home \cap Ending = {} /\ Home \cap InEffect = {} /\ Ending \cap InEffect = {}
    /\ "asked" \notin Home \cup Ending \cup Asking /\ "asked" \in InEffect
    /\ Asking \subseteq InEffect /\ "committed" \in InEffect /\ "committed" \notin Asking
    /\ "intended" \in Asking /\ "replied" \in Asking /\ "publish" \in Ending /\ "next" \in Ending
  BY DEF Home, Ending, InEffect, Asking

LEMMA HomeKeeps ==
    ASSUME FilesOK, OrderOK, GoesHome
    PROVE  OrderOK'
<1>1. Intents' = Intents /\ Commits' = Commits
  BY PlainEntries DEF GoesHome, PlainLine
<1>2. PlaceOK'
  <2>1. Count(1, 1, "invoke") = 0 /\ Count(1, 1, "effect") = 0
    BY CountStarts
  <2> QED
    BY <2>1, HomePlaces DEF GoesHome, PlaceOK, Start0
<1>3. JournalOK(Intents, Commits)'
  BY <1>1 DEF OrderOK, JournalOK, MarkedIn, InOrder, OneResult
<1>4. ProgressOK(Intents, Commits)'
  BY <1>1, NothingBehind, HomePlaces DEF GoesHome, ProgressOK
<1> QED
  BY <1>2, <1>3, <1>4 DEF OrderOK

LEMMA BeginKeeps ==
    ASSUME PositionOK, FilesOK, OrderOK, NEW r, BeginsRoute(r)
    PROVE  OrderOK'
<1>0. route \in 1 .. ForkRoute /\ route \in Nat /\ ForkRoute \in Nat
  BY Constants DEF PositionOK
<1>1. /\ pc' = "op" /\ route' = r /\ at' = 1
      /\ r # Recovered => host' = Start0
      /\ \E e : oplog' = Append(oplog, e) /\ e.kind = "creation"
  <2> DEFINE from == IF r = Recovered THEN saved ELSE [seen |-> <<>>, host |-> Start0]
             line == [kind |-> "creation", route |-> r, host |-> from.host]
  <2>1. pc' = "op" /\ route' = r /\ at' = 1 /\ host' = from.host /\ oplog' = Append(oplog, line)
    BY DEF BeginsRoute, Begin, Start0
  <2>2. line.kind = "creation"
    OBVIOUS
  <2> HIDE DEF line
  <2> QED
    BY <2>1, <2>2
<1>2. Intents' = Intents /\ Commits' = Commits
  BY <1>1, EntriesGrow DEF Intents, Commits
<1>3. PlaceOK'
  <2>1. Count(r, 1, "invoke") = 0 /\ Count(r, 1, "effect") = 0
    BY CountStarts
  <2> QED
    BY <1>1, <2>1, HomePlaces DEF PlaceOK, Start0
<1>4. JournalOK(Intents, Commits)'
  BY <1>2 DEF OrderOK, JournalOK, MarkedIn, InOrder, OneResult
<1>5. ASSUME NEW k, IsBehind(k, r, 1) PROVE Has(Commits, k)
  <2>1. PICK q, b : Records(q, b) /\ k = KeyAt(q, b) /\ ((q = r /\ b < 1) \/ (q = 1 /\ r > 1))
    BY <1>5 DEF IsBehind
  <2>2. q \in 1 .. ForkRoute /\ b \in 1 .. Len(Program[q]) /\ Len(Program[q]) \in Nat
        /\ Program[q][b].do = "effect"
    <3>1. q \in 1 .. ForkRoute
      BY <2>1, Constants DEF Records
    <3> QED
      BY <2>1, <3>1, RouteIsSeq DEF Records
  <2>3. q = 1 /\ r > 1
    BY <2>1, <2>2
  <2>4. r = route + 1 /\ pc = "next"
    BY <1>0, <2>3 DEF BeginsRoute
  <2>5. at = Len(Program[route]) /\ Op.do = "exit"
    BY <2>4, Here, HomePlaces DEF OrderOK, PlaceOK
  <2>6. IsBehind(k, route, at)
    <3>1. CASE route = 1
      <4>1. b # at
        BY <2>2, <2>3, <2>5, <3>1 DEF Op
      <4>2. b < at
        BY <2>2, <2>3, <2>5, <3>1, <4>1
      <4> QED
        BY <2>1, <2>3, <3>1, <4>2 DEF IsBehind
    <3>2. CASE route # 1
      <4>1. route > 1
        BY <1>0, <3>2
      <4> QED
        BY <2>1, <2>3, <4>1 DEF IsBehind
    <3> QED
      BY <3>1, <3>2
  <2> QED
    BY <2>6 DEF OrderOK, ProgressOK
<1>6. ProgressOK(Intents, Commits)'
  BY <1>1, <1>2, <1>5, HomePlaces DEF ProgressOK
<1> QED
  BY <1>3, <1>4, <1>6 DEF OrderOK

\* What lies behind the next operation.
LEMMA NextBehind ==
    ASSUME NEW r, NEW a \in Nat, NEW k, IsBehind(k, r, a + 1)
    PROVE  IsBehind(k, r, a) \/ (Records(r, a) /\ k = KeyAt(r, a))
<1>1. PICK q, b : Records(q, b) /\ k = KeyAt(q, b) /\ ((q = r /\ b < a + 1) \/ (q = 1 /\ r > 1))
  BY DEF IsBehind
<1>2. CASE q = r /\ b < a + 1
  <2>1. b \in Nat
    <3>1. q \in 1 .. ForkRoute
      BY <1>1, Constants DEF Records
    <3> QED
      BY <1>1, <3>1, RouteIsSeq DEF Records
  <2>2. b < a \/ b = a
    BY <1>2, <2>1
  <2> QED
    BY <1>1, <1>2, <2>2 DEF IsBehind
<1>3. CASE q = 1 /\ r > 1
  BY <1>1, <1>3 DEF IsBehind
<1> QED
  BY <1>1, <1>2, <1>3

\* A step that goes on to the next operation of the route, and counts what it leaves behind.
Goes(events, effects) ==
    /\ pc' = "op" /\ route' = route /\ at' = at + 1 /\ PlainLine(route)
    /\ host'.event = host.event + events /\ host' = [event |-> host'.event, effect |-> host.effect]
    /\ events = (IF Op.do = "invoke" THEN 1 ELSE 0)
    /\ effects = (IF Op.do = "effect" THEN 1 ELSE 0)
    /\ effects = (IF pc \in InEffect THEN 1 ELSE 0)
    /\ pc \in InEffect => Has(Commits, Current.key)

LEMMA GoesKeeps ==
    ASSUME PositionOK, FilesOK, OrderOK, NEW events, NEW effects, Goes(events, effects)
    PROVE  OrderOK'
<1>1. Intents' = Intents /\ Commits' = Commits
  BY PlainEntries DEF Goes
<1>2. at \in Nat \ {0} /\ Op = Program[route][at]
  BY Here
<1>3. PlaceOK'
  <2>1. /\ Count(route, at + 1, "invoke") = Count(route, at, "invoke") + events
        /\ Count(route, at + 1, "effect") = Count(route, at, "effect") + effects
    BY <1>2, CountNext DEF Goes
  <2>2. Count(route, at, "invoke") \in Nat /\ Count(route, at, "effect") \in Nat
    BY <1>2, PassedIs
  <2>3. ASSUME route # Recovered
        PROVE  host' = [event  |-> Count(route, at + 1, "invoke"),
                        effect |-> Count(route, at + 1, "effect") + 0]
    <3>1. host = [event  |-> Count(route, at, "invoke"), effect |-> Count(route, at, "effect") + effects]
      BY <2>3 DEF OrderOK, PlaceOK, Goes
    <3>2. host.event = Count(route, at, "invoke") /\ host.effect = Count(route, at, "effect") + effects
      BY <3>1
    <3>3. effects \in {0, 1}
      BY DEF Goes
    <3> QED
      BY <2>1, <2>2, <3>2, <3>3 DEF Goes
  <2> QED
    BY <2>3, HomePlaces DEF Goes, PlaceOK
<1>4. JournalOK(Intents, Commits)'
  BY <1>1 DEF OrderOK, JournalOK, MarkedIn, InOrder, OneResult
<1>5. ASSUME NEW k, IsBehind(k, route, at + 1) PROVE Has(Commits, k)
  <2>1. CASE IsBehind(k, route, at)
    BY <2>1 DEF OrderOK, ProgressOK
  <2>2. CASE Records(route, at) /\ k = KeyAt(route, at)
    <3>1. Op.do = "effect" /\ route # Recovered
      <4>1. Recovered # 1 /\ Recovered # ForkRoute
        BY Constants DEF Recovered
      <4> QED
        BY <1>2, <2>2, <4>1 DEF Records
    <3>2. pc \in InEffect
      BY <3>1 DEF Goes
    <3>3. Current.key = k
      BY <2>2, <3>1, <3>2, CurrentIs DEF OrderOK
    <3> QED
      BY <3>2, <3>3 DEF Goes
  <2> QED
    BY <1>2, <1>5, <2>1, <2>2, NextBehind
<1>6. ProgressOK(Intents, Commits)'
  BY <1>1, <1>5, HomePlaces DEF ProgressOK, Goes
<1> QED
  BY <1>3, <1>4, <1>6 DEF OrderOK

LEMMA HostIs ==
    ASSUME PositionOK
    PROVE  /\ host = [event |-> host.event, effect |-> host.effect]
           /\ host.event \in Nat /\ host.effect \in Nat
  BY DEF PositionOK, Cursors

LEMMA DeliversGoes ==
    ASSUME PositionOK, NEW c, Delivers(c)
    PROVE  Goes(0, 1)
<1>1. pc \in InEffect /\ Op.do = "effect"
  BY Here DEF Delivers, InEffect
<1>2. Has(Commits, Current.key)
  BY DEF Delivers, Has
<1> QED
  BY <1>1, <1>2, HostIs DEF Delivers, Goes

LEMMA FinishesGoes ==
    ASSUME PositionOK, Finishes
    PROVE  Goes(1, 0)
<1>1. host' = [event |-> host.event + 1, effect |-> host.effect]
  BY HostIs DEF Finishes
<1> QED
  BY <1>1, HomePlaces DEF Finishes, Goes

LEMMA SnapsGoes ==
    ASSUME PositionOK, Snaps
    PROVE  Goes(0, 0)
  BY HostIs, HomePlaces DEF Snaps, Goes

LEMMA AskKeeps ==
    ASSUME PositionOK, FilesOK, OrderOK, Asks
    PROVE  OrderOK'
<1>1. Intents' = Intents /\ Commits' = Commits
  BY PlainEntries DEF Asks
<1>2. PlaceOK'
  <2>1. host' = [event |-> host.event, effect |-> host.effect + 1]
    BY HostIs DEF Asks
  <2>2. Count(route, at, "effect") \in Nat
    BY Here, PassedIs
  <2>3. route # Recovered =>
           host = [event |-> Count(route, at, "invoke"), effect |-> Count(route, at, "effect") + 0]
    BY HomePlaces DEF OrderOK, PlaceOK, Asks
  <2>4. route # Recovered =>
           host' = [event |-> Count(route, at, "invoke"), effect |-> Count(route, at, "effect") + 1]
    BY <2>1, <2>2, <2>3
  <2>5. UNCHANGED <<route, at>> /\ pc' = "asked"
    BY DEF Asks
  <2> QED
    BY <2>4, <2>5, HomePlaces DEF PlaceOK
<1>3. JournalOK(Intents, Commits)'
  BY <1>1 DEF OrderOK, JournalOK, MarkedIn, InOrder, OneResult
<1>4. ProgressOK(Intents, Commits)'
  BY <1>1, HomePlaces DEF OrderOK, ProgressOK, Asks
<1> QED
  BY <1>2, <1>3, <1>4 DEF OrderOK

\* The position of the effect that is recorded now.
LEMMA RecordedHere ==
    ASSUME PositionOK, PlaceOK, pc \in InEffect, Op.mode = "record"
    PROVE  /\ Records(route, at) /\ Current.key = KeyAt(route, at)
           /\ \A r, a : Records(r, a) /\ Current.key = KeyAt(r, a) => r = route /\ a = at
<1>1. Records(route, at) /\ Current.key = KeyAt(route, at)
  BY RecordsHere, CurrentIs
<1>2. ASSUME NEW r, NEW a, Records(r, a), Current.key = KeyAt(r, a) PROVE r = route /\ a = at
  BY <1>1, <1>2, KeysDiffer
<1> QED
  BY <1>1, <1>2

LEMMA IntendsKeeps ==
    ASSUME PositionOK, FilesOK, OrderOK, Intends
    PROVE  OrderOK'
<1> DEFINE line == EffectLine("intent")
<1>0. line.kind = "intent" /\ line.key = Current.key
  BY LinesAre
<1> HIDE DEF line
<1>1. Intents' = Intents \cup {line} /\ Commits' = Commits
  BY <1>0, EntriesGrow DEF Intends, Intents, Commits, line
<1>2. /\ UNCHANGED <<route, at, host, seen, saved>> /\ Op' = Op /\ Current' = Current
      /\ pc = "asked" /\ pc' = "intended" /\ Op.mode = "record"
  BY SamePlaceSameCurrent DEF Intends, SamePlace
<1>3. /\ Records(route, at) /\ Current.key = KeyAt(route, at)
      /\ \A r, a : Records(r, a) /\ Current.key = KeyAt(r, a) => r = route /\ a = at
  BY <1>2, HomePlaces, RecordedHere DEF OrderOK
<1>4. PlaceOK'
  <2>1. "intended" \notin Home /\ "intended" \notin Ending /\ "intended" \in InEffect
    BY DEF Home, Ending, InEffect
  <2> QED
    BY <1>2, <2>1, HomePlaces DEF OrderOK, PlaceOK
<1>5. JournalOK(Intents, Commits)'
  <2>1. MarkedIn(Intents, Commits)'
    BY <1>0, <1>1, <1>3 DEF OrderOK, JournalOK, MarkedIn
  <2>2. \A k : IsBehind(k, route, at) => Has(Commits, k)
    BY DEF OrderOK, ProgressOK
  <2>3. InOrder(Intents, Commits)'
    <3>1. ASSUME NEW e \in Intents \cup {line}, NEW r, NEW a, Records(r, a), e.key = KeyAt(r, a),
                 NEW k, IsBehind(k, r, a)
          PROVE  Has(Commits, k)
      <4>1. CASE e = line
        BY <1>0, <1>3, <2>2, <3>1, <4>1
      <4>2. CASE e \in Intents
        BY <3>1, <4>2 DEF OrderOK, JournalOK, InOrder
      <4> QED
        BY <4>1, <4>2
    <3> QED
      BY <1>1, <3>1 DEF InOrder
  <2>4. OneResult(Commits)'
    BY <1>1 DEF OrderOK, JournalOK, OneResult
  <2> QED
    BY <2>1, <2>3, <2>4 DEF JournalOK
<1>6. ProgressOK(Intents, Commits)'
  <2>1. Has(Intents', Current.key) /\ ~Has(Commits, Current.key)
    BY <1>0, <1>1 DEF Has, Intends
  <2> QED
    BY <1>1, <1>2, <2>1 DEF OrderOK, ProgressOK
<1> QED
  BY <1>4, <1>5, <1>6 DEF OrderOK

LEMMA CommitKeeps ==
    ASSUME PositionOK, FilesOK, OrderOK, CommitsIt
    PROVE  OrderOK'
<1> DEFINE line == CommitLine
<1>0. line.kind = "commit" /\ line.key = Current.key /\ line.result = answer.result
  BY LinesAre
<1> HIDE DEF line
<1>1. Commits' = Commits \cup {line} /\ Intents' = Intents
  BY <1>0, EntriesGrow DEF CommitsIt, Intents, Commits, line
<1>2. /\ UNCHANGED <<route, at, host, seen, saved>> /\ Op' = Op /\ Current' = Current
      /\ pc = "replied" /\ pc' = "committed" /\ answer' = answer
  BY SamePlaceSameCurrent DEF CommitsIt, SamePlace
<1>3. Op.mode = "record" /\ ~Has(Commits, Current.key) /\ Has(Intents, Current.key)
  BY <1>2, HomePlaces DEF OrderOK, ProgressOK
<1>4. Records(route, at) /\ Current.key = KeyAt(route, at)
  BY <1>2, <1>3, HomePlaces, RecordedHere DEF OrderOK
<1>5. PlaceOK'
  <2>1. "committed" \notin Home /\ "committed" \notin Ending /\ "committed" \in InEffect
    BY DEF Home, Ending, InEffect
  <2> QED
    BY <1>2, <2>1, HomePlaces DEF OrderOK, PlaceOK
<1>6. \A k : Has(Commits, k) => Has(Commits', k)
  BY <1>1 DEF Has
<1>7. JournalOK(Intents, Commits)'
  <2>1. MarkedIn(Intents, Commits)'
    BY <1>0, <1>1, <1>4 DEF OrderOK, JournalOK, MarkedIn
  <2>2. InOrder(Intents, Commits)'
    BY <1>1, <1>6 DEF OrderOK, JournalOK, InOrder
  <2>3. OneResult(Commits)'
    <3>1. \A c, d \in Commits : c.key = d.key => c.result = d.result
      BY DEF OrderOK, JournalOK, OneResult
    <3>2. \A c \in Commits : c.key # line.key
      BY <1>0, <1>3 DEF Has
    <3> QED
      BY <1>1, <3>1, <3>2 DEF OneResult
  <2> QED
    BY <2>1, <2>2, <2>3 DEF JournalOK
<1>8. ProgressOK(Intents, Commits)'
  <2>1. \A k : IsBehind(k, route, at) => Has(Commits', k)
    BY <1>6 DEF OrderOK, ProgressOK
  <2>2. \E c \in Commits' : c.key = Current.key /\ c.result = answer.result
    BY <1>0, <1>1
  <2> QED
    BY <1>1, <1>2, <2>1, <2>2, HomePlaces DEF ProgressOK
<1> QED
  BY <1>5, <1>7, <1>8 DEF OrderOK

LEMMA PublishKeeps ==
    ASSUME PositionOK, FilesOK, OrderOK, Publishes
    PROVE  OrderOK'
<1>1. Intents' = Intents /\ Commits' = Commits
  BY PlainEntries DEF Publishes, PlainLine
<1>2. /\ UNCHANGED <<route, at, host, seen, saved>> /\ Op' = Op
      /\ pc = "publish" /\ pc' = "next"
  BY SamePlaceSameCurrent DEF Publishes
<1>3. PlaceOK'
  <2>1. "next" \notin Home /\ "next" \in Ending /\ "next" \notin InEffect /\ "publish" \notin InEffect
        /\ "publish" \in Ending
    BY DEF Home, Ending, InEffect
  <2> QED
    BY <1>2, <2>1 DEF OrderOK, PlaceOK
<1>4. JournalOK(Intents, Commits)'
  BY <1>1 DEF OrderOK, JournalOK, MarkedIn, InOrder, OneResult
<1>5. ProgressOK(Intents, Commits)'
  <2>1. "next" \notin Asking /\ "next" # "committed"
    BY DEF Asking
  <2> QED
    BY <1>1, <1>2, <2>1 DEF OrderOK, ProgressOK
<1> QED
  BY <1>3, <1>4, <1>5 DEF OrderOK

LEMMA OrderKept ==
    ASSUME [Next]_vars, IInv, OrderOK
    PROVE  OrderOK'
<1>1. PositionOK /\ FilesOK /\ Moves
  BY StepMoves DEF IInv
<1> QED
  BY <1>1, WaitsKeeps, HomeKeeps, BeginKeeps, AskKeeps, DeliversGoes, FinishesGoes, SnapsGoes,
     GoesKeeps, IntendsKeeps, CommitKeeps, PublishKeeps DEF Moves

LEMMA OrderStarts ==
    ASSUME Init
    PROVE  OrderOK
<1>1. Intents = {} /\ Commits = {}
  BY EmptyIs DEF Init, Intents, Commits, Entries
<1>2. PlaceOK
  BY CountStarts, HomePlaces DEF Init, PlaceOK, Start0
<1>3. JournalOK(Intents, Commits)
  BY <1>1 DEF JournalOK, MarkedIn, InOrder, OneResult
<1>4. ProgressOK(Intents, Commits)
  BY <1>1, NothingBehind, HomePlaces DEF Init, ProgressOK
<1> QED
  BY <1>2, <1>3, <1>4 DEF OrderOK

\* The journal is in order: an effect is intended only when all before it are committed, its
\* key is its place on the branch, and it has one result, in every reachable state
\* (Host::effect, journal_from).
THEOREM OrderInvariant ==
    Spec => []OrderOK
<1>1. Init => OrderOK
  BY OrderStarts
<1>2. IInv /\ OrderOK /\ [Next]_vars => OrderOK'
  BY OrderKept
<1> QED
  BY <1>1, <1>2, RunInvariant, PTL DEF Spec

-----------------------------------------------------------------------------
\* The checkpoint.

HostAt(p) == [event |-> Count(1, p, "invoke"), effect |-> Count(1, p, "effect")]

\* What the parent's guest was told when it came to operation p: the committed results.
ToldIn(C, s, p) ==
    /\ IsSeq(s) /\ Len(s) = Count(1, p, "effect")
    /\ \A i \in 1 .. Len(s) : \E c \in C :
          c.key.branch = "parent" /\ c.key.effect = i - 1 /\ c.result = s[i]

\* The last checkpoint before operation a is at p, and s is what it took.
LastCut(p, a) ==
    /\ p \in 1 .. a - 1 /\ Program[1][p].do = "checkpoint"
    /\ \A j \in p + 1 .. a - 1 : Program[1][j].do # "checkpoint"

TakenIn(C, s, p) == s = [host |-> HostAt(p), seen |-> s.seen] /\ ToldIn(C, s.seen, p)

ParentOK(C) ==
    route = 1 =>
        /\ ToldIn(C, seen, at)
        /\ saved = NoCheckpoint \/ \E p : LastCut(p, at) /\ TakenIn(C, saved, p)

PublishedOK(C) ==
    published # NoCheckpoint => \E p : LastCut(p, Len(Program[1])) /\ TakenIn(C, published, p)

\* Who is past the first route finds it published.
BeyondOK ==
    /\ route > 1 \/ pc \in Ending \ {"publish"} => published # NoCheckpoint
    /\ pc = "publish" => route = 1
    /\ CheckpointFirst

CheckpointOK == ParentOK(Commits) /\ PublishedOK(Commits) /\ BeyondOK

LEMMA ToldStays ==
    ASSUME NEW C, NEW D, C \subseteq D, NEW s, NEW p, ToldIn(C, s, p)
    PROVE  ToldIn(D, s, p)
  BY DEF ToldIn

LEMMA SameSeqs ==
    ASSUME NEW s, NEW t, IsSeq(s), IsSeq(t), Len(s) = Len(t), \A i \in 1 .. Len(s) : s[i] = t[i]
    PROVE  s = t
<1> DEFINE S == {s[i] : i \in DOMAIN s}
           T == {t[i] : i \in DOMAIN t}
<1>1. s \in Seq(S) /\ t \in Seq(T)
  BY DEF IsSeq
<1> HIDE DEF S, T
<1>2. s \in [1 .. Len(s) -> S] /\ t \in [1 .. Len(t) -> T]
  BY <1>1, LenProperties
<1> QED
  BY <1>2

\* The results of the parent's effects are the same wherever they were told.
LEMMA ToldTheSame ==
    ASSUME NEW I, NEW C, JournalOK(I, C), NEW s, NEW t, NEW p, ToldIn(C, s, p), ToldIn(C, t, p)
    PROVE  s = t
<1>1. ASSUME NEW i \in 1 .. Len(s) PROVE s[i] = t[i]
  <2>1. Len(s) = Len(t)
    BY DEF ToldIn
  <2>2. PICK c \in C : c.key.branch = "parent" /\ c.key.effect = i - 1 /\ c.result = s[i]
    BY DEF ToldIn
  <2>3. PICK d \in C : d.key.branch = "parent" /\ d.key.effect = i - 1 /\ d.result = t[i]
    BY <2>1 DEF ToldIn
  <2>4. PICK r, a : Records(r, a) /\ c.key = KeyAt(r, a)
    BY DEF JournalOK, MarkedIn
  <2>5. PICK q, b : Records(q, b) /\ d.key = KeyAt(q, b)
    BY DEF JournalOK, MarkedIn
  <2>6. r = q /\ a = b
    BY <2>2, <2>3, <2>4, <2>5, KeysDiffer
  <2>7. c.result = d.result
    BY <2>4, <2>5, <2>6 DEF JournalOK, OneResult
  <2> QED
    BY <2>2, <2>3, <2>7
<1>2. IsSeq(s) /\ IsSeq(t) /\ Len(s) = Len(t)
  BY DEF ToldIn
<1> QED
  BY <1>1, <1>2, SameSeqs

LEMMA OneCut ==
    ASSUME NEW p, NEW q, NEW a \in Nat, LastCut(p, a), LastCut(q, a)
    PROVE  p = q
<1>1. ~(p < q) /\ ~(q < p) /\ p \in Nat /\ q \in Nat
  BY DEF LastCut
<1> QED
  BY <1>1

LEMMA FirstLength == Len(Program[1]) \in Nat \ {0}
  BY Constants, RouteIsSeq

LEMMA CommitsGrow ==
    ASSUME FilesOK, Moves
    PROVE  Commits \subseteq Commits'
<1>1. ASSUME NEW e, oplog' = Append(oplog, e) PROVE Commits \subseteq Commits'
  BY <1>1, EntriesGrow DEF Commits
<1>2. ASSUME oplog' = oplog PROVE Commits \subseteq Commits'
  BY <1>2, SameEntries DEF Commits
<1>3. \A r : PlainLine(r) => Commits \subseteq Commits'
  BY <1>1, <1>2 DEF PlainLine
<1>4. \A r : BeginsRoute(r) => Commits \subseteq Commits'
  BY <1>1 DEF BeginsRoute, Begin
<1> QED
  BY <1>1, <1>2, <1>3, <1>4 DEF Moves, Waits, GoesHome, Asks, Delivers, Intends, CommitsIt,
                                Finishes, Snaps, Publishes

LEMMA PublishedKept ==
    ASSUME NEW D, Commits \subseteq D, PublishedOK(Commits)
    PROVE  PublishedOK(D)
<1> USE DEF PublishedOK
<1>1. CASE published # NoCheckpoint
  <2>1. PICK p : LastCut(p, Len(Program[1])) /\ TakenIn(Commits, published, p)
    BY <1>1
  <2>2. TakenIn(D, published, p)
    BY <2>1, ToldStays DEF TakenIn
  <2> QED
    BY <2>1, <2>2
<1> QED
  BY <1>1

LEMMA ParentKept ==
    ASSUME NEW D, Commits \subseteq D, ParentOK(Commits)
    PROVE  ParentOK(D)
<1> USE DEF ParentOK
<1>1. CASE route = 1
  <2>1. ToldIn(D, seen, at)
    BY <1>1, ToldStays
  <2>2. ASSUME saved # NoCheckpoint PROVE \E p : LastCut(p, at) /\ TakenIn(D, saved, p)
    <3>1. PICK p : LastCut(p, at) /\ TakenIn(Commits, saved, p)
      BY <1>1, <2>2
    <3>2. TakenIn(D, saved, p)
      BY <3>1, ToldStays DEF TakenIn
    <3> QED
      BY <3>1, <3>2
  <2> QED
    BY <2>1, <2>2
<1> QED
  BY <1>1

\* The checkpoint is left behind by the next operation, unless that takes another one.
LEMMA CutStays ==
    ASSUME NEW a \in Nat \ {0}, NEW p, LastCut(p, a), Program[1][a].do # "checkpoint"
    PROVE  LastCut(p, a + 1)
<1>1. p \in 1 .. a /\ \A j \in p + 1 .. a : j = a \/ j \in p + 1 .. a - 1
  BY DEF LastCut
<1> QED
  BY <1>1 DEF LastCut

\* The parent's guest and its checkpoint, step by step.
LEMMA StartsTold == \A C : ToldIn(C, <<>>, 1)
<1>1. IsSeq(<<>>) /\ Len(<<>>) = 0
  BY EmptyIs
<1> QED
  BY <1>1, CountStarts DEF ToldIn

LEMMA ParentDelivers ==
    ASSUME PositionOK, OrderOK, ParentOK(Commits), NEW c, Delivers(c), Commits \subseteq Commits'
    PROVE  ParentOK(Commits)'
<1> SUFFICES ASSUME route = 1
             PROVE  /\ ToldIn(Commits', seen', at')
                    /\ saved = NoCheckpoint \/ \E p : LastCut(p, at') /\ TakenIn(Commits', saved, p)
  BY DEF ParentOK, Delivers
<1>1. at \in Nat \ {0} /\ at' = at + 1 /\ Op = Program[1][at] /\ Op.do = "effect" /\ pc \in InEffect
  BY Here DEF Delivers, InEffect
<1>2. ParentOK(Commits')
  BY ParentKept
<1>3. ToldIn(Commits', seen, at)
  BY <1>2 DEF ParentOK
<1>4. Longer(seen, c.result, seen')
  BY <1>3, AppendIs DEF Delivers, ToldIn
<1>5. Count(1, at + 1, "effect") = Count(1, at, "effect") + 1
  BY <1>1, CountNext
<1>6. c.key = KeyAt(1, at)
  <2>1. Recovered # 1
    BY Constants DEF Recovered
  <2> QED
    BY <1>1, <2>1, CurrentIs DEF Delivers, OrderOK
<1>7. c.key.branch = "parent" /\ c.key.effect = Count(1, at, "effect") /\ c \in Commits'
  <2>1. Program[1][at].branch = "parent"
    BY <1>1, Here, WhoRecords
  <2> QED
    BY <1>6, <2>1 DEF KeyAt, Delivers
<1>8. ToldIn(Commits', seen', at + 1)
  <2>1. IsSeq(seen') /\ Len(seen') = Count(1, at + 1, "effect")
    BY <1>3, <1>4, <1>5 DEF Longer, ToldIn
  <2>2. ASSUME NEW i \in 1 .. Len(seen')
        PROVE  \E d \in Commits' : d.key.branch = "parent" /\ d.key.effect = i - 1 /\ d.result = seen'[i]
    <3>1. CASE i = Len(seen) + 1
      <4>1. i - 1 = Count(1, at, "effect") /\ seen'[i] = c.result
        BY <1>3, <1>4, <3>1 DEF Longer, ToldIn
      <4> QED
        BY <1>7, <4>1
    <3>2. CASE i # Len(seen) + 1
      <4>1. i \in 1 .. Len(seen) /\ seen'[i] = seen[i]
        BY <1>4, <3>2 DEF Longer
      <4> QED
        BY <1>3, <4>1 DEF ToldIn
    <3> QED
      BY <3>1, <3>2
  <2> QED
    BY <2>1, <2>2 DEF ToldIn
<1>9. saved = NoCheckpoint \/ \E p : LastCut(p, at + 1) /\ TakenIn(Commits', saved, p)
  BY <1>1, <1>2, CutStays DEF ParentOK
<1> QED
  BY <1>1, <1>8, <1>9

LEMMA ParentFinishes ==
    ASSUME PositionOK, ParentOK(Commits), Finishes, Commits \subseteq Commits'
    PROVE  ParentOK(Commits)'
<1> SUFFICES ASSUME route = 1
             PROVE  /\ ToldIn(Commits', seen, at')
                    /\ saved = NoCheckpoint \/ \E p : LastCut(p, at') /\ TakenIn(Commits', saved, p)
  BY DEF ParentOK, Finishes
<1>1. at \in Nat \ {0} /\ at' = at + 1 /\ Op = Program[1][at] /\ Op.do = "invoke"
  BY Here DEF Finishes
<1>2. ParentOK(Commits')
  BY ParentKept
<1>3. Count(1, at, "effect") \in Nat
  BY <1>1, PassedIs
<1>4. Count(1, at + 1, "effect") = Count(1, at, "effect")
  BY <1>1, <1>3, CountNext
<1>5. ToldIn(Commits', seen, at + 1)
  BY <1>2, <1>4 DEF ParentOK, ToldIn
<1>6. saved = NoCheckpoint \/ \E p : LastCut(p, at + 1) /\ TakenIn(Commits', saved, p)
  BY <1>1, <1>2, CutStays DEF ParentOK
<1> QED
  BY <1>1, <1>5, <1>6

LEMMA ParentSnaps ==
    ASSUME PositionOK, OrderOK, ParentOK(Commits), Snaps, Commits \subseteq Commits'
    PROVE  ParentOK(Commits)'
<1> SUFFICES ASSUME route = 1
             PROVE  /\ ToldIn(Commits', seen, at')
                    /\ \E p : LastCut(p, at') /\ TakenIn(Commits', saved', p)
  BY DEF ParentOK, Snaps
<1>1. at \in Nat \ {0} /\ at' = at + 1 /\ Op = Program[1][at] /\ Op.do = "checkpoint" /\ pc = "op"
      /\ saved' = [host |-> host, seen |-> seen]
  BY Here DEF Snaps
<1>2. ToldIn(Commits', seen, at)
  BY ParentKept DEF ParentOK
<1>3. Count(1, at, "effect") \in Nat
  BY <1>1, PassedIs
<1>4. Count(1, at + 1, "effect") = Count(1, at, "effect")
  BY <1>1, <1>3, CountNext
<1>5. ToldIn(Commits', seen, at + 1)
  BY <1>2, <1>4 DEF ToldIn
<1>6. LastCut(at, at + 1)
  BY <1>1 DEF LastCut
<1>7. host = HostAt(at)
  <2>1. Recovered # 1
    BY Constants DEF Recovered
  <2>2. host = [event |-> Count(1, at, "invoke"), effect |-> Count(1, at, "effect") + 0]
    BY <1>1, <2>1, HomePlaces DEF OrderOK, PlaceOK
  <2> QED
    BY <1>3, <2>2 DEF HostAt
<1>8. TakenIn(Commits', saved', at)
  BY <1>1, <1>2, <1>7 DEF TakenIn
<1> QED
  BY <1>1, <1>5, <1>6, <1>8

LEMMA ParentStarts ==
    ASSUME route' = 1, at' = 1, seen' = <<>>, saved' = NoCheckpoint
    PROVE  ParentOK(Commits)'
  BY StartsTold DEF ParentOK

LEMMA ParentBegins ==
    ASSUME PositionOK, OrderOK, NEW r, BeginsRoute(r)
    PROVE  ParentOK(Commits)'
<1>1. CASE r = 1 /\ pc \in Home
  <2>1. Recovered # 1
    BY Constants DEF Recovered
  <2>2. route' = 1 /\ at' = 1 /\ seen' = <<>>
    BY <1>1, <2>1 DEF BeginsRoute, Begin
  <2>3. saved' = NoCheckpoint
    BY <1>1 DEF BeginsRoute, OrderOK, PlaceOK
  <2> QED
    BY <2>2, <2>3, ParentStarts
<1>2. CASE r = route + 1
  <2>1. route' = r /\ r # 1
    BY <1>2 DEF BeginsRoute, Begin, PositionOK
  <2> QED
    BY <2>1 DEF ParentOK
<1> QED
  BY <1>1, <1>2 DEF BeginsRoute

LEMMA ParentMoves ==
    ASSUME PositionOK, FilesOK, OrderOK, ParentOK(Commits), Moves
    PROVE  ParentOK(Commits)'
<1>1. Commits \subseteq Commits'
  BY CommitsGrow
<1>2. ASSUME UNCHANGED <<route, at, seen, saved>> PROVE ParentOK(Commits)'
  <2>1. ParentOK(Commits')
    BY <1>1, ParentKept
  <2> QED
    BY <1>2, <2>1 DEF ParentOK
<1>3. ASSUME Waits \/ Asks \/ Intends \/ CommitsIt \/ Publishes PROVE ParentOK(Commits)'
  BY <1>2, <1>3 DEF Waits, Asks, Intends, CommitsIt, Publishes, SamePlace
<1>4. CASE GoesHome
  BY <1>4, ParentStarts DEF GoesHome
<1> QED
  BY <1>1, <1>3, <1>4, ParentBegins, ParentDelivers, ParentFinishes, ParentSnaps DEF Moves

\* A checkpoint that is published again is the one that was.
LEMMA PublishedAgain ==
    ASSUME PositionOK, OrderOK, CheckpointOK, Publishes
    PROVE  /\ \E p : LastCut(p, Len(Program[1])) /\ TakenIn(Commits, saved, p)
           /\ published # NoCheckpoint => saved = published
<1>1. route = 1 /\ at = Len(Program[1])
  BY Here, HomePlaces DEF Publishes, CheckpointOK, BeyondOK, OrderOK, PlaceOK
<1>2. PICK p : LastCut(p, Len(Program[1])) /\ TakenIn(Commits, saved, p)
  BY <1>1 DEF CheckpointOK, ParentOK, Publishes
<1>3. ASSUME published # NoCheckpoint PROVE saved = published
  <2>1. PICK q : LastCut(q, Len(Program[1])) /\ TakenIn(Commits, published, q)
    BY <1>3 DEF CheckpointOK, PublishedOK
  <2>2. q = p
    BY <1>2, <2>1, OneCut, FirstLength
  <2>3. saved.seen = published.seen
    BY <1>2, <2>1, <2>2, ToldTheSame DEF TakenIn, OrderOK
  <2> QED
    BY <1>2, <2>1, <2>2, <2>3 DEF TakenIn
<1> QED
  BY <1>2, <1>3

LEMMA PublishedStays ==
    ASSUME PositionOK, OrderOK, CheckpointOK, Moves, published # NoCheckpoint
    PROVE  published' = published
  BY PublishedAgain DEF Moves, Waits, GoesHome, BeginsRoute, Asks, Delivers, Intends, CommitsIt,
                        Finishes, Snaps, Publishes, SamePlace

LEMMA PublishedMoves ==
    ASSUME PositionOK, FilesOK, OrderOK, CheckpointOK, Moves
    PROVE  PublishedOK(Commits)'
<1>1. Commits \subseteq Commits'
  BY CommitsGrow
<1>2. PublishedOK(Commits')
  BY <1>1, PublishedKept DEF CheckpointOK
<1>3. CASE published' = published
  BY <1>2, <1>3 DEF PublishedOK
<1>4. CASE Publishes
  <2>1. PICK p : LastCut(p, Len(Program[1])) /\ TakenIn(Commits, saved, p)
    BY <1>4, PublishedAgain
  <2>2. TakenIn(Commits', saved, p)
    BY <1>1, <2>1, ToldStays DEF TakenIn
  <2> QED
    BY <1>4, <2>1, <2>2 DEF Publishes, PublishedOK
<1> QED
  BY <1>3, <1>4 DEF Moves, Waits, GoesHome, BeginsRoute, Asks, Delivers, Intends, CommitsIt,
                    Finishes, Snaps, SamePlace

LEMMA JournalOfThisRoute ==
    ASSUME Moves
    PROVE  oplog' = oplog \/ \E e : oplog' = Append(oplog, e) /\ e.route \in {1, route'}
<1>1. PlainLine(route') => oplog' = oplog \/ \E e : oplog' = Append(oplog, e) /\ e.route \in {1, route'}
  BY DEF PlainLine
<1>2. ASSUME Waits \/ Asks \/ (\E c : Delivers(c)) \/ Finishes \/ Snaps PROVE PlainLine(route')
  BY <1>2 DEF Waits, Asks, Delivers, Finishes, Snaps, SamePlace
<1>3. ASSUME NEW r, BeginsRoute(r)
      PROVE  \E e : oplog' = Append(oplog, e) /\ e.route \in {1, route'}
  <2> DEFINE from == IF r = Recovered THEN saved ELSE [seen |-> <<>>, host |-> Start0]
             line == [kind |-> "creation", route |-> r, host |-> from.host]
  <2>1. route' = r /\ oplog' = Append(oplog, line)
    BY <1>3 DEF BeginsRoute, Begin, Start0
  <2>2. line.route = r
    OBVIOUS
  <2> HIDE DEF line
  <2> QED
    BY <2>1, <2>2
<1>4. ASSUME Intends \/ CommitsIt
      PROVE  \E e : oplog' = Append(oplog, e) /\ e.route \in {1, route'}
  <2>1. CommitLine.route = route /\ EffectLine("intent").route = route
    BY LineRoutes DEF CommitLine
  <2> QED
    BY <1>4, <2>1 DEF Intends, CommitsIt, SamePlace
<1> QED
  BY <1>1, <1>2, <1>3, <1>4 DEF Moves, GoesHome, Publishes

LEMMA BeyondMoves ==
    ASSUME PositionOK, FilesOK, OrderOK, CheckpointOK, Moves
    PROVE  BeyondOK'
<1>1. /\ route' > 1 => published' # NoCheckpoint
      /\ pc' \in Ending \ {"publish"} => published' # NoCheckpoint
      /\ pc' = "publish" => route' = 1
  <2>0. /\ route > 1 \/ pc \in Ending \ {"publish"} => published # NoCheckpoint
        /\ pc = "publish" => route = 1
    BY DEF CheckpointOK, BeyondOK
  <2>01. route # 1 => route > 1
    BY Here
  <2>1. CASE Waits
    BY <2>0, <2>01, <2>1 DEF Waits, SamePlace
  <2>2. CASE GoesHome
    BY <2>2, HomePlaces DEF GoesHome
  <2>3. ASSUME NEW r, BeginsRoute(r)
        PROVE  /\ route' > 1 => published' # NoCheckpoint
               /\ pc' \in Ending \ {"publish"} => published' # NoCheckpoint
               /\ pc' = "publish" => route' = 1
    <3>1. pc' = "op" /\ route' = r /\ published' = published
      BY <2>3 DEF BeginsRoute, Begin
    <3>2. "next" \in Ending \ {"publish"}
      BY DEF Ending
    <3>3. r = 1 \/ pc = "next"
      BY <2>3 DEF BeginsRoute
    <3> QED
      BY <2>0, <3>1, <3>2, <3>3, HomePlaces
  <2>4. ASSUME Asks \/ (\E c : Delivers(c)) \/ Intends \/ CommitsIt \/ Finishes \/ Snaps
        PROVE  route' = route /\ published' = published /\ pc' \notin Ending
    BY <2>4 DEF Asks, Delivers, Intends, CommitsIt, Finishes, Snaps, SamePlace, Ending
  <2>5. CASE Publishes
    BY <2>5 DEF Publishes
  <2>6. "publish" \in Ending
    BY DEF Ending
  <2> QED
    BY <2>0, <2>1, <2>2, <2>3, <2>4, <2>5, <2>6 DEF Moves
<1>2. CheckpointFirst'
  <2>1. ASSUME NEW i \in DOMAIN oplog', oplog'[i].route > 1 PROVE published' # NoCheckpoint
    <3>1. CASE oplog' = oplog
      <4>1. published # NoCheckpoint
        BY <2>1, <3>1 DEF CheckpointOK, BeyondOK, CheckpointFirst
      <4> QED
        BY <4>1, PublishedStays
    <3>2. ASSUME NEW e, oplog' = Append(oplog, e), e.route \in {1, route'}
          PROVE  published' # NoCheckpoint
      <4>1. Longer(oplog, e, oplog')
        BY <3>2, AppendIs DEF FilesOK
      <4>2. CASE i = Len(oplog) + 1
        BY <1>1, <2>1, <3>2, <4>1, <4>2 DEF Longer
      <4>3. CASE i # Len(oplog) + 1
        <5>1. i \in DOMAIN oplog /\ oplog'[i] = oplog[i]
          BY <4>1, <4>3 DEF Longer
        <5>2. published # NoCheckpoint
          BY <2>1, <5>1 DEF CheckpointOK, BeyondOK, CheckpointFirst
        <5> QED
          BY <5>2, PublishedStays
      <4> QED
        BY <4>2, <4>3
    <3> QED
      BY <3>1, <3>2, JournalOfThisRoute
  <2> QED
    BY <2>1 DEF CheckpointFirst
<1> QED
  BY <1>1, <1>2 DEF BeyondOK

LEMMA CheckpointStarts ==
    ASSUME Init
    PROVE  CheckpointOK
<1>1. DOMAIN oplog = {}
  BY EmptyIs DEF Init
<1>2. ParentOK(Commits)
  BY StartsTold DEF Init, ParentOK
<1>3. "down" \notin Ending
  BY HomePlaces
<1> QED
  BY <1>1, <1>2, <1>3 DEF Init, CheckpointOK, PublishedOK, BeyondOK, CheckpointFirst

LEMMA CheckpointKept ==
    ASSUME [Next]_vars, IInv, OrderOK, CheckpointOK
    PROVE  CheckpointOK' /\ (published # NoCheckpoint => published' = published)
<1>1. PositionOK /\ FilesOK /\ Moves
  BY StepMoves DEF IInv
<1> QED
  BY <1>1, ParentMoves, PublishedMoves, BeyondMoves, PublishedStays DEF CheckpointOK

\* What the parent's guest was told, the checkpoint it took and the one that is published
\* agree with the journal, in every reachable state (execute, run_inner).
THEOREM CheckpointInvariant ==
    Spec => []CheckpointOK
<1>1. Init => CheckpointOK
  BY CheckpointStarts
<1>2. IInv /\ OrderOK /\ CheckpointOK /\ [Next]_vars => CheckpointOK'
  BY CheckpointKept
<1> QED
  BY <1>1, <1>2, RunInvariant, OrderInvariant, PTL DEF Spec

\* The checkpoint is published before any later route leaves a trace, and a process that
\* publishes it again publishes the same, however often the run was killed and resumed
\* (run_inner, execute).
THEOREM CheckpointSettled ==
    Spec => CheckpointIsSettled
<1>1. IInv /\ OrderOK /\ CheckpointOK /\ [Next]_vars =>
         [CheckpointFirst' /\ (published # NoCheckpoint => published' = published)]_vars
  BY CheckpointKept DEF CheckpointOK, BeyondOK
<1> QED
  BY <1>1, RunInvariant, OrderInvariant, CheckpointInvariant, PTL DEF Spec, CheckpointIsSettled
-----------------------------------------------------------------------------
\* The exactly-once protocol.

LEMMA KeyInKeys ==
    ASSUME NEW r, NEW a, Records(r, a)
    PROVE  KeyAt(r, a) \in Keys
<1>1. /\ 1 \in 1 .. ForkRoute /\ ForkRoute \in 1 .. ForkRoute
      /\ Len(Program[1]) \in Nat /\ Len(Program[ForkRoute]) \in Nat
  BY Constants, RouteIsSeq
<1>2. Len(Program[1] \o Program[ForkRoute]) = Len(Program[1]) + Len(Program[ForkRoute])
  BY <1>1, RouteIsSeq, ConcatProperties
<1>3. r \in 1 .. ForkRoute /\ DOMAIN Program[r] = 1 .. Len(Program[r])
  BY <1>1, RouteIsSeq, LenProperties DEF Records
<1>4. <<r, a>> \in Positions
  <2>1. a \in 1 .. Len(Program[r]) /\ (r = 1 \/ r = ForkRoute)
    BY DEF Records
  <2>2. PICK m, n : m = Len(Program[1]) /\ n = Len(Program[ForkRoute])
    OBVIOUS
  <2>3. a \in 1 .. m \/ a \in 1 .. n
    BY <2>1, <2>2
  <2>4. m \in Nat /\ n \in Nat
    BY <1>1, <2>2
  <2>5. a \in 1 .. m + n
    BY <2>3, <2>4
  <2>6. a \in 1 .. Len(Program[1] \o Program[ForkRoute])
    BY <1>2, <2>2, <2>5
  <2> QED
    BY <1>3, <2>6 DEF Positions, Records
<1>5. {j \in 1 .. a : Program[r][j].do = "invoke"} = Passed(r, a, "invoke")
  BY <1>1, <1>3 DEF Passed, Records
<1>6. KeyAt(r, a) = [branch |-> Program[r][a].branch,
                     event  |-> Cardinality({j \in 1 .. a : Program[r][j].do = "invoke"}),
                     effect |-> Cardinality({j \in 1 .. a - 1 : Program[r][j].do = "effect"})]
  BY <1>5 DEF KeyAt, Count, Passed
<1> DEFINE key(p) == [branch |-> Program[p[1]][p[2]].branch,
                      event  |-> Cardinality({j \in 1 .. p[2] : Program[p[1]][j].do = "invoke"}),
                      effect |-> Cardinality({j \in 1 .. p[2] - 1 : Program[p[1]][j].do = "effect"})]
<1>7. Keys = {key(p) : p \in Positions}
  BY DEF Keys
<1>8. KeyAt(r, a) = key(<<r, a>>)
  BY <1>6
<1> HIDE DEF key
<1> QED
  BY <1>4, <1>7, <1>8

Done(k) == \E i \in Executions : plog[i].key = k

Shown == [k \in Keys |-> Status(k)]

LEMMA StatusIs ==
    ASSUME NEW k
    PROVE  Status(k) = IF Has(Commits, k) THEN "committed"
                       ELSE IF Done(k) THEN "executed"
                       ELSE IF Has(Intents, k) THEN "intended" ELSE "idle"
  BY HasIs DEF Status, Done

LEMMA StatusNext ==
    ASSUME NEW k
    PROVE  Status(k)' = IF Has(Commits', k) THEN "committed"
                        ELSE IF Done(k)' THEN "executed"
                        ELSE IF Has(Intents', k) THEN "intended" ELSE "idle"
<1>1. /\ CommitsOf(k)' = {} <=> ~Has(Commits', k)
      /\ ~Has(Commits', k) => (DanglingOf(k)' = {} <=> ~Has(Intents', k))
  BY DEF CommitsOf, DanglingOf, Has, Commits, Intents
<1> QED
  BY <1>1 DEF Status, Done

LEMMA NothingShows ==
    ASSUME Intents' = Intents, Commits' = Commits, \A k : Done(k)' <=> Done(k)
    PROVE  Shown' = Shown
<1>1. ASSUME NEW k PROVE Status(k)' = Status(k)
  BY StatusIs, StatusNext
<1> QED
  BY <1>1 DEF Shown

LEMMA OneShows ==
    ASSUME NEW k \in Keys, \A j \in Keys \ {k} : Status(j)' = Status(j)
    PROVE  Protocol!Moves(k, Status(k), Status(k)')
<1>1. Shown' = [Shown EXCEPT ![k] = Status(k)']
  BY DEF Shown
<1> QED
  BY <1>1 DEF Protocol!Moves, Shown

\* What was executed was intended, and only what is recorded was intended.
LEMMA DoneIsIntended ==
    ASSUME ConversationOK, NEW k, Done(k)
    PROVE  Has(Intents, k)
  BY DEF ConversationOK, AheadOK, Done, Intended, IntendedBy, Has, Intents

\* Whatever else was intended, before this effect or after it, is committed.
LEMMA OthersAreKept ==
    ASSUME PositionOK, OrderOK, pc \in InEffect, Op.mode = "record", ~Has(Commits, Current.key),
           NEW k, Has(Intents, k), k # Current.key
    PROVE  Has(Commits, k)
<1>1. Records(route, at) /\ Current.key = KeyAt(route, at)
  BY RecordedHere DEF OrderOK
<1>2. PICK e \in Intents : e.key = k
  BY DEF Has
<1>3. PICK r, a : Records(r, a) /\ k = KeyAt(r, a)
  BY <1>2 DEF OrderOK, JournalOK, MarkedIn
<1>4. \A j : IsBehind(j, r, a) => Has(Commits, j)
  BY <1>2, <1>3 DEF OrderOK, JournalOK, InOrder
<1>5. \A j : IsBehind(j, route, at) => Has(Commits, j)
  BY DEF OrderOK, ProgressOK
<1>6. /\ ForkRoute > 1 /\ r \in {1, ForkRoute} /\ route \in {1, ForkRoute}
      /\ a \in Nat /\ at \in Nat
  <2>1. 1 \in 1 .. ForkRoute /\ ForkRoute \in 1 .. ForkRoute /\ ForkRoute > 1
    BY Constants
  <2>2. r \in {1, ForkRoute} /\ route \in {1, ForkRoute}
    BY <1>1, <1>3 DEF Records
  <2>3. Len(Program[r]) \in Nat
    BY <2>1, <2>2, RouteIsSeq
  <2> QED
    BY <1>3, <2>1, <2>2, <2>3, Here DEF Records
<1>7. CASE r = route
  <2>1. a # at
    BY <1>1, <1>3, <1>7
  <2>2. CASE a < at
    BY <1>3, <1>5, <1>7, <2>2 DEF IsBehind
  <2>3. CASE at < a
    <3>1. IsBehind(Current.key, r, a)
      BY <1>1, <1>7, <2>3 DEF IsBehind
    <3> QED
      BY <1>4, <3>1
  <2> QED
    BY <1>6, <2>1, <2>2, <2>3
<1>8. CASE r = 1 /\ route = ForkRoute
  BY <1>3, <1>5, <1>6, <1>8 DEF IsBehind
<1>9. CASE r = ForkRoute /\ route = 1
  <2>1. IsBehind(Current.key, r, a)
    BY <1>1, <1>6, <1>9 DEF IsBehind
  <2> QED
    BY <1>4, <2>1
<1> QED
  BY <1>6, <1>7, <1>8, <1>9

LEMMA IntendsAnnounces ==
    ASSUME PositionOK, FilesOK, ConversationOK, OrderOK, Intends, plog' = plog
    PROVE  \E k \in Keys : Protocol!Announce(k)
<1>k. PICK key : key = Current.key
  OBVIOUS
<1> DEFINE line == EffectLine("intent")
<1>0. line.kind = "intent" /\ line.key = key
  BY <1>k, LinesAre
<1> HIDE DEF line
<1>1. Intents' = Intents \cup {line} /\ Commits' = Commits
  BY <1>0, EntriesGrow DEF Intends, Intents, Commits, line
<1>2. \A k : Done(k)' <=> Done(k)
  BY DEF Done, Executions
<1>3. ~Has(Commits, key) /\ ~Has(Intents, key) /\ ~Done(key)
  BY <1>k, DoneIsIntended DEF Intends
<1>4. key \in Keys
  BY <1>k, RecordedHere, HomePlaces, KeyInKeys DEF Intends, OrderOK
<1>5. \A k : Has(Intents, k) => Has(Commits, k)
  BY <1>k, <1>3, OthersAreKept, HomePlaces DEF Intends
<1>6. \A j \in Keys : Status(j) \in {"idle", "committed"}
  BY <1>5, DoneIsIntended, StatusIs
<1>7. Status(key) = "idle" /\ Status(key)' = "intended"
  <2>1. Has(Intents', key)
    BY <1>0, <1>1 DEF Has
  <2> QED
    BY <1>1, <1>2, <1>3, <2>1, StatusIs, StatusNext
<1>8. ASSUME NEW j \in Keys \ {key} PROVE Status(j)' = Status(j)
  <2>1. Has(Intents', j) <=> Has(Intents, j)
    BY <1>0, <1>1, <1>8 DEF Has
  <2> QED
    BY <1>1, <1>2, <2>1, StatusIs, StatusNext
<1>9. Protocol!Moves(key, "idle", "intended")
  BY <1>4, <1>7, <1>8, OneShows
<1> QED
  BY <1>4, <1>6, <1>9 DEF Protocol!Announce

LEMMA CommitKeepsIt ==
    ASSUME PositionOK, FilesOK, ConversationOK, OrderOK, CommitsIt, plog' = plog
    PROVE  \E k \in Keys : Protocol!Keep(k)
<1>k. PICK key : key = Current.key
  OBVIOUS
<1> DEFINE line == CommitLine
<1>0. line.kind = "commit" /\ line.key = key
  BY <1>k, LinesAre
<1> HIDE DEF line
<1>1. Commits' = Commits \cup {line} /\ Intents' = Intents
  BY <1>0, EntriesGrow DEF CommitsIt, Intents, Commits, line
<1>2. \A k : Done(k)' <=> Done(k)
  BY DEF Done, Executions
<1>3. Op.mode = "record" /\ ~Has(Commits, key)
  BY <1>k, HomePlaces DEF CommitsIt, OrderOK, ProgressOK
<1>4. key \in Keys
  BY <1>k, <1>3, RecordedHere, HomePlaces, KeyInKeys DEF CommitsIt, OrderOK
<1>5. Done(key)
  <2>1. Performed(Current, answer.result)
    BY DEF CommitsIt, ConversationOK, AnswerOK
  <2> QED
    BY <1>k, <2>1 DEF Performed, Bounds, Bound, Done
<1>6. Status(key) = "executed" /\ Status(key)' = "committed"
  <2>1. Has(Commits', key)
    BY <1>0, <1>1 DEF Has
  <2> QED
    BY <1>3, <1>5, <2>1, StatusIs, StatusNext
<1>7. ASSUME NEW j \in Keys \ {key} PROVE Status(j)' = Status(j)
  <2>1. Has(Commits', j) <=> Has(Commits, j)
    BY <1>0, <1>1, <1>7 DEF Has
  <2> QED
    BY <1>1, <1>2, <2>1, StatusIs, StatusNext
<1>8. Protocol!Moves(key, "executed", "committed")
  BY <1>4, <1>6, <1>7, OneShows
<1> QED
  BY <1>4, <1>8 DEF Protocol!Keep

\* The provider performs what was intended; again, when two processes overlapped.
LEMMA PerformShows ==
    ASSUME ConversationOK, OrderOK, LogGrew, UNCHANGED oplog, NEW r, Intended(r),
           \A i \in Executions' : i \notin Executions => plog'[i].key = r.key
    PROVE  Shown' = Shown \/ \E k \in Keys : Protocol!Perform(k)
<1> DEFINE key == r.key
<1>1. Intents' = Intents /\ Commits' = Commits
  BY SameEntries DEF Intents, Commits
<1>2. Has(Intents, key) /\ key \in Keys
  <2>1. PICK e \in Intents : e.key = key
    BY DEF Intended, IntendedBy, Intents
  <2>2. PICK q, a : Records(q, a) /\ e.key = KeyAt(q, a)
    BY <2>1 DEF OrderOK, JournalOK, MarkedIn
  <2> QED
    BY <2>1, <2>2, KeyInKeys DEF Has
<1>3. \A k : Done(k) => Done(k)'
  BY DEF Done, LogGrew
<1>4. \A k : k # key /\ Done(k)' => Done(k)
  BY DEF Done, LogGrew
<1> HIDE DEF key
<1>5. CASE Done(key)' => Done(key)
  <2>1. \A k : Done(k)' <=> Done(k)
    BY <1>3, <1>4, <1>5
  <2> QED
    BY <1>1, <2>1, NothingShows
<1>6. CASE Done(key)' /\ ~Done(key)
  <2>1. \A j \in Keys \ {key} : Status(j)' = Status(j)
    BY <1>1, <1>3, <1>4, StatusIs, StatusNext
  <2>2. Protocol!Moves(key, Status(key), Status(key)')
    BY <1>2, <2>1, OneShows
  <2>3. CASE Has(Commits, key)
    <3>1. Status(key) = "committed" /\ Status(key)' = "committed"
      BY <1>1, <2>3, StatusIs, StatusNext
    <3>2. \A j \in Keys : Status(j)' = Status(j)
      BY <2>1, <3>1
    <3> QED
      BY <3>2 DEF Shown
  <2>4. CASE ~Has(Commits, key)
    <3>1. Status(key) = "intended" /\ Status(key)' = "executed"
      BY <1>1, <1>2, <1>6, <2>4, StatusIs, StatusNext
    <3>2. Protocol!Moves(key, "intended", "executed")
      BY <2>2, <3>1
    <3> QED
      BY <1>2, <3>2 DEF Protocol!Perform
  <2> QED
    BY <2>3, <2>4
<1> QED
  BY <1>5, <1>6

LEMMA LogSameShows ==
    ASSUME LogSame, UNCHANGED oplog
    PROVE  Shown' = Shown
<1>1. Intents' = Intents /\ Commits' = Commits
  BY SameEntries DEF Intents, Commits
<1>2. \A k : Done(k)' <=> Done(k)
  BY DEF Done, LogSame, LogGrew
<1> QED
  BY <1>1, <1>2, NothingShows

LEMMA ProviderShows ==
    ASSUME IInv, OrderOK, NEW p \in Providers, ProviderStep(p)
    PROVE  Shown' = Shown \/ \E k \in Keys : Protocol!Perform(k)
<1>0. ProviderOK /\ ConversationOK /\ UNCHANGED oplog
  BY DEF IInv, ProviderStep, executorVars, files
<1>1. CASE Bind(p) \/ Rebuild(p)
  BY <1>0, <1>1, SameLogSame, LogSameShows DEF Bind, Rebuild
<1>2. ASSUME NEW status, plog' = Append(plog, MarkLine(p, status)), status # "executed"
      PROVE  Shown' = Shown
  <2>1. MarkLine(p, status).status # "executed"
    BY <1>2, MarkLineIs
  <2>2. LogSame
    BY <1>0, <1>2, <2>1, LogGrows DEF LogSame, LogGrew, ProviderOK
  <2> QED
    BY <1>0, <2>2, LogSameShows
<1>3. CASE Announce(p)
  BY <1>2, <1>3 DEF Announce, Mark, Record, MarkLine
<1>4. CASE Serve(p) /\ UNCHANGED executorVars
  <2> DEFINE r == Head(prov[p].backlog)
  <2>1. Served(p, r) /\ prov[p].backlog # <<>>
    BY <1>0, <1>4, ServeKept DEF Serve
  <2>2. r.op = "effect" => Intended(r)
    BY <1>0, <2>1, HeadIsCall DEF ConversationOK, AheadOK
  <2> HIDE DEF r
  <2>3. CASE Shutdown(p, r)
    BY <1>2, <2>3 DEF Shutdown, Mark, Record, MarkLine
  <2>4. ASSUME NEW status, NEW result, Answers(p, r, status, result)
        PROVE  Shown' = Shown
    <3>1. LogSame
      BY <1>0, <2>4, LoggedGrew DEF Answers, LogSame, LogGrew
    <3> QED
      BY <1>0, <3>1, LogSameShows
  <2>5. ASSUME r.op = "effect", NEW result, Performs(p, r, result)
        PROVE  Shown' = Shown \/ \E k \in Keys : Protocol!Perform(k)
    <3>1. LogGrew /\ \A i \in Executions' : i \notin Executions => plog'[i].key = r.key
      BY <1>0, <2>5, LoggedGrew DEF Performs
    <3> QED
      BY <1>0, <2>2, <2>5, <3>1, PerformShows
  <2> QED
    BY <2>1, <2>3, <2>4, <2>5 DEF Served
<1> QED
  BY <1>1, <1>3, <1>4 DEF ProviderStep

LEMMA ExecutorLeavesLog ==
    ASSUME ProviderOK, [Next]_vars
    PROVE  plog' = plog \/ \E p \in Providers : ProviderStep(p)
<1> USE DEF providerVars
<1>1. CASE ExecutorStep
  <2>1. ProviderSide
    BY <1>1, SidesAre DEF ProviderOK
  <2> QED
    BY <2>1 DEF ProviderSide, EnsureSpawns, Spawn, Sent
<1>2. CASE Start \/ Resume \/ ExecutorDies
  BY <1>2 DEF Start, Resume, ExecutorDies
<1>3. ASSUME NEW p \in Providers, ProviderKilled(p) PROVE plog' = plog
  BY <1>3 DEF ProviderKilled, ProviderDies
<1>4. CASE UNCHANGED vars
  BY <1>4 DEF vars
<1> QED
  BY <1>1, <1>2, <1>3, <1>4 DEF Next

LEMMA StepShows ==
    ASSUME IInv, OrderOK, [Next]_vars
    PROVE  Protocol!Next \/ Shown' = Shown
<1>1. PositionOK /\ FilesOK /\ ProviderOK /\ ConversationOK /\ Moves
  BY StepMoves DEF IInv
<1>2. ASSUME NEW p \in Providers, ProviderStep(p) PROVE Protocol!Next \/ Shown' = Shown
  BY <1>2, ProviderShows DEF Protocol!Next
<1>3. CASE plog' = plog
  <2>1. \A k : Done(k)' <=> Done(k)
    BY <1>3 DEF Done, Executions
  <2>2. \A r : PlainLine(r) => Shown' = Shown
    BY <1>1, <2>1, PlainEntries, NothingShows
  <2>3. ASSUME NEW r, BeginsRoute(r) PROVE Shown' = Shown
    <3> DEFINE from == IF r = Recovered THEN saved ELSE [seen |-> <<>>, host |-> Start0]
               line == [kind |-> "creation", route |-> r, host |-> from.host]
    <3>1. oplog' = Append(oplog, line)
      BY <2>3 DEF BeginsRoute, Begin, Start0
    <3>2. line.kind = "creation"
      OBVIOUS
    <3> HIDE DEF line
    <3>3. Intents' = Intents /\ Commits' = Commits
      BY <1>1, <3>1, <3>2, EntriesGrow DEF Intents, Commits
    <3> QED
      BY <2>1, <3>3, NothingShows
  <2>4. ASSUME GoesHome \/ Publishes PROVE PlainLine(route)
    BY <2>4 DEF GoesHome, Publishes, PlainLine
  <2>5. ASSUME Waits \/ Asks \/ (\E c : Delivers(c)) \/ Finishes \/ Snaps PROVE PlainLine(route)
    BY <2>5 DEF Waits, Asks, Delivers, Finishes, Snaps
  <2>6. CASE Intends \/ CommitsIt
    BY <1>1, <1>3, <2>6, IntendsAnnounces, CommitKeepsIt DEF Protocol!Next
  <2> QED
    BY <1>1, <2>2, <2>3, <2>4, <2>5, <2>6 DEF Moves
<1> QED
  BY <1>1, <1>2, <1>3, ExecutorLeavesLog

LEMMA IdleAtFirst ==
    ASSUME Init
    PROVE  Protocol!Init
<1>1. Entries("intent") = {} /\ Entries("commit") = {} /\ Executions = {}
  BY EmptyIs DEF Init, ProviderInit, Entries, Executions
<1>2. ASSUME NEW k PROVE Status(k) = "idle"
  BY <1>1, StatusIs DEF Has, Done, Intents, Commits
<1> QED
  BY <1>2 DEF Protocol!Init

\* Effect by effect the run implements the exactly-once protocol, kills, torn lines, reissues
\* and provider processes that overlap included: it is announced, performed and recorded in
\* this order, and none is announced before the one before it is recorded (Host::effect,
\* Server::handle).
THEOREM ProtocolImplemented ==
    Spec => ImplementsProtocol
<1>1. Init => Protocol!Init
  BY IdleAtFirst
<1>2. IInv /\ OrderOK /\ [Next]_vars => [Protocol!Next]_([k \in Keys |-> Status(k)])
  BY StepShows DEF Shown
<1> QED
  BY <1>1, <1>2, RunInvariant, OrderInvariant, PTL DEF Spec, ImplementsProtocol, Protocol!Spec

-----------------------------------------------------------------------------
\* Where in the scenario a route is. A walk gives for each of its operations the event and
\* the place in it: an effect is the one that is there, an invocation ends the event.

AtEffect(ev, op, from, to) ==
    \E e \in 1 .. Len(ev) : \E j \in 1 .. Len(ev[e]) :
        op.do = "effect" /\ op.name = ev[e][j] /\ from = <<e, j>> /\ to = <<e, j + 1>>

AtInvoke(ev, op, from, to) ==
    \E e \in 1 .. Len(ev) :
        op.do = "invoke" /\ from = <<e, Len(ev[e]) + 1>> /\ to = <<e + 1, 1>>

AtCut(ev, cut, op, from, to) ==
    op.do = "checkpoint" /\ cut \in 1 .. Len(ev) /\ from = <<cut + 1, 1>> /\ to = from

Walked(ops, ev, cut, w, p) ==
    \/ AtEffect(ev, ops[p], w[p], w[p + 1])
    \/ AtInvoke(ev, ops[p], w[p], w[p + 1])
    \/ AtCut(ev, cut, ops[p], w[p], w[p + 1]) /\ p # 1 /\ ops[p - 1].do = "invoke"

Walks(ops, ev, cut, w, i) ==
    /\ w \in [1 .. Len(ops) + 1 -> Nat \X Nat]
    /\ w[1] = <<1, 1>> /\ w[Len(ops) + 1] = <<i + 1, 1>>
    /\ \A p \in 1 .. Len(ops) : Walked(ops, ev, cut, w, p)

Cut(b) == [do |-> "checkpoint", branch |-> b]

Block(event, b, m, last) == EventOps(event, b, m) \o IF last THEN <<Cut(b)>> ELSE <<>>

\* c is s and then t.
Joins(S, s, t, c) ==
    /\ c \in Seq(S) /\ Len(c) = Len(s) + Len(t) /\ Len(s) \in Nat /\ Len(t) \in Nat
    /\ \A i \in 1 .. Len(s) : c[i] = s[i]
    /\ \A i \in 1 .. Len(t) : c[Len(s) + i] = t[i]

LEMMA ConcatIs ==
    ASSUME NEW S, NEW s \in Seq(S), NEW t \in Seq(S), NEW c, c = s \o t
    PROVE  Joins(S, s, t, c)
<1>1. Len(s) \in Nat /\ Len(t) \in Nat
  BY LenProperties
<1>2. /\ c \in Seq(S) /\ Len(c) = Len(s) + Len(t)
      /\ \A i \in 1 .. Len(s) + Len(t) : c[i] = IF i <= Len(s) THEN s[i] ELSE t[i - Len(s)]
  BY ConcatProperties
<1>3. ASSUME NEW i \in 1 .. Len(t)
      PROVE  c[Len(s) + i] = t[i]
  <2>1. /\ Len(s) + i \in 1 .. Len(s) + Len(t) /\ ~(Len(s) + i <= Len(s))
        /\ Len(s) + i - Len(s) = i
    BY <1>1
  <2> QED
    BY <1>2, <2>1
<1> QED
  BY <1>1, <1>2, <1>3 DEF Joins

\* Of an event: its effects, its invocation, and the checkpoint if it is the last before it.
IsBlock(x, event, b, m, last) ==
    /\ x \in Seq(OpsOf(b, m)) /\ Len(event) \in Nat
    /\ Len(x) = Len(event) + 1 + (IF last THEN 1 ELSE 0)
    /\ \A j \in 1 .. Len(event) : x[j].do = "effect" /\ x[j].name = event[j]
    /\ x[Len(event) + 1].do = "invoke"
    /\ last => x[Len(event) + 2].do = "checkpoint"

LEMMA BlockIs ==
    ASSUME NEW event \in Seq(Names), NEW b, NEW m, NEW last \in BOOLEAN
    PROVE  IsBlock(Block(event, b, m, last), event, b, m, last)
<1> DEFINE n == Len(event)
           f == [i \in DOMAIN event |-> EffectOp(event[i], b, m)]
           one == [do |-> "invoke", branch |-> b]
           O == OpsOf(b, m)
           c == Cut(b)
           rest == IF last THEN <<c>> ELSE <<>>
           e == EventOps(event, b, m)
           x == Block(event, b, m, last)
<1>1. n \in Nat /\ DOMAIN event = 1 .. n /\ \A i \in 1 .. n : event[i] \in Names
  BY LenProperties
<1>2. /\ \A i \in 1 .. n : f[i] \in O /\ f[i].do = "effect" /\ f[i].name = event[i]
      /\ one \in O /\ one.do = "invoke" /\ c \in O /\ c.do = "checkpoint"
  BY <1>1 DEF EffectOp, OpsOf, Cut
<1>3. f \in [1 .. n -> O]
  BY <1>1, <1>2
<1>4. e = f \o <<one>> /\ x = e \o rest
  BY DEF EventOps, Block
<1> HIDE DEF f, n, one, O, c, e, x
<1>5. f \in Seq(O) /\ Len(f) = n
  BY <1>1, <1>3, SeqDef, LenProperties
<1>6. <<one>> \in Seq(O) /\ Len(<<one>>) = 1 /\ <<one>>[1] = one
  BY <1>2
<1>7. /\ rest \in Seq(O) /\ Len(rest) = (IF last THEN 1 ELSE 0) /\ (last => rest[1] = c)
  BY <1>2
<1> HIDE DEF rest
<1>8. /\ e \in Seq(O) /\ Len(e) = n + 1
      /\ (\A i \in 1 .. n : e[i] = f[i]) /\ e[n + 1] = one
  <2> DEFINE t == <<one>>
  <2>1. e = f \o t /\ t \in Seq(O) /\ Len(t) = 1 /\ t[1] = one
    BY <1>4, <1>6
  <2> HIDE DEF t
  <2>2. Joins(O, f, t, e)
    BY <1>5, <2>1, ConcatIs
  <2> QED
    BY <1>1, <1>5, <2>1, <2>2 DEF Joins
<1>9. /\ x \in Seq(O) /\ Len(x) = n + 1 + (IF last THEN 1 ELSE 0)
      /\ (\A i \in 1 .. n + 1 : x[i] = e[i]) /\ (last => x[n + 2] = c)
  <2>1. Joins(O, e, rest, x)
    BY <1>4, <1>7, <1>8, ConcatIs
  <2>2. last => x[n + 2] = c
    <3>1. last => 1 \in 1 .. Len(rest) /\ n + 1 + 1 = n + 2
      BY <1>1, <1>7
    <3> QED
      BY <1>7, <1>8, <2>1, <3>1 DEF Joins
  <2> QED
    BY <1>7, <1>8, <2>1, <2>2 DEF Joins
<1>10. \A j \in 1 .. n : x[j] = f[j]
  BY <1>1, <1>8, <1>9
<1>11. x[n + 1] = one
  BY <1>1, <1>8, <1>9
<1>13. /\ x \in Seq(O) /\ n \in Nat /\ Len(x) = n + 1 + (IF last THEN 1 ELSE 0)
       /\ \A j \in 1 .. n : x[j].do = "effect" /\ x[j].name = event[j]
       /\ x[n + 1].do = "invoke" /\ (last => x[n + 2].do = "checkpoint")
  BY <1>1, <1>2, <1>9, <1>10, <1>11
<1> QED
  BY <1>13 DEF IsBlock, x, n, O

\* The walk x of c goes on from the walk w of n operations with the event i + 1: its k effects,
\* its invocation, and the checkpoint behind it if this is the last event before the cut.
Further(w, n, k, l, i) ==
    [p \in 1 .. n + l + 1 |-> IF p <= n THEN w[p]
                              ELSE IF p <= n + k + 1 THEN <<i + 1, p - n>> ELSE <<i + 2, 1>>]

Extends(x, w, n, k, l, i) ==
    /\ x \in [1 .. n + l + 1 -> Nat \X Nat]
    /\ \A p \in 1 .. n + 1 : x[p] = w[p]
    /\ \A j \in 1 .. k + 1 : x[n + j] = <<i + 1, j>>
    /\ x[n + k + 2] = <<i + 2, 1>> /\ x[n + l + 1] = <<i + 2, 1>>

LEMMA WalkExtends ==
    ASSUME NEW n \in Nat, NEW k \in Nat, NEW i \in Nat, NEW l \in {k + 1, k + 2},
           NEW w \in [1 .. n + 1 -> Nat \X Nat], w[n + 1] = <<i + 1, 1>>
    PROVE  Extends(Further(w, n, k, l, i), w, n, k, l, i)
<1>0. PICK x : x = [p \in 1 .. n + l + 1 |-> IF p <= n THEN w[p]
                                        ELSE IF p <= n + k + 1 THEN <<i + 1, p - n>>
                                        ELSE <<i + 2, 1>>]
  OBVIOUS
<1>1. \A p \in 1 .. n : x[p] = w[p]
  BY <1>0
<1>2. ASSUME NEW j \in 1 .. k + 1
      PROVE  x[n + j] = <<i + 1, j>>
  <2>1. n + j \in 1 .. n + l + 1 /\ ~(n + j <= n) /\ n + j <= n + k + 1 /\ n + j - n = j
    OBVIOUS
  <2> QED
    BY <1>0, <2>1
<1>3. ASSUME NEW q \in {n + k + 2, n + l + 1}
      PROVE  x[q] = <<i + 2, 1>>
  <2>1. q \in 1 .. n + l + 1 /\ ~(q <= n) /\ ~(q <= n + k + 1)
    OBVIOUS
  <2> QED
    BY <1>0, <2>1
<1>4. x[n + 1] = w[n + 1]
  <2>1. 1 \in 1 .. k + 1
    OBVIOUS
  <2> QED
    BY <1>2, <2>1
<1>5. \A p \in 1 .. n + 1 : x[p] = w[p]
  <2>1. \A p \in 1 .. n + 1 : p \in 1 .. n \/ p = n + 1
    OBVIOUS
  <2> QED
    BY <1>1, <1>4, <2>1
<1>6. ASSUME NEW p \in 1 .. n + l + 1
      PROVE  x[p] \in Nat \X Nat
  <2>1. CASE p <= n
    BY <1>0, <1>1, <2>1
  <2>2. CASE ~(p <= n) /\ p <= n + k + 1
    <3>1. x[p] = <<i + 1, p - n>> /\ i + 1 \in Nat /\ p - n \in Nat
      BY <1>0, <2>2
    <3> QED
      BY <3>1
  <2>3. CASE ~(p <= n) /\ ~(p <= n + k + 1)
    <3>1. x[p] = <<i + 2, 1>> /\ i + 2 \in Nat
      BY <1>0, <2>3
    <3> QED
      BY <3>1
  <2> QED
    BY <2>1, <2>2, <2>3
<1> QED
  <2>1. x = [p \in 1 .. n + l + 1 |-> x[p]]
    BY <1>0
  <2>2. x \in [1 .. n + l + 1 -> Nat \X Nat]
    BY <1>6, <2>1
  <2>3. Extends(x, w, n, k, l, i)
    BY <1>2, <1>3, <1>5, <2>2 DEF Extends
  <2> QED
    BY <1>0, <2>3, Zenon DEF Further

LEMMA WalkOn ==
    ASSUME NEW b, NEW m, NEW ev \in Seq(Seq(Names)), NEW cut, NEW i \in Nat, i + 1 \in 1 .. Len(ev),
           NEW ops \in Seq(OpsOf(b, m)), NEW w, Walks(ops, ev, cut, w, i),
           NEW c, c = ops \o Block(ev[i + 1], b, m, i + 1 = cut)
    PROVE  c \in Seq(OpsOf(b, m)) /\ \E x : Walks(c, ev, cut, x, i + 1)
<1>1. PICK event, last : event = ev[i + 1] /\ event \in Seq(Names) /\ last \in BOOLEAN
                         /\ last = (i + 1 = cut) /\ (last => i + 1 = cut)
  BY LenProperties
<1>2. PICK blk, k : /\ blk = Block(event, b, m, last) /\ k = Len(event)
                    /\ blk \in Seq(OpsOf(b, m)) /\ k \in Nat
                    /\ Len(blk) = k + 1 + (IF last THEN 1 ELSE 0)
                    /\ \A j \in 1 .. k : blk[j].do = "effect" /\ blk[j].name = event[j]
                    /\ blk[k + 1].do = "invoke" /\ (last => blk[k + 2].do = "checkpoint")
  <2>1. PICK x : x = Block(event, b, m, last)
    OBVIOUS
  <2>2. IsBlock(x, event, b, m, last)
    BY <1>1, <2>1, BlockIs
  <2> QED
    BY <2>1, <2>2, Zenon DEF IsBlock
<1>3. PICK n, l : n = Len(ops) /\ l = Len(blk) /\ n \in Nat /\ l \in Nat
  BY <1>2, LenProperties
<1>4. /\ c \in Seq(OpsOf(b, m)) /\ Len(c) = n + l
      /\ \A p \in 1 .. n : c[p] = ops[p]
      /\ \A j \in 1 .. l : c[n + j] = blk[j]
  <2>1. c = ops \o blk
    BY <1>1, <1>2, Zenon
  <2>2. Joins(OpsOf(b, m), ops, blk, c)
    BY <1>2, <2>1, ConcatIs
  <2> QED
    BY <1>3, <2>2, Zenon DEF Joins
<1>5. /\ w \in [1 .. n + 1 -> Nat \X Nat] /\ w[1] = <<1, 1>> /\ w[n + 1] = <<i + 1, 1>>
      /\ \A p \in 1 .. n : Walked(ops, ev, cut, w, p)
  BY <1>3 DEF Walks
<1>6. Len(ev) \in Nat
  BY LenProperties
<1> DEFINE x == Further(w, n, k, l, i)
<1>a. l \in {k + 1, k + 2}
  BY <1>2, <1>3
<1>7. /\ x \in [1 .. n + l + 1 -> Nat \X Nat]
      /\ \A p \in 1 .. n + 1 : x[p] = w[p]
      /\ \A j \in 1 .. k + 1 : x[n + j] = <<i + 1, j>>
      /\ x[n + k + 2] = <<i + 2, 1>> /\ x[n + l + 1] = <<i + 2, 1>>
  <2>1. w \in [1 .. n + 1 -> Nat \X Nat] /\ w[n + 1] = <<i + 1, 1>> /\ k \in Nat /\ n \in Nat
    BY <1>2, <1>3, <1>5
  <2>2. Extends(x, w, n, k, l, i)
    BY <1>a, <2>1, WalkExtends
  <2> QED
    BY <2>2, Zenon DEF Extends
<1> HIDE DEF x
<1>9. ASSUME NEW p \in 1 .. n
      PROVE  Walked(c, ev, cut, x, p)
  <2>1. p + 1 \in 1 .. n + 1 /\ p \in 1 .. n + 1 /\ (p # 1 => p - 1 \in 1 .. n)
    BY <1>3
  <2>2. c[p] = ops[p] /\ x[p] = w[p] /\ x[p + 1] = w[p + 1] /\ (p # 1 => c[p - 1] = ops[p - 1])
    BY <1>4, <1>7, <2>1
  <2>3. Walked(ops, ev, cut, w, p)
    BY <1>5
  <2> QED
    BY <2>2, <2>3 DEF Walked
<1>10. ASSUME NEW j \in 1 .. k
       PROVE  Walked(c, ev, cut, x, n + j)
  <2>0. k \in Nat /\ n \in Nat
    BY <1>2, <1>3
  <2>1. j \in 1 .. l /\ j \in 1 .. k + 1 /\ j + 1 \in 1 .. k + 1 /\ n + (j + 1) = n + j + 1
    BY <1>a, <2>0
  <2>2. c[n + j] = blk[j] /\ x[n + j] = <<i + 1, j>> /\ x[n + j + 1] = <<i + 1, j + 1>>
    BY <1>4, <1>7, <2>1
  <2>3. blk[j].do = "effect" /\ blk[j].name = ev[i + 1][j] /\ j \in 1 .. Len(ev[i + 1])
    BY <1>1, <1>2
  <2>4. AtEffect(ev, blk[j], <<i + 1, j>>, <<i + 1, j + 1>>)
    BY <2>3 DEF AtEffect
  <2> QED
    BY <2>2, <2>4 DEF Walked
<1>11. Walked(c, ev, cut, x, n + (k + 1))
  <2>1. k + 1 \in 1 .. l /\ k + 1 \in 1 .. k + 1 /\ n + (k + 1) + 1 = n + k + 2
    BY <1>2, <1>3, <1>a
  <2>2. /\ c[n + (k + 1)] = blk[k + 1] /\ x[n + (k + 1)] = <<i + 1, k + 1>>
        /\ x[n + (k + 1) + 1] = <<i + 2, 1>>
    BY <1>4, <1>7, <2>1
  <2>3. blk[k + 1].do = "invoke" /\ k + 1 = Len(ev[i + 1]) + 1 /\ i + 1 + 1 = i + 2
    BY <1>1, <1>2
  <2>4. AtInvoke(ev, blk[k + 1], <<i + 1, k + 1>>, <<i + 2, 1>>)
    BY <2>3 DEF AtInvoke
  <2> QED
    BY <2>2, <2>4 DEF Walked
<1>12. ASSUME last
       PROVE  Walked(c, ev, cut, x, n + (k + 2))
  <2>1. /\ l = k + 2 /\ k + 2 \in 1 .. l /\ k + 1 \in 1 .. l /\ n + (k + 2) # 1
        /\ (n + (k + 2)) - 1 = n + (k + 1) /\ n + (k + 2) = n + k + 2
        /\ n + (k + 2) + 1 = n + l + 1
    BY <1>2, <1>3, <1>12
  <2>2. c[n + (k + 2)] = blk[k + 2] /\ c[(n + (k + 2)) - 1] = blk[k + 1]
    BY <1>4, <2>1
  <2>3. x[n + (k + 2)] = <<i + 2, 1>> /\ x[n + (k + 2) + 1] = <<i + 2, 1>>
    BY <1>7, <2>1
  <2>4. cut \in 1 .. Len(ev) /\ cut + 1 = i + 2
    BY <1>1, <1>12
  <2>5. blk[k + 1].do = "invoke" /\ blk[k + 2].do = "checkpoint"
    BY <1>2, <1>12
  <2>6. AtCut(ev, cut, blk[k + 2], <<i + 2, 1>>, <<i + 2, 1>>)
    BY <2>4, <2>5 DEF AtCut
  <2> DEFINE q == n + (k + 2)
  <2>7. /\ AtCut(ev, cut, c[q], x[q], x[q + 1]) /\ q # 1
        /\ c[q - 1].do = "invoke"
    <3>1. c[q] = blk[k + 2] /\ c[q - 1] = blk[k + 1] /\ x[q] = <<i + 2, 1>> /\ x[q + 1] = <<i + 2, 1>>
      BY <2>2, <2>3, Zenon
    <3>2. q # 1
      BY <2>1
    <3> HIDE DEF q
    <3> QED
      BY <2>5, <2>6, <3>1, <3>2
  <2> HIDE DEF q
  <2>8. Walked(c, ev, cut, x, q)
    BY <2>7, Zenon DEF Walked
  <2> QED
    BY <2>8 DEF q
<1>13. ASSUME NEW p \in 1 .. n + l
       PROVE  Walked(c, ev, cut, x, p)
  <2>1. \/ p \in 1 .. n \/ (p - n \in 1 .. k /\ p = n + (p - n)) \/ p = n + (k + 1)
        \/ last /\ p = n + (k + 2)
    <3>1. (last /\ l = k + 2) \/ l = k + 1
      BY <1>2, <1>3
    <3>2. k \in Nat /\ n \in Nat
      BY <1>2, <1>3
    <3> QED
      BY <3>1, <3>2
  <2>2. CASE p - n \in 1 .. k /\ p = n + (p - n)
    BY <1>10, <2>2, Zenon
  <2> QED
    BY <1>9, <1>11, <1>12, <2>1, <2>2
<1>14. x[1] = <<1, 1>> /\ x[n + l + 1] = <<i + 1 + 1, 1>>
  BY <1>3, <1>5, <1>7
<1> QED
  BY <1>4, <1>7, <1>13, <1>14 DEF Walks

\* Every sequence of events can be walked.
LEMMA WalkIs ==
    ASSUME NEW ev \in Seq(Seq(Names)), NEW b, NEW m, NEW cut
    PROVE  \E w : Walks(Ops(ev, b, m, cut), ev, cut, w, Len(ev))
<1> DEFINE n == Len(ev)
           O == OpsOf(b, m)
           s == [i \in DOMAIN ev |-> Block(ev[i], b, m, i = cut)]
<1>1. n \in Nat /\ DOMAIN ev = 1 .. n /\ \A i \in 1 .. n : ev[i] \in Seq(Names)
  BY LenProperties
<1>2. Ops(ev, b, m, cut) = FlattenSeq(s)
  BY DEF Ops, Block, Cut
<1>3. /\ s \in [1 .. n -> Seq(O)]
      /\ \A i \in 1 .. n : s[i] = Block(ev[i], b, m, i = cut)
  <2>1. ASSUME NEW i \in 1 .. n
        PROVE  Block(ev[i], b, m, i = cut) \in Seq(O)
    <3>1. PICK e, last : e = ev[i] /\ last = (i = cut) /\ e \in Seq(Names) /\ last \in BOOLEAN
      BY <1>1
    <3>2. Block(e, b, m, last) \in Seq(O)
      BY <3>1, BlockIs DEF IsBlock
    <3> QED
      BY <3>1, <3>2
  <2> QED
    BY <1>1, <2>1
<1>4. Walks(<<>>, ev, cut, [p \in 1 .. 1 |-> <<1, 1>>], 0) /\ <<>> \in Seq(O)
  <2>1. Len(<<>>) = 0
    BY EmptyIs
  <2> QED
    BY <2>1 DEF Walks
<1> HIDE DEF s, n, O
<1>5. CASE n = 0
  <2>1. Ops(ev, b, m, cut) = <<>>
    BY <1>1, <1>2, <1>3, <1>5, FlattensTo
  <2> QED
    BY <1>4, <1>5, <2>1 DEF n
<1>6. CASE n # 0
  <2>1. PICK h : FlatteningOf(h, O, s, n)
    BY <1>1, <1>3, <1>6, FlattensTo
  <2> DEFINE Bad == {i \in 1 .. n : ~\E w : Walks(h[i], ev, cut, w, i)}
  <2>2. Bad = {}
    <3> SUFFICES ASSUME Bad # {} PROVE FALSE
      OBVIOUS
    <3>1. PICK i \in Bad : \A j \in Bad : i <= j
      <4>1. Bad \in SUBSET Nat
        BY <1>1
      <4> HIDE DEF Bad
      <4> QED
        BY <4>1, SmallestOf
    <3>2. i \in 1 .. n /\ i \in Nat /\ ~\E w : Walks(h[i], ev, cut, w, i)
      BY <1>1, <3>1
    <3> DEFINE k == i - 1
               a == IF i = 1 THEN <<>> ELSE h[k]
    <3>3. k \in Nat /\ k + 1 = i
      BY <3>2
    <3>4. a \in Seq(O) /\ \E w : Walks(a, ev, cut, w, k)
      <4>1. CASE i = 1
        BY <1>4, <4>1
      <4>2. CASE i # 1
        <5>1. k \in 1 .. n /\ k \notin Bad
          <6>1. k \in 1 .. n /\ ~(i <= k)
            BY <1>1, <3>2, <4>2
          <6> HIDE DEF Bad, k
          <6> QED
            BY <3>1, <6>1
        <5> QED
          BY <2>1, <4>2, <5>1 DEF FlatteningOf
      <4> QED
        BY <4>1, <4>2
    <3>5. PICK w : Walks(a, ev, cut, w, k)
      BY <3>4
    <3>6. h[i] = a \o Block(ev[k + 1], b, m, k + 1 = cut)
      <4>1. s[i] = Block(ev[k + 1], b, m, k + 1 = cut)
        BY <1>3, <3>2, <3>3, Zenon
      <4>2. s[i] \in Seq(O)
        BY <1>3, <3>2
      <4>3. i = 1 => h[i] = s[i]
        BY <2>1, <3>2 DEF FlatteningOf
      <4>4. i # 1 => h[i] = a \o s[i]
        BY <2>1, <3>2 DEF FlatteningOf
      <4>5. i = 1 => a = <<>> /\ <<>> \o s[i] = s[i]
        BY <4>2, ConcatEmptySeq
      <4> HIDE DEF a, k
      <4> QED
        BY <4>1, <4>3, <4>4, <4>5
    <3> HIDE DEF a, k, Bad
    <3>7. \E x : Walks(h[i], ev, cut, x, k + 1)
      BY <1>1, <3>2, <3>3, <3>4, <3>5, <3>6, WalkOn DEF n, O
    <3> QED
      BY <3>2, <3>3, <3>7
  <2>3. \E w : Walks(h[n], ev, cut, w, n)
    <3>1. n \in 1 .. n
      BY <1>1, <1>6
    <3> QED
      BY <2>2, <3>1
  <2> QED
    BY <1>2, <2>1, <2>3 DEF FlatteningOf, n
<1> QED
  BY <1>5, <1>6

-----------------------------------------------------------------------------
\* The routes beside the first one. All follow the events of the parent, from their own
\* beginning on; the fork leaves them behind the prefix.

Tail1 == SubSeq(ParentEvents, CheckpointIndex + 1, Len(ParentEvents))

EventsOf(r) == IF r <= Replays + 1 THEN ParentEvents ELSE IF r = Recovered THEN Tail1 ELSE Prefix

CutOf(r) == IF r = 1 THEN CheckpointIndex ELSE 0

SharedOps(r) == Ops(EventsOf(r), "parent", IF r = 1 THEN "record" ELSE "replay", CutOf(r))

Shared(r) == Len(SharedOps(r))

Offset(r) == IF r = Recovered THEN CheckpointIndex ELSE 0

LEMMA EventsAre ==
    ASSUME NEW r \in 1 .. ForkRoute
    PROVE  /\ EventsOf(r) \in Seq(Seq(Names)) /\ ParentEvents \in Seq(Seq(Names))
           /\ Len(EventsOf(r)) \in Nat /\ Len(ParentEvents) \in Nat /\ Offset(r) \in Nat
           /\ \A e \in 1 .. Len(EventsOf(r)) : /\ Offset(r) + e \in 1 .. Len(ParentEvents)
                                              /\ ParentEvents[Offset(r) + e] = EventsOf(r)[e]
           /\ r # ForkRoute => Offset(r) + Len(EventsOf(r)) = Len(ParentEvents)
<1>1. /\ Prefix \in Seq(Seq(Names)) /\ Parent \in Seq(Seq(Names))
      /\ Replays \in Nat \ {0} /\ Recovered = Replays + 2 /\ ForkRoute = Replays + 3
      /\ CheckpointIndex \in 0 .. Len(Prefix) + Len(Parent)
  BY ScenarioAssumption DEF Recovered, ForkRoute
<1> DEFINE S == Seq(Names)
           P == ParentEvents
           k == CheckpointIndex
           n == Len(ParentEvents)
<1>2. Joins(S, Prefix, Parent, P)
  BY <1>1, ConcatIs DEF ParentEvents
<1>3. /\ P \in Seq(S) /\ n = Len(Prefix) + Len(Parent) /\ n \in Nat /\ Len(Prefix) \in Nat
      /\ Len(Parent) \in Nat /\ \A i \in 1 .. Len(Prefix) : P[i] = Prefix[i]
  BY <1>2 DEF Joins
<1>4. k \in Nat /\ k <= n /\ \A i \in 1 .. n : P[i] \in S
  BY <1>1, <1>3, LenProperties
<1> DEFINE q == k + 1
<1>5. q \in Int /\ n \in Int /\ \A i \in q .. n : P[i] \in S
  BY <1>3, <1>4
<1>6. Tail1 = SubSeq(P, q, n)
  BY DEF Tail1
<1> HIDE DEF S, P, k, n, q
<1>7. /\ Tail1 \in Seq(S) /\ Len(Tail1) = (IF q <= n THEN n - q + 1 ELSE 0)
      /\ \A i \in 1 .. n - q + 1 : Tail1[i] = P[q + i - 1]
  BY <1>5, <1>6, SubSeqProperties
<1>8. q = k + 1
  BY DEF q
<1>9. Len(Tail1) = n - k /\ \A i \in 1 .. Len(Tail1) : Tail1[i] = P[k + i]
  <2>1. Len(Tail1) = n - k /\ n - q + 1 = n - k
    BY <1>3, <1>4, <1>7, <1>8
  <2>2. \A i \in 1 .. n - k : Tail1[i] = P[q + i - 1] /\ q + i - 1 = k + i
    BY <1>3, <1>4, <1>7, <1>8, <2>1
  <2> QED
    BY <2>1, <2>2
<1>10. CASE r <= Replays + 1
  <2>1. EventsOf(r) = P /\ Offset(r) = 0
    BY <1>1, <1>10 DEF EventsOf, Offset, P
  <2> QED
    BY <1>3, <2>1 DEF P, S, n
<1>11. CASE r = Recovered
  <2>1. EventsOf(r) = Tail1 /\ Offset(r) = k
    BY <1>1, <1>11 DEF EventsOf, Offset, k
  <2>2. \A e \in 1 .. Len(Tail1) : k + e \in 1 .. n
    BY <1>3, <1>4, <1>9
  <2> QED
    BY <1>3, <1>4, <1>7, <1>9, <2>1, <2>2 DEF P, S, n
<1>12. CASE r = ForkRoute
  <2>1. EventsOf(r) = Prefix /\ Offset(r) = 0
    BY <1>1, <1>12 DEF EventsOf, Offset
  <2> QED
    BY <1>1, <1>3, <1>12, <2>1 DEF P, S, n
<1> QED
  BY <1>1, <1>10, <1>11, <1>12

\* The fork's own part records; everything before the exit and before it is the parent's.
LEMMA RouteStarts ==
    ASSUME NEW r \in 1 .. ForkRoute
    PROVE  /\ Shared(r) \in Nat /\ Shared(r) + 1 \in 1 .. Len(Program[r])
           /\ \A a \in 1 .. Shared(r) :
                 /\ Program[r][a] = SharedOps(r)[a] /\ Program[r][a].branch = "parent"
                 /\ r # 1 /\ Program[r][a].do = "effect" => Program[r][a].mode = "replay"
           /\ r # ForkRoute => Len(Program[r]) = Shared(r) + 1
           /\ r = ForkRoute => \A a \in Shared(r) + 1 .. Len(Program[r]) - 1 :
                                  /\ Program[r][a].branch = "fork"
                                  /\ Program[r][a].do \in {"effect", "invoke"}
                                  /\ Program[r][a].do = "effect" => Program[r][a].mode = "record"
<1>1. Replays \in Nat \ {0} /\ Recovered = Replays + 2 /\ ForkRoute = Replays + 3
      /\ Fork \in Seq(Seq(Names))
  BY ScenarioAssumption DEF Recovered, ForkRoute
<1> DEFINE m == IF r = 1 THEN "record" ELSE "replay"
           A == OpsOf("parent", m)
           B == OpsOf("fork", "record")
           own == Ops(Fork, "fork", "record", 0)
           all == IF r = ForkRoute THEN SharedOps(r) \o own ELSE SharedOps(r)
           S == A \cup B \cup {ExitOp}
<1>2. SharedOps(r) \in Seq(A) /\ own \in Seq(B)
  BY <1>1, EventsAre, OpsAre DEF SharedOps
<1>3. Program[r] = all \o <<ExitOp>>
  <2>1. CASE r = 1
    <3>1. r <= Replays + 1 /\ r # ForkRoute
      BY <1>1, <2>1
    <3>2. Program[r] = Ops(ParentEvents, "parent", "record", CheckpointIndex) \o <<ExitOp>>
      BY <2>1, ProgramIs
    <3>3. SharedOps(r) = Ops(ParentEvents, "parent", "record", CheckpointIndex)
      BY <2>1, <3>1 DEF SharedOps, EventsOf, CutOf
    <3> QED
      BY <3>1, <3>2, <3>3
  <2>2. CASE r # 1 /\ r <= Replays + 1
    <3>1. r # ForkRoute
      BY <1>1, <2>2
    <3>2. Program[r] = Ops(ParentEvents, "parent", "replay", 0) \o <<ExitOp>>
      BY <2>2, ProgramIs
    <3>3. SharedOps(r) = Ops(ParentEvents, "parent", "replay", 0)
      BY <2>2 DEF SharedOps, EventsOf, CutOf
    <3> QED
      BY <3>1, <3>2, <3>3
  <2>3. CASE r = Recovered
    <3>1. r # 1 /\ ~(r <= Replays + 1) /\ r # ForkRoute
      BY <1>1, <2>3
    <3> QED
      BY <2>3, <3>1, ProgramIs DEF SharedOps, EventsOf, CutOf, Tail1
  <2>4. CASE r = ForkRoute
    <3>1. r # 1 /\ ~(r <= Replays + 1) /\ r # Recovered
      BY <1>1, <2>4
    <3> QED
      BY <2>4, <3>1, ProgramIs DEF SharedOps, EventsOf, CutOf
  <2>5. r \in Nat /\ (r = 1 \/ (r # 1 /\ r <= Replays + 1) \/ r = Recovered \/ r = ForkRoute)
    BY <1>1
  <2> QED
    BY <2>1, <2>2, <2>3, <2>4, <2>5
<1>4. /\ \A x \in A : x.branch = "parent" /\ (r # 1 /\ x.do = "effect" => x.mode = "replay")
      /\ \A x \in B : x.branch = "fork" /\ (x.do = "effect" => x.mode = "record")
  BY DEF OpsOf
<1>5. A \subseteq S /\ B \subseteq S /\ ExitOp \in S
  OBVIOUS
<1> HIDE DEF A, B, S, own, all, m
<1>6. SharedOps(r) \in Seq(S) /\ own \in Seq(S) /\ <<ExitOp>> \in Seq(S)
  BY <1>2, <1>5, SeqMonotonic
<1>7. Joins(S, SharedOps(r), own, SharedOps(r) \o own)
  BY <1>6, ConcatIs
<1>8. all \in Seq(S)
  BY <1>6, <1>7 DEF Joins, all
<1>9. Joins(S, all, <<ExitOp>>, Program[r])
  BY <1>3, <1>6, <1>8, ConcatIs
<1>10. Len(<<ExitOp>>) = 1
  OBVIOUS
<1>11. /\ Len(all) \in Nat /\ Len(Program[r]) = Len(all) + 1
       /\ \A a \in 1 .. Len(all) : Program[r][a] = all[a]
  BY <1>9, <1>10 DEF Joins
<1>12. Shared(r) \in Nat /\ Shared(r) <= Len(all) /\ (r # ForkRoute => Len(all) = Shared(r))
       /\ \A a \in 1 .. Shared(r) : all[a] = SharedOps(r)[a] /\ all[a] \in A
  <2>1. Shared(r) \in Nat /\ \A a \in 1 .. Shared(r) : SharedOps(r)[a] \in A
    BY <1>2, LenProperties DEF Shared
  <2>2. CASE r # ForkRoute
    BY <2>1, <2>2 DEF all, Shared
  <2>3. CASE r = ForkRoute
    BY <1>7, <2>1, <2>3 DEF all, Shared, Joins
  <2> QED
    BY <2>2, <2>3
<1>13. ASSUME r = ForkRoute, NEW a \in Shared(r) + 1 .. Len(Program[r]) - 1
       PROVE  Program[r][a] \in B /\ Program[r][a].do \in {"effect", "invoke"}
  <2>1. /\ Len(all) = Shared(r) + Len(own) /\ Len(own) \in Nat
        /\ \A i \in 1 .. Len(own) : all[Shared(r) + i] = own[i]
    BY <1>7, <1>13 DEF all, Shared, Joins
  <2>2. a - Shared(r) \in 1 .. Len(own) /\ Shared(r) + (a - Shared(r)) = a /\ a \in 1 .. Len(all)
    BY <1>11, <1>12, <2>1
  <2>3. Program[r][a] = own[a - Shared(r)]
    BY <1>11, <2>1, <2>2
  <2>4. own[a - Shared(r)] \in B
    BY <1>2, <2>2, LenProperties
  <2>5. own[a - Shared(r)].do \in {"effect", "invoke"}
    <3>1. PICK w : Walks(own, Fork, 0, w, Len(Fork))
      BY <1>1, WalkIs DEF own
    <3>2. Walked(own, Fork, 0, w, a - Shared(r))
      BY <2>2, <3>1 DEF Walks
    <3> QED
      BY <3>2 DEF Walked, AtEffect, AtInvoke, AtCut
  <2> QED
    BY <2>3, <2>4, <2>5
<1>14. Shared(r) + 1 \in 1 .. Len(Program[r])
  BY <1>11, <1>12
<1>15. ASSUME NEW a \in 1 .. Shared(r)
       PROVE  /\ Program[r][a] = SharedOps(r)[a] /\ Program[r][a].branch = "parent"
              /\ r # 1 /\ Program[r][a].do = "effect" => Program[r][a].mode = "replay"
  <2>1. a \in 1 .. Len(all)
    BY <1>11, <1>12
  <2>2. Program[r][a] = SharedOps(r)[a] /\ Program[r][a] \in A
    BY <1>11, <1>12, <2>1
  <2> QED
    BY <1>4, <2>2
<1>16. r # ForkRoute => Len(Program[r]) = Shared(r) + 1
  BY <1>11, <1>12
<1>17. ASSUME r = ForkRoute, NEW a \in Shared(r) + 1 .. Len(Program[r]) - 1
       PROVE  /\ Program[r][a].branch = "fork" /\ Program[r][a].do \in {"effect", "invoke"}
              /\ Program[r][a].do = "effect" => Program[r][a].mode = "record"
  BY <1>4, <1>13, <1>17
<1> QED
  BY <1>12, <1>14, <1>15, <1>16, <1>17

\* A route's walk through the events of the parent. Only the first route stops at the cut.
StepsOn(r, w, a) ==
    \/ AtEffect(ParentEvents, Program[r][a], w[a], w[a + 1])
    \/ AtInvoke(ParentEvents, Program[r][a], w[a], w[a + 1])
    \/ /\ r = 1 /\ a # 1 /\ Program[r][a - 1].do = "invoke"
       /\ AtCut(ParentEvents, CheckpointIndex, Program[r][a], w[a], w[a + 1])

Guides(r, w) ==
    /\ w[1] = <<Offset(r) + 1, 1>>
    /\ r # ForkRoute => w[Shared(r) + 1] = <<Len(ParentEvents) + 1, 1>>
    /\ r = ForkRoute => w[Shared(r) + 1] = <<Len(Prefix) + 1, 1>>
    /\ \A a \in 1 .. Shared(r) : StepsOn(r, w, a)

Guide(r) == CHOOSE w : Guides(r, w)

LEMMA GuideIs ==
    ASSUME NEW r \in 1 .. ForkRoute
    PROVE  Guides(r, Guide(r))
<1>1. PICK ev, ops, cut, off, n :
         /\ ev = EventsOf(r) /\ ops = SharedOps(r) /\ cut = CutOf(r) /\ off = Offset(r) /\ n = Shared(r)
  OBVIOUS
<1>2. /\ ev \in Seq(Seq(Names)) /\ off \in Nat /\ Len(ev) \in Nat /\ n \in Nat /\ n = Len(ops)
      /\ \A e \in 1 .. Len(ev) : off + e \in 1 .. Len(ParentEvents) /\ ParentEvents[off + e] = ev[e]
      /\ r # ForkRoute => off + Len(ev) = Len(ParentEvents)
      /\ \A a \in 1 .. n : Program[r][a] = ops[a]
  <2>1. Shared(r) \in Nat /\ Shared(r) = Len(SharedOps(r))
        /\ \A a \in 1 .. Shared(r) : Program[r][a] = SharedOps(r)[a]
    BY RouteStarts DEF Shared
  <2>2. /\ EventsOf(r) \in Seq(Seq(Names)) /\ Offset(r) \in Nat /\ Len(EventsOf(r)) \in Nat
        /\ \A e \in 1 .. Len(EventsOf(r)) :
               Offset(r) + e \in 1 .. Len(ParentEvents) /\ ParentEvents[Offset(r) + e] = EventsOf(r)[e]
        /\ r # ForkRoute => Offset(r) + Len(EventsOf(r)) = Len(ParentEvents)
    BY EventsAre
  <2> QED
    BY <1>1, <2>1, <2>2, Zenon
<1>3. PICK w : Walks(ops, ev, cut, w, Len(ev))
  BY <1>1, <1>2, WalkIs DEF SharedOps
<1>4. /\ w \in [1 .. n + 1 -> Nat \X Nat] /\ w[1] = <<1, 1>> /\ w[n + 1] = <<Len(ev) + 1, 1>>
      /\ \A p \in 1 .. n : Walked(ops, ev, cut, w, p)
  BY <1>2, <1>3 DEF Walks
<1>5. PICK x : x = [p \in 1 .. n + 1 |-> <<off + w[p][1], w[p][2]>>]
  OBVIOUS
<1>6. \A p \in 1 .. n + 1 : \A e, j : w[p] = <<e, j>> => x[p] = <<off + e, j>>
  BY <1>5
<1>7. /\ x[1] = <<off + 1, 1>> /\ (r # ForkRoute => x[n + 1] = <<Len(ParentEvents) + 1, 1>>)
      /\ r = ForkRoute => x[n + 1] = <<Len(Prefix) + 1, 1>>
  <2>1. 1 \in 1 .. n + 1 /\ n + 1 \in 1 .. n + 1
    BY <1>2
  <2>2. x[1] = <<off + 1, 1>> /\ x[n + 1] = <<off + (Len(ev) + 1), 1>>
    BY <1>4, <1>6, <2>1
  <2>3. r # ForkRoute => off + (Len(ev) + 1) = Len(ParentEvents) + 1
    BY <1>2
  <2>4. r = ForkRoute => off = 0 /\ ev = Prefix
    BY <1>1, Constants, ScenarioAssumption DEF Offset, EventsOf, Recovered
  <2>5. r = ForkRoute => off + (Len(ev) + 1) = Len(Prefix) + 1
    BY <1>2, <2>4
  <2> QED
    BY <2>2, <2>3, <2>5
<1>8. ASSUME NEW a \in 1 .. n
      PROVE  StepsOn(r, x, a)
  <2>1. a \in 1 .. n + 1 /\ a + 1 \in 1 .. n + 1 /\ (a # 1 => a - 1 \in 1 .. n)
    BY <1>2
  <2>2. Program[r][a] = ops[a] /\ (a # 1 => Program[r][a - 1] = ops[a - 1])
    BY <1>2, <2>1
  <2>3. CASE AtEffect(ev, ops[a], w[a], w[a + 1])
    <3>1. PICK e, j :
             /\ e \in 1 .. Len(ev) /\ j \in 1 .. Len(ev[e])
             /\ ops[a].do = "effect" /\ ops[a].name = ev[e][j]
             /\ w[a] = <<e, j>> /\ w[a + 1] = <<e, j + 1>>
      BY <2>3 DEF AtEffect
    <3>2. x[a] = <<off + e, j>> /\ x[a + 1] = <<off + e, j + 1>>
      BY <1>6, <2>1, <3>1
    <3>3. off + e \in 1 .. Len(ParentEvents) /\ ParentEvents[off + e] = ev[e]
      BY <1>2, <3>1
    <3>4. AtEffect(ParentEvents, Program[r][a], x[a], x[a + 1])
      BY <2>2, <3>1, <3>2, <3>3 DEF AtEffect
    <3> QED
      BY <3>4 DEF StepsOn
  <2>4. CASE AtInvoke(ev, ops[a], w[a], w[a + 1])
    <3>1. PICK e \in 1 .. Len(ev) :
             /\ ops[a].do = "invoke" /\ w[a] = <<e, Len(ev[e]) + 1>> /\ w[a + 1] = <<e + 1, 1>>
      BY <2>4 DEF AtInvoke
    <3>2. x[a] = <<off + e, Len(ev[e]) + 1>> /\ x[a + 1] = <<off + (e + 1), 1>>
      BY <1>6, <2>1, <3>1
    <3>3. off + e \in 1 .. Len(ParentEvents) /\ ParentEvents[off + e] = ev[e]
          /\ off + (e + 1) = off + e + 1
      <4>1. e \in Nat
        BY <1>2
      <4> QED
        BY <1>2, <4>1
    <3>4. AtInvoke(ParentEvents, Program[r][a], x[a], x[a + 1])
      BY <2>2, <3>1, <3>2, <3>3 DEF AtInvoke
    <3> QED
      BY <3>4 DEF StepsOn
  <2>5. CASE AtCut(ev, cut, ops[a], w[a], w[a + 1]) /\ a # 1 /\ ops[a - 1].do = "invoke"
    <3>1. /\ ops[a].do = "checkpoint" /\ cut \in 1 .. Len(ev)
          /\ w[a] = <<cut + 1, 1>> /\ w[a + 1] = <<cut + 1, 1>>
      BY <2>5 DEF AtCut
    <3>2. r = 1 /\ cut = CheckpointIndex /\ off = 0 /\ ev = ParentEvents
      <4>1. cut # 0
        BY <1>2, <3>1
      <4>2. r = 1 /\ cut = CheckpointIndex
        BY <1>1, <4>1 DEF CutOf
      <4>3. Recovered # 1 /\ 1 <= Replays + 1
        BY Constants, ScenarioAssumption DEF Recovered
      <4> QED
        BY <1>1, <4>2, <4>3 DEF Offset, EventsOf
    <3>3. x[a] = <<0 + (cut + 1), 1>> /\ x[a + 1] = <<0 + (cut + 1), 1>> /\ 0 + (cut + 1) = cut + 1
      <4>1. cut \in Nat
        BY <1>2, <3>1
      <4> QED
        BY <1>6, <2>1, <3>1, <3>2, <4>1
    <3>4. AtCut(ParentEvents, CheckpointIndex, Program[r][a], x[a], x[a + 1])
      BY <2>2, <3>1, <3>2, <3>3 DEF AtCut
    <3> QED
      BY <2>2, <2>5, <3>2, <3>4 DEF StepsOn
  <2>6. Walked(ops, ev, cut, w, a)
    BY <1>4
  <2> QED
    BY <2>3, <2>4, <2>5, <2>6 DEF Walked
<1>9. Guides(r, x)
  BY <1>1, <1>7, <1>8, Zenon DEF Guides
<1> QED
  BY <1>9 DEF Guide

LEMMA FirstRoute ==
    /\ 1 \in 1 .. ForkRoute /\ 1 # ForkRoute /\ Len(Program[1]) = Shared(1) + 1 /\ Shared(1) \in Nat
    /\ Guides(1, Guide(1)) /\ Offset(1) = 0 /\ Program[1][Shared(1) + 1].do = "exit"
<1>1. 1 \in 1 .. ForkRoute /\ 1 # ForkRoute /\ Recovered # 1
  BY Constants DEF Recovered
<1>2. Len(Program[1]) = Shared(1) + 1 /\ Shared(1) \in Nat
  BY <1>1, RouteStarts
<1> QED
  BY <1>1, <1>2, GuideIs, RouteIsSeq DEF Offset

\* What a route has behind it, the checkpoint left out.
SameCounts(b, c) ==
    Count(1, b, "effect") = Count(1, c, "effect") /\ Count(1, b, "invoke") = Count(1, c, "invoke")

\* The checkpoint stands between two events.
LEMMA CutAt ==
    ASSUME NEW p \in 1 .. Shared(1), Program[1][p].do = "checkpoint"
    PROVE  /\ p + 1 \in 1 .. Len(Program[1]) /\ Program[1][p + 1].do # "checkpoint"
           /\ Guide(1)[p] = <<CheckpointIndex + 1, 1>> /\ Guide(1)[p + 1] = Guide(1)[p]
           /\ SameCounts(p + 1, p)
<1>1. /\ StepsOn(1, Guide(1), p) /\ Shared(1) \in Nat /\ Len(Program[1]) = Shared(1) + 1
      /\ p \in Nat \ {0}
  BY FirstRoute DEF Guides
<1>2. /\ Guide(1)[p] = <<CheckpointIndex + 1, 1>> /\ Guide(1)[p + 1] = Guide(1)[p]
  BY <1>1 DEF StepsOn, AtEffect, AtInvoke, AtCut
<1>3. ASSUME Program[1][p + 1].do = "checkpoint" PROVE FALSE
  <2>1. p + 1 \in 1 .. Shared(1) /\ p + 1 - 1 = p
    BY <1>1, <1>3, FirstRoute
  <2>2. StepsOn(1, Guide(1), p + 1)
    BY <2>1, FirstRoute DEF Guides
  <2>3. Program[1][p + 1 - 1].do = "invoke"
    BY <1>3, <2>2 DEF StepsOn, AtEffect, AtInvoke
  <2> QED
    BY <2>1, <2>3
<1>4. SameCounts(p + 1, p)
  <2>1. Count(1, p, "effect") \in Nat /\ Count(1, p, "invoke") \in Nat
    BY <1>1, PassedIs
  <2>2. Count(1, p + 1, "effect") = Count(1, p, "effect") + (IF Program[1][p].do = "effect" THEN 1 ELSE 0)
    BY <1>1, CountNext
  <2>3. Count(1, p + 1, "invoke") = Count(1, p, "invoke") + (IF Program[1][p].do = "invoke" THEN 1 ELSE 0)
    BY <1>1, CountNext
  <2> QED
    BY <2>1, <2>2, <2>3 DEF SameCounts
<1> QED
  BY <1>1, <1>2, <1>3, <1>4

\* Operation a of route r and operation b of the first route are at the same place in the
\* scenario, behind the checkpoint if there is one.
Level(r, a, b) ==
    /\ a \in 1 .. Shared(r) + 1 /\ b \in 1 .. Len(Program[1]) /\ Program[1][b].do # "checkpoint"
    /\ Guide(r)[a] = Guide(1)[b]

LEMMA Settles ==
    ASSUME NEW b \in 1 .. Shared(1), NEW r, NEW a \in 1 .. Shared(r) + 1,
           Guide(r)[a] = Guide(1)[b + 1]
    PROVE  \E c : Level(r, a, c) /\ SameCounts(c, b + 1)
<1>1. Shared(1) \in Nat /\ Len(Program[1]) = Shared(1) + 1 /\ Program[1][Shared(1) + 1].do = "exit"
  BY FirstRoute
<1>2. CASE Program[1][b + 1].do # "checkpoint"
  BY <1>1, <1>2 DEF Level, SameCounts
<1>3. CASE Program[1][b + 1].do = "checkpoint"
  <2>1. b + 1 \in 1 .. Shared(1)
    BY <1>1, <1>3
  <2>2. /\ b + 1 + 1 \in 1 .. Len(Program[1]) /\ Program[1][b + 1 + 1].do # "checkpoint"
        /\ Guide(1)[b + 1 + 1] = Guide(1)[b + 1] /\ SameCounts(b + 1 + 1, b + 1)
    BY <1>3, <2>1, CutAt
  <2>3. Level(r, a, b + 1 + 1)
    BY <2>2 DEF Level
  <2> QED
    BY <2>2, <2>3
<1> QED
  BY <1>2, <1>3

\* Two routes that are level ask for the same and stay level.
LEMMA LevelMatches ==
    ASSUME NEW r \in 2 .. ForkRoute, NEW a \in 1 .. Shared(r), NEW b, Level(r, a, b)
    PROVE  /\ b \in 1 .. Shared(1) /\ Program[1][b].do = Program[r][a].do
           /\ Program[r][a].do \in {"effect", "invoke"}
           /\ Program[r][a].do = "effect" => Program[1][b].name = Program[r][a].name
           /\ \E c : Level(r, a + 1, c) /\ SameCounts(c, b + 1)
<1>1. r \in 1 .. ForkRoute /\ r # 1 /\ Shared(r) \in Nat
  <2>1. r \in 1 .. ForkRoute /\ r # 1
    OBVIOUS
  <2> QED
    BY <2>1, RouteStarts
<1>2. PICK v, w, op, on, P : v = Guide(r) /\ w = Guide(1) /\ op = Program[r][a] /\ on = Program[1][b]
                             /\ P = ParentEvents
  OBVIOUS
<1>3. v[a] = w[b] /\ on.do # "checkpoint" /\ Shared(1) \in Nat /\ b \in 1 .. Shared(1) + 1
  BY <1>2, FirstRoute DEF Level
<1>4. AtEffect(P, op, v[a], v[a + 1]) \/ AtInvoke(P, op, v[a], v[a + 1])
  BY <1>1, <1>2, GuideIs DEF Guides, StepsOn
<1>5. b \in 1 .. Shared(1)
  <2>1. SUFFICES ASSUME b = Shared(1) + 1 PROVE FALSE
    BY <1>3
  <2>2. w[b] = <<Len(P) + 1, 1>> /\ Len(P) \in Nat
    BY <1>2, <2>1, FirstRoute, EventsAre DEF Guides
  <2>3. \E e \in 1 .. Len(P) : \E j : v[a] = <<e, j>>
    BY <1>4 DEF AtEffect, AtInvoke
  <2> QED
    BY <1>3, <2>2, <2>3
<1>6. AtEffect(P, on, w[b], w[b + 1]) \/ AtInvoke(P, on, w[b], w[b + 1])
  <2>1. StepsOn(1, w, b)
    BY <1>2, <1>5, FirstRoute DEF Guides
  <2> QED
    BY <1>2, <1>3, <2>1 DEF StepsOn, AtCut
<1>7. /\ on.do = op.do /\ op.do \in {"effect", "invoke"} /\ (op.do = "effect" => on.name = op.name)
      /\ v[a + 1] = w[b + 1]
  <2>0. P \in Seq(Seq(Names)) /\ \A e \in 1 .. Len(P) : Len(P[e]) \in Nat
    BY <1>1, <1>2, EventsAre, LenProperties
  <2>1. CASE AtEffect(P, op, v[a], v[a + 1]) /\ AtEffect(P, on, w[b], w[b + 1])
    <3>1. PICK e, j : op.do = "effect" /\ op.name = P[e][j] /\ v[a] = <<e, j>> /\ v[a + 1] = <<e, j + 1>>
      BY <2>1 DEF AtEffect
    <3>2. PICK d, i : on.do = "effect" /\ on.name = P[d][i] /\ w[b] = <<d, i>> /\ w[b + 1] = <<d, i + 1>>
      BY <2>1 DEF AtEffect
    <3>3. d = e /\ i = j
      <4>1. <<d, i>> = <<e, j>>
        BY <1>3, <3>1, <3>2, Zenon
      <4> QED
        BY <4>1
    <3> QED
      BY <3>1, <3>2, <3>3
  <2>2. CASE AtInvoke(P, op, v[a], v[a + 1]) /\ AtInvoke(P, on, w[b], w[b + 1])
    <3>1. PICK e : op.do = "invoke" /\ v[a] = <<e, Len(P[e]) + 1>> /\ v[a + 1] = <<e + 1, 1>>
      BY <2>2 DEF AtInvoke
    <3>2. PICK d : on.do = "invoke" /\ w[b] = <<d, Len(P[d]) + 1>> /\ w[b + 1] = <<d + 1, 1>>
      BY <2>2 DEF AtInvoke
    <3>3. d = e
      <4>1. <<d, Len(P[d]) + 1>> = <<e, Len(P[e]) + 1>>
        BY <1>3, <3>1, <3>2, Zenon
      <4> QED
        BY <4>1
    <3> QED
      BY <3>1, <3>2, <3>3
  <2>3. ASSUME NEW x, NEW y, NEW f, NEW t, NEW u, AtEffect(P, x, f, t), AtInvoke(P, y, f, u)
        PROVE  FALSE
    <3>1. PICK e, j : e \in 1 .. Len(P) /\ j \in 1 .. Len(P[e]) /\ f = <<e, j>>
      BY <2>3 DEF AtEffect
    <3>2. PICK d \in 1 .. Len(P) : f = <<d, Len(P[d]) + 1>>
      BY <2>3 DEF AtInvoke
    <3>3. d = e /\ j = Len(P[e]) + 1
      BY <3>1, <3>2
    <3> QED
      BY <2>0, <3>1, <3>3
  <2> QED
    BY <1>3, <1>4, <1>6, <2>1, <2>2, <2>3
<1>8. \E c : Level(r, a + 1, c) /\ SameCounts(c, b + 1)
  <2>1. a + 1 \in 1 .. Shared(r) + 1 /\ Guide(r)[a + 1] = Guide(1)[b + 1]
    BY <1>1, <1>2, <1>7
  <2> QED
    BY <1>5, <2>1, Settles
<1> QED
  BY <1>2, <1>5, <1>7, <1>8

\* Where they begin level: at the beginning, or behind the checkpoint.
LEMMA LevelStarts ==
    ASSUME NEW r \in 2 .. ForkRoute, r # Recovered
    PROVE  Level(r, 1, 1)
<1>1. r \in 1 .. ForkRoute
  OBVIOUS
<1>2. Guide(r)[1] = <<0 + 1, 1>> /\ Guide(1)[1] = <<0 + 1, 1>> /\ Shared(r) \in Nat
  BY <1>1, GuideIs, FirstRoute, RouteStarts DEF Guides, Offset
<1>3. Program[1][1].do # "checkpoint" /\ 1 \in 1 .. Len(Program[1])
  <2>1. CASE Shared(1) = 0
    BY <2>1, FirstRoute
  <2>2. CASE Shared(1) # 0
    <3>1. 1 \in 1 .. Shared(1)
      BY <2>2, FirstRoute
    <3>2. StepsOn(1, Guide(1), 1)
      BY <3>1, FirstRoute DEF Guides
    <3> QED
      BY <3>1, <3>2, FirstRoute DEF StepsOn, AtEffect, AtInvoke
  <2> QED
    BY <2>1, <2>2
<1> QED
  BY <1>2, <1>3 DEF Level

LEMMA LevelRecovers ==
    ASSUME NEW p, LastCut(p, Len(Program[1]))
    PROVE  \E c : Level(Recovered, 1, c) /\ SameCounts(c, p)
<1>1. p \in 1 .. Shared(1) /\ Program[1][p].do = "checkpoint"
  BY FirstRoute DEF LastCut
<1>2. /\ p + 1 \in 1 .. Len(Program[1]) /\ Program[1][p + 1].do # "checkpoint"
      /\ Guide(1)[p + 1] = <<CheckpointIndex + 1, 1>> /\ SameCounts(p + 1, p)
  BY <1>1, CutAt
<1>3. Recovered \in 1 .. ForkRoute
  BY Constants, ScenarioAssumption DEF Recovered, ForkRoute
<1>4. Guide(Recovered)[1] = <<CheckpointIndex + 1, 1>> /\ Shared(Recovered) \in Nat
  BY <1>3, GuideIs, RouteStarts DEF Guides, Offset
<1>5. Level(Recovered, 1, p + 1)
  BY <1>2, <1>4 DEF Level
<1> QED
  BY <1>2, <1>5

\* All but the fork end at the first route's exit.
LEMMA LevelEnds ==
    ASSUME NEW r \in 2 .. ForkRoute, r # ForkRoute, NEW b, Level(r, Shared(r) + 1, b)
    PROVE  b = Len(Program[1])
<1>1. r \in 1 .. ForkRoute
  OBVIOUS
<1>2. Guide(1)[b] = <<Len(ParentEvents) + 1, 1>> /\ Len(ParentEvents) \in Nat
      /\ b \in 1 .. Shared(1) + 1 /\ Program[1][b].do # "checkpoint"
  BY <1>1, GuideIs, FirstRoute, EventsAre DEF Guides, Level
<1>3. SUFFICES ASSUME b \in 1 .. Shared(1) PROVE FALSE
  BY <1>2, FirstRoute
<1>4. StepsOn(1, Guide(1), b)
  BY <1>3, FirstRoute DEF Guides
<1>5. \E e \in 1 .. Len(ParentEvents) : \E j : Guide(1)[b] = <<e, j>>
  BY <1>2, <1>4 DEF StepsOn, AtEffect, AtInvoke, AtCut
<1> QED
  BY <1>2, <1>5

-----------------------------------------------------------------------------
\* Every route goes through what the first one goes through.

\* A guest that is level with the first route's at b was told the same, and its host counts
\* the same.
BesideAt(C, b) ==
    /\ Level(route, at, b) /\ ToldIn(C, seen, b)
    /\ host = [event  |-> Count(1, b, "invoke"),
               effect |-> Count(1, b, "effect") + (IF pc \in InEffect THEN 1 ELSE 0)]

BesideOK(C) == route > 1 /\ at <= Shared(route) + 1 => \E b : BesideAt(C, b)

\* The branch of the i-th effect the fork's guest asks for.
BranchOf(i) == IF i <= Count(ForkRoute, Shared(ForkRoute) + 1, "effect") THEN "parent" ELSE "fork"

ToldFork(C, s, a) ==
    /\ IsSeq(s) /\ Len(s) = Count(ForkRoute, a, "effect")
    /\ \A i \in 1 .. Len(s) : \E c \in C :
          c.key.branch = BranchOf(i) /\ c.key.effect = i - 1 /\ c.result = s[i]

ForkOK(C) == route = ForkRoute => ToldFork(C, seen, at)

\* The process that goes on to the other routes holds the checkpoint.
SavedOK(C) ==
    route > 1 \/ pc \in Ending \ {"publish"} =>
        \E p : LastCut(p, Len(Program[1])) /\ TakenIn(C, saved, p)

\* An entry says what is asked for at its place, by a guest that was told what is committed.
ToldAt(C, s, r, a) == (r = 1 => ToldIn(C, s, a)) /\ (r = ForkRoute => ToldFork(C, s, a))

Says(C, e, r, a) ==
    /\ e.name = Program[r][a].name /\ e.request = [seen |-> e.request.seen]
    /\ ToldAt(C, e.request.seen, r, a)

SaysOK(E, C) == \A e \in E : \A r, a : Records(r, a) /\ e.key = KeyAt(r, a) => Says(C, e, r, a)

RoutesOK(I, C) == BesideOK(C) /\ ForkOK(C) /\ SavedOK(C) /\ SaysOK(I \cup C, C)

\* What the journal says of the events that were handled, and of the ends of the routes.
InvokedAt(C, e, r, a) ==
    /\ a \in 1 .. Len(Program[r]) /\ Program[r][a].do = "invoke"
    /\ e.event = Count(r, a, "invoke") /\ ToldAt(C, e.state, r, a)

InvocationSays(C, e) ==
    \/ e.branch = "parent" /\ \E a : InvokedAt(C, e, 1, a)
    \/ e.branch = "fork" /\ e.route # 1 /\ \E a : InvokedAt(C, e, ForkRoute, a)

InvocationsOK(C) == \A e \in Entries("invocation") : InvocationSays(C, e)

ExitSays(C, e) ==
    /\ e.host = HostAt(Len(Program[1])) /\ ToldIn(C, e.state, Len(Program[1]))

ExitsOK(C) == \A e \in Entries("exit") : e.route # ForkRoute => ExitSays(C, e)

\* The process itself has journaled the events it handled on the first route.
OwnEvent(n) ==
    \E j \in DOMAIN oplog : /\ j > resumedAt /\ oplog[j].kind = "invocation"
                            /\ oplog[j].route = 1 /\ oplog[j].event = n

OwnOK ==
    \A b \in 1 .. Len(Program[1]) :
        Program[1][b].do = "invoke" /\ (route > 1 \/ b < at) => OwnEvent(Count(1, b, "invoke"))

\* The run ends behind the last route.
EndOK == pc \in {"stop", "stopping", "seal", "report", "done"} => route = ForkRoute

LinesOK == InvocationsOK(Commits) /\ ExitsOK(Commits) /\ OwnOK /\ EndOK

ReplayOK == RoutesOK(Intents, Commits) /\ LinesOK

LEMMA ToldForkStays ==
    ASSUME NEW C, NEW D, C \subseteq D, NEW s, NEW a, ToldFork(C, s, a)
    PROVE  ToldFork(D, s, a)
  BY DEF ToldFork

LEMMA ToldAtStays ==
    ASSUME NEW C, NEW D, C \subseteq D, NEW s, NEW r, NEW a, ToldAt(C, s, r, a)
    PROVE  ToldAt(D, s, r, a)
  BY ToldStays, ToldForkStays DEF ToldAt

LEMMA TellsNext ==
    ASSUME NEW C, NEW s, NEW b \in Nat \ {0}, ToldIn(C, s, b), Program[1][b].do = "effect",
           NEW c \in C, c.key.branch = "parent", c.key.effect = Count(1, b, "effect")
    PROVE  ToldIn(C, Append(s, c.result), b + 1)
<1>1. PICK t : t = Append(s, c.result)
  OBVIOUS
<1>2. Longer(s, c.result, t) /\ Len(s) = Count(1, b, "effect")
  BY <1>1, AppendIs DEF ToldIn
<1>3. Count(1, b + 1, "effect") = Count(1, b, "effect") + 1
  BY CountNext
<1>4. IsSeq(t) /\ Len(t) = Count(1, b + 1, "effect")
  BY <1>2, <1>3 DEF Longer
<1>5. ASSUME NEW i \in 1 .. Len(t)
      PROVE  \E d \in C : d.key.branch = "parent" /\ d.key.effect = i - 1 /\ d.result = t[i]
  <2>1. CASE i = Len(s) + 1
    <3>1. i - 1 = Count(1, b, "effect") /\ t[i] = c.result
      BY <1>2, <2>1 DEF Longer
    <3> QED
      BY <3>1
  <2>2. CASE i # Len(s) + 1
    <3>1. i \in 1 .. Len(s) /\ t[i] = s[i]
      BY <1>2, <2>2 DEF Longer
    <3> QED
      BY <3>1 DEF ToldIn
  <2> QED
    BY <2>1, <2>2
<1> QED
  BY <1>1, <1>4, <1>5 DEF ToldIn

LEMMA TellsForkNext ==
    ASSUME NEW C, NEW s, NEW a \in Nat \ {0}, ToldFork(C, s, a), Program[ForkRoute][a].do = "effect",
           NEW c \in C, c.key.branch = BranchOf(Count(ForkRoute, a, "effect") + 1),
           c.key.effect = Count(ForkRoute, a, "effect")
    PROVE  ToldFork(C, Append(s, c.result), a + 1)
<1>1. PICK t : t = Append(s, c.result)
  OBVIOUS
<1>2. Longer(s, c.result, t) /\ Len(s) = Count(ForkRoute, a, "effect")
  BY <1>1, AppendIs DEF ToldFork
<1>3. Count(ForkRoute, a + 1, "effect") = Count(ForkRoute, a, "effect") + 1
  BY CountNext
<1>4. IsSeq(t) /\ Len(t) = Count(ForkRoute, a + 1, "effect")
  BY <1>2, <1>3 DEF Longer
<1>5. ASSUME NEW i \in 1 .. Len(t)
      PROVE  \E d \in C : d.key.branch = BranchOf(i) /\ d.key.effect = i - 1 /\ d.result = t[i]
  <2>1. CASE i = Len(s) + 1
    <3>1. i = Count(ForkRoute, a, "effect") + 1 /\ i - 1 = Count(ForkRoute, a, "effect")
          /\ t[i] = c.result
      BY <1>2, <2>1 DEF Longer
    <3> QED
      BY <3>1
  <2>2. CASE i # Len(s) + 1
    <3>1. i \in 1 .. Len(s) /\ t[i] = s[i]
      BY <1>2, <2>2 DEF Longer
    <3> QED
      BY <3>1 DEF ToldFork
  <2> QED
    BY <2>1, <2>2
<1> QED
  BY <1>1, <1>4, <1>5 DEF ToldFork

\* The fork's guest, too, was told the same whoever it was.
LEMMA ToldForkTheSame ==
    ASSUME NEW I, NEW C, JournalOK(I, C), NEW s, NEW t, NEW a, ToldFork(C, s, a), ToldFork(C, t, a)
    PROVE  s = t
<1>1. ASSUME NEW i \in 1 .. Len(s) PROVE s[i] = t[i]
  <2>1. Len(s) = Len(t)
    BY DEF ToldFork
  <2>2. PICK c \in C : c.key.branch = BranchOf(i) /\ c.key.effect = i - 1 /\ c.result = s[i]
    BY DEF ToldFork
  <2>3. PICK d \in C : d.key.branch = BranchOf(i) /\ d.key.effect = i - 1 /\ d.result = t[i]
    BY <2>1 DEF ToldFork
  <2>4. PICK r, k : Records(r, k) /\ c.key = KeyAt(r, k)
    BY DEF JournalOK, MarkedIn
  <2>5. PICK q, b : Records(q, b) /\ d.key = KeyAt(q, b)
    BY DEF JournalOK, MarkedIn
  <2>6. r = q /\ k = b
    BY <2>2, <2>3, <2>4, <2>5, KeysDiffer
  <2>7. c.result = d.result
    BY <2>4, <2>5, <2>6 DEF JournalOK, OneResult
  <2> QED
    BY <2>2, <2>3, <2>7
<1>2. IsSeq(s) /\ IsSeq(t) /\ Len(s) = Len(t)
  BY DEF ToldFork
<1> QED
  BY <1>1, <1>2, SameSeqs

LEMMA ToldAtTheSame ==
    ASSUME NEW I, NEW C, JournalOK(I, C), NEW s, NEW t, NEW r \in {1, ForkRoute}, NEW a,
           ToldAt(C, s, r, a), ToldAt(C, t, r, a)
    PROVE  s = t
<1>1. CASE r = 1
  BY <1>1, ToldTheSame DEF ToldAt
<1>2. CASE r = ForkRoute
  BY <1>2, ToldForkTheSame DEF ToldAt
<1> QED
  BY <1>1, <1>2

LEMMA CountMonotone ==
    ASSUME NEW r, NEW d, NEW a \in Nat, NEW b \in Nat, a <= b
    PROVE  Count(r, a, d) <= Count(r, b, d)
<1>1. Passed(r, a, d) \subseteq Passed(r, b, d)
  BY DEF Passed
<1>2. IsFiniteSet(Passed(r, b, d))
  BY PassedIs
<1> QED
  BY <1>1, <1>2, FS_Subset DEF Count

\* The effect that is asked for now, by the first route, beside it, and by the fork.
LEMMA ParentAsks ==
    ASSUME PositionOK, PlaceOK, pc \in InEffect, route = 1
    PROVE  Records(1, at) /\ Current.key = KeyAt(1, at) /\ Op.mode = "record"
<1>1. Op.do = "effect" /\ Op = Program[1][at]
  BY Here
<1>2. Op.mode = "record"
  BY <1>1, Here, WhoRecords
<1> QED
  BY <1>2, RecordsHere, CurrentIs

LEMMA BesideAsks ==
    ASSUME PositionOK, pc \in InEffect, route > 1, at <= Shared(route), NEW C, NEW b, BesideAt(C, b)
    PROVE  /\ Records(1, b) /\ Current.key = KeyAt(1, b) /\ Program[1][b].name = Op.name
           /\ Program[1][b].branch = "parent" /\ b \in Nat \ {0}
<1>1. /\ route \in 2 .. ForkRoute /\ at \in 1 .. Shared(route) /\ Op = Program[route][at]
      /\ Op.do = "effect" /\ route \in 1 .. ForkRoute
  <2>1. route \in 1 .. ForkRoute /\ at \in Nat \ {0} /\ Op = Program[route][at] /\ Op.do = "effect"
    BY Here
  <2>2. Shared(route) \in Nat /\ route \in Nat
    BY <2>1, RouteStarts
  <2> QED
    BY <2>1, <2>2
<1>2. /\ b \in 1 .. Shared(1) /\ Program[1][b].do = "effect" /\ Program[1][b].name = Op.name
  BY <1>1, LevelMatches DEF BesideAt
<1>3. b \in 1 .. Len(Program[1]) /\ 1 \in 1 .. ForkRoute /\ b \in Nat \ {0}
  BY <1>2, FirstRoute
<1>4. Program[1][b].branch = "parent" /\ Program[1][b].mode = "record"
  BY <1>2, <1>3, WhoRecords
<1>5. Op.branch = "parent"
  BY <1>1, RouteStarts
<1>6. Current.key = KeyAt(1, b)
  <2>1. host = [event |-> Count(1, b, "invoke"), effect |-> Count(1, b, "effect") + 1]
    BY DEF BesideAt
  <2>2. Count(1, b, "effect") \in Nat
    BY <1>3, PassedIs
  <2>3. [host EXCEPT !.effect = @ - 1] = [event  |-> Count(1, b, "invoke"),
                                          effect |-> Count(1, b, "effect")]
    BY <2>1, <2>2
  <2>4. Current.key = Key([host EXCEPT !.effect = @ - 1])
    BY DEF Current
  <2> QED
    BY <1>4, <1>5, <2>3, <2>4 DEF Key, KeyAt
<1> QED
  BY <1>2, <1>3, <1>4, <1>6 DEF Records

LEMMA ForkAsks ==
    ASSUME PositionOK, PlaceOK, pc \in InEffect, route = ForkRoute
    PROVE  /\ Current.key.effect = Count(ForkRoute, at, "effect")
           /\ Current.key.branch = BranchOf(Count(ForkRoute, at, "effect") + 1)
           /\ at > Shared(route) => /\ Records(ForkRoute, at) /\ Current.key = KeyAt(ForkRoute, at)
                                    /\ Op.mode = "record"
<1>1. /\ route \in 1 .. ForkRoute /\ at \in Nat \ {0} /\ Op = Program[route][at] /\ Op.do = "effect"
      /\ at \in 1 .. Len(Program[route]) /\ Len(Program[route]) \in Nat
      /\ Program[route][Len(Program[route])].do = "exit"
  BY Here, RouteIsSeq
<1>2. Current.key = KeyAt(ForkRoute, at)
  <2>1. route # Recovered
    BY Constants DEF Recovered, ForkRoute
  <2> QED
    BY <2>1, CurrentIs
<1>3. Shared(route) \in Nat
  BY <1>1, RouteStarts
<1> DEFINE n == Count(ForkRoute, at, "effect")
           m == Count(ForkRoute, Shared(ForkRoute) + 1, "effect")
<1>4. n \in Nat /\ m \in Nat
  BY <1>1, <1>3, PassedIs
<1>5. CASE at <= Shared(route)
  <2>1. Op.branch = "parent"
    BY <1>1, <1>5, RouteStarts
  <2>2. n < m
    BY <1>1, <1>3, <1>5, CountGrows
  <2> HIDE DEF n, m
  <2>3. n + 1 <= m
    BY <1>4, <2>2
  <2>4. ~(at > Shared(route))
    BY <1>1, <1>3, <1>5
  <2>5. BranchOf(n + 1) = "parent"
    BY <2>3 DEF BranchOf, m
  <2>6. Current.key.branch = "parent" /\ Current.key.effect = n
    BY <1>1, <1>2, <2>1 DEF KeyAt, n
  <2> QED
    BY <2>4, <2>5, <2>6 DEF n
<1>6. CASE at > Shared(route)
  <2>1. at \in Shared(route) + 1 .. Len(Program[route]) - 1
    BY <1>1, <1>3, <1>6
  <2>2. Op.branch = "fork" /\ Op.mode = "record"
    BY <1>1, <2>1, RouteStarts
  <2>3. m <= n
    BY <1>1, <1>3, <1>6, CountMonotone
  <2>4. Records(ForkRoute, at)
    BY <2>2, RecordsHere
  <2> HIDE DEF n, m
  <2>5. ~(n + 1 <= m)
    BY <1>4, <2>3
  <2>6. BranchOf(n + 1) = "fork"
    BY <2>5 DEF BranchOf, m
  <2>7. Current.key.branch = "fork" /\ Current.key.effect = n
    BY <1>1, <1>2, <2>2 DEF KeyAt, n
  <2> QED
    BY <1>2, <2>2, <2>4, <2>6, <2>7 DEF n
<1> QED
  BY <1>1, <1>3, <1>5, <1>6

\* Where the effect that is asked for now is recorded: who asks for it was told what
\* who recorded it was told.
RecordedAt(r, a) ==
    /\ Records(r, a) /\ Current.key = KeyAt(r, a) /\ Op.name = Program[r][a].name
    /\ ToldAt(Commits, seen, r, a) /\ r \in {1, ForkRoute}
    /\ Op.mode # "record" => r = 1 /\ route > 1

LEMMA EffectIsRecorded ==
    ASSUME PositionOK, OrderOK, ParentOK(Commits), RoutesOK(Intents, Commits), pc \in InEffect
    PROVE  \E r, a : RecordedAt(r, a)
<1>0. PlaceOK /\ 1 # ForkRoute /\ Op = Program[route][at] /\ route \in 1 .. ForkRoute /\ Op.do = "effect"
  BY Here, FirstRoute DEF OrderOK
<1>1. CASE route = 1
  <2>1. Records(1, at) /\ Current.key = KeyAt(1, at) /\ Op.mode = "record"
    BY <1>0, <1>1, ParentAsks
  <2>2. ToldAt(Commits, seen, 1, at)
    BY <1>0, <1>1 DEF ParentOK, ToldAt
  <2> QED
    BY <1>0, <1>1, <2>1, <2>2 DEF RecordedAt
<1>2. CASE route > 1 /\ at <= Shared(route)
  <2>1. Shared(route) \in Nat /\ at \in Nat
    BY <1>0, Here, RouteStarts
  <2>2. PICK b : BesideAt(Commits, b)
    BY <1>2, <2>1 DEF RoutesOK, BesideOK
  <2>3. Records(1, b) /\ Current.key = KeyAt(1, b) /\ Program[1][b].name = Op.name
    BY <1>2, <2>2, BesideAsks
  <2>4. ToldAt(Commits, seen, 1, b)
    BY <1>0, <2>2 DEF BesideAt, ToldAt
  <2> QED
    BY <1>2, <2>3, <2>4 DEF RecordedAt
<1>3. CASE at > Shared(route) /\ route = ForkRoute
  <2>1. Records(ForkRoute, at) /\ Current.key = KeyAt(ForkRoute, at) /\ Op.mode = "record"
    BY <1>0, <1>3, ForkAsks
  <2>2. ToldAt(Commits, seen, ForkRoute, at)
    BY <1>0, <1>3 DEF RoutesOK, ForkOK, ToldAt
  <2> QED
    BY <1>0, <1>3, <2>1, <2>2 DEF RecordedAt
<1>4. CASE at > Shared(route) /\ route # ForkRoute
  <2>1. Shared(route) \in Nat /\ at \in Nat /\ at \in 1 .. Len(Program[route])
        /\ Len(Program[route]) = Shared(route) + 1 /\ Program[route][Len(Program[route])].do = "exit"
    BY <1>0, <1>4, Here, RouteStarts, RouteIsSeq
  <2>2. at = Len(Program[route])
    BY <1>4, <2>1
  <2> QED
    BY <1>0, <2>1, <2>2
<1> QED
  <2>1. Shared(route) \in Nat /\ at \in Nat /\ route \in Nat
    BY <1>0, Here, RouteStarts
  <2>2. route = 1 \/ (route > 1 /\ at <= Shared(route)) \/ at > Shared(route)
    BY <1>0, <2>1
  <2> QED
    BY <1>1, <1>2, <1>3, <1>4, <2>2

\* Whatever the journal holds for it is of the same effect, and a replay finds it committed.
LEMMA SameEffect ==
    ASSUME PositionOK, OrderOK, ParentOK(Commits), RoutesOK(Intents, Commits), pc \in InEffect,
           NEW e \in Intents \cup Commits, e.key = Current.key
    PROVE  Matches(e)
<1>1. PICK r, a : RecordedAt(r, a)
  BY EffectIsRecorded
<1>2. Says(Commits, e, r, a)
  BY <1>1 DEF RoutesOK, SaysOK, RecordedAt
<1>3. e.request.seen = seen
  <2>1. ToldAt(Commits, e.request.seen, r, a) /\ ToldAt(Commits, seen, r, a) /\ r \in {1, ForkRoute}
    BY <1>1, <1>2 DEF RecordedAt, Says
  <2> QED
    BY <2>1, ToldAtTheSame DEF OrderOK
<1> QED
  BY <1>1, <1>2, <1>3 DEF Says, RecordedAt, Matches, Request

LEMMA ReplayFinds ==
    ASSUME PositionOK, OrderOK, ParentOK(Commits), RoutesOK(Intents, Commits), pc \in InEffect,
           Op.mode # "record"
    PROVE  Has(Commits, Current.key)
<1>1. PICK r, a : RecordedAt(r, a)
  BY EffectIsRecorded
<1>2. IsBehind(Current.key, route, at)
  BY <1>1 DEF RecordedAt, IsBehind
<1> QED
  BY <1>2 DEF OrderOK, ProgressOK

-----------------------------------------------------------------------------
\* The other routes, step by step.

LEMMA BesideStays ==
    ASSUME BesideOK(Commits), Commits \subseteq Commits', UNCHANGED <<route, at, host, seen>>,
           pc' \in InEffect <=> pc \in InEffect
    PROVE  BesideOK(Commits)'
<1> SUFFICES ASSUME route' > 1, at' <= Shared(route') + 1
             PROVE  \E b : BesideAt(Commits, b)'
  BY DEF BesideOK
<1>1. PICK b : BesideAt(Commits, b)
  BY DEF BesideOK
<1>2. ToldIn(Commits', seen, b)
  BY <1>1, ToldStays DEF BesideAt
<1> QED
  BY <1>1, <1>2 DEF BesideAt

\* Beside the first route, one operation on.
LEMMA BesideGoes ==
    ASSUME PositionOK, BesideOK(Commits), Commits \subseteq Commits',
           NEW events, NEW effects, Goes(events, effects),
           (Op.do = "effect" => \E c : Delivers(c)), (Op.do # "effect" => seen' = seen)
    PROVE  BesideOK(Commits)'
<1> SUFFICES ASSUME route' > 1, at' <= Shared(route') + 1
             PROVE  \E b : BesideAt(Commits, b)'
  BY DEF BesideOK
<1>1. /\ route' = route /\ at' = at + 1 /\ pc' = "op" /\ route > 1 /\ at + 1 <= Shared(route) + 1
      /\ host'.event = host.event + events /\ host' = [event |-> host'.event, effect |-> host.effect]
      /\ events = (IF Op.do = "invoke" THEN 1 ELSE 0)
      /\ effects = (IF Op.do = "effect" THEN 1 ELSE 0)
      /\ effects = (IF pc \in InEffect THEN 1 ELSE 0)
  BY DEF Goes
<1>2. route \in 1 .. ForkRoute /\ at \in Nat \ {0} /\ Shared(route) \in Nat /\ Op = Program[route][at]
  BY Here, RouteStarts
<1>3. at \in 1 .. Shared(route) /\ route \in 2 .. ForkRoute /\ at <= Shared(route) + 1
      /\ at <= Shared(route)
  BY <1>1, <1>2
<1>4. PICK b : BesideAt(Commits, b)
  BY <1>1, <1>3 DEF BesideOK
<1>5. /\ b \in 1 .. Shared(1) /\ Program[1][b].do = Op.do /\ Op.do \in {"effect", "invoke"}
      /\ \E c : Level(route, at + 1, c) /\ SameCounts(c, b + 1)
  BY <1>2, <1>3, <1>4, LevelMatches DEF BesideAt
<1>6. PICK d : Level(route, at + 1, d) /\ SameCounts(d, b + 1)
  BY <1>5
<1>7. b \in Nat \ {0} /\ Count(1, b, "effect") \in Nat /\ Count(1, b, "invoke") \in Nat
  <2>1. b \in Nat \ {0}
    BY <1>5, FirstRoute
  <2> QED
    BY <2>1, PassedIs
<1>8. /\ Count(1, d, "effect") = Count(1, b, "effect") + effects
      /\ Count(1, d, "invoke") = Count(1, b, "invoke") + events
  <2>1. Count(1, b + 1, "effect") = Count(1, b, "effect") + (IF Program[1][b].do = "effect" THEN 1 ELSE 0)
    BY <1>7, CountNext
  <2>2. Count(1, b + 1, "invoke") = Count(1, b, "invoke") + (IF Program[1][b].do = "invoke" THEN 1 ELSE 0)
    BY <1>7, CountNext
  <2> QED
    BY <1>1, <1>5, <1>6, <2>1, <2>2 DEF SameCounts
<1>9. ToldIn(Commits', seen, b)
  BY <1>4, ToldStays DEF BesideAt
<1>10. ToldIn(Commits', seen', d)
  <2>1. CASE Op.do = "effect"
    <3>1. PICK c : Delivers(c)
      BY <2>1
    <3>2. c \in Commits' /\ c.key = Current.key /\ seen' = Append(seen, c.result) /\ pc \in InEffect
      BY <3>1 DEF Delivers, InEffect
    <3>3. Current.key = KeyAt(1, b) /\ Program[1][b].branch = "parent"
      BY <1>1, <1>3, <1>4, <3>2, BesideAsks
    <3>4. ToldIn(Commits', Append(seen, c.result), b + 1)
      BY <1>5, <1>7, <1>9, <2>1, <3>2, <3>3, TellsNext DEF KeyAt
    <3> QED
      BY <1>6, <3>2, <3>4 DEF ToldIn, SameCounts
  <2>2. CASE Op.do # "effect"
    <3>1. seen' = seen /\ Count(1, d, "effect") = Count(1, b, "effect")
      BY <1>1, <1>7, <1>8, <2>2
    <3> QED
      BY <1>9, <3>1 DEF ToldIn
  <2> QED
    BY <2>1, <2>2
<1>11. host' = [event |-> Count(1, d, "invoke"), effect |-> Count(1, d, "effect") + 0]
  <2>1. host = [event |-> Count(1, b, "invoke"), effect |-> Count(1, b, "effect") + effects]
    BY <1>1, <1>4 DEF BesideAt
  <2>2. host.event = Count(1, b, "invoke") /\ host.effect = Count(1, b, "effect") + effects
    BY <2>1
  <2>3. effects \in {0, 1}
    BY <1>1
  <2> QED
    BY <1>1, <1>7, <1>8, <2>2, <2>3
<1>12. BesideAt(Commits, d)'
  BY <1>1, <1>6, <1>10, <1>11, HomePlaces DEF BesideAt
<1> QED
  BY <1>12

LEMMA BesideAsksNext ==
    ASSUME PositionOK, BesideOK(Commits), Commits \subseteq Commits', Asks
    PROVE  BesideOK(Commits)'
<1> SUFFICES ASSUME route' > 1, at' <= Shared(route') + 1
             PROVE  \E b : BesideAt(Commits, b)'
  BY DEF BesideOK
<1>1. UNCHANGED <<route, at, seen>> /\ pc = "op" /\ pc' = "asked"
      /\ host' = [event |-> host.event, effect |-> host.effect + 1]
  BY HostIs DEF Asks
<1>2. PICK b : BesideAt(Commits, b)
  BY <1>1 DEF BesideOK
<1>3. ToldIn(Commits', seen, b)
  BY <1>2, ToldStays DEF BesideAt
<1>4. host' = [event |-> Count(1, b, "invoke"), effect |-> Count(1, b, "effect") + 1]
  <2>1. host = [event |-> Count(1, b, "invoke"), effect |-> Count(1, b, "effect") + 0]
    BY <1>1, <1>2, HomePlaces DEF BesideAt
  <2>2. Count(1, b, "effect") \in Nat
    <3>1. b \in Nat
      BY <1>2, FirstLength DEF BesideAt, Level
    <3> QED
      BY <3>1, PassedIs
  <2> QED
    BY <1>1, <2>1, <2>2
<1>5. BesideAt(Commits, b)'
  BY <1>1, <1>2, <1>3, <1>4, HomePlaces DEF BesideAt
<1> QED
  BY <1>5

\* How a route begins: from nothing, or from the checkpoint.
LEMMA RouteBegins ==
    ASSUME NEW r, BeginsRoute(r)
    PROVE  /\ pc' = "op" /\ route' = r /\ at' = 1 /\ saved' = saved
           /\ r # Recovered => host' = Start0 /\ seen' = <<>>
           /\ r = Recovered => host' = saved.host /\ seen' = saved.seen
  BY DEF BeginsRoute, Begin, Start0

LEMMA BesideBegins ==
    ASSUME PositionOK, SavedOK(Commits), Commits \subseteq Commits', NEW r, BeginsRoute(r)
    PROVE  BesideOK(Commits)'
<1> SUFFICES ASSUME route' > 1
             PROVE  \E b : BesideAt(Commits, b)'
  BY DEF BesideOK
<1>1. /\ pc' = "op" /\ route' = r /\ at' = 1
      /\ r # Recovered => host' = Start0 /\ seen' = <<>>
      /\ r = Recovered => host' = saved.host /\ seen' = saved.seen
  BY RouteBegins
<1>2. r \in 2 .. ForkRoute /\ pc = "next"
  <2>1. r = route + 1 /\ r <= ForkRoute /\ pc = "next"
    BY <1>1 DEF BeginsRoute
  <2> QED
    BY <2>1, Here
<1>3. CASE r # Recovered
  <2>1. Level(r, 1, 1)
    BY <1>2, <1>3, LevelStarts
  <2>2. host' = [event |-> Count(1, 1, "invoke"), effect |-> Count(1, 1, "effect") + 0]
    BY <1>1, <1>3, CountStarts DEF Start0
  <2>3. BesideAt(Commits, 1)'
    BY <1>1, <1>3, <2>1, <2>2, StartsTold, HomePlaces DEF BesideAt
  <2> QED
    BY <2>3
<1>4. CASE r = Recovered
  <2>1. PICK p : LastCut(p, Len(Program[1])) /\ TakenIn(Commits, saved, p)
    BY <1>2 DEF SavedOK, Ending
  <2>2. PICK c : Level(Recovered, 1, c) /\ SameCounts(c, p)
    BY <2>1, LevelRecovers
  <2>3. ToldIn(Commits', seen', c)
    <3>1. ToldIn(Commits', saved.seen, p)
      BY <2>1, ToldStays DEF TakenIn
    <3> QED
      BY <1>1, <1>4, <2>2, <3>1 DEF ToldIn, SameCounts
  <2>4. host' = [event |-> Count(1, c, "invoke"), effect |-> Count(1, c, "effect") + 0]
    <3>1. saved = [host |-> HostAt(p), seen |-> saved.seen]
      BY <2>1 DEF TakenIn
    <3>2. saved.host = HostAt(p)
      BY <3>1
    <3>3. Count(1, p, "effect") \in Nat
      <4>1. p \in Nat
        BY <2>1 DEF LastCut
      <4> QED
        BY <4>1, PassedIs
    <3> QED
      BY <1>1, <1>4, <2>2, <3>2, <3>3 DEF HostAt, SameCounts
  <2>5. BesideAt(Commits, c)'
    BY <1>1, <1>4, <2>2, <2>3, <2>4, HomePlaces DEF BesideAt
  <2> QED
    BY <2>5
<1> QED
  BY <1>3, <1>4

LEMMA DeliversGrows ==
    ASSUME PositionOK, NEW c, Delivers(c)
    PROVE  Op.do = "effect"
  BY Here DEF Delivers, InEffect

LEMMA BesideMoves ==
    ASSUME PositionOK, FilesOK, RoutesOK(Intents, Commits), Moves
    PROVE  BesideOK(Commits)'
<1>0. Commits \subseteq Commits' /\ BesideOK(Commits) /\ SavedOK(Commits)
  BY CommitsGrow DEF RoutesOK
<1>1. CASE Waits
  BY <1>0, <1>1, BesideStays DEF Waits, SamePlace
<1>2. CASE GoesHome
  BY <1>2 DEF GoesHome, BesideOK
<1>3. CASE Asks
  BY <1>0, <1>3, BesideAsksNext
<1>4. ASSUME NEW c, Delivers(c) PROVE BesideOK(Commits)'
  <2>1. Goes(0, 1) /\ Op.do = "effect"
    BY <1>4, DeliversGoes, DeliversGrows
  <2> QED
    BY <1>0, <1>4, <2>1, BesideGoes
<1>5. CASE Intends \/ CommitsIt
  <2>1. UNCHANGED <<route, at, host, seen>> /\ pc \in InEffect /\ pc' \in InEffect
    BY <1>5 DEF Intends, CommitsIt, SamePlace, InEffect
  <2> QED
    BY <1>0, <2>1, BesideStays
<1>6. CASE Finishes
  <2>1. Goes(1, 0) /\ Op.do # "effect" /\ seen' = seen
    BY <1>6, FinishesGoes DEF Finishes
  <2> QED
    BY <1>0, <2>1, BesideGoes
<1>7. CASE Snaps
  <2>1. Goes(0, 0) /\ Op.do # "effect" /\ seen' = seen
    BY <1>7, SnapsGoes DEF Snaps
  <2> QED
    BY <1>0, <2>1, BesideGoes
<1>8. CASE Publishes
  <2>1. UNCHANGED <<route, at, host, seen>> /\ pc \notin InEffect /\ pc' \notin InEffect
    BY <1>8 DEF Publishes, InEffect
  <2> QED
    BY <1>0, <2>1, BesideStays
<1> QED
  BY <1>0, <1>1, <1>2, <1>3, <1>4, <1>5, <1>6, <1>7, <1>8, BesideBegins DEF Moves

LEMMA ForkStays ==
    ASSUME ForkOK(Commits), Commits \subseteq Commits', UNCHANGED <<route, at, seen>>
    PROVE  ForkOK(Commits)'
<1> SUFFICES ASSUME route' = ForkRoute PROVE ToldFork(Commits', seen', at')
  BY DEF ForkOK
<1>1. ToldFork(Commits, seen, at)
  BY DEF ForkOK
<1> QED
  BY <1>1, ToldForkStays

LEMMA ForkGoes ==
    ASSUME PositionOK, ForkOK(Commits), Commits \subseteq Commits', route' = route, at' = at + 1,
           seen' = seen, Op.do # "effect"
    PROVE  ForkOK(Commits)'
<1> SUFFICES ASSUME route' = ForkRoute PROVE ToldFork(Commits', seen', at')
  BY DEF ForkOK
<1>1. ToldFork(Commits', seen, at)
  BY ToldForkStays DEF ForkOK
<1>2. at \in Nat \ {0} /\ Op = Program[ForkRoute][at] /\ Count(ForkRoute, at, "effect") \in Nat
  BY Here, PassedIs
<1>3. Count(ForkRoute, at + 1, "effect") = Count(ForkRoute, at, "effect")
  BY <1>2, CountNext
<1> QED
  BY <1>1, <1>3 DEF ToldFork

LEMMA ForkDelivers ==
    ASSUME PositionOK, OrderOK, ForkOK(Commits), Commits \subseteq Commits', NEW c, Delivers(c)
    PROVE  ForkOK(Commits)'
<1> SUFFICES ASSUME route' = ForkRoute PROVE ToldFork(Commits', seen', at')
  BY DEF ForkOK
<1>1. /\ route = ForkRoute /\ at' = at + 1 /\ seen' = Append(seen, c.result)
      /\ c \in Commits' /\ c.key = Current.key /\ pc \in InEffect
  BY DEF Delivers, InEffect
<1>2. ToldFork(Commits', seen, at)
  BY <1>1, ToldForkStays DEF ForkOK
<1>3. at \in Nat \ {0} /\ Program[ForkRoute][at].do = "effect"
  BY <1>1, Here
<1>4. /\ c.key.effect = Count(ForkRoute, at, "effect")
      /\ c.key.branch = BranchOf(Count(ForkRoute, at, "effect") + 1)
  BY <1>1, ForkAsks DEF OrderOK
<1>5. ToldFork(Commits', Append(seen, c.result), at + 1)
  BY <1>1, <1>2, <1>3, <1>4, TellsForkNext
<1> QED
  BY <1>1, <1>5

LEMMA ForkBegins == \A C : ToldFork(C, <<>>, 1)
<1>1. IsSeq(<<>>) /\ Len(<<>>) = 0
  BY EmptyIs
<1> QED
  BY <1>1, CountStarts DEF ToldFork

LEMMA ForkMoves ==
    ASSUME PositionOK, FilesOK, OrderOK, RoutesOK(Intents, Commits), Moves
    PROVE  ForkOK(Commits)'
<1>0. Commits \subseteq Commits' /\ ForkOK(Commits)
  BY CommitsGrow DEF RoutesOK
<1>1. CASE Waits \/ Asks \/ Intends \/ CommitsIt \/ Publishes
  BY <1>0, <1>1, ForkStays DEF Waits, Asks, Intends, CommitsIt, Publishes, SamePlace
<1>2. CASE GoesHome
  BY <1>2, FirstRoute DEF GoesHome, ForkOK
<1>3. CASE Finishes \/ Snaps
  BY <1>0, <1>3, ForkGoes DEF Finishes, Snaps
<1>4. ASSUME NEW r, BeginsRoute(r) PROVE ForkOK(Commits)'
  <2>1. ForkRoute # Recovered
    BY Constants DEF Recovered, ForkRoute
  <2> QED
    BY <1>4, <2>1, RouteBegins, ForkBegins DEF ForkOK
<1> QED
  BY <1>0, <1>1, <1>2, <1>3, <1>4, ForkDelivers DEF Moves

\* Only the first route takes checkpoints.
LEMMA OnlyParentCuts ==
    ASSUME PositionOK, Op.do = "checkpoint"
    PROVE  route = 1
<1>1. /\ route \in 1 .. ForkRoute /\ at \in 1 .. Len(Program[route]) /\ Op = Program[route][at]
      /\ Len(Program[route]) \in Nat /\ Program[route][Len(Program[route])].do = "exit"
      /\ Shared(route) \in Nat
  BY Here, RouteIsSeq, RouteStarts
<1>2. at # Len(Program[route])
  BY <1>1
<1>3. CASE at \in 1 .. Shared(route)
  <2>1. StepsOn(route, Guide(route), at)
    BY <1>1, <1>3, GuideIs DEF Guides
  <2> QED
    BY <1>1, <2>1 DEF StepsOn, AtEffect, AtInvoke
<1>4. CASE at \notin 1 .. Shared(route)
  <2>1. route = ForkRoute /\ at \in Shared(route) + 1 .. Len(Program[route]) - 1
    <3>1. route # ForkRoute => Len(Program[route]) = Shared(route) + 1
      BY <1>1, RouteStarts
    <3> QED
      BY <1>1, <1>2, <1>4, <3>1
  <2>2. Op.do \in {"effect", "invoke"}
    BY <1>1, <2>1, RouteStarts
  <2> QED
    BY <2>2
<1> QED
  BY <1>3, <1>4

LEMMA SavedStays ==
    ASSUME SavedOK(Commits), Commits \subseteq Commits', saved' = saved,
           route > 1 \/ pc \in Ending \ {"publish"}
    PROVE  SavedOK(Commits)'
<1>1. PICK p : LastCut(p, Len(Program[1])) /\ TakenIn(Commits, saved, p)
  BY DEF SavedOK
<1>2. TakenIn(Commits', saved', p)
  BY <1>1, ToldStays DEF TakenIn
<1> QED
  BY <1>1, <1>2 DEF SavedOK

LEMMA SavedMoves ==
    ASSUME PositionOK, FilesOK, OrderOK, CheckpointOK, RoutesOK(Intents, Commits), Moves
    PROVE  SavedOK(Commits)'
<1>0. Commits \subseteq Commits' /\ SavedOK(Commits)
  BY CommitsGrow DEF RoutesOK
<1>1. route \in Nat /\ (route # 1 => route > 1)
  BY Here
<1>2. CASE Waits
  <2>1. saved' = saved /\ route' = route
        /\ (pc' \in Ending \ {"publish"} => pc \in Ending \ {"publish"} \/ route # 1)
    BY <1>2 DEF Waits, SamePlace
  <2>2. CASE route > 1 \/ pc \in Ending \ {"publish"}
    BY <1>0, <2>1, <2>2, SavedStays
  <2>3. CASE ~(route > 1 \/ pc \in Ending \ {"publish"})
    BY <1>1, <2>1, <2>3 DEF SavedOK
  <2> QED
    BY <2>2, <2>3
<1>3. CASE GoesHome
  BY <1>3, HomePlaces DEF GoesHome, SavedOK
<1>4. ASSUME NEW r, BeginsRoute(r) PROVE SavedOK(Commits)'
  <2>1. pc' = "op" /\ route' = r /\ saved' = saved
    BY <1>4, RouteBegins
  <2>2. CASE r = 1
    BY <2>1, <2>2, HomePlaces DEF SavedOK
  <2>3. CASE r # 1
    <3>1. pc \in Ending \ {"publish"}
      BY <1>4, <2>3 DEF BeginsRoute, Ending
    <3> QED
      BY <1>0, <2>1, <3>1, SavedStays
  <2> QED
    BY <2>2, <2>3
<1>5. CASE Asks \/ (\E c : Delivers(c)) \/ Intends \/ CommitsIt \/ Finishes
  <2>1. saved' = saved /\ route' = route /\ pc' \notin Ending
    BY <1>5 DEF Asks, Delivers, Intends, CommitsIt, Finishes, SamePlace, Ending
  <2>2. CASE route > 1
    BY <1>0, <2>1, <2>2, SavedStays
  <2>3. CASE ~(route > 1)
    BY <2>1, <2>3 DEF SavedOK
  <2> QED
    BY <2>2, <2>3
<1>6. CASE Snaps
  <2>1. route' = route /\ pc' = "op" /\ Op.do = "checkpoint"
    BY <1>6 DEF Snaps
  <2>2. route = 1
    BY <2>1, OnlyParentCuts
  <2> QED
    BY <2>1, <2>2, HomePlaces DEF SavedOK
<1>7. CASE Publishes
  <2>1. PICK p : LastCut(p, Len(Program[1])) /\ TakenIn(Commits, saved, p)
    BY <1>7, PublishedAgain
  <2>2. TakenIn(Commits', saved', p)
    BY <1>0, <1>7, <2>1, ToldStays DEF TakenIn, Publishes
  <2> QED
    BY <2>1, <2>2 DEF SavedOK
<1> QED
  BY <1>2, <1>3, <1>4, <1>5, <1>6, <1>7 DEF Moves

\* What is journaled of an effect, by who records it.
LEMMA SaysNext ==
    ASSUME PositionOK, OrderOK, ParentOK(Commits), RoutesOK(Intents, Commits),
           NEW D, Commits \subseteq D, pc \in InEffect, Op.mode = "record",
           NEW e, e.key = Current.key, e.name = Op.name, e.request = Request
    PROVE  SaysOK(Intents \cup Commits \cup {e}, D)
<1>1. /\ Records(route, at) /\ Op = Program[route][at]
      /\ \A r, a : Records(r, a) /\ Current.key = KeyAt(r, a) => r = route /\ a = at
  BY Here, RecordedHere DEF OrderOK
<1>2. ToldAt(Commits, seen, route, at)
  BY DEF ToldAt, ParentOK, RoutesOK, ForkOK
<1>3. Says(D, e, route, at)
  <2>1. e.request = [seen |-> e.request.seen] /\ e.request.seen = seen
    BY DEF Request
  <2> QED
    BY <1>1, <1>2, <2>1, ToldAtStays DEF Says
<1>4. ASSUME NEW f \in Intents \cup Commits, NEW r, NEW a, Records(r, a), f.key = KeyAt(r, a)
      PROVE  Says(D, f, r, a)
  <2>1. Says(Commits, f, r, a)
    BY <1>4 DEF RoutesOK, SaysOK
  <2> QED
    BY <2>1, ToldAtStays DEF Says
<1>5. ASSUME NEW f \in Intents \cup Commits \cup {e}, NEW r, NEW a, Records(r, a), f.key = KeyAt(r, a)
      PROVE  Says(D, f, r, a)
  <2>1. CASE f = e
    BY <1>1, <1>3, <1>5, <2>1
  <2>2. CASE f # e
    BY <1>4, <1>5, <2>2
  <2> QED
    BY <2>1, <2>2
<1> QED
  BY <1>5 DEF SaysOK

LEMMA SaysMoves ==
    ASSUME PositionOK, FilesOK, OrderOK, ParentOK(Commits), RoutesOK(Intents, Commits), Moves
    PROVE  SaysOK(Intents \cup Commits, Commits)'
<1>0. Commits \subseteq Commits' /\ SaysOK(Intents \cup Commits, Commits)
  BY CommitsGrow DEF RoutesOK
<1>1. ASSUME \E r : PlainLine(r)
      PROVE  SaysOK(Intents \cup Commits, Commits)'
  <2>1. Intents' = Intents /\ Commits' = Commits
    BY <1>1, PlainEntries
  <2> QED
    BY <1>0, <2>1 DEF SaysOK
<1>2. CASE Intends
  <2> DEFINE line == EffectLine("intent")
  <2>1. line.kind = "intent" /\ line.key = Current.key /\ line.name = Op.name /\ line.request = Request
    BY DEF EffectLine, Current
  <2> HIDE DEF line
  <2>2. Intents' = Intents \cup {line} /\ Commits' = Commits
    BY <1>2, <2>1, EntriesGrow DEF Intends, Intents, Commits, line
  <2>3. SaysOK(Intents \cup Commits \cup {line}, Commits')
    BY <1>0, <1>2, <2>1, HomePlaces, SaysNext DEF Intends
  <2>4. Intents' \cup Commits' = Intents \cup Commits \cup {line}
    BY <2>2
  <2> QED
    BY <2>3, <2>4
<1>3. CASE CommitsIt
  <2> DEFINE line == CommitLine
  <2>1. line.kind = "commit" /\ line.key = Current.key /\ line.name = Op.name /\ line.request = Request
    BY DEF CommitLine, Current
  <2> HIDE DEF line
  <2>2. Commits' = Commits \cup {line} /\ Intents' = Intents
    BY <1>3, <2>1, EntriesGrow DEF CommitsIt, Intents, Commits, line
  <2>3. pc \in InEffect /\ Op.mode = "record"
    BY <1>3, HomePlaces DEF CommitsIt, OrderOK, ProgressOK
  <2>4. SaysOK(Intents \cup Commits \cup {line}, Commits')
    BY <1>0, <2>1, <2>3, SaysNext
  <2>5. Intents' \cup Commits' = Intents \cup Commits \cup {line}
    BY <2>2
  <2> QED
    BY <2>4, <2>5
<1>4. ASSUME NEW r, BeginsRoute(r)
      PROVE  \E q : PlainLine(q)
  <2> DEFINE from == IF r = Recovered THEN saved ELSE [seen |-> <<>>, host |-> Start0]
             line == [kind |-> "creation", route |-> r, host |-> from.host]
  <2>1. oplog' = Append(oplog, line)
    BY <1>4 DEF BeginsRoute, Begin, Start0
  <2>2. line.kind \notin {"intent", "commit"} /\ line.route \in {1, r}
    OBVIOUS
  <2> HIDE DEF line
  <2> QED
    BY <2>1, <2>2 DEF PlainLine
<1>5. CASE GoesHome \/ Publishes
  <2>1. PlainLine(1)
    BY <1>5 DEF GoesHome, Publishes, PlainLine
  <2> QED
    BY <1>1, <2>1
<1> QED
  BY <1>1, <1>2, <1>3, <1>4, <1>5 DEF Moves, Waits, Asks, Delivers, Finishes, Snaps

LEMMA RoutesStart ==
    ASSUME Init
    PROVE  RoutesOK(Intents, Commits)
<1>1. Intents = {} /\ Commits = {}
  BY EmptyIs DEF Init, Intents, Commits, Entries
<1>2. route = 1 /\ pc = "down"
  BY DEF Init
<1> QED
  BY <1>1, <1>2, FirstRoute, HomePlaces DEF RoutesOK, BesideOK, ForkOK, SavedOK, SaysOK

LEMMA RoutesKept ==
    ASSUME [Next]_vars, IInv, OrderOK, CheckpointOK, RoutesOK(Intents, Commits)
    PROVE  RoutesOK(Intents, Commits)'
<1>1. PositionOK /\ FilesOK /\ Moves /\ ParentOK(Commits)
  BY StepMoves DEF IInv, CheckpointOK
<1> QED
  BY <1>1, BesideMoves, ForkMoves, SavedMoves, SaysMoves DEF RoutesOK

-----------------------------------------------------------------------------
\* What a step notes down of the run: in the journal, in the receipt, in the error.

NothingNew ==
    \/ oplog' = oplog
    \/ \E e : oplog' = Append(oplog, e) /\ e.kind \notin {"invocation", "exit"}

Closing == {"stop", "stopping", "seal", "report", "done"}
Worst   == {"journal mismatch", "reissue differs", "missing committed effect", "mismatch", "rejected"}

Sealed == pc = "seal" /\ LogIntact /\ receipt' = Evidence

Notes ==
    /\ NothingNew \/ FinishEvent \/ ExitRoute
    /\ Finishes => FinishEvent
    /\ pc' \in Closing => route' = route /\ (pc \in Closing \/ ~(route < ForkRoute))
    /\ error' \in Worst => error' = error \/ (pc = "calling" /\ error' = answer.status)
    /\ resumedAt' = resumedAt \/ pc' = "opened"
    /\ runState' = "complete" => Sealed \/ (runState = "complete" /\ receipt' = receipt)

LEMMA QuietNotes ==
    ASSUME PositionOK, NothingNew, UNCHANGED <<error, resumedAt, runState, receipt>>,
           pc' \notin Closing \/ (pc \in Closing /\ route' = route),
           pc # "op" \/ pc' # "op" \/ at' = at \/ Op.do # "invoke"
    PROVE  Notes
<1>1. ~Finishes
  <2>1. at \in Nat
    BY Here
  <2>2. at + 1 # at
    BY <2>1
  <2> QED
    BY <2>2 DEF Finishes
<1> QED
  BY <1>1 DEF Notes

LEMMA NotesOfGivingUp ==
    ASSUME NEW why, GiveUp(why), why \notin Worst \/ (pc = "calling" /\ why = answer.status)
    PROVE  Notes
<1>1. pc' = "down" /\ error' = why /\ UNCHANGED <<oplog, resumedAt, runState, receipt>>
  BY DEF GiveUp, files
<1> QED
  BY <1>1 DEF Notes, NothingNew, Finishes, Closing

LEMMA NotesOfBeginning ==
    ASSUME NEW r, Begin(r), PositionOK, UNCHANGED <<error, resumedAt, receipt>>, pc # "op"
    PROVE  Notes
<1> DEFINE from == IF r = Recovered THEN saved
                   ELSE [seen |-> <<>>, host |-> [event |-> 0, effect |-> 0]]
           line == [kind |-> "creation", route |-> r, host |-> from.host]
<1>1. oplog' = Append(oplog, line) /\ pc' = "op" /\ runState' = runState
  BY DEF Begin
<1>2. line.kind \notin {"invocation", "exit"}
  OBVIOUS
<1> HIDE DEF line
<1>3. NothingNew
  BY <1>1, <1>2 DEF NothingNew
<1> QED
  BY <1>1, <1>3, QuietNotes DEF Closing

LEMMA NotesOfWriting ==
    ASSUME NEW line, Write(line), line.kind \notin {"invocation", "exit"}, PositionOK,
           UNCHANGED <<error, resumedAt, receipt>>, pc' \notin Closing,
           pc # "op" \/ pc' # "op" \/ at' = at \/ Op.do # "invoke"
    PROVE  Notes
<1>1. NothingNew /\ runState' = runState
  BY DEF Write, NothingNew
<1> QED
  BY <1>1, QuietNotes

\* The errors that would say that a process found something else, and why it does not.
LEMMA StepNotes ==
    ASSUME ExecutorStep, PositionOK, OrderOK, ParentOK(Commits), RoutesOK(Intents, Commits)
    PROVE  Notes
<1> USE DEF position, files, bookkeeping
<1>a. oplog' = oplog => NothingNew
  BY DEF NothingNew
<1>b. /\ \A kind : EffectLine(kind).kind = kind
      /\ \A result, source : ResultLine(result, source).kind = "result"
      /\ CommitLine.kind = "commit" /\ StateLine("checkpoint").kind = "checkpoint"
  BY LinesAre
<1>1. CASE WriteRunState
  BY <1>1 DEF WriteRunState, Notes, NothingNew, Finishes, Closing
<1>2. CASE Ensure
  <2>1. CASE Connectable
    BY <1>2, <2>1, NotesOfBeginning DEF Ensure
  <2>2. CASE ~Connectable
    BY <1>2, <1>a, <2>2, QuietNotes DEF Ensure, Closing
  <2> QED
    BY <2>1, <2>2
<1>3. CASE EnsureSpawns
  BY <1>3, <1>a, QuietNotes DEF EnsureSpawns, Closing
<1>4. CASE EnsureSucceeds
  BY <1>4, NotesOfBeginning DEF EnsureSucceeds
<1>5. CASE EnsureTimesOut
  BY <1>5, NotesOfGivingUp DEF EnsureTimesOut, Worst
<1>6. CASE AskEffect
  <2> DEFINE line == [kind |-> "request", route |-> route, key |-> Key(host), name |-> Op.name,
                      request |-> Request]
  <2>1. line.kind \notin {"invocation", "exit"}
    OBVIOUS
  <2>2. Write(line) /\ pc' = "asked" /\ UNCHANGED <<error, resumedAt, receipt>>
    BY <1>6 DEF AskEffect, Reaches
  <2> HIDE DEF line
  <2> QED
    BY <2>1, <2>2, NotesOfWriting DEF Closing
<1>7. CASE FromJournal
  <2>1. PICK c \in CommitsOf(Current.key) :
            IF Matches(c)
            THEN DeliverResult(c.result, "journal")
            ELSE GiveUp("journal mismatch") /\ UNCHANGED <<faults, providerVars>>
    BY <1>7 DEF FromJournal
  <2>2. pc = "asked" /\ c \in Commits /\ c.key = Current.key
    BY <1>7 DEF FromJournal, CommitsOf, Commits
  <2>3. Matches(c)
    BY <2>2, SameEffect DEF InEffect
  <2>4. Write(ResultLine(c.result, "journal")) /\ pc' = "op" /\ UNCHANGED <<error, resumedAt, receipt>>
    BY <2>1, <2>3 DEF DeliverResult
  <2> QED
    BY <1>b, <2>2, <2>4, NotesOfWriting DEF Closing
<1>8. CASE JournalIntent
  <2>1. CASE Op.mode = "record"
    <3>1. Write(EffectLine("intent")) /\ pc' = "intended" /\ UNCHANGED <<error, resumedAt, receipt>>
      BY <1>8, <2>1 DEF JournalIntent
    <3> QED
      BY <1>b, <3>1, NotesOfWriting DEF Closing
  <2>2. CASE Op.mode # "record"
    <3>1. ~Has(Commits, Current.key) /\ pc = "asked"
      BY <1>8, HasIs DEF JournalIntent
    <3> QED
      BY <2>2, <3>1, ReplayFinds DEF InEffect
  <2> QED
    BY <2>1, <2>2
<1>9. CASE Reissue
  <2>1. PICK i \in DanglingOf(Current.key) :
          IF Op.mode = "record" /\ Matches(i)
          THEN /\ Write(EffectLine("reissue"))
               /\ pc' = "intended"
               /\ UNCHANGED <<position, bookkeeping>>
          ELSE /\ GiveUp(IF Op.mode = "record" THEN "reissue differs"
                         ELSE "missing committed effect")
               /\ UNCHANGED faults
    BY <1>9 DEF Reissue
  <2>2. pc = "asked" /\ i \in Intents /\ i.key = Current.key /\ ~Has(Commits, Current.key)
    BY <1>9, HasIs DEF Reissue, DanglingOf, Intents
  <2>3. Matches(i) /\ Op.mode = "record"
    BY <2>2, SameEffect, ReplayFinds DEF InEffect
  <2>4. Write(EffectLine("reissue")) /\ pc' = "intended" /\ UNCHANGED <<error, resumedAt, receipt>>
    BY <2>1, <2>3
  <2> QED
    BY <1>b, <2>4, NotesOfWriting DEF Closing
<1>10. CASE CallProvider
  <2>1. CASE Connectable
    BY <1>10, <1>a, <2>1, QuietNotes DEF CallProvider, Closing
  <2>2. CASE ~Connectable
    BY <1>10, <2>2, NotesOfGivingUp DEF CallProvider, Worst
  <2> QED
    BY <2>1, <2>2
<1>11. CASE ProviderReplies
  <2>1. CASE answer.status \in {"executed", "duplicate"}
    BY <1>11, <1>a, <2>1, QuietNotes DEF ProviderReplies, Closing
  <2>2. CASE answer.status \notin {"executed", "duplicate"}
    BY <1>11, <2>2, NotesOfGivingUp DEF ProviderReplies
  <2> QED
    BY <2>1, <2>2
<1>12. CASE ProviderHangsUp
  BY <1>12, NotesOfGivingUp DEF ProviderHangsUp, Worst
<1>13. CASE JournalCommit
  <2>1. Write(CommitLine) /\ pc' = "committed" /\ UNCHANGED <<error, resumedAt, receipt>>
    BY <1>13 DEF JournalCommit
  <2> QED
    BY <1>b, <2>1, NotesOfWriting DEF Closing
<1>14. CASE DeliverFromProvider
  <2>1. /\ Write(ResultLine(answer.result, "provider")) /\ pc = "committed" /\ pc' = "op"
        /\ UNCHANGED <<error, resumedAt, receipt>>
    BY <1>14 DEF DeliverFromProvider
  <2> QED
    BY <1>b, <2>1, NotesOfWriting DEF Closing
<1>15. CASE FinishEvent
  BY <1>15 DEF FinishEvent, Reaches, Write, Notes, Closing
<1>16. CASE TakeCheckpoint
  <2>1. /\ Write(StateLine("checkpoint")) /\ pc' = "op" /\ Op.do = "checkpoint"
        /\ UNCHANGED <<error, resumedAt, receipt>>
    BY <1>16 DEF TakeCheckpoint, Reaches
  <2> QED
    BY <1>b, <2>1, NotesOfWriting DEF Closing
<1>17. CASE ExitRoute
  BY <1>17 DEF ExitRoute, Reaches, Write, Notes, Finishes, Closing
<1>18. CASE PublishCheckpoint
  <2>1. CASE saved = NoCheckpoint
    BY <1>18, <2>1, NotesOfGivingUp DEF PublishCheckpoint, Worst
  <2>2. CASE saved # NoCheckpoint
    BY <1>18, <1>a, <2>2, QuietNotes DEF PublishCheckpoint, Closing
  <2> QED
    BY <2>1, <2>2
<1>19. CASE NextRoute
  <2>1. CASE route < ForkRoute
    BY <1>19, <2>1, NotesOfBeginning DEF NextRoute
  <2>2. CASE ~(route < ForkRoute)
    BY <1>19, <1>a, <2>2 DEF NextRoute, Notes, Finishes
  <2> QED
    BY <2>1, <2>2
<1>20. CASE StopProvider
  BY <1>20, <1>a, QuietNotes DEF StopProvider, Closing
<1>21. CASE ProviderStopped
  BY <1>21, <1>a, QuietNotes DEF ProviderStopped, Closing
<1>22. CASE Seal
  <2>1. CASE LogIntact /\ ~ptorn
    BY <1>22, <1>a, <2>1 DEF Seal, Notes, Finishes, Closing, Sealed
  <2>2. CASE ~(LogIntact /\ ~ptorn)
    BY <1>22, <2>2, NotesOfGivingUp DEF Seal, Worst
  <2> QED
    BY <2>1, <2>2
<1>23. CASE Report
  BY <1>23, <1>a, QuietNotes DEF Report, Closing
<1> QED
  BY <1>1, <1>2, <1>3, <1>4, <1>5, <1>6, <1>7, <1>8, <1>9, <1>10, <1>11, <1>12, <1>13, <1>14,
     <1>15, <1>16, <1>17, <1>18, <1>19, <1>20, <1>21, <1>22, <1>23 DEF ExecutorStep

LEMMA EveryStepNotes ==
    ASSUME [Next]_vars, PositionOK, OrderOK, ParentOK(Commits), RoutesOK(Intents, Commits)
    PROVE  Notes
<1> USE DEF position, files, bookkeeping, executorVars
<1>1. CASE Start
  BY <1>1 DEF Start, Notes, NothingNew, Finishes, Closing, Worst
<1>2. CASE Resume
  <2> DEFINE line == [kind |-> "resume", route |-> 1]
  <2>1. line.kind \notin {"invocation", "exit"} /\ oplog' = Append(oplog, line)
    BY <1>2 DEF Resume
  <2> HIDE DEF line
  <2>2. NothingNew
    BY <2>1 DEF NothingNew
  <2> QED
    BY <1>2, <2>2 DEF Resume, Notes, Finishes, Closing, Worst
<1>3. CASE ExecutorDies
  BY <1>3 DEF ExecutorDies, Notes, NothingNew, Finishes, Closing, Worst
<1>4. ASSUME UNCHANGED <<pc, position, oplog, error, resumedAt, runState, receipt>> PROVE Notes
  BY <1>4, QuietNotes DEF NothingNew
<1>5. ASSUME NEW p \in Providers, ProviderStep(p) \/ ProviderKilled(p) PROVE Notes
  BY <1>4, <1>5 DEF ProviderStep, ProviderKilled
<1>6. CASE UNCHANGED vars
  BY <1>4, <1>6 DEF vars
<1> QED
  BY <1>1, <1>2, <1>3, <1>5, <1>6, StepNotes DEF Next

\* An event is handled where the first route handles it, or where the fork does.
LEMMA EventsSaid ==
    ASSUME PositionOK, OrderOK, ParentOK(Commits), RoutesOK(Intents, Commits),
           NEW D, Commits \subseteq D, pc = "op", Op.do = "invoke",
           NEW e, e.route = route, e.event = host.event, e.branch = Op.branch, e.state = seen
    PROVE  InvocationSays(D, e)
<1>0. /\ 1 # ForkRoute /\ route \in 1 .. ForkRoute /\ Op = Program[route][at] /\ at \in Nat \ {0}
      /\ at \in 1 .. Len(Program[route]) /\ Len(Program[route]) \in Nat /\ Shared(route) \in Nat
      /\ Program[route][Len(Program[route])].do = "exit"
      /\ route # ForkRoute => Len(Program[route]) = Shared(route) + 1
  BY FirstRoute, Here, RouteIsSeq, RouteStarts
<1>1. at # Len(Program[route])
  BY <1>0
<1>2. route # Recovered => host.event = Count(route, at, "invoke")
  BY HomePlaces DEF OrderOK, PlaceOK
<1>3. CASE route = 1
  <2>1. at \in 1 .. Shared(1)
    BY <1>0, <1>1, <1>3
  <2>2. Op.branch = "parent"
    BY <1>0, <1>3, <2>1, RouteStarts
  <2>3. ToldAt(D, seen, 1, at)
    BY <1>0, <1>3, ToldStays DEF ParentOK, ToldAt
  <2>4. 1 # Recovered
    BY Constants DEF Recovered
  <2>5. InvokedAt(D, e, 1, at)
    BY <1>0, <1>2, <1>3, <2>3, <2>4 DEF InvokedAt
  <2> QED
    BY <2>2, <2>5 DEF InvocationSays
<1>4. CASE route > 1 /\ at <= Shared(route)
  <2>1. at <= Shared(route) + 1 /\ at \in 1 .. Shared(route) /\ route \in 2 .. ForkRoute
    BY <1>0, <1>4
  <2>2. PICK b : BesideAt(Commits, b)
    BY <1>4, <2>1 DEF RoutesOK, BesideOK
  <2>3. b \in 1 .. Shared(1) /\ Program[1][b].do = "invoke"
    BY <1>0, <2>1, <2>2, LevelMatches DEF BesideAt
  <2>4. b \in 1 .. Len(Program[1])
    BY <2>3, FirstRoute
  <2>5. host.event = Count(1, b, "invoke")
    BY <2>2 DEF BesideAt
  <2>6. ToldAt(D, seen, 1, b)
    BY <1>0, <2>2, ToldStays DEF BesideAt, ToldAt
  <2>7. InvokedAt(D, e, 1, b)
    BY <2>3, <2>4, <2>5, <2>6 DEF InvokedAt
  <2>8. Op.branch = "parent"
    BY <1>0, <2>1, RouteStarts
  <2> QED
    BY <2>7, <2>8 DEF InvocationSays
<1>5. CASE at > Shared(route)
  <2>1. route = ForkRoute /\ at \in Shared(route) + 1 .. Len(Program[route]) - 1
    BY <1>0, <1>1, <1>5
  <2>2. Op.branch = "fork" /\ e.route # 1
    BY <1>0, <2>1, RouteStarts
  <2>3. ToldAt(D, seen, ForkRoute, at)
    BY <1>0, <2>1, ToldForkStays DEF RoutesOK, ForkOK, ToldAt
  <2>4. ForkRoute # Recovered
    BY Constants DEF Recovered, ForkRoute
  <2>5. InvokedAt(D, e, ForkRoute, at)
    BY <1>0, <1>2, <2>1, <2>3, <2>4 DEF InvokedAt
  <2> QED
    BY <2>2, <2>5 DEF InvocationSays
<1> QED
  BY <1>0, <1>3, <1>4, <1>5

LEMMA InvocationsMove ==
    ASSUME PositionOK, FilesOK, OrderOK, ParentOK(Commits), RoutesOK(Intents, Commits),
           InvocationsOK(Commits), Notes, Commits \subseteq Commits'
    PROVE  InvocationsOK(Commits)'
<1>1. ASSUME NEW e \in Entries("invocation") PROVE InvocationSays(Commits', e)
  <2>1. InvocationSays(Commits, e)
    BY DEF InvocationsOK
  <2>2. \A r, a : InvokedAt(Commits, e, r, a) => InvokedAt(Commits', e, r, a)
    BY ToldAtStays DEF InvokedAt
  <2> QED
    BY <2>1, <2>2 DEF InvocationSays
<1>2. CASE NothingNew
  <2>1. Entries("invocation")' = Entries("invocation")
    BY <1>2, SameEntries, EntriesGrow DEF NothingNew
  <2> QED
    BY <1>1, <2>1 DEF InvocationsOK
<1>3. CASE ExitRoute
  <2> DEFINE line == StateLine("exit")
  <2>1. oplog' = Append(oplog, line) /\ line.kind = "exit"
    BY <1>3, LinesAre DEF ExitRoute, Write
  <2> HIDE DEF line
  <2>2. Entries("invocation")' = Entries("invocation")
    BY <2>1, EntriesGrow
  <2> QED
    BY <1>1, <2>2 DEF InvocationsOK
<1>4. CASE FinishEvent
  <2> DEFINE line == [kind |-> "invocation", route |-> route, event |-> host.event,
                      branch |-> Op.branch, state |-> seen]
  <2>1. /\ line.kind = "invocation" /\ line.route = route /\ line.event = host.event
        /\ line.branch = Op.branch /\ line.state = seen
    OBVIOUS
  <2>2. oplog' = Append(oplog, line) /\ pc = "op" /\ Op.do = "invoke"
    BY <1>4 DEF FinishEvent, Reaches, Write
  <2> HIDE DEF line
  <2>3. Entries("invocation")' = Entries("invocation") \cup {line}
    BY <2>1, <2>2, EntriesGrow
  <2>4. InvocationSays(Commits', line)
    BY <2>1, <2>2, EventsSaid
  <2> QED
    BY <1>1, <2>3, <2>4 DEF InvocationsOK
<1> QED
  BY <1>2, <1>3, <1>4 DEF Notes

\* All routes but the fork end alike.
LEMMA EndsSaid ==
    ASSUME PositionOK, OrderOK, ParentOK(Commits), RoutesOK(Intents, Commits),
           NEW D, Commits \subseteq D, pc = "op", Op.do = "exit", route # ForkRoute,
           NEW e, e.host = host, e.state = seen
    PROVE  ExitSays(D, e)
<1>0. /\ route \in 1 .. ForkRoute /\ at = Len(Program[route]) /\ Shared(route) \in Nat
      /\ Len(Program[route]) = Shared(route) + 1
  BY Here, RouteStarts
<1>1. Count(1, Len(Program[1]), "effect") \in Nat
  BY FirstLength, PassedIs
<1>2. CASE route = 1
  <2>1. 1 # Recovered
    BY Constants DEF Recovered
  <2>2. host = [event |-> Count(1, at, "invoke"), effect |-> Count(1, at, "effect") + 0]
    BY <1>2, <2>1, HomePlaces DEF OrderOK, PlaceOK
  <2>3. host = HostAt(Len(Program[1]))
    BY <1>0, <1>1, <1>2, <2>2 DEF HostAt
  <2>4. ToldIn(D, seen, Len(Program[1]))
    BY <1>0, <1>2, ToldStays DEF ParentOK
  <2> QED
    BY <2>3, <2>4 DEF ExitSays
<1>3. CASE route # 1
  <2>1. route > 1 /\ at <= Shared(route) + 1 /\ route \in 2 .. ForkRoute
    BY <1>0, <1>3
  <2>2. PICK b : BesideAt(Commits, b)
    BY <2>1 DEF RoutesOK, BesideOK
  <2>3. b = Len(Program[1])
    BY <1>0, <2>1, <2>2, LevelEnds DEF BesideAt
  <2>4. host = [event |-> Count(1, b, "invoke"), effect |-> Count(1, b, "effect") + 0]
    BY <2>2, HomePlaces DEF BesideAt
  <2>5. host = HostAt(Len(Program[1]))
    BY <1>1, <2>3, <2>4 DEF HostAt
  <2>6. ToldIn(D, seen, Len(Program[1]))
    BY <2>2, <2>3, ToldStays DEF BesideAt
  <2> QED
    BY <2>5, <2>6 DEF ExitSays
<1> QED
  BY <1>2, <1>3

LEMMA ExitsMove ==
    ASSUME PositionOK, FilesOK, OrderOK, ParentOK(Commits), RoutesOK(Intents, Commits),
           ExitsOK(Commits), Notes, Commits \subseteq Commits'
    PROVE  ExitsOK(Commits)'
<1>1. ASSUME NEW e \in Entries("exit"), e.route # ForkRoute PROVE ExitSays(Commits', e)
  <2>1. ExitSays(Commits, e)
    BY <1>1 DEF ExitsOK
  <2> QED
    BY <2>1, ToldStays DEF ExitSays
<1>2. CASE NothingNew
  <2>1. Entries("exit")' = Entries("exit")
    BY <1>2, SameEntries, EntriesGrow DEF NothingNew
  <2> QED
    BY <1>1, <2>1 DEF ExitsOK
<1>3. CASE FinishEvent
  <2> DEFINE line == [kind |-> "invocation", route |-> route, event |-> host.event,
                      branch |-> Op.branch, state |-> seen]
  <2>1. oplog' = Append(oplog, line) /\ line.kind # "exit"
    BY <1>3 DEF FinishEvent, Write
  <2> HIDE DEF line
  <2>2. Entries("exit")' = Entries("exit")
    BY <2>1, EntriesGrow
  <2> QED
    BY <1>1, <2>2 DEF ExitsOK
<1>4. CASE ExitRoute
  <2> DEFINE line == StateLine("exit")
  <2>1. line.kind = "exit" /\ line.route = route /\ line.host = host /\ line.state = seen
    BY DEF StateLine
  <2>2. oplog' = Append(oplog, line) /\ pc = "op" /\ Op.do = "exit"
    BY <1>4 DEF ExitRoute, Reaches, Write
  <2> HIDE DEF line
  <2>3. Entries("exit")' = Entries("exit") \cup {line}
    BY <2>1, <2>2, EntriesGrow
  <2>4. line.route # ForkRoute => ExitSays(Commits', line)
    BY <2>1, <2>2, EndsSaid
  <2> QED
    BY <1>1, <2>3, <2>4 DEF ExitsOK
<1> QED
  BY <1>2, <1>3, <1>4 DEF Notes

\* What a process journaled stays its own.
LEMMA OwnStays ==
    ASSUME FilesOK, oplog' = oplog \/ \E e : oplog' = Append(oplog, e), resumedAt' = resumedAt,
           NEW n, OwnEvent(n)
    PROVE  OwnEvent(n)'
<1>1. PICK j \in DOMAIN oplog : /\ j > resumedAt /\ oplog[j].kind = "invocation"
                                /\ oplog[j].route = 1 /\ oplog[j].event = n
  BY DEF OwnEvent
<1>2. j \in DOMAIN oplog' /\ oplog'[j] = oplog[j]
  <2>1. CASE oplog' = oplog
    BY <2>1
  <2>2. ASSUME NEW e, oplog' = Append(oplog, e) PROVE j \in DOMAIN oplog' /\ oplog'[j] = oplog[j]
    <3>1. Longer(oplog, e, oplog')
      BY <2>2, AppendIs DEF FilesOK
    <3>2. j \in 1 .. Len(oplog) /\ Len(oplog) \in Nat /\ DOMAIN oplog' = 1 .. Len(oplog) + 1
      BY <1>1, <3>1 DEF Longer
    <3> QED
      BY <3>1, <3>2 DEF Longer
  <2> QED
    BY <2>1, <2>2
<1> QED
  BY <1>1, <1>2 DEF OwnEvent

LEMMA OwnFinishes ==
    ASSUME PositionOK, FilesOK, OrderOK, FinishEvent, resumedAt' = resumedAt, route = 1,
           NEW n, n = Count(1, at, "invoke")
    PROVE  OwnEvent(n)'
<1> DEFINE line == [kind |-> "invocation", route |-> route, event |-> host.event,
                    branch |-> Op.branch, state |-> seen]
<1>1. line.kind = "invocation" /\ line.route = 1 /\ line.event = host.event
  OBVIOUS
<1>2. oplog' = Append(oplog, line) /\ pc = "op"
  BY DEF FinishEvent, Reaches, Write
<1> HIDE DEF line
<1>3. host.event = n
  <2>1. 1 # Recovered
    BY Constants DEF Recovered
  <2> QED
    BY <2>1, HomePlaces DEF OrderOK, PlaceOK
<1>4. /\ Len(oplog) + 1 \in DOMAIN oplog' /\ oplog'[Len(oplog) + 1] = line
      /\ Len(oplog) + 1 > resumedAt'
  <2>1. Longer(oplog, line, oplog')
    BY <1>2, AppendIs DEF FilesOK
  <2>2. Len(oplog) \in Nat /\ resumedAt \in 0 .. Len(oplog) /\ DOMAIN oplog' = 1 .. Len(oplog) + 1
        /\ oplog'[Len(oplog) + 1] = line
    BY <2>1 DEF Longer, FilesOK
  <2> QED
    BY <2>2
<1> QED
  BY <1>1, <1>3, <1>4 DEF OwnEvent

LEMMA OwnMoves ==
    ASSUME PositionOK, FilesOK, OrderOK, OrderOK', OwnOK, Notes, Moves
    PROVE  OwnOK'
<1>0. /\ route \in 1 .. ForkRoute /\ at \in Nat \ {0} /\ Op = Program[route][at] /\ route \in Nat
      /\ Len(Program[1]) \in Nat
  BY Here, FirstLength
<1>1. ASSUME route' = 1, at' = 1 PROVE OwnOK'
  BY <1>0, <1>1 DEF OwnOK
<1>2. CASE pc' = "opened"
  <2>1. pc' \in Home
    BY <1>2 DEF Home
  <2> QED
    BY <1>1, <2>1 DEF OrderOK, PlaceOK
<1>3. CASE resumedAt' = resumedAt
  <2>0. oplog' = oplog \/ \E e : oplog' = Append(oplog, e)
    <3>1. FinishEvent \/ ExitRoute => \E e : oplog' = Append(oplog, e)
      BY DEF FinishEvent, ExitRoute, Write
    <3> QED
      BY <3>1 DEF Notes, NothingNew
  <2>1. \A n : OwnEvent(n) => OwnEvent(n)'
    BY <1>3, <2>0, OwnStays
  <2>2. ASSUME route' = route, at' = at PROVE OwnOK'
    BY <2>1, <2>2 DEF OwnOK
  <2>3. CASE Waits \/ Asks \/ Intends \/ CommitsIt \/ Publishes
    BY <2>2, <2>3 DEF Waits, Asks, Intends, CommitsIt, Publishes, SamePlace
  <2>4. CASE GoesHome
    BY <1>1, <2>4 DEF GoesHome
  <2>5. ASSUME NEW r, BeginsRoute(r) PROVE OwnOK'
    <3>1. route' = r /\ at' = 1
      BY <2>5, RouteBegins
    <3>2. CASE r # 1
      <4>1. pc = "next" /\ r = route + 1
        BY <2>5, <3>2 DEF BeginsRoute
      <4>2. at = Len(Program[route])
        BY <4>1, Here, HomePlaces DEF OrderOK, PlaceOK
      <4>3. ASSUME NEW b \in 1 .. Len(Program[1]), Program[1][b].do = "invoke"
            PROVE  OwnEvent(Count(1, b, "invoke"))
        <5>1. route > 1 \/ b < at
          <6>1. Program[1][Len(Program[1])].do = "exit"
            BY FirstRoute
          <6>2. b # Len(Program[1])
            BY <4>3, <6>1
          <6>3. b < Len(Program[1])
            BY <1>0, <6>2
          <6> QED
            BY <1>0, <4>2, <6>3
        <5> QED
          BY <4>3, <5>1 DEF OwnOK
      <4> QED
        BY <2>1, <4>3 DEF OwnOK
    <3> QED
      BY <1>1, <3>1, <3>2
  <2>6. ASSUME route' = route, at' = at + 1,
               Op.do # "invoke" \/ FinishEvent
        PROVE  OwnOK'
    <3>1. ASSUME NEW b \in 1 .. Len(Program[1]), Program[1][b].do = "invoke", route > 1 \/ b < at + 1
          PROVE  OwnEvent(Count(1, b, "invoke"))'
      <4>1. CASE route > 1 \/ b < at
        BY <2>1, <3>1, <4>1 DEF OwnOK
      <4>2. CASE ~(route > 1 \/ b < at)
        <5>1. route = 1 /\ b = at
          BY <1>0, <3>1, <4>2
        <5>2. FinishEvent
          BY <1>0, <2>6, <3>1, <5>1
        <5>3. PICK n : n = Count(1, b, "invoke")
          OBVIOUS
        <5>4. OwnEvent(n)'
          BY <1>3, <5>1, <5>2, <5>3, OwnFinishes
        <5> QED
          BY <5>3, <5>4 DEF Count
      <4> QED
        BY <4>1, <4>2
    <3> QED
      BY <2>6, <3>1 DEF OwnOK
  <2>7. CASE (\E c : Delivers(c)) \/ Snaps
    <3>1. route' = route /\ at' = at + 1 /\ Op.do # "invoke"
      BY <2>7, DeliversGrows DEF Delivers, Snaps
    <3> QED
      BY <2>6, <3>1
  <2>8. CASE Finishes
    <3>1. route' = route /\ at' = at + 1 /\ FinishEvent
      BY <2>8 DEF Finishes, Notes
    <3> QED
      BY <2>6, <3>1
  <2> QED
    BY <2>3, <2>4, <2>5, <2>7, <2>8 DEF Moves
<1> QED
  BY <1>2, <1>3 DEF Notes

LEMMA EndMoves ==
    ASSUME PositionOK, EndOK, Notes
    PROVE  EndOK'
<1>1. route \in 1 .. ForkRoute /\ ForkRoute \in Nat
  BY Here, Constants
<1>2. ASSUME pc' \in Closing PROVE route' = ForkRoute
  <2>1. route' = route /\ (pc \in Closing \/ ~(route < ForkRoute))
    BY <1>2 DEF Notes
  <2>2. pc \in Closing => route = ForkRoute
    BY DEF EndOK, Closing
  <2> QED
    BY <1>1, <2>1, <2>2
<1> QED
  BY <1>2 DEF EndOK, Closing

LEMMA LinesStart ==
    ASSUME Init
    PROVE  LinesOK
<1>1. Entries("invocation") = {} /\ Entries("exit") = {}
  BY EmptyIs DEF Init, Entries
<1>2. route = 1 /\ at = 1 /\ pc = "down" /\ Len(Program[1]) \in Nat
  BY FirstLength DEF Init
<1>3. OwnOK
  BY <1>2 DEF OwnOK
<1> QED
  BY <1>1, <1>2, <1>3 DEF LinesOK, InvocationsOK, ExitsOK, EndOK

LEMMA LinesKept ==
    ASSUME [Next]_vars, IInv, OrderOK, CheckpointOK, ReplayOK
    PROVE  LinesOK'
<1>1. PositionOK /\ FilesOK /\ Moves /\ ParentOK(Commits) /\ OrderOK'
  BY StepMoves, OrderKept DEF IInv, CheckpointOK
<1>2. Notes /\ Commits \subseteq Commits'
  BY <1>1, EveryStepNotes, CommitsGrow DEF ReplayOK
<1> QED
  BY <1>1, <1>2, InvocationsMove, ExitsMove, OwnMoves, EndMoves DEF ReplayOK, LinesOK

\* What every route was told, and what it left in the journal of it, in every reachable
\* state (execute, Host::effect).
THEOREM ReplayInvariant ==
    Spec => []ReplayOK
<1>1. Init => ReplayOK
  BY RoutesStart, LinesStart DEF ReplayOK
<1>2. IInv /\ OrderOK /\ OrderOK' /\ CheckpointOK /\ ReplayOK /\ [Next]_vars => ReplayOK'
  <2> SUFFICES ASSUME IInv, OrderOK, OrderOK', CheckpointOK, ReplayOK, [Next]_vars PROVE ReplayOK'
    OBVIOUS
  <2>1. RoutesOK(Intents, Commits)'
    BY RoutesKept DEF ReplayOK
  <2>2. LinesOK'
    BY LinesKept
  <2> QED
    BY <2>1, <2>2 DEF ReplayOK
<1> QED
  BY <1>1, <1>2, RunInvariant, OrderInvariant, CheckpointInvariant, PTL DEF Spec

-----------------------------------------------------------------------------
\* The same event, the same outcome.

LEMMA InvokesDiffer ==
    ASSUME NEW r \in {1, ForkRoute}, NEW a \in 1 .. Len(Program[r]), NEW b \in 1 .. Len(Program[r]),
           Program[r][a].do = "invoke", Program[r][b].do = "invoke",
           Count(r, a, "invoke") = Count(r, b, "invoke")
    PROVE  a = b
<1>1. r \in 1 .. ForkRoute
  BY Constants
<1>2. Len(Program[r]) \in Nat
  BY <1>1, RouteIsSeq
<1>3. a \in Nat \ {0} /\ b \in Nat \ {0}
  BY <1>2
<1>4. Count(r, a, "invoke") \in Nat /\ Count(r, b, "invoke") \in Nat
  BY <1>3, PassedIs
<1>5. a < b => Count(r, a, "invoke") < Count(r, b, "invoke")
  BY <1>3, CountGrows
<1>6. b < a => Count(r, b, "invoke") < Count(r, a, "invoke")
  BY <1>3, CountGrows
<1> QED
  BY <1>3, <1>4, <1>5, <1>6

LEMMA SameOutcome ==
    ASSUME OrderOK, InvocationsOK(Commits), NEW e \in Entries("invocation"),
           NEW f \in Entries("invocation"), e.branch = f.branch, e.event = f.event
    PROVE  e.state = f.state
<1>1. JournalOK(Intents, Commits) /\ InvocationSays(Commits, e) /\ InvocationSays(Commits, f)
  BY DEF OrderOK, InvocationsOK
<1>2. ASSUME NEW r \in {1, ForkRoute}, NEW a, NEW b, InvokedAt(Commits, e, r, a),
             InvokedAt(Commits, f, r, b)
      PROVE  e.state = f.state
  <2>1. a = b
    BY <1>2, InvokesDiffer DEF InvokedAt
  <2>2. ToldAt(Commits, e.state, r, a) /\ ToldAt(Commits, f.state, r, a)
    BY <1>2, <2>1 DEF InvokedAt
  <2> QED
    BY <1>1, <2>2, ToldAtTheSame
<1>3. \E r \in {1, ForkRoute} : (\E a : InvokedAt(Commits, e, r, a)) /\ (\E b : InvokedAt(Commits, f, r, b))
  BY <1>1 DEF InvocationSays
<1> QED
  BY <1>2, <1>3
-----------------------------------------------------------------------------
\* What the provider replies.

\* Two intents for one key are for the same effect.
LEMMA IntentsAgree ==
    ASSUME OrderOK, SaysOK(Intents \cup Commits, Commits), NEW x, NEW y, Intended(x), Intended(y),
           x.key = y.key
    PROVE  x.name = y.name /\ x.request = y.request
<1>1. JournalOK(Intents, Commits)
  BY DEF OrderOK
<1>2. PICK e \in Intents : e.key = x.key /\ e.name = x.name /\ e.request = x.request
  BY DEF Intended, IntendedBy, Intents
<1>3. PICK f \in Intents : f.key = y.key /\ f.name = y.name /\ f.request = y.request
  BY DEF Intended, IntendedBy, Intents
<1>4. PICK r, a : Records(r, a) /\ e.key = KeyAt(r, a)
  BY <1>1 DEF JournalOK, MarkedIn
<1>5. Says(Commits, e, r, a) /\ Says(Commits, f, r, a)
  BY <1>2, <1>3, <1>4 DEF SaysOK
<1>6. e.request.seen = f.request.seen
  <2>1. r \in {1, ForkRoute}
    BY <1>4 DEF Records
  <2>2. ToldAt(Commits, e.request.seen, r, a) /\ ToldAt(Commits, f.request.seen, r, a)
    BY <1>5 DEF Says
  <2> QED
    BY <1>1, <2>1, <2>2, ToldAtTheSame
<1>7. e.name = f.name /\ e.request = f.request
  BY <1>5, <1>6 DEF Says
<1> QED
  BY <1>2, <1>3, <1>7

\* The recorded effects of one name.
RecordedAs(n) == {p \in Positions : /\ Program[p[1]][p[2]].mode = "record"
                                    /\ Program[p[1]][p[2]].name = n}

\* Where an intended effect is asked for.
AskedAt(x, p) == /\ p \in RecordedAs(x.name) /\ Records(p[1], p[2])
                 /\ x.key = KeyAt(p[1], p[2])

LEMMA PositionIs ==
    ASSUME NEW r, NEW a, Records(r, a)
    PROVE  <<r, a>> \in Positions
<1>1. /\ 1 \in 1 .. ForkRoute /\ ForkRoute \in 1 .. ForkRoute
      /\ Len(Program[1]) \in Nat /\ Len(Program[ForkRoute]) \in Nat
  BY Constants, RouteIsSeq
<1>2. Len(Program[1] \o Program[ForkRoute]) = Len(Program[1]) + Len(Program[ForkRoute])
  BY <1>1, RouteIsSeq, ConcatProperties
<1>3. r \in 1 .. ForkRoute /\ DOMAIN Program[r] = 1 .. Len(Program[r])
  BY <1>1, RouteIsSeq, LenProperties DEF Records
<1>4. a \in 1 .. Len(Program[r]) /\ (r = 1 \/ r = ForkRoute)
  BY DEF Records
<1>5. PICK m, n : m = Len(Program[1]) /\ n = Len(Program[ForkRoute])
  OBVIOUS
<1>6. a \in 1 .. m \/ a \in 1 .. n
  BY <1>4, <1>5
<1>7. m \in Nat /\ n \in Nat
  BY <1>1, <1>5
<1>8. a \in 1 .. m + n
  BY <1>6, <1>7
<1>9. a \in 1 .. Len(Program[1] \o Program[ForkRoute])
  BY <1>2, <1>5, <1>8
<1> QED
  BY <1>3, <1>9 DEF Positions, Records

LEMMA PositionsAreFinite == IsFiniteSet(Positions)
<1>1. 1 \in 1 .. ForkRoute /\ ForkRoute \in 1 .. ForkRoute
  BY Constants
<1>2. Len(Program[1]) \in Nat /\ Len(Program[ForkRoute]) \in Nat
  BY <1>1, RouteIsSeq
<1>3. Len(Program[1] \o Program[ForkRoute]) = Len(Program[1]) + Len(Program[ForkRoute])
  BY <1>1, RouteIsSeq, ConcatProperties
<1>4. PICK k \in Nat : k = Len(Program[1] \o Program[ForkRoute])
  <2>1. \A m, n : m \in Nat /\ n \in Nat => m + n \in Nat
    OBVIOUS
  <2>2. Len(Program[1]) + Len(Program[ForkRoute]) \in Nat
    BY <1>2, <2>1
  <2> QED
    BY <1>3, <2>2, Zenon
<1>5. IsFiniteSet(1 .. k)
  BY FS_Interval
<1>6. IsFiniteSet({1, ForkRoute} \X (1 .. k))
  <2>1. IsFiniteSet({1, ForkRoute})
    BY <1>1, FS_Interval, FS_Subset
  <2> QED
    BY <1>5, <2>1, FS_Product
<1>7. Positions \subseteq {1, ForkRoute} \X (1 .. k)
  BY <1>4 DEF Positions
<1> QED
  BY <1>6, <1>7, FS_Subset

LEMMA IntendedIsAsked ==
    ASSUME OrderOK, SaysOK(Intents \cup Commits, Commits), NEW x, Intended(x)
    PROVE  \E p : AskedAt(x, p)
<1>1. JournalOK(Intents, Commits)
  BY DEF OrderOK
<1>2. PICK e \in Intents : e.key = x.key /\ e.name = x.name /\ e.request = x.request
  BY DEF Intended, IntendedBy, Intents
<1>3. PICK r, a : Records(r, a) /\ e.key = KeyAt(r, a)
  BY <1>1 DEF JournalOK, MarkedIn
<1>4. e.name = Program[r][a].name
  <2>1. Says(Commits, e, r, a)
    BY <1>2, <1>3 DEF SaysOK
  <2> QED
    BY <2>1 DEF Says
<1>5. <<r, a>> \in Positions
  BY <1>3, PositionIs
<1>6. PICK p : p = <<r, a>>
  OBVIOUS
<1>7. p[1] = r /\ p[2] = a /\ p \in Positions
  BY <1>5, <1>6
<1>8. p \in RecordedAs(x.name)
  BY <1>2, <1>3, <1>4, <1>7 DEF RecordedAs, Records
<1>9. AskedAt(x, p)
  BY <1>2, <1>3, <1>7, <1>8 DEF AskedAt
<1> QED
  BY <1>9

\* When the log verifies and all results of a name are used up, every effect of that name
\* has been performed: none is left to ask for.
LEMMA ResultsSuffice ==
    ASSUME IInv, OrderOK, SaysOK(Intents \cup Commits, Commits), CannedSuffices, LogIntact,
           NEW x, Intended(x), x.name \in Names, \A i \in Executions : plog[i].key # x.key
    PROVE  Cardinality({i \in Executions : plog[i].name = x.name}) + 1 <= Canned[x.name]
<1> DEFINE S == {i \in Executions : plog[i].name = x.name}
           T == RecordedAs(x.name)
<1>1. PICK q : AskedAt(x, q)
  BY IntendedIsAsked
<1>2. \A i \in S : \E p : AskedAt(plog[i], p)
  BY IntendedIsAsked DEF IInv, ConversationOK, AheadOK
<1>3. PICK f : f = [i \in S |-> CHOOSE p : AskedAt(plog[i], p)]
  OBVIOUS
<1>4. ASSUME NEW i \in S PROVE AskedAt(plog[i], f[i])
  BY <1>2, <1>3
<1>5. ASSUME NEW i \in S PROVE f[i] \in T \ {q}
  <2>1. f[i] \in T
    BY <1>4 DEF AskedAt
  <2>2. f[i] # q
    <3>1. SUFFICES ASSUME f[i] = q PROVE FALSE
      OBVIOUS
    <3>2. plog[i].key = x.key
      BY <1>1, <1>4, <3>1 DEF AskedAt
    <3> QED
      BY <3>2
  <2> QED
    BY <2>1, <2>2
<1>6. ASSUME NEW i \in S, NEW j \in S, f[i] = f[j] PROVE i = j
  <2>1. plog[i].key = plog[j].key
    BY <1>4, <1>6 DEF AskedAt
  <2>2. \A k \in Executions : \A l \in Executions : l < k /\ plog[l].name = plog[k].name => plog[l].key # plog[k].key
    BY DEF IInv, ProviderOK, VerifiedMeansOnce
  <2>3. i \in Nat /\ j \in Nat
    BY ExecutionsAre DEF IInv, ProviderOK
  <2>4. ~(i < j) /\ ~(j < i)
    BY <2>1, <2>2
  <2> QED
    BY <2>3, <2>4
<1>7. f \in Injection(S, T \ {q})
  <2>1. f \in [S -> T \ {q}]
    BY <1>3, <1>5
  <2> QED
    BY <1>6, <2>1 DEF Injection, IsInjective
<1>8. q \in T
  BY <1>1 DEF AskedAt
<1>9. IsFiniteSet(T) /\ IsFiniteSet(T \ {q})
  BY PositionsAreFinite, FS_Subset DEF RecordedAs
<1>10. Cardinality(T \ {q}) = Cardinality(T) - 1 /\ Cardinality(T) \in Nat
  BY <1>8, <1>9, FS_RemoveElement, FS_CardinalityType
<1>11. Cardinality(S) <= Cardinality(T \ {q}) /\ Cardinality(S) \in Nat
  <2>1. IsFiniteSet(S)
    BY ExecutionsAre DEF IInv, ProviderOK
  <2> HIDE DEF S, T
  <2>2. Cardinality(S) <= Cardinality(T \ {q})
    BY <1>7, <1>9, FS_Injection
  <2> QED
    BY <2>1, <2>2, FS_CardinalityType
<1>12. Cardinality(T) <= Canned[x.name]
  BY DEF CannedSuffices, RecordedAs
<1>13. Canned[x.name] \in Nat
  BY CannedAssumption
<1> HIDE DEF S, T
<1>14. Cardinality(S) + 1 <= Canned[x.name]
  BY <1>10, <1>11, <1>12, <1>13
<1> QED
  BY <1>14 DEF S
\* A log that verifies has verified before.
LEMMA VerifiedBefore ==
    ASSUME IInv, [Next]_vars, LogIntact'
    PROVE  LogIntact
<1>0. ProviderOK
  BY DEF IInv
<1>1. CASE plog' = plog
  BY <1>1, SameLog
<1>2. ASSUME NEW line, plog' = Append(plog, line) PROVE LogIntact
  BY <1>0, <1>2, LogGrows DEF ProviderOK
<1>3. ASSUME NEW p \in Providers, ProviderStep(p) PROVE LogIntact
  <2>1. CASE Bind(p) \/ Rebuild(p)
    BY <1>1, <2>1 DEF Bind, Rebuild
  <2>2. CASE Announce(p)
    BY <1>2, <2>2 DEF Announce, Mark, Record
  <2>3. CASE Serve(p) /\ UNCHANGED executorVars
    <3>1. PICK r : Served(p, r)
      BY <1>0, <2>3, ServeKept
    <3>2. CASE Shutdown(p, r)
      BY <1>2, <3>2 DEF Shutdown, Mark, Record
    <3>3. \A status, result : Logged(p, r, status, result) => LogIntact
      BY <1>2, LoggedIs
    <3> QED
      BY <3>1, <3>2, <3>3 DEF Served, Answers, Performs
  <2> QED
    BY <1>3, <2>1, <2>2, <2>3 DEF ProviderStep
<1> QED
  BY <1>0, <1>1, <1>3, ExecutorLeavesLog

\* The provider never has to say that a key is bound to another request.
NoMismatch == answer.status # "mismatch"

\* Nor, in a log that verifies, that a name has no result left.
NoRejection == answer.status = "rejected" => ~LogIntact

\* How the reply changes when no request is served.
AnswerKept ==
    \/ answer' = answer
    \/ answer' = NoAnswer
    \/ answer' = [answer EXCEPT !.from = NoProvider] /\ answer.status \in {"executed", "duplicate"}

LEMMA ExecutorsAnswer ==
    ASSUME ExecutorStep
    PROVE  AnswerKept
<1> USE DEF position, files, bookkeeping, providerVars, AnswerKept
<1>1. CASE WriteRunState \/ Ensure \/ EnsureSucceeds \/ EnsureTimesOut \/ AskEffect \/ JournalIntent
  BY <1>1 DEF WriteRunState, Ensure, EnsureSucceeds, EnsureTimesOut, AskEffect, JournalIntent
<1>2. CASE EnsureSpawns
  BY <1>2 DEF EnsureSpawns, Spawn
<1>3. CASE FromJournal
  <2>1. PICK c \in CommitsOf(Current.key) :
            IF Matches(c)
            THEN DeliverResult(c.result, "journal")
            ELSE GiveUp("journal mismatch") /\ UNCHANGED <<faults, providerVars>>
    BY <1>3 DEF FromJournal
  <2> QED
    BY <2>1 DEF DeliverResult
<1>4. CASE Reissue \/ ProviderHangsUp \/ JournalCommit
  BY <1>4 DEF Reissue, ProviderHangsUp, JournalCommit
<1>5. CASE CallProvider \/ StopProvider
  BY <1>5 DEF CallProvider, StopProvider, Send
<1>6. CASE ProviderReplies
  BY <1>6 DEF ProviderReplies
<1>7. CASE DeliverFromProvider \/ FinishEvent \/ TakeCheckpoint \/ ExitRoute
  BY <1>7 DEF DeliverFromProvider, FinishEvent, TakeCheckpoint, ExitRoute
<1>8. CASE PublishCheckpoint \/ NextRoute \/ ProviderStopped \/ Seal \/ Report
  BY <1>8 DEF PublishCheckpoint, NextRoute, ProviderStopped, Seal, Report
<1> QED
  BY <1>1, <1>2, <1>3, <1>4, <1>5, <1>6, <1>7, <1>8 DEF ExecutorStep

LEMMA AnswerMoves ==
    ASSUME [Next]_vars
    PROVE  AnswerKept \/ \E p \in Providers : Serve(p) /\ UNCHANGED executorVars
<1> USE DEF AnswerKept
<1>1. CASE ExecutorStep
  BY <1>1, ExecutorsAnswer
<1>2. CASE Start \/ Resume
  BY <1>2 DEF Start, Resume, providerVars
<1>3. CASE ExecutorDies
  BY <1>3 DEF ExecutorDies, HangUp
<1>4. ASSUME NEW p \in Providers, ProviderKilled(p) PROVE AnswerKept
  BY <1>4 DEF ProviderKilled, ProviderDies
<1>5. ASSUME NEW p \in Providers, ProviderStep(p), ~(Serve(p) /\ UNCHANGED executorVars)
      PROVE  AnswerKept
  BY <1>5 DEF ProviderStep, Bind, Rebuild, Announce
<1>6. CASE UNCHANGED vars
  BY <1>6 DEF vars, providerVars
<1> QED
  BY <1>1, <1>2, <1>3, <1>4, <1>5, <1>6 DEF Next

\* The status of what is answered to the request that is served.
LEMMA LoggedAnswer ==
    ASSUME NEW p, NEW r, NEW status, NEW result, Logged(p, r, status, result)
    PROVE  answer' = answer \/ answer'.status = status
<1>1. Reply(p, r, status, result)
  BY LoggedIs
<1> QED
  BY <1>1 DEF Reply

LEMMA ServesWell ==
    ASSUME IInv, OrderOK, SaysOK(Intents \cup Commits, Commits), NEW p \in Providers, Serve(p),
           UNCHANGED executorVars, [Next]_vars
    PROVE  /\ NoMismatch => NoMismatch'
           /\ CannedSuffices /\ NoRejection => NoRejection'
<1>0. ProviderOK /\ ConversationOK /\ MemoryOK /\ ProcessesOK
  BY DEF IInv, ProviderOK
<1>1. ASSUME answer' = answer \/ answer'.status \in {"bye", "duplicate", "executed"}
      PROVE  /\ NoMismatch => NoMismatch'
             /\ CannedSuffices /\ NoRejection => NoRejection'
  BY <1>1, VerifiedBefore DEF NoMismatch, NoRejection
<1>2. PICK r : r = Head(prov[p].backlog)
  OBVIOUS
<1>3. /\ prov[p].st = "serving"
      /\ \/ r.op = "shutdown" /\ Shutdown(p, r)
         \/ r.op = "effect" /\ (Duplicate(p, r) \/ Execute(p, r))
  BY <1>2 DEF Serve
<1>4. IsCall(r) /\ (r.op = "effect" => Intended(r))
  <2>1. prov[p].backlog # <<>>
    BY DEF Serve
  <2> QED
    BY <1>0, <1>2, <2>1, HeadIsCall DEF ConversationOK, AheadOK
<1>5. CASE r.op = "shutdown" /\ Shutdown(p, r)
  <2>1. answer' = answer \/ answer'.status = "bye"
    BY <1>5 DEF Shutdown, Reply
  <2> QED
    BY <1>1, <2>1
<1>6. CASE r.op = "effect" /\ Duplicate(p, r)
  <2>1. PICK b \in prov[p].executed :
          /\ b.key = r.key
          /\ IF b.name = r.name /\ b.request = r.request
             THEN Logged(p, r, "duplicate", b.result)
             ELSE Logged(p, r, "mismatch", <<>>)
    BY <1>6 DEF Duplicate
  <2>2. PICK i \in Executions : b = Bound(plog[i])
    BY <1>0, <1>3, <2>1 DEF MemoryOK, Knows
  <2>3. b.key = plog[i].key /\ b.name = plog[i].name /\ b.request = plog[i].request
    BY <2>2 DEF Bound
  <2>4. Intended(plog[i])
    BY <1>0 DEF ConversationOK, AheadOK
  <2>5. b.name = r.name /\ b.request = r.request
    BY <1>4, <1>6, <2>1, <2>3, <2>4, IntentsAgree
  <2>6. Logged(p, r, "duplicate", b.result)
    BY <2>1, <2>5
  <2> QED
    BY <1>1, <2>6, LoggedAnswer
<1>7. CASE r.op = "effect" /\ Execute(p, r)
  <2>1. r.name \in Names
    BY <1>4, <1>7 DEF IsCall
  <2>2. CASE prov[p].consumed[r.name] + 1 <= Canned[r.name]
    <3>1. Logged(p, r, "executed", <<r.name, prov[p].consumed[r.name] + 1>>)
      BY <1>7, <2>2 DEF Execute
    <3> QED
      BY <1>1, <3>1, LoggedAnswer
  <2>3. CASE ~(prov[p].consumed[r.name] + 1 <= Canned[r.name])
    <3>1. Logged(p, r, "rejected", <<>>) /\ \A b \in prov[p].executed : b.key # r.key
      BY <1>7, <2>3 DEF Execute
    <3>2. NoMismatch => NoMismatch'
      BY <3>1, LoggedAnswer DEF NoMismatch
    <3>3. ASSUME CannedSuffices, LogIntact' PROVE FALSE
      <4>1. LogIntact
        BY <3>3, VerifiedBefore
      <4>2. PICK line : line = ReplyLine(p, r, "rejected", <<>>)
        OBVIOUS
      <4>3. plog' = Append(plog, line) /\ line.seq = prov[p].seq + 1
        <5>1. IsReplyLine(line, p, r, "rejected", <<>>)
          BY <4>2, ReplyLineIs
        <5> QED
          BY <3>1, <4>2, <5>1, LoggedIs DEF IsReplyLine
      <4>4. line.seq = Len(plog) + 1 /\ Len(plog) \in Nat
        BY <1>0, <3>3, <4>3, LogGrows, ExecutionsAre
      <4>5. prov[p].seq \in Nat
        BY <1>0 DEF ProcessesOK, IsProcess
      <4>6. prov[p].seq = Len(plog)
        BY <4>3, <4>4, <4>5
      <4>7. Mine(p) = Executions
        BY <1>0, <4>6, ExecutionsAre DEF Mine
      <4>8. /\ prov[p].executed = {Bound(plog[i]) : i \in Executions}
            /\ prov[p].consumed[r.name] = Cardinality({i \in Executions : plog[i].name = r.name})
        BY <1>0, <1>3, <2>1, <4>1, <4>7 DEF MemoryOK, Knows
      <4>9. \A i \in Executions : plog[i].key # r.key
        <5>1. ASSUME NEW i \in Executions PROVE plog[i].key # r.key
          <6>1. Bound(plog[i]) \in prov[p].executed
            BY <4>8
          <6>2. Bound(plog[i]).key = plog[i].key
            BY DEF Bound
          <6> QED
            BY <3>1, <6>1, <6>2
        <5> QED
          BY <5>1
      <4>10. Cardinality({i \in Executions : plog[i].name = r.name}) + 1 <= Canned[r.name]
        BY <1>4, <1>7, <2>1, <3>3, <4>1, <4>9, ResultsSuffice
      <4> QED
        BY <2>3, <4>8, <4>10
    <3> QED
      BY <3>2, <3>3 DEF NoRejection
  <2> QED
    BY <2>2, <2>3
<1> QED
  BY <1>3, <1>5, <1>6, <1>7

LEMMA RepliesKept ==
    ASSUME IInv, OrderOK, SaysOK(Intents \cup Commits, Commits), [Next]_vars
    PROVE  /\ NoMismatch => NoMismatch'
           /\ CannedSuffices /\ NoRejection => NoRejection'
<1>1. CASE AnswerKept
  <2>1. answer' = answer \/ answer'.status \in {"none", "executed", "duplicate"}
    <3>1. CASE answer' = [answer EXCEPT !.from = NoProvider] /\ answer.status \in {"executed", "duplicate"}
      <4>1. answer.status # "none"
        BY <3>1
      <4>2. answer = [status |-> answer.status, result |-> answer.result, from |-> answer.from]
        BY <4>1 DEF IInv, ConversationOK, AnswerOK, NoAnswer
      <4> QED
        BY <3>1, <4>2
    <3> QED
      BY <1>1, <3>1 DEF AnswerKept, NoAnswer
  <2> QED
    BY <2>1, VerifiedBefore DEF NoMismatch, NoRejection
<1> QED
  BY <1>1, AnswerMoves, ServesWell

\* The errors that would say that the guest or the journal diverged.
NoDivergenceFound ==
    error \notin {"journal mismatch", "reissue differs", "missing committed effect", "mismatch"}

LEMMA ErrorsKept ==
    ASSUME IInv, [Next]_vars, Notes
    PROVE  /\ NoMismatch /\ NoDivergenceFound => NoDivergenceFound'
           /\ NoRejection /\ (LogIntact => error # "rejected") => (LogIntact => error # "rejected")'
<1>1. answer.status \in {"none", "executed", "duplicate", "mismatch", "rejected", "bye"}
  BY DEF IInv, ConversationOK, AnswerOK
<1>2. error' \in Worst => error' = error \/ error' = answer.status
  BY DEF Notes
<1>3. NoMismatch /\ NoDivergenceFound => NoDivergenceFound'
  BY <1>1, <1>2 DEF NoMismatch, NoDivergenceFound, Worst
<1>4. ASSUME NoRejection, LogIntact => error # "rejected", LogIntact' PROVE error' # "rejected"
  BY <1>2, <1>4, VerifiedBefore DEF NoRejection, Worst
<1> QED
  BY <1>3, <1>4

-----------------------------------------------------------------------------
\* What a finished run can claim.

\* The process that seals the run has everything behind it.
LEMMA EverythingCommitted ==
    ASSUME PositionOK, OrderOK, EndOK, pc = "seal", NEW x, Intended(x)
    PROVE  Has(Commits, x.key)
<1>1. JournalOK(Intents, Commits) /\ ProgressOK(Intents, Commits) /\ PlaceOK
  BY DEF OrderOK
<1>2. PICK e \in Intents : e.key = x.key
  BY DEF Intended, IntendedBy, Intents
<1>3. PICK r, a : Records(r, a) /\ e.key = KeyAt(r, a)
  BY <1>1 DEF JournalOK, MarkedIn
<1>4. route = ForkRoute /\ Op.do = "exit" /\ ForkRoute > 1
  BY <1>1, Constants DEF EndOK, PlaceOK, Ending
<1>5. at = Len(Program[route]) /\ Op = Program[route][at] /\ Len(Program[route]) \in Nat
  BY <1>4, Here
<1>6. r = ForkRoute => a < at
  BY <1>3, <1>4, <1>5 DEF Records
<1>7. IsBehind(e.key, route, at)
  BY <1>3, <1>4, <1>6 DEF IsBehind, Records
<1>8. Has(Commits, e.key)
  BY <1>1, <1>7 DEF ProgressOK
<1> QED
  BY <1>2, <1>8

LEMMA SealedOnce ==
    ASSUME IInv, OrderOK, ReplayOK, pc = "seal", LogIntact
    PROVE  ExactlyOnce
<1>1. PositionOK /\ EndOK /\ SaysOK(Intents \cup Commits, Commits)
  BY DEF IInv, ReplayOK, RoutesOK, LinesOK
<1>2. \A i \in Executions : Intended(plog[i])
  BY DEF IInv, ConversationOK, AheadOK
<1>3. \A x : Intended(x) => Has(Commits, x.key)
  BY <1>1, EverythingCommitted
<1>4. ASSUME NEW i \in Executions, NEW j \in Executions, plog[i].key = plog[j].key
      PROVE  i = j
  <2>1. plog[i].name = plog[j].name
    BY <1>1, <1>2, <1>4, IntentsAgree
  <2>2. \A k \in Executions : \A l \in Executions :
            l < k /\ plog[l].name = plog[k].name => plog[l].key # plog[k].key
    BY DEF IInv, ProviderOK, VerifiedMeansOnce
  <2>3. i \in Nat /\ j \in Nat
    BY ExecutionsAre DEF IInv, ProviderOK
  <2>4. ~(i < j) /\ ~(j < i)
    BY <1>4, <2>1, <2>2
  <2> QED
    BY <2>3, <2>4
<1>5. ASSUME NEW i \in Executions PROVE \E c \in Commits : c.key = plog[i].key
  BY <1>2, <1>3 DEF Has
<1>6. ASSUME NEW c \in Commits PROVE \E i \in Executions : plog[i].key = c.key
  <2>1. PICK i \in Executions : Bound(plog[i]) = Bound(c)
    BY DEF IInv, ConversationOK, CommitsWereExecuted, Commits
  <2>2. Bound(plog[i]).key = plog[i].key /\ Bound(c).key = c.key
    BY DEF Bound
  <2> QED
    BY <2>1, <2>2
<1>7. {plog[i].key : i \in Executions} = {c.key : c \in Commits}
  BY <1>5, <1>6
<1>8. ASSUME NEW e \in Intents PROVE DanglingOf(e.key) = {}
  <2>1. Intended(e)
    BY DEF Intended, IntendedBy, Intents
  <2> QED
    BY <1>3, <2>1, HasIs
<1> QED
  BY <1>4, <1>7, <1>8 DEF ExactlyOnce, Commits, Intents

LEMMA SealedSame ==
    ASSUME OrderOK, ReplayOK, NEW r \in 2 .. Recovered
    PROVE  Same(r)
<1>1. r # ForkRoute /\ 1 # ForkRoute
  BY Constants, ScenarioAssumption DEF Recovered, ForkRoute
<1>2. JournalOK(Intents, Commits)
  BY DEF OrderOK
<1>3. ASSUME NEW e \in Own("exit"), NEW f \in Own("exit"), e.route = 1, f.route = r
      PROVE  e.state = f.state /\ e.host = f.host
  <2>1. e \in Entries("exit") /\ f \in Entries("exit")
    BY DEF Own, Entries
  <2>2. ExitSays(Commits, e) /\ ExitSays(Commits, f)
    BY <1>1, <1>3, <2>1 DEF ReplayOK, LinesOK, ExitsOK
  <2> QED
    BY <1>2, <2>2, ToldTheSame DEF ExitSays
<1> QED
  BY <1>3 DEF Same

LEMMA SealedRecovered ==
    ASSUME OrderOK, ReplayOK, pc = "seal"
    PROVE  CrashRecovered
<1>1. InvocationsOK(Commits) /\ OwnOK /\ route > 1
  BY Constants DEF ReplayOK, LinesOK, EndOK
<1>2. ASSUME NEW e \in Entries("invocation"), e.route = 1
      PROVE  e.branch = "parent" /\ \E a : InvokedAt(Commits, e, 1, a)
  BY <1>1, <1>2 DEF InvocationsOK, InvocationSays
<1>3. ASSUME NEW e \in Before("invocation"), e.route = 1
      PROVE  \E f \in Own("invocation") : f.route = 1 /\ f.event = e.event /\ f.state = e.state
  <2>1. e \in Entries("invocation")
    BY DEF Before, Entries
  <2>2. PICK a : InvokedAt(Commits, e, 1, a)
    BY <1>2, <1>3, <2>1
  <2>3. OwnEvent(Count(1, a, "invoke"))
    BY <1>1, <2>2 DEF OwnOK, InvokedAt
  <2>4. PICK j \in DOMAIN oplog : /\ j > resumedAt /\ oplog[j].kind = "invocation"
                                  /\ oplog[j].route = 1 /\ oplog[j].event = Count(1, a, "invoke")
    BY <2>3 DEF OwnEvent
  <2>5. oplog[j] \in Own("invocation") /\ oplog[j] \in Entries("invocation")
    BY <2>4 DEF Own, Entries
  <2>6. oplog[j].event = e.event
    BY <2>2, <2>4 DEF InvokedAt
  <2>7. oplog[j].state = e.state
    BY <1>1, <1>2, <1>3, <2>1, <2>4, <2>5, <2>6, SameOutcome
  <2> QED
    BY <2>4, <2>5, <2>6, <2>7
<1> QED
  BY <1>3 DEF CrashRecovered

LEMMA SealedPasses ==
    ASSUME IInv, OrderOK, ReplayOK, Sealed
    PROVE  receipt' = [passed |-> TRUE, replay |-> TRUE, recovered |-> TRUE, crash |-> TRUE, once |-> TRUE]
<1>1. /\ Replays \in Nat /\ Recovered = Replays + 2
  BY ScenarioAssumption DEF Recovered
<1>2. \A r \in 2 .. Replays + 1 : Same(r)
  BY <1>1, SealedSame
<1>3. Same(Recovered)
  BY <1>1, SealedSame
<1>4. CrashRecovered /\ ExactlyOnce
  BY SealedRecovered, SealedOnce DEF Sealed
<1> QED
  BY <1>2, <1>3, <1>4 DEF Sealed, Evidence

LEMMA ReceiptsKept ==
    ASSUME IInv, OrderOK, ReplayOK, Notes, CompleteRunsPass
    PROVE  CompleteRunsPass'
<1>1. CASE Sealed
  BY <1>1, SealedPasses DEF CompleteRunsPass
<1>2. CASE runState' = "complete" => runState = "complete" /\ receipt' = receipt
  BY <1>2 DEF CompleteRunsPass
<1> QED
  BY <1>1, <1>2 DEF Notes

\* Whatever the scenario and whatever is killed, no process finds that the guest or the
\* journal diverged and no provider that a key was asked for differently, an event is handled
\* with the same outcome in every process and route, and a run that completes can claim all
\* its receipt can (Host::effect, Server::handle, execute, run_inner).
THEOREM RunsAlike ==
    Spec => [](NoMismatch /\ NoDivergenceFound /\ TransitionsReproducible /\ CompleteRunsPass)
<1> DEFINE Inv == NoMismatch /\ NoDivergenceFound /\ CompleteRunsPass
<1>1. Init => Inv
  BY DEF Init, ProviderInit, NoAnswer, NoMismatch, NoDivergenceFound, CompleteRunsPass
<1>2. IInv /\ OrderOK /\ CheckpointOK /\ ReplayOK /\ [Next]_vars /\ Inv => Inv'
  <2> SUFFICES ASSUME IInv, OrderOK, CheckpointOK, ReplayOK, [Next]_vars, Inv PROVE Inv'
    OBVIOUS
  <2>1. Notes
    BY EveryStepNotes DEF IInv, CheckpointOK, ReplayOK
  <2> QED
    BY <2>1, RepliesKept, ErrorsKept, ReceiptsKept DEF ReplayOK, RoutesOK
<1>3. OrderOK /\ ReplayOK => TransitionsReproducible
  BY SameOutcome DEF ReplayOK, LinesOK, TransitionsReproducible
<1> QED
  BY <1>1, <1>2, <1>3, RunInvariant, OrderInvariant, CheckpointInvariant, ReplayInvariant, PTL DEF Spec

\* When the scenario declares a result for every effect that is recorded, no process is
\* refused one either as long as the provider's log verifies: every process and every route
\* goes through the same states, and the receipt of a run that completes can say so.
THEOREM ReproducibleAlways ==
    ASSUME CannedSuffices
    PROVE  Spec => []Reproducible
<1> DEFINE Inv == NoRejection /\ (LogIntact => error # "rejected")
<1>1. Init => Inv
  BY DEF Init, ProviderInit, NoAnswer, NoRejection
<1>2. IInv /\ OrderOK /\ CheckpointOK /\ ReplayOK /\ [Next]_vars /\ Inv => Inv'
  <2> SUFFICES ASSUME IInv, OrderOK, CheckpointOK, ReplayOK, [Next]_vars, Inv PROVE Inv'
    OBVIOUS
  <2>1. Notes
    BY EveryStepNotes DEF IInv, CheckpointOK, ReplayOK
  <2> QED
    BY <2>1, RepliesKept, ErrorsKept DEF ReplayOK, RoutesOK
<1>3. NoDivergenceFound /\ TransitionsReproducible /\ CompleteRunsPass /\ Inv => Reproducible
  BY DEF NoDivergenceFound, Reproducible, NoDivergence
<1> QED
  BY <1>1, <1>2, <1>3, RunsAlike, RunInvariant, OrderInvariant, CheckpointInvariant,
     ReplayInvariant, PTL DEF Spec
=============================================================================
