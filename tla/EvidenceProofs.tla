--------------------------- MODULE EvidenceProofs ---------------------------
(***************************************************************************)
(* Theorems about RuntimeEvidence, for every scenario, every number of     *)
(* results, replays, kills and provider processes: from the lines that a   *)
(* process writes and their order, that the verifier accepts exactly the   *)
(* runs whose interrupted processes ended inside the parent route.         *)
(***************************************************************************)
EXTENDS DurableRunProofs, RuntimeEvidence

-----------------------------------------------------------------------------
\* The lines of the journal, and who writes them.

\* The phases before a process creates its first worker, and those inside a route.
Waiting == {"opened", "ensure", "spawn", "wait"}
Under   == {"op"} \cup InEffect

\* What the last process wrote behind the mark it began with.
OwnLines == {i \in DOMAIN oplog : i > resumedAt /\ oplog[i].kind # "resume"}

OwnOf(kind, r) == {i \in OwnLines : oplog[i].kind = kind /\ oplog[i].route = r}

\* A line is of a route, its parts are what its kind says, and only the first route and the
\* fork do anything live.
LineOK(e) ==
    /\ e.route \in 1 .. ForkRoute
    /\ e.kind = "resume" => e.route = 1
    /\ e.kind = "invocation" =>
          /\ e.event \in Nat
          /\ e.branch = "parent" <=> (e.route = ForkRoute => e.event < Len(Prefix))
    /\ e.kind \in {"creation", "checkpoint", "exit"} => e.host \in Cursors
    /\ Live(e) => e.route \in {1, ForkRoute}

LinesTyped == \A i \in DOMAIN oplog : LineOK(oplog[i])

\* Behind the mark of the last process there is no other one.
MarksOK ==
    /\ \A i \in DOMAIN oplog : i > resumedAt /\ oplog[i].kind = "resume" => i = resumedAt + 1
    /\ resumedAt # 0 => resumedAt + 1 \in DOMAIN oplog /\ oplog[resumedAt + 1].kind = "resume"
    /\ runs = 0 => Len(oplog) = 0

\* What follows a mark, or begins the journal, is the creation of the first route's worker.
HeadsOK ==
    \A i \in DOMAIN oplog :
        oplog[i].kind # "resume" /\ (i = 1 \/ oplog[i - 1].kind = "resume") =>
            oplog[i].kind = "creation" /\ oplog[i].route = 1

\* A process goes through its routes in their order; of a route, nothing lies before the
\* creation or behind the exit, and events come in their order.
OrderedOK ==
    \A i, j \in OwnLines : i < j =>
        /\ oplog[i].route <= oplog[j].route
        /\ oplog[i].route = oplog[j].route =>
              /\ oplog[i].kind # "exit" /\ oplog[j].kind # "creation"
              /\ oplog[i].kind = "invocation" /\ oplog[j].kind = "invocation" =>
                    oplog[i].event < oplog[j].event

\* Every line of a route has the creation of its worker before it.
BegunOK == \A i \in OwnLines : \E c \in OwnOf("creation", oplog[i].route) : c <= i

\* The event of an invocation follows the one before, or is the one the route began with.
StepwiseOK ==
    \A r \in 1 .. ForkRoute : \A j \in OwnOf("invocation", r) :
        /\ \A c \in OwnOf("creation", r) : oplog[c].host.event <= oplog[j].event
        /\ \/ \E i \in OwnOf("invocation", r) : i < j /\ oplog[i].event + 1 = oplog[j].event
           \/ \E c \in OwnOf("creation", r) : oplog[j].event = oplog[c].host.event

\* The process handled all events of a route from where it began up to the n-th.
HandledUpTo(r, n) ==
    /\ \A i \in OwnOf("invocation", r) : oplog[i].event < n
    /\ \A c \in OwnOf("creation", r) : \A k \in oplog[c].host.event .. n - 1 :
          \E i \in OwnOf("invocation", r) : oplog[i].event = k

\* A route that exited handled every event up to where its host then was.
FullOK == \A r \in 1 .. ForkRoute : \A x \in OwnOf("exit", r) : HandledUpTo(r, oplog[x].host.event)

\* It is on route r, at event n, and went through the routes before.
MidwayAt(r, n) ==
    /\ Len(oplog) \in OwnLines
    /\ \A i \in OwnLines : oplog[i].route <= r
    /\ OwnOf("creation", r) # {} /\ \A q \in 1 .. r - 1 : OwnOf("exit", q) # {}
    /\ \A c \in OwnOf("creation", r) : oplog[c].host.event <= n
    /\ HandledUpTo(r, n)

\* The phase of the executor, and what its process wrote.
CurrentOK ==
    /\ pc \in Waiting => OwnLines = {}
    /\ pc \in Under \cup Ending => MidwayAt(route, host.event)
    /\ pc \in Under => OwnOf("exit", route) = {}
    /\ pc \in Ending => OwnOf("exit", route) # {}

\* The last checkpoint in the journal is s.
LastTaken(s) ==
    \E i \in DOMAIN oplog :
        /\ oplog[i].kind = "checkpoint" /\ s = [host |-> oplog[i].host, seen |-> oplog[i].state]
        /\ \A j \in DOMAIN oplog : oplog[j].kind = "checkpoint" => j <= i

\* What the process took to publish is the last checkpoint of the journal.
CutOK == pc \in Under \cup Ending /\ saved # NoCheckpoint => LastTaken(saved)

\* A worker is created at the start, the recovered one at the published checkpoint.
RestoredOK ==
    \A i \in DOMAIN oplog : oplog[i].kind = "creation" =>
        oplog[i].host = IF oplog[i].route = Recovered THEN published.host ELSE Start0

\* Every process that was interrupted had created its worker and not left its first route.
Clean == \A i \in DOMAIN oplog : oplog[i].kind = "resume" => ResumedInParent(i)

\* Then all that earlier processes wrote is of the first route, and none of it an exit.
PastOK ==
    Clean => \A i \in DOMAIN oplog : i <= resumedAt => oplog[i].route = 1 /\ oplog[i].kind # "exit"

\* What the executor has behind it was delivered.
DeliveredOK == \A k : IsBehind(k, route, at) => Has(Entries("result"), k)

\* What the provider answered again was performed.
DuplicatesOK == \A i \in DOMAIN plog : plog[i].status = "duplicate" => Bound(plog[i]) \in Bounds

\* The last process wrote something; who runs has the socket and is not starting; nobody runs.
Begun  == Len(oplog) # 0 /\ oplog[Len(oplog)].kind # "resume"
Tame   == \A p \in Providers : prov[p].st # "off" => prov[p].st # "starting" /\ sock = p
AllOff == \A p \in Providers : prov[p].st = "off"

\* Without a kill outside the first route there is never a second provider, so that none
\* overlaps another, and none is left when the run is sealed.
LonelyOK ==
    Clean =>
        /\ ~overlapped
        /\ pc # "wait" /\ (pc = "down" => runs = 0 \/ Begun) => Tame
        /\ pc = "spawn" => AllOff
        /\ pc = "stopping" => \A p \in Providers : prov[p].st # "off" =>
               \E i \in DOMAIN prov[p].backlog : prov[p].backlog[i].open
        /\ pc \in {"seal", "report", "done"} \/ runState = "complete" => AllOff

-----------------------------------------------------------------------------
\* The events of the prefix.

LEMMA EventsOfTheFork ==
    ASSUME NEW a \in 1 .. Shared(ForkRoute) + 1
    PROVE  Guide(ForkRoute)[a][1] = Count(ForkRoute, a, "invoke") + 1
<1> DEFINE r == ForkRoute
           w == Guide(ForkRoute)
           n == Shared(ForkRoute)
           Wrong == {b \in 1 .. n + 1 : w[b][1] # Count(r, b, "invoke") + 1}
<1>1. /\ r \in 1 .. ForkRoute /\ r # 1 /\ n \in Nat /\ Offset(r) = 0
      /\ w[1] = <<0 + 1, 1>> /\ \A b \in 1 .. n : StepsOn(r, w, b)
  <2>1. r \in 1 .. ForkRoute /\ r # 1 /\ r # Recovered
    BY Constants DEF Recovered
  <2>2. Guides(r, w) /\ n \in Nat
    BY <2>1, GuideIs, RouteStarts
  <2>3. Offset(r) = 0
    BY <2>1 DEF Offset
  <2> QED
    BY <2>1, <2>2, <2>3, Zenon DEF Guides
<1> SUFFICES ASSUME Wrong # {} PROVE FALSE
  OBVIOUS
<1>2. Wrong \in SUBSET Nat
  BY <1>1
<1>3. PICK m \in Wrong : \A b \in Wrong : m <= b
  BY <1>2, SmallestOf
<1>4. m # 1
  BY <1>1, <1>3, CountStarts
<1>5. m - 1 \in 1 .. n /\ (m - 1) + 1 = m /\ m \in Nat
  BY <1>1, <1>3, <1>4
<1> HIDE DEF n, w, r
<1>6. PICK k : k = m - 1
  OBVIOUS
<1>7. w[k][1] = Count(r, k, "invoke") + 1 /\ k \in Nat \ {0} /\ k + 1 = m /\ k \in 1 .. n
  <2>1. k \in 1 .. n + 1 /\ ~(m <= k)
    BY <1>1, <1>5, <1>6
  <2> QED
    BY <1>1, <1>3, <1>5, <1>6, <2>1
<1>8. Count(r, m, "invoke") = Count(r, k, "invoke") + (IF Program[r][k].do = "invoke" THEN 1 ELSE 0)
  BY <1>7, CountNext
<1>9. Count(r, k, "invoke") \in Nat
  BY <1>7, PassedIs
<1>10. StepsOn(r, w, k)
  BY <1>1, <1>7
<1>11. CASE AtEffect(ParentEvents, Program[r][k], w[k], w[m])
  <2>1. PICK e, j : Program[r][k].do = "effect" /\ w[k] = <<e, j>> /\ w[m] = <<e, j + 1>>
    BY <1>11 DEF AtEffect
  <2> QED
    BY <1>3, <1>7, <1>8, <1>9, <2>1
<1>12. CASE AtInvoke(ParentEvents, Program[r][k], w[k], w[m])
  <2>1. PICK e, j : Program[r][k].do = "invoke" /\ w[k] = <<e, j>> /\ w[m] = <<e + 1, 1>>
    BY <1>12 DEF AtInvoke
  <2> QED
    BY <1>3, <1>7, <1>8, <1>9, <2>1
<1> QED
  BY <1>1, <1>7, <1>10, <1>11, <1>12 DEF StepsOn

LEMMA PrefixHandled ==
    /\ Count(ForkRoute, Shared(ForkRoute) + 1, "invoke") = Len(Prefix) /\ Len(Prefix) \in Nat
    /\ Shared(ForkRoute) \in Nat
<1>1. ForkRoute \in 1 .. ForkRoute /\ Prefix \in Seq(Seq(Names))
  BY Constants, ScenarioAssumption
<1>2. Shared(ForkRoute) \in Nat /\ Len(Prefix) \in Nat
  BY <1>1, RouteStarts, LenProperties
<1>3. Guide(ForkRoute)[Shared(ForkRoute) + 1] = <<Len(Prefix) + 1, 1>>
  BY <1>1, GuideIs, Zenon DEF Guides
<1>4. PICK a : a = Shared(ForkRoute) + 1
  OBVIOUS
<1>5. a \in 1 .. Shared(ForkRoute) + 1 /\ a \in Nat
  BY <1>2, <1>4
<1>6. Guide(ForkRoute)[a][1] = Count(ForkRoute, a, "invoke") + 1 /\ Count(ForkRoute, a, "invoke") \in Nat
  BY <1>4, <1>5, EventsOfTheFork, PassedIs
<1>7. Guide(ForkRoute)[a][1] = Len(Prefix) + 1
  BY <1>3, <1>4
<1> QED
  BY <1>2, <1>4, <1>6, <1>7

-----------------------------------------------------------------------------
\* What a step writes.

\* Only an effect that records has a commit to write.
CommittedOK == pc = "committed" => Op.mode = "record"

\* The journal backs the line: what the verifier asks of it.
Backed(e) ==
    /\ e.kind = "intent" => ~Has(Intents, e.key) /\ ~Has(Commits, e.key)
    /\ e.kind \in {"reissue", "commit"} =>
          ~Has(Commits, e.key) /\ \E i \in Intents : SameFields(i, e)
    /\ e.kind = "result" => \E c \in Commits : c.key = e.key /\ c.result = e.result

\* Nothing, and it stays in its phase or the process ends.
Rests ==
    /\ UNCHANGED <<oplog, resumedAt, runs>>
    /\ \/ pc' = "down"
       \/ /\ UNCHANGED <<route, at, saved>> /\ host'.event = host.event
          /\ pc' \in Waiting <=> pc \in Waiting
          /\ pc' \in Under <=> pc \in Under
          /\ pc' \in Ending <=> pc \in Ending

\* A line of the route it is on.
AddsLine(e) ==
    /\ pc \in Under /\ pc' \in Under
    /\ oplog' = Append(oplog, e) /\ UNCHANGED <<resumedAt, runs, route>>
    /\ e.route = route /\ LineOK(e) /\ Backed(e)
    /\ e.kind \in {"request", "result", "intent", "reissue", "commit", "checkpoint", "invocation"}
    /\ at' # at /\ Op.do = "effect" => e.kind = "result" /\ e.key = Current.key
    /\ IF e.kind = "invocation" THEN e.event = host.event /\ host'.event = host.event + 1
                                ELSE host'.event = host.event
    /\ saved' = IF e.kind = "checkpoint" THEN [host |-> e.host, seen |-> e.state] ELSE saved

\* The exit of the route it is on.
Exits ==
    /\ pc = "op" /\ pc' \in Ending /\ oplog' = Append(oplog, StateLine("exit"))
    /\ UNCHANGED <<resumedAt, runs, route, at, host, saved>>

\* It goes on to the next route, or begins with the first.
Creates(r) ==
    /\ (r = 1 /\ pc \in Waiting) \/ (r = route + 1 /\ r <= ForkRoute /\ pc = "next")
    /\ Begin(r) /\ UNCHANGED <<resumedAt, runs, saved, published>>

\* All that a step does to the journal.
Pens ==
    \/ Rests \/ Exits \/ Start \/ Resume
    \/ \E e : AddsLine(e)
    \/ \E r : Creates(r)

LEMMA Phases ==
    /\ "op" \in Under /\ InEffect \subseteq Under
    /\ Under \cap Ending = {} /\ Under \cap Waiting = {} /\ Ending \cap Waiting = {}
    /\ "down" \notin Under \cup Waiting \cup Ending /\ Home = {"down"} \cup Waiting
    /\ Places = {"down"} \cup Waiting \cup Under \cup Ending
  BY DEF Under, Waiting, InEffect, Ending, Home, Places

LEMMA StartRests ==
    ASSUME oplog' = oplog, UNCHANGED <<resumedAt, runs>>, pc' = "down"
    PROVE  Pens
  BY DEF Pens, Rests

LEMMA GivingUpRests ==
    ASSUME NEW why, GiveUp(why)
    PROVE  Pens
  BY StartRests DEF GiveUp, files

LEMMA WaitingRests ==
    ASSUME UNCHANGED <<oplog, resumedAt, runs, route, at, saved, host>>,
           \/ pc \in Waiting /\ pc' \in Waiting
           \/ pc \in Under /\ pc' \in Under
           \/ pc \in Ending /\ pc' \in Ending
           \/ pc' = pc
    PROVE  Pens
<1>1. Rests
  BY Phases DEF Rests
<1> QED
  BY <1>1 DEF Pens

LEMMA BeginningPens ==
    ASSUME NEW r, Begin(r), UNCHANGED <<published, bookkeeping>>,
           (r = 1 /\ pc \in Waiting) \/ (r = route + 1 /\ r <= ForkRoute /\ pc = "next")
    PROVE  Pens
<1>1. Creates(r)
  BY DEF Creates, bookkeeping
<1> QED
  BY <1>1 DEF Pens

\* A line of the effect that is performed.
LEMMA EffectPens ==
    ASSUME NEW e, Write(e), e.route = route, route \in 1 .. ForkRoute, Backed(e),
           e.kind \in {"request", "result", "intent", "reissue", "commit"},
           Live(e) => route \in {1, ForkRoute},
           pc \in Under, pc' \in Under, UNCHANGED <<resumedAt, runs, route, saved>>,
           host'.event = host.event,
           at' = at \/ (e.kind = "result" /\ e.key = Current.key)
    PROVE  Pens
<1>1. LineOK(e)
  BY DEF LineOK
<1>2. oplog' = Append(oplog, e) /\ e.kind # "checkpoint" /\ e.kind # "invocation"
  BY DEF Write
<1>3. AddsLine(e)
  BY <1>1, <1>2 DEF AddsLine
<1> QED
  BY <1>3 DEF Pens

LEMMA RecordingRoute ==
    ASSUME PositionOK, pc \in InEffect, Op.mode = "record"
    PROVE  route \in {1, ForkRoute}
  BY RecordsHere DEF Records

\* What is about to be journaled of an effect is the intent's.
LEMMA IntendedIsBacked ==
    ASSUME OrderOK, NEW e, e.kind \in {"reissue", "commit"}, ~Has(Commits, e.key),
           NEW i \in Intents, i.key = e.key, i.name = e.name, i.request = e.request
    PROVE  Backed(e)
  BY DEF Backed, SameFields

LEMMA HandlingIsTyped ==
    ASSUME PositionOK, OrderOK, pc = "op", Op.do = "invoke",
           NEW e, e.route = route, e.event = host.event, e.branch = Op.branch, e.kind = "invocation"
    PROVE  LineOK(e)
<1>0. /\ route \in 1 .. ForkRoute /\ Op = Program[route][at] /\ at \in Nat \ {0}
      /\ at \in 1 .. Len(Program[route]) /\ Len(Program[route]) \in Nat /\ Shared(route) \in Nat
      /\ Program[route][Len(Program[route])].do = "exit"
      /\ route # ForkRoute => Len(Program[route]) = Shared(route) + 1
      /\ host.event \in Nat
  BY Here, RouteIsSeq, RouteStarts, HostIs
<1>1. at # Len(Program[route])
  BY <1>0
<1>2. ~Live(e)
  BY DEF Live
<1>3. CASE route # ForkRoute
  <2>1. at \in 1 .. Shared(route)
    BY <1>0, <1>1, <1>3
  <2>2. e.branch = "parent"
    BY <1>0, <2>1, RouteStarts
  <2> QED
    BY <1>0, <1>2, <1>3, <2>2 DEF LineOK
<1>4. CASE route = ForkRoute
  <2>1. host.event = Count(ForkRoute, at, "invoke") /\ ForkRoute # Recovered
    BY <1>4, Constants, HomePlaces DEF OrderOK, PlaceOK, Recovered
  <2>2. PICK n : n = Shared(ForkRoute) + 1
    OBVIOUS
  <2>3. Count(ForkRoute, n, "invoke") = Len(Prefix) /\ n \in Nat \ {0} /\ Len(Prefix) \in Nat
    BY <2>2, PrefixHandled
  <2>4. CASE at < n
    <3>1. at \in 1 .. Shared(route)
      BY <1>0, <1>4, <2>2, <2>4
    <3>2. e.branch = "parent"
      BY <1>0, <3>1, RouteStarts
    <3>3. host.event < Len(Prefix)
      BY <1>0, <1>4, <2>1, <2>3, <2>4, CountGrows
    <3> QED
      BY <1>0, <1>2, <3>2, <3>3 DEF LineOK
  <2>5. CASE ~(at < n)
    <3>1. at \in Shared(route) + 1 .. Len(Program[route]) - 1
      BY <1>0, <1>1, <1>4, <2>2, <2>5
    <3>2. e.branch = "fork"
      BY <1>0, <1>4, <3>1, RouteStarts
    <3>3. ~(host.event < Len(Prefix))
      <4>1. Passed(ForkRoute, n, "invoke") \subseteq Passed(ForkRoute, at, "invoke")
        BY <1>0, <2>3, <2>5 DEF Passed
      <4>2. IsFiniteSet(Passed(ForkRoute, at, "invoke")) /\ Count(ForkRoute, at, "invoke") \in Nat
        BY <1>0, PassedIs
      <4>3. Count(ForkRoute, n, "invoke") <= Count(ForkRoute, at, "invoke")
        BY <4>1, <4>2, FS_Subset DEF Count
      <4> QED
        BY <2>1, <2>3, <4>2, <4>3
    <3> QED
      BY <1>0, <1>2, <1>4, <3>2, <3>3 DEF LineOK
  <2> QED
    BY <2>4, <2>5
<1> QED
  BY <1>3, <1>4

LEMMA ResultLineIs ==
    ASSUME NEW result, NEW source
    PROVE  /\ ResultLine(result, source).kind = "result" /\ ResultLine(result, source).route = route
           /\ ResultLine(result, source).key = Current.key /\ ResultLine(result, source).result = result
           /\ ResultLine(result, source).source = source
  BY DEF ResultLine

\* A reply that was taken is of an effect that was intended.
LEMMA RepliedIsIntended ==
    ASSUME IInv, pc = "replied"
    PROVE  \E i \in Intents : i.key = Current.key /\ i.name = Current.name /\ i.request = Current.request
<1>1. Performed(Current, answer.result)
  BY DEF IInv, ConversationOK, AnswerOK
<1>2. PICK j \in Executions : Bound(plog[j]) = [key |-> Current.key, name |-> Current.name,
                                request |-> Current.request, result |-> answer.result]
  BY <1>1 DEF Performed, Bounds
<1>3. plog[j].key = Current.key /\ plog[j].name = Current.name /\ plog[j].request = Current.request
  BY <1>2 DEF Bound
<1>4. Intended(plog[j])
  BY DEF IInv, ConversationOK, AheadOK
<1> QED
  BY <1>3, <1>4 DEF Intended, IntendedBy, Intents

LEMMA StepPens ==
    ASSUME ExecutorStep, IInv, OrderOK, CommittedOK
    PROVE  Pens
<1> USE DEF position, files, bookkeeping
<1>0. PositionOK /\ route \in 1 .. ForkRoute /\ 1 \in 1 .. ForkRoute
  BY Here, Constants DEF IInv
<1>1. CASE WriteRunState
  BY <1>1, WaitingRests DEF WriteRunState, Waiting
<1>2. CASE Ensure
  <2>1. CASE Connectable
    BY <1>2, <2>1, BeginningPens DEF Ensure, Waiting
  <2>2. CASE ~Connectable
    BY <1>2, <2>2, WaitingRests DEF Ensure, Waiting
  <2> QED
    BY <2>1, <2>2
<1>3. CASE EnsureSpawns
  BY <1>3, WaitingRests DEF EnsureSpawns, Waiting
<1>4. CASE EnsureSucceeds
  BY <1>4, BeginningPens DEF EnsureSucceeds, Waiting
<1>5. CASE EnsureTimesOut
  BY <1>5, GivingUpRests DEF EnsureTimesOut
<1>6. CASE AskEffect
  <2> DEFINE line == [kind |-> "request", route |-> route, key |-> Key(host), name |-> Op.name,
                      request |-> Request]
  <2>1. line.kind = "request" /\ line.route = route
    OBVIOUS
  <2>2. /\ Write(line) /\ pc = "op" /\ pc' = "asked"
        /\ UNCHANGED <<resumedAt, runs, route, at, saved>> /\ host'.event = host.event
    BY <1>0, <1>6, HostIs DEF AskEffect, Reaches
  <2> HIDE DEF line
  <2>3. ~Live(line) /\ Backed(line)
    BY <2>1 DEF Live, Backed
  <2> QED
    BY <1>0, <2>1, <2>2, <2>3, EffectPens, Phases, HomePlaces
<1>7. CASE FromJournal
  <2>1. PICK c \in CommitsOf(Current.key) :
            IF Matches(c)
            THEN DeliverResult(c.result, "journal")
            ELSE GiveUp("journal mismatch") /\ UNCHANGED <<faults, providerVars>>
    BY <1>7 DEF FromJournal
  <2>2. CASE Matches(c)
    <3>1. PICK e : e = ResultLine(c.result, "journal")
      OBVIOUS
    <3>2. /\ e.kind = "result" /\ e.route = route /\ e.key = Current.key /\ e.result = c.result
          /\ e.source = "journal"
      BY <3>1, ResultLineIs
    <3>3. c \in Commits /\ c.key = Current.key
      BY DEF CommitsOf, Commits
    <3>4. ~Live(e) /\ Backed(e)
      BY <3>2, <3>3 DEF Live, Backed
    <3>5. /\ Write(e) /\ pc = "asked" /\ pc' = "op" /\ UNCHANGED <<resumedAt, runs, route, host, saved>>
      BY <1>7, <2>1, <2>2, <3>1 DEF FromJournal, DeliverResult
    <3> QED
      BY <1>0, <3>2, <3>4, <3>5, EffectPens, Phases, HomePlaces
  <2>3. CASE ~Matches(c)
    BY <2>1, <2>3, GivingUpRests
  <2> QED
    BY <2>2, <2>3
<1>8. CASE JournalIntent
  <2>1. CASE Op.mode = "record"
    <3>1. PICK e : e = EffectLine("intent")
      OBVIOUS
    <3>2. e.kind = "intent" /\ e.route = route /\ e.key = Current.key
      BY <3>1 DEF EffectLine
    <3>3. ~Has(Commits, e.key) /\ ~Has(Intents, e.key)
      BY <1>8, <3>2, HasIs DEF JournalIntent
    <3>4. Backed(e)
      BY <3>2, <3>3 DEF Backed
    <3>5. Write(e) /\ pc = "asked" /\ pc' = "intended" /\ UNCHANGED <<resumedAt, runs, route, at, host, saved>>
      BY <1>8, <2>1, <3>1 DEF JournalIntent
    <3>6. pc \in InEffect /\ pc' \in InEffect
      BY <3>5 DEF InEffect
    <3>7. route \in {1, ForkRoute}
      BY <1>0, <2>1, <3>6, RecordingRoute
    <3> QED
      BY <1>0, <3>2, <3>4, <3>5, <3>6, <3>7, EffectPens, Phases
  <2>2. CASE Op.mode # "record"
    BY <1>8, <2>2, GivingUpRests DEF JournalIntent
  <2> QED
    BY <2>1, <2>2
<1>9. CASE Reissue
  <2>1. PICK i \in DanglingOf(Current.key) :
          IF Op.mode = "record" /\ Matches(i)
          THEN /\ Write(EffectLine("reissue"))
               /\ pc' = "intended"
               /\ UNCHANGED <<position, bookkeeping>>
          ELSE /\ GiveUp(IF Op.mode = "record" THEN "reissue differs"
                         ELSE "missing committed effect")
               /\ UNCHANGED faults
    BY <1>9 DEF Reissue
  <2>2. CASE Op.mode = "record" /\ Matches(i)
    <3>1. PICK e : e = EffectLine("reissue")
      OBVIOUS
    <3>2. /\ e.kind = "reissue" /\ e.route = route /\ e.key = Current.key /\ e.name = Op.name
          /\ e.request = Request
      BY <3>1 DEF EffectLine, Current
    <3>3. i \in Intents /\ i.key = Current.key /\ ~Has(Commits, Current.key)
      BY <1>9, HasIs DEF DanglingOf, Intents
    <3>4. i.name = Op.name /\ i.request = Request
      BY <2>2 DEF Matches
    <3>5. Backed(e)
      BY <3>2, <3>3, <3>4, IntendedIsBacked
    <3>6. Write(e) /\ pc = "asked" /\ pc' = "intended" /\ UNCHANGED <<resumedAt, runs, route, at, host, saved>>
      BY <1>9, <2>1, <2>2, <3>1 DEF Reissue
    <3>7. pc \in InEffect /\ pc' \in InEffect
      BY <3>6 DEF InEffect
    <3>8. route \in {1, ForkRoute}
      BY <1>0, <2>2, <3>7, RecordingRoute
    <3> QED
      BY <1>0, <3>2, <3>5, <3>6, <3>7, <3>8, EffectPens, Phases
  <2>3. CASE ~(Op.mode = "record" /\ Matches(i))
    BY <2>1, <2>3, GivingUpRests
  <2> QED
    BY <2>2, <2>3
<1>10. CASE CallProvider
  <2>1. CASE Connectable
    BY <1>10, <2>1, WaitingRests DEF CallProvider, Under, InEffect
  <2>2. CASE ~Connectable
    BY <1>10, <2>2, GivingUpRests DEF CallProvider
  <2> QED
    BY <2>1, <2>2
<1>11. CASE ProviderReplies
  <2>1. CASE answer.status \in {"executed", "duplicate"}
    BY <1>11, <2>1, WaitingRests DEF ProviderReplies, Under, InEffect
  <2>2. CASE answer.status \notin {"executed", "duplicate"}
    BY <1>11, <2>2, GivingUpRests DEF ProviderReplies
  <2> QED
    BY <2>1, <2>2
<1>12. CASE ProviderHangsUp
  BY <1>12, GivingUpRests DEF ProviderHangsUp
<1>13. CASE JournalCommit
  <2>1. PICK e : e = CommitLine
    OBVIOUS
  <2>2. /\ e.kind = "commit" /\ e.route = route /\ e.key = Current.key /\ e.name = Current.name
        /\ e.request = Current.request
    BY <2>1 DEF CommitLine, Current
  <2>3. Write(e) /\ pc = "replied" /\ pc' = "committed" /\ UNCHANGED <<resumedAt, runs, route, at, host, saved>>
    BY <1>13, <2>1 DEF JournalCommit
  <2>4. Op.mode = "record" /\ ~Has(Commits, e.key)
    BY <2>2, <2>3, HomePlaces DEF OrderOK, ProgressOK
  <2>5. PICK i \in Intents : i.key = e.key /\ i.name = e.name /\ i.request = e.request
    BY <2>2, <2>3, RepliedIsIntended
  <2>6. Backed(e)
    BY <2>2, <2>4, <2>5, IntendedIsBacked
  <2>7. pc \in InEffect /\ pc' \in InEffect
    BY <2>3 DEF InEffect
  <2>8. route \in {1, ForkRoute}
    BY <1>0, <2>4, <2>7, RecordingRoute
  <2> QED
    BY <1>0, <2>2, <2>3, <2>6, <2>7, <2>8, EffectPens, Phases
<1>14. CASE DeliverFromProvider
  <2>1. PICK e : e = ResultLine(answer.result, "provider")
    OBVIOUS
  <2>2. e.kind = "result" /\ e.route = route /\ e.key = Current.key /\ e.result = answer.result
    BY <2>1, ResultLineIs
  <2>3. Write(e) /\ pc = "committed" /\ pc' = "op" /\ UNCHANGED <<resumedAt, runs, route, host, saved>>
    BY <1>14, <2>1 DEF DeliverFromProvider
  <2>4. \E c \in Commits : c.key = Current.key /\ c.result = answer.result
    BY <2>3 DEF OrderOK, ProgressOK
  <2>5. Backed(e)
    BY <2>2, <2>4 DEF Backed
  <2>6. route \in {1, ForkRoute}
    BY <1>0, <2>3, RecordingRoute, HomePlaces DEF CommittedOK
  <2> QED
    BY <1>0, <2>2, <2>3, <2>5, <2>6, EffectPens, Phases, HomePlaces
<1>15. CASE FinishEvent
  <2> DEFINE line == [kind |-> "invocation", route |-> route, event |-> host.event,
                      branch |-> Op.branch, state |-> seen]
  <2>1. /\ line.kind = "invocation" /\ line.route = route /\ line.event = host.event
        /\ line.branch = Op.branch
    OBVIOUS
  <2>2. /\ oplog' = Append(oplog, line) /\ pc = "op" /\ Op.do = "invoke" /\ pc' = "op"
        /\ UNCHANGED <<resumedAt, runs, route, saved>> /\ host'.event = host.event + 1
    BY <1>0, <1>15, HostIs DEF FinishEvent, Reaches, Write
  <2> HIDE DEF line
  <2>3. LineOK(line)
    BY <1>0, <2>1, <2>2, HandlingIsTyped
  <2>4. Backed(line)
    BY <2>1 DEF Backed
  <2>5. AddsLine(line)
    BY <2>1, <2>2, <2>3, <2>4, Phases DEF AddsLine
  <2> QED
    BY <2>5 DEF Pens
<1>16. CASE TakeCheckpoint
  <2>1. PICK e : e = StateLine("checkpoint")
    OBVIOUS
  <2>2. e.kind = "checkpoint" /\ e.route = route /\ e.host = host /\ e.state = seen
    BY <2>1 DEF StateLine
  <2>3. /\ oplog' = Append(oplog, e) /\ pc = "op" /\ Op.do = "checkpoint" /\ pc' = "op"
        /\ saved' = [host |-> host, seen |-> seen] /\ UNCHANGED <<resumedAt, runs, route, host>>
    BY <1>16, <2>1 DEF TakeCheckpoint, Reaches, Write
  <2>4. LineOK(e) /\ Backed(e)
    BY <1>0, <2>2 DEF LineOK, Backed, Live, PositionOK
  <2>5. AddsLine(e)
    BY <2>2, <2>3, <2>4, Phases DEF AddsLine
  <2> QED
    BY <2>5 DEF Pens
<1>17. CASE ExitRoute
  <2>1. Exits
    BY <1>17 DEF ExitRoute, Reaches, Write, Exits, Ending
  <2> QED
    BY <2>1 DEF Pens
<1>18. CASE PublishCheckpoint
  <2>1. CASE saved = NoCheckpoint
    BY <1>18, <2>1, GivingUpRests DEF PublishCheckpoint
  <2>2. CASE saved # NoCheckpoint
    BY <1>18, <2>2, WaitingRests DEF PublishCheckpoint, Ending
  <2> QED
    BY <2>1, <2>2
<1>19. CASE NextRoute
  <2>1. CASE route < ForkRoute
    <3>1. PICK r : r = route + 1
      OBVIOUS
    <3>2. r <= ForkRoute
      BY <1>0, <2>1, <3>1, Constants
    <3> QED
      BY <1>19, <2>1, <3>1, <3>2, BeginningPens DEF NextRoute
  <2>2. CASE ~(route < ForkRoute)
    BY <1>19, <2>2, WaitingRests DEF NextRoute, Ending
  <2> QED
    BY <2>1, <2>2
<1>20. CASE StopProvider
  BY <1>20, WaitingRests DEF StopProvider, Ending
<1>21. CASE ProviderStopped
  BY <1>21, WaitingRests DEF ProviderStopped, Ending
<1>22. CASE Seal
  <2>1. CASE LogIntact /\ ~ptorn
    BY <1>22, <2>1, WaitingRests DEF Seal, Ending
  <2>2. CASE ~(LogIntact /\ ~ptorn)
    BY <1>22, <2>2, GivingUpRests DEF Seal
  <2> QED
    BY <2>1, <2>2
<1>23. CASE Report
  BY <1>23, WaitingRests DEF Report, Ending
<1> QED
  BY <1>1, <1>2, <1>3, <1>4, <1>5, <1>6, <1>7, <1>8, <1>9, <1>10, <1>11, <1>12, <1>13, <1>14,
     <1>15, <1>16, <1>17, <1>18, <1>19, <1>20, <1>21, <1>22, <1>23 DEF ExecutorStep

LEMMA EveryStepPens ==
    ASSUME [Next]_vars, IInv, OrderOK, CommittedOK
    PROVE  Pens
<1> USE DEF position, files, bookkeeping, executorVars
<1>1. CASE Start \/ Resume
  BY <1>1 DEF Pens
<1>2. CASE ExecutorDies
  BY <1>2, StartRests DEF ExecutorDies
<1>3. ASSUME UNCHANGED <<oplog, resumedAt, runs, route, at, saved, host, pc>> PROVE Pens
  BY <1>3, WaitingRests
<1>4. ASSUME NEW p \in Providers, ProviderStep(p) \/ ProviderKilled(p) PROVE Pens
  BY <1>3, <1>4 DEF ProviderStep, ProviderKilled
<1>5. CASE UNCHANGED vars
  BY <1>3, <1>5 DEF vars
<1> QED
  BY <1>1, <1>2, <1>4, <1>5, StepPens DEF Next

-----------------------------------------------------------------------------
\* The journal grows.

\* Another line, of the route the executor is then on.
Adds(e) ==
    /\ oplog' = Append(oplog, e) /\ UNCHANGED <<resumedAt, runs>>
    /\ e.kind # "resume" /\ LineOK(e) /\ e.route = route' /\ pc # "down"

LEMMA JournalIs ==
    ASSUME FilesOK
    PROVE  Len(oplog) \in Nat /\ DOMAIN oplog = 1 .. Len(oplog) /\ resumedAt \in 0 .. Len(oplog)
  BY SeqIs DEF FilesOK

LEMMA JournalGrows ==
    ASSUME FilesOK, NEW e, oplog' = Append(oplog, e)
    PROVE  /\ Len(oplog) \in Nat /\ DOMAIN oplog = 1 .. Len(oplog) /\ resumedAt \in 0 .. Len(oplog)
           /\ Len(oplog') = Len(oplog) + 1 /\ DOMAIN oplog' = 1 .. Len(oplog) + 1
           /\ oplog'[Len(oplog) + 1] = e /\ \A i \in 1 .. Len(oplog) : oplog'[i] = oplog[i]
  BY AppendIs DEF FilesOK, Longer

LEMMA OwnGrow ==
    ASSUME FilesOK, NEW e, Adds(e)
    PROVE  /\ OwnLines' = OwnLines \cup {Len(oplog) + 1} /\ OwnLines \subseteq 1 .. Len(oplog)
           /\ \A kind, r : OwnOf(kind, r)' =
                 OwnOf(kind, r) \cup IF e.kind = kind /\ e.route = r THEN {Len(oplog) + 1} ELSE {}
<1>1. /\ Len(oplog) \in Nat /\ DOMAIN oplog = 1 .. Len(oplog) /\ resumedAt \in 0 .. Len(oplog)
      /\ DOMAIN oplog' = 1 .. Len(oplog) + 1 /\ resumedAt' = resumedAt /\ e.kind # "resume"
      /\ oplog'[Len(oplog) + 1] = e /\ \A i \in 1 .. Len(oplog) : oplog'[i] = oplog[i]
  BY JournalGrows DEF Adds
<1>2. OwnLines' = OwnLines \cup {Len(oplog) + 1}
  BY <1>1 DEF OwnLines
<1>3. OwnLines \subseteq 1 .. Len(oplog)
  BY <1>1 DEF OwnLines
<1> QED
  BY <1>1, <1>2, <1>3 DEF OwnOf

LEMMA OwnSame ==
    ASSUME UNCHANGED <<oplog, resumedAt>>
    PROVE  OwnLines' = OwnLines /\ \A kind, r : OwnOf(kind, r)' = OwnOf(kind, r)
  BY DEF OwnLines, OwnOf

LEMMA OwnEmpty ==
    ASSUME OwnLines = {}
    PROVE  \A kind, r : OwnOf(kind, r) = {}
  BY DEF OwnOf

LEMMA ExitAdds ==
    ASSUME PositionOK, Exits
    PROVE  \E e : /\ Adds(e) /\ e.kind = "exit" /\ e.route = route /\ e.host = host /\ e.state = seen
                  /\ route' = route
<1>1. PICK e : e = StateLine("exit")
  OBVIOUS
<1>2. e.kind = "exit" /\ e.route = route /\ e.host = host /\ e.state = seen
  BY <1>1 DEF StateLine
<1>3. route \in 1 .. ForkRoute /\ host \in Cursors
  BY DEF PositionOK
<1>4. LineOK(e)
  BY <1>2, <1>3 DEF LineOK, Live
<1> QED
  BY <1>1, <1>2, <1>4 DEF Exits, Adds

LEMMA CreateAdds ==
    ASSUME PositionOK, NEW r, Creates(r)
    PROVE  \E e : /\ Adds(e) /\ e.kind = "creation" /\ e.route = r /\ e.host = host'
                  /\ route' = r /\ r \in 1 .. ForkRoute /\ e.host \in Cursors
                  /\ e.host = IF r = Recovered THEN saved.host ELSE Start0
<1>1. route \in 1 .. ForkRoute /\ saved.host \in Cursors /\ Start0 \in Cursors /\ 1 \in 1 .. ForkRoute
      /\ ForkRoute \in Nat
  BY Constants DEF PositionOK
<1>2. r \in 1 .. ForkRoute
  BY <1>1 DEF Creates
<1>3. PICK e : e = [kind |-> "creation", route |-> r,
                    host |-> IF r = Recovered THEN saved.host ELSE Start0]
  OBVIOUS
<1>4. oplog' = Append(oplog, e) /\ host' = e.host /\ route' = r
  BY <1>3 DEF Creates, Begin, Start0
<1>5. /\ e.kind = "creation" /\ e.route = r /\ e.host = IF r = Recovered THEN saved.host ELSE Start0
  BY <1>3
<1>6. LineOK(e)
  BY <1>1, <1>2, <1>5 DEF LineOK, Live
<1> QED
  BY <1>1, <1>2, <1>4, <1>5, <1>6, Phases DEF Creates, Adds

LEMMA LineAdds ==
    ASSUME NEW e, AddsLine(e)
    PROVE  Adds(e) /\ e.kind \notin {"creation", "exit", "resume"} /\ e.route = route /\ route' = route
  BY Phases DEF AddsLine, Adds

\* The journal stays, is marked, or grows by a line.
LEMMA PensWrite ==
    ASSUME PositionOK, Pens
    PROVE  (oplog' = oplog /\ resumedAt' = resumedAt) \/ Start \/ Resume \/ \E e : Adds(e)
  BY ExitAdds, CreateAdds, LineAdds DEF Pens, Rests

LEMMA TypedLines ==
    ASSUME PositionOK, FilesOK, Pens, LinesTyped
    PROVE  LinesTyped'
<1>1. ASSUME NEW e, oplog' = Append(oplog, e), LineOK(e) PROVE LinesTyped'
  <2>1. ASSUME NEW i \in DOMAIN oplog' PROVE LineOK(oplog'[i])
    BY <1>1, <2>1, JournalGrows DEF LinesTyped
  <2> QED
    BY <2>1 DEF LinesTyped
<1>2. CASE Resume
  <2>1. PICK e : e = [kind |-> "resume", route |-> 1]
    OBVIOUS
  <2>2. LineOK(e)
    BY <2>1, Constants DEF LineOK, Live
  <2> QED
    BY <1>1, <1>2, <2>1, <2>2 DEF Resume
<1>3. CASE oplog' = oplog
  BY <1>3 DEF LinesTyped
<1> QED
  BY <1>1, <1>2, <1>3, PensWrite DEF Adds, Start, files

LEMMA BoundariesKept ==
    ASSUME PositionOK, FilesOK, Pens, MarksOK
    PROVE  MarksOK'
<1>0. /\ Len(oplog) \in Nat /\ DOMAIN oplog = 1 .. Len(oplog) /\ resumedAt \in 0 .. Len(oplog)
      /\ runs \in Nat
      /\ runs = 0 => pc = "down"
  BY JournalIs, Constants DEF FilesOK
<1>1. ASSUME NEW e, Adds(e) PROVE MarksOK'
  <2>1. /\ Len(oplog') = Len(oplog) + 1 /\ DOMAIN oplog' = 1 .. Len(oplog) + 1
        /\ oplog'[Len(oplog) + 1] = e /\ \A i \in 1 .. Len(oplog) : oplog'[i] = oplog[i]
        /\ e.kind # "resume" /\ resumedAt' = resumedAt /\ runs' = runs /\ runs # 0
    BY <1>0, <1>1, JournalGrows DEF Adds
  <2> QED
    BY <1>0, <2>1 DEF MarksOK
<1>2. CASE Resume
  <2>1. PICK e : e = [kind |-> "resume", route |-> 1]
    OBVIOUS
  <2>2. /\ Len(oplog') = Len(oplog) + 1 /\ DOMAIN oplog' = 1 .. Len(oplog) + 1
        /\ oplog'[Len(oplog) + 1] = e /\ e.kind = "resume" /\ resumedAt' = Len(oplog)
        /\ runs' = runs + 1
    BY <1>2, <2>1, JournalGrows DEF Resume
  <2>3. runs' # 0 /\ oplog'[resumedAt' + 1].kind = "resume" /\ resumedAt' + 1 \in DOMAIN oplog'
    BY <1>0, <2>2
  <2>4. \A i \in DOMAIN oplog' : i > resumedAt' => i = resumedAt' + 1
    BY <1>0, <2>2
  <2> QED
    BY <2>3, <2>4 DEF MarksOK
<1>3. CASE Start
  <2>1. Len(oplog) = 0 /\ oplog' = oplog /\ resumedAt' = 0 /\ runs' = 1
    BY <1>3 DEF Start, files, MarksOK
  <2> QED
    BY <1>0, <2>1 DEF MarksOK
<1>4. CASE oplog' = oplog /\ resumedAt' = resumedAt /\ runs' = runs
  BY <1>4 DEF MarksOK
<1> QED
  BY <1>1, <1>2, <1>3, <1>4, ExitAdds, CreateAdds, LineAdds DEF Pens, Rests

\* A process begins with nothing of its own.
LEMMA OwnStarts ==
    ASSUME FilesOK, MarksOK, Start \/ Resume
    PROVE  OwnLines' = {} /\ \A kind, r : OwnOf(kind, r)' = {}
<1>1. CASE Start
  <2>1. Len(oplog) = 0 /\ oplog' = oplog
    BY <1>1 DEF Start, files, MarksOK
  <2>2. DOMAIN oplog' = {}
    BY <2>1, JournalIs
  <2> QED
    BY <2>2 DEF OwnLines, OwnOf
<1>2. CASE Resume
  <2>1. PICK e : e = [kind |-> "resume", route |-> 1]
    OBVIOUS
  <2>2. /\ DOMAIN oplog' = 1 .. Len(oplog) + 1 /\ Len(oplog) \in Nat
        /\ oplog'[Len(oplog) + 1] = e /\ e.kind = "resume" /\ resumedAt' = Len(oplog)
    BY <1>2, <2>1, JournalGrows DEF Resume
  <2>3. OwnLines' = {}
    BY <2>2 DEF OwnLines
  <2> QED
    BY <2>3 DEF OwnOf
<1> QED
  BY <1>1, <1>2

\* Where the process is, and so what it may add to.
LEMMA Midway ==
    ASSUME FilesOK, CurrentOK, pc \in Under \cup Ending
    PROVE  /\ Len(oplog) \in OwnLines /\ Len(oplog) \in Nat \ {0} /\ oplog[Len(oplog)].kind # "resume"
           /\ \A i \in OwnLines : oplog[i].route <= route
           /\ OwnOf("creation", route) # {} /\ HandledUpTo(route, host.event)
           /\ \A c \in OwnOf("creation", route) : oplog[c].host.event <= host.event
  BY JournalIs DEF CurrentOK, MidwayAt, OwnLines

LEMMA HeadsKept ==
    ASSUME PositionOK, FilesOK, Pens, HeadsOK, CurrentOK
    PROVE  HeadsOK'
<1>0. Len(oplog) \in Nat /\ DOMAIN oplog = 1 .. Len(oplog)
  BY JournalIs
<1>1. ASSUME NEW e, oplog' = Append(oplog, e),
             \/ e.kind = "resume" \/ (e.kind = "creation" /\ e.route = 1)
             \/ Len(oplog) # 0 /\ oplog[Len(oplog)].kind # "resume"
      PROVE  HeadsOK'
  <2>1. /\ Len(oplog') = Len(oplog) + 1 /\ DOMAIN oplog' = 1 .. Len(oplog) + 1
        /\ oplog'[Len(oplog) + 1] = e /\ \A i \in 1 .. Len(oplog) : oplog'[i] = oplog[i]
    BY <1>1, JournalGrows
  <2>2. ASSUME NEW i \in 1 .. Len(oplog) + 1, oplog'[i].kind # "resume",
               i = 1 \/ oplog'[i - 1].kind = "resume"
        PROVE  oplog'[i].kind = "creation" /\ oplog'[i].route = 1
    <3>1. CASE i = Len(oplog) + 1
      <4>1. oplog'[i] = e /\ (i # 1 => i - 1 = Len(oplog) /\ i - 1 \in 1 .. Len(oplog))
        BY <1>0, <2>1, <3>1
      <4>2. i # 1 => oplog'[i - 1] = oplog[Len(oplog)]
        BY <2>1, <4>1
      <4>3. i = 1 => Len(oplog) = 0
        BY <1>0, <3>1
      <4> QED
        BY <1>1, <2>2, <4>1, <4>2, <4>3
    <3>2. CASE i \in 1 .. Len(oplog)
      <4>1. oplog'[i] = oplog[i] /\ (i # 1 => oplog'[i - 1] = oplog[i - 1])
        BY <1>0, <2>1, <3>2
      <4> QED
        BY <1>0, <2>2, <3>2, <4>1 DEF HeadsOK
    <3> QED
      BY <1>0, <3>1, <3>2
  <2> QED
    BY <2>1, <2>2 DEF HeadsOK
<1>2. CASE oplog' = oplog
  BY <1>2 DEF HeadsOK
<1>3. CASE Resume
  <2>1. PICK e : e = [kind |-> "resume", route |-> 1]
    OBVIOUS
  <2> QED
    BY <1>1, <1>3, <2>1 DEF Resume
<1>4. CASE Exits \/ \E e : AddsLine(e)
  <2>1. pc \in Under
    BY <1>4, Phases DEF Exits, AddsLine
  <2>2. Len(oplog) # 0 /\ oplog[Len(oplog)].kind # "resume"
    BY <2>1, Midway
  <2> QED
    BY <1>1, <1>4, <2>2 DEF Exits, AddsLine
<1>5. ASSUME NEW r, Creates(r) PROVE HeadsOK'
  <2>1. PICK e : Adds(e) /\ e.kind = "creation" /\ e.route = r
    BY <1>5, CreateAdds
  <2>2. CASE r = 1
    BY <1>1, <2>1, <2>2 DEF Adds
  <2>3. CASE r # 1
    <3>1. pc \in Ending
      BY <1>5, <2>3 DEF Creates, Ending
    <3>2. Len(oplog) # 0 /\ oplog[Len(oplog)].kind # "resume"
      BY <3>1, Midway
    <3> QED
      BY <1>1, <2>1, <3>2 DEF Adds
  <2> QED
    BY <2>2, <2>3
<1> QED
  BY <1>2, <1>3, <1>4, <1>5 DEF Pens, Rests, Start, files

\* The line a process adds, against the ones it wrote.
Lengthens(e) ==
    /\ Adds(e) /\ \A i \in OwnLines : oplog[i].route <= e.route
    /\ e.kind = "creation" => \A i \in OwnLines : oplog[i].route # e.route
    /\ e.kind # "creation" =>
          /\ e.route = route /\ OwnOf("creation", route) # {} /\ OwnOf("exit", route) = {}
          /\ HandledUpTo(route, host.event)
          /\ \A c \in OwnOf("creation", route) : oplog[c].host.event <= host.event
    /\ e.kind = "invocation" => e.event = host.event
    /\ e.kind = "exit" => e.host = host

LEMMA PensLengthen ==
    ASSUME PositionOK, FilesOK, LinesTyped, CurrentOK, Pens
    PROVE  \/ oplog' = oplog /\ resumedAt' = resumedAt
           \/ Start \/ Resume
           \/ \E e : Lengthens(e)
<1>0. route \in Nat
  BY Here
<1>1. ASSUME NEW e, Adds(e), e.kind # "creation", pc \in Under, e.route = route,
             e.kind = "invocation" => e.event = host.event, e.kind = "exit" => e.host = host
      PROVE  Lengthens(e)
  <2>1. OwnOf("exit", route) = {}
    BY <1>1 DEF CurrentOK
  <2> QED
    BY <1>1, <2>1, Midway DEF Lengthens
<1>2. CASE Exits
  <2>1. PICK e : Adds(e) /\ e.kind = "exit" /\ e.route = route /\ e.host = host
    BY <1>2, ExitAdds
  <2>2. pc \in Under
    BY <1>2, Phases DEF Exits
  <2> QED
    BY <1>1, <2>1, <2>2
<1>3. ASSUME NEW e, AddsLine(e) PROVE Lengthens(e)
  <2>1. Adds(e) /\ e.kind \notin {"creation", "exit"} /\ e.route = route
    BY <1>3, LineAdds
  <2>2. pc \in Under /\ (e.kind = "invocation" => e.event = host.event)
    BY <1>3 DEF AddsLine
  <2> QED
    BY <1>1, <2>1, <2>2
<1>4. ASSUME NEW r, Creates(r) PROVE \E e : Lengthens(e)
  <2>1. PICK e : Adds(e) /\ e.kind = "creation" /\ e.route = r
    BY <1>4, CreateAdds
  <2>2. CASE r = 1 /\ pc \in Waiting
    <3>1. OwnLines = {}
      BY <2>2 DEF CurrentOK
    <3> QED
      BY <2>1, <3>1 DEF Lengthens
  <2>3. CASE r = route + 1 /\ pc = "next"
    <3>1. \A i \in OwnLines : oplog[i].route <= route
      BY <2>3, Midway DEF Ending
    <3>2. \A i \in OwnLines : oplog[i].route \in Nat
      BY Constants DEF LinesTyped, LineOK, OwnLines
    <3> QED
      BY <1>0, <2>1, <2>3, <3>1, <3>2 DEF Lengthens
  <2> QED
    BY <1>4, <2>2, <2>3 DEF Creates
<1> QED
  BY <1>2, <1>3, <1>4 DEF Pens, Rests

LEMMA OrderedKept ==
    ASSUME PositionOK, FilesOK, LinesTyped, CurrentOK, MarksOK, Pens, OrderedOK
    PROVE  OrderedOK'
<1>1. CASE oplog' = oplog /\ resumedAt' = resumedAt
  BY <1>1, OwnSame DEF OrderedOK
<1>2. CASE Start \/ Resume
  BY <1>2, OwnStarts DEF OrderedOK
<1>3. ASSUME NEW e, Lengthens(e) PROVE OrderedOK'
  <2>1. Adds(e)
    BY <1>3 DEF Lengthens
  <2>2. PICK n : n = Len(oplog) + 1
    OBVIOUS
  <2>3. /\ OwnLines' = OwnLines \cup {n} /\ OwnLines \subseteq 1 .. Len(oplog)
        /\ oplog'[n] = e /\ \A i \in 1 .. Len(oplog) : oplog'[i] = oplog[i]
        /\ Len(oplog) \in Nat
    BY <2>1, <2>2, OwnGrow, JournalGrows DEF Adds
  <2>4. ASSUME NEW i \in OwnLines', NEW j \in OwnLines', i < j
        PROVE  /\ oplog'[i].route <= oplog'[j].route
               /\ oplog'[i].route = oplog'[j].route =>
                     /\ oplog'[i].kind # "exit" /\ oplog'[j].kind # "creation"
                     /\ oplog'[i].kind = "invocation" /\ oplog'[j].kind = "invocation" =>
                           oplog'[i].event < oplog'[j].event
    <3>1. i \in OwnLines /\ oplog'[i] = oplog[i]
      BY <2>2, <2>3, <2>4
    <3>2. CASE j \in OwnLines
      <4>1. oplog'[j] = oplog[j]
        BY <2>3, <3>2
      <4> QED
        BY <2>4, <3>1, <3>2, <4>1 DEF OrderedOK
    <3>3. CASE j = n
      <4>1. oplog'[j] = e
        BY <2>3, <3>3
      <4>2. oplog[i].route <= e.route
        BY <1>3, <3>1 DEF Lengthens
      <4>3. ASSUME oplog[i].route = e.route
            PROVE  /\ oplog[i].kind # "exit" /\ e.kind # "creation"
                   /\ oplog[i].kind = "invocation" /\ e.kind = "invocation" => oplog[i].event < e.event
        <5>1. e.kind # "creation"
          BY <1>3, <3>1, <4>3 DEF Lengthens
        <5>2. e.route = route /\ OwnOf("exit", route) = {} /\ HandledUpTo(route, host.event)
          BY <1>3, <5>1 DEF Lengthens
        <5>3. oplog[i].kind # "exit"
          BY <3>1, <4>3, <5>2 DEF OwnOf
        <5>4. ASSUME oplog[i].kind = "invocation", e.kind = "invocation" PROVE oplog[i].event < e.event
          <6>1. i \in OwnOf("invocation", route) /\ e.event = host.event
            BY <1>3, <3>1, <4>3, <5>2, <5>4 DEF OwnOf, Lengthens
          <6> QED
            BY <5>2, <6>1 DEF HandledUpTo
        <5> QED
          BY <5>1, <5>3, <5>4
      <4> QED
        BY <3>1, <4>1, <4>2, <4>3
    <3> QED
      BY <2>3, <3>2, <3>3
  <2> QED
    BY <2>4 DEF OrderedOK
<1> QED
  BY <1>1, <1>2, <1>3, PensLengthen

LEMMA BegunKept ==
    ASSUME PositionOK, FilesOK, LinesTyped, CurrentOK, MarksOK, Pens, BegunOK
    PROVE  BegunOK'
<1>1. CASE oplog' = oplog /\ resumedAt' = resumedAt
  BY <1>1, OwnSame DEF BegunOK
<1>2. CASE Start \/ Resume
  BY <1>2, OwnStarts DEF BegunOK
<1>3. ASSUME NEW e, Lengthens(e) PROVE BegunOK'
  <2>1. Adds(e)
    BY <1>3 DEF Lengthens
  <2>2. PICK n : n = Len(oplog) + 1
    OBVIOUS
  <2>3. /\ OwnLines' = OwnLines \cup {n} /\ OwnLines \subseteq 1 .. Len(oplog)
        /\ oplog'[n] = e /\ \A i \in 1 .. Len(oplog) : oplog'[i] = oplog[i]
        /\ Len(oplog) \in Nat
        /\ \A r : OwnOf("creation", r)' =
               OwnOf("creation", r) \cup IF e.kind = "creation" /\ e.route = r THEN {n} ELSE {}
    BY <2>1, <2>2, OwnGrow, JournalGrows DEF Adds
  <2>4. ASSUME NEW i \in OwnLines', NEW r, r = oplog'[i].route PROVE \E c \in OwnOf("creation", r)' : c <= i
    <3>1. CASE i \in OwnLines
      <4>1. oplog'[i] = oplog[i]
        BY <2>3, <3>1
      <4> QED
        BY <2>3, <2>4, <3>1, <4>1 DEF BegunOK
    <3>2. CASE i = n /\ e.kind = "creation"
      <4>1. r = e.route /\ n \in OwnOf("creation", r)' /\ n <= n
        BY <2>2, <2>3, <2>4, <3>2
      <4> QED
        BY <3>2, <4>1
    <3>3. CASE i = n /\ e.kind # "creation"
      <4>1. PICK c : c \in OwnOf("creation", e.route)
        BY <1>3, <3>3 DEF Lengthens
      <4>2. c \in OwnLines
        BY <4>1 DEF OwnOf
      <4>3. r = e.route /\ c \in OwnOf("creation", r)' /\ c <= n
        BY <2>2, <2>3, <2>4, <3>3, <4>1, <4>2
      <4> QED
        BY <3>3, <4>3
    <3> QED
      BY <2>3, <3>1, <3>2, <3>3
  <2> QED
    BY <2>4 DEF BegunOK
<1> QED
  BY <1>1, <1>2, <1>3, PensLengthen

LEMMA OwnTyped ==
    ASSUME LinesTyped
    PROVE  /\ \A i \in OwnLines : oplog[i].route \in 1 .. ForkRoute /\ LineOK(oplog[i])
           /\ \A r : \A i \in OwnOf("invocation", r) : oplog[i].event \in Nat
           /\ \A r : \A i \in OwnOf("creation", r) \cup OwnOf("exit", r) : oplog[i].host.event \in Nat
  BY DEF LinesTyped, LineOK, OwnLines, OwnOf, Cursors

\* The places of the lines of a process when it adds one.
Added(e, n) ==
    /\ n = Len(oplog) + 1 /\ Len(oplog) \in Nat /\ n \notin OwnLines /\ oplog'[n] = e
    /\ OwnLines' = OwnLines \cup {n} /\ OwnLines \subseteq 1 .. Len(oplog)
    /\ \A kind, r : /\ OwnOf(kind, r) \subseteq OwnLines
                    /\ OwnOf(kind, r)' = OwnOf(kind, r) \cup
                          IF e.kind = kind /\ e.route = r THEN {n} ELSE {}
    /\ \A i \in OwnLines : oplog'[i] = oplog[i]
    /\ LineOK(e) /\ e.route = route'

LEMMA Adding ==
    ASSUME FilesOK, NEW e, Lengthens(e)
    PROVE  \E n : Added(e, n)
<1>1. Adds(e)
  BY DEF Lengthens
<1>2. PICK n : n = Len(oplog) + 1
  OBVIOUS
<1>3. /\ OwnLines' = OwnLines \cup {n} /\ OwnLines \subseteq 1 .. Len(oplog)
      /\ oplog'[n] = e /\ \A i \in 1 .. Len(oplog) : oplog'[i] = oplog[i]
      /\ Len(oplog) \in Nat
      /\ \A kind, r : OwnOf(kind, r)' =
             OwnOf(kind, r) \cup IF e.kind = kind /\ e.route = r THEN {n} ELSE {}
  BY <1>1, <1>2, OwnGrow, JournalGrows DEF Adds
<1>4. \A kind, r : OwnOf(kind, r) \subseteq OwnLines
  BY DEF OwnOf
<1>5. n \notin OwnLines
  BY <1>2, <1>3
<1>6. Added(e, n)
  BY <1>1, <1>2, <1>3, <1>4, <1>5 DEF Adds, Added
<1> QED
  BY <1>6

LEMMA HandledStays ==
    ASSUME FilesOK, NEW e, Lengthens(e), NEW r, NEW m, HandledUpTo(r, m),
           e.route # r \/ e.kind \notin {"creation", "invocation"}
    PROVE  HandledUpTo(r, m)'
<1>1. PICK n : Added(e, n)
  BY Adding
<1>2. OwnOf("creation", r)' = OwnOf("creation", r) /\ OwnOf("invocation", r)' = OwnOf("invocation", r)
  BY <1>1 DEF Added
<1>3. \A i \in OwnOf("creation", r) \cup OwnOf("invocation", r) : oplog'[i] = oplog[i]
  BY <1>1 DEF Added
<1> QED
  BY <1>2, <1>3 DEF HandledUpTo

LEMMA HandledSame ==
    ASSUME UNCHANGED <<oplog, resumedAt>>, NEW r, NEW m, HandledUpTo(r, m)
    PROVE  HandledUpTo(r, m)'
  BY OwnSame DEF HandledUpTo

LEMMA HandlesNext ==
    ASSUME FilesOK, LinesTyped, NEW e, Lengthens(e), e.kind = "invocation", NEW r, r = route,
           NEW m \in Nat, m = host.event
    PROVE  HandledUpTo(r, m + 1)'
<1>1. PICK n : Added(e, n)
  BY Adding
<1>2. HandledUpTo(r, m) /\ e.event = m /\ e.route = r
  BY DEF Lengthens
<1>3. /\ OwnOf("creation", r)' = OwnOf("creation", r)
      /\ OwnOf("invocation", r)' = OwnOf("invocation", r) \cup {n}
  BY <1>1, <1>2 DEF Added
<1>4. \A i \in OwnOf("creation", r) \cup OwnOf("invocation", r) : oplog'[i] = oplog[i]
  BY <1>1 DEF Added
<1>5. \A i \in OwnOf("invocation", r)' : oplog'[i].event < m + 1
  BY <1>1, <1>2, <1>3, <1>4, OwnTyped DEF HandledUpTo, Added
<1>6. ASSUME NEW c \in OwnOf("creation", r)', NEW k \in oplog'[c].host.event .. (m + 1) - 1
      PROVE  \E i \in OwnOf("invocation", r)' : oplog'[i].event = k
  <2>1. c \in OwnOf("creation", r) /\ oplog'[c] = oplog[c] /\ oplog[c].host.event \in Nat
    BY <1>3, <1>4, OwnTyped
  <2>2. CASE k = m
    BY <1>1, <1>2, <1>3, <2>2 DEF Added
  <2>3. CASE k # m
    <3>1. k \in oplog[c].host.event .. m - 1
      BY <2>1, <2>3
    <3>2. PICK i \in OwnOf("invocation", r) : oplog[i].event = k
      BY <1>2, <2>1, <3>1 DEF HandledUpTo
    <3> QED
      BY <1>3, <1>4, <3>2
  <2> QED
    BY <2>2, <2>3
<1> QED
  BY <1>5, <1>6 DEF HandledUpTo

LEMMA StepwiseKept ==
    ASSUME PositionOK, FilesOK, LinesTyped, CurrentOK, MarksOK, Pens, StepwiseOK
    PROVE  StepwiseOK'
<1>1. CASE oplog' = oplog /\ resumedAt' = resumedAt
  BY <1>1, OwnSame DEF StepwiseOK
<1>2. CASE Start \/ Resume
  BY <1>2, OwnStarts DEF StepwiseOK
<1>3. ASSUME NEW e, Lengthens(e) PROVE StepwiseOK'
  <2>1. PICK n : Added(e, n)
    BY <1>3, Adding
  <2>2. ASSUME NEW r \in 1 .. ForkRoute, NEW j \in OwnOf("invocation", r)'
        PROVE  /\ \A c \in OwnOf("creation", r)' : oplog'[c].host.event <= oplog'[j].event
               /\ \/ \E i \in OwnOf("invocation", r)' : i < j /\ oplog'[i].event + 1 = oplog'[j].event
                  \/ \E c \in OwnOf("creation", r)' : oplog'[j].event = oplog'[c].host.event
    <3>1. CASE j \in OwnOf("invocation", r)
      <4>1. oplog'[j] = oplog[j] /\ j \in OwnLines /\ oplog[j].route = r
        BY <2>1, <3>1 DEF Added, OwnOf
      <4>2. e.kind = "creation" => e.route # r
        BY <1>3, <4>1 DEF Lengthens
      <4>3. OwnOf("creation", r)' = OwnOf("creation", r)
            /\ \A i \in OwnOf("creation", r) \cup OwnOf("invocation", r) : oplog'[i] = oplog[i]
            /\ OwnOf("invocation", r) \subseteq OwnOf("invocation", r)'
        BY <2>1, <4>2 DEF Added
      <4> QED
        BY <3>1, <4>1, <4>3 DEF StepwiseOK
    <3>2. CASE j \notin OwnOf("invocation", r)
      <4>1. j = n /\ e.kind = "invocation" /\ e.route = r /\ oplog'[j] = e
        BY <2>1, <2>2, <3>2 DEF Added
      <4>2. /\ e.event = host.event /\ r = route /\ OwnOf("creation", r) # {} /\ HandledUpTo(r, host.event)
            /\ \A c \in OwnOf("creation", r) : oplog[c].host.event <= host.event
        BY <1>3, <4>1 DEF Lengthens
      <4>3. /\ OwnOf("creation", r)' = OwnOf("creation", r)
            /\ \A i \in OwnOf("creation", r) \cup OwnOf("invocation", r) : oplog'[i] = oplog[i]
            /\ OwnOf("invocation", r) \subseteq OwnOf("invocation", r)'
        BY <2>1, <4>1 DEF Added
      <4>0. \A i \in OwnOf("invocation", r) : i < n
        <5>1. OwnOf("invocation", r) \subseteq 1 .. Len(oplog) /\ n = Len(oplog) + 1 /\ Len(oplog) \in Nat
          BY <2>1 DEF Added
        <5> QED
          BY <5>1
      <4>4. PICK c : c \in OwnOf("creation", r)
        BY <4>2
      <4>5. oplog[c].host.event \in Nat /\ host.event \in Nat /\ oplog[c].host.event <= host.event
        BY <4>2, <4>4, OwnTyped, HostIs
      <4>6. CASE oplog[c].host.event # host.event
        <5>1. PICK k : k = host.event - 1
          OBVIOUS
        <5>2. k \in oplog[c].host.event .. host.event - 1 /\ k + 1 = host.event
          BY <4>5, <4>6, <5>1
        <5>3. PICK i \in OwnOf("invocation", r) : oplog[i].event = k
          BY <4>2, <4>4, <5>2 DEF HandledUpTo
        <5> QED
          BY <4>0, <4>1, <4>2, <4>3, <5>2, <5>3
      <4> QED
        BY <4>1, <4>2, <4>3, <4>4, <4>6
    <3> QED
      BY <3>1, <3>2
  <2> QED
    BY <2>2 DEF StepwiseOK
<1> QED
  BY <1>1, <1>2, <1>3, PensLengthen

LEMMA FullKept ==
    ASSUME PositionOK, FilesOK, LinesTyped, CurrentOK, MarksOK, Pens, FullOK
    PROVE  FullOK'
<1>1. CASE oplog' = oplog /\ resumedAt' = resumedAt
  <2>1. ASSUME NEW r \in 1 .. ForkRoute, NEW x \in OwnOf("exit", r)'
        PROVE  HandledUpTo(r, oplog[x].host.event)'
    <3>1. PICK m : m = oplog[x].host.event
      OBVIOUS
    <3>2. HandledUpTo(r, m)'
      BY <1>1, <2>1, <3>1, OwnSame, HandledSame DEF FullOK
    <3> QED
      BY <1>1, <3>1, <3>2
  <2> QED
    BY <2>1 DEF FullOK
<1>2. CASE Start \/ Resume
  BY <1>2, OwnStarts DEF FullOK
<1>3. ASSUME NEW e, Lengthens(e) PROVE FullOK'
  <2>1. PICK n : Added(e, n)
    BY <1>3, Adding
  <2>2. ASSUME NEW r \in 1 .. ForkRoute, NEW x \in OwnOf("exit", r)'
        PROVE  HandledUpTo(r, oplog[x].host.event)'
    <3>1. PICK m : m = oplog'[x].host.event
      OBVIOUS
    <3>2. CASE x \in OwnOf("exit", r)
      <4>1. oplog'[x] = oplog[x] /\ x \in OwnLines /\ oplog[x].route = r
        BY <2>1, <3>2 DEF Added, OwnOf
      <4>2. e.route # r
        <5>1. e.kind = "creation" => e.route # r
          BY <1>3, <4>1 DEF Lengthens
        <5>2. e.kind # "creation" => e.route = route /\ OwnOf("exit", route) = {}
          BY <1>3 DEF Lengthens
        <5> QED
          BY <3>2, <5>1, <5>2
      <4>3. HandledUpTo(r, m)
        BY <3>1, <3>2, <4>1 DEF FullOK
      <4>4. HandledUpTo(r, m)'
        BY <1>3, <4>2, <4>3, HandledStays
      <4> QED
        BY <3>1, <4>4
    <3>3. CASE x \notin OwnOf("exit", r)
      <4>1. x = n /\ e.kind = "exit" /\ e.route = r /\ oplog'[x] = e
        BY <2>1, <2>2, <3>3 DEF Added
      <4>2. e.host = host /\ r = route /\ HandledUpTo(r, m)
        BY <1>3, <3>1, <4>1 DEF Lengthens
      <4>3. HandledUpTo(r, m)'
        BY <1>3, <4>1, <4>2, HandledStays
      <4> QED
        BY <3>1, <4>3
    <3> QED
      BY <3>2, <3>3
  <2> QED
    BY <2>2 DEF FullOK
<1> QED
  BY <1>1, <1>2, <1>3, PensLengthen

LEMMA MidwaySame ==
    ASSUME UNCHANGED <<oplog, resumedAt>>, NEW r, NEW m, MidwayAt(r, m)
    PROVE  MidwayAt(r, m)'
  BY OwnSame, HandledSame DEF MidwayAt

LEMMA MidwayGoes ==
    ASSUME PositionOK, FilesOK, LinesTyped, NEW e, Lengthens(e), NEW r \in 1 .. ForkRoute,
           NEW m \in Nat, e.route = r, HandledUpTo(r, m)',
           IF e.kind = "creation"
           THEN /\ e.host.event = m
                /\ r # 1 => r = route + 1 /\ MidwayAt(route, host.event) /\ OwnOf("exit", route) # {}
           ELSE r = route /\ MidwayAt(r, host.event) /\ host.event <= m
    PROVE  MidwayAt(r, m)'
<1>0. route \in Nat /\ r \in Nat /\ host.event \in Nat
  BY Here, HostIs, Constants
<1>1. PICK n : Added(e, n)
  BY Adding
<1>2. Len(oplog') = n
  BY <1>1, JournalGrows DEF Added, Lengthens, Adds
<1>3. Len(oplog') \in OwnLines'
  BY <1>1, <1>2 DEF Added
<1>4. \A i \in OwnLines' : oplog'[i].route <= r
  BY <1>0, <1>1 DEF Added, Lengthens
<1>5. OwnOf("creation", r)' # {}
  <2>1. CASE e.kind = "creation"
    BY <1>1, <2>1 DEF Added
  <2>2. CASE e.kind # "creation"
    BY <1>1, <2>2 DEF Added, MidwayAt
  <2> QED
    BY <2>1, <2>2
<1>6. ASSUME NEW q \in 1 .. r - 1 PROVE OwnOf("exit", q)' # {}
  <2>1. OwnOf("exit", q) # {}
    <3>1. CASE q = route /\ e.kind = "creation"
      BY <1>0, <1>6, <3>1
    <3>2. CASE ~(q = route /\ e.kind = "creation")
      <4>1. MidwayAt(route, host.event) /\ q \in 1 .. route - 1
        BY <1>0, <1>6, <3>2
      <4> QED
        BY <4>1 DEF MidwayAt
    <3> QED
      BY <3>1, <3>2
  <2> QED
    BY <1>1, <2>1 DEF Added
<1>7. ASSUME NEW c \in OwnOf("creation", r)' PROVE oplog'[c].host.event <= m
  <2>1. CASE e.kind = "creation"
    <3>1. OwnOf("creation", r) = {}
      BY <2>1 DEF Lengthens, OwnOf
    <3>2. c = n /\ oplog'[c] = e
      BY <1>1, <1>7, <3>1 DEF Added
    <3> QED
      BY <2>1, <3>2
  <2>2. CASE e.kind # "creation"
    <3>1. c \in OwnOf("creation", r) /\ oplog'[c] = oplog[c]
      BY <1>1, <1>7, <2>2 DEF Added
    <3>2. oplog[c].host.event <= host.event /\ oplog[c].host.event \in Nat /\ host.event <= m
      BY <2>2, <3>1, OwnTyped DEF MidwayAt
    <3> QED
      BY <1>0, <3>1, <3>2
  <2> QED
    BY <2>1, <2>2
<1> QED
  BY <1>3, <1>4, <1>5, <1>6, <1>7 DEF MidwayAt

LEMMA CurrentKept ==
    ASSUME PositionOK, FilesOK, LinesTyped, MarksOK, CurrentOK, Pens, PositionOK'
    PROVE  CurrentOK'
<1>0. /\ route \in 1 .. ForkRoute /\ host.event \in Nat /\ route' \in 1 .. ForkRoute /\ host'.event \in Nat
      /\ pc \in Waiting => OwnLines = {}
      /\ pc \in Under \cup Ending => MidwayAt(route, host.event)
      /\ pc \in Under => OwnOf("exit", route) = {}
      /\ pc \in Ending => OwnOf("exit", route) # {}
  BY Here, HostIs DEF CurrentOK, PositionOK, Cursors
<1>1. PICK r, m : r = route' /\ m = host'.event
  OBVIOUS
<1>2. SUFFICES /\ pc' \in Waiting => OwnLines' = {}
               /\ pc' \in Under \cup Ending => MidwayAt(r, m)'
               /\ pc' \in Under => OwnOf("exit", r)' = {}
               /\ pc' \in Ending => OwnOf("exit", r)' # {}
  BY <1>1 DEF CurrentOK
<1>3. CASE Rests
  <2>1. CASE pc' = "down"
    BY <2>1, Phases
  <2>2. CASE pc' # "down"
    <3>1. /\ oplog' = oplog /\ resumedAt' = resumedAt /\ r = route /\ m = host.event
          /\ pc' \in Waiting <=> pc \in Waiting
          /\ pc' \in Under <=> pc \in Under
          /\ pc' \in Ending <=> pc \in Ending
      BY <1>1, <1>3, <2>2 DEF Rests
    <3> QED
      BY <1>0, <3>1, OwnSame, MidwaySame
  <2> QED
    BY <2>1, <2>2
<1>4. CASE Start \/ Resume
  <2>1. pc' \in Waiting
    BY <1>4 DEF Start, Resume, Waiting
  <2> QED
    BY <1>4, <2>1, OwnStarts, Phases
<1>5. CASE Exits
  <2>1. PICK e : Adds(e) /\ e.kind = "exit" /\ e.route = route /\ e.host = host
    BY <1>5, ExitAdds
  <2>2. /\ pc \in Under /\ pc' \in Ending /\ r = route /\ m = host.event
    BY <1>1, <1>5, Phases DEF Exits
  <2>3. Lengthens(e)
    BY <1>0, <2>1, <2>2 DEF Lengthens, MidwayAt
  <2>4. MidwayAt(r, m) /\ HandledUpTo(r, m)
    BY <1>0, <2>2 DEF MidwayAt
  <2>5. MidwayAt(r, m)'
    BY <1>0, <1>1, <2>1, <2>2, <2>3, <2>4, HandledStays, MidwayGoes
  <2>6. OwnOf("exit", r)' # {}
    BY <2>1, <2>2, <2>3, Adding DEF Added
  <2> QED
    BY <2>2, <2>5, <2>6, Phases
<1>6. ASSUME NEW e, AddsLine(e) PROVE <1>2!1
  <2>1. Adds(e) /\ e.kind \notin {"creation", "exit", "resume"} /\ e.route = route
    BY <1>6, LineAdds
  <2>2. /\ pc \in Under /\ pc' \in Under /\ r = route
        /\ IF e.kind = "invocation" THEN e.event = host.event /\ m = host.event + 1 ELSE m = host.event
    BY <1>1, <1>6 DEF AddsLine
  <2>3. MidwayAt(r, host.event) /\ HandledUpTo(r, host.event) /\ OwnOf("exit", r) = {}
    BY <1>0, <2>2 DEF MidwayAt
  <2>4. Lengthens(e)
    BY <1>0, <2>1, <2>2, <2>3 DEF Lengthens, MidwayAt
  <2>5. HandledUpTo(r, m)'
    <3>1. CASE e.kind = "invocation"
      <4>1. PICK j : j = host.event
        OBVIOUS
      <4> QED
        BY <1>0, <2>2, <2>4, <3>1, <4>1, HandlesNext
    <3>2. CASE e.kind # "invocation"
      BY <2>1, <2>2, <2>3, <2>4, <3>2, HandledStays
    <3> QED
      BY <3>1, <3>2
  <2>6. m \in Nat /\ host.event <= m
    BY <1>0, <1>1, <2>2
  <2>7. MidwayAt(r, m)'
    BY <1>0, <1>1, <2>1, <2>2, <2>3, <2>4, <2>5, <2>6, MidwayGoes
  <2>8. OwnOf("exit", r)' = {}
    BY <2>1, <2>3, <2>4, Adding DEF Added
  <2> QED
    BY <2>2, <2>7, <2>8, Phases
<1>7. ASSUME NEW q, Creates(q) PROVE <1>2!1
  <2>1. PICK e : Adds(e) /\ e.kind = "creation" /\ e.route = r /\ e.host.event = m /\ q = r
    BY <1>1, <1>7, CreateAdds
  <2>2. /\ pc' = "op"
        /\ (r = 1 /\ OwnLines = {}) \/ (r = route + 1 /\ MidwayAt(route, host.event)
                                        /\ OwnOf("exit", route) # {})
    BY <1>0, <1>7, <2>1 DEF Creates, Begin, Ending
  <2>3. Lengthens(e) /\ OwnOf("exit", r) = {} /\ OwnOf("invocation", r) = {} /\ OwnOf("creation", r) = {}
    <3>1. CASE r = 1 /\ OwnLines = {}
      BY <2>1, <3>1, OwnEmpty DEF Lengthens
    <3>2. CASE r = route + 1 /\ MidwayAt(route, host.event)
      <4>1. \A i \in OwnLines : oplog[i].route <= route /\ oplog[i].route \in Nat
        BY <3>2, OwnTyped, Constants DEF MidwayAt
      <4>2. \A i \in OwnLines : oplog[i].route <= r /\ oplog[i].route # r
        BY <1>0, <3>2, <4>1
      <4> QED
        BY <2>1, <4>2 DEF Lengthens, OwnOf
    <3> QED
      BY <2>2, <3>1, <3>2
  <2>4. PICK n : Added(e, n)
    BY <2>3, Adding
  <2>5. HandledUpTo(r, m)'
    <3>1. OwnOf("invocation", r)' = {} /\ OwnOf("creation", r)' = {n} /\ oplog'[n] = e
      BY <2>1, <2>3, <2>4 DEF Added
    <3>2. m .. m - 1 = {}
      BY <1>0, <1>1
    <3> QED
      BY <2>1, <3>1, <3>2 DEF HandledUpTo
  <2>6. MidwayAt(r, m)'
    BY <1>0, <1>1, <2>1, <2>2, <2>3, <2>5, MidwayGoes
  <2>7. OwnOf("exit", r)' = {}
    BY <2>1, <2>3, <2>4 DEF Added
  <2> QED
    BY <2>2, <2>6, <2>7, Phases
<1> QED
  BY <1>3, <1>4, <1>5, <1>6, <1>7 DEF Pens

LEMMA LastStays ==
    ASSUME FilesOK, NEW e, oplog' = Append(oplog, e), NEW s,
           IF e.kind = "checkpoint" THEN s = [host |-> e.host, seen |-> e.state] ELSE LastTaken(s)
    PROVE  LastTaken(s)'
<1>1. PICK n : n = Len(oplog) + 1
  OBVIOUS
<1>2. /\ Len(oplog) \in Nat /\ DOMAIN oplog = 1 .. Len(oplog) /\ DOMAIN oplog' = 1 .. n
      /\ oplog'[n] = e /\ n \in 1 .. n
      /\ \A i \in 1 .. Len(oplog) : oplog'[i] = oplog[i] /\ i \in 1 .. n
      /\ \A i \in 1 .. n : i = n \/ i \in 1 .. Len(oplog)
  BY <1>1, JournalGrows
<1>3. CASE e.kind = "checkpoint"
  BY <1>2, <1>3 DEF LastTaken
<1>4. CASE e.kind # "checkpoint"
  <2>1. PICK i \in DOMAIN oplog :
            /\ oplog[i].kind = "checkpoint" /\ s = [host |-> oplog[i].host, seen |-> oplog[i].state]
            /\ \A j \in DOMAIN oplog : oplog[j].kind = "checkpoint" => j <= i
    BY <1>4 DEF LastTaken
  <2> QED
    BY <1>2, <1>4, <2>1 DEF LastTaken
<1> QED
  BY <1>3, <1>4

LEMMA CutKept ==
    ASSUME PositionOK, FilesOK, OrderOK, CutOK, Pens
    PROVE  CutOK'
<1>1. SUFFICES ASSUME pc' \in Under \cup Ending, saved' # NoCheckpoint, NEW s, s = saved'
               PROVE  LastTaken(s)'
  BY DEF CutOK
<1>2. CASE Rests
  <2>1. pc' # "down"
    BY <1>1, Phases
  <2>2. oplog' = oplog /\ saved' = saved /\ pc \in Under \cup Ending
    BY <1>1, <1>2, <2>1 DEF Rests
  <2> QED
    BY <1>1, <2>2 DEF CutOK, LastTaken
<1>3. CASE Start \/ Resume
  <2>1. pc' \in Waiting
    BY <1>3 DEF Start, Resume, Waiting
  <2> QED
    BY <1>1, <2>1, Phases
<1>4. CASE Exits
  <2>1. PICK e : Adds(e) /\ e.kind = "exit"
    BY <1>4, ExitAdds
  <2>2. LastTaken(s)
    BY <1>1, <1>4, Phases DEF Exits, CutOK
  <2> QED
    BY <2>1, <2>2, LastStays DEF Adds
<1>5. ASSUME NEW e, AddsLine(e) PROVE LastTaken(s)'
  <2>1. IF e.kind = "checkpoint" THEN s = [host |-> e.host, seen |-> e.state] ELSE LastTaken(s)
    BY <1>1, <1>5 DEF AddsLine, CutOK
  <2> QED
    BY <1>5, <2>1, LastStays DEF AddsLine
<1>6. ASSUME NEW r, Creates(r) PROVE LastTaken(s)'
  <2>1. PICK e : Adds(e) /\ e.kind = "creation"
    BY <1>6, CreateAdds
  <2>2. s = saved /\ saved # NoCheckpoint
    BY <1>1, <1>6 DEF Creates
  <2>3. pc \notin Waiting
    BY <2>2, Phases DEF OrderOK, PlaceOK
  <2>4. pc \in Ending
    BY <1>6, <2>3 DEF Creates, Ending
  <2>5. LastTaken(s)
    BY <2>2, <2>4 DEF CutOK
  <2> QED
    BY <2>1, <2>5, LastStays DEF Adds
<1> QED
  BY <1>2, <1>3, <1>4, <1>5, <1>6 DEF Pens

\* The checkpoint that is published is the one the process holds.
LEMMA HoldsPublished ==
    ASSUME OrderOK, CheckpointOK, SavedOK(Commits), route > 1 \/ pc \in Ending \ {"publish"}
    PROVE  saved = published
<1>1. PICK p : LastCut(p, Len(Program[1])) /\ TakenIn(Commits, saved, p)
  BY DEF SavedOK
<1>2. PICK q : LastCut(q, Len(Program[1])) /\ TakenIn(Commits, published, q)
  BY DEF CheckpointOK, BeyondOK, PublishedOK
<1>3. p = q
  BY <1>1, <1>2, OneCut, FirstLength
<1>4. JournalOK(Intents, Commits)
  BY DEF OrderOK
<1>5. saved.seen = published.seen
  BY <1>1, <1>2, <1>3, <1>4, ToldTheSame DEF TakenIn
<1> QED
  BY <1>1, <1>2, <1>3, <1>5 DEF TakenIn

LEMMA RestoredKept ==
    ASSUME PositionOK, FilesOK, OrderOK, CheckpointOK, SavedOK(Commits), RestoredOK, Pens,
           published # NoCheckpoint => published' = published
    PROVE  RestoredOK'
<1>0. Len(oplog) \in Nat /\ DOMAIN oplog = 1 .. Len(oplog) /\ Recovered \in Nat /\ Recovered > 1
      /\ 1 # Recovered /\ Recovered <= ForkRoute /\ Recovered \in 1 .. ForkRoute
  BY JournalIs, Constants, ScenarioAssumption DEF Recovered, ForkRoute
<1>1. ASSUME NEW i \in DOMAIN oplog, oplog[i].kind = "creation"
      PROVE  oplog[i].host = IF oplog[i].route = Recovered THEN published'.host ELSE Start0
  <2>1. oplog[i].host = IF oplog[i].route = Recovered THEN published.host ELSE Start0
    BY <1>1 DEF RestoredOK
  <2>2. CASE oplog[i].route = Recovered
    <3>1. published # NoCheckpoint
      BY <1>0, <1>1, <2>2 DEF CheckpointOK, BeyondOK, CheckpointFirst
    <3> QED
      BY <2>1, <3>1
  <2> QED
    BY <2>1, <2>2
<1>2. CASE oplog' = oplog
  BY <1>1, <1>2 DEF RestoredOK
<1>3. ASSUME NEW e, oplog' = Append(oplog, e),
             e.kind = "creation" => e.host = IF e.route = Recovered THEN published'.host ELSE Start0
      PROVE  RestoredOK'
  <2>1. ASSUME NEW i \in DOMAIN oplog', oplog'[i].kind = "creation"
        PROVE  oplog'[i].host = IF oplog'[i].route = Recovered THEN published'.host ELSE Start0
    <3>1. (i \in DOMAIN oplog /\ oplog'[i] = oplog[i]) \/ oplog'[i] = e
      BY <1>3, <2>1, JournalGrows
    <3> QED
      BY <1>1, <1>3, <2>1, <3>1
  <2> QED
    BY <2>1 DEF RestoredOK
<1>4. CASE Resume
  <2>1. PICK e : e = [kind |-> "resume", route |-> 1]
    OBVIOUS
  <2> QED
    BY <1>3, <1>4, <2>1 DEF Resume
<1>5. ASSUME NEW e, AddsLine(e) PROVE RestoredOK'
  BY <1>3, <1>5 DEF AddsLine
<1>6. CASE Exits
  BY <1>3, <1>6, ExitAdds DEF Adds
<1>7. ASSUME NEW r, Creates(r) PROVE RestoredOK'
  <2>1. PICK e : /\ Adds(e) /\ e.kind = "creation" /\ e.route = r
                 /\ e.host = IF r = Recovered THEN saved.host ELSE Start0
    BY <1>7, CreateAdds
  <2>2. CASE r = Recovered
    <3>1. pc = "next"
      BY <1>0, <1>7, <2>2 DEF Creates
    <3>2. saved = published /\ published # NoCheckpoint
      BY <3>1, HoldsPublished DEF Ending, CheckpointOK, BeyondOK
    <3>3. published' = published
      BY <3>2
    <3> QED
      BY <1>3, <2>1, <2>2, <3>2, <3>3 DEF Adds
  <2> QED
    BY <1>3, <2>1, <2>2 DEF Adds
<1> QED
  BY <1>2, <1>4, <1>5, <1>6, <1>7 DEF Pens, Rests, Start, files

\* Who resumed in the parent route resumed there before.
LEMMA CleanBefore ==
    ASSUME FilesOK, Clean', oplog' = oplog \/ \E e : oplog' = Append(oplog, e)
    PROVE  Clean
<1>1. ASSUME NEW i \in DOMAIN oplog, oplog[i].kind = "resume" PROVE ResumedInParent(i)
  <2>1. i \in DOMAIN oplog' /\ oplog'[i] = oplog[i] /\ (i > 1 => oplog'[i - 1] = oplog[i - 1])
    <3>1. DOMAIN oplog = 1 .. Len(oplog) /\ Len(oplog) \in Nat
      BY JournalIs
    <3>2. i \in 1 .. Len(oplog) /\ (i > 1 => i - 1 \in 1 .. Len(oplog))
      BY <3>1
    <3>3. CASE oplog' = oplog
      BY <3>3
    <3>4. ASSUME NEW e, oplog' = Append(oplog, e)
          PROVE  i \in DOMAIN oplog' /\ oplog'[i] = oplog[i] /\ (i > 1 => oplog'[i - 1] = oplog[i - 1])
      <4>1. /\ DOMAIN oplog' = 1 .. Len(oplog) + 1 /\ Len(oplog) \in Nat
            /\ \A j \in 1 .. Len(oplog) : oplog'[j] = oplog[j]
        BY <3>4, JournalGrows
      <4>2. i \in DOMAIN oplog' /\ oplog'[i] = oplog[i]
        BY <3>2, <4>1
      <4>3. i > 1 => oplog'[i - 1] = oplog[i - 1]
        BY <3>2, <4>1
      <4> QED
        BY <4>2, <4>3
    <3> QED
      BY <3>3, <3>4
  <2>2. ResumedInParent(i)'
    BY <1>1, <2>1 DEF Clean
  <2> QED
    BY <2>1, <2>2 DEF ResumedInParent
<1> QED
  BY <1>1 DEF Clean

LEMMA PastKept ==
    ASSUME PositionOK, FilesOK, LinesTyped, MarksOK, OrderedOK, Pens, PastOK
    PROVE  PastOK'
<1>0. /\ Len(oplog) \in Nat /\ DOMAIN oplog = 1 .. Len(oplog) /\ resumedAt \in 0 .. Len(oplog)
  BY JournalIs
<1>1. SUFFICES ASSUME Clean', NEW i \in DOMAIN oplog', i <= resumedAt'
               PROVE  oplog'[i].route = 1 /\ oplog'[i].kind # "exit"
  BY DEF PastOK
<1>2. CASE resumedAt' = resumedAt /\ (oplog' = oplog \/ \E e : oplog' = Append(oplog, e))
  <2>1. Clean
    BY <1>1, <1>2, CleanBefore
  <2>2. i \in DOMAIN oplog /\ oplog'[i] = oplog[i]
    BY <1>0, <1>1, <1>2, JournalGrows
  <2> QED
    BY <1>1, <1>2, <2>1, <2>2 DEF PastOK
<1>3. CASE Start
  BY <1>0, <1>1, <1>3 DEF Start, files, MarksOK
<1>4. CASE Resume
  <2>1. PICK e : e = [kind |-> "resume", route |-> 1]
    OBVIOUS
  <2>2. PICK n : n = Len(oplog) + 1
    OBVIOUS
  <2>3. /\ DOMAIN oplog' = 1 .. n /\ oplog'[n] = e /\ e.kind = "resume" /\ resumedAt' = Len(oplog)
        /\ \A j \in 1 .. Len(oplog) : oplog'[j] = oplog[j]
        /\ oplog' = Append(oplog, e)
    BY <1>4, <2>1, <2>2, JournalGrows DEF Resume
  <2>4. Clean
    BY <1>1, <2>3, CleanBefore
  <2>5. i \in DOMAIN oplog /\ oplog'[i] = oplog[i] /\ n \in DOMAIN oplog' /\ n - 1 = Len(oplog)
    BY <1>0, <1>1, <2>2, <2>3
  <2>6. ResumedInParent(n)'
    BY <1>1, <2>3, <2>5 DEF Clean
  <2>7. PICK l : l = Len(oplog)
    OBVIOUS
  <2>8. /\ l \in DOMAIN oplog /\ oplog[l].route = 1 /\ oplog[l].kind \notin {"resume", "exit"} /\ i <= l
        /\ l \in Nat /\ i \in Nat
    <3>1. n > 1 /\ oplog'[n - 1].route = 1 /\ oplog'[n - 1].kind \notin {"resume", "exit"}
      BY <2>6 DEF ResumedInParent
    <3>2. l \in 1 .. Len(oplog) /\ n - 1 = l /\ oplog'[l] = oplog[l]
      <4>1. l \in 1 .. Len(oplog) /\ n - 1 = l
        BY <1>0, <2>2, <2>7, <3>1
      <4> QED
        BY <2>3, <4>1
    <3>3. oplog'[n - 1] = oplog[l]
      BY <3>2
    <3> QED
      BY <1>0, <1>1, <2>3, <2>7, <3>1, <3>2, <3>3
  <2>9. l > resumedAt
    BY <1>0, <2>7, <2>8 DEF MarksOK
  <2>10. CASE i <= resumedAt
    BY <2>4, <2>5, <2>10 DEF PastOK
  <2>11. CASE i > resumedAt /\ oplog[i].kind = "resume"
    BY <2>5, <2>11 DEF LinesTyped, LineOK
  <2>12. CASE i > resumedAt /\ oplog[i].kind # "resume"
    <3>1. i \in OwnLines /\ l \in OwnLines
      BY <2>5, <2>8, <2>9, <2>12 DEF OwnLines
    <3>2. CASE i = l
      BY <2>5, <2>8, <3>2
    <3>3. CASE i < l
      <4>1. oplog[i].route <= 1 /\ (oplog[i].route = 1 => oplog[i].kind # "exit")
        BY <2>8, <3>1, <3>3 DEF OrderedOK
      <4>2. oplog[i].route \in 1 .. ForkRoute /\ ForkRoute \in Nat
        BY <3>1, OwnTyped, Constants
      <4>3. oplog[i].route = 1
        BY <4>1, <4>2
      <4> QED
        BY <2>5, <4>1, <4>3
    <3> QED
      BY <2>8, <3>2, <3>3
  <2> QED
    BY <1>0, <2>8, <2>10, <2>11, <2>12
<1> QED
  BY <1>2, <1>3, <1>4, PensWrite DEF Adds

\* What the verifier asks of every line holds of it when it is written, and from then on.
LEMMA EffectsKept ==
    ASSUME PositionOK, FilesOK, Pens, Effects
    PROVE  Effects'
<1>0. Len(oplog) \in Nat /\ DOMAIN oplog = 1 .. Len(oplog)
  BY JournalIs
<1>1. ASSUME NEW e, oplog' = Append(oplog, e),
             e.kind \in {"intent", "reissue", "commit", "result"} => Backed(e)
      PROVE  Effects'
  <2>1. PICK n : n = Len(oplog) + 1
    OBVIOUS
  <2>2. /\ DOMAIN oplog' = 1 .. n /\ oplog'[n] = e
        /\ \A i \in 1 .. Len(oplog) : oplog'[i] = oplog[i]
    BY <1>1, <2>1, JournalGrows
  <2>3. ASSUME NEW i \in 1 .. Len(oplog) PROVE EffectInOrder(i)'
    <3>1. EffectInOrder(i)
      BY <1>0 DEF Effects
    <3>2. \A j \in 1 .. i : oplog'[j] = oplog[j]
      BY <1>0, <2>2
    <3>3. \A kind : PriorOf(i, kind)' = PriorOf(i, kind) /\ PriorOf(i, kind) \subseteq 1 .. i
      BY <1>0, <3>2 DEF PriorOf
    <3>4. oplog'[i] = oplog[i]
      BY <2>2
    <3> QED
      BY <3>1, <3>2, <3>3, <3>4 DEF EffectInOrder, Journaled, SameFields
  <2>4. EffectInOrder(n)'
    <3>1. \A kind : PriorOf(n, kind)' = {j \in DOMAIN oplog : oplog[j].kind = kind /\ oplog[j].key = e.key}
      BY <1>0, <2>1, <2>2 DEF PriorOf
    <3>2. \A kind : \A j \in PriorOf(n, kind)' : oplog'[j] = oplog[j] /\ oplog[j].key = e.key
                                                /\ oplog[j] \in Entries(kind)
      BY <1>0, <2>2, <3>1 DEF Entries
    <3>3. \A kind : \A c \in Entries(kind) : c.key = e.key => \E j \in PriorOf(n, kind)' : oplog'[j] = c
      BY <1>0, <2>2, <3>1 DEF Entries
    <3>4. CASE e.kind = "intent"
      BY <1>1, <2>2, <3>2, <3>4 DEF EffectInOrder, Backed, Has, Intents, Commits
    <3>5. CASE e.kind \in {"reissue", "commit"}
      <4>1. PICK c \in Entries("intent") : SameFields(c, e)
        BY <1>1, <3>5 DEF Backed, Intents
      <4>2. PICK j \in PriorOf(n, "intent")' : oplog'[j] = c
        BY <3>3, <4>1 DEF SameFields
      <4>3. PriorOf(n, "commit")' = {}
        BY <1>1, <3>2, <3>5 DEF Backed, Has, Commits
      <4>4. Journaled(n)'
        BY <2>2, <4>1, <4>2, <4>3 DEF Journaled, SameFields
      <4> QED
        BY <2>2, <3>5, <4>4 DEF EffectInOrder
    <3>6. CASE e.kind = "result"
      <4>1. PICK c \in Entries("commit") : c.key = e.key /\ c.result = e.result
        BY <1>1, <3>6 DEF Backed, Commits
      <4>2. PICK j \in PriorOf(n, "commit")' : oplog'[j] = c
        BY <3>3, <4>1
      <4> QED
        BY <2>2, <3>6, <4>1, <4>2 DEF EffectInOrder
    <3>7. CASE e.kind \notin {"intent", "reissue", "commit", "result"}
      BY <2>2, <3>7 DEF EffectInOrder
    <3> QED
      BY <3>4, <3>5, <3>6, <3>7
  <2> QED
    BY <1>0, <2>1, <2>2, <2>3, <2>4 DEF Effects
<1>2. CASE oplog' = oplog
  BY <1>2 DEF Effects, EffectInOrder, Journaled, PriorOf, SameFields
<1>3. CASE Resume
  <2>1. PICK e : e = [kind |-> "resume", route |-> 1]
    OBVIOUS
  <2> QED
    BY <1>1, <1>3, <2>1 DEF Resume
<1>4. ASSUME NEW e, AddsLine(e) PROVE Effects'
  BY <1>1, <1>4 DEF AddsLine
<1>5. CASE Exits
  BY <1>1, <1>5, ExitAdds DEF Adds
<1>6. ASSUME NEW r, Creates(r) PROVE Effects'
  BY <1>1, <1>6, CreateAdds DEF Adds
<1> QED
  BY <1>2, <1>3, <1>4, <1>5, <1>6 DEF Pens, Rests, Start, files

\* What a route that begins has behind it, the process had.
LEMMA BehindBefore ==
    ASSUME PositionOK, PlaceOK, NEW r, BeginsRoute(r), NEW k, IsBehind(k, r, 1)
    PROVE  IsBehind(k, route, at)
<1>0. route \in 1 .. ForkRoute /\ route \in Nat /\ ForkRoute \in Nat
  BY Constants DEF PositionOK
<1>1. PICK q, b : Records(q, b) /\ k = KeyAt(q, b) /\ ((q = r /\ b < 1) \/ (q = 1 /\ r > 1))
  BY DEF IsBehind
<1>2. q \in 1 .. ForkRoute /\ b \in 1 .. Len(Program[q]) /\ Len(Program[q]) \in Nat
      /\ Program[q][b].do = "effect"
  <2>1. q \in 1 .. ForkRoute
    BY <1>1, Constants DEF Records
  <2> QED
    BY <1>1, <2>1, RouteIsSeq DEF Records
<1>3. q = 1 /\ r > 1
  BY <1>1, <1>2
<1>4. r = route + 1 /\ pc = "next"
  BY <1>0, <1>3 DEF BeginsRoute
<1>5. at = Len(Program[route]) /\ Op.do = "exit"
  BY <1>4, Here, HomePlaces DEF PlaceOK
<1>6. CASE route = 1
  <2>1. b # at
    BY <1>2, <1>3, <1>5, <1>6 DEF Op
  <2>2. b < at
    BY <1>2, <1>3, <1>5, <1>6, <2>1
  <2> QED
    BY <1>1, <1>3, <1>6, <2>2 DEF IsBehind
<1>7. CASE route # 1
  <2>1. route > 1
    BY <1>0, <1>7
  <2> QED
    BY <1>1, <1>3, <2>1 DEF IsBehind
<1> QED
  BY <1>6, <1>7

LEMMA DeliveredKept ==
    ASSUME PositionOK, FilesOK, OrderOK, Moves, Pens, DeliveredOK
    PROVE  DeliveredOK'
<1>1. Entries("result") \subseteq Entries("result")'
  BY PensWrite, SameEntries, EntriesGrow DEF Adds, Start, files, Resume
<1>2. at \in Nat /\ PlaceOK
  BY Here DEF OrderOK
<1>3. ASSUME NEW k, IsBehind(k, route', at')
      PROVE  IsBehind(k, route, at) \/ Has(Entries("result")', k)
  <2>1. CASE Waits \/ Intends \/ CommitsIt \/ Asks \/ Publishes
    <3>1. route' = route /\ at' = at
      BY <2>1 DEF Waits, SamePlace, Intends, CommitsIt, Asks, Publishes
    <3> QED
      BY <1>3, <3>1
  <2>2. CASE GoesHome
    BY <1>3, <2>2, NothingBehind DEF GoesHome
  <2>3. ASSUME NEW r, BeginsRoute(r) PROVE IsBehind(k, route, at)
    <3>1. IsBehind(k, r, 1)
      BY <1>3, <2>3, RouteBegins
    <3> QED
      BY <1>2, <2>3, <3>1, BehindBefore
  <2>4. CASE Finishes \/ Snaps
    <3>1. route' = route /\ at' = at + 1 /\ Op.do # "effect"
      BY <2>4 DEF Finishes, Snaps
    <3>2. ~Records(route, at)
      BY <3>1 DEF Records, Op
    <3> QED
      BY <1>2, <1>3, <3>1, <3>2, NextBehind
  <2>5. ASSUME NEW c, Delivers(c) PROVE IsBehind(k, route, at) \/ Has(Entries("result")', k)
    <3>1. route' = route /\ at' = at + 1 /\ at' # at /\ pc \in InEffect /\ pc' = "op" /\ pc # "op"
      BY <1>2, <2>5 DEF Delivers, InEffect
    <3>2. CASE Records(route, at) /\ k = KeyAt(route, at)
      <4>1. Op.mode = "record" /\ Op.do = "effect"
        BY <3>2 DEF Records, Op
      <4>2. k = Current.key
        BY <1>2, <3>1, <3>2, <4>1, RecordedHere
      <4>3. ~Rests /\ ~Exits /\ ~Start /\ ~Resume /\ \A r : ~Creates(r)
        <5>1. pc \notin {"down", "op", "next"} \cup Waiting /\ pc' # "down"
          BY <2>5 DEF Delivers, Waiting
        <5> QED
          BY <3>1, <5>1 DEF Rests, Exits, Start, Resume, Creates
      <4>4. PICK e : AddsLine(e)
        BY <4>3 DEF Pens
      <4>5. e.kind = "result" /\ e.key = Current.key /\ oplog' = Append(oplog, e)
        BY <3>1, <4>1, <4>4 DEF AddsLine
      <4>6. e \in Entries("result")'
        BY <4>5, EntriesGrow
      <4> QED
        BY <4>2, <4>5, <4>6 DEF Has
    <3> QED
      BY <1>2, <1>3, <3>1, <3>2, NextBehind
  <2> QED
    BY <2>1, <2>2, <2>3, <2>4, <2>5 DEF Moves
<1>4. ASSUME NEW k, IsBehind(k, route', at') PROVE Has(Entries("result")', k)
  BY <1>1, <1>3, <1>4 DEF DeliveredOK, Has
<1> QED
  BY <1>4 DEF DeliveredOK, Has

\* A line of a later route lies behind the exit from the first, in the same process.
PassedOK ==
    \A i \in DOMAIN oplog : oplog[i].route # 1 =>
        \E j \in DOMAIN oplog :
            /\ j < i /\ oplog[j].kind = "exit" /\ oplog[j].route = 1
            /\ \A n \in DOMAIN oplog : oplog[n].kind = "resume" => n < j \/ i < n

\* A run that is complete is not taken up again.
CompleteOK == runState = "complete" => pc \in {"report", "done"} \/ (pc = "down" /\ runs # 0)

LEMMA LaterRoutesPassed ==
    ASSUME PositionOK, FilesOK, CurrentOK, Pens, NEW e, oplog' = Append(oplog, e), ~Resume,
           Adds(e), e.route # 1
    PROVE  OwnOf("exit", 1) # {}
<1>0. route \in 1 .. ForkRoute /\ 1 \in 1 .. ForkRoute /\ ForkRoute \in Nat
  BY Constants DEF PositionOK
<1>1. ASSUME pc \in Under \cup Ending, route # 1 PROVE OwnOf("exit", 1) # {}
  <2>1. 1 \in 1 .. route - 1
    BY <1>0, <1>1
  <2> QED
    BY <1>1, <2>1 DEF CurrentOK, MidwayAt
<1>2. CASE pc \in Under /\ route' = route
  BY <1>1, <1>2 DEF Adds
<1>3. ASSUME NEW r, Creates(r) PROVE OwnOf("exit", 1) # {}
  <2>1. r # 1
    BY <1>3, CreateAdds DEF Adds, Creates, Begin
  <2>2. pc = "next" /\ pc \in Ending
    BY <1>3, <2>1 DEF Creates, Ending
  <2>3. OwnOf("exit", route) # {}
    BY <2>2 DEF CurrentOK
  <2> QED
    BY <1>1, <2>2, <2>3
<1>4. ASSUME oplog' = oplog PROVE FALSE
  <2>1. Len(oplog') = Len(oplog) + 1 /\ Len(oplog) \in Nat
    BY JournalGrows
  <2>2. Len(oplog') = Len(oplog)
    BY <1>4
  <2> QED
    BY <2>1, <2>2
<1> QED
  BY <1>2, <1>3, <1>4, Phases DEF Pens, Exits, AddsLine, Rests, Start, files

LEMMA PassedKept ==
    ASSUME PositionOK, FilesOK, LinesTyped, MarksOK, CurrentOK, Pens, PassedOK
    PROVE  PassedOK'
<1>0. Len(oplog) \in Nat /\ DOMAIN oplog = 1 .. Len(oplog) /\ resumedAt \in 0 .. Len(oplog)
  BY JournalIs
<1>1. ASSUME NEW e, oplog' = Append(oplog, e),
             e.route # 1 => e.kind # "resume" /\ OwnOf("exit", 1) # {}
      PROVE  PassedOK'
  <2>1. PICK n : n = Len(oplog) + 1
    OBVIOUS
  <2>2. /\ DOMAIN oplog' = 1 .. n /\ oplog'[n] = e
        /\ \A i \in 1 .. Len(oplog) : oplog'[i] = oplog[i]
    BY <1>1, <2>1, JournalGrows
  <2>3. ASSUME NEW i \in DOMAIN oplog', oplog'[i].route # 1
        PROVE  \E j \in DOMAIN oplog' :
                   /\ j < i /\ oplog'[j].kind = "exit" /\ oplog'[j].route = 1
                   /\ \A m \in DOMAIN oplog' : oplog'[m].kind = "resume" => m < j \/ i < m
    <3>1. CASE i = n
      <4>1. e.kind # "resume" /\ OwnOf("exit", 1) # {}
        BY <1>1, <2>2, <2>3, <3>1
      <4>2. PICK j \in OwnOf("exit", 1) : TRUE
        BY <4>1
      <4>3. j \in 1 .. Len(oplog) /\ j > resumedAt /\ oplog[j].kind = "exit" /\ oplog[j].route = 1
        BY <1>0 DEF OwnOf, OwnLines
      <4>4. j \in DOMAIN oplog' /\ j < i /\ oplog'[j] = oplog[j]
        BY <1>0, <2>1, <2>2, <3>1, <4>3
      <4>5. ASSUME NEW m \in DOMAIN oplog', oplog'[m].kind = "resume" PROVE m < j
        <5>1. m \in 1 .. Len(oplog)
          BY <1>0, <2>1, <2>2, <4>1, <4>5
        <5>2. oplog[m].kind = "resume"
          BY <2>2, <4>5, <5>1
        <5>3. m > resumedAt => m = resumedAt + 1
          BY <1>0, <5>1, <5>2 DEF MarksOK
        <5>4. m # j
          BY <4>3, <5>2
        <5> QED
          BY <1>0, <4>3, <5>1, <5>3, <5>4
      <4> QED
        BY <4>3, <4>4, <4>5
    <3>2. CASE i # n
      <4>1. i \in 1 .. Len(oplog) /\ i < n
        BY <1>0, <2>1, <2>2, <3>2
      <4>2. oplog'[i] = oplog[i]
        BY <2>2, <4>1
      <4>3. PICK j \in DOMAIN oplog : /\ j < i /\ oplog[j].kind = "exit" /\ oplog[j].route = 1
                        /\ \A m \in DOMAIN oplog : oplog[m].kind = "resume" => m < j \/ i < m
        BY <1>0, <2>3, <4>1, <4>2 DEF PassedOK
      <4>4. j \in DOMAIN oplog' /\ oplog'[j] = oplog[j]
        BY <1>0, <2>1, <2>2
      <4>5. ASSUME NEW m \in DOMAIN oplog', oplog'[m].kind = "resume" PROVE m < j \/ i < m
        <5>1. m = n \/ m \in 1 .. Len(oplog)
          BY <1>0, <2>1, <2>2
        <5>2. CASE m \in 1 .. Len(oplog)
          <6>1. oplog'[m] = oplog[m]
            BY <2>2, <5>2
          <6> QED
            BY <1>0, <4>3, <4>5, <5>2, <6>1
        <5> QED
          BY <4>1, <5>1, <5>2
      <4> QED
        BY <4>3, <4>4, <4>5
    <3> QED
      BY <3>1, <3>2
  <2> QED
    BY <2>3 DEF PassedOK
<1>2. CASE oplog' = oplog
  BY <1>2 DEF PassedOK
<1>3. CASE Resume
  <2>1. PICK e : e = [kind |-> "resume", route |-> 1]
    OBVIOUS
  <2> QED
    BY <1>1, <1>3, <2>1 DEF Resume
<1>4. ASSUME NEW e, Adds(e), ~Resume PROVE PassedOK'
  <2>1. e.route # 1 => OwnOf("exit", 1) # {}
    BY <1>4, LaterRoutesPassed DEF Adds
  <2> QED
    BY <1>1, <1>4, <2>1 DEF Adds
<1> QED
  BY <1>2, <1>3, <1>4, PensWrite DEF Start, files

-----------------------------------------------------------------------------
\* The ends of a run.

\* How the executor comes to the places that concern the provider's life.
LEMMA Comings ==
    ASSUME ExecutorStep
    PROVE  /\ pc \notin {"down", "done"}
           /\ pc' = "wait" => EnsureSpawns
           /\ pc' = "spawn" => Ensure /\ ~Connectable
           /\ pc' = "stopping" => StopProvider /\ Connectable
           /\ pc' = "seal" => ProviderStopped \/ (StopProvider /\ ~Connectable)
           /\ pc' = "report" => pc = "seal"
           /\ pc' = "done" => pc = "report"
           /\ pc = "report" => pc' = "done"
           /\ pc = "wait" => EnsureSucceeds \/ EnsureTimesOut
           /\ pc = "spawn" => EnsureSpawns
           /\ runState' = "complete" => runState = "complete" \/ (pc = "seal" /\ pc' = "report")
<1> USE DEF position, files, bookkeeping
<1>1. CASE WriteRunState \/ Ensure \/ EnsureSpawns \/ EnsureSucceeds \/ EnsureTimesOut
  BY <1>1 DEF WriteRunState, Ensure, EnsureSpawns, EnsureSucceeds, EnsureTimesOut, Begin, GiveUp
<1>2. CASE AskEffect \/ JournalIntent \/ CallProvider
  BY <1>2 DEF AskEffect, Reaches, Write, JournalIntent, CallProvider, GiveUp
<1>3. CASE FromJournal
  <2>1. PICK c \in CommitsOf(Current.key) :
            IF Matches(c)
            THEN DeliverResult(c.result, "journal")
            ELSE GiveUp("journal mismatch") /\ UNCHANGED <<faults, providerVars>>
    BY <1>3 DEF FromJournal
  <2>2. pc = "asked"
    BY <1>3 DEF FromJournal
  <2> QED
    BY <2>1, <2>2 DEF DeliverResult, GiveUp, Write
<1>4. CASE Reissue
  <2>1. PICK i \in DanglingOf(Current.key) :
          IF Op.mode = "record" /\ Matches(i)
          THEN /\ Write(EffectLine("reissue"))
               /\ pc' = "intended"
               /\ UNCHANGED <<position, bookkeeping>>
          ELSE /\ GiveUp(IF Op.mode = "record" THEN "reissue differs"
                         ELSE "missing committed effect")
               /\ UNCHANGED faults
    BY <1>4 DEF Reissue
  <2>2. pc = "asked"
    BY <1>4 DEF Reissue
  <2> QED
    BY <2>1, <2>2 DEF GiveUp, Write
<1>5. CASE ProviderReplies \/ ProviderHangsUp \/ JournalCommit \/ DeliverFromProvider
  BY <1>5 DEF ProviderReplies, ProviderHangsUp, JournalCommit, DeliverFromProvider, GiveUp, Write
<1>6. CASE FinishEvent \/ TakeCheckpoint \/ ExitRoute
  BY <1>6 DEF FinishEvent, TakeCheckpoint, ExitRoute, Reaches, Write
<1>7. CASE PublishCheckpoint \/ NextRoute
  BY <1>7 DEF PublishCheckpoint, NextRoute, GiveUp, Begin
<1>8. CASE StopProvider \/ ProviderStopped \/ Seal \/ Report
  BY <1>8 DEF StopProvider, ProviderStopped, Seal, Report, GiveUp
<1> QED
  BY <1>1, <1>2, <1>3, <1>4, <1>5, <1>6, <1>7, <1>8 DEF ExecutorStep

LEMMA CompleteKept ==
    ASSUME FilesOK, [Next]_vars, CompleteOK
    PROVE  CompleteOK'
<1> USE DEF position, files, bookkeeping, executorVars
<1>1. CASE ExecutorStep
  BY <1>1, Comings DEF CompleteOK
<1>2. CASE Start \/ Resume
  BY <1>2 DEF Start, Resume, CompleteOK
<1>3. CASE ExecutorDies
  BY <1>3 DEF ExecutorDies, CompleteOK, FilesOK
<1>4. ASSUME NEW p \in Providers, ProviderStep(p) \/ ProviderKilled(p) PROVE CompleteOK'
  BY <1>4 DEF ProviderStep, ProviderKilled, CompleteOK
<1>5. CASE UNCHANGED vars
  BY <1>5 DEF vars, CompleteOK
<1> QED
  BY <1>1, <1>2, <1>3, <1>4, <1>5 DEF Next

LEMMA CommittedKept ==
    ASSUME PositionOK, OrderOK, Moves, CommittedOK
    PROVE  CommittedOK'
<1>1. SUFFICES ASSUME pc' = "committed" PROVE Op'.mode = "record"
  BY DEF CommittedOK
<1>2. CASE Waits
  <2>1. pc = "committed" /\ Op' = Op
    BY <1>1, <1>2 DEF Waits, SamePlace, Op
  <2> QED
    BY <2>1 DEF CommittedOK
<1>3. CASE CommitsIt
  <2>1. pc \in Asking /\ Op' = Op
    BY <1>3 DEF CommitsIt, SamePlace, Op, Asking
  <2> QED
    BY <2>1 DEF OrderOK, ProgressOK
<1> QED
  BY <1>1, <1>2, <1>3 DEF Moves, GoesHome, BeginsRoute, Begin, Asks, Delivers, Intends, Finishes,
     Snaps, Publishes

-----------------------------------------------------------------------------
\* The provider's log.

LEMMA DuplicatesKept ==
    ASSUME IInv, [Next]_vars, DuplicatesOK
    PROVE  DuplicatesOK'
<1>0. ProviderOK /\ Len(plog) \in Nat /\ DOMAIN plog = 1 .. Len(plog)
  BY ExecutionsAre DEF IInv, ProviderOK
<1>1. CASE plog' = plog
  BY <1>1, SameLog DEF DuplicatesOK, Bounds, Bound
<1>2. ASSUME NEW line, plog' = Append(plog, line),
             line.status = "duplicate" => Bound(line) \in Bounds
      PROVE  DuplicatesOK'
  <2>1. Longer(plog, line, plog')
    BY <1>0, <1>2, LogGrows DEF ProviderOK
  <2>2. \A i \in Executions : i \in Executions' /\ plog'[i] = plog[i]
    BY <2>1 DEF Executions, Longer
  <2>3. Bounds \subseteq Bounds'
    BY <2>2 DEF Bounds
  <2>4. ASSUME NEW i \in DOMAIN plog', plog'[i].status = "duplicate"
        PROVE  Bound(plog'[i]) \in Bounds
    <3>1. plog'[i] = line \/ (i \in DOMAIN plog /\ plog'[i] = plog[i])
      BY <1>0, <2>1 DEF Longer
    <3> QED
      BY <1>2, <2>4, <3>1 DEF DuplicatesOK
  <2> QED
    BY <2>3, <2>4 DEF DuplicatesOK
<1>3. ASSUME NEW p \in Providers, ProviderStep(p) PROVE DuplicatesOK'
  <2>1. UNCHANGED executorVars
    BY <1>3 DEF ProviderStep
  <2>2. CASE Bind(p) \/ Rebuild(p)
    BY <1>1, <2>2 DEF Bind, Rebuild
  <2>3. CASE Announce(p)
    <3>1. plog' = Append(plog, MarkLine(p, "start")) /\ MarkLine(p, "start").status = "start"
      BY <2>3, MarkLineIs DEF Announce, Mark, Record, MarkLine
    <3> QED
      BY <1>2, <3>1
  <2>4. CASE Serve(p)
    <3>1. Served(p, Head(prov[p].backlog)) /\ prov[p].st = "serving"
      BY <1>0, <2>1, <2>4, ServeKept DEF Serve
    <3>2. PICK r : r = Head(prov[p].backlog)
      OBVIOUS
    <3>3. CASE Shutdown(p, r)
      <4>1. plog' = Append(plog, MarkLine(p, "shutdown")) /\ MarkLine(p, "shutdown").status = "shutdown"
        BY <3>3, MarkLineIs DEF Shutdown, Mark, Record, MarkLine
      <4> QED
        BY <1>2, <4>1
    <3>4. ASSUME NEW status, NEW result, Logged(p, r, status, result),
                 status = "duplicate" => \E b \in prov[p].executed :
                     b.key = r.key /\ b.name = r.name /\ b.request = r.request /\ b.result = result
          PROVE  DuplicatesOK'
      <4>1. PICK line : line = ReplyLine(p, r, status, result)
        OBVIOUS
      <4>2. /\ plog' = Append(plog, line) /\ line.status = status /\ line.key = r.key
            /\ line.name = r.name /\ line.request = r.request /\ line.result = result
        <5>1. plog' = Append(plog, line)
          BY <3>4, <4>1, LoggedIs
        <5>2. IsReplyLine(line, p, r, status, result)
          BY <4>1, ReplyLineIs
        <5> QED
          BY <5>1, <5>2 DEF IsReplyLine
      <4>3. ASSUME status = "duplicate" PROVE Bound(line) \in Bounds
        <5>1. PICK b \in prov[p].executed :
                  b.key = r.key /\ b.name = r.name /\ b.request = r.request /\ b.result = result
          BY <3>4, <4>3
        <5>2. PICK i \in Executions : b = Bound(plog[i])
          BY <1>0, <3>1, <5>1 DEF ProviderOK, MemoryOK, Knows
        <5>3. Bound(line) = Bound(plog[i])
          BY <4>2, <5>1, <5>2 DEF Bound
        <5> QED
          BY <5>3 DEF Bounds
      <4> QED
        BY <1>2, <4>2, <4>3
    <3> QED
      BY <3>1, <3>2, <3>3, <3>4 DEF Served, Answers, Performs
  <2> QED
    BY <1>3, <2>2, <2>3, <2>4 DEF ProviderStep
<1> QED
  BY <1>0, <1>1, <1>3, ExecutorLeavesLog

\* A process of the provider moves on, or ends.
Lives(p) ==
    /\ UNCHANGED <<pc, oplog, runs, runState, overlapped>>
    /\ prov[p].st # "off" /\ \A q \in Providers : q # p => prov'[q] = prov[q]
    /\ \/ prov'[p].st = "off" /\ sock' \in {sock, NoProvider}
       \/ prov[p].st = "starting"
       \/ /\ prov'[p].st \notin {"off", "starting"} /\ sock' = sock
          /\ pc = "stopping" /\ (\E i : IsOpen(p, i)) => \E i : IsOpen(p, i)'

LEMMA EndsLive ==
    ASSUME ProcessesOK, NEW p \in Providers, prov[p].st # "off", prov' = [prov EXCEPT ![p] = Off],
           sock' \in {sock, NoProvider}, UNCHANGED <<pc, oplog, runs, runState, overlapped>>
    PROVE  Lives(p)
<1>1. prov'[p].st = "off" /\ \A q \in Providers : q # p => prov'[q] = prov[q]
  BY OffIs DEF ProcessesOK, Off
<1> QED
  BY <1>1 DEF Lives

LEMMA GoesOnLives ==
    ASSUME NEW p \in Providers, prov[p].st # "off", Only(p), prov'[p].backlog = prov[p].backlog,
           prov'[p].st \notin {"off", "starting"}, sock' = sock,
           UNCHANGED <<pc, oplog, runs, runState, overlapped>>
    PROVE  Lives(p)
<1>1. \A i : IsOpen(p, i)' <=> IsOpen(p, i)
  BY DEF IsOpen
<1> QED
  BY <1>1 DEF Lives, Only

LEMMA ServingLives ==
    ASSUME IInv, NEW p \in Providers, prov[p].st = "serving", prov[p].backlog # <<>>,
           Head(prov[p].backlog).op = "effect", NEW executed, NEW consumed, NEW seq,
           Becomes(p, Process("serving", executed, consumed, seq, Tail(prov[p].backlog))),
           sock' = sock, UNCHANGED <<pc, oplog, runs, runState, overlapped>>
    PROVE  Lives(p)
<1>0. ProviderOK /\ ProcessesOK
  BY DEF IInv, ProviderOK
<1> DEFINE B == prov[p].backlog
           T == Tail(B)
<1>1. prov'[p].st = "serving" /\ prov'[p].backlog = T /\ Only(p)
  BY <1>0, BecomesIs
<1>2. Shorter(B, T) /\ Head(B) = B[1]
  BY <1>0, HeadIsCall
<1>3. ASSUME pc = "stopping", NEW i, IsOpen(p, i) PROVE \E j : IsOpen(p, j)'
  <2>1. i \in DOMAIN B /\ B[i].open /\ B[i].op = "shutdown"
    BY <1>3 DEF IsOpen, IInv, ConversationOK, CallsOK
  <2>2. i # 1
    BY <1>2, <2>1
  <2> HIDE DEF B, T
  <2>3. i - 1 \in DOMAIN T /\ T[i - 1] = B[i]
    <3>1. Len(B) \in Nat /\ DOMAIN B = 1 .. Len(B) /\ DOMAIN T = 1 .. Len(B) - 1
          /\ \A j \in 1 .. Len(B) - 1 : T[j] = B[j + 1]
      BY <1>2 DEF Shorter
    <3>2. i - 1 \in 1 .. Len(B) - 1 /\ (i - 1) + 1 = i
      BY <2>1, <2>2, <3>1
    <3> QED
      BY <3>1, <3>2
  <2>4. IsOpen(p, i - 1)'
    BY <1>1, <2>1, <2>3 DEF IsOpen
  <2> QED
    BY <2>4
<1> QED
  BY <1>1, <1>3 DEF Lives, Only

LEMMA ProcessLives ==
    ASSUME IInv, NEW p \in Providers, ProviderStep(p) \/ ProviderKilled(p)
    PROVE  Lives(p)
<1>0. ProviderOK /\ ProcessesOK
  BY DEF IInv, ProviderOK
<1>1. UNCHANGED <<pc, oplog, runs, runState, overlapped>>
  BY DEF ProviderStep, ProviderKilled, executorVars, files, bookkeeping
<1>2. prov[p] = Process(prov[p].st, prov[p].executed, prov[p].consumed, prov[p].seq, prov[p].backlog)
  BY <1>0, ProcessIs
<1>3. CASE ProviderKilled(p)
  BY <1>0, <1>1, <1>3, EndsLive DEF ProviderKilled, ProviderDies
<1>4. CASE Bind(p)
  BY <1>1, <1>4 DEF Bind, Lives
<1>5. CASE Rebuild(p)
  <2>1. CASE LogIntact
    <3> DEFINE E == {Bound(plog[i]) : i \in Executions}
               C == [n \in Names |-> Cardinality({i \in Executions : plog[i].name = n})]
    <3>1. prov' = [prov EXCEPT ![p].st = "rebuilt", ![p].executed = E, ![p].consumed = C,
                               ![p].seq = Len(plog)]
          /\ prov[p].st = "bound" /\ sock' = sock
      BY <1>5, <2>1 DEF Rebuild
    <3> HIDE DEF E, C
    <3>2. Becomes(p, Process("rebuilt", E, C, Len(plog), prov[p].backlog))
      BY <1>0, <1>2, <3>1 DEF Becomes, Only, Process, ProcessesOK
    <3>3. prov'[p].st = "rebuilt" /\ prov'[p].backlog = prov[p].backlog /\ Only(p)
      BY <1>0, <3>2, BecomesIs
    <3> QED
      BY <1>1, <3>1, <3>3, GoesOnLives
  <2>2. CASE ~LogIntact
    BY <1>0, <1>1, <1>5, <2>2, EndsLive DEF Rebuild
  <2> QED
    BY <2>1, <2>2
<1>6. CASE Announce(p)
  <2>1. prov' = [prov EXCEPT ![p].st = "serving", ![p].seq = @ + 1] /\ prov[p].st = "rebuilt"
        /\ sock' = sock
    BY <1>6 DEF Announce
  <2>2. Becomes(p, Process("serving", prov[p].executed, prov[p].consumed, prov[p].seq + 1,
                           prov[p].backlog))
    BY <1>0, <1>2, <2>1 DEF Becomes, Only, Process, ProcessesOK
  <2>3. prov'[p].st = "serving" /\ prov'[p].backlog = prov[p].backlog /\ Only(p)
    BY <1>0, <2>2, BecomesIs
  <2> QED
    BY <1>1, <2>1, <2>3, GoesOnLives
<1>7. CASE Serve(p) /\ UNCHANGED executorVars
  <2>1. PICK r : r = Head(prov[p].backlog)
    OBVIOUS
  <2>2. Served(p, r) /\ prov[p].st = "serving" /\ prov[p].backlog # <<>>
    BY <1>0, <1>7, <2>1, ServeKept DEF Serve
  <2>3. CASE r.op = "shutdown"
    BY <1>0, <1>1, <2>2, <2>3, EndsLive DEF Served, Shutdown
  <2>4. CASE r.op = "effect"
    <3>1. sock' = sock
      BY <1>7, <2>1, <2>4 DEF Serve
    <3>2. \E executed, consumed, seq :
             Becomes(p, Process("serving", executed, consumed, seq, Tail(prov[p].backlog)))
      BY <2>2, <2>4 DEF Served, Answers, Performs
    <3> QED
      BY <1>1, <2>1, <2>2, <2>4, <3>1, <3>2, ServingLives
  <2> QED
    BY <2>2, <2>3, <2>4 DEF Served
<1> QED
  BY <1>3, <1>4, <1>5, <1>6, <1>7 DEF ProviderStep

LEMMA LonelyLives ==
    ASSUME NEW p \in Providers, Lives(p), LonelyOK
    PROVE  LonelyOK'
<1>1. SUFFICES ASSUME Clean'
      PROVE  /\ ~overlapped'
             /\ pc # "wait" /\ (pc = "down" => runs = 0 \/ Begun) => Tame'
             /\ pc = "spawn" => AllOff'
             /\ pc = "stopping" => \A q \in Providers : prov'[q].st # "off" => \E i : IsOpen(q, i)'
             /\ pc \in {"seal", "report", "done"} \/ runState = "complete" => AllOff'
  BY DEF Lives, LonelyOK, Begun, IsOpen
<1>2. Clean
  BY <1>1 DEF Lives, Clean, ResumedInParent
<1>3. ~overlapped'
  BY <1>2 DEF Lives, LonelyOK
<1>4. ~AllOff
  BY DEF Lives, AllOff
<1>5. ASSUME pc # "wait" /\ (pc = "down" => runs = 0 \/ Begun) PROVE Tame'
  <2>1. Tame
    BY <1>2, <1>5 DEF LonelyOK
  <2>2. ASSUME NEW q \in Providers, prov'[q].st # "off" PROVE prov'[q].st # "starting" /\ sock' = q
    BY <2>1, <2>2 DEF Lives, Tame
  <2> QED
    BY <2>2 DEF Tame
<1>6. ASSUME pc = "stopping", NEW q \in Providers, prov'[q].st # "off" PROVE \E i : IsOpen(q, i)'
  <2>1. Tame /\ \A r \in Providers : prov[r].st # "off" => \E i : IsOpen(r, i)
    BY <1>2, <1>6 DEF LonelyOK, IsOpen
  <2> QED
    BY <1>6, <2>1 DEF Lives, Tame, IsOpen
<1> QED
  BY <1>2, <1>3, <1>4, <1>5, <1>6 DEF LonelyOK

\* The provider as the executor leaves it.
SameProvider == UNCHANGED <<prov, sock, overlapped>>

LEMMA SameProviderStays ==
    ASSUME SameProvider
    PROVE  /\ Tame' <=> Tame
           /\ AllOff' <=> AllOff
           /\ \A p, i : IsOpen(p, i)' <=> IsOpen(p, i)
  BY DEF SameProvider, Tame, AllOff, IsOpen

LEMMA NotBegun ==
    ASSUME FilesOK, MarksOK, CurrentOK, pc \in Waiting
    PROVE  ~Begun
<1>1. Len(oplog) \in Nat /\ DOMAIN oplog = 1 .. Len(oplog) /\ resumedAt \in 0 .. Len(oplog)
  BY JournalIs
<1>2. OwnLines = {}
  BY DEF CurrentOK
<1>3. SUFFICES ASSUME Begun PROVE FALSE
  OBVIOUS
<1>4. Len(oplog) # 0 /\ Len(oplog) \in DOMAIN oplog
  BY <1>1, <1>3 DEF Begun
<1>5. ~(Len(oplog) > resumedAt)
  BY <1>2, <1>3, <1>4 DEF OwnLines, Begun
<1>6. resumedAt = Len(oplog) /\ resumedAt # 0
  <2>1. PICK n : n = Len(oplog)
    OBVIOUS
  <2>2. n \in Nat /\ n # 0 /\ resumedAt \in 0 .. n /\ ~(n > resumedAt)
    BY <1>1, <1>4, <1>5, <2>1
  <2> QED
    BY <2>1, <2>2
<1> QED
  BY <1>1, <1>6 DEF MarksOK

\* Nobody who listens is alone: there is no other process.
LEMMA ConnectableIsTame ==
    ASSUME ProviderOK, ~overlapped, Connectable
    PROVE  Tame
<1>1. sock \in Providers /\ prov[sock].st \in {"bound", "rebuilt", "serving"}
  BY DEF Connectable, Listening, ProviderOK, ProcessesOK
<1>2. \A q \in Providers : prov[q].st # "off" => q = sock
  BY <1>1 DEF ProviderOK, AloneOK
<1> QED
  BY <1>1, <1>2 DEF Tame

LEMMA TameIsOff ==
    ASSUME ProcessesOK, Tame, ~Connectable
    PROVE  AllOff
<1>1. ASSUME NEW p \in Providers, prov[p].st # "off" PROVE FALSE
  <2>1. prov[p].st \in {"starting", "bound", "rebuilt", "serving"} /\ p # NoProvider
    BY <1>1, ProvidersAssumption DEF ProcessesOK, IsProcess
  <2>2. sock = p /\ prov[p].st # "starting"
    BY <1>1 DEF Tame
  <2> QED
    BY <2>1, <2>2 DEF Connectable, Listening
<1> QED
  BY <1>1 DEF AllOff

LEMMA LonelySpawns ==
    ASSUME EnsureSpawns, LonelyOK, runState = "complete" => pc \in {"report", "done", "down"},
           Clean' => Clean
    PROVE  LonelyOK'
<1>1. pc = "spawn" /\ pc' = "wait" /\ runState' = runState
      /\ overlapped' = (overlapped \/ \E q \in Providers : prov[q].st # "off")
  BY DEF EnsureSpawns, files
<1>2. Clean => AllOff /\ ~overlapped
  BY <1>1 DEF LonelyOK
<1>3. Clean' => ~overlapped'
  BY <1>1, <1>2 DEF AllOff
<1> QED
  BY <1>1, <1>3 DEF LonelyOK

LEMMA LonelySends ==
    ASSUME ProcessesOK, LonelyOK, Clean' => Clean, NEW c, sock \in Providers, Sent(sock, c),
           \/ pc = "intended" /\ pc' = "calling"
           \/ pc = "stop" /\ pc' = "stopping" /\ c = ShutdownCall(TRUE),
           runState' = runState, runState # "complete", overlapped' = overlapped
    PROVE  LonelyOK'
<1> DEFINE B == prov[sock].backlog
<1>1. /\ prov'[sock].st = prov[sock].st /\ prov'[sock].backlog = Append(B, c)
      /\ Only(sock) /\ sock' = sock
  <2>1. /\ Becomes(sock, Process(prov[sock].st, prov[sock].executed, prov[sock].consumed,
                                 prov[sock].seq, Append(B, c)))
        /\ sock' = sock
    BY DEF Sent
  <2> HIDE DEF B
  <2>2. prov'[sock].st = prov[sock].st /\ prov'[sock].backlog = Append(B, c) /\ Only(sock)
    BY <2>1 DEF Becomes, Process
  <2> QED
    BY <2>1, <2>2
<1>2. SUFFICES ASSUME Clean' PROVE LonelyOK'
  BY DEF LonelyOK
<1>3. Tame /\ ~overlapped
  BY <1>2 DEF LonelyOK
<1>4. Tame'
  BY <1>1, <1>3 DEF Tame, Only
<1>5. ASSUME pc' = "stopping", NEW p \in Providers, prov'[p].st # "off"
      PROVE  \E i \in DOMAIN prov'[p].backlog : prov'[p].backlog[i].open
  <2>1. p = sock
    BY <1>1, <1>4, <1>5 DEF Tame
  <2>2. c.open
    BY <1>5 DEF ShutdownCall
  <2>3. Longer(B, c, Append(B, c))
    BY ProcessIs, AppendIs
  <2> HIDE DEF B
  <2>4. Len(B) + 1 \in DOMAIN Append(B, c) /\ Append(B, c)[Len(B) + 1] = c
    BY <2>3 DEF Longer
  <2> QED
    BY <1>1, <2>1, <2>2, <2>4
<1>6. pc' \in {"calling", "stopping"}
  OBVIOUS
<1> QED
  BY <1>3, <1>4, <1>5, <1>6 DEF LonelyOK

LEMMA LonelyRests ==
    ASSUME IInv, MarksOK, CurrentOK, LonelyOK, CompleteOK, Clean' => Clean, ExecutorStep, SameProvider
    PROVE  LonelyOK'
<1>0. ProviderOK /\ ProcessesOK /\ FilesOK
  BY DEF IInv, ProviderOK
<1>1. SUFFICES ASSUME Clean' PROVE LonelyOK'
  BY DEF LonelyOK
<1>2. Clean /\ ~overlapped /\ ~overlapped'
  BY <1>1 DEF LonelyOK, SameProvider
<1>3. pc # "wait" => Tame
  BY <1>2, Comings DEF LonelyOK
<1>4. pc' # "wait"
  <2>1. ASSUME EnsureSpawns PROVE FALSE
    <3>1. PICK p \in Providers : Spawn(p)
      BY <2>1 DEF EnsureSpawns
    <3>2. prov[p].st = "off" /\ prov' = [prov EXCEPT ![p].st = "starting"] /\ DOMAIN prov = Providers
      BY <1>0, <3>1 DEF Spawn, ProcessesOK
    <3>3. prov[p] = Process(prov[p].st, prov[p].executed, prov[p].consumed, prov[p].seq, prov[p].backlog)
      BY <1>0, ProcessIs
    <3>4. prov'[p].st = "starting"
      BY <3>2, <3>3 DEF Process
    <3> QED
      BY <3>2, <3>4 DEF SameProvider
  <2> QED
    BY <2>1, Comings
<1>5. ASSUME pc' = "down" => runs' = 0 \/ Begun' PROVE Tame'
  <2>1. CASE pc # "wait"
    BY <1>3, <2>1, SameProviderStays
  <2>2. CASE EnsureSucceeds
    BY <1>0, <1>2, <2>2, ConnectableIsTame, SameProviderStays DEF EnsureSucceeds
  <2>3. CASE EnsureTimesOut
    <3>1. pc = "wait" /\ pc' = "down" /\ oplog' = oplog /\ runs' = runs
      BY <2>3 DEF EnsureTimesOut, GiveUp, files
    <3>2. ~Begun
      BY <1>0, <3>1, NotBegun DEF Waiting
    <3>3. runs # 0
      BY <1>0, <3>1 DEF FilesOK
    <3> QED
      BY <1>5, <3>1, <3>2, <3>3 DEF Begun
  <2> QED
    BY <2>1, <2>2, <2>3, Comings
<1>6. ASSUME pc' = "spawn" PROVE AllOff'
  <2>1. pc # "wait" /\ ~Connectable
    BY <1>6, Comings DEF Ensure
  <2> QED
    BY <1>0, <1>3, <2>1, TameIsOff, SameProviderStays
<1>7. pc' # "stopping"
  <2>1. ASSUME StopProvider, Connectable PROVE FALSE
    <3>1. Send(ShutdownCall(TRUE))
      BY <2>1, Zenon DEF StopProvider, ShutdownCall
    <3>2. sock \in Providers /\ Sent(sock, ShutdownCall(TRUE))
      BY <1>0, <3>1, SendIs
    <3>3. prov'[sock].backlog = Append(prov[sock].backlog, ShutdownCall(TRUE))
      <4>1. PICK B : B = Append(prov[sock].backlog, ShutdownCall(TRUE))
        OBVIOUS
      <4>2. Becomes(sock, Process(prov[sock].st, prov[sock].executed, prov[sock].consumed,
                                  prov[sock].seq, B))
        BY <3>2, <4>1 DEF Sent
      <4>3. prov'[sock].backlog = B
        BY <4>2 DEF Becomes, Process
      <4> QED
        BY <4>1, <4>3
    <3>4. Longer(prov[sock].backlog, ShutdownCall(TRUE), prov'[sock].backlog)
      BY <1>0, <3>2, <3>3, ProcessIs, AppendIs
    <3>5. prov'[sock].backlog = prov[sock].backlog
      BY DEF SameProvider
    <3> QED
      BY <3>4, <3>5 DEF Longer
  <2> QED
    BY <2>1, Comings
<1>8. ASSUME pc' \in {"seal", "report", "done"} \/ runState' = "complete" PROVE AllOff'
  <2>1. CASE pc \in {"seal", "report", "done"} \/ runState = "complete"
    BY <1>2, <2>1, SameProviderStays DEF LonelyOK
  <2>2. CASE pc' = "seal" /\ ProviderStopped
    <3>1. pc = "stopping" /\ (answer # NoAnswer \/ Dropped)
      BY <2>2 DEF ProviderStopped
    <3>2. ASSUME NEW p \in Providers, prov[p].st # "off" PROVE FALSE
      <4>1. PICK i \in DOMAIN prov[p].backlog : prov[p].backlog[i].open
        BY <1>2, <3>1, <3>2 DEF LonelyOK
      <4>2. answer = NoAnswer
        BY <4>1 DEF IInv, ConversationOK, CallsOK, IsOpen
      <4> QED
        BY <3>1, <4>1, <4>2 DEF Dropped
    <3>3. AllOff
      BY <3>2 DEF AllOff
    <3> QED
      BY <3>3, SameProviderStays
  <2>3. CASE pc' = "seal" /\ StopProvider /\ ~Connectable
    <3>1. pc # "wait"
      BY <2>3 DEF StopProvider
    <3> QED
      BY <1>0, <1>3, <2>3, <3>1, TameIsOff, SameProviderStays
  <2> QED
    BY <1>8, <2>1, <2>2, <2>3, Comings
<1> QED
  BY <1>2, <1>4, <1>5, <1>6, <1>7, <1>8 DEF LonelyOK

LEMMA LonelyKept ==
    ASSUME IInv, MarksOK, CurrentOK, LonelyOK, CompleteOK, [Next]_vars
    PROVE  LonelyOK'
<1> USE DEF position, files, bookkeeping, executorVars, providerVars
<1>0. ProviderOK /\ ProcessesOK /\ FilesOK /\ PositionOK
  BY DEF IInv, ProviderOK
<1>1. CASE ExecutorStep
  <2>1. Clean' => Clean
    BY <1>0, <1>1, StepIsOrdinary, CleanBefore DEF Ordinary, FilesStep
  <2>2. ProviderSide /\ (~EnsureSpawns => UNCHANGED overlapped)
    BY <1>0, <1>1, SidesAre
  <2>3. runState # "complete" \/ pc = "report"
    BY <1>1, Comings DEF CompleteOK
  <2>4. CASE EnsureSpawns
    BY <2>1, <2>3, <2>4, LonelySpawns
  <2>5. CASE ~EnsureSpawns /\ UNCHANGED <<plog, ptorn, prov, sock>>
    BY <1>1, <2>1, <2>2, <2>5, LonelyRests DEF SameProvider
  <2>6. CASE ~EnsureSpawns /\ CallProvider /\ sock \in Providers
             /\ Sent(sock, EffectCall(TRUE, Current))
    <3>1. CASE Connectable
      <4>1. pc = "intended" /\ pc' = "calling" /\ runState' = runState
        BY <2>6, <3>1 DEF CallProvider
      <4> QED
        BY <1>0, <2>1, <2>2, <2>3, <2>6, <4>1, LonelySends
    <3>2. CASE ~Connectable
      BY <1>1, <2>1, <2>2, <2>6, <3>2, LonelyRests DEF SameProvider, CallProvider
    <3> QED
      BY <3>1, <3>2
  <2>7. CASE ~EnsureSpawns /\ StopProvider /\ sock \in Providers /\ Sent(sock, ShutdownCall(TRUE))
    <3>1. CASE Connectable
      <4>1. pc = "stop" /\ pc' = "stopping" /\ runState' = runState
        BY <2>7, <3>1 DEF StopProvider
      <4> QED
        BY <1>0, <2>1, <2>2, <2>3, <2>7, <4>1, LonelySends
    <3>2. CASE ~Connectable
      BY <1>1, <2>1, <2>2, <2>7, <3>2, LonelyRests DEF SameProvider, StopProvider
    <3> QED
      BY <3>1, <3>2
  <2> QED
    BY <2>2, <2>4, <2>5, <2>6, <2>7 DEF ProviderSide
<1>2. CASE Start
  <2>1. SameProvider /\ oplog' = oplog /\ runState' = runState /\ runs = 0 /\ pc = "down" /\ pc' = "opened"
    BY <1>2 DEF Start, SameProvider
  <2>2. Clean' => Clean
    BY <1>0, <2>1, CleanBefore
  <2> QED
    BY <2>1, <2>2, SameProviderStays DEF LonelyOK, SameProvider
<1>3. CASE Resume
  <2>1. SameProvider /\ runState' = "running" /\ pc = "down" /\ pc' = "opened"
    BY <1>3 DEF Resume, SameProvider
  <2>2. ASSUME Clean' PROVE Clean /\ Begun
    <3>1. PICK e : e = [kind |-> "resume", route |-> 1]
      OBVIOUS
    <3>2. PICK n : n = Len(oplog) + 1
      OBVIOUS
    <3>3. /\ DOMAIN oplog' = 1 .. n /\ oplog'[n] = e /\ e.kind = "resume" /\ Len(oplog) \in Nat
          /\ \A j \in 1 .. Len(oplog) : oplog'[j] = oplog[j]
          /\ oplog' = Append(oplog, e)
      BY <1>0, <1>3, <3>1, <3>2, JournalGrows DEF Resume
    <3>4. Clean
      BY <1>0, <2>2, <3>3, CleanBefore
    <3>5. n \in DOMAIN oplog'
      BY <3>2, <3>3
    <3>6. ResumedInParent(n)'
      BY <2>2, <3>3, <3>5 DEF Clean
    <3>7. n > 1 /\ oplog'[n - 1].kind # "resume"
      BY <3>6 DEF ResumedInParent
    <3>8. Len(oplog) \in 1 .. Len(oplog) /\ n - 1 = Len(oplog)
      BY <3>2, <3>3, <3>7
    <3>9. oplog'[n - 1] = oplog[Len(oplog)]
      BY <3>3, <3>8
    <3> QED
      BY <3>4, <3>7, <3>8, <3>9 DEF Begun
  <2> QED
    BY <2>1, <2>2, SameProviderStays DEF LonelyOK, SameProvider
<1>4. CASE ExecutorDies
  <2>1. /\ pc \notin {"down", "done"} /\ pc' = "down" /\ oplog' = oplog /\ runState' = runState
        /\ runs' = runs /\ overlapped' = overlapped /\ sock' = sock /\ HangUp
    BY <1>4 DEF ExecutorDies
  <2>2. \A p \in Providers : prov'[p].st = prov[p].st
    <3>1. ASSUME NEW p \in Providers PROVE prov'[p].st = prov[p].st
      <4>1. HungUp(p)
        BY <1>0, <2>1, HangUpIs
      <4> QED
        BY <4>1 DEF HungUp, Process
    <3> QED
      BY <3>1
  <2>3. (Tame' <=> Tame) /\ (AllOff' <=> AllOff)
    BY <2>1, <2>2 DEF Tame, AllOff
  <2>4. Clean' => Clean
    BY <1>0, <2>1, CleanBefore
  <2>5. pc = "wait" => ~Begun /\ runs # 0
    BY <1>0, <2>1, NotBegun DEF Waiting, FilesOK
  <2> QED
    BY <2>1, <2>3, <2>4, <2>5 DEF LonelyOK, Begun
<1>5. ASSUME NEW p \in Providers, ProviderStep(p) \/ ProviderKilled(p) PROVE LonelyOK'
  BY <1>5, ProcessLives, LonelyLives
<1>6. CASE UNCHANGED vars
  BY <1>6 DEF vars, LonelyOK, Clean, ResumedInParent, Tame, AllOff, Begun
<1> QED
  BY <1>1, <1>2, <1>3, <1>4, <1>5, <1>6 DEF Next

\* What the lines of the journal are, and in which order a process writes them.
ShapeOK ==
    /\ LinesTyped /\ MarksOK /\ HeadsOK /\ OrderedOK /\ BegunOK /\ StepwiseOK /\ FullOK
    /\ CurrentOK /\ CutOK /\ RestoredOK /\ PastOK /\ PassedOK

\* What was delivered and what the provider answered again; how a run ends.
EndsOK == CommittedOK /\ Effects /\ DeliveredOK /\ DuplicatesOK /\ CompleteOK /\ LonelyOK

\* What the files of a run are, in every state.
EvidenceOK == ShapeOK /\ EndsOK

LEMMA EvidenceStarts ==
    ASSUME Init
    PROVE  EvidenceOK
<1>1. DOMAIN oplog = {} /\ DOMAIN plog = {} /\ Len(oplog) = 0
  BY EmptyIs DEF Init, ProviderInit
<1>2. OwnLines = {} /\ \A kind, r : OwnOf(kind, r) = {}
  BY <1>1 DEF OwnLines, OwnOf
<1>3. pc = "down" /\ resumedAt = 0 /\ runs = 0 /\ saved = NoCheckpoint /\ runState = "none"
      /\ overlapped = FALSE /\ \A p \in Providers : prov[p].st = "off"
  BY DEF Init, ProviderInit, Off
<1>4. LinesTyped /\ MarksOK /\ HeadsOK /\ RestoredOK /\ PastOK /\ PassedOK
  BY <1>1, <1>3 DEF LinesTyped, MarksOK, HeadsOK, RestoredOK, PastOK, PassedOK
<1>5. OrderedOK /\ BegunOK /\ StepwiseOK /\ FullOK
  BY <1>2 DEF OrderedOK, BegunOK, StepwiseOK, FullOK
<1>6. CurrentOK /\ CutOK /\ CommittedOK
  BY <1>3, Phases DEF CurrentOK, CutOK, CommittedOK
<1>7. Effects /\ DuplicatesOK
  BY <1>1 DEF Effects, DuplicatesOK
<1>8. DeliveredOK
  BY NothingBehind DEF Init, DeliveredOK
<1>9. CompleteOK /\ LonelyOK
  BY <1>3 DEF CompleteOK, LonelyOK, Tame, AllOff
<1> QED
  BY <1>4, <1>5, <1>6, <1>7, <1>8, <1>9 DEF EvidenceOK, ShapeOK, EndsOK

LEMMA EvidenceKept ==
    ASSUME [Next]_vars, IInv, IInv', OrderOK, CheckpointOK, ReplayOK, EvidenceOK
    PROVE  EvidenceOK'
<1>1. PositionOK /\ FilesOK /\ PositionOK'
  BY DEF IInv
<1>2. Pens /\ Moves
  BY EveryStepPens, StepMoves DEF EvidenceOK, EndsOK
<1>3. published # NoCheckpoint => published' = published
  BY CheckpointKept
<1>4. SavedOK(Commits)
  BY DEF ReplayOK, RoutesOK
<1>5. ShapeOK'
  BY <1>1, <1>2, <1>3, <1>4, TypedLines, BoundariesKept, HeadsKept, OrderedKept, BegunKept, StepwiseKept,
     FullKept, CurrentKept, CutKept, RestoredKept, PastKept, PassedKept DEF EvidenceOK, ShapeOK
<1>6. EndsOK'
  BY <1>1, <1>2, CommittedKept, EffectsKept, DeliveredKept, DuplicatesKept, CompleteKept, LonelyKept
     DEF EvidenceOK, ShapeOK, EndsOK
<1> QED
  BY <1>5, <1>6 DEF EvidenceOK

\* In every state the journal holds the lines that run_inner and Host::effect write, in the
\* order in which they write them: what the verifier can ask of the files of a run.
THEOREM EvidenceInvariant ==
    Spec => []EvidenceOK
<1>1. Init => EvidenceOK
  BY EvidenceStarts
<1>2. IInv /\ IInv' /\ OrderOK /\ CheckpointOK /\ ReplayOK /\ EvidenceOK /\ [Next]_vars => EvidenceOK'
  BY EvidenceKept
<1> QED
  BY <1>1, <1>2, RunInvariant, OrderInvariant, CheckpointInvariant, ReplayInvariant, PTL DEF Spec

-----------------------------------------------------------------------------
\* What the verifier refuses.

\* The first and the last of a list.
LEMMA FirstOf ==
    ASSUME NEW S, NEW m \in S, S \subseteq Nat, \A i \in S : m <= i
    PROVE  Min(S) = m
<1>1. \E x \in S : \A y \in S : x <= y
  OBVIOUS
<1>2. Min(S) \in S /\ \A i \in S : Min(S) <= i
  BY <1>1 DEF Min
<1>3. PICK x \in S : x = Min(S)
  BY <1>2
<1>4. x <= m /\ m <= x /\ x \in Nat /\ m \in Nat
  BY <1>2, <1>3
<1> QED
  BY <1>3, <1>4

LEMMA LastOf ==
    ASSUME NEW S, NEW m \in S, S \subseteq Nat, \A i \in S : i <= m
    PROVE  Max(S) = m
<1>1. \E x \in S : \A y \in S : x >= y
  <2>1. \A y \in S : m >= y
    OBVIOUS
  <2> QED
    BY <2>1
<1>2. Max(S) \in S /\ \A i \in S : Max(S) >= i
  BY <1>1 DEF Max
<1>3. PICK x \in S : x = Max(S)
  BY <1>2
<1>4. x >= m /\ x <= m /\ x \in Nat /\ m \in Nat
  BY <1>2, <1>3
<1> QED
  BY <1>3, <1>4

LEMMA EndsOfSet ==
    ASSUME NEW n \in Nat, NEW S, S \subseteq 0 .. n, S # {}
    PROVE  Max(S) \in S /\ (\A i \in S : i <= Max(S)) /\ Min(S) \in S /\ \A i \in S : Min(S) <= i
<1>0. S \subseteq Nat
  OBVIOUS
<1>1. PICK a \in S : \A i \in S : a <= i
  BY <1>0, SmallestOf
<1> DEFINE T == {n - i : i \in S}
<1>2. T \in SUBSET Nat /\ T # {}
  OBVIOUS
<1>3. PICK t \in T : \A i \in T : t <= i
  BY <1>2, SmallestOf
<1>4. PICK b \in S : t = n - b
  BY <1>3
<1>5. \A i \in S : i <= b
  BY <1>3, <1>4
<1>6. Min(S) = a
  BY <1>0, <1>1, FirstOf
<1>7. Max(S) = b
  BY <1>0, <1>5, LastOf
<1> QED
  BY <1>1, <1>5, <1>6, <1>7

LEMMA CutsAre ==
    ASSUME FilesOK, LinesTyped
    PROVE  /\ Len(oplog) \in Nat /\ DOMAIN oplog = 1 .. Len(oplog)
           /\ Resumes = {i \in DOMAIN oplog : oplog[i].kind = "resume"}
           /\ Cuts \subseteq 0 .. Len(oplog) /\ Cuts # {} /\ Resumes \subseteq Cuts
           /\ Max(Cuts) \in Cuts /\ \A m \in Cuts : m <= Max(Cuts)
<1>1. Len(oplog) \in Nat /\ DOMAIN oplog = 1 .. Len(oplog)
  BY JournalIs
<1>2. Resumes = {i \in DOMAIN oplog : oplog[i].kind = "resume"}
  BY DEF Resumes, Of, OfRoute, LinesTyped, LineOK
<1>3. Cuts \subseteq 0 .. Len(oplog) /\ 0 \in Cuts /\ Resumes \subseteq Cuts
  BY <1>1, <1>2 DEF Cuts
<1> QED
  BY <1>1, <1>2, <1>3, EndsOfSet

\* An interrupted segment that is empty, or has an exit.
LEMMA RefusesSegment ==
    ASSUME FilesOK, LinesTyped, NEW m \in Cuts, NEW n \in Resumes, m < n,
           Segment(m) = {} \/ Of(Segment(m), "exit") # {}
    PROVE  ~ParentHistory
<1>1. m # Max(Cuts)
  <2>1. n <= Max(Cuts) /\ n \in Nat /\ m \in Nat
    BY CutsAre
  <2> QED
    BY <2>1
<1>2. Segment(m) \in Earlier
  BY <1>1 DEF Earlier
<1> QED
  BY <1>2 DEF ParentHistory

\* The verifier refuses a journal in which a process that was interrupted had not created its
\* worker or had left its first route.
LEMMA RefusesUnclean ==
    ASSUME FilesOK, LinesTyped, PassedOK, ~Clean
    PROVE  ~ParentHistory
<1>0. /\ Len(oplog) \in Nat /\ DOMAIN oplog = 1 .. Len(oplog)
      /\ Resumes = {i \in DOMAIN oplog : oplog[i].kind = "resume"}
      /\ Cuts \subseteq 0 .. Len(oplog) /\ Resumes \subseteq Cuts /\ 0 \in Cuts
  BY CutsAre DEF Cuts
<1>1. PICK n \in Resumes : ~ResumedInParent(n)
  BY <1>0 DEF Clean
<1>2. n \in Nat \ {0} /\ n <= Len(oplog)
  BY <1>0
<1>3. CASE n = 1
  <2>1. Segment(0) = {}
    <3>1. \A i \in Segment(0) : i \in DOMAIN oplog /\ i > 0 /\ (1 <= 0 \/ i < 1)
      BY <1>1, <1>3 DEF Segment, OfRoute
    <3> QED
      BY <1>0, <3>1
  <2> QED
    BY <1>0, <1>1, <1>3, <2>1, RefusesSegment
<1>4. CASE n > 1 /\ oplog[n - 1].kind = "resume"
  <2>1. n - 1 \in Resumes /\ n - 1 < n
    BY <1>0, <1>2, <1>4
  <2>2. Segment(n - 1) = {}
    <3>1. \A i \in Segment(n - 1) : i \in DOMAIN oplog /\ i > n - 1 /\ (n <= n - 1 \/ i < n)
      BY <1>1 DEF Segment, OfRoute
    <3> QED
      BY <1>0, <1>2, <3>1
  <2> QED
    BY <1>0, <1>1, <2>1, <2>2, RefusesSegment
<1>5. CASE n > 1 /\ oplog[n - 1].kind # "resume"
  <2>1. PICK l : l = n - 1
    OBVIOUS
  <2>2. l \in DOMAIN oplog /\ l \in Nat /\ l < n /\ oplog[l].kind # "resume"
    BY <1>0, <1>2, <1>5, <2>1
  \* There is an exit from the first route with no resume between it and n.
  <2>3. PICK x \in DOMAIN oplog : /\ x <= l /\ oplog[x].kind = "exit" /\ oplog[x].route = 1
                                  /\ \A k \in Resumes : k < x \/ l < k
    <3>1. oplog[l].route # 1 \/ oplog[l].kind = "exit"
      BY <1>1, <1>5, <2>1, <2>2 DEF ResumedInParent
    <3>2. CASE oplog[l].route # 1
      <4>1. PICK j \in DOMAIN oplog :
                /\ j < l /\ oplog[j].kind = "exit" /\ oplog[j].route = 1
                /\ \A k \in DOMAIN oplog : oplog[k].kind = "resume" => k < j \/ l < k
        BY <2>2, <3>2 DEF PassedOK
      <4>2. j <= l
        BY <1>0, <2>2, <4>1
      <4> QED
        BY <1>0, <4>1, <4>2
    <3>3. CASE oplog[l].route = 1
      <4>1. oplog[l].kind = "exit" /\ l <= l
        BY <2>2, <3>1, <3>3
      <4>2. \A k \in Resumes : k < l \/ l < k
        BY <1>0, <2>2
      <4> QED
        BY <2>2, <3>3, <4>1, <4>2
    <3> QED
      BY <3>2, <3>3
  <2> DEFINE C == {k \in Cuts : k < x}
             m == Max(C)
  <2>4. m \in C /\ \A k \in C : k <= m
    <3>1. 0 \in C /\ C \subseteq 0 .. Len(oplog)
      BY <1>0
    <3> QED
      BY <1>0, <3>1, EndsOfSet
  <2> HIDE DEF m
  <2>5. m \in Cuts /\ m < x /\ m \in Nat /\ x \in Nat
    BY <1>0, <2>4
  <2>6. m < n
    BY <1>2, <2>2, <2>3, <2>5
  <2>7. x \in Segment(m)
    <3>1. ASSUME NEW k \in Resumes PROVE k <= m \/ x < k
      <4>1. k < x \/ l < k
        BY <2>3
      <4>2. CASE k < x
        BY <1>0, <2>4, <4>2
      <4>3. CASE l < k
        BY <1>0, <2>2, <2>3, <2>5, <4>3
      <4> QED
        BY <4>1, <4>2, <4>3
    <3> QED
      BY <2>3, <2>5, <3>1 DEF Segment, OfRoute
  <2>8. Of(Segment(m), "exit") # {}
    BY <2>3, <2>7 DEF Of
  <2> QED
    BY <1>1, <2>5, <2>6, <2>8, RefusesSegment
<1> QED
  BY <1>2, <1>3, <1>4, <1>5

-----------------------------------------------------------------------------
\* What the verifier accepts.

\* What the last process wrote of a route.
RouteLines(r) == {i \in OwnLines : oplog[i].route = r}

\* How many events the parent route handles, and with which of them a route begins.
AllEvents == Count(1, Len(Program[1]), "invoke")
FirstEvent(r) == IF r = Recovered THEN published.host.event ELSE 0

\* Where the files of a run that is about to be sealed can be trusted.
Ready == /\ IInv /\ OrderOK /\ CheckpointOK /\ ReplayOK /\ EvidenceOK
         /\ pc = "seal" /\ Clean

LEMMA RoutesApart ==
    /\ Recovered = Replays + 2 /\ ForkRoute = Replays + 3 /\ Replays \in Nat
    /\ \A r \in 1 .. Recovered : r \in 1 .. ForkRoute /\ r # ForkRoute
    /\ \A r \in 2 .. Replays + 1 : r \in 2 .. Recovered /\ r # Recovered
    /\ 1 # Recovered /\ 1 # ForkRoute /\ Recovered # ForkRoute /\ 1 \in 1 .. Recovered
    /\ Recovered \in 2 .. Recovered /\ ForkRoute \in 2 .. ForkRoute
  BY Constants DEF Recovered, ForkRoute

LEMMA RoutesOfTheLast ==
    ASSUME FilesOK, LinesTyped, MarksOK, PastOK, Clean
    PROVE  /\ Max(Cuts) = IF resumedAt = 0 THEN 0 ELSE resumedAt + 1
           /\ Final = RouteLines(1) /\ \A r \in 2 .. ForkRoute : OfRoute(r) = RouteLines(r)
<1>0. /\ Len(oplog) \in Nat /\ DOMAIN oplog = 1 .. Len(oplog) /\ resumedAt \in 0 .. Len(oplog)
      /\ Resumes = {i \in DOMAIN oplog : oplog[i].kind = "resume"}
  BY JournalIs, CutsAre
<1>1. ASSUME NEW i \in DOMAIN oplog
      PROVE  \/ i \in OwnLines
             \/ i <= resumedAt /\ oplog[i].route = 1 /\ oplog[i].kind # "exit"
             \/ i = resumedAt + 1 /\ oplog[i].kind = "resume" /\ oplog[i].route = 1
  BY <1>0, <1>1 DEF OwnLines, PastOK, MarksOK, LinesTyped, LineOK
<1>2. \A i \in Resumes : i > 1 /\ i \in Nat
  BY <1>0 DEF Clean, ResumedInParent
<1>3. \A i \in Resumes : i <= resumedAt + 1
  BY <1>0 DEF MarksOK
<1>4. Max(Cuts) = IF resumedAt = 0 THEN 0 ELSE resumedAt + 1
  <2>1. Cuts \subseteq Nat
    BY <1>2 DEF Cuts
  <2>2. CASE resumedAt = 0
    <3>1. Resumes = {}
      BY <1>2, <1>3, <2>2
    <3>2. 0 \in Cuts /\ \A i \in Cuts : i <= 0
      BY <3>1 DEF Cuts
    <3> QED
      BY <2>1, <2>2, <3>2, LastOf
  <2>3. CASE resumedAt # 0
    <3>1. resumedAt + 1 \in Cuts
      BY <1>0, <2>3 DEF Cuts, MarksOK
    <3>2. \A i \in Cuts : i <= resumedAt + 1
      BY <1>0, <1>3 DEF Cuts
    <3>3. Max(Cuts) = resumedAt + 1
      BY <2>1, <3>1, <3>2, LastOf
    <3> QED
      BY <2>3, <3>3
  <2> QED
    BY <2>2, <2>3
<1>5. \A i \in OwnLines : i \in DOMAIN oplog /\ i > resumedAt /\ oplog[i].kind # "resume"
  BY DEF OwnLines
<1>6. Final = RouteLines(1)
  <2>1. PICK m : m = Max(Cuts)
    OBVIOUS
  <2>2. m = IF resumedAt = 0 THEN 0 ELSE resumedAt + 1
    BY <1>4, <2>1
  <2>3. \A n \in Resumes : n <= m
    <3>1. resumedAt = 0 => Resumes = {}
      BY <1>2, <1>3
    <3> QED
      BY <1>0, <1>3, <2>2, <3>1
  <2>4. Final = {i \in OfRoute(1) : i > m}
    BY <2>1, <2>3 DEF Final, Segment
  <2>5. ASSUME NEW i \in OfRoute(1), i > m PROVE i \in RouteLines(1)
    <3>1. i \in DOMAIN oplog /\ oplog[i].route = 1
      BY DEF OfRoute
    <3>2. i \in OwnLines
      BY <1>0, <1>1, <1>2, <2>2, <2>5, <3>1
    <3> QED
      BY <3>1, <3>2 DEF RouteLines
  <2>6. ASSUME NEW i \in RouteLines(1) PROVE i \in OfRoute(1) /\ i > m
    <3>1. i \in OwnLines /\ oplog[i].route = 1
      BY DEF RouteLines
    <3>2. i \in DOMAIN oplog /\ i > resumedAt /\ oplog[i].kind # "resume"
      BY <1>5, <3>1
    <3>3. resumedAt # 0 => i # resumedAt + 1
      BY <3>2 DEF MarksOK
    <3> QED
      BY <1>0, <2>2, <3>1, <3>2, <3>3 DEF OfRoute
  <2> QED
    BY <2>4, <2>5, <2>6
<1>7. ASSUME NEW r \in 2 .. ForkRoute PROVE OfRoute(r) = RouteLines(r)
  <2>1. r # 1
    BY Constants
  <2> QED
    BY <1>1, <1>5, <2>1 DEF OfRoute, RouteLines
<1> QED
  BY <1>4, <1>6, <1>7

LEMMA KindsOfRoute ==
    \A r, kind : Of(RouteLines(r), kind) = OwnOf(kind, r)
  BY DEF Of, RouteLines, OwnOf

LEMMA OwnAre ==
    ASSUME FilesOK
    PROVE  /\ OwnLines \subseteq 1 .. Len(oplog) /\ OwnLines \subseteq DOMAIN oplog /\ OwnLines \subseteq Nat
           /\ \A kind, r : OwnOf(kind, r) \subseteq RouteLines(r)
           /\ \A r : RouteLines(r) \subseteq OwnLines
<1>1. Len(oplog) \in Nat /\ DOMAIN oplog = 1 .. Len(oplog)
  BY JournalIs
<1> QED
  BY <1>1 DEF OwnLines, OwnOf, RouteLines

\* A route begins with its creation and ends with its exit.
LEMMA RouteEnds ==
    ASSUME FilesOK, OrderedOK, BegunOK, NEW r, NEW x \in OwnOf("exit", r)
    PROVE  /\ OwnOf("exit", r) = {x} /\ Max(RouteLines(r)) = x
           /\ \E c : OwnOf("creation", r) = {c} /\ Min(RouteLines(r)) = c
<1>1. /\ x \in OwnLines /\ x \in RouteLines(r) /\ oplog[x].kind = "exit" /\ oplog[x].route = r
      /\ RouteLines(r) \subseteq Nat
      /\ \A i \in RouteLines(r) : i \in OwnLines /\ oplog[i].route = r /\ i \in Nat
  BY OwnAre DEF OwnOf, RouteLines
<1>2. PICK c \in OwnOf("creation", r) : c <= x
  BY <1>1 DEF BegunOK
<1>3. /\ c \in OwnLines /\ c \in RouteLines(r) /\ oplog[c].kind = "creation" /\ oplog[c].route = r
  BY <1>2, OwnAre DEF OwnOf, RouteLines
<1>4. \A i, j \in RouteLines(r) : i < j => oplog[i].kind # "exit" /\ oplog[j].kind # "creation"
  BY <1>1 DEF OrderedOK
<1>5. \A i \in RouteLines(r) : i <= x /\ c <= i
  BY <1>1, <1>3, <1>4
<1>6. Max(RouteLines(r)) = x /\ Min(RouteLines(r)) = c
  BY <1>1, <1>3, <1>5, FirstOf, LastOf
<1>7. \A i \in OwnOf("exit", r) : i = x
  <2>1. \A i \in OwnOf("exit", r) : i \in RouteLines(r) /\ oplog[i].kind = "exit"
    BY OwnAre DEF OwnOf
  <2>2. \A i \in OwnOf("exit", r) : ~(i < x) /\ ~(x < i)
    BY <1>1, <1>4, <2>1
  <2> QED
    BY <1>1, <2>1, <2>2
<1>8. \A i \in OwnOf("creation", r) : i = c
  <2>1. \A i \in OwnOf("creation", r) : i \in RouteLines(r) /\ oplog[i].kind = "creation"
    BY OwnAre DEF OwnOf
  <2>2. \A i \in OwnOf("creation", r) : ~(i < c) /\ ~(c < i)
    BY <1>3, <1>4, <2>1
  <2> QED
    BY <1>1, <1>3, <2>1, <2>2
<1> QED
  BY <1>2, <1>6, <1>7, <1>8

LEMMA RouteContinues ==
    ASSUME FilesOK, LinesTyped, OrderedOK, StepwiseOK, NEW r \in 1 .. ForkRoute
    PROVE  Continuous(RouteLines(r))
<1> DEFINE I == OwnOf("invocation", r)
<1>1. /\ \A i \in I : i \in OwnLines /\ i \in Nat /\ oplog[i].kind = "invocation" /\ oplog[i].route = r
      /\ \A i \in I : oplog[i].event \in Nat
  BY OwnAre DEF OwnOf, LinesTyped, LineOK
<1>2. \A i, j \in I : i < j => oplog[i].event < oplog[j].event
  BY <1>1 DEF OrderedOK
<1>3. ASSUME NEW j \in I, NEW l \in I, l < j
      PROVE  \E i \in I : /\ i < j /\ \A k \in I : k < j => k <= i
                          /\ oplog[j].event = oplog[i].event + 1
  <2>1. \A c \in OwnOf("creation", r) : oplog[c].host.event <= oplog[l].event
    BY DEF StepwiseOK
  <2>2. oplog[l].event < oplog[j].event /\ oplog[l].event \in Nat /\ oplog[j].event \in Nat
    BY <1>1, <1>2, <1>3
  <2>3. ASSUME NEW c \in OwnOf("creation", r), oplog[j].event = oplog[c].host.event PROVE FALSE
    BY <2>1, <2>2, <2>3
  <2>4. PICK i \in I : i < j /\ oplog[i].event + 1 = oplog[j].event
    BY <2>3 DEF StepwiseOK
  <2>5. ASSUME NEW k \in I, k < j PROVE k <= i
    <3>1. oplog[k].event < oplog[j].event /\ oplog[k].event \in Nat /\ oplog[i].event \in Nat
      BY <1>1, <1>2, <2>5
    <3>2. ~(oplog[i].event < oplog[k].event)
      BY <2>2, <2>4, <3>1
    <3>3. ~(i < k)
      BY <1>2, <3>2
    <3> QED
      BY <1>1, <3>3
  <2> QED
    BY <2>4, <2>5
<1> HIDE DEF I
<1>4. Of(RouteLines(r), "invocation") = I
  BY KindsOfRoute DEF I
<1> QED
  BY <1>3, <1>4 DEF Continuous

LEMMA SealedRoutes ==
    ASSUME Ready
    PROVE  /\ route = ForkRoute /\ \A r \in 1 .. ForkRoute : OwnOf("exit", r) # {}
           /\ \A r \in 1 .. ForkRoute : WellFormedRoute(RouteLines(r))
<1>0. FilesOK /\ LinesTyped /\ OrderedOK /\ BegunOK /\ StepwiseOK /\ CurrentOK /\ EndOK
  BY DEF Ready, IInv, EvidenceOK, ShapeOK, ReplayOK, LinesOK
<1>1. route = ForkRoute /\ pc \in Ending
  BY <1>0 DEF Ready, EndOK, Ending
<1>2. ASSUME NEW r \in 1 .. ForkRoute PROVE OwnOf("exit", r) # {}
  <2>1. r = ForkRoute \/ r \in 1 .. ForkRoute - 1
    BY Constants
  <2> QED
    BY <1>0, <1>1, <2>1 DEF CurrentOK, MidwayAt
<1>3. ASSUME NEW r \in 1 .. ForkRoute PROVE WellFormedRoute(RouteLines(r))
  <2>1. PICK x : x \in OwnOf("exit", r)
    BY <1>2
  <2>2. OwnOf("exit", r) = {Max(RouteLines(r))} /\ OwnOf("creation", r) = {Min(RouteLines(r))}
    BY <1>0, <2>1, RouteEnds
  <2>3. RouteLines(r) # {}
    BY <1>0, <2>1, OwnAre
  <2> QED
    BY <1>0, <2>2, <2>3, RouteContinues, KindsOfRoute DEF WellFormedRoute
<1> QED
  BY <1>1, <1>2, <1>3

\* Of a run about to be sealed: every route but the parent's is a complete history, and the
\* replays did nothing live.
LEMMA AcceptsRoutes ==
    ASSUME Ready
    PROVE  Routes
<1>0. FilesOK /\ LinesTyped /\ MarksOK /\ PastOK /\ Clean
  BY DEF Ready, IInv, EvidenceOK, ShapeOK
<1>1. \A r \in 2 .. ForkRoute : r \in 1 .. ForkRoute /\ OfRoute(r) = RouteLines(r)
  BY <1>0, RoutesOfTheLast, Constants
<1>2. \A r \in 2 .. ForkRoute : WellFormedRoute(OfRoute(r))
  BY <1>1, SealedRoutes
<1>3. ASSUME NEW r \in 2 .. Recovered, NEW i \in OfRoute(r) PROVE ~Live(oplog[i])
  <2>1. r \notin {1, ForkRoute}
    BY RoutesApart
  <2> QED
    BY <1>0, <2>1 DEF OfRoute, LinesTyped, LineOK
<1> QED
  BY <1>2, <1>3 DEF Routes

\* Before a later mark the process of a segment wrote its creation and did not exit.
LEMMA SegmentIs ==
    ASSUME FilesOK, LinesTyped, MarksOK, HeadsOK, PastOK, Clean, NEW s \in Earlier
    PROVE  /\ s # {} /\ oplog[Min(s)].kind = "creation"
           /\ \A i \in s : i <= resumedAt /\ oplog[i].route = 1 /\ oplog[i].kind # "exit" /\ i \in DOMAIN oplog
<1>0. /\ Len(oplog) \in Nat /\ DOMAIN oplog = 1 .. Len(oplog) /\ resumedAt \in 0 .. Len(oplog)
      /\ Resumes = {i \in DOMAIN oplog : oplog[i].kind = "resume"}
      /\ Cuts \subseteq 0 .. Len(oplog) /\ Max(Cuts) \in Cuts /\ \A m \in Cuts : m <= Max(Cuts)
      /\ Max(Cuts) = IF resumedAt = 0 THEN 0 ELSE resumedAt + 1
  BY JournalIs, CutsAre, RoutesOfTheLast
<1>1. PICK m \in Cuts : m # Max(Cuts) /\ s = Segment(m)
  BY DEF Earlier
<1> DEFINE D == {n \in Resumes : n > m}
<1>2. PICK z : z = Max(Cuts)
  OBVIOUS
<1>3. m < z /\ z \in Cuts /\ m \in Nat /\ z \in Nat /\ z = resumedAt + 1
  BY <1>0, <1>1, <1>2
<1>4. z \in D
  BY <1>3 DEF Cuts
<1>5. PICK n \in D : \A k \in D : n <= k
  <2>1. D \in SUBSET Nat
    BY <1>0
  <2> QED
    BY <1>4, <2>1, SmallestOf
<1>6. n \in DOMAIN oplog /\ n \in Nat /\ n > m /\ n <= z /\ oplog[n].kind = "resume"
  BY <1>0, <1>4, <1>5
<1>7. n > 1 /\ oplog[n - 1].route = 1 /\ oplog[n - 1].kind # "resume"
  BY <1>6 DEF Clean, ResumedInParent
<1>8. PICK l : l = n - 1
  OBVIOUS
<1>9. l > m /\ l \in DOMAIN oplog /\ l \in Nat /\ l + 1 = n
  <2>1. l \in DOMAIN oplog /\ l \in Nat /\ l + 1 = n /\ l >= m
    BY <1>0, <1>3, <1>6, <1>7, <1>8
  <2>2. l # m
    BY <1>3, <1>6, <1>7, <1>8, <1>0 DEF Cuts
  <2> QED
    BY <1>3, <2>1, <2>2
<1>10. ASSUME NEW i \in OfRoute(1), i > m, i < n PROVE i \in s
  <2>1. ASSUME NEW k \in Resumes PROVE k <= m \/ i < k
    <3>1. k > m => n <= k
      BY <1>5
    <3> QED
      BY <1>0, <1>3, <1>6, <1>10, <3>1 DEF OfRoute
  <2> QED
    BY <1>1, <1>10, <2>1 DEF Segment
<1>11. ASSUME NEW i \in s
       PROVE  i <= resumedAt /\ oplog[i].route = 1 /\ oplog[i].kind # "exit" /\ i \in DOMAIN oplog /\ i > m
  <2>1. i \in DOMAIN oplog /\ oplog[i].route = 1 /\ i > m /\ (n <= m \/ i < n)
    BY <1>1, <1>5, <1>11 DEF Segment, OfRoute
  <2>2. i <= resumedAt
    BY <1>0, <1>3, <1>6, <2>1
  <2> QED
    BY <2>1, <2>2 DEF PastOK
<1>12. PICK h : h = m + 1
  OBVIOUS
<1>13. h \in DOMAIN oplog /\ h < n /\ h > m /\ h \in Nat
  BY <1>0, <1>3, <1>6, <1>9, <1>12
<1>14. oplog[h].kind # "resume"
  <2>1. h \notin D
    BY <1>5, <1>6, <1>13
  <2> QED
    BY <1>0, <1>13, <2>1
<1>15. h = 1 \/ oplog[h - 1].kind = "resume"
  <2>1. h - 1 = m
    BY <1>3, <1>12
  <2> QED
    BY <1>0, <1>3, <1>12, <2>1 DEF Cuts
<1>16. oplog[h].kind = "creation" /\ oplog[h].route = 1
  BY <1>13, <1>14, <1>15 DEF HeadsOK
<1>17. h \in s
  BY <1>10, <1>13, <1>16 DEF OfRoute
<1>18. Min(s) = h
  <2>1. s \subseteq Nat /\ \A i \in s : h <= i
    BY <1>0, <1>3, <1>11, <1>12
  <2> QED
    BY <1>17, <2>1, FirstOf
<1> QED
  BY <1>11, <1>16, <1>17, <1>18

\* The parent route ends in a complete history; the interrupted ones began with a worker, did
\* not exit, and went through transitions of the complete one.
LEMMA AcceptsParent ==
    ASSUME Ready
    PROVE  ParentHistory /\ CrashesRecovered
<1>0. FilesOK /\ LinesTyped /\ MarksOK /\ HeadsOK /\ PastOK /\ Clean
  BY DEF Ready, IInv, EvidenceOK, ShapeOK
<1>1. Final = RouteLines(1)
  BY <1>0, RoutesOfTheLast
<1>2. WellFormedRoute(Final)
  BY <1>1, SealedRoutes, Constants
<1>3. \A s \in Earlier : s # {} /\ oplog[Min(s)].kind = "creation"
  BY <1>0, SegmentIs
<1>4. \A s \in Earlier : \A i \in s : i <= resumedAt /\ oplog[i].route = 1 /\ oplog[i].kind # "exit" /\ i \in DOMAIN oplog
  BY <1>0, SegmentIs
<1>5. \A s \in Earlier : Of(s, "exit") = {}
  BY <1>4 DEF Of
<1>6. ASSUME NEW s \in Earlier PROVE Transitions(s) \subseteq Transitions(Final)
  <2>1. CrashRecovered
    BY SealedRecovered DEF Ready
  <2>2. ASSUME NEW i \in Of(s, "invocation")
        PROVE  \E j \in Of(Final, "invocation") : oplog[j].event = oplog[i].event /\ oplog[j].state = oplog[i].state
    <3>1. i \in DOMAIN oplog /\ i <= resumedAt /\ oplog[i].kind = "invocation" /\ oplog[i].route = 1
      BY <1>4, <2>2 DEF Of
    <3>2. oplog[i] \in Before("invocation")
      BY <3>1 DEF Before
    <3>3. PICK f \in Own("invocation") : f.route = 1 /\ f.event = oplog[i].event /\ f.state = oplog[i].state
      BY <2>1, <3>1, <3>2 DEF CrashRecovered
    <3>4. PICK j \in DOMAIN oplog : j > resumedAt /\ oplog[j].kind = "invocation" /\ f = oplog[j]
      BY DEF Own
    <3>5. j \in OwnOf("invocation", 1)
      BY <3>3, <3>4 DEF OwnOf, OwnLines
    <3>6. j \in Of(Final, "invocation")
      BY <1>1, <3>5, KindsOfRoute
    <3> QED
      BY <3>3, <3>4, <3>6
  <2> QED
    BY <2>2 DEF Transitions
<1> QED
  BY <1>2, <1>3, <1>5, <1>6 DEF ParentHistory, CrashesRecovered

\* A set of invocations that handles each of the first n events once has n members.
LEMMA EventsCounted ==
    ASSUME NEW T, NEW n \in Nat, \A i \in T : oplog[i].event \in 0 .. n - 1,
           \A i, j \in T : oplog[i].event = oplog[j].event => i = j,
           \A k \in 0 .. n - 1 : \E i \in T : oplog[i].event = k
    PROVE  IsFiniteSet(T) /\ Cardinality(T) = n
<1> DEFINE S == 0 .. n - 1
           f == [i \in T |-> oplog[i].event]
<1>1. IsFiniteSet(S) /\ Cardinality(S) = n
  <2>1. 0 \in Int /\ n - 1 \in Int /\ (0 > n - 1 => n = 0) /\ (n - 1) - 0 + 1 = n
    OBVIOUS
  <2> QED
    BY <2>1, FS_Interval
<1>2. f \in Injection(T, S)
  BY DEF Injection, IsInjective
<1>3. f \in Surjection(T, S)
  BY DEF Surjection
<1> HIDE DEF f, S
<1> QED
  BY <1>1, <1>2, <1>3, FS_Injection

LEMMA OwnInvocations ==
    ASSUME FilesOK, LinesTyped, OrderedOK, NEW r
    PROVE  /\ \A i \in OwnOf("invocation", r) :
                 /\ i \in Nat /\ i \in DOMAIN oplog /\ oplog[i] \in Entries("invocation")
                 /\ oplog[i].kind = "invocation" /\ oplog[i].route = r /\ r \in 1 .. ForkRoute
                 /\ oplog[i].event \in Nat
                 /\ oplog[i].branch = "parent" <=> (r = ForkRoute => oplog[i].event < Len(Prefix))
           /\ \A i, j \in OwnOf("invocation", r) : i < j <=> oplog[i].event < oplog[j].event
           /\ \A i, j \in OwnOf("invocation", r) : oplog[i].event = oplog[j].event => i = j
<1>1. \A i \in OwnOf("invocation", r) :
          i \in OwnLines /\ i \in Nat /\ i \in DOMAIN oplog /\ oplog[i].kind = "invocation" /\ oplog[i].route = r
  BY OwnAre DEF OwnOf
<1>2. \A i \in OwnOf("invocation", r) :
          /\ r \in 1 .. ForkRoute /\ oplog[i].event \in Nat
          /\ oplog[i].branch = "parent" <=> (r = ForkRoute => oplog[i].event < Len(Prefix))
  BY <1>1 DEF LinesTyped, LineOK
<1>3. \A i \in OwnOf("invocation", r) : oplog[i] \in Entries("invocation")
  BY <1>1 DEF Entries
<1>4. \A i, j \in OwnOf("invocation", r) : i < j => oplog[i].event < oplog[j].event
  BY <1>1 DEF OrderedOK
<1>5. \A i, j \in OwnOf("invocation", r) : (i < j <=> oplog[i].event < oplog[j].event)
                                           /\ (oplog[i].event = oplog[j].event => i = j)
  BY <1>1, <1>2, <1>4
<1> QED
  BY <1>1, <1>2, <1>3, <1>5

\* A route that replays the parent's events handles them all, from the one it begins with.
LEMMA EventsHandled ==
    ASSUME Ready, NEW r \in 1 .. Recovered
    PROVE  /\ FirstEvent(r) \in Nat /\ AllEvents \in Nat
           /\ \A i \in OwnOf("invocation", r) : oplog[i].event \in FirstEvent(r) .. AllEvents - 1
           /\ \A k \in FirstEvent(r) .. AllEvents - 1 : \E i \in OwnOf("invocation", r) : oplog[i].event = k
<1>0. FilesOK /\ LinesTyped /\ OrderedOK /\ BegunOK /\ StepwiseOK /\ FullOK /\ RestoredOK /\ ExitsOK(Commits)
  BY DEF Ready, IInv, EvidenceOK, ShapeOK, ReplayOK, LinesOK
<1>1. r \in 1 .. ForkRoute /\ r # ForkRoute /\ Recovered \in 1 .. Recovered
  BY RoutesApart
<1>2. PICK x : x \in OwnOf("exit", r)
  BY <1>1, SealedRoutes
<1>3. x \in DOMAIN oplog /\ oplog[x].kind = "exit" /\ oplog[x].route = r
  BY <1>0, <1>2, OwnAre DEF OwnOf
<1>4. oplog[x].host = HostAt(Len(Program[1]))
  <2>1. oplog[x] \in Entries("exit")
    BY <1>3 DEF Entries
  <2> QED
    BY <1>0, <1>1, <1>3, <2>1 DEF ExitsOK, ExitSays
<1>5. oplog[x].host.event = AllEvents
  BY <1>4 DEF HostAt, AllEvents
<1>6. HandledUpTo(r, AllEvents)
  BY <1>0, <1>1, <1>2, <1>5 DEF FullOK
<1>7. PICK c : OwnOf("creation", r) = {c}
  BY <1>0, <1>2, RouteEnds
<1>8. c \in DOMAIN oplog /\ oplog[c].kind = "creation" /\ oplog[c].route = r /\ c \in OwnOf("creation", r)
  BY <1>0, <1>7, OwnAre DEF OwnOf
<1>9. oplog[c].host.event = FirstEvent(r) /\ oplog[c].host \in Cursors
  BY <1>0, <1>8 DEF RestoredOK, FirstEvent, Start0, LinesTyped, LineOK
<1>10. FirstEvent(r) \in Nat
  BY <1>9 DEF Cursors
<1>11. AllEvents \in Nat
  BY PassedIs, FirstLength DEF AllEvents
<1>12. ASSUME NEW i \in OwnOf("invocation", r) PROVE oplog[i].event \in FirstEvent(r) .. AllEvents - 1
  <2>1. oplog[i].event \in Nat
    BY <1>0, OwnInvocations
  <2>2. oplog[i].event < AllEvents
    BY <1>6 DEF HandledUpTo
  <2>3. oplog[c].host.event <= oplog[i].event
    BY <1>0, <1>1, <1>8 DEF StepwiseOK
  <2> QED
    BY <1>9, <1>10, <1>11, <2>1, <2>2, <2>3
<1>13. \A k \in FirstEvent(r) .. AllEvents - 1 : \E i \in OwnOf("invocation", r) : oplog[i].event = k
  BY <1>6, <1>8, <1>9 DEF HandledUpTo
<1> QED
  BY <1>10, <1>11, <1>12, <1>13

\* Two invocations of the parent's events, in whichever routes, that handle the same event.
LEMMA SameState ==
    ASSUME Ready, NEW r, NEW q, NEW i \in OwnOf("invocation", r), NEW j \in OwnOf("invocation", q),
           oplog[i].branch = "parent", oplog[j].branch = "parent", oplog[i].event = oplog[j].event
    PROVE  oplog[i].state = oplog[j].state
<1>1. FilesOK /\ LinesTyped /\ OrderedOK /\ OrderOK /\ InvocationsOK(Commits)
  BY DEF Ready, IInv, EvidenceOK, ShapeOK, ReplayOK, LinesOK
<1>2. oplog[i] \in Entries("invocation") /\ oplog[j] \in Entries("invocation")
  BY <1>1, OwnInvocations
<1> QED
  BY <1>1, <1>2, SameOutcome

\* The transitions of a route that replays are the parent's from where it begins.
LEMMA SameTransitions ==
    ASSUME Ready, NEW r \in 1 .. Recovered
    PROVE  Transitions(RouteLines(r)) =
               {t \in Transitions(RouteLines(1)) : t.event >= FirstEvent(r)}
<1> DEFINE I == OwnOf("invocation", r)
           J == OwnOf("invocation", 1)
           Step(i) == [event |-> oplog[i].event, state |-> oplog[i].state]
<1>0. FilesOK /\ LinesTyped /\ OrderedOK
  BY DEF Ready, IInv, EvidenceOK, ShapeOK
<1>1. r # ForkRoute /\ 1 # ForkRoute /\ 1 \in 1 .. Recovered /\ FirstEvent(1) = 0
  BY RoutesApart DEF FirstEvent
<1>2. Transitions(RouteLines(r)) = {Step(i) : i \in I} /\ Transitions(RouteLines(1)) = {Step(j) : j \in J}
  BY KindsOfRoute DEF Transitions
<1>3. /\ FirstEvent(r) \in Nat /\ AllEvents \in Nat
      /\ \A i \in I : oplog[i].event \in FirstEvent(r) .. AllEvents - 1
      /\ \A k \in FirstEvent(r) .. AllEvents - 1 : \E i \in I : oplog[i].event = k
      /\ \A j \in J : oplog[j].event \in 0 .. AllEvents - 1
      /\ \A k \in 0 .. AllEvents - 1 : \E j \in J : oplog[j].event = k
  BY <1>1, EventsHandled
<1>4. ASSUME NEW i \in I, NEW j \in J, oplog[i].event = oplog[j].event
      PROVE  Step(i) = Step(j)
  <2>1. oplog[i].branch = "parent" /\ oplog[j].branch = "parent"
    BY <1>0, <1>1, OwnInvocations
  <2>2. oplog[i].state = oplog[j].state
    BY <1>4, <2>1, SameState
  <2> QED
    BY <1>4, <2>2
<1>5. ASSUME NEW i \in I PROVE \E j \in J : Step(i) = Step(j) /\ oplog[i].event >= FirstEvent(r)
  <2>1. oplog[i].event \in 0 .. AllEvents - 1 /\ oplog[i].event >= FirstEvent(r)
    BY <1>3
  <2>2. PICK j \in J : oplog[j].event = oplog[i].event
    BY <1>3, <2>1
  <2> QED
    BY <1>4, <2>1, <2>2
<1>6. ASSUME NEW j \in J, oplog[j].event >= FirstEvent(r) PROVE \E i \in I : Step(i) = Step(j)
  <2>1. oplog[j].event \in FirstEvent(r) .. AllEvents - 1
    BY <1>3, <1>6
  <2>2. PICK i \in I : oplog[i].event = oplog[j].event
    BY <1>3, <2>1
  <2> QED
    BY <1>4, <2>2
<1>7. \A i : Step(i).event = oplog[i].event
  OBVIOUS
<1> HIDE DEF I, J, Step
<1> QED
  BY <1>2, <1>5, <1>6, <1>7

\* They end alike.
LEMMA SameEnds ==
    ASSUME Ready, NEW r \in 1 .. Recovered
    PROVE  oplog[Max(RouteLines(r))].state = oplog[Max(RouteLines(1))].state
           /\ oplog[Max(RouteLines(r))].host = oplog[Max(RouteLines(1))].host
<1>0. FilesOK /\ OrderedOK /\ BegunOK /\ ExitsOK(Commits) /\ JournalOK(Intents, Commits)
  BY DEF Ready, IInv, EvidenceOK, ShapeOK, ReplayOK, LinesOK, OrderOK
<1>1. \A q \in 1 .. Recovered : q \in 1 .. ForkRoute /\ q # ForkRoute
  BY RoutesApart
<1>2. ASSUME NEW q \in 1 .. Recovered PROVE ExitSays(Commits, oplog[Max(RouteLines(q))])
  <2>1. PICK x : x \in OwnOf("exit", q)
    BY <1>1, SealedRoutes
  <2>2. x = Max(RouteLines(q))
    BY <1>0, <2>1, RouteEnds
  <2>3. x \in DOMAIN oplog /\ oplog[x].kind = "exit" /\ oplog[x].route = q
    BY <1>0, <2>1, OwnAre DEF OwnOf
  <2>4. oplog[x] \in Entries("exit")
    BY <2>3 DEF Entries
  <2>5. ExitSays(Commits, oplog[x])
    BY <1>0, <1>1, <2>3, <2>4 DEF ExitsOK
  <2> QED
    BY <2>2, <2>5
<1>3. ExitSays(Commits, oplog[Max(RouteLines(r))]) /\ ExitSays(Commits, oplog[Max(RouteLines(1))])
  BY <1>2, RoutesApart
<1> QED
  BY <1>0, <1>3, ToldTheSame DEF ExitSays

\* The replays went through the transitions of the final history, the recovered route through
\* those from the checkpoint on, and they end as it does.
LEMMA AcceptsReplays ==
    ASSUME Ready
    PROVE  ReplayStable /\ CheckpointRecovered
<1>0. FilesOK /\ LinesTyped /\ MarksOK /\ PastOK /\ Clean /\ OrderedOK /\ BegunOK /\ RestoredOK
  BY DEF Ready, IInv, EvidenceOK, ShapeOK
<1>1. Final = RouteLines(1) /\ \A r \in 2 .. Recovered : r \in 1 .. Recovered /\ OfRoute(r) = RouteLines(r)
  BY <1>0, RoutesOfTheLast, RoutesApart
<1>2. \A r \in 2 .. Recovered : SameEnd(OfRoute(r))
  BY <1>1, SameEnds DEF SameEnd
<1>3. \A r \in 2 .. Recovered :
          Transitions(OfRoute(r)) = {t \in Transitions(Final) : t.event >= FirstEvent(r)}
  BY <1>1, SameTransitions
<1>4. ASSUME NEW r \in 2 .. Replays + 1 PROVE Transitions(OfRoute(r)) = Transitions(Final)
  <2>1. r \in 2 .. Recovered /\ FirstEvent(r) = 0
    BY RoutesApart DEF FirstEvent
  <2>2. \A t \in Transitions(Final) : t.event >= 0
    <3>1. \A i \in OwnOf("invocation", 1) : oplog[i].event \in Nat
      BY <1>0, OwnInvocations
    <3>2. Of(Final, "invocation") = OwnOf("invocation", 1)
      BY <1>1, KindsOfRoute
    <3> QED
      BY <3>1, <3>2 DEF Transitions
  <2> QED
    BY <1>3, <2>1, <2>2
<1>5. Recovered \in 2 .. Recovered /\ FirstEvent(Recovered) = published.host.event
  BY RoutesApart DEF FirstEvent
<1>6. oplog[Min(OfRoute(Recovered))].host = published.host
  <2>1. Recovered \in 1 .. ForkRoute
    BY RoutesApart
  <2>2. PICK x : x \in OwnOf("exit", Recovered)
    BY <2>1, SealedRoutes
  <2>3. PICK c : OwnOf("creation", Recovered) = {c} /\ Min(RouteLines(Recovered)) = c
    BY <1>0, <2>2, RouteEnds
  <2>4. c \in OwnOf("creation", Recovered)
    BY <2>3
  <2>5. c \in DOMAIN oplog /\ oplog[c].kind = "creation" /\ oplog[c].route = Recovered
    BY <1>0, <2>4, OwnAre DEF OwnOf
  <2>6. oplog[c].host = published.host
    BY <1>0, <2>5 DEF RestoredOK
  <2> QED
    BY <1>1, <1>5, <2>3, <2>6
<1>7. \A r \in 2 .. Replays + 1 : r \in 2 .. Recovered
  BY RoutesApart
<1> QED
  BY <1>2, <1>3, <1>4, <1>5, <1>6, <1>7 DEF ReplayStable, CheckpointRecovered

\* The published checkpoint is the journal's last.
LEMMA AcceptsCheckpoint ==
    ASSUME Ready
    PROVE  CheckpointMatches
<1>1. route = ForkRoute /\ ForkRoute > 1
  BY SealedRoutes, Constants
<1>2. saved = published /\ published # NoCheckpoint
  <2>1. OrderOK /\ CheckpointOK /\ SavedOK(Commits) /\ BeyondOK
    BY DEF Ready, ReplayOK, RoutesOK, CheckpointOK
  <2> QED
    BY <1>1, <2>1, HoldsPublished DEF BeyondOK
<1>3. LastTaken(published)
  BY <1>2 DEF Ready, EvidenceOK, ShapeOK, CutOK, Ending
<1>4. PICK i \in DOMAIN oplog :
          /\ oplog[i].kind = "checkpoint" /\ published = [host |-> oplog[i].host, seen |-> oplog[i].state]
          /\ \A j \in DOMAIN oplog : oplog[j].kind = "checkpoint" => j <= i
  BY <1>3 DEF LastTaken
<1> DEFINE cuts == Of(DOMAIN oplog, "checkpoint")
<1>5. i \in cuts /\ (\A j \in cuts : j <= i) /\ cuts \subseteq Nat
  <2>1. DOMAIN oplog \subseteq Nat
    <3>1. Len(oplog) \in Nat /\ DOMAIN oplog = 1 .. Len(oplog)
      BY JournalIs DEF Ready, IInv
    <3> QED
      BY <3>1
  <2> QED
    BY <1>4, <2>1 DEF Of
<1>6. Max(cuts) = i
  BY <1>5, LastOf
<1> QED
  BY <1>4, <1>5, <1>6 DEF CheckpointMatches

\* The fork handles the events of the prefix, and what it shares with the parent is these.
LEMMA SharedEvents ==
    ASSUME Ready
    PROVE  /\ Len(Prefix) \in Nat
           /\ \A k \in 0 .. Len(Prefix) - 1 : \E i \in OwnOf("invocation", ForkRoute) : oplog[i].event = k
<1>0. /\ FilesOK /\ LinesTyped /\ CurrentOK /\ RestoredOK /\ PositionOK /\ PlaceOK
  BY DEF Ready, IInv, EvidenceOK, ShapeOK, OrderOK
<1>1. /\ route = ForkRoute /\ pc \in Ending /\ pc \notin InEffect /\ route # Recovered /\ ForkRoute \in 1 .. ForkRoute
  BY SealedRoutes, RoutesApart, Constants DEF Ready, Ending, InEffect
<1>2. PICK n : n = Shared(ForkRoute) + 1
  OBVIOUS
<1>3. /\ Count(ForkRoute, n, "invoke") = Len(Prefix) /\ Len(Prefix) \in Nat /\ n \in Nat
      /\ n \in 1 .. Len(Program[ForkRoute])
  BY <1>1, <1>2, PrefixHandled, RouteStarts
<1>4. at = Len(Program[ForkRoute]) /\ at \in Nat
  BY <1>0, <1>1, Here DEF PlaceOK
<1>5. host.event = Count(ForkRoute, at, "invoke")
  BY <1>0, <1>1 DEF PlaceOK
<1>6. Len(Prefix) <= host.event /\ host.event \in Nat
  <2>1. n <= at
    BY <1>3, <1>4
  <2> QED
    BY <1>3, <1>4, <1>5, <2>1, CountMonotone, PassedIs
<1>7. HandledUpTo(ForkRoute, host.event)
  BY <1>0, <1>1 DEF CurrentOK, MidwayAt
<1>8. PICK c : c \in OwnOf("creation", ForkRoute)
  BY <1>0, <1>1 DEF CurrentOK, MidwayAt
<1>9. oplog[c].host = Start0
  <2>1. c \in DOMAIN oplog /\ oplog[c].kind = "creation" /\ oplog[c].route = ForkRoute
    BY <1>0, <1>8, OwnAre DEF OwnOf
  <2> QED
    BY <1>0, <1>1, <2>1 DEF RestoredOK
<1>10. oplog[c].host.event = 0
  BY <1>9 DEF Start0
<1>11. \A k \in 0 .. host.event - 1 : \E i \in OwnOf("invocation", ForkRoute) : oplog[i].event = k
  BY <1>7, <1>8, <1>10 DEF HandledUpTo
<1> QED
  BY <1>3, <1>6, <1>11

\* The prefix of the fork is that of the parent route.
LEMMA AcceptsFork ==
    ASSUME Ready
    PROVE  BranchMatches
<1> DEFINE L == Len(Prefix)
           I == OwnOf("invocation", ForkRoute)
           J == OwnOf("invocation", 1)
           S == {i \in I : oplog[i].branch = "parent"}
           F == {j \in J : oplog[j].event < L}
           Step(i) == [event |-> oplog[i].event, state |-> oplog[i].state]
<1>0. /\ FilesOK /\ LinesTyped /\ MarksOK /\ PastOK /\ Clean /\ OrderedOK
      /\ InvocationsOK(Commits)
  BY DEF Ready, IInv, EvidenceOK, ShapeOK, ReplayOK, LinesOK
<1>1. /\ 1 # ForkRoute /\ 1 \in 1 .. Recovered /\ FirstEvent(1) = 0
      /\ OfRoute(ForkRoute) = RouteLines(ForkRoute) /\ Final = RouteLines(1)
  BY <1>0, RoutesApart, RoutesOfTheLast DEF FirstEvent
<1>2. Of(OfRoute(ForkRoute), "invocation") = I /\ Of(Final, "invocation") = J
  BY <1>1, KindsOfRoute
<1>3. /\ \A i \in I : oplog[i].event \in Nat /\ (oplog[i].branch = "parent" <=> oplog[i].event < L)
                      /\ oplog[i] \in Entries("invocation")
      /\ \A i, j \in I : oplog[i].event = oplog[j].event => i = j
  BY <1>0, OwnInvocations
<1>4. /\ \A j \in J : oplog[j].event \in Nat /\ oplog[j].branch = "parent"
      /\ \A i, j \in J : (oplog[i].event = oplog[j].event => i = j)
                         /\ (i < j <=> oplog[i].event < oplog[j].event)
  BY <1>0, <1>1, OwnInvocations
<1>5. L \in Nat /\ \A k \in 0 .. L - 1 : \E i \in I : oplog[i].event = k
  BY SharedEvents
<1>6. /\ AllEvents \in Nat
      /\ \A j \in J : oplog[j].event \in 0 .. AllEvents - 1
      /\ \A k \in 0 .. AllEvents - 1 : \E j \in J : oplog[j].event = k
  BY <1>1, EventsHandled
<1>7. \A i \in S : i \in I /\ oplog[i].event \in 0 .. L - 1
  BY <1>3, <1>5
<1>8. \A k \in 0 .. L - 1 : \E i \in S : oplog[i].event = k
  BY <1>3, <1>5
<1>9. Cardinality(S) = L
  BY <1>3, <1>5, <1>7, <1>8, EventsCounted
\* The parent handles these events too.
<1>10. ASSUME NEW i \in S PROVE \E j \in F : Step(i) = Step(j)
  <2>1. oplog[i].event < L /\ oplog[i].event \in Nat /\ i \in I /\ oplog[i].branch = "parent"
    BY <1>3
  <2>2. InvocationSays(Commits, oplog[i])
    BY <1>0, <1>3, <2>1 DEF InvocationsOK
  <2>3. PICK a : InvokedAt(Commits, oplog[i], 1, a)
    BY <2>1, <2>2 DEF InvocationSays
  <2>4. /\ a \in 1 .. Len(Program[1]) /\ Program[1][a].do = "invoke" /\ oplog[i].event = Count(1, a, "invoke")
    BY <2>3 DEF InvokedAt
  <2>5. a \in Nat \ {0} /\ Len(Program[1]) \in Nat /\ a < Len(Program[1])
    <3>1. Len(Program[1]) \in Nat \ {0} /\ Program[1][Len(Program[1])].do = "exit"
      BY Constants, RouteIsSeq
    <3>2. a # Len(Program[1])
      BY <2>4, <3>1
    <3> QED
      BY <2>4, <3>1, <3>2
  <2>6. oplog[i].event < AllEvents
    BY <2>4, <2>5, CountGrows DEF AllEvents
  <2>7. PICK j \in J : oplog[j].event = oplog[i].event
    BY <1>6, <2>1, <2>6
  <2>8. oplog[i].state = oplog[j].state
    BY <1>4, <2>1, <2>7, SameState
  <2> QED
    BY <2>1, <2>7, <2>8
<1>11. ASSUME NEW j \in F PROVE \E i \in S : Step(i) = Step(j)
  <2>1. j \in J /\ oplog[j].event \in 0 .. L - 1 /\ oplog[j].branch = "parent"
    BY <1>4, <1>5
  <2>2. PICK i \in S : oplog[i].event = oplog[j].event
    BY <1>8, <2>1
  <2>3. oplog[i].state = oplog[j].state
    BY <2>1, <2>2, SameState
  <2> QED
    BY <2>2, <2>3
\* Those before j are as many as its event.
<1>12. ASSUME NEW j \in J PROVE Cardinality({k \in J : k < j}) = oplog[j].event
  <2> DEFINE T == {k \in J : k < j}
             n == oplog[j].event
  <2>1. n \in Nat /\ n < AllEvents
    BY <1>6
  <2>2. \A k \in T : k \in J /\ oplog[k].event \in 0 .. n - 1
    BY <1>4, <2>1
  <2>3. \A m \in 0 .. n - 1 : \E k \in T : oplog[k].event = m
    <3>1. ASSUME NEW m \in 0 .. n - 1 PROVE \E k \in T : oplog[k].event = m
      <4>1. m \in 0 .. AllEvents - 1
        BY <1>6, <2>1
      <4>2. PICK k \in J : oplog[k].event = m
        BY <1>6, <4>1
      <4>3. k < j
        BY <1>4, <2>1, <4>2
      <4> QED
        BY <4>2, <4>3
    <3> QED
      BY <3>1
  <2>4. \A k, l \in T : oplog[k].event = oplog[l].event => k = l
    BY <1>4
  <2> HIDE DEF T, n
  <2>5. Cardinality(T) = n
    BY <2>1, <2>2, <2>3, <2>4, EventsCounted
  <2> QED
    BY <2>5 DEF T, n
<1>13. Foremost(J, L) = F
  BY <1>12 DEF Foremost
<1>14. /\ \A i \in I : oplog[i].kind = "invocation"
       /\ \A j \in J : oplog[j].kind = "invocation"
  BY DEF OwnOf
<1>15. Transitions(S) = {Step(i) : i \in S} /\ Transitions(F) = {Step(j) : j \in F}
  <2>1. Of(S, "invocation") = S /\ Of(F, "invocation") = F
    BY <1>14 DEF Of
  <2> QED
    BY <2>1 DEF Transitions
<1> HIDE DEF Step, S, F
<1>16. Transitions(S) = Transitions(F)
  <2>1. ASSUME NEW t \in Transitions(S) PROVE t \in Transitions(F)
    <3>1. PICK i \in S : t = Step(i)
      BY <1>15
    <3>2. PICK j \in F : Step(i) = Step(j)
      BY <1>10
    <3> QED
      BY <1>15, <3>1, <3>2
  <2>2. ASSUME NEW t \in Transitions(F) PROVE t \in Transitions(S)
    <3>1. PICK j \in F : t = Step(j)
      BY <1>15
    <3>2. PICK i \in S : Step(i) = Step(j)
      BY <1>11
    <3> QED
      BY <1>15, <3>1, <3>2
  <2> QED
    BY <2>1, <2>2
<1> HIDE DEF I, J, L
<1>17. L = Len(Prefix)
  BY DEF L
<1>18. {i \in Of(OfRoute(ForkRoute), "invocation") : oplog[i].branch = "parent"} = S
  BY <1>2 DEF S
<1> QED
  BY <1>2, <1>9, <1>13, <1>16, <1>17, <1>18 DEF BranchMatches

\* The effects, of which the provider's log holds each once.
LEMMA AcceptsEffects ==
    ASSUME Ready, LogIntact
    PROVE  EffectsExactlyOnce
<1>0. /\ IInv /\ PositionOK /\ OrderOK /\ ReplayOK /\ EndOK /\ pc = "seal" /\ FilesOK
      /\ Effects /\ DeliveredOK /\ DuplicatesOK /\ CommitsWereExecuted
      /\ JournalOK(Intents, Commits) /\ PlaceOK
  BY DEF Ready, IInv, EvidenceOK, EndsOK, ReplayOK, LinesOK, ConversationOK, OrderOK
<1>1. ExactlyOnce
  BY <1>0, SealedOnce
<1>2. \A i, j \in Executions : plog[i].key = plog[j].key => i = j
  BY <1>1 DEF ExactlyOnce
<1>3. {plog[i].key : i \in Executions} = {c.key : c \in Entries("commit")}
  BY <1>1 DEF ExactlyOnce
<1>4. \A x : Bound(x).key = x.key
  BY DEF Bound
<1>5. ASSUME NEW i \in Executions PROVE \E c \in Entries("commit") : Bound(c) = Bound(plog[i])
  <2>1. PICK c \in Entries("commit") : c.key = plog[i].key
    BY <1>3
  <2>2. PICK j \in Executions : Bound(plog[j]) = Bound(c)
    BY <1>0 DEF CommitsWereExecuted
  <2>3. plog[j].key = plog[i].key
    BY <1>4, <2>1, <2>2
  <2>4. i = j
    BY <1>2, <2>3
  <2> QED
    BY <2>2, <2>4
<1>6. ProviderConsistent
  <2>1. ASSUME NEW i \in DOMAIN plog, plog[i].status \in {"executed", "duplicate"}
        PROVE  \E c \in Entries("commit") : Bound(c) = Bound(plog[i])
    <3>1. Bound(plog[i]) \in Bounds
      BY <1>0, <2>1 DEF DuplicatesOK, Bounds, Executions
    <3>2. PICK j \in Executions : Bound(plog[i]) = Bound(plog[j])
      BY <3>1 DEF Bounds
    <3> QED
      BY <1>5, <3>2
  <2> QED
    BY <2>1 DEF ProviderConsistent
<1>7. ASSUME NEW e \in Entries("result") PROVE \E c \in Entries("commit") : c.key = e.key
  <2>1. PICK i \in DOMAIN oplog : oplog[i].kind = "result" /\ e = oplog[i]
    BY DEF Entries
  <2>2. EffectInOrder(i)
    BY <1>0, <2>1 DEF Effects
  <2>3. PICK j \in PriorOf(i, "commit") : oplog[j].result = oplog[i].result
    BY <2>1, <2>2 DEF EffectInOrder
  <2>4. j \in DOMAIN oplog /\ oplog[j].kind = "commit" /\ oplog[j].key = oplog[i].key
    <3>1. Len(oplog) \in Nat /\ DOMAIN oplog = 1 .. Len(oplog)
      BY <1>0, JournalIs
    <3> QED
      BY <2>1, <2>3, <3>1 DEF PriorOf
  <2> QED
    BY <2>1, <2>4 DEF Entries
<1>8. ASSUME NEW c \in Entries("commit") PROVE \E e \in Entries("result") : e.key = c.key
  <2>1. PICK r, a : Records(r, a) /\ c.key = KeyAt(r, a)
    BY <1>0 DEF JournalOK, MarkedIn, Commits
  <2>2. route = ForkRoute /\ Op.do = "exit" /\ ForkRoute > 1
    BY <1>0, Constants DEF EndOK, PlaceOK, Ending
  <2>3. at = Len(Program[route]) /\ Op = Program[route][at] /\ Len(Program[route]) \in Nat
    BY <1>0, <2>2, Here
  <2>4. r = ForkRoute => a < at
    BY <2>1, <2>2, <2>3 DEF Records
  <2>5. IsBehind(c.key, route, at)
    BY <2>1, <2>2, <2>4 DEF IsBehind, Records
  <2>6. Has(Entries("result"), c.key)
    BY <1>0, <2>5 DEF DeliveredOK
  <2> QED
    BY <2>6 DEF Has
<1>9. {e.key : e \in Entries("result")} = {c.key : c \in Entries("commit")}
  BY <1>7, <1>8
<1>10. \A i \in Entries("intent") : DanglingOf(i.key) = {}
  BY <1>1 DEF ExactlyOnce
<1> QED
  BY <1>2, <1>3, <1>6, <1>9, <1>10 DEF EffectsExactlyOnce

\* What a run that is about to complete leaves behind is evidence of everything it can claim.
LEMMA SealedAccepts ==
    ASSUME Ready, LogIntact, ~ptorn
    PROVE  /\ Accepted /\ ReplayStable /\ CheckpointRecovered /\ EffectsExactlyOnce /\ CrashesRecovered
<1>1. Routes /\ ParentHistory /\ CrashesRecovered /\ ReplayStable /\ CheckpointRecovered
      /\ CheckpointMatches /\ BranchMatches /\ EffectsExactlyOnce
  BY AcceptsRoutes, AcceptsParent, AcceptsReplays, AcceptsCheckpoint, AcceptsFork, AcceptsEffects
<1>2. Effects
  BY DEF Ready, EvidenceOK, EndsOK
<1>3. ReceiptConsistent
  BY <1>1 DEF ReceiptConsistent
<1> QED
  BY <1>1, <1>2, <1>3 DEF Accepted

-----------------------------------------------------------------------------
\* The evidence of a run that is complete stays what it is.

\* A run that is complete, and whose interrupted processes are clean, is accepted.
AcceptedOK == runState = "complete" /\ Clean => Accepted

\* Everything that the verifier reads, except the receipt.
SameEvidence == UNCHANGED <<oplog, published, plog, ptorn>>

LEMMA SameVerdict ==
    ASSUME SameEvidence
    PROVE  /\ Clean' = Clean /\ Routes' = Routes /\ ParentHistory' = ParentHistory /\ Effects' = Effects
           /\ LogIntact' = LogIntact /\ CheckpointMatches' = CheckpointMatches
           /\ BranchMatches' = BranchMatches
           /\ ReplayStable' = ReplayStable /\ CheckpointRecovered' = CheckpointRecovered
           /\ EffectsExactlyOnce' = EffectsExactlyOnce /\ CrashesRecovered' = CrashesRecovered
<1>1. oplog' = oplog /\ published' = published /\ plog' = plog /\ ptorn' = ptorn
  BY DEF SameEvidence
<1> USE <1>1
<1>2. \A r : OfRoute(r)' = OfRoute(r)
  BY DEF OfRoute
<1>3. \A is, kind : Of(is, kind)' = Of(is, kind)
  BY DEF Of
<1>4. \A is : Transitions(is)' = Transitions(is)
  BY <1>3 DEF Transitions
<1>5. \A is : WellFormedRoute(is)' = WellFormedRoute(is)
  BY <1>3 DEF WellFormedRoute, Continuous
<1>6. Resumes' = Resumes /\ Cuts' = Cuts
  BY <1>2, <1>3 DEF Resumes, Cuts
<1>7. \A m : Segment(m)' = Segment(m)
  BY <1>2, <1>6 DEF Segment
<1>8. Final' = Final /\ Earlier' = Earlier
  BY <1>6, <1>7 DEF Final, Earlier
<1>9. \A is : SameEnd(is)' = SameEnd(is)
  BY <1>8 DEF SameEnd
<1>10. \A kind : Entries(kind)' = Entries(kind)
  BY DEF Entries
<1>11. Executions' = Executions
  BY DEF Executions
<1>12. Clean' = Clean
  BY DEF Clean, ResumedInParent
<1>13. Routes' = Routes
  BY <1>2, <1>5 DEF Routes
<1>14. ParentHistory' = ParentHistory
  BY <1>3, <1>5, <1>8 DEF ParentHistory
<1>15. Effects' = Effects
  BY DEF Effects, EffectInOrder, Journaled, PriorOf, SameFields
<1>16. LogIntact' = LogIntact
  BY DEF LogIntact
<1>17. CheckpointMatches' = CheckpointMatches
  BY <1>3 DEF CheckpointMatches
<1>18. BranchMatches' = BranchMatches
  BY <1>2, <1>3, <1>4, <1>8 DEF BranchMatches, Foremost
<1>19. ReplayStable' = ReplayStable
  BY <1>2, <1>4, <1>8, <1>9 DEF ReplayStable
<1>20. CheckpointRecovered' = CheckpointRecovered
  BY <1>2, <1>4, <1>8, <1>9 DEF CheckpointRecovered
<1>21. EffectsExactlyOnce' = EffectsExactlyOnce
  <2>1. \A k : DanglingOf(k)' = DanglingOf(k)
    BY <1>10 DEF DanglingOf, CommitsOf
  <2>2. ProviderConsistent' = ProviderConsistent
    BY <1>10 DEF ProviderConsistent, Bound
  <2>3. (\A i \in Entries("intent") : DanglingOf(i.key) = {})' = (\A i \in Entries("intent") : DanglingOf(i.key) = {})
    BY <1>10, <2>1
  <2>4. (\A i, j \in Executions : plog[i].key = plog[j].key => i = j)'
            = (\A i, j \in Executions : plog[i].key = plog[j].key => i = j)
    BY <1>11
  <2>5. {plog[i].key : i \in Executions}' = {plog[i].key : i \in Executions}
    BY <1>11
  <2>6. /\ {c.key : c \in Entries("commit")}' = {c.key : c \in Entries("commit")}
        /\ {e.key : e \in Entries("result")}' = {e.key : e \in Entries("result")}
    BY <1>10
  <2> QED
    BY <2>2, <2>3, <2>4, <2>5, <2>6 DEF EffectsExactlyOnce
<1>22. CrashesRecovered' = CrashesRecovered
  BY <1>4, <1>8 DEF CrashesRecovered
<1> QED
  BY <1>12, <1>13, <1>14, <1>15, <1>16, <1>17, <1>18, <1>19, <1>20, <1>21, <1>22

\* An executor that is about to seal seals; one that has sealed reports.
LEMMA LastSteps ==
    ASSUME ExecutorStep, pc \in {"seal", "report"}
    PROVE  Seal \/ Report
<1>1. /\ ~WriteRunState /\ ~Ensure /\ ~EnsureSpawns /\ ~EnsureSucceeds /\ ~EnsureTimesOut
      /\ ~AskEffect /\ ~JournalIntent /\ ~CallProvider
  BY DEF WriteRunState, Ensure, EnsureSpawns, EnsureSucceeds, EnsureTimesOut, AskEffect, Reaches,
         JournalIntent, CallProvider
<1>2. /\ ~FromJournal /\ ~Reissue /\ ~ProviderReplies /\ ~ProviderHangsUp /\ ~JournalCommit
      /\ ~DeliverFromProvider
  BY DEF FromJournal, Reissue, ProviderReplies, ProviderHangsUp, JournalCommit, DeliverFromProvider
<1>3. /\ ~FinishEvent /\ ~TakeCheckpoint /\ ~ExitRoute /\ ~PublishCheckpoint /\ ~NextRoute
      /\ ~StopProvider /\ ~ProviderStopped
  BY DEF FinishEvent, TakeCheckpoint, ExitRoute, Reaches, PublishCheckpoint, NextRoute, StopProvider,
         ProviderStopped
<1> QED
  BY <1>1, <1>2, <1>3 DEF ExecutorStep

\* A run completes by a seal, which leaves what the verifier reads as it is.
LEMMA CompletesBySealing ==
    ASSUME [Next]_vars, runState' = "complete", runState # "complete"
    PROVE  pc = "seal" /\ LogIntact /\ ~ptorn /\ SameEvidence
<1> USE DEF files, executorVars, vars
<1>1. CASE ExecutorStep
  <2>1. pc = "seal"
    BY <1>1, Comings
  <2>2. Seal
    BY <1>1, <2>1, LastSteps DEF Report
  <2>3. LogIntact /\ ~ptorn
    BY <2>2 DEF Seal, GiveUp
  <2>4. UNCHANGED <<oplog, published, plog, ptorn>>
    BY <2>2, <2>3 DEF Seal, providerVars
  <2> QED
    BY <2>1, <2>3, <2>4 DEF SameEvidence
<1>2. CASE Start \/ Resume \/ ExecutorDies
  BY <1>2 DEF Start, Resume, ExecutorDies
<1>3. ASSUME NEW p \in Providers, ProviderStep(p) \/ ProviderKilled(p) PROVE FALSE
  BY <1>3 DEF ProviderStep, ProviderKilled
<1>4. CASE UNCHANGED vars
  BY <1>4
<1> QED
  BY <1>1, <1>2, <1>3, <1>4 DEF Next

\* Nothing the verifier reads changes behind it, with no provider process left.
LEMMA CompleteIsLeftAlone ==
    ASSUME [Next]_vars, CompleteOK, runState = "complete"
    PROVE  oplog' = oplog /\ receipt' = receipt /\ (AllOff => SameEvidence)
<1> USE DEF files, bookkeeping, executorVars, vars, SameEvidence
<1>0. pc \in {"report", "done"} \/ (pc = "down" /\ runs # 0)
  BY DEF CompleteOK
<1>1. CASE ExecutorStep
  <2>1. pc = "report"
    BY <1>0, <1>1, Comings
  <2>2. Report
    BY <1>1, <2>1, LastSteps DEF Seal
  <2> QED
    BY <2>2 DEF Report, providerVars
<1>2. CASE Start \/ Resume
  BY <1>0, <1>2 DEF Start, Resume
<1>3. CASE ExecutorDies
  BY <1>3 DEF ExecutorDies
<1>4. ASSUME NEW p \in Providers, ProviderStep(p) \/ ProviderKilled(p)
      PROVE  oplog' = oplog /\ receipt' = receipt /\ ~AllOff
  <2>1. prov[p].st # "off"
    BY <1>4 DEF ProviderStep, ProviderKilled, ProviderDies, Bind, Rebuild, Announce, Serve
  <2> QED
    BY <1>4, <2>1 DEF AllOff, ProviderStep, ProviderKilled
<1>5. CASE UNCHANGED vars
  BY <1>5 DEF providerVars
<1> QED
  BY <1>1, <1>2, <1>3, <1>4, <1>5 DEF Next

LEMMA AcceptedKept ==
    ASSUME [Next]_vars, IInv, OrderOK, CheckpointOK, ReplayOK, EvidenceOK, AcceptedOK
    PROVE  AcceptedOK'
<1>1. SUFFICES ASSUME runState' = "complete", Clean' PROVE Accepted'
  BY DEF AcceptedOK
<1>2. CompleteOK /\ LonelyOK
  BY DEF EvidenceOK, EndsOK
<1>3. CASE runState # "complete"
  <2>1. pc = "seal" /\ LogIntact /\ ~ptorn /\ SameEvidence
    BY <1>1, <1>3, CompletesBySealing
  <2>2. Ready
    BY <1>1, <2>1, SameVerdict DEF Ready
  <2>3. /\ Routes /\ ParentHistory /\ Effects /\ CheckpointMatches /\ BranchMatches
        /\ ReplayStable /\ CheckpointRecovered /\ EffectsExactlyOnce /\ CrashesRecovered
    BY <2>1, <2>2, SealedAccepts DEF Accepted
  <2>4. ReceiptConsistent'
    BY <2>1, <2>3, SameVerdict DEF ReceiptConsistent
  <2> QED
    BY <2>1, <2>3, <2>4, SameVerdict DEF Accepted, SameEvidence
<1>4. CASE runState = "complete"
  <2>1. CASE AllOff
    <3>1. SameEvidence /\ receipt' = receipt
      BY <1>2, <1>4, <2>1, CompleteIsLeftAlone
    <3>2. Accepted
      BY <1>1, <1>4, <3>1, SameVerdict DEF AcceptedOK
    <3>3. ReceiptConsistent'
      BY <3>1, <3>2, SameVerdict DEF ReceiptConsistent, Accepted
    <3> QED
      BY <3>1, <3>2, <3>3, SameVerdict DEF Accepted, SameEvidence
  <2>2. CASE ~AllOff
    <3>1. ~Clean
      BY <1>2, <1>4, <2>2 DEF LonelyOK
    <3>2. Clean' => Clean
      BY <1>2, <1>4, CompleteIsLeftAlone, CleanBefore DEF IInv
    <3> QED
      BY <1>1, <3>1, <3>2
  <2> QED
    BY <2>1, <2>2
<1> QED
  BY <1>3, <1>4

\* RuntimeEvidence.verify accepts the evidence of a completed run exactly if every process
\* that was interrupted had begun its parent route and had not left it: of an honest run it
\* refuses nothing else, whatever was killed and whenever.
THEOREM VerdictIsExactAlways ==
    Spec => []VerdictIsExact
<1>1. Init => AcceptedOK
  BY DEF Init, AcceptedOK
<1>2. IInv /\ OrderOK /\ CheckpointOK /\ ReplayOK /\ EvidenceOK /\ AcceptedOK /\ [Next]_vars => AcceptedOK'
  BY AcceptedKept
<1>3. IInv /\ EvidenceOK /\ AcceptedOK => VerdictIsExact
  <2>1. ASSUME IInv, EvidenceOK, ~Clean PROVE ~Accepted
    BY <2>1, RefusesUnclean DEF IInv, EvidenceOK, ShapeOK, Accepted
  <2> QED
    BY <2>1 DEF VerdictIsExact, AcceptedOK, Clean
<1> QED
  BY <1>1, <1>2, <1>3, RunInvariant, OrderInvariant, CheckpointInvariant, ReplayInvariant,
     EvidenceInvariant, PTL DEF Spec
=============================================================================
