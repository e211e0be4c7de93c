----------------------------- MODULE DurableRun -----------------------------
(***************************************************************************)
(* One durable run of the Wasm executor (spike/wasm/executor/src/lib.rs)   *)
(* together with its effect provider. The executor drives a deterministic  *)
(* guest through a scenario in several routes - parent, replays, recovery  *)
(* from the checkpoint, fork - and appends every step to oplog.jsonl. An   *)
(* effect is journaled as an intent, performed by the provider, journaled  *)
(* as a commit and only then delivered. The executor and the provider may  *)
(* be killed anywhere, a line being appended may be torn, and an operator  *)
(* resumes the run in a new process.                                       *)
(*                                                                         *)
(* One action per durable step. An event is the sequence of the effects    *)
(* the guest asks for while handling it, and the guest's state is what it  *)
(* was answered so far: a request depends on nothing else.                 *)
(***************************************************************************)
EXTENDS EffectProvider

CONSTANTS
    Prefix, Parent, Fork,  \* the scenario's events, each a sequence of effect names
    CheckpointIndex,       \* after how many events the checkpoint is taken
    Replays,               \* replay_count
    MaxFaults              \* bound: kills and start-up timeouts

ASSUME ScenarioAssumption ==
    /\ Prefix \in Seq(Seq(Names)) /\ Parent \in Seq(Seq(Names)) /\ Fork \in Seq(Seq(Names))
    /\ CheckpointIndex \in 0 .. Len(Prefix) + Len(Parent)
    /\ Replays \in Nat \ {0} /\ MaxFaults \in Nat

VARIABLES
    pc,           \* where the executor process is; "down" when there is none
    route,        \* the route it executes, an index of Program
    at,           \* the next operation of the route
    host,         \* HostState's cursors [event, effect]
    seen,         \* the guest's state: the results delivered to it
    saved,        \* the checkpoint it holds, [host, seen], or NoCheckpoint
    resumedAt,    \* length of the journal it resumed from, 0 for a fresh run
    oplog,        \* oplog.jsonl, without a torn last line
    torn,         \* it ends in a torn line
    runState,     \* status in run.json: "none", "running", "complete"
    published,    \* checkpoint.json
    receipt,      \* what the finished run established, or NoReceipt
    error,        \* why the last process gave up, "none" otherwise
    runs,         \* processes started
    faults,
    overlapped    \* history: two provider processes were alive at once

position     == <<route, at, host, seen>>
files        == <<oplog, torn, runState, published>>
bookkeeping  == <<saved, resumedAt, receipt, error, runs, faults, overlapped>>
executorVars == <<pc, position, files, bookkeeping>>
vars         == <<executorVars, providerVars>>

NoCheckpoint == [seen |-> <<"none">>, host |-> [event |-> 0, effect |-> 0]]
NoReceipt    == [passed |-> FALSE]

-----------------------------------------------------------------------------
\* The routes as straight-line programs.

EffectOp(n, b, m) == [do |-> "effect", name |-> n, branch |-> b, mode |-> m]

EventOps(event, b, m) ==
    [i \in DOMAIN event |-> EffectOp(event[i], b, m)] \o <<[do |-> "invoke", branch |-> b]>>

\* checkpoint_after is the parent route's: it never fires for index 0.
Ops(events, b, m, cut) ==
    FlattenSeq([i \in DOMAIN events |->
        EventOps(events[i], b, m) \o
            IF i = cut THEN <<[do |-> "checkpoint", branch |-> b]>> ELSE <<>>])

ParentEvents == Prefix \o Parent

Recovered == Replays + 2
ForkRoute == Replays + 3

Program ==
    LET exit == <<[do |-> "exit"]>>
    IN  [r \in 1 .. ForkRoute |->
            IF r = 1 THEN Ops(ParentEvents, "parent", "record", CheckpointIndex) \o exit
            ELSE IF r <= Replays + 1 THEN Ops(ParentEvents, "parent", "replay", 0) \o exit
            ELSE IF r = Recovered
            THEN Ops(SubSeq(ParentEvents, CheckpointIndex + 1, Len(ParentEvents)),
                     "parent", "replay", 0) \o exit
            ELSE Ops(Prefix, "parent", "replay", 0) \o Ops(Fork, "fork", "record", 0) \o exit]

Op == Program[route][at]

\* Effect identity: the position on the branch. The payload is the guest's.
Key(h)  == [branch |-> Op.branch, event |-> h.event, effect |-> h.effect]
Request == [seen |-> seen]

-----------------------------------------------------------------------------
\* The journal.

Write(line) == oplog' = Append(oplog, line) /\ UNCHANGED <<torn, runState, published>>

Entries(kind) == {oplog[i] : i \in {j \in DOMAIN oplog : oplog[j].kind = kind}}

\* journal_from: an intent is dangling until its key is committed.
CommitsOf(k)  == {e \in Entries("commit") : e.key = k}
DanglingOf(k) == {e \in Entries("intent") : e.key = k /\ CommitsOf(k) = {}}

\* The effect being performed. The cursor has already moved past it.
Current == [key     |-> Key([host EXCEPT !.effect = @ - 1]),
            name    |-> Op.name,
            request |-> Request]

EffectLine(kind) == [kind |-> kind, route |-> route, key |-> Current.key,
                     name |-> Current.name, request |-> Current.request]

CommitLine == [kind |-> "commit", route |-> route, key |-> Current.key, name |-> Current.name,
               request |-> Current.request, result |-> answer.result, status |-> answer.status]

ResultLine(result, source) == [kind |-> "result", route |-> route, key |-> Current.key,
                               source |-> source, result |-> result]

StateLine(kind) == [kind |-> kind, route |-> route, host |-> host, state |-> seen]

Matches(e) == e.name = Op.name /\ e.request = Request

-----------------------------------------------------------------------------
Init ==
    /\ pc = "down" /\ route = 1 /\ at = 1
    /\ host = [event |-> 0, effect |-> 0] /\ seen = <<>>
    /\ saved = NoCheckpoint /\ resumedAt = 0
    /\ oplog = <<>> /\ torn = FALSE /\ runState = "none" /\ published = NoCheckpoint
    /\ receipt = NoReceipt /\ error = "none" /\ runs = 0 /\ faults = 0
    /\ overlapped = FALSE
    /\ ProviderInit

-----------------------------------------------------------------------------
\* Start and resume.

\* A fresh run creates the journal and refuses to when there is one.
Start ==
    /\ pc = "down" /\ runs = 0
    /\ pc' = "opened"
    /\ runs' = 1 /\ error' = "none" /\ resumedAt' = 0
    /\ UNCHANGED <<position, files, saved, receipt, faults, overlapped, providerVars>>

\* Mutant of Resume: the torn line is not cut off.
ResumeBehindTorn ==
    /\ pc = "down" /\ runs <= MaxFaults
    /\ runState = "running"
    /\ pc' = "opened"
    /\ runs' = runs + 1 /\ error' = "none" /\ resumedAt' = Len(oplog)
    /\ oplog' = Append(oplog, [kind |-> "resume", route |-> 1])
    /\ UNCHANGED <<torn, position, runState, published, saved, receipt, faults, overlapped, providerVars>>

\* A resumed run needs run.json and a run that is not complete; it cuts a torn line
\* off the journal and marks the boundary.
Resume ==
    /\ pc = "down" /\ runs <= MaxFaults
    /\ runState = "running"
    /\ pc' = "opened"
    /\ runs' = runs + 1 /\ error' = "none" /\ resumedAt' = Len(oplog)
    /\ torn' = FALSE
    /\ oplog' = Append(oplog, [kind |-> "resume", route |-> 1])
    /\ UNCHANGED <<position, runState, published, saved, receipt, faults, overlapped, providerVars>>

WriteRunState ==
    /\ pc = "opened"
    /\ runState' = "running"
    /\ pc' = "ensure"
    /\ UNCHANGED <<position, oplog, torn, published, bookkeeping, providerVars>>

-----------------------------------------------------------------------------
\* Beginning a route, and giving up.

\* Mutant of Begin: the host's cursors start over after a restore.
BeginResetsCursors(r) ==
    /\ pc' = "op" /\ route' = r /\ at' = 1
    /\ host' = [event |-> 0, effect |-> 0]
    /\ seen' = IF r = Recovered THEN saved.seen ELSE <<>>
    /\ oplog' = Append(oplog, [kind |-> "creation", route |-> r, host |-> host'])
    /\ UNCHANGED <<torn, runState>>

\* worker-creation is appended; a route resumed from the checkpoint starts from its
\* guest bytes and host state.
Begin(r) ==
    LET from == IF r = Recovered THEN saved
                ELSE [seen |-> <<>>, host |-> [event |-> 0, effect |-> 0]]
    IN  /\ pc' = "op" /\ route' = r /\ at' = 1
        /\ host' = from.host /\ seen' = from.seen
        /\ oplog' = Append(oplog, [kind |-> "creation", route |-> r, host |-> from.host])
        /\ UNCHANGED <<torn, runState>>

\* An error the guest passes on ends the process; the files stay as they are.
GiveUp(why) ==
    /\ pc' = "down" /\ error' = why
    /\ route' = 1 /\ at' = 1 /\ host' = [event |-> 0, effect |-> 0] /\ seen' = <<>>
    /\ saved' = NoCheckpoint
    /\ UNCHANGED <<files, resumedAt, receipt, runs, overlapped>>

\* provider::ensure: use the process that listens, or spawn one and wait for it.
Ensure ==
    /\ pc = "ensure"
    /\ IF Connectable
       THEN Begin(1) /\ UNCHANGED <<published, bookkeeping>>
       ELSE pc' = "spawn" /\ UNCHANGED <<position, files, bookkeeping>>
    /\ UNCHANGED providerVars

EnsureSpawns ==
    /\ pc = "spawn"
    /\ \E p \in Providers :
          /\ \A q \in Providers : prov[q].st = "off" => p <= q
          /\ Spawn(p)
    /\ overlapped' = (overlapped \/ \E q \in Providers : prov[q].st # "off")
    /\ pc' = "wait"
    /\ UNCHANGED <<position, files, saved, resumedAt, receipt, error, runs, faults>>

EnsureSucceeds ==
    /\ pc = "wait" /\ Connectable
    /\ Begin(1)
    /\ UNCHANGED <<published, bookkeeping, providerVars>>

\* Ten seconds passed. That a process is still starting by then counts as a fault.
EnsureTimesOut ==
    /\ pc = "wait" /\ ~Connectable
    /\ IF \E p \in Providers : prov[p].st = "starting"
       THEN faults < MaxFaults /\ faults' = faults + 1
       ELSE UNCHANGED faults
    /\ GiveUp("provider did not start")
    /\ UNCHANGED providerVars

-----------------------------------------------------------------------------
\* An effect.

Reaches(op, there) == pc = "op" /\ Op.do = op /\ pc' = there

AskEffect ==
    /\ Reaches("effect", "asked")
    /\ host' = [host EXCEPT !.effect = @ + 1]
    /\ Write([kind |-> "request", route |-> route, key |-> Key(host), name |-> Op.name,
              request |-> Request])
    /\ UNCHANGED <<route, at, seen, bookkeeping, providerVars>>

\* capability-result: the guest goes on with the result.
DeliverResult(result, source) ==
    /\ Write(ResultLine(result, source))
    /\ seen' = Append(seen, result)
    /\ at' = at + 1 /\ pc' = "op"
    /\ UNCHANGED <<route, host, bookkeeping, providerVars>>

\* A committed effect is answered from the journal, if it is the same effect.
FromJournal ==
    /\ pc = "asked"
    /\ \E c \in CommitsOf(Current.key) :
          IF Matches(c)
          THEN DeliverResult(c.result, "journal")
          ELSE GiveUp("journal mismatch") /\ UNCHANGED <<faults, providerVars>>

\* A new effect is journaled as an intent; a replay never performs one.
JournalIntent ==
    /\ pc = "asked"
    /\ CommitsOf(Current.key) = {} /\ DanglingOf(Current.key) = {}
    /\ IF Op.mode = "record"
       THEN Write(EffectLine("intent")) /\ pc' = "intended" /\ UNCHANGED <<position, bookkeeping>>
       ELSE GiveUp("missing committed effect") /\ UNCHANGED faults
    /\ UNCHANGED providerVars

\* Mutant of Reissue: a dangling intent ends the process.
ReissueRefused ==
    /\ pc = "asked" /\ DanglingOf(Current.key) # {}
    /\ GiveUp("dangling intent")
    /\ UNCHANGED <<faults, providerVars>>

\* A dangling intent is issued again under its own key, if it is the same effect.
Reissue ==
    /\ pc = "asked"
    /\ \E i \in DanglingOf(Current.key) :
          IF Op.mode = "record" /\ Matches(i)
          THEN /\ Write(EffectLine("reissue"))
               /\ pc' = "intended"
               /\ UNCHANGED <<position, bookkeeping>>
          ELSE /\ GiveUp(IF Op.mode = "record" THEN "reissue differs"
                         ELSE "missing committed effect")
               /\ UNCHANGED faults
    /\ UNCHANGED providerVars

CallProvider ==
    /\ pc = "intended"
    /\ IF Connectable
       THEN /\ Send([op |-> "effect", open |-> TRUE, key |-> Current.key, name |-> Current.name,
                  request |-> Current.request])
            /\ pc' = "calling"
            /\ UNCHANGED <<position, files, bookkeeping>>
       ELSE GiveUp("provider unavailable") /\ UNCHANGED <<faults, providerVars>>

ProviderReplies ==
    /\ pc = "calling" /\ answer # NoAnswer
    /\ IF answer.status \in {"executed", "duplicate"}
       THEN /\ pc' = "replied"
            /\ answer' = [answer EXCEPT !.from = NoProvider]
            /\ UNCHANGED <<position, files, bookkeeping, plog, ptorn, prov, sock>>
       ELSE /\ answer' = NoAnswer
            /\ GiveUp(answer.status)
            /\ UNCHANGED <<faults, plog, ptorn, prov, sock>>

ProviderHangsUp ==
    /\ pc = "calling" /\ Dropped
    /\ GiveUp("provider hung up")
    /\ UNCHANGED <<faults, providerVars>>

\* Mutant of JournalCommit: nothing is appended.
CommitSkipped ==
    /\ pc = "replied"
    /\ pc' = "committed"
    /\ UNCHANGED <<position, files, bookkeeping, providerVars>>

\* The reply is journaled before the guest sees it.
JournalCommit ==
    /\ pc = "replied"
    /\ Write(CommitLine)
    /\ pc' = "committed"
    /\ UNCHANGED <<position, bookkeeping, providerVars>>

DeliverFromProvider ==
    /\ pc = "committed"
    /\ Write(ResultLine(answer.result, "provider"))
    /\ seen' = Append(seen, answer.result)
    /\ at' = at + 1 /\ pc' = "op"
    /\ answer' = NoAnswer
    /\ UNCHANGED <<route, host, bookkeeping, plog, ptorn, prov, sock>>

-----------------------------------------------------------------------------
\* The rest of a route.

\* invocation and semantic-output: the event is handled.
FinishEvent ==
    /\ Reaches("invoke", "op")
    /\ Write([kind |-> "invocation", route |-> route, event |-> host.event, branch |-> Op.branch,
              state |-> seen])
    /\ host' = [host EXCEPT !.event = @ + 1]
    /\ at' = at + 1
    /\ UNCHANGED <<route, seen, bookkeeping, providerVars>>

TakeCheckpoint ==
    /\ Reaches("checkpoint", "op")
    /\ Write(StateLine("checkpoint"))
    /\ saved' = [host |-> host, seen |-> seen]
    /\ at' = at + 1
    /\ UNCHANGED <<route, host, seen, resumedAt, receipt, error, runs, faults, overlapped, providerVars>>

\* Mutant of ExitRoute: the checkpoint is not published.
ExitRouteUnpublished ==
    /\ Reaches("exit", "next")
    /\ Write(StateLine("exit"))
    /\ UNCHANGED <<position, bookkeeping, providerVars>>

\* The last entry of a route.
ExitRoute ==
    /\ Reaches("exit", IF route = 1 THEN "publish" ELSE "next")
    /\ Write(StateLine("exit"))
    /\ UNCHANGED <<position, bookkeeping, providerVars>>

\* checkpoint.json is published before any other route begins.
PublishCheckpoint ==
    /\ pc = "publish"
    /\ IF saved = NoCheckpoint
       THEN GiveUp("checkpoint was not taken") /\ UNCHANGED faults
       ELSE /\ published' = saved
            /\ pc' = "next"
            /\ UNCHANGED <<position, oplog, torn, runState, bookkeeping>>
    /\ UNCHANGED providerVars

NextRoute ==
    /\ pc = "next"
    /\ IF route < ForkRoute
       THEN Begin(route + 1) /\ UNCHANGED <<published, bookkeeping>>
       ELSE pc' = "stop" /\ UNCHANGED <<position, files, bookkeeping>>
    /\ UNCHANGED providerVars

-----------------------------------------------------------------------------
\* The end of the run.

StopProvider ==
    /\ pc = "stop"
    /\ IF Connectable
       THEN Send([op |-> "shutdown", open |-> TRUE]) /\ pc' = "stopping"
       ELSE UNCHANGED providerVars /\ pc' = "seal"
    /\ UNCHANGED <<position, files, bookkeeping>>

ProviderStopped ==
    /\ pc = "stopping"
    /\ answer # NoAnswer \/ Dropped
    /\ answer' = NoAnswer
    /\ pc' = "seal"
    /\ UNCHANGED <<position, files, bookkeeping, plog, ptorn, prov, sock>>

\* What this process journaled, and what the journal it resumed from held.
Own(kind)    == {oplog[i] : i \in {j \in DOMAIN oplog : j > resumedAt /\ oplog[j].kind = kind}}
Before(kind) == {oplog[i] : i \in {j \in DOMAIN oplog : j <= resumedAt /\ oplog[j].kind = kind}}

Same(r) == \A e \in Own("exit"), f \in Own("exit") :
              e.route = 1 /\ f.route = r => e.state = f.state /\ e.host = f.host

CrashRecovered ==
    \A e \in Before("invocation") : e.route = 1 =>
        \E f \in Own("invocation") :
            f.route = 1 /\ f.event = e.event /\ f.state = e.state

ExactlyOnce ==
    /\ \A i, j \in Executions : plog[i].key = plog[j].key => i = j
    /\ {plog[i].key : i \in Executions} = {c.key : c \in Entries("commit")}
    /\ \A i \in Entries("intent") : DanglingOf(i.key) = {}

Evidence == [passed    |-> TRUE,
             replay    |-> \A r \in 2 .. Replays + 1 : Same(r),
             recovered |-> Same(Recovered),
             crash     |-> CrashRecovered,
             once      |-> ExactlyOnce]

\* The provider's log is read, and must verify; then run.json says complete.
Seal ==
    /\ pc = "seal"
    /\ IF LogIntact /\ ~ptorn
       THEN /\ receipt' = Evidence
            /\ runState' = "complete"
            /\ pc' = "report"
            /\ UNCHANGED <<position, oplog, torn, published, saved, resumedAt, error,
                           runs, faults, overlapped>>
       ELSE GiveUp("invalid provider log") /\ UNCHANGED faults
    /\ UNCHANGED providerVars

\* The receipt is printed; only now does anybody see it.
Report ==
    /\ pc = "report"
    /\ pc' = "done"
    /\ UNCHANGED <<position, files, bookkeeping, providerVars>>

-----------------------------------------------------------------------------
\* Kills.

\* Everything in memory is lost; the line being appended may be torn.
ExecutorDies ==
    /\ pc \notin {"down", "done"} /\ faults < MaxFaults
    /\ faults' = faults + 1
    /\ pc' = "down" /\ error' = "none"
    /\ route' = 1 /\ at' = 1 /\ host' = [event |-> 0, effect |-> 0] /\ seen' = <<>>
    /\ saved' = NoCheckpoint
    /\ torn' \in IF pc \in {"ensure", "wait", "op", "asked", "replied", "committed", "next"}
                THEN BOOLEAN ELSE {FALSE}
    /\ HangUp
    /\ UNCHANGED <<oplog, runState, published, resumedAt, receipt, runs, overlapped, plog,
                   ptorn, sock>>

ProviderKilled(p) ==
    /\ faults < MaxFaults /\ pc # "done"
    /\ faults' = faults + 1
    /\ ProviderDies(p)
    /\ UNCHANGED <<pc, position, files, saved, resumedAt, receipt, error, runs, overlapped>>

ProviderStep(p) ==
    /\ Bind(p) \/ Rebuild(p) \/ Announce(p) \/ Serve(p)
    /\ UNCHANGED executorVars

-----------------------------------------------------------------------------
ExecutorStep ==
    \/ WriteRunState \/ Ensure \/ EnsureSpawns \/ EnsureSucceeds \/ EnsureTimesOut
    \/ AskEffect \/ FromJournal \/ JournalIntent \/ Reissue
    \/ CallProvider \/ ProviderReplies \/ ProviderHangsUp \/ JournalCommit
    \/ DeliverFromProvider \/ FinishEvent \/ TakeCheckpoint \/ ExitRoute
    \/ PublishCheckpoint \/ NextRoute \/ StopProvider \/ ProviderStopped \/ Seal \/ Report

Next ==
    \/ Start
    \/ Resume
    \/ ExecutorStep
    \/ ExecutorDies
    \/ \E p \in Providers : ProviderStep(p)
    \/ \E p \in Providers : ProviderKilled(p)

Spec == Init /\ [][Next]_vars

\* Processes run, and the operator resumes a run that is down. Nothing is assumed of
\* kills.
FairSpec ==
    /\ Spec
    /\ WF_vars(Resume) /\ WF_vars(ExecutorStep)
    /\ \A p \in Providers : WF_vars(ProviderStep(p))

-----------------------------------------------------------------------------
\* Properties.

\* Every variable has its type.
TypeOK ==
    /\ route \in 1 .. ForkRoute
    /\ at \in 1 .. Len(Program[route])
    /\ host \in [event : Nat, effect : Nat] /\ resumedAt \in 0 .. Len(oplog)
    /\ torn \in BOOLEAN /\ ptorn \in BOOLEAN /\ overlapped \in BOOLEAN
    /\ runState \in {"none", "running", "complete"}
    /\ runs \in 0 .. MaxFaults + 1 /\ faults \in 0 .. MaxFaults
    /\ sock \in Providers \cup {NoProvider}
    /\ \A p \in Providers :
          /\ prov[p].st \in {"off", "starting", "bound", "rebuilt", "serving"}
          /\ prov[p].consumed \in [Names -> Nat]

\* The journal is written ahead: a request that was sent, executed or not, dead
\* client or not, is in the journal as an intent for the same effect.
WriteAheadIntent ==
    LET intended(x) == \E e \in Entries("intent") :
            e.key = x.key /\ e.name = x.name /\ e.request = x.request
    IN  /\ \A i \in Executions : intended(plog[i])
        /\ \A p \in Providers : \A i \in DOMAIN prov[p].backlog :
              prov[p].backlog[i].op = "effect" => intended(prov[p].backlog[i])

\* No process appends to a journal that ends in a torn line.
NeverAppendsToTorn == torn => pc = "down"

\* Every journaled commit is the provider's own record of the effect.
CommitsWereExecuted ==
    \A c \in Entries("commit") : \E i \in Executions : Bound(plog[i]) = Bound(c)

\* The journal can be trusted: it is written ahead, repaired before it is appended to,
\* and its commits are the provider's (Host::effect, OplogWriter::open).
JournalIsSound == TypeOK /\ WriteAheadIntent /\ NeverAppendsToTorn /\ CommitsWereExecuted

\* In a provider log that verifies no key is executed twice, and the n-th execution
\* of an effect got its n-th canned result.
VerifiedMeansOnce ==
    LogIntact => \A i \in Executions :
        LET earlier == {j \in Executions : j < i /\ plog[j].name = plog[i].name}
        IN  /\ plog[i].result = <<plog[i].name, Cardinality(earlier) + 1>>
            /\ \A j \in earlier : plog[j].key # plog[i].key

\* The provider log verifies unless two provider processes were alive at once, torn
\* lines and restarts notwithstanding.
IntactUnlessOverlapped == ~overlapped => LogIntact

\* Each effect is performed once as long as no two provider processes were alive at once
\* (Server::handle, Server::open, truncate_torn_tail).
OnceUnlessOverlapped == VerifiedMeansOnce /\ IntactUnlessOverlapped

\* The provider log always verifies.
ProviderLogVerifies == LogIntact

\* No process ever finds that the guest or the journal diverged from what an earlier
\* process, or an earlier route, journaled.
NoDivergence ==
    /\ error \notin {"journal mismatch", "reissue differs", "missing committed effect", "mismatch"}
    /\ LogIntact => error # "rejected"

\* An event is handled with the same outcome in every process and every route.
TransitionsReproducible ==
    \A e, f \in Entries("invocation") :
        e.branch = f.branch /\ e.event = f.event => e.state = f.state

\* A run that completes establishes everything its receipt can claim.
CompleteRunsPass ==
    runState = "complete" =>
        receipt = [passed |-> TRUE, replay |-> TRUE, recovered |-> TRUE, crash |-> TRUE, once |-> TRUE]

\* Every process and every route goes through the same states, and the receipt of a run
\* that completes can say so (execute, run_inner).
Reproducible == NoDivergence /\ TransitionsReproducible /\ CompleteRunsPass

\* checkpoint.json is published before any later route leaves a trace in the journal.
CheckpointFirst ==
    (\E i \in DOMAIN oplog : oplog[i].route > 1) => published # NoCheckpoint

\* checkpoint.json is there before any route that starts from it, and stays what it is.
CheckpointIsSettled ==
    [][CheckpointFirst' /\ (published # NoCheckpoint => published' = published)]_vars

\* Once run.json exists the run completes, however often it is killed, unless the
\* provider log stopped verifying.
RunCompletes ==
    runState = "running" ~> (runState = "complete" \/ ~LogIntact)

\* The places that ask for an effect, on the first route and on the fork, and their keys.
Positions == {p \in {1, ForkRoute} \X (1 .. Len(Program[1] \o Program[ForkRoute])) :
                 p[2] \in DOMAIN Program[p[1]] /\ Program[p[1]][p[2]].do = "effect"}

Keys == {[branch |-> Program[p[1]][p[2]].branch,
          event  |-> Cardinality({j \in 1 .. p[2] : Program[p[1]][j].do = "invoke"}),
          effect |-> Cardinality({j \in 1 .. p[2] - 1 : Program[p[1]][j].do = "effect"})] :
            p \in Positions}

\* The scenario declares a result for every effect that is recorded. Nobody checks it
\* beforehand: an effect that finds none left is rejected.
CannedSuffices ==
    \A n \in Names :
        Cardinality({p \in Positions : /\ Program[p[1]][p[2]].mode = "record"
                                       /\ Program[p[1]][p[2]].name = n}) <= Canned[n]

Status(k) ==
    IF CommitsOf(k) # {} THEN "committed"
    ELSE IF \E i \in Executions : plog[i].key = k THEN "executed"
    ELSE IF DanglingOf(k) # {} THEN "intended" ELSE "idle"

Protocol == INSTANCE EffectProtocol WITH Keys <- Keys, status <- [k \in Keys |-> Status(k)]

\* Effect by effect, the run implements the exactly-once protocol (Host::effect, Server::handle).
ImplementsProtocol == Protocol!Spec
=============================================================================
