# Living Dictionary: specifications and proofs

TLA+ models of the parts of this repository whose correctness depends on the order of
events: the tuple spaces that hand out work, the dispatchers and wave schedulers that do
it, the durable Wasm run with its effect provider and the verifier of its evidence, the
episode loop with its judge and its ledger, the stream a request is answered on, the
machine a plan runs on beside the critic that admitted it, and the session the planners
share. TLC checks small instances of all of them. TLAPS proves, for every instance, the
tuple space of the BEAM host, the dispatchers over it, the durable run with its provider and
the verifier of its evidence, the tuple space of the waves and their run, the episode's judge,
ledger and success, the stream of a request, the Forth machine beside its critic, and the
planners' session and what it prints.

## 1. The system

A *living dictionary* run takes a goal, lets a model write Forth-like programs, runs them
on a machine whose effects are admitted by a critic, gates the result, and promotes words
that proved useful. There are two hosts: Elixir (`src/beam/`), and the Python tree
(`src/harness/`), the reference it is ported from. Both start the planner,
`client/planner.py` or its port. The Wasm executor (`src/spike/wasm/`) runs a program
durably, and the BEAM host verifies what it left.

| component | state it keeps | operations | talks to |
|---|---|---|---|
| tuple space, `beam/lib/ld_host/space.ex` | bag of tuples, leases, waiters, timers | `out`, `rd`, `take`, `renew`, `ack`, `expire`; timer and DOWN messages | takers, heartbeats, dispatchers |
| dispatcher, `dispatcher.ex` | running tasks, callers that wait for idleness | claim, result, DOWN, `await_idle` | takes from the space, starts obligations |
| obligation, `obligation.ex` | a claim, its heartbeat; a hold's deadline and attempts | `execute`, `hold`, heartbeat loop | renews its lease, runs the loop |
| durable executor, `executor/src/lib.rs` | `oplog.jsonl`, `run.json`, `checkpoint.json`, guest and host | run, resume; effects, checkpoints, routes | the provider's socket |
| effect provider, `provider.rs` | `provider-calls.jsonl`, executed keys, positions in the canned results | start, serve, shut down | the executor |
| evidence verifier, `runtime_evidence.ex` | none | `verify` | reads the executor's files |
| wave tuple space, `harness/.../space.py` | bag, leases, waiters, under one lock | `out`, `take`, `rd`, `renew`, `ack`, `expire`, `wake` | threads of a wave |
| wave scheduler, `execute.py`, `wave.py`, `envelope.py`, `preflight.py` | waves, outcomes, the workspace | criticise a graph, plan waves, run nodes under leases | the wave space, the machine |
| episode loop, `cli.py`, `kernel.py`, `gates.py`, `store.py`, `promotion.py` | ledger, workspace, frozen contract, dictionary, budget | propose, criticise, run, measure, harvest, promote, close, cancel | planner, critic, machine, gates |
| request, `runner.py`, `rho.py` | the event stream, an interrupt | the gates of a request, `emit`, the reader | the parent process, stderr pumps |
| machine and host, `forth.py`, `host.py`; the critic's walk in `preflight.py` | stack, words, workspace, effects used | run tokens, host words with their policies | the loop, the waves |
| planner, `client/planner.py`, `planner.ex` | `auth.json`, which all of them share | refresh, ask, normalise the reply | the token service, the model |
| ports in the BEAM host: `run.ex`, `ledger.ex`, `dictionary.ex`, `forth.ex`, `critic.ex`, `gates.ex` | as above | as above | as above |
| OODA, research, evidence cache | budgets, cached evidence | choose an act, research | the planner |

Hard to test, and therefore what the models are about:

* **messages and threads that are late.** A lease timer's message may be in the mailbox
  when the lease is renewed or taken again; a thread that slept on a condition may wake
  for a tuple somebody else got; a stderr pump may outlive its planner.
* **claims that change hands.** A lease that is lost lets a sibling work on the same
  thing, in the dispatcher and in a wave, where the late worker also writes files.
* **processes that die**, at any step: dispatchers, tasks, executor, provider, a job
  between two commits of its ledger, a planner between a grant and a rename.
* **retries of what may have happened.** A dangling intent is issued again while the
  first request may be queued at a provider; a repair plan is proposed a second time.
* **two processes where one was meant**: at the provider's start, in the run directory of
  a job, over `auth.json`.
* **the judge.** The verifier must accept what an honest run wrote across crashes; the
  contract that decides about a job is measured, hidden and frozen by the same loop
  that lets the model write files.
* **two readings of one text**: the critic's walk and the machine's run, the planner's
  normal form and the harness's parser, the stream's writer and its reader.

What makes each component correct: the spaces lose and double no tuple, fence stale
tokens and starve nobody; the dispatcher forgets no claim and gives it one outcome; a
durable run performs each effect once and reaches the same state on every route and
after every crash; the verifier refuses no honest evidence; a wave does what its nodes
would do one after the other; a job that succeeds earned it before the judge that was
meant; its ledger rebuilds its workspace; the reader of a stream learns what happened;
an admitted program does what the critic said; a session outlives its refreshes.
`PROJECT.json` lists the hazards with their lines.

## 2. Modules

| module | models | composes |
|---|---|---|
| `LeaseBoard` | what a tuple space promises about one tuple | |
| `TupleSpace` | `space.ex`, one action per message handled | refines `LeaseBoard` |
| `TupleSpaceProofs` | theorems about `TupleSpace` | extends it |
| `Dispatcher` | `dispatcher.ex`, heartbeat and end of `obligation.ex` | uses `LeaseBoard` as the space |
| `DispatcherProofs` | theorems about `Dispatcher` | extends it |
| `EffectProvider` | `provider.rs`, server and client side | |
| `DurableRun` | `lib.rs`, the executor | extends `EffectProvider`, refines `EffectProtocol` |
| `DurableRunProofs` | theorems about `DurableRun` and `EffectProvider`, and the step to `EffectProtocol` | extends `DurableRun` |
| `EffectProtocol` | effects announced, performed, recorded, each once, in turn | |
| `RuntimeEvidence` | `runtime_evidence.ex` | extends `DurableRun` |
| `EvidenceProofs` | theorems about `RuntimeEvidence` | extends it and `DurableRunProofs` |
| `WaveSpace` | `space.py`, one action per section under the lock | refines a `LeaseBoard` per tuple |
| `WaveSpaceProofs` | theorems about `WaveSpace` | extends it |
| `WavePlan` | orders, waves and the critic's rules of a graph, as operators | |
| `WaveRun` | `execute_waves` and its workers | extends `WavePlan`, uses `LeaseBoard` |
| `WaveRunProofs` | theorems about `WaveRun`, and about the graphs of `WavePlan` | extends `WaveRun` |
| `Episode` | `run_job`, the kernel, gates, ledger, promotion | |
| `Request` | `execute_request`, `EventStream`, `consume_rho_v1` | |
| `Forth` | `ForthVM`, `CapabilityHost`, the critic's walk | |
| `ForthProofs` | theorems about `Forth` | extends it |
| `Planner` | the shared session, and the way of a reply | |
| `JobProofs` | theorems about `Episode`, `Planner` and `Request` | extends all three |
| `MC*` | the instances TLC checks | |

### Tuple space

`bag`, `seq`, `nextId`, `leases`, `waiters`, `waiterSeq` are the fields of the
server's state. `leaseTimers` and `waiterTimers` are running timers, `leaseMsgs`,
`timeoutMsgs` and `downMsgs` the messages they and the monitors left in the
mailbox; the mailbox is a set for these, since messages of different timers may
arrive in any order. `taken`, `acked`, `expired` are the events the server records,
`granted` and `refused` the replies to waiters. `Handoff` is the whole of
`handoff`: every waiter, in order of specificity and age, takes the oldest match
that is left; it is a step of its own nowhere, but part of `Out` and
`ExpireLease`, as in the code. A call that returns `false` or an error changes
nothing and is no step. A tuple is a function from paths to leaves, so
matching nested maps is matching paths. The random suffix of a token is left out,
which only makes the fence harder to keep.

### Dispatcher

The space is `LeaseBoard`, which `TupleSpace` is proved to implement; `Take` is
the taker's `take` together with the message it sends. `running` and `idle` are the
dispatcher's state, `inbox` its mailbox in order, `tasks` the supervised tasks,
which outlive their dispatcher. A heartbeat lives as long as its task, so a lease
that somebody tends lapses only by lateness (`LeaseLapsesLate`), which is
a fault. The reply of `ack` is ignored, as in the code. A task ends by a result
(`TaskReturns`) or by a raise (`TaskCrashes`), which is also how its timeout ends it.

### Durable run and evidence

`Program` unrolls the routes - parent, replays, recovered, fork - into operations:
ask for an effect, finish an event, take the checkpoint, exit. `pc` follows the
executor between its durable writes; `oplog`, `torn`, `runState` and `published`
are its files. A journal line keeps what the code compares: key, name, request,
result, state. The guest is deterministic, so its state and its requests are the
sequence of results it was given (`seen`): a wrong result delivered anywhere shows
as another state. `Resume` appends its boundary and goes on from genesis.

`EffectProvider` allows several processes. `sock` is the process the path names;
a process that binds takes the path away from another. A provider's line is whole
only when it was not appended to a torn one, and carries the sequence its writer
believed in; `LogIntact` is what `read_log` accepts. Requests of a dead executor
stay in the `backlog` and are executed.

`RuntimeEvidence` evaluates the verifier's checks on the files of a `DurableRun`.
It has no state of its own. A list of journal lines, of a route or of a segment of it, is
the set of their places; a route's transitions are a set too, which says what the list says
because `WellFormedRoute`, checked before, asks for events that follow one another.

### Wave space

No server and no timers: threads enter with a lock, and a lease that lapses is collected
(`Reap`) by whoever enters next. A `take` is `Enter`, then passes under the lock
(`TakePass`), each of which claims, leaves, or goes to sleep; `Awake` is the end of the
sleep, by notification, by its deadline, or by the next expiry it knew of when it went to
sleep (`WakeAt`), which is not looked at again. `Handoff` gives each registered thread, the
most specific first, the oldest entry left for it, and notifies it: `Handoffs` is the set of
the assignments that do this, and has one element. `Claim` and `Chosen` are
`_claim` and `_pop_oldest_match`. Instants are the time left to them, which `Tick` counts
down, so that the state stays finite. `Wake` is the barrier's call after its event.

### Waves

`KahnOrder` and `Levels` are `kahn_order` and `plan_waves`, functions over the graph;
`CriticAccepts` is the part of `validate` that looks at graphs: unknown nodes, cycles,
write scopes, the task graph. `WaveRun` runs what was accepted. `board` is the space of a
wave; a worker's steps are take, run one step, ask the fence, write, report, finish. The
question to the fence and the write behind it are two steps, as in `host.write_file`, and
between them `LeaseLapses` may give the node to a sibling. A worker may die
(`Dies`). `SerialFiles` is the reference: the nodes one after the other, in Kahn's order.
`Late` in `MCWaveRun` is the plan for which the two differ (section 3).

### Episode

`pc` follows `run_job` through one episode: `Propose` (the planner's reply, the kernel's
dedupe and budget), `Criticise`, one of three `Execute` actions (clean, trapped, trapped in
a node), `Swap` (a hidden contract put in place of the workspace's), `Measure` (gates,
then the candidate and the hidden file are put back), `Close`. `state` is the kernel's
state and `ledger` is `events.jsonl`, with the events that decide something: every event
is made by the kernel's `decide` and folded by `evolve`, so that a `Kill` leaves a ledger
whose prefix is a job's, and `Again` appends to it. `mode` says how the job is judged: by
the model's own claims, an approved or hidden contract, a hidden one that is not there,
or as a benchmark. The gates come from a manifest in the workspace, which a program may
write: a gate it names `claims` is run in place of the measured claims (`ClaimsGate`).
`author` remembers who wrote the frozen contract, which the code does
not know. `Replays` and `AsOf` are `store.replay` and `as_of`.

### Request

The main thread passes the gates of a request one after the other, emits the events
they ask for, and calls the planner turn by turn. `Number` and `Write` are the two halves
of `EventStream.emit` - count, then write - for the main thread and for a pump alike, so
their lines may be out of order. `Interrupt` is the signal's exception, which may come
inside `emit`. `Consume` is `consume_rho_v1` over the lines that came out.

### Forth

`frames` is the interpreter's recursion: the token lists being run, and the next token of
each. An `IF` runs its branch in a frame of its own, as `_run_if` does, and a colon word its
body. `Do` is one token, including the host word it calls and the policies asked there.
`Walked` is the critic's single pass, `Lower` the lowering of the parameterised words.
`Before`, `Artifacts` and `Policies` are what the host was given. `CriticPath` and `HostPath`
are the two ways to resolve a string: the critic's under a directory `/workspace` that it makes
up, and the host's in the workspace, through symbolic links; a string outside either function's
domain escapes. `FilesAfter` has the writes that no policy is asked about: the discharge
report, its history and the gate cache of `RUN-GATES` (`Discharge`), and the receipt of
`RECEIPT` (`Receipts`, empty when its path lies elsewhere). `clean` says whether every receipt
so far found nothing changed against the policy (`Violations`).

### Planner

The file, the copy next to it and who has which of them open (`fd`) are modelled by inode:
a rename gives the live file to whoever still writes into the copy. A client reads, is
refused or finds its token expired, posts, and writes back in four steps: open, fill,
set the mode, rename. Python reads the file again before it writes (`rec` has the new
grant, `blob` what it read); the BEAM client writes back what it read before the
exchange. The service keeps its refresh token, rotates it, or rotates it and revokes the
session when an old one comes back. `Normalize` and `Parses` follow a reply
through `planner.py` and through the harness's `parse_envelope`.

## 3. Runs

| run | asks | states |
|---|---|---|
| `space` | safety of the space; refinement of `LeaseBoard` | 693 thousand |
| `space_live` | claims end, waiters leave | 62 thousand |
| `durable` | a run under two kills: safety, refinement of `EffectProtocol`, the exact verdict of the verifier, completion | 493 thousand |
| `durable_overlap` | *violated*: the provider's log always verifies | |
| `dispatcher` | two dispatchers under two faults: safety, no claim is held for ever, what is given back is claimed again | 63 thousand |
| `wavespace` | sleeping threads: safety, refinement, no call is left asleep | 20 thousand |
| `waverun` | accepted plans are carried out, late workers are fenced, files are those of a serial run, runs end | 181 thousand |
| `waverun_tasks` | *violated*: a node starts after the tasks its tasks depend on | |
| `episode` | what a success means, who judges, what is blocked, what the ledger rebuilds, jobs end | 504 thousand |
| `request` | the reader learns what happened, requests end | 1.4 million |
| `forth` | the critic against the machine, the host's policy, words and branches against their text | 198 thousand |
| `planner` | the session survives, the other login's writes survive, what is printed parses | 2.9 million |

Bounds, and why they are enough:

* **Space.** Two tuples in different lanes, a general and a specific pattern
  (`MaxTuples = 2`). Two waiting takes (`MaxWaits`) compete and overtake; one immediate
  take per tuple (`MaxGen = 1`) and handoffs bring a tuple to generation 3, enough for a
  stale token beside a live and a past one; one renewal per lease (`MaxRenews`) makes a
  timer stale. The liveness run has one tuple and one generation more.
* **Durable run.** One event before the fork, one after it on either branch, an effect in
  each, both branches drawing on the same canned results; a checkpoint after the first
  event; one replay. `MaxFaults = 2` kills reach a crash in a resumed run; every kill point
  of the code's kill matrix is among the states a kill may hit. Three provider slots are
  never all in use with two faults. The violated run has one fault and two slots.
* **Dispatcher.** Two dispatchers, one obligation that runs and one that is refused;
  `MaxFaults = 2`: a lost lease or a crash, and a second of either while the first is not
  settled.
* **Wave space.** Two threads, two tuples, a general and a specific pattern, two calls,
  a lease of one tick; time limits of nothing, one tick and for ever, so that deadline,
  expiry and notification come in every order.
* **Waves.** Every graph of three nodes, with dependencies on itself and on a node that is
  not there; plans that share a path, that copy, that trap. Two workers, two lost leases or
  deaths: a node can be lost by both. The violated run has two nodes and two tasks.
* **Episode.** Three turns, enough for two duplicates in a row after a plan that ran; two
  jobs in one directory; one kill; five modes, one of them a benchmark whose run
  directory lies outside; four products, one with a gate `claims` of its own; four plans,
  which differ in what they write, whether they are admitted,
  and whether they trap. One line of an earlier ledger is not needed (`MaxBefore = 0`):
  the second job finds the first one's.
* **Request.** Two turns, so that a pump of the first planner meets the second; two lines
  on stderr, one interrupt, one tick of the clock (a deadline is past or not); ten
  requests, one for every way to be refused beside those that run to their end.
* **Forth.** Every program of at most three tokens of the alphabet, and programs with
  writes, calls, branches, nesting, recursion and malformed text; four frames, so that
  recursion ends; three grants, two policies at a time. Of the texts one escapes, one is a
  path under `/workspace` and one under the real workspace, and one is a link to a denied
  file, so critic and host resolve three of them apart.
* **Planner.** A Python and a BEAM client and one with a key; two grants (a token, and
  one that is older than another), one fault, one write of the other login.

Deadlock is not checked: calls are bounded, and a finished run, job or request stops.

### Fairness

* **Space:** the Erlang runtime's: timers fire and the server drains its mailbox. Nothing
  is assumed of callers, so a claim ends even if its holder does nothing.
* **Dispatcher:** processes are scheduled, timers fire, and every task ends: a goal runs
  under a timeout of 30 minutes, a hold has a deadline. It may end by a crash each time, for
  the timeout raises; no task need return a result. No supervisor starts a dead
  dispatcher again, so nothing is assumed of that either. So an obligation need never be
  done: the code takes it again without a bound, and `MaxFaults` bounds the crashes that
  a run of the model looks at. `ClaimsEnd` says what is left: no claim is held for
  ever, and a free obligation is claimed unless every dispatcher is down.
* **Durable run:** executor and provider run, and an operator resumes a run that is down.
* **Wave space:** threads that can run do, a `wake()` follows its event, time passes. Nobody
  has to finish a claim or put a tuple.
* **Waves:** the host and the pool's threads are scheduled. Leases need not lapse.
* **Episode:** the loop goes on while its process lives: planners and gates end.
* **Request:** the main thread runs, and a planner that was started ends; a pump need not.

Faults, kills, lost leases, posts and calls are never assumed to happen. `Forth` and
`Planner` are checked for safety only.

### Where code and text disagree

Each is a finding in `PROJECT.json`, with its lines. A run that expects a violation shows it
or the property named states exactly when it happens and when it does not.

* `durable_overlap`: an executor is killed while its provider is starting. The resumed one
  finds nobody listening and spawns a second provider. Both read the log before either
  writes, and write the same sequence; the log is refused ever after.
* `VerdictIsExact`: a run killed after its parent route exited is resumed and completes
  with a passing receipt; the verifier refuses it for its interrupted history, of which its
  own comment asks only that it start at worker creation.
* `ToldWhenIdle`: `await_idle` answers while nothing has finished, against its
  documentation; it is exact about callers that had to wait.
* `waverun_tasks`: two nodes that cover dependent tasks run in one wave, since the critic
  compares their places in one topological order and asks for no path.
* `SameAsSerial`: running a node again is not always safe. `Settled` is the condition: a
  node writes a path once, reads only what the nodes it depends on wrote, and two nodes that
  write the same path depend on one another. The last part came out of the proof: the critic
  compares globs as texts, so two nodes without an edge may both write a path. In one wave
  the view refuses the write; in different waves the later wave wins, and that need not be
  the node that comes later in Kahn's order, in which `envelope.py` lists a plan's programs
  and by which the critic checks the task graph.
* `BlockedAreRepeats`: after a trap in a node, the same repair plan is blocked although the
  workspace changed.
* `JudgeIsApart`: when `--claims` names a file that is not there, the model's own claims are
  frozen at that path and count as hidden ones from the next turn on.
* `LedgerIsOneJobs`: a second job in a run directory makes the ledger unreadable for
  `replay` and `as_of`.
* `SuccessIsReal`: a source claim without a path is found in the frozen contract that asks
  for it, unless the run directory lies elsewhere.
* `SuccessIsReal`, again: a manifest in the workspace may declare a gate `claims`, and then the
  frozen contract is not measured and the gate's exit decides. The property excepts exactly the
  products whose own gate passed (`OwnGatePassed`).
* `ReaderAgrees`, two findings: a pump may write after the terminal event or out of order,
  and the reader cuts lines at separators that the writer leaves unescaped.
* `HostHolds`: the critic does not look into bodies or branches; the host still refuses.
* `CriticIsExact`: the critic resolves paths under `/workspace`, not in the workspace. It admits
  literals that the host then refuses and rejects one that the host would write. The property
  excepts the strings the two resolve apart (`Alike`).
* `SessionIsKept`: the rename of `auth.json.tmp` is not atomic when two refreshes overlap.

## 4. Proofs

All theorems hold for every value of the constants that satisfies the named assumptions.

### The tuple space

`TupleSpaceProofs` proves `TuplesKept`, `StaleTokensNeverAck` and `WaitersServed`, which are
`TuplesAreKept`, `AckIsNewestClaim` and `WaitersAreServed` of the run `space`. It assumes
`BoundsAssumption` (the bounds are natural numbers) and `PatternAssumption` (patterns have
finitely many paths, so specificity is a number).

None of the properties is inductive alone. The invariant `IInv` is a conjunction:

* `CoreInv` ties tuples to their places and tokens to their generations: an entry
  of the bag has the generation of its last claim, every recorded token of a tuple
  is at most that, and a lease has exactly it. Without the bound on recorded
  generations a new claim could collide with an old token, and `AckIsNewestClaim`
  would not survive `TakeNow`.
* `QueueInv` says that waiter numbers are unique and at most their counter, so that
  the order of service is total, that replies belong to waiters that have left, and
  that every claim handed out is a recorded one, so that a fresh claim goes to one
  waiter.
* `NobodyStarved` is preserved because `Handoff` leaves nothing a remaining waiter
  could match; the argument is that a waiter that remains found `LeftFor` empty,
  which only excludes what others were served with.
* `ClockInv` gives every timer and message a token that was taken and a reference not
  above its lease's, and no timer both runs and has fired. From it follows that a
  message that matches a lease means the lease's own timer is no longer running.
* `OtherTypes` types the rest.

The lemma about one handoff is stated once and used for `Out`, `Expire` and
`HandleLeaseExpired`; each other action has one step per conjunct it disturbs.

Its second half proves `RightsKept` and `BoardImplemented`, which are `RightsAreKept` and
`ImplementsBoard`. `IInv` says that before a step no waiter finds anything in the bag. So a
handoff after one entry was added can only give out that entry, to one waiter
(`OnlyTheNewLeaves`): nobody is overtaken, since the waiters ahead of it looked at the same
entry first; and the step moves at most one tuple on the board. From there `Places` computes
where a tuple is from where its entry, its lease or its acknowledgement lies, and one
lemma per action (`OutOnBoard`, `ExpiryOnBoard`, `TakeOnBoard`, `AckOnBoard`) names the
board's step, or that there is none (`RenewOffBoard`, and the queue's actions).
`StaleTimersEndNothing` is the other half of `RightsKept`: a message whose reference is not
its lease's changes nothing.

### The planner's session

`JobProofs` proves, beside the theorems about episodes, `SessionKept` and `OthersKept`, for any
number of clients of either kind, grants, faults and writes, from `ClientAssumption` (Python, BEAM and keyed clients are
different) and `TextAssumption` (an empty or torn file is no record).
Its invariant, `SessionInvariant`, is `TypeOK` with

* `Bounded`: no token is newer than the last grant;
* `Fenced`: where the service rotates, the client that holds a grant is the only one that
  knows the token the service takes, so nobody else gets a grant before it has renamed;
* `Apart`: where it does not, the history says whether two refreshes overlapped;
* `Alone`: a lone holder has the copy to itself, from the opening to the rename, and finds
  in it what it wrote - hence no torn file;
* `Current`: what it will rename is the last grant, unless that one was lost or revoked;
* `Undisturbed`: what it read of the other login is what the file still has, unless a write
  raced with it.

The step lemma has a case per action, and under it one per part of the invariant that the
action can disturb.

`HarnessParsesAlways`, which is `HarnessParses`, is about one reply, whatever the session did:
what a node that passes becomes is a node that parses (`NodesParse`), a reply that passes
becomes an envelope that parses (`NormalParses`), and every way a call of the planner ends
prints such an envelope or none (`EndingsParse`, `SaidIs`). It assumes `ReplyAssumption`: a
field of a reply is one of the kinds of values that the two parsers tell apart, and the nodes
are a list of any length.

### The stream of a request

`JobProofs` also proves `StreamInvariant` and, from it, `ReaderAgreesAlways`, which is
`ReaderAgrees`, for any requests, number of calls and of lines on stderr, any clock, with an
interrupt or without. It assumes `RangeAssumption` (there is a call at least). The invariant
`RInv` has, beside the types,

* `PumpsOK`: a pump reads only during its own call, while the main thread has nothing to
  emit and no line in hand - until one is left behind;
* `NumbersOK`: hence one thread at a time holds a number, it is the last one given, and the
  numbers on stdout grow, although `emit` takes no lock;
* `OutcomeOK`: while the request is worked on no terminal line is on its way; then it is the
  last to be emitted, in the main thread's hand, or the last line on stdout, and the process
  does not leave before that, unless an interrupt cut a line off;
* `EndingOK` and `StartOK`: what the main thread has come to, and where it starts.

What the reader makes of such a stream is a recursive function of it; it is followed from the
first line at which it would be wrong (`ReadsOn`), and from the first line that is split
(`SplitRefused`).

### The dispatcher

`DispatcherProofs` proves `ClaimsTracked`, `OneOutcome` and `IdleIsTrue`, which are
`ClaimsAreTracked`, `OneWorkerOneOutcome` and `ToldWhenIdle`, and `BoardIsKept`: what
dispatchers do to the space, `LeaseBoard` allows. It assumes `DispatcherAssumption` and
`NobodyAssumption` (an orphan's owner is no dispatcher).

The properties speak of tables and tasks; what keeps them is where a claim's token is. The
invariant `IInv` follows a token from a mailbox, where it is a claim, to one task, to a
mailbox, where it is the end of that task, and to nowhere: `InOnePlace` says it is never at
two of these, `TableIsExact` that `running` holds it exactly from the task's start to its
end's handling, `TokensAreOld` that a new claim is in none of them, and `EndedIsGone` that
a recorded end is of a token that is nowhere any more, so that it is not recorded again.
`CurrentUntilEnded` holds as long as nothing failed: a lease is somewhere, and what is
somewhere is a lease. `AckedMeansWorked` needs `ResultsReturned`, since the message is
handled after its task is gone.

### The durable run

`DurableRunProofs` proves `OnceAlways` and `JournalAlways`, which are
`OnceUnlessOverlapped` and `JournalIsSound`, for every scenario, number of replays, faults
and provider processes. It assumes `ScenarioAssumption` (the scenario's events are
sequences of effects that have results, the checkpoint lies within them),
`CannedAssumption` and `ProvidersAssumption`. The invariant `IInv` has four parts:

* `PositionOK`: the executor is at an operation of a route, and inside an effect only at an
  effect. `Program` is a flattened list, so this rests on lemmas about its lengths.
* `FilesOK`: a torn journal means that the process is down, and `Resume` repairs it.
* `ProviderOK`: `MemoryOK` says what a process that has read the log knows of it - the
  executions up to its own sequence number, all of them as long as the log verifies, and
  their number by name. Hence an execution is of a key it does not know and takes the next
  canned result, which is `VerifiedMeansOnce`. `AloneOK` adds that without an overlap
  there is one process and its sequence number is the log's, so the log keeps verifying.
* `ConversationOK`: one request is open at a time, at one process, and is the current
  effect's; an answer that is not a refusal is of something performed; an executed key was
  intended before. That the backlog of a dead executor is executed later is why `AheadOK`
  speaks of every backlog and not only of the current call.

The proof takes the executor's steps, the provider's steps and the conversation one after
the other; each action is first reduced to what it does to one of these (`Ordinary`,
`Quiet`, `Writes`, `Performs`), so that the obligations stay small.

The second part of the module adds the order of the journal, `OrderInvariant`, and from it proves
`CheckpointSettled` and `ProtocolImplemented`, which are `CheckpointIsSettled` and
`ImplementsProtocol`. `OrderOK` has three parts:

* `PlaceOK`: outside the recovered route, the host's cursors count the events and effects
  that the route has behind it, so that a key is the effect's place on its branch; two places
  that record have different keys (`KeysDiffer`).
* `JournalOK`: entries are of places that record; what was intended has only committed
  effects behind it - on the fork, the whole parent route too; a key has one result.
* `ProgressOK`: what the executor has behind it is committed, and what it asks for is
  intended and not committed.

None of this mentions a process or a kill: a resumed run finds the journal in order and goes
through it again. For the checkpoint, `CheckpointOK` says that what the parent's guest was
told by an operation is the committed results up to there, and that the cut is at one
operation; so a second process that publishes again has seen the same. For the protocol, an
effect that is announced finds every other intended effect committed (`OthersAreKept`):
one behind it is by `ProgressOK`, and one ahead of it would have it, which is not
committed, behind itself. A second execution of a key, by a provider that overlaps another,
is a stutter of the protocol: `ImplementsProtocol` orders the effects, and that each is
performed once is `OnceUnlessOverlapped`.

The last part proves `Reproducible`: every process and every route goes through the same
states. The first route and the fork write; a replay and the recovered route read what the
first wrote, at other operations of another program. The argument compares them in four steps.

* *Walks.* The operations of a route walk through the events and effects of the scenario, from
  its start or from the checkpoint. `Guide(r)` is this walk, and an operation of a route is
  `Level` with an operation of the first route when both are at the same place; the checkpoint,
  which only the first route takes, is skipped. Level operations do the same, ask for the same
  name, and counted from the start have the same events and effects behind them.
* *What guests were told.* `ReplayOK` (`ReplayInvariant`) is what every state says of this.
  `RoutesOK`: a later route is level with an operation of the first, its guest was told the
  committed results up to there and its host counts the same (`BesideOK`); the fork was told
  the results of the parent route behind it and then its own (`ForkOK`); the checkpoint of a
  process that left the first route is the one to go on from (`SavedOK`); and every journal
  entry says what its place asks for, by a guest that was told what is committed (`SaysOK`).
  `LinesOK` says the same of the lines for handled events and ended routes, that a process
  has journaled every event of the first route it left behind, and that only the last route
  leads to the seal. Since a guest is a function of what it was told, two entries for a place
  agree.
* *Replies.* A provider that remembers a key remembers the request of one of its intents, and
  all its intents agree, so no reply is `mismatch`. A reply `rejected` needs as many
  performed effects of a name as there are results; performed effects of a verifying log
  are different keys of places that record, and the present one is yet another.
* *The seal.* A process that writes the receipt has every comparison behind it, and each
  compares two lines or two guests that agree: the receipt claims all it can.

That no effect is rejected has a hypothesis, `CannedSuffices`: the scenario declares a result
for every effect that is recorded. The code does not check this, and a scenario with too few
results is refused at the effect that finds none; the run of section 3 evaluates the
hypothesis on its instance. Everything else needs no hypothesis (`RunsAlike`): whatever the
scenario, no guest and no journal diverges, no key is bound twice, and a run that completes
claims everything.

### The evidence of a run

`EvidenceProofs` proves `VerdictIsExactAlways`, which is `VerdictIsExact`: the verifier accepts
the evidence of a run that completed exactly if every interrupted process had created its worker
and not left its first route (`Clean`). It makes the assumptions of `DurableRunProofs` and has
no hypothesis besides, since a run that completes claims only what its comparisons found. `EvidenceOK` (`EvidenceInvariant`) is what every state says of the files:

* `ShapeOK`, of the journal. Behind the mark of the newest process (`OwnLines`) lie the lines of
  its routes one after the other, each with the creation first, the exit last, and between them
  invocations whose events follow one another (`OrderedOK`, `BegunOK`, `StepwiseOK`); a route that
  exited handled every event (`FullOK`); `CurrentOK` relates this to the executor's phase, and
  `HeadsOK` says that nothing precedes the creation. What earlier processes wrote is, as long as
  the run is clean, of the first route and not its exit (`PastOK`), so the last segment of the
  parent route and every later route are the newest process's alone.
* `EndsOK`, of the effects. Every entry is backed by earlier ones (`Effects`), what the executor
  has behind it was delivered, what the provider answered again was performed. `LonelyOK`: unless
  a process was interrupted outside its first route, whoever lives listens at the socket and is not
  starting, so no second provider is spawned, the log is never overlapped, and no provider
  outlives the seal to append to the log that the receipt was about.

Each step is first reduced to the one line it adds (`Pens`), and each part is preserved by that
line. From a state that is about to be sealed (`Ready`), one lemma for each check of the verifier
(`AcceptsRoutes`, `AcceptsParent`, `AcceptsReplays`, `AcceptsCheckpoint`, `AcceptsFork`,
`AcceptsEffects`) leads to `SealedAccepts`; afterwards nothing that it reads changes
(`AcceptedKept`). Conversely `RefusesUnclean`: if a process was interrupted before its worker, a
segment is empty or does not begin with a creation; if after its exit, a segment holds one.

### The wave tuple space

`WaveSpaceProofs` proves `TuplesKept`, `WaitersServed`, `OldestIsFirst` and `BoardsAreKept`,
which are `TuplesAreKept`, `WaitersAreServed`, `OldestFirst` and `ImplementsBoards`, for every
set of threads, tuples, patterns and time limits. It assumes `TimeAssumption`,
`ThreadAssumption` and `PatternAssumption` (finitely many threads, finite patterns), and
`TupleAssumption` (the mark for "no tuple" is not one). The invariant `IInv` has these parts:

* `Good`: every tuple that was put is, once, in the bag, in a lease, in the hands of a thread
  it was assigned to, or acknowledged (`Split`); a lease has the newest generation of its
  tuple (`NewestLeased`); who waits is in a `take` and has nothing yet (`Turns`).
* `Fed`: no registered waiter finds anything in the bag. `Roused`: a thread that was assigned
  something was notified.
* `CountOK`: a tuple's generation and the threads that are in a call make up at most the
  calls made, which bounds the generations. `FinishedOK`: what was acknowledged has its
  newest generation.

A section under the lock is a chain of changes to the space - collect, hand out, take, notify,
acknowledge - and each has a lemma that it keeps `SpaceOK` (`GivenBackKeeps`, `HandoffKeeps`,
`ClaimedKeeps`, ...), so that an action's case only names its chain.

`OldestFirst` needs `Fed`: since nobody waits for what is in the bag, a handoff only gives out
what was just collected, at the end of the bag; what was there before stays as it was, and in
front (`ReapBegins`, `OnlyPrefix`). So a thread that then takes from the bag overtakes
nothing it asks for that was there when it entered the section. For the boards, each
action claims nothing or one tuple (`StepBoard`), and the board's step for every other tuple
is a stutter, an expiry or an acknowledgement; that a tuple was never claimed before it is put
(`Unclaimed`) is an invariant of its own.

### The run of waves

`WaveRunProofs` proves `FencedAlways`, `CarriedOutAlways` and `SameAsSerialAlways`, which are
`LateIsFenced`, `PlanCarriedOut` and `SameAsSerial`, for every set of envelopes, number of workers and of lost leases. It assumes
`WorkerAssumption` (the workers are 1 .. n, n > 0) and `PlanAssumption` (finitely many
nodes; steps write, copy or trap).

Half of it is about graphs. `KahnOrder`, `Reached` and `Levels` are written as functions
over the number of rounds, so that facts about them follow by the least counterexample:
the rounds grow until they stay the same, and they have as many rounds as nodes. From there:
a graph without a cycle and without unknown nodes leaves nothing over, its levels cover it,
and a set of nodes that is closed and not empty has one that is ready. Hence the scheduler
never raises on what the critic accepted.

Of the invariant, `SplitOK` ties a node's tuple to its outcome and to the three sets of the
scheduler; `LevelsOK` says that as long as nothing trapped, the waves that ran are the
planned ones; `ClaimsOK` carries the fence: a worker that is about to write was allowed to,
a worker that found itself fenced is not the newest any more, and one that handed in was.
That two nodes of a wave do not write one path is the critic's check (nodes without a path
between them do not overlap), which the levels bring to the workers.

`SameAsSerialAlways` has three parts. `KahnOrders`: every node stands once in Kahn's order,
behind all it reaches. `SerialIs`: in the files that a serial run leaves, the last node to
write a path has carried there what its step finds *in those same files*, since what it
copies is not written again behind it. `SerialInv`, on top of `RunInvariant`, holds the waves
against that: a path that all its writers are done with is as it will be in the end, and what
a worker brings to the fence is what its step carries there in the end. The second clause
is why running a node twice, or late, does no harm: both workers bring the same. Every step
of a worker is one of three (`Quiet`, `Reads`, `Puts`), and two nodes of a wave share no
path, as one of them would have to be complete.

### The episode

`JobProofs` proves, for every set of plans, contract, mode and bound: `ApartAlways`,
`SettledAlways`, `LedgerAlways`, `BlockedAlways` and `SuccessAlways`, which are
`JudgeIsApart`, `JudgeIsSettled`, `LedgerIsOneJobs`, `BlockedAreRepeats` and
`SuccessIsReal`. It assumes `ModeAssumption`, `BoundAssumption`, `FileAssumption` (the
special values are different) and `PlanAssumption` (no envelope holds the user's contract by
chance). There are three invariants, the later on top of the earlier:

* `JInv`, of the judge: who wrote the frozen contract, and, while the gates run, which file
  is in the place of `claims.json` and what is held to be put back.
* `KInv` and `LInv`, of the ledger: the events of this job are its last ones, numbered
  from 1, whatever an earlier job left before them, and fold to the kernel's state; the last
  tree they tell of is the one that was measured; a plan that was seen was tried on the
  workspace as it is, unless a node trapped.
* `SInv`, of success: what the last measurement found is still so when the job ends - every
  claim of the frozen contract, or the product's own gate of that name (`Earned`) - and
  evidence that was recorded is followed by no other plan.

`LedgerIsOneJobs` was first stated as an equivalence: the ledger replays if and only if one
job wrote it or the present one has not committed yet. The proof failed, rightly: a third
job that has not committed finds a ledger that two others wrote and that replays no more,
in instances larger than the one checked. It is now two implications.

### The Forth machine

`ForthProofs` proves `HostHoldsAlways` and `CriticIsExactAlways`, which are `HostHolds` and
`CriticIsExact`, for all programs, grants, artifacts, policies and ways to resolve a path, and
any recursion limit. It assumes `ProgramAssumption` (the lexer makes texts, numbers and words),
`ArtifactAssumption` (the host let the artifacts through, or the program is not run) and
`RecordAssumption` (a snapshot leaves the discharge out), and nothing of what a program says.

* `Hosting` carries the first: only a word of the host changes files or effects, and it
  changes them after `HostFault` found nothing, whatever the stack holds. So it does not
  matter where the word stands. `FilesAfterIs` names the three words that change a file; every
  file is `Explained` by one of them, by an artifact or by having been there, and of these only
  a receipt can be a violation (`OnlyReceipts`), so a receipt fails only behind another.
* `StraightRuns` carries the second. As long as a program without branches and calls runs,
  there is one call of `run_tokens`, and its machine is `Beside` the critic at the same token:
  the depth is the length of the stack, the defined words are the same, the effects used are
  among those the critic counted, the critic has found no error but of literals that the two
  resolve apart (`Differs`), and a text just in front is what is on top of the stack. A definition is one step of the machine and as many of the
  critic as it has tokens (`BodySkipped`). A word that fails is one for which the critic's
  next state has an error or an effect too many, and neither goes away (`WalkGrows`); the
  exceptions are the ones the property names. A literal that the critic looks at is the one
  the host gets.

  That a word of the program is not called follows from the text (`NoCalls`): its name stands
  in it once, and its definition has it. The critic's walk is a recursive function over the
  program, so what is said of it is proved from its first state that would be wrong.

### Only model-checked

* Liveness (`ClaimsAndWaitersEnd`, `RunCompletes`, `ClaimsEnd`, `CallsReturn`, `RunEnds`,
  `JobEnds`, `RequestEnds`) and what needs `ENABLED`: out of the prover's reach.
* `CallsAreInlined`: the text that a program stands for is given by the instance, by hand. A
  theorem would need that text for any program; which branch it takes and which definition a
  call means depend on the run, so it would be the machine once more.

## 5. Not modelled

* **Space:** worker names, lease lengths (a lease lapses at any time), `rd`.
* **Dispatcher:** what a task does, the hold loop, the ledger's files.
* **Durable run:** limits (fuel, memory, log and frame sizes), virtual time and
  random numbers (deterministic, part of the guest's state), snapshot round trips,
  guest hashes, hash chains and canonical encoding (a line is what was written),
  the `fault-injection` annotation of the abort mode, scenarios without effects,
  the check that the fork diverged, input and output errors, two executors at once
  on one directory. That a killed executor can leave a journal without `run.json`
  is in the model; the run then stays down.
* **Wave space and waves:** the event log and what is rebuilt from it, the projections.
* **Episode:** the gate cache (a bundle gate decides nothing), the text of feedback, of
  receipts and of word files; of the run directory only the contract's echo is modelled. A
  declared gate `claims` is a command or the measure of the claims; one that names another
  measure reports under that measure's name and never discharges.
* **Request:** canonical JSON and the grant's signature (one verdict), the size of a line, a
  failure whose exception has no text.
* **Forth:** string contents beyond a few names, what a test or a gate would find, and what
  the commands of a test or a gate write; errors of the file system, such as a write to a
  directory; links that change while a program runs; the trace and the objects in the run
  directory; receipts of a node's view, which asks the node's own policy alone and finds its siblings' files
  changed too.
* **Planner:** a `nodes` that is empty but no list, prompts, research, token counts, the API keys' requests beyond their end.
* **`shared_space.py`**, a tuple space in an SQLite file: nothing in the harness uses it yet.
* **The BEAM host's ports** of the loop, ledger, machine, critic and gates: their Python
  originals are modelled; what differs (promotion by runs that share a dictionary, load
  order) is in the plan.
* The other components without a module are in `PROJECT.json`, with the reason.

## 6. Plan

Done: all modules of section 2; proofs for the tuple space and its board, the
dispatcher, the durable run and the verifier of its evidence, the wave space and its boards,
the run of waves, the episode, the request's stream, the Forth machine with its critic, and the planners'
session and replies. To come, in order of importance:

1. `ObligationHold`: the hold loop with deadline, probe time, retries and backoff;
   it ends, never probes after the deadline, and its verdict is the last probe's.
2. `WarmDictionary`: runs that share a dictionary directory; promoted words are not
   lost, and no run loads half of a promotion.
3. `WordOrder`: the load order as a function, against the definition of a
   topological order, with cycles.
4. The BEAM ledger and loop where they differ from the Python ones; OODA budgets and the
   evidence cache; `SharedSpace`, as another refinement of `LeaseBoard`.
5. `DurableRun` with a bounded log and with a checkpoint index of 0.
