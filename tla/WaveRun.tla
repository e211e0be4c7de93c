------------------------------- MODULE WaveRun -------------------------------
(***************************************************************************)
(* livingdict/execute.py, execute_waves: the nodes of an accepted plan run *)
(* in waves. The host puts a tuple for every ready node; the workers of a  *)
(* thread pool take them under a lease, run the node's program against the *)
(* workspace through a view of the host, and hand in the outcome of a      *)
(* claim that is still theirs. The wave ends when every worker has left.   *)
(*                                                                         *)
(* The tuple space is its promise, LeaseBoard (which WaveSpace implements):*)
(* a lease may run out at any time, and its node may be taken again while  *)
(* the first worker is still at it. A write is two steps, as in            *)
(* host.write_file: the fence asks whether the claim is current, and then  *)
(* the file is written. A program step writes a constant, copies a file    *)
(* (READ-FILE, then WRITE-FILE) or traps.                                  *)
(***************************************************************************)
EXTENDS WavePlan

CONSTANTS
    Plans,          \* the envelopes that are tried
    Contents,       \* what a file can hold
    Workers,        \* wave_workers, as numbers from 1
    MaxLapses       \* bound: leases that run out, and workers that die

\* resolve_wave_workers: at least one worker.
ASSUME WorkerAssumption ==
    /\ IsFiniteSet(Workers) /\ Workers # {} /\ Workers = 1 .. Cardinality(Workers)
    /\ MaxLapses \in Nat

\* The shape of an envelope, and of the steps its programs are cut into.
ASSUME PlanAssumption ==
    /\ {"absent", "old", "artifact"} \subseteq Contents
    /\ \A p \in Plans :
        /\ IsFiniteSet(NodesOf(p)) /\ NodesOf(p) \subseteq Nat
        /\ p.deps \in [NodesOf(p) -> SUBSET Nat] /\ IsFiniteSet(p.artifacts)
        /\ \A n \in NodesOf(p) :
            /\ p.steps[n] \in Seq(ToSet(p.steps[n]))
            /\ \A s \in ToSet(p.steps[n]) :
                /\ s.do \in {"write", "copy", "trap"}
                /\ s.do = "write" => s.value \in Contents
                /\ s.do = "copy" => s.from \in Paths

VARIABLES
    plan,
    phase,          \* "critic", "between", "wave", "ended", "rejected", "error"
    completed, trapped, remaining,
    waves,          \* the waves that were started, the last one being the current one
    board,          \* the tuple of each node
    worker,
    outcome,        \* session.outcomes
    files,          \* the workspace
    writers,        \* the nodes that wrote each path in the current wave
    lapses

vars == <<plan, phase, completed, trapped, remaining, waves, board, worker, outcome,
          files, writers, lapses>>

Nodes   == NodesOf(plan)
Wave    == IF waves = <<>> THEN {} ELSE Last(waves)
Absent  == "absent"
Off     == [pc |-> "off", node |-> 0, gen |-> 0, i |-> 1, read |-> Absent, result |-> "ok"]

FilesBefore(p) == [f \in Paths |-> IF f \in p.before THEN "old" ELSE Absent]

Outcomes      == {"ok", "trap", "missing_file", "fence", "policy"}
WorkerRecords ==
    [pc   : {"off", "take", "claimed", "step", "fence", "write", "report", "finish"},
     node : Nodes \cup {0}, gen : Nat, i : Nat \ {0}, read : Contents, result : Outcomes]

Lapse == lapses < MaxLapses /\ lapses' = lapses + 1

\* plan.before are the files that are there. Steps are [do, path, from, value]; a copy
\* reads from, a write has the value, a "trap" step fails (a Forth error, a missing file).
Init ==
    /\ plan \in Plans /\ phase = "critic"
    /\ completed = {} /\ trapped = {} /\ remaining = NodesOf(plan) /\ waves = <<>>
    /\ board = [n \in NodesOf(plan) |-> [at |-> "absent", gen |-> 0]]
    /\ worker = [w \in Workers |-> Off]
    /\ outcome = [n \in NodesOf(plan) |-> "none"]
    /\ files = FilesBefore(plan) /\ writers = [f \in Paths |-> {}]
    /\ lapses = 0

\* validate, and then plan_waves at the start of execute_waves.
Critic ==
    /\ phase = "critic"
    /\ phase' = IF ~CriticAccepts(plan) THEN "rejected"
                ELSE IF Plannable(plan) THEN "between" ELSE "error"
    /\ UNCHANGED <<plan, completed, trapped, remaining, waves, board, worker, outcome,
                   files, writers, lapses>>

-----------------------------------------------------------------------------
\* The scheduler's loop.

\* One `out` for every ready node, a new session, and a pool of workers.
StartWave ==
    LET ready == ReadyNodes(plan, completed) \cap remaining
        cap   == IF Cardinality(ready) <= Cardinality(Workers)
                 THEN Cardinality(ready) ELSE Cardinality(Workers)
    IN  /\ phase = "between" /\ ready # {}
        /\ phase' = "wave" /\ waves' = Append(waves, ready)
        /\ board' = [n \in Nodes |-> IF n \in ready THEN [at |-> "free", gen |-> 0] ELSE board[n]]
        /\ worker' = [w \in Workers |-> IF w <= cap THEN [Off EXCEPT !.pc = "take"] ELSE Off]
        /\ outcome' = [n \in Nodes |-> "none"]
        /\ writers' = [f \in Paths |-> {}]
        /\ UNCHANGED <<plan, completed, trapped, remaining, files, lapses>>

\* Nothing is ready: the run is over, or stuck without a trap to blame.
EndRun ==
    /\ phase = "between" /\ ReadyNodes(plan, completed) \cap remaining = {}
    /\ phase' = IF remaining # {} /\ trapped = {} THEN "error" ELSE "ended"
    /\ UNCHANGED <<plan, completed, trapped, remaining, waves, board, worker, outcome,
                   files, writers, lapses>>

\* Every future has returned: the outcomes are merged (_merge_wave).
EndWave ==
    /\ phase = "wave" /\ \A w \in Workers : worker[w].pc = "off"
    /\ phase' = IF \A n \in Wave : outcome[n] # "none" THEN "between" ELSE "error"
    /\ completed' = completed \cup {n \in Wave : outcome[n] = "ok"}
    /\ trapped' = trapped \cup {n \in Wave : outcome[n] \notin {"ok", "none"}}
    /\ remaining' = remaining \ Wave
    /\ UNCHANGED <<plan, waves, board, worker, outcome, files, writers, lapses>>

-----------------------------------------------------------------------------
\* A worker (_space_worker).

\* session.done is set when every expected outcome is in.
Done == \A n \in Wave : outcome[n] # "none"

Take(w, n) ==
    /\ worker[w].pc = "take" /\ ~Done /\ board[n].at = "free"
    /\ board' = [board EXCEPT ![n] = [at |-> "held", gen |-> @.gen + 1]]
    /\ worker' = [worker EXCEPT ![w] = [Off EXCEPT !.pc = "claimed", !.node = n,
                                                   !.gen = board[n].gen + 1]]
    /\ UNCHANGED <<plan, phase, completed, trapped, remaining, waves, outcome, files,
                   writers, lapses>>

\* The event is set: take returns nothing, or the loop ends.
Leave(w) ==
    /\ worker[w].pc = "take" /\ Done
    /\ worker' = [worker EXCEPT ![w] = Off]
    /\ UNCHANGED <<plan, phase, completed, trapped, remaining, waves, board, outcome,
                   files, writers, lapses>>

\* Mutant of IsCurrent: any live claim of the node will do.
IsCurrentByNode(w) == board[worker[w].node].at = "held"

IsCurrent(w) == board[worker[w].node] = [at |-> "held", gen |-> worker[w].gen]

\* The death hook: the worker gives its claim back and goes on to the next.
Dies(w) ==
    /\ worker[w].pc = "claimed" /\ Lapse
    /\ worker' = [worker EXCEPT ![w] = [Off EXCEPT !.pc = "take"]]
    /\ board' = IF IsCurrent(w) THEN [board EXCEPT ![worker[w].node].at = "free"] ELSE board
    /\ UNCHANGED <<plan, phase, completed, trapped, remaining, waves, outcome, files, writers>>

\* Mutant of LeaseLapses: what a lapsed lease held is not put back.
LeaseLapsesLost(n) ==
    /\ board[n].at = "held" /\ Lapse
    /\ board' = [board EXCEPT ![n].at = "absent"]
    /\ UNCHANGED <<plan, phase, completed, trapped, remaining, waves, worker, outcome,
                   files, writers>>

\* A lease runs out, and somebody collects it.
LeaseLapses(n) ==
    /\ board[n].at = "held" /\ Lapse
    /\ board' = [board EXCEPT ![n].at = "free"]
    /\ UNCHANGED <<plan, phase, completed, trapped, remaining, waves, worker, outcome,
                   files, writers>>

\* _run_one_node installs the artifacts the node's globs cover before its program.
StepsOf(p, n) ==
    LET owned == SetToSeq({f \in p.artifacts : f \in WritesOf(p, n)})
    IN  [i \in DOMAIN owned |->
            [do |-> "write", path |-> owned[i], from |-> owned[i], value |-> "artifact"]]
        \o p.steps[n]

Step(w) == StepsOf(plan, worker[w].node)[worker[w].i]

Continue(w, pc) == worker' = [worker EXCEPT ![w].pc = pc, ![w].read = Absent,
                                            ![w].i = worker[w].i + 1]
Trap(w, reason) == worker' = [worker EXCEPT ![w].pc = "report", ![w].result = reason]

Begin(w) ==
    /\ worker[w].pc = "claimed"
    /\ worker' = [worker EXCEPT ![w].pc = "step"]
    /\ UNCHANGED <<plan, phase, completed, trapped, remaining, waves, board, outcome,
                   files, writers, lapses>>

\* The next step of the program; READ-FILE reads here what WRITE-FILE will write.
RunStep(w) ==
    /\ worker[w].pc = "step"
    /\ IF worker[w].i > Len(StepsOf(plan, worker[w].node))
       THEN worker' = [worker EXCEPT ![w].pc = "report"]
       ELSE CASE Step(w).do = "trap" -> Trap(w, "trap")
              [] Step(w).do = "copy" /\ files[Step(w).from] = Absent -> Trap(w, "missing_file")
              [] Step(w).do = "copy" /\ files[Step(w).from] # Absent ->
                    worker' = [worker EXCEPT ![w].pc = "fence", ![w].read = files[Step(w).from]]
              [] Step(w).do = "write" ->
                    worker' = [worker EXCEPT ![w].pc = "fence", ![w].read = Step(w).value]
    /\ UNCHANGED <<plan, phase, completed, trapped, remaining, waves, board, outcome,
                   files, writers, lapses>>

\* node_view: the node's own globs, nothing a sibling of the wave declares, and what
\* the host allows.
MayWrite(n, f) ==
    /\ f \in WritesOf(plan, n) /\ f \in Paths
    /\ \A m \in Wave \ {n} : f \notin WritesOf(plan, m)

\* Mutant of Idempotent: a file that is there stays as it is.
IdempotentIfThere(w) == files[Step(w).path] # Absent

\* write_file finds the bytes it would write.
Idempotent(w) == files[Step(w).path] = worker[w].read

\* write_file up to the write: the fence, the policies, and a file that is already
\* what it should be.
Fence(w) ==
    LET n == worker[w].node
    IN  /\ worker[w].pc = "fence"
        /\ \/ ~IsCurrent(w) /\ Trap(w, "fence")
           \/ IsCurrent(w) /\ ~MayWrite(n, Step(w).path) /\ Trap(w, "policy")
           \/ /\ IsCurrent(w) /\ MayWrite(n, Step(w).path)
              /\ IF Idempotent(w)
                 THEN Continue(w, "step")
                 ELSE worker' = [worker EXCEPT ![w].pc = "write"]
        /\ UNCHANGED <<plan, phase, completed, trapped, remaining, waves, board, outcome,
                       files, writers, lapses>>

Write(w) ==
    /\ worker[w].pc = "write"
    /\ files' = [files EXCEPT ![Step(w).path] = worker[w].read]
    /\ writers' = [writers EXCEPT ![Step(w).path] = @ \cup {worker[w].node}]
    /\ Continue(w, "step")
    /\ UNCHANGED <<plan, phase, completed, trapped, remaining, waves, board, outcome, lapses>>

\* is_current and ack. A claim that is not current any more is dropped, outcome and all.
Report(w) ==
    /\ worker[w].pc = "report"
    /\ IF IsCurrent(w)
       THEN /\ board' = [board EXCEPT ![worker[w].node].at = "done"]
            /\ worker' = [worker EXCEPT ![w].pc = "finish"]
       ELSE worker' = [worker EXCEPT ![w] = [Off EXCEPT !.pc = "take"]] /\ UNCHANGED board
    /\ UNCHANGED <<plan, phase, completed, trapped, remaining, waves, outcome, files,
                   writers, lapses>>

\* session.finish, under the session's lock: the first outcome of a node counts.
Finish(w) ==
    /\ worker[w].pc = "finish"
    /\ outcome' = IF outcome[worker[w].node] # "none" THEN outcome
                  ELSE [outcome EXCEPT ![worker[w].node] = worker[w].result]
    /\ worker' = [worker EXCEPT ![w] = [Off EXCEPT !.pc = "take"]]
    /\ UNCHANGED <<plan, phase, completed, trapped, remaining, waves, board, files,
                   writers, lapses>>

WorkerStep(w) ==
    \/ \E n \in Nodes : Take(w, n)
    \/ Leave(w) \/ Begin(w) \/ RunStep(w) \/ Fence(w) \/ Write(w) \/ Report(w) \/ Finish(w)

Next ==
    \/ Critic \/ StartWave \/ EndWave \/ EndRun
    \/ \E w \in Workers : WorkerStep(w) \/ Dies(w)
    \/ \E n \in Nodes : LeaseLapses(n)

Spec == Init /\ [][Next]_vars

\* The host and the pool's threads are scheduled. Leases need not run out.
FairSpec ==
    /\ Spec
    /\ WF_vars(Critic \/ StartWave \/ EndWave \/ EndRun)
    /\ \A w \in Workers : WF_vars(WorkerStep(w))

-----------------------------------------------------------------------------
\* Properties.

\* Type invariant of a run.
TypeOK ==
    /\ plan \in Plans
    /\ phase \in {"critic", "between", "wave", "ended", "rejected", "error"}
    /\ completed \subseteq Nodes /\ trapped \subseteq Nodes /\ remaining \subseteq Nodes
    /\ waves \in Seq(SUBSET Nodes)
    /\ board \in [Nodes -> [at : {"absent", "free", "held", "done"}, gen : Nat]]
    /\ worker \in [Workers -> WorkerRecords]
    /\ outcome \in [Nodes -> Outcomes \cup {"none"}]
    /\ files \in [Paths -> Contents] /\ writers \in [Paths -> SUBSET Nodes]
    /\ lapses \in 0 .. MaxLapses

\* What the critic accepts the scheduler can carry out: plan_waves does not raise, no
\* run is stuck or leaves a node of a wave without an outcome, and a run without
\* traps follows the planned waves to the end.
WavesAsPlanned ==
    /\ phase # "error"
    /\ phase = "ended" /\ trapped = {} => completed = Nodes /\ waves = Levels(plan)
    /\ phase = "ended" => \A n \in remaining : \E m \in trapped : m \in Reached(plan, n)

\* A worker runs a node, also for the second time, only when everything the node
\* depends on has completed: nodes behind a trapped one never run.
DependenciesFirst ==
    \A w \in Workers : worker[w].pc \in {"step", "fence", "write"} =>
        plan.deps[worker[w].node] \subseteq completed

\* An accepted plan is carried out, in the order it asks for (validate, plan_waves,
\* ready_nodes and the loop of execute_waves agree about a graph).
PlanCarriedOut == TypeOK /\ WavesAsPlanned /\ DependenciesFirst

\* In one wave a path is written by at most one node, even if the critic did not see
\* that two globs overlap and however late a worker writes (node_view's siblings).
OneWriter ==
    \A f \in Paths : \A m, n \in writers[f] : m = n

\* A claim whose fence held writes for the node that holds the path; when an outcome is
\* in, the claim that handed it in was the newest of its node.
NewestReports ==
    \A w \in Workers : worker[w].pc = "finish" =>
        /\ board[worker[w].node] = [at |-> "done", gen |-> worker[w].gen]
        /\ worker[w].result # "fence"

\* However late a claim reports or writes, it is fenced: by its generation in the space, and
\* by the write set of its node in the workspace.
LateIsFenced == OneWriter /\ NewestReports

\* The nodes one after the other, in Kahn's order.
AfterStep(fs, s) ==
    IF s.do = "copy" THEN [fs EXCEPT ![s.path] = fs[s.from]] ELSE [fs EXCEPT ![s.path] = s.value]

AfterSteps(p, n, fs) ==
    LET after[i \in 0 .. Len(StepsOf(p, n))] ==
            IF i = 0 THEN fs ELSE AfterStep(after[i - 1], StepsOf(p, n)[i])
    IN  after

AfterNode(p, n, fs) == AfterSteps(p, n, fs)[Len(StepsOf(p, n))]

AfterNodes(p) ==
    LET after[k \in 0 .. Len(KahnOrder(p))] ==
            IF k = 0 THEN FilesBefore(p) ELSE AfterNode(p, KahnOrder(p)[k], after[k - 1])
    IN  after

SerialFiles(p) == AfterNodes(p)[Len(KahnOrder(p))]

PathsOf(p, n) == {StepsOf(p, n)[i].path : i \in DOMAIN StepsOf(p, n)}

\* A plan whose nodes write a path once and read only what they depend on wrote, and of
\* whose nodes two that write the same path depend on one another.
Settled(p) ==
    \A n \in NodesOf(p) :
        /\ \A i, j \in DOMAIN StepsOf(p, n) : StepsOf(p, n)[i].path = StepsOf(p, n)[j].path => i = j
        /\ \A i \in DOMAIN StepsOf(p, n) : StepsOf(p, n)[i].do = "copy" =>
              \A m \in NodesOf(p) : StepsOf(p, n)[i].from \in WritesOf(p, m) => m \in Reached(p, n)
        /\ \A m \in NodesOf(p) \ {n} : PathsOf(p, m) \cap PathsOf(p, n) # {} =>
              m \in Reached(p, n) \/ n \in Reached(p, m)

\* Leases that run out, nodes that run twice at the same time and writes that come after
\* the claim was lost do not show in the workspace of a settled plan: the waves of
\* execute_waves leave the files that its nodes leave one after the other.
SameAsSerial ==
    phase = "ended" /\ trapped = {} /\ Settled(plan) => files = SerialFiles(plan)

\* "Envelope node must follow task-graph dependency" (preflight.py): a node that covers
\* a task starts when every node that covers a task it depends on has completed.
TaskOrderKept ==
    \A w \in Workers : worker[w].pc = "step" =>
        \A t \in DOMAIN plan.tasks : worker[w].node \in Covering(plan, t) =>
            \A d \in plan.tasks[t].deps \cap DOMAIN plan.tasks : Covering(plan, d) \subseteq completed

\* A run ends, whatever leases run out: no worker waits for ever for a node that
\* another one will never give back.
RunEnds == <>(phase \in {"ended", "rejected"})
=============================================================================
