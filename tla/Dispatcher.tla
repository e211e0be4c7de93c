----------------------------- MODULE Dispatcher -----------------------------
(***************************************************************************)
(* LdHost.Dispatcher and the heartbeat of LdHost.Obligation                *)
(* (beam/lib/ld_host/dispatcher.ex, obligation.ex): several dispatchers    *)
(* share one tuple space. Each keeps a linked taker process blocked in     *)
(* `take`, runs every claimed obligation in a supervised task that is not  *)
(* linked to it, and acknowledges or expires the claim when the task's     *)
(* result, or the news of its death, arrives.                              *)
(*                                                                         *)
(* The space is the LeaseBoard that TupleSpace implements. A token is      *)
(* [job, gen]: one claim, and the one task that may be started for it.     *)
(***************************************************************************)
EXTENDS Naturals, FiniteSets, Sequences

CONSTANTS
    Jobs,          \* obligations
    Refused,       \* those without a goal or a workspace
    Dispatchers,
    MaxFaults      \* bound: crashes of tasks and dispatchers, leases lost to lateness

ASSUME DispatcherAssumption == Refused \subseteq Jobs /\ MaxFaults \in Nat

VARIABLES
    board,         \* the space
    up,            \* up[d]: dispatcher d's process runs
    taking,        \* taking[d]: its taker is blocked in take
    inbox,         \* inbox[d]: messages [kind, job, gen] not yet handled
    running,       \* running[d]: tokens in state.running
    tasks,         \* live tasks, [job, gen, owner]; owner is whom the result goes to
    idle,          \* idle[d]: "none", "waiting" or "told", a caller of await_idle
    ledger,        \* recorded obligation events, [type, job, gen]
    returned,      \* history: tokens whose task returned a result
    faults

vars == <<board, up, taking, inbox, running, tasks, idle, ledger, returned, faults>>

Nobody == "nobody"

ASSUME NobodyAssumption == Nobody \notin Dispatchers

Space == INSTANCE LeaseBoard WITH Jobs <- Jobs, board <- board

Token(x)      == [job |-> x.job, gen |-> x.gen]
Message(k, t) == [kind |-> k, job |-> t.job, gen |-> t.gen]
Event(ty, t)  == [type |-> ty, job |-> t.job, gen |-> t.gen]

\* The lease of token t is in the space.
Current(t) == board[t.job] = Space!Held(t.gen)

Init ==
    /\ Space!Init
    /\ up = [d \in Dispatchers |-> TRUE]
    /\ taking = [d \in Dispatchers |-> TRUE]
    /\ inbox = [d \in Dispatchers |-> <<>>]
    /\ running = [d \in Dispatchers |-> {}]
    /\ tasks = {}
    /\ idle = [d \in Dispatchers |-> "none"]
    /\ ledger = {} /\ returned = {} /\ faults = 0

-----------------------------------------------------------------------------
\* The space: out, take, ack, expire and the lease timer.

Post(j) ==
    /\ board[j] = Space!Absent
    /\ Space!Becomes(j, Space!Free(0))
    /\ UNCHANGED <<up, taking, inbox, running, tasks, idle, ledger, returned, faults>>

\* The taker gets a claim and sends it on.
Take(d, j) ==
    /\ up[d] /\ taking[d]
    /\ Space!Claim(j)
    /\ taking' = [taking EXCEPT ![d] = FALSE]
    /\ inbox' = [inbox EXCEPT ![d] =
          Append(@, Message("claimed", [job |-> j, gen |-> board[j].gen + 1]))]
    /\ UNCHANGED <<up, running, tasks, idle, ledger, returned, faults>>

\* ack and expire reply false for a token that is not current.
AckClaim(t)    == IF Current(t) THEN Space!Finish(t.job) ELSE UNCHANGED board

ExpireClaim(t) ==
    IF Current(t) THEN Space!Becomes(t.job, Space!Free(t.gen)) ELSE UNCHANGED board

\* Somebody alive is still to renew the lease of t, or to end it.
Tended(t) ==
    \/ \E x \in tasks : Token(x) = t
    \/ \E d \in Dispatchers : up[d] /\ \E i \in DOMAIN inbox[d] : Token(inbox[d][i]) = t

Lapses(j) ==
    /\ board[j].at = "held"
    /\ ExpireClaim([job |-> j, gen |-> board[j].gen])
    /\ UNCHANGED <<up, taking, inbox, running, tasks, idle, ledger, returned>>

\* The lease timer fires on a claim nobody tends, or, a fault, because a heartbeat or
\* a mailbox is late by a whole lease.
LeaseLapses(j) ==
    /\ ~Tended([job |-> j, gen |-> board[j].gen])
    /\ Lapses(j)
    /\ UNCHANGED faults

LeaseLapsesLate(j) ==
    /\ Tended([job |-> j, gen |-> board[j].gen])
    /\ faults < MaxFaults /\ faults' = faults + 1
    /\ Lapses(j)

-----------------------------------------------------------------------------
\* The dispatcher's handlers. Each takes the first message of the inbox.

Receives(d, kind) == up[d] /\ inbox[d] # <<>> /\ Head(inbox[d]).kind = kind

Pop(d) == inbox' = [inbox EXCEPT ![d] = Tail(@)]

\* Mutants of HandleClaimed: the next taker is spawned for obligations that ran only; a
\* refused obligation is run as well.
HandleClaimedOnce(d) ==
    /\ Receives(d, "claimed")
    /\ Pop(d)
    /\ LET t == Token(Head(inbox[d]))
       IN  IF t.job \in Refused
           THEN /\ AckClaim(t)
                /\ ledger' = ledger \cup {Event("denied", t)}
                /\ UNCHANGED <<taking, running, tasks>>
           ELSE /\ ledger' = ledger \cup {Event("spawned", t)}
                /\ tasks' = tasks \cup {[job |-> t.job, gen |-> t.gen, owner |-> d]}
                /\ running' = [running EXCEPT ![d] = @ \cup {t}]
                /\ taking' = [taking EXCEPT ![d] = TRUE]
                /\ UNCHANGED board
    /\ UNCHANGED <<up, idle, returned, faults>>

HandleClaimedRefusedRuns(d) ==
    /\ Receives(d, "claimed")
    /\ Pop(d)
    /\ taking' = [taking EXCEPT ![d] = TRUE]
    /\ LET t == Token(Head(inbox[d]))
       IN  /\ IF t.job \in Refused
              THEN AckClaim(t) /\ ledger' = ledger \cup {Event("denied", t)}
              ELSE UNCHANGED board /\ ledger' = ledger \cup {Event("spawned", t)}
           /\ tasks' = tasks \cup {[job |-> t.job, gen |-> t.gen, owner |-> d]}
           /\ running' = [running EXCEPT ![d] = @ \cup {t}]
    /\ UNCHANGED <<up, idle, returned, faults>>

\* Refuse the obligation and acknowledge it, or start its task; then take again.
HandleClaimed(d) ==
    /\ Receives(d, "claimed")
    /\ Pop(d)
    /\ taking' = [taking EXCEPT ![d] = TRUE]
    /\ LET t == Token(Head(inbox[d]))
       IN  IF t.job \in Refused
           THEN /\ AckClaim(t)
                /\ ledger' = ledger \cup {Event("denied", t)}
                /\ UNCHANGED <<running, tasks>>
           ELSE /\ ledger' = ledger \cup {Event("spawned", t)}
                /\ tasks' = tasks \cup {[job |-> t.job, gen |-> t.gen, owner |-> d]}
                /\ running' = [running EXCEPT ![d] = @ \cup {t}]
                /\ UNCHANGED board
    /\ UNCHANGED <<up, idle, returned, faults>>

\* Mutants of Forget: the callers of await_idle are answered at every end of a task;
\* the task stays in running.
ForgetNothing(d, t) ==
    /\ UNCHANGED running
    /\ idle' = [idle EXCEPT ![d] =
          IF @ = "waiting" /\ running[d] = {t} THEN "told" ELSE @]

ForgetTellsAll(d, t) ==
    /\ running' = [running EXCEPT ![d] = @ \ {t}]
    /\ idle' = [idle EXCEPT ![d] = IF @ = "waiting" THEN "told" ELSE @]

\* Drop the task, and answer the callers of await_idle when it was the last one.
Forget(d, t) ==
    /\ running' = [running EXCEPT ![d] = @ \ {t}]
    /\ idle' = [idle EXCEPT ![d] =
          IF @ = "waiting" /\ running[d] = {t} THEN "told" ELSE @]

\* A result, completed or failed, ends the claim for good; the reply of ack is not
\* looked at. An end of a task that is not in running is ignored.
HandleResult(d) ==
    /\ Receives(d, "result")
    /\ Pop(d)
    /\ LET t == Token(Head(inbox[d]))
       IN  IF t \in running[d]
           THEN AckClaim(t) /\ ledger' = ledger \cup {Event("finished", t)} /\ Forget(d, t)
           ELSE UNCHANGED <<board, ledger, running, idle>>
    /\ UNCHANGED <<up, taking, tasks, returned, faults>>

\* A crash gives the claim back at once.
HandleDown(d) ==
    /\ Receives(d, "down")
    /\ Pop(d)
    /\ LET t == Token(Head(inbox[d]))
       IN  IF t \in running[d]
           THEN ExpireClaim(t) /\ ledger' = ledger \cup {Event("crashed", t)} /\ Forget(d, t)
           ELSE UNCHANGED <<board, ledger, running, idle>>
    /\ UNCHANGED <<up, taking, tasks, returned, faults>>

AwaitIdle(d) ==
    /\ up[d] /\ idle[d] = "none"
    /\ idle' = [idle EXCEPT ![d] = IF running[d] = {} THEN "told" ELSE "waiting"]
    /\ UNCHANGED <<board, up, taking, inbox, running, tasks, ledger, returned, faults>>

-----------------------------------------------------------------------------
\* Tasks. One ends with its heartbeat; the message goes to the process that started
\* it, if that still exists.

Ends(x, kind) ==
    /\ tasks' = tasks \ {x}
    /\ inbox' = IF x.owner = Nobody THEN inbox
                ELSE [inbox EXCEPT ![x.owner] = Append(@, Message(kind, x))]
    /\ UNCHANGED <<board, up, taking, running, idle, ledger>>

TaskReturns(x) ==
    /\ Ends(x, "result")
    /\ returned' = returned \cup {Token(x)}
    /\ UNCHANGED faults

TaskCrashes(x) ==
    /\ faults < MaxFaults
    /\ faults' = faults + 1
    /\ Ends(x, "down")
    /\ UNCHANGED returned

-----------------------------------------------------------------------------
\* A dispatcher dies with its taker and its mailbox; its tasks go on. Somebody may start
\* one in its place; no supervisor does.

DispatcherDies(d) ==
    /\ up[d] /\ faults < MaxFaults
    /\ faults' = faults + 1
    /\ up' = [up EXCEPT ![d] = FALSE]
    /\ taking' = [taking EXCEPT ![d] = FALSE]
    /\ inbox' = [inbox EXCEPT ![d] = <<>>]
    /\ running' = [running EXCEPT ![d] = {}]
    /\ idle' = [idle EXCEPT ![d] = "none"]
    /\ tasks' = {IF x.owner = d THEN [x EXCEPT !.owner = Nobody] ELSE x : x \in tasks}
    /\ UNCHANGED <<board, ledger, returned>>

DispatcherStarts(d) ==
    /\ ~up[d]
    /\ up' = [up EXCEPT ![d] = TRUE]
    /\ taking' = [taking EXCEPT ![d] = TRUE]
    /\ UNCHANGED <<board, inbox, running, tasks, idle, ledger, returned, faults>>

-----------------------------------------------------------------------------
Handle(d) == HandleClaimed(d) \/ HandleResult(d) \/ HandleDown(d)

Next ==
    \/ \E j \in Jobs : Post(j) \/ LeaseLapses(j) \/ LeaseLapsesLate(j)
    \/ \E d \in Dispatchers :
          \/ \E j \in Jobs : Take(d, j)
          \/ Handle(d) \/ AwaitIdle(d) \/ DispatcherDies(d) \/ DispatcherStarts(d)
    \/ \E x \in tasks : TaskReturns(x) \/ TaskCrashes(x)

Spec == Init /\ [][Next]_vars

\* Every claim of a job but the first follows a fault that ended the one before.
Claims == [job : Jobs, gen : 1 .. MaxFaults + 1]

TaskEnds(t) == \E x \in tasks : Token(x) = t /\ (TaskReturns(x) \/ TaskCrashes(x))

\* Processes are scheduled, timers fire, and every task ends: a run that does not answer
\* is cut off by its timeout, which raises, and that is a crash of the task. No task need
\* ever return a result, and nobody need start a dead dispatcher again.
Fairness ==
    /\ \A d \in Dispatchers : WF_vars(Handle(d)) /\ WF_vars(\E j \in Jobs : Take(d, j))
    /\ \A j \in Jobs : WF_vars(LeaseLapses(j))
    /\ \A t \in Claims : WF_vars(TaskEnds(t))

FairSpec == Spec /\ Fairness

-----------------------------------------------------------------------------
\* Properties.

Tokens == [job : Jobs, gen : Nat \ {0}]

Messages == [kind : {"claimed", "result", "down"}, job : Jobs, gen : Nat \ {0}]

\* Every variable has its type.
TypeOK ==
    /\ board \in [Jobs -> [at : {"absent", "free", "held", "done"}, gen : Nat]]
    /\ up \in [Dispatchers -> BOOLEAN] /\ taking \in [Dispatchers -> BOOLEAN]
    /\ running \in [Dispatchers -> SUBSET Tokens]
    /\ inbox \in [Dispatchers -> Seq(Messages)]
    /\ tasks \subseteq [job : Jobs, gen : Nat \ {0}, owner : Dispatchers \cup {Nobody}]
    /\ idle \in [Dispatchers -> {"none", "waiting", "told"}]
    /\ ledger \subseteq [type : {"spawned", "denied", "finished", "crashed"},
                         job : Jobs, gen : Nat \ {0}]
    /\ returned \subseteq Tokens
    /\ faults \in 0 .. MaxFaults

\* An obligation leaves the space for good only when it was refused, or when the task
\* of the very claim that was acknowledged returned a result.
AckedMeansWorked ==
    \A j \in Jobs : board[j].at = "done" =>
        j \in Refused \/ [job |-> j, gen |-> board[j].gen] \in returned

\* What a dispatcher keeps in running is what its tasks are: each is alive under it, or
\* its end is in the mailbox, and no two claims share a task.
RunningIsTracked ==
    \A d \in Dispatchers :
        LET alive  == {Token(x) : x \in {y \in tasks : y.owner = d}}
            ended  == {Token(inbox[d][i]) :
                          i \in {k \in DOMAIN inbox[d] : inbox[d][k].kind # "claimed"}}
        IN  running[d] = alive \cup ended /\ alive \cap ended = {}

\* No claim is forgotten: as long as nothing failed, somebody tends every lease.
EveryLeaseIsTended ==
    faults = 0 => \A j \in Jobs : board[j].at = "held" =>
        Tended([job |-> j, gen |-> board[j].gen])

\* Every claim is somebody's: what runs is in the table of its dispatcher, and what is
\* leased is tended (handle_claim, finish, start_heartbeat).
ClaimsAreTracked == TypeOK /\ RunningIsTracked /\ EveryLeaseIsTended

\* Two tasks work on one obligation only after a fault: lateness, or a crash.
WorkedByOneTask ==
    faults = 0 => \A x, y \in tasks : x.job = y.job => x = y

\* A claim's story in the ledger has one end.
OneOutcomePerClaim ==
    \A e, f \in ledger :
        Token(e) = Token(f) /\ e.type # "spawned" /\ f.type # "spawned" => e = f

\* One task works on an obligation, a claim ends in one way, and what is acknowledged was
\* worked on (handle_claim, handle_result, finish).
OneWorkerOneOutcome == WorkedByOneTask /\ OneOutcomePerClaim /\ AckedMeansWorked

\* A caller that had to wait for the dispatcher to be idle is told only when none of
\* that dispatcher's tasks is alive.
ToldWhenIdle ==
    [][\A d \in Dispatchers : idle[d] = "waiting" /\ idle'[d] = "told" =>
          \A x \in tasks' : x.owner # d]_vars

\* No claim is held for ever, whatever became of its task and of its dispatcher, and an
\* obligation in the space is claimed as long as some dispatcher lives. It need not ever
\* be done: one whose tasks crash each time is given back and taken again
\* (handle_claim, finish, spawn_taker, start_heartbeat, the lease timer).
ClaimsEnd ==
    /\ \A t \in Claims : Current(t) ~> ~Current(t)
    /\ \A j \in Jobs :
          board[j].at = "free" ~> board[j].at # "free" \/ \A d \in Dispatchers : ~up[d]
=============================================================================
