-------------------------- MODULE RuntimeEvidence --------------------------
(***************************************************************************)
(* LdHost.RuntimeEvidence (beam/lib/ld_host/runtime_evidence.ex): the      *)
(* verifier that reads the files a durable run leaves behind and decides   *)
(* whether they are evidence of what the receipt claims. It runs beside    *)
(* DurableRun here, over the very files the executor wrote.                *)
(*                                                                         *)
(* Hash chains, the engine attestation and the binding of the scenario are *)
(* left out: a line is in the journal as it was written. A list of lines   *)
(* is the set of their places, in the order of the journal.                *)
(***************************************************************************)
EXTENDS DurableRun

OfRoute(r) == {i \in DOMAIN oplog : oplog[i].route = r}

Of(is, kind) == {i \in is : oplog[i].kind = kind}

\* In a well-formed route events come in their order: the set says what the list says.
Transitions(is) ==
    {[event |-> oplog[i].event, state |-> oplog[i].state] : i \in Of(is, "invocation")}

-----------------------------------------------------------------------------
\* Routes.

\* Every invocation but the first handles the event after that of the one before it.
Continuous(is) ==
    LET inv == Of(is, "invocation")
    IN  \A j \in inv : (\E i \in inv : i < j) =>
            \E i \in inv : /\ i < j /\ \A k \in inv : k < j => k <= i
                           /\ oplog[j].event = oplog[i].event + 1

WellFormedRoute(is) ==
    /\ is # {}
    /\ Of(is, "creation") = {Min(is)} /\ Of(is, "exit") = {Max(is)}
    /\ Continuous(is)

Live(e) ==
    \/ e.kind \in {"intent", "reissue", "commit"}
    \/ e.kind = "result" /\ e.source = "provider"

Routes ==
    /\ \A r \in 2 .. ForkRoute : WellFormedRoute(OfRoute(r))
    /\ \A r \in 2 .. Recovered : \A i \in OfRoute(r) : ~Live(oplog[i])

\* The parent route split at its resume entries: a segment lies behind one of them, the
\* first behind none.
Resumes == Of(OfRoute(1), "resume")

Cuts == {0} \cup Resumes

Segment(m) == {i \in OfRoute(1) : i > m /\ \A n \in Resumes : n <= m \/ i < n}

Final   == Segment(Max(Cuts))
Earlier == {Segment(m) : m \in Cuts \ {Max(Cuts)}}

\* Mutant of ParentHistory: an interrupted segment may have exited.
ParentHistoryAllowsExit ==
    /\ WellFormedRoute(Final)
    /\ \A s \in Earlier : s # {} /\ oplog[Min(s)].kind = "creation"

ParentHistory ==
    /\ WellFormedRoute(Final)
    /\ \A s \in Earlier : s # {} /\ oplog[Min(s)].kind = "creation"
    /\ \A s \in Earlier : Of(s, "exit") = {}

-----------------------------------------------------------------------------
\* Effects: every entry against the ones before it.

SameFields(e, f) == e.key = f.key /\ e.name = f.name /\ e.request = f.request

PriorOf(i, kind) == {j \in 1 .. i - 1 : oplog[j].kind = kind /\ oplog[j].key = oplog[i].key}

Journaled(i) ==
    /\ PriorOf(i, "commit") = {}
    /\ \E j \in PriorOf(i, "intent") : SameFields(oplog[j], oplog[i])

EffectInOrder(i) ==
    CASE oplog[i].kind = "intent" -> PriorOf(i, "intent") = {} /\ PriorOf(i, "commit") = {}
      [] oplog[i].kind \in {"reissue", "commit"} -> Journaled(i)
      [] oplog[i].kind = "result" ->
            \E j \in PriorOf(i, "commit") : oplog[j].result = oplog[i].result
      [] OTHER -> TRUE

Effects == \A i \in DOMAIN oplog : EffectInOrder(i)

\* What the provider executed, or answered again, was committed as such.
ProviderConsistent ==
    \A i \in DOMAIN plog : plog[i].status \in {"executed", "duplicate"} =>
        \E c \in Entries("commit") : Bound(c) = Bound(plog[i])

-----------------------------------------------------------------------------
\* Checkpoint and fork.

CheckpointMatches ==
    LET cuts == Of(DOMAIN oplog, "checkpoint")
    IN  /\ cuts # {}
        /\ published = [host |-> oplog[Max(cuts)].host, seen |-> oplog[Max(cuts)].state]

\* The first n of them.
Foremost(is, n) == {i \in is : Cardinality({j \in is : j < i}) < n}

BranchMatches ==
    LET shared == {i \in Of(OfRoute(ForkRoute), "invocation") : oplog[i].branch = "parent"}
    IN  /\ Cardinality(shared) = Len(Prefix)
        /\ Transitions(shared) = Transitions(Foremost(Of(Final, "invocation"), Cardinality(shared)))

-----------------------------------------------------------------------------
\* The properties the evidence establishes, and what the receipt may claim.

SameEnd(is) ==
    /\ oplog[Max(is)].state = oplog[Max(Final)].state
    /\ oplog[Max(is)].host = oplog[Max(Final)].host

ReplayStable ==
    \A r \in 2 .. Replays + 1 :
        Transitions(OfRoute(r)) = Transitions(Final) /\ SameEnd(OfRoute(r))

CheckpointRecovered ==
    /\ oplog[Min(OfRoute(Recovered))].host = published.host
    /\ Transitions(OfRoute(Recovered)) =
           {t \in Transitions(Final) : t.event >= published.host.event}
    /\ SameEnd(OfRoute(Recovered))

EffectsExactlyOnce ==
    /\ \A i \in Entries("intent") : DanglingOf(i.key) = {}
    /\ \A i, j \in Executions : plog[i].key = plog[j].key => i = j
    /\ ProviderConsistent
    /\ {plog[i].key : i \in Executions} = {c.key : c \in Entries("commit")}
    /\ {e.key : e \in Entries("result")} = {c.key : c \in Entries("commit")}

CrashesRecovered == \A s \in Earlier : Transitions(s) \subseteq Transitions(Final)

ReceiptConsistent ==
    /\ receipt.replay => ReplayStable
    /\ receipt.recovered => CheckpointRecovered
    /\ receipt.once => EffectsExactlyOnce
    /\ receipt.crash => CrashesRecovered

Accepted ==
    /\ Routes /\ ParentHistory /\ Effects
    /\ LogIntact /\ ~ptorn
    /\ CheckpointMatches /\ BranchMatches /\ ReceiptConsistent

-----------------------------------------------------------------------------
\* Properties.

\* The journal a process resumed from ends inside the parent route, after the
\* process that wrote it got as far as creating its worker.
ResumedInParent(i) ==
    i > 1 /\ oplog[i - 1].route = 1 /\ oplog[i - 1].kind \notin {"resume", "exit"}

\* Of the runs that complete, the verifier accepts exactly those whose interrupted
\* processes all ended inside the parent route: no honest evidence is refused for
\* any other reason.
VerdictIsExact ==
    runState = "complete" =>
        (Accepted <=> \A i \in DOMAIN oplog : oplog[i].kind = "resume" => ResumedInParent(i))
=============================================================================
