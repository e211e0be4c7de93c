------------------------------ MODULE WavePlan ------------------------------
(***************************************************************************)
(* What the Python harness knows about a graph of nodes: the order and the *)
(* cycles of envelope.py, the waves of wave.py, the graph rules of the     *)
(* critic in preflight.py.                                                 *)
(*                                                                         *)
(* A plan is a record: deps[n] and globs[n] for every node n, the program  *)
(* of each node as a sequence of steps, the artifacts to install, the      *)
(* files that are there before, and the task graph of the workspace. A     *)
(* node's id is a number, ordered as the ids are. A glob is the set of the *)
(* paths it matches.                                                       *)
(***************************************************************************)
EXTENDS Naturals, FiniteSets, SequencesExt

CONSTANT Paths      \* the paths host policy allows

NodesOf(p) == DOMAIN p.deps
Count(p)   == Cardinality(NodesOf(p))
Least(S)   == CHOOSE n \in S : \A m \in S : n <= m

-----------------------------------------------------------------------------
\* envelope.py

\* kahn_order: the least node whose known dependencies are placed goes next. A
\* dependency that is no node of the graph is skipped here.
Free(p, placed) == {n \in NodesOf(p) \ placed : p.deps[n] \cap NodesOf(p) \subseteq placed}

PlaceNext(p, order) ==
    LET free == Free(p, ToSet(order))
    IN  IF free = {} THEN order ELSE Append(order, Least(free))

Placed(p) ==
    LET place[k \in 0 .. Count(p)] == IF k = 0 THEN <<>> ELSE PlaceNext(p, place[k - 1])
    IN  place

KahnOrder(p) == Placed(p)[Count(p)]

Leftover(p) == NodesOf(p) \ ToSet(KahnOrder(p))

Position(p, n) == SelectInSeq(KahnOrder(p), LAMBDA m : m = n)

\* _depends_transitively and the search of cycle_ids: everything reached from n.
Within(p, n) ==
    LET within[k \in 0 .. Count(p)] ==
            IF k = 0 THEN p.deps[n]
            ELSE within[k - 1] \cup
                 UNION {p.deps[m] : m \in within[k - 1] \cap NodesOf(p)}
    IN  within

Reached(p, n) == Within(p, n)[Count(p)]

HasCycle(p) == \E n \in NodesOf(p) : n \in Reached(p, n)

-----------------------------------------------------------------------------
\* wave.py

ReadyNodes(p, completed) ==
    {n \in NodesOf(p) \ completed : p.deps[n] \subseteq completed}

\* plan_waves: the levels, and whether they hold every node (it raises if not). An empty
\* level ends them: every later one is empty as well.
Before(p) ==
    LET before[k \in 0 .. Count(p)] ==
            IF k = 0 THEN {} ELSE before[k - 1] \cup ReadyNodes(p, before[k - 1])
    IN  before

Level(p, k) == ReadyNodes(p, Before(p)[k - 1])

Levels(p) == [k \in {j \in 1 .. Count(p) : Level(p, j) # {}} |-> Level(p, k)]

Plannable(p) == Leftover(p) = {} /\ UNION ToSet(Levels(p)) = NodesOf(p)

-----------------------------------------------------------------------------
\* preflight.py

WritesOf(p, n) == UNION p.globs[n]

\* write_sets_overlap compares the globs as texts: it sees that they are equal, or that
\* one of them matches everything the other can name.
WriteSetsOverlap(L, R) == \E g \in L, h \in R : g \subseteq h \/ h \subseteq g

UnorderedOverlap(p) ==
    \E m, n \in NodesOf(p) :
        /\ m < n /\ WriteSetsOverlap(p.globs[m], p.globs[n])
        /\ n \notin Reached(p, m) /\ m \notin Reached(p, n)

\* _task_graph_errors: for each dependency of a task on another, every node that covers
\* the first must come after every node that covers the second, in Kahn's order.
Covering(p, t) == {n \in NodesOf(p) : WriteSetsOverlap(p.globs[n], p.tasks[t].writes)}

TaskOrderWrong(p) ==
    /\ Leftover(p) = {}
    /\ \E t \in DOMAIN p.tasks : \E d \in p.tasks[t].deps \cap DOMAIN p.tasks :
          \E n \in Covering(p, t), m \in Covering(p, d) : Position(p, m) >= Position(p, n)

\* The paths a node's program writes literally (_walk_program), all in both policies.
LiteralWrites(p, n) == {p.steps[n][i].path : i \in DOMAIN p.steps[n]}

\* Mutant of CriticAccepts: dependencies on unknown nodes are not looked for.
CriticAcceptsUnknown(p) ==
    /\ ~HasCycle(p) /\ ~UnorderedOverlap(p) /\ ~TaskOrderWrong(p)
    /\ p.artifacts \subseteq Paths \cap UNION {WritesOf(p, n) : n \in NodesOf(p)}
    /\ \A n \in NodesOf(p) : LiteralWrites(p, n) \subseteq Paths \cap WritesOf(p, n)

\* _graph_errors finds nothing (ids are unique by the shape of a plan).
CriticAccepts(p) ==
    /\ \A n \in NodesOf(p) : p.deps[n] \subseteq NodesOf(p)
    /\ ~HasCycle(p) /\ ~UnorderedOverlap(p) /\ ~TaskOrderWrong(p)
    /\ p.artifacts \subseteq Paths \cap UNION {WritesOf(p, n) : n \in NodesOf(p)}
    /\ \A n \in NodesOf(p) : LiteralWrites(p, n) \subseteq Paths \cap WritesOf(p, n)
=============================================================================
