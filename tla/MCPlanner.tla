----------------------------- MODULE MCPlanner -----------------------------
\* A small instance of Planner: replies that differ from a good one in one field.
EXTENDS Planner, TLC

Node  == [id |-> "text", writes |-> "list", depends_on |-> "list", program |-> "text",
          allowed_globs |-> "none"]
NoList == [is |-> "none", list |-> <<>>]
Graph(n) == [is |-> "list", list |-> <<Node, n>>]

Plain == [is |-> "object", program |-> "text", nodes |-> NoList, artifacts |-> "dict",
          rationale |-> "text", claims |-> TRUE]

\* The second node of a plan, odd in a way that passes, and in the ways that do not.
Odd == [Node EXCEPT !.writes = "falsy", !.depends_on = "blank", !.program = "none"]
Bad == {[Odd EXCEPT !.id = "blank"], [Odd EXCEPT !.writes = "bad"], [Odd EXCEPT !.program = "bad"],
        [Odd EXCEPT !.allowed_globs = "null"]}

MCReplies ==
    {Plain, [Plain EXCEPT !.nodes = Graph(Odd), !.program = "none", !.rationale = "bad",
                          !.artifacts = "none"]}
    \cup {[Plain EXCEPT !.program = p, !.claims = FALSE] : p \in {"none", "blank", "bad"}}
    \cup {[Plain EXCEPT !.artifacts = "bad"], [Plain EXCEPT !.nodes.is = "bad"]}
    \cup {[Plain EXCEPT !.nodes = Graph(n), !.program = "none"] : n \in Bad}
=============================================================================
