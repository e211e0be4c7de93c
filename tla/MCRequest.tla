----------------------------- MODULE MCRequest -----------------------------
\* A small instance of Request: a request that every gate lets through but for one thing,
\* which expires and has its deadline at once, later, or never.
EXTENDS Request

CONSTANT never

Good == [parses |-> TRUE, fields |-> TRUE, witness |-> "good", expires |-> 1,
         provider |-> "granted", deadline |-> 1, workspace |-> TRUE]

MCRequests ==
    {Good, [Good EXCEPT !.parses = FALSE], [Good EXCEPT !.fields = FALSE],
     [Good EXCEPT !.witness = "bad"], [Good EXCEPT !.workspace = FALSE],
     [Good EXCEPT !.expires = 0, !.deadline = never], [Good EXCEPT !.deadline = 0],
     [Good EXCEPT !.expires = never]}
    \cup {[Good EXCEPT !.provider = p, !.deadline = never] : p \in {"refused", "unmapped"}}
=============================================================================
