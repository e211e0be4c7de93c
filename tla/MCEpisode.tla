----------------------------- MODULE MCEpisode -----------------------------
(***************************************************************************)
(* A small instance of Episode: a product whose manifest declares a gate   *)
(* `claims` of its own, one that is good, a web product that does not look *)
(* right, and one whose build hangs; contracts that are good, weak, and no *)
(* JSON; plans that define and use a word, and repeat others.              *)
(***************************************************************************)
EXTENDS Episode

Product(layout, build, look, own) ==
    [layout |-> layout, build |-> build, look |-> look, own |-> own]
Owned == Product("owned", "pass", "skip", "pass")
Good  == Product("bare", "skip", "skip", "none")
Hangs == Product("tests", "hang", "skip", "none")
Ugly  == Product("web", "pass", "fail", "none")

Contract(kinds, behavioural, holds, checked, anywhere, parses) ==
    [kinds |-> kinds, behavioural |-> behavioural, holds |-> holds, checked |-> checked,
     anywhere |-> anywhere, parses |-> parses]
Full   == Contract({"source", "check"}, TRUE, {Ugly}, {Good, Ugly}, TRUE, TRUE)
Weak   == Contract({"source"}, FALSE, {Owned, Good, Ugly}, {}, FALSE, TRUE)
Checks == Contract({"check"}, FALSE, {}, {Good}, FALSE, TRUE)
Broken == Contract({}, FALSE, {}, {}, FALSE, FALSE)
Hidden == Contract({"source", "check"}, TRUE, {Good}, {Owned, Good}, TRUE, TRUE)

Plan(product, claims, lawful, uses, defines, graph) ==
    [product |-> product, claims |-> claims, lawful |-> lawful, uses |-> uses,
     defines |-> defines, graph |-> graph]

MCModes ==
    {[judge |-> j, benchmark |-> FALSE, runs |-> FALSE, apart |-> FALSE] :
         j \in {"own", "hidden", "missing", "approved"}}
    \cup {[judge |-> "own", benchmark |-> TRUE, runs |-> TRUE, apart |-> TRUE]}

MCPlans ==
    {Plan(Good, Weak, TRUE, NoWord, "w", FALSE),
     Plan(Ugly, Checks, TRUE, "w", NoWord, TRUE),
     Plan(Same, Full, TRUE, NoWord, NoWord, TRUE),
     Plan(Hangs, Broken, TRUE, NoWord, NoWord, FALSE)}
=============================================================================
