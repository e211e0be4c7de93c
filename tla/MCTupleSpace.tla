---------------------------- MODULE MCTupleSpace ----------------------------
(***************************************************************************)
(* Small instances of TupleSpace. Two lanes of obligations and a pattern   *)
(* that is more specific than another: a waiter can be served ahead of an  *)
(* older one, and a tuple can match nobody.                                *)
(***************************************************************************)
EXTENDS TupleSpace

MCTuples ==
    {[kind |-> "obligation", lane |-> "a"], [kind |-> "obligation", lane |-> "b"]}

MCPatterns ==
    {[kind |-> "obligation"], [kind |-> "obligation", lane |-> "a"]}

MCKinds == {"node.ready", "gate.result", "critic.reject", "obligation"}
=============================================================================
