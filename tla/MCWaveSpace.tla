---------------------------- MODULE MCWaveSpace ----------------------------
(***************************************************************************)
(* Small instances of WaveSpace: two tuples, one of which only the less    *)
(* specific of the two patterns matches.                                   *)
(***************************************************************************)
EXTENDS WaveSpace

MCTuples   == {[kind |-> "node.ready", wave |-> 0], [kind |-> "node.ready", wave |-> 1]}
MCPatterns == {[kind |-> "node.ready"], [kind |-> "node.ready", wave |-> 0]}
=============================================================================
