------------------------- MODULE MCRuntimeEvidence -------------------------
(***************************************************************************)
(* A scenario in the shape of spike/wasm/scenarios, with the verifier over *)
(* its files: one event before the fork, one after it on either branch,    *)
(* and the effect after the fork is asked for under one name, so that both *)
(* branches draw on the same canned results.                               *)
(***************************************************************************)
EXTENDS RuntimeEvidence

MCNames  == {"reserve", "charge"}
MCPrefix == << <<"reserve">> >>
MCParent == << <<"charge">> >>
MCFork   == << <<"charge">> >>
MCCanned == [n \in MCNames |-> IF n = "charge" THEN 2 ELSE 1]

\* The hypothesis under which the run is proved reproducible.
ASSUME EnoughResults == CannedSuffices
=============================================================================
