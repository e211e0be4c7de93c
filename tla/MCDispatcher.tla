---------------------------- MODULE MCDispatcher ----------------------------
(***************************************************************************)
(* Two dispatchers, two obligations of which one is refused: enough for a  *)
(* stale claim, a retake by the sibling and a late result to meet.         *)
(***************************************************************************)
EXTENDS Dispatcher

CONSTANTS j1, j2, d1, d2

MCJobs == {j1, j2}
MCRefused == {j2}
MCDispatchers == {d1, d2}
=============================================================================
