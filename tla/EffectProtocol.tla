--------------------------- MODULE EffectProtocol ---------------------------
(***************************************************************************)
(* What a durable run promises about its external effects, without         *)
(* processes, kills, logs or sockets: an effect is announced, then         *)
(* performed, then recorded, each once, and no effect is announced before  *)
(* the one announced before it is recorded. DurableRun implements it.      *)
(***************************************************************************)
CONSTANT Keys

VARIABLE status

Init == status = [k \in Keys |-> "idle"]

Moves(k, from, to) == status[k] = from /\ status' = [status EXCEPT ![k] = to]

Announce(k) ==
    /\ \A j \in Keys : status[j] \in {"idle", "committed"}
    /\ Moves(k, "idle", "intended")

Perform(k) == Moves(k, "intended", "executed")

Keep(k) == Moves(k, "executed", "committed")

Next == \E k \in Keys : Announce(k) \/ Perform(k) \/ Keep(k)

Spec == Init /\ [][Next]_status
=============================================================================
