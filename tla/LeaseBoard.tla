----------------------------- MODULE LeaseBoard -----------------------------
(***************************************************************************)
(* What the tuple space promises about one tuple, without bags, waiters,   *)
(* timers or mailboxes: a job is posted once, is held by at most one claim *)
(* at a time, every claim raises its generation by exactly one, a claim    *)
(* ends by being finished or by being given back, and a finished job is    *)
(* never seen again. TupleSpace implements this board.                     *)
(***************************************************************************)
EXTENDS Naturals

CONSTANT Jobs

VARIABLE board    \* board[j].at says where job j is, board[j].gen its claims so far

Free(g) == [at |-> "free", gen |-> g]
Held(g) == [at |-> "held", gen |-> g]
Done(g) == [at |-> "done", gen |-> g]
Absent  == [at |-> "absent", gen |-> 0]

Init == board = [j \in Jobs |-> Absent]

Becomes(j, place) == board' = [board EXCEPT ![j] = place]

\* A job is posted, and handed to a process already waiting for it if there is one.
Post(j) ==
    /\ board[j] = Absent
    /\ Becomes(j, Free(0)) \/ Becomes(j, Held(1))

Claim(j) ==
    /\ board[j].at = "free"
    /\ Becomes(j, Held(board[j].gen + 1))

\* The claim ends unfinished; the next one may follow in the same step.
Release(j) ==
    /\ board[j].at = "held"
    /\ Becomes(j, Free(board[j].gen)) \/ Becomes(j, Held(board[j].gen + 1))

Finish(j) ==
    /\ board[j].at = "held"
    /\ Becomes(j, Done(board[j].gen))

Next == \E j \in Jobs : Post(j) \/ Claim(j) \/ Release(j) \/ Finish(j)

Spec == Init /\ [][Next]_board
=============================================================================
