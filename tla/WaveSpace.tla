------------------------------ MODULE WaveSpace ------------------------------
(***************************************************************************)
(* livingdict/space.py: the tuple space of the Python harness. Threads     *)
(* share it under one lock with a condition variable. There is no server   *)
(* and no timer: a lease lapses silently when its time is up, and is only  *)
(* collected (`_reap`) by the next call that looks. A `take` that finds    *)
(* nothing sleeps on the condition until it is notified, or until the      *)
(* earlier of its own deadline and the next expiry it knew of when it went *)
(* to sleep.                                                               *)
(*                                                                         *)
(* One action per section that holds the lock; a sleep is two of them.     *)
(* Instants are replaced by the time left to them, which Tick counts down; *)
(* Forever is an instant that never comes. Tuples and patterns are         *)
(* functions from paths to leaves, as in TupleSpace.                       *)
(***************************************************************************)
EXTENDS Naturals, FiniteSets, SequencesExt

CONSTANTS
    Workers,        \* the threads that call take and rd
    Tuples,         \* the tuples the host puts, each once: the tuple is its own id
    Patterns,       \* what the threads ask for
    Lease,          \* lease_s
    Timeouts,       \* the time limits of the calls; Forever for none
    Forever,
    MaxCalls        \* bound: calls of take and rd

ASSUME TimeAssumption ==
    /\ Lease \in Nat \ {0} /\ MaxCalls \in Nat /\ Forever \notin Nat
    /\ Timeouts \subseteq Nat \cup {Forever}
ASSUME ThreadAssumption  == IsFiniteSet(Workers)
ASSUME PatternAssumption == \A p \in Patterns : IsFiniteSet(DOMAIN p)

VARIABLES
    posted,         \* the tuples put so far
    bag,            \* _bag, the oldest entry first
    gen,            \* the generation of each entry
    leases,         \* _leases in the order of the claims
    waiters,        \* _waiters in the order of their seq
    call,           \* what each thread is doing
    held,           \* the claim each thread got last
    stop,           \* the wave barrier's event
    finished,       \* tokens whose ack succeeded
    calls

vars == <<posted, bag, gen, leases, waiters, call, held, stop, finished, calls>>

NoTuple == [kind |-> "none"]
NoToken == [tuple |-> NoTuple, gen |-> 0]

ASSUME TupleAssumption == NoTuple \notin Tuples

Idle == [pc |-> "idle", op |-> "none", pattern |-> <<>>, deadline |-> 0, wake |-> 0,
         assigned |-> NoTuple, notified |-> FALSE]

SubsetMatch(p, t) == \A k \in DOMAIN p : k \in DOMAIN t /\ t[k] = p[k]
Specificity(p)    == Cardinality(DOMAIN p)

-----------------------------------------------------------------------------
\* A section of code under the lock works on the space as it found it.

Space == [bag |-> bag, leases |-> leases, waiters |-> waiters, call |-> call]

Install(s) ==
    /\ bag' = s.bag /\ leases' = s.leases /\ waiters' = s.waiters /\ call' = s.call

NotifyAll(s) ==
    [s EXCEPT !.call = [w \in Workers |->
        IF s.call[w].pc = "asleep" THEN [s.call[w] EXCEPT !.notified = TRUE] ELSE s.call[w]]]

\* The entries of a sequence that are in S, in their order.
Only(seq, S) ==
    LET f[i \in 0 .. Len(seq)] == IF i = 0 THEN <<>>
                                  ELSE IF seq[i] \in S THEN Append(f[i - 1], seq[i]) ELSE f[i - 1]
    IN  f[Len(seq)]

Minus(seq, S) == Only(seq, ToSet(seq) \ S)

Position(seq, x) == CHOOSE i \in DOMAIN seq : seq[i] = x

Matching(b, p) == {t \in ToSet(b) : SubsetMatch(p, t)}

\* Mutant of Oldest: the newest entry.
Newest(b, S) == CHOOSE t \in S : \A u \in S : Position(b, t) >= Position(b, u)

Oldest(b, S) == CHOOSE t \in S : \A u \in S : Position(b, t) <= Position(b, u)

\* The order of the waiters: by specificity, then by age.
Before(s, v, w) ==
    \/ Specificity(s.call[v].pattern) > Specificity(s.call[w].pattern)
    \/ /\ Specificity(s.call[v].pattern) = Specificity(s.call[w].pattern)
       /\ Position(s.waiters, v) < Position(s.waiters, w)

\* What is left for w when its turn comes, if f says who was assigned what.
LeftFor(s, f, w) ==
    {t \in Matching(s.bag, s.call[w].pattern) : \A v \in DOMAIN f : Before(s, v, w) => f[v] # t}

Handoffs(s) ==
    {f \in UNION {[W -> ToSet(s.bag)] : W \in SUBSET ToSet(s.waiters)} :
        /\ \A w \in ToSet(s.waiters) : w \in DOMAIN f <=> LeftFor(s, f, w) # {}
        /\ \A w \in DOMAIN f : f[w] = Oldest(s.bag, LeftFor(s, f, w))}

Assign(s, f) ==
    [bag     |-> Minus(s.bag, {f[w] : w \in DOMAIN f}),
     leases  |-> s.leases,
     waiters |-> Minus(s.waiters, DOMAIN f),
     call    |-> [w \in Workers |-> IF w \in DOMAIN f THEN [s.call[w] EXCEPT !.assigned = f[w]]
                                    ELSE s.call[w]]]

\* _handoff: each waiter in turn is assigned the oldest entry left for it. A set of one.
Handoff(s) == {IF DOMAIN f = {} THEN s ELSE NotifyAll(Assign(s, f)) : f \in Handoffs(s)}

\* A lease is over, and its tuple is put at the end of the bag.
GivenBack(s, over) ==
    LET ended == Only(s.leases, over)
    IN  [s EXCEPT !.bag = @ \o [i \in DOMAIN ended |-> ended[i].token.tuple],
                  !.leases = Minus(@, over)]

Lapsed(s) == {l \in ToSet(s.leases) : l.left = 0}

\* Mutant of Reap: what a lapsed lease returns is not offered to the waiters.
ReapNoHandoff(s) == {GivenBack(s, Lapsed(s))}

\* _reap: every lapsed lease gives its tuple back to the end of the bag.
Reap(s) == IF Lapsed(s) = {} THEN {s} ELSE {NotifyAll(x) : x \in Handoff(GivenBack(s, Lapsed(s)))}

\* The first of some instants.
Soonest(S) == CHOOSE n \in S : \A m \in S : m = Forever \/ (n # Forever /\ n <= m)

\* Mutant of WakeAt: a thread sleeps until the next expiry, whatever its deadline.
WakeAtExpiry(s, deadline) == Soonest({Forever} \cup {l.left : l \in ToSet(s.leases)})

\* _wait_for: sleep until the deadline or the next expiry, whichever is sooner.
WakeAt(s, deadline) == Soonest({deadline} \cup {l.left : l \in ToSet(s.leases)})

Sleep(s, w) ==
    [s EXCEPT !.call[w] = [@ EXCEPT !.pc = "asleep", !.notified = FALSE,
                                    !.wake = WakeAt(s, s.call[w].deadline)]]

\* The end of a call: the `finally` takes the waiter off the list.
Return(s, w) == [s EXCEPT !.call[w] = Idle, !.waiters = Minus(@, {w})]

-----------------------------------------------------------------------------
Init ==
    /\ posted = {} /\ bag = <<>> /\ gen = [t \in Tuples |-> 0]
    /\ leases = <<>> /\ waiters = <<>>
    /\ call = [w \in Workers |-> Idle] /\ held = [w \in Workers |-> NoToken]
    /\ stop = FALSE /\ finished = {} /\ calls = 0

Out(t) ==
    /\ t \notin posted
    /\ posted' = posted \cup {t}
    /\ \E s \in Handoff([Space EXCEPT !.bag = Append(@, t)]) : Install(NotifyAll(s))
    /\ UNCHANGED <<gen, held, stop, finished, calls>>

\* A thread enters take or rd and will run its loop when it gets the lock. A thread
\* that gets a new claim forgets the one before it, finished or not.
Enter(w, op, p, timeout) ==
    /\ call[w].pc = "idle" /\ calls < MaxCalls
    /\ call' = [call EXCEPT ![w] = [Idle EXCEPT !.pc = "loop", !.op = op, !.pattern = p,
                                                !.deadline = timeout]]
    /\ calls' = calls + 1
    /\ UNCHANGED <<posted, bag, gen, leases, waiters, held, stop, finished>>

\* Mutant of Claim: the generation of the entry stays what it was.
ClaimSameGen(s, w, t) ==
    LET token == [tuple |-> t, gen |-> gen[t]]
    IN  /\ held' = [held EXCEPT ![w] = token]
        /\ Install(Return([s EXCEPT !.leases = Append(@, [token |-> token, left |-> Lease])], w))
        /\ UNCHANGED gen

\* _claim: the entry gets its next generation and a lease.
Claim(s, w, t) ==
    LET token == [tuple |-> t, gen |-> gen[t] + 1]
    IN  /\ gen' = [gen EXCEPT ![t] = @ + 1]
        /\ held' = [held EXCEPT ![w] = token]
        /\ Install(Return([s EXCEPT !.leases = Append(@, [token |-> token, left |-> Lease])], w))

\* Mutant of Chosen: a waiter looks in the bag before it looks at its assignment.
ChosenBagFirst(s, w) ==
    LET found == Matching(s.bag, s.call[w].pattern)
    IN  IF found # {} THEN Oldest(s.bag, found) ELSE s.call[w].assigned

\* The entry a pass of the loop gets: the assigned one, or the oldest match.
Chosen(s, w) ==
    LET found == Matching(s.bag, s.call[w].pattern)
    IN  IF s.call[w].assigned # NoTuple THEN s.call[w].assigned
        ELSE IF found # {} THEN Oldest(s.bag, found) ELSE NoTuple

Queue(s, w) == [s EXCEPT !.waiters = IF w \in ToSet(@) THEN @ ELSE Append(@, w)]

\* The rest of a pass of take's loop, on the space as _reap left it.
TakeFrom(s, w) ==
    LET t == Chosen(s, w)
    IN  \/ /\ t # NoTuple
           /\ Claim([s EXCEPT !.bag = Minus(@, {t})], w, t)
        \/ /\ t = NoTuple
           /\ Install(IF stop \/ call[w].deadline = 0 THEN Return(s, w) ELSE Sleep(Queue(s, w), w))
           /\ UNCHANGED <<gen, held>>

\* One pass of take's loop under the lock.
TakePass(w) ==
    /\ call[w].pc = "loop" /\ call[w].op = "take"
    /\ \E s \in Reap(Space) : TakeFrom(s, w)
    /\ UNCHANGED <<posted, stop, finished, calls>>

\* One pass of rd's loop: a reader does not register and removes nothing.
RdPass(w) ==
    /\ call[w].pc = "loop" /\ call[w].op = "rd"
    /\ \E s \in Reap(Space) :
          Install(IF Matching(s.bag, call[w].pattern) # {} \/ call[w].deadline = 0
                  THEN Return(s, w) ELSE Sleep(s, w))
    /\ UNCHANGED <<posted, gen, held, stop, finished, calls>>

\* The condition lets a thread go: it was notified, or its sleep is over.
Awake(w) ==
    /\ call[w].pc = "asleep"
    /\ call[w].notified \/ call[w].wake = 0
    /\ call' = [call EXCEPT ![w].pc = "loop", ![w].notified = FALSE, ![w].wake = 0]
    /\ UNCHANGED <<posted, bag, gen, leases, waiters, held, stop, finished, calls>>

LeaseOf(token) == {l \in ToSet(leases) : l.token = token}

\* ack: the lease is dropped if it is there, lapsed or not; the tuple is gone.
AckLocked(token) ==
    /\ leases' = Minus(leases, LeaseOf(token))
    /\ finished' = IF LeaseOf(token) = {} THEN finished ELSE finished \cup {token}

Ack(w) ==
    /\ call[w].pc = "idle" /\ held[w] # NoToken
    /\ AckLocked(held[w])
    /\ held' = [held EXCEPT ![w] = NoToken]
    /\ UNCHANGED <<posted, bag, gen, waiters, call, stop, calls>>

\* done(tuple_id): the ack of whichever claim of the tuple is live.
Done(t) ==
    /\ \E l \in ToSet(leases) : l.token.tuple = t /\ AckLocked(l.token)
    /\ UNCHANGED <<posted, bag, gen, waiters, call, held, stop, calls>>

\* renew: a lease that is still there once the lapsed ones are collected starts over.
Renew(w) ==
    /\ call[w].pc = "idle" /\ held[w] # NoToken
    /\ \E s \in Reap(Space) :
          Install([s EXCEPT !.leases = [i \in DOMAIN @ |->
                IF @[i].token = held[w] THEN [@[i] EXCEPT !.left = Lease] ELSE @[i]]])
    /\ UNCHANGED <<posted, gen, held, stop, finished, calls>>

\* expire and cancel: the claim is given up before its time, as a dying worker's is.
Expire(w) ==
    /\ call[w].pc = "idle" /\ LeaseOf(held[w]) # {}
    /\ \E s \in Handoff(GivenBack(Space, LeaseOf(held[w]))) : Install(NotifyAll(s))
    /\ UNCHANGED <<posted, gen, held, stop, finished, calls>>

\* is_current, bag_size and leased_count only collect what has lapsed.
IsCurrent ==
    /\ \E s \in Reap(Space) : Install(s) /\ s # Space
    /\ UNCHANGED <<posted, gen, held, stop, finished, calls>>

\* The wave barrier sets its event, outside the lock, and then calls wake().
Stop ==
    /\ ~stop /\ stop' = TRUE
    /\ UNCHANGED <<posted, bag, gen, leases, waiters, call, held, finished, calls>>

Wake ==
    /\ stop /\ Install(NotifyAll(Space))
    /\ UNCHANGED <<posted, gen, held, stop, finished, calls>>

Later(n) == IF n = Forever \/ n = 0 THEN n ELSE n - 1

\* Time passes, for everything that waits for it.
Tick ==
    /\ leases' = [i \in DOMAIN leases |-> [leases[i] EXCEPT !.left = Later(@)]]
    /\ call' = [w \in Workers |->
            [call[w] EXCEPT !.deadline = Later(@), !.wake = Later(@)]]
    /\ UNCHANGED <<posted, bag, gen, waiters, held, stop, finished, calls>>

Next ==
    \/ \E t \in Tuples : Out(t) \/ Done(t)
    \/ \E w \in Workers, op \in {"take", "rd"}, p \in Patterns, d \in Timeouts : Enter(w, op, p, d)
    \/ \E w \in Workers :
            TakePass(w) \/ RdPass(w) \/ Awake(w) \/ Ack(w) \/ Renew(w) \/ Expire(w)
    \/ IsCurrent \/ Stop \/ Wake \/ Tick

Spec == Init /\ [][Next]_vars

\* Threads that can run do, the barrier's wake() follows its event, and time passes.
\* Nobody has to make a call, finish a claim or put a tuple.
FairSpec ==
    /\ Spec
    /\ \A w \in Workers : WF_vars(TakePass(w)) /\ WF_vars(RdPass(w)) /\ WF_vars(Awake(w))
    /\ WF_vars(Wake) /\ WF_vars(Tick)

-----------------------------------------------------------------------------
\* Properties.

Times == 0..Lease \cup Timeouts \cup UNION {0..d : d \in Timeouts \ {Forever}}
Tokens == [tuple : Tuples, gen : 1..MaxCalls]

\* Type invariant of the space.
TypeOK ==
    /\ posted \subseteq Tuples /\ bag \in Seq(posted) /\ gen \in [Tuples -> 0..MaxCalls]
    /\ leases \in Seq([token : Tokens, left : 0..Lease])
    /\ waiters \in Seq(Workers) /\ held \in [Workers -> Tokens \cup {NoToken}]
    /\ call \in [Workers -> [pc : {"idle", "loop", "asleep"}, op : {"none", "take", "rd"},
                             pattern : Patterns \cup {<<>>}, deadline : Times, wake : Times,
                             assigned : posted \cup {NoTuple}, notified : BOOLEAN]]
    /\ finished \subseteq Tokens /\ stop \in BOOLEAN /\ calls \in 0..MaxCalls

Places(t) ==
    Cardinality({i \in DOMAIN bag : bag[i] = t})
    + Cardinality({i \in DOMAIN leases : leases[i].token.tuple = t})
    + Cardinality({w \in Workers : call[w].assigned = t})
    + Cardinality({k \in finished : k.tuple = t})

\* A tuple that was put is in exactly one place: in the bag, assigned to one
\* waiting thread, under one lease, or finished by one claim (out, _handoff, _claim,
\* _reap, _ack_locked move it and never copy or lose it).
InOnePlace == \A t \in posted : Places(t) = 1

\* The claim that finishes a tuple is its newest (the generation fences old ones).
NewestFinishes == \A k \in finished : k.gen = gen[k.tuple]

\* Every tuple is at one place and is finished by its newest claim.
TuplesAreKept == TypeOK /\ InOnePlace /\ NewestFinishes

\* No tuple lies in the bag while a registered waiter asks for it (_handoff runs
\* after everything that adds to the bag).
NobodyStarves ==
    \A w \in ToSet(waiters) : Matching(bag, call[w].pattern) = {}

\* A waiter with an assignment is off the list and has been notified, or is about to
\* run: nothing can assign it a second tuple, and it does not sleep on the first.
AssignedWillRun ==
    \A w \in Workers : call[w].assigned # NoTuple =>
        /\ w \notin ToSet(waiters)
        /\ call[w].pc = "loop" \/ call[w].notified

\* The waiters are served: none is left beside a tuple, none sleeps on one.
WaitersAreServed == NobodyStarves /\ AssignedWillRun

\* A pass that claims out of the bag takes the oldest entry its pattern matches:
\* what it overtakes does not match (_pop_oldest_match).
OldestFirst ==
    [][\A w \in Workers : held'[w] # held[w] /\ held'[w] # NoToken /\ call[w].assigned = NoTuple =>
        \A i \in DOMAIN bag :
            SubsetMatch(call[w].pattern, bag[i]) =>
                \E j \in 1..i : bag[j] = held'[w].tuple]_vars

Waiting(w) == call[w].pc # "idle"

\* A call with a time limit returns.
TimedCallsReturn ==
    \A w \in Workers : (Waiting(w) /\ call[w].deadline # Forever) ~> ~Waiting(w)

\* Once the barrier's event is set, every take that waits returns.
StopReleasesTakers ==
    \A w \in Workers : (stop /\ call[w].op = "take") ~> (call[w].op # "take")

\* No call is left asleep that has a reason to return (_wait_for, _handoff and wake).
CallsReturn == TimedCallsReturn /\ StopReleasesTakers

\* Every tuple is a job of the lease board. A call that collects several lapsed leases
\* moves several jobs in one step, so each has a board of its own.
PlaceOf(t) ==
    [at  |-> IF t \notin posted THEN "absent"
             ELSE IF \E k \in finished : k.tuple = t THEN "done"
             ELSE IF \E l \in ToSet(leases) : l.token.tuple = t THEN "held"
             ELSE "free",
     gen |-> gen[t]]

Board(t) == INSTANCE LeaseBoard WITH Jobs <- {t}, board <- [j \in {t} |-> PlaceOf(j)]

ImplementsBoards ==
    /\ \A t \in Tuples : Board(t)!Init
    /\ [][\A t \in Tuples : [Board(t)!Next]_(PlaceOf(t))]_vars
=============================================================================
