----------------------------- MODULE TupleSpace -----------------------------
(***************************************************************************)
(* LdHost.Space (beam/lib/ld_host/space.ex): the Linda tuple space, a      *)
(* GenServer. A tuple is put with `out`, claimed with `take` under a lease *)
(* fenced by a generation, and leaves for good when the claim is           *)
(* acknowledged. A lease that is not renewed expires and its tuple returns *)
(* to the back of the bag; a process that finds nothing waits, and is      *)
(* served by the next `out` or expiry.                                     *)
(*                                                                         *)
(* One action per message the server handles. Timers run outside the       *)
(* server: a timer that fires leaves a message in the server's mailbox,    *)
(* and cancelling the timer later does not take the message back. A        *)
(* monitor leaves a DOWN message when a waiting process dies.              *)
(*                                                                         *)
(* Tuples and patterns are functions from the paths of a nested map to the *)
(* leaf found there (a map that has children is itself a leaf marker), so  *)
(* that matching a nested map is matching each of its paths.               *)
(***************************************************************************)
EXTENDS Naturals, FiniteSets

CONSTANTS
    Tuples,         \* the maps callers put
    Patterns,       \* the maps callers ask for
    AllowedKinds,   \* @allowed_kinds
    MaxTuples,      \* bound: calls of out
    MaxGen,         \* bound: immediate takes of one tuple
    MaxWaits,       \* bound: takes that have to wait
    MaxRenews       \* bound: renewals of one lease

ASSUME BoundsAssumption ==
    /\ MaxTuples \in Nat /\ MaxGen \in Nat /\ MaxWaits \in Nat /\ MaxRenews \in Nat

ASSUME PatternAssumption == \A p \in Patterns : IsFiniteSet(DOMAIN p)

VARIABLES
    bag,            \* entries [key, id, gen, tuple]; key is the gb_trees key
    seq,            \* the last key used
    nextId,
    leases,         \* [id, gen, tuple, ref]; id and gen are the lease's token
    waiters,        \* [seq, pattern, timed]
    waiterSeq,
    leaseTimers,    \* running lease timers, [id, gen, ref]
    leaseMsgs,      \* {:lease_expired, token, ref} messages in the mailbox
    waiterTimers,   \* running waiter timers, by waiter seq
    timeoutMsgs,    \* {:waiter_timeout, seq} messages in the mailbox
    downMsgs,       \* {:DOWN, monitor} messages, by the seq of the dead waiter
    taken,          \* tokens [id, gen] of the recorded space.take events
    acked,          \* ... of the recorded space.ack events
    expired,        \* ... of the recorded space.lease_expired events
    granted,        \* replies to waiters that carry a claim, [seq, id, gen]
    refused         \* waiters answered nil

timing  == <<leaseTimers, leaseMsgs, waiterTimers, timeoutMsgs, downMsgs>>
history == <<taken, acked, expired, granted, refused>>
vars    == <<bag, seq, nextId, leases, waiters, waiterSeq, timing, history>>

-----------------------------------------------------------------------------
\* Matching.

SubsetMatch(p, t) == \A k \in DOMAIN p : k \in DOMAIN t /\ t[k] = p[k]

Specificity(p) == Cardinality(DOMAIN p)

Accepted(t) == "kind" \in DOMAIN t => t["kind"] \in AllowedKinds

-----------------------------------------------------------------------------
\* Entries, leases and tokens.

\* Mutant of Entry: a tuple that returns to the bag starts over at generation 0.
EntryForgetsGen(key, x) == [key |-> key, id |-> x.id, gen |-> 0, tuple |-> x.tuple]

Entry(key, x)   == [key |-> key, id |-> x.id, gen |-> x.gen, tuple |-> x.tuple]
Token(x)        == [id |-> x.id, gen |-> x.gen]
TimerOf(l)      == [id |-> l.id, gen |-> l.gen, ref |-> l.ref]

\* The token is "id:generation:random"; nothing may depend on the random suffix,
\* so it is left out and two claims with the same id and generation would collide.
NewLease(e) == [id |-> e.id, gen |-> e.gen + 1, tuple |-> e.tuple, ref |-> 0]

Matching(b, p) == {e \in b : SubsetMatch(p, e.tuple)}
Oldest(S)      == CHOOSE e \in S : \A d \in S : e.key <= d.key

-----------------------------------------------------------------------------
Init ==
    /\ bag = {} /\ seq = 0 /\ nextId = 1
    /\ leases = {} /\ waiters = {} /\ waiterSeq = 0
    /\ leaseTimers = {} /\ leaseMsgs = {}
    /\ waiterTimers = {} /\ timeoutMsgs = {} /\ downMsgs = {}
    /\ taken = {} /\ acked = {} /\ expired = {} /\ granted = {} /\ refused = {}

-----------------------------------------------------------------------------
\* handoff: every waiter, the most specific pattern first and the oldest first
\* among equals, claims the oldest entry that is still there for it.

Before(v, w) ==
    \/ Specificity(v.pattern) > Specificity(w.pattern)
    \/ Specificity(v.pattern) = Specificity(w.pattern) /\ v.seq < w.seq

\* Mutant of LeftFor: the waiters are served in the opposite order.
LeftForReversed(b, f, w) ==
    {e \in Matching(b, w.pattern) : \A v \in DOMAIN f : Before(w, v) => f[v] # e}

\* What w finds in bag b when its turn comes and f says who was served with what.
LeftFor(b, f, w) ==
    {e \in Matching(b, w.pattern) : \A v \in DOMAIN f : Before(v, w) => f[v] # e}

Handoffs(b) ==
    {f \in UNION {[W -> b] : W \in SUBSET waiters} :
        /\ \A w \in waiters : w \in DOMAIN f <=> LeftFor(b, f, w) # {}
        /\ \A w \in DOMAIN f : f[w] = Oldest(LeftFor(b, f, w))}

\* b, ls and running are the bag, the leases and the lease timers at the call.
Handoff(b, ls, running) ==
    \E f \in Handoffs(b) :
        LET given  == {f[w] : w \in DOMAIN f}
            new    == {NewLease(e) : e \in given}
            served == {w.seq : w \in DOMAIN f}
        IN  /\ bag' = b \ given
            /\ leases' = ls \cup new
            /\ leaseTimers' = running \cup {TimerOf(l) : l \in new}
            /\ taken' = taken \cup {Token(l) : l \in new}
            /\ granted' = granted \cup
                   {[seq |-> w.seq, id |-> f[w].id, gen |-> f[w].gen + 1] : w \in DOMAIN f}
            /\ waiters' = waiters \ DOMAIN f
            /\ waiterTimers' = waiterTimers \ served
            /\ downMsgs' = downMsgs \ served

-----------------------------------------------------------------------------
\* Calls.

Out(t) ==
    /\ nextId <= MaxTuples
    /\ Accepted(t)
    /\ nextId' = nextId + 1
    /\ seq' = seq + 1
    /\ Handoff(bag \cup {[key |-> seq + 1, id |-> nextId, gen |-> 0, tuple |-> t]},
               leases, leaseTimers)
    /\ UNCHANGED <<waiterSeq, leaseMsgs, timeoutMsgs, acked, expired, refused>>

TakeNow(p) ==
    /\ Matching(bag, p) # {}
    /\ LET e == Oldest(Matching(bag, p))
           l == NewLease(e)
       IN  /\ e.gen < MaxGen
           /\ bag' = bag \ {e}
           /\ leases' = leases \cup {l}
           /\ leaseTimers' = leaseTimers \cup {TimerOf(l)}
           /\ taken' = taken \cup {Token(l)}
    /\ UNCHANGED <<seq, nextId, waiters, waiterSeq, leaseMsgs, waiterTimers,
                   timeoutMsgs, downMsgs, acked, expired, granted, refused>>

\* take with a positive or infinite timeout that finds nothing: the caller is
\* monitored and queued.
TakeWait(p, timed) ==
    /\ waiterSeq < MaxWaits
    /\ Matching(bag, p) = {}
    /\ waiterSeq' = waiterSeq + 1
    /\ waiters' = waiters \cup {[seq |-> waiterSeq + 1, pattern |-> p, timed |-> timed]}
    /\ waiterTimers' = waiterTimers \cup (IF timed THEN {waiterSeq + 1} ELSE {})
    /\ UNCHANGED <<bag, seq, nextId, leases, leaseTimers, leaseMsgs, timeoutMsgs,
                   downMsgs, history>>

\* Mutant of Renew: no new timer is started.
RenewDropsTimer(l) ==
    /\ l.ref < MaxRenews
    /\ leases' = (leases \ {l}) \cup {[l EXCEPT !.ref = @ + 1]}
    /\ leaseTimers' = leaseTimers \ {TimerOf(l)}
    /\ UNCHANGED <<bag, seq, nextId, waiters, waiterSeq, leaseMsgs, waiterTimers,
                   timeoutMsgs, downMsgs, history>>

\* Renewing cancels the running timer and starts one under a fresh reference.
Renew(l) ==
    /\ l.ref < MaxRenews
    /\ LET renewed == [l EXCEPT !.ref = @ + 1]
       IN  /\ leases' = (leases \ {l}) \cup {renewed}
           /\ leaseTimers' = (leaseTimers \ {TimerOf(l)}) \cup {TimerOf(renewed)}
    /\ UNCHANGED <<bag, seq, nextId, waiters, waiterSeq, leaseMsgs, waiterTimers,
                   timeoutMsgs, downMsgs, history>>

\* Mutant of Ack: the lease stays in the map.
AckKeepsLease(l) ==
    /\ acked' = acked \cup {Token(l)}
    /\ UNCHANGED <<bag, seq, nextId, leases, waiters, waiterSeq, timing, taken,
                   expired, granted, refused>>

\* ack, renew and expire reply false and change nothing for a token that is not
\* in leases; only the calls that find their lease are steps.
Ack(l) ==
    /\ leases' = leases \ {l}
    /\ leaseTimers' = leaseTimers \ {TimerOf(l)}
    /\ acked' = acked \cup {Token(l)}
    /\ UNCHANGED <<bag, seq, nextId, waiters, waiterSeq, leaseMsgs, waiterTimers,
                   timeoutMsgs, downMsgs, taken, expired, granted, refused>>

\* Mutants of ExpireLease: the lease stays in the map; nobody is handed the tuple.
ExpireKeepsLease(l, running) ==
    /\ seq' = seq + 1
    /\ expired' = expired \cup {Token(l)}
    /\ Handoff(bag \cup {Entry(seq + 1, l)}, leases, running)
    /\ UNCHANGED <<nextId, waiterSeq, timeoutMsgs, acked, refused>>

ExpireWithoutHandoff(l, running) ==
    /\ seq' = seq + 1
    /\ expired' = expired \cup {Token(l)}
    /\ bag' = bag \cup {Entry(seq + 1, l)}
    /\ leases' = leases \ {l}
    /\ leaseTimers' = running
    /\ UNCHANGED <<nextId, waiters, waiterSeq, waiterTimers, downMsgs, timeoutMsgs,
                   acked, taken, granted, refused>>

ExpireLease(l, running) ==
    /\ seq' = seq + 1
    /\ expired' = expired \cup {Token(l)}
    /\ Handoff(bag \cup {Entry(seq + 1, l)}, leases \ {l}, running)
    /\ UNCHANGED <<nextId, waiterSeq, timeoutMsgs, acked, refused>>

Expire(l) ==
    /\ ExpireLease(l, leaseTimers \ {TimerOf(l)})
    /\ UNCHANGED leaseMsgs

-----------------------------------------------------------------------------
\* Timers and monitors, outside the server.

LeaseTimerFires(t) ==
    /\ leaseTimers' = leaseTimers \ {t}
    /\ leaseMsgs' = leaseMsgs \cup {t}
    /\ UNCHANGED <<bag, seq, nextId, leases, waiters, waiterSeq, waiterTimers,
                   timeoutMsgs, downMsgs, history>>

WaiterTimerFires(s) ==
    /\ waiterTimers' = waiterTimers \ {s}
    /\ timeoutMsgs' = timeoutMsgs \cup {s}
    /\ UNCHANGED <<bag, seq, nextId, leases, waiters, waiterSeq, leaseTimers,
                   leaseMsgs, downMsgs, history>>

WaiterDies(w) ==
    /\ w.seq \notin downMsgs
    /\ downMsgs' = downMsgs \cup {w.seq}
    /\ UNCHANGED <<bag, seq, nextId, leases, waiters, waiterSeq, leaseTimers,
                   leaseMsgs, waiterTimers, timeoutMsgs, history>>

-----------------------------------------------------------------------------
\* Messages.

\* Only the message of the lease's current timer expires it.
HandleLeaseExpired(m) ==
    /\ leaseMsgs' = leaseMsgs \ {m}
    /\ \/ \E l \in leases : TimerOf(l) = m /\ ExpireLease(l, leaseTimers)
       \/ /\ \A l \in leases : TimerOf(l) # m
          /\ UNCHANGED <<bag, seq, nextId, leases, waiters, waiterSeq, leaseTimers,
                         waiterTimers, timeoutMsgs, downMsgs, history>>

HandleWaiterTimeout(s) ==
    /\ timeoutMsgs' = timeoutMsgs \ {s}
    /\ \/ \E w \in waiters :
            /\ w.seq = s
            /\ waiters' = waiters \ {w}
            /\ downMsgs' = downMsgs \ {s}
            /\ refused' = refused \cup {s}
       \/ /\ \A w \in waiters : w.seq # s
          /\ UNCHANGED <<waiters, downMsgs, refused>>
    /\ UNCHANGED <<bag, seq, nextId, leases, waiterSeq, leaseTimers, leaseMsgs,
                   waiterTimers, taken, acked, expired, granted>>

HandleDown(s) ==
    /\ downMsgs' = downMsgs \ {s}
    /\ waiters' = {w \in waiters : w.seq # s}
    /\ waiterTimers' = waiterTimers \ {s}
    /\ UNCHANGED <<bag, seq, nextId, leases, waiterSeq, leaseTimers, leaseMsgs,
                   timeoutMsgs, history>>

-----------------------------------------------------------------------------
Next ==
    \/ \E t \in Tuples : Out(t)
    \/ \E p \in Patterns : TakeNow(p)
    \/ \E p \in Patterns, timed \in BOOLEAN : TakeWait(p, timed)
    \/ \E l \in leases : Renew(l)
    \/ \E l \in leases : Ack(l)
    \/ \E l \in leases : Expire(l)
    \/ \E t \in leaseTimers : LeaseTimerFires(t)
    \/ \E s \in waiterTimers : WaiterTimerFires(s)
    \/ \E w \in waiters : WaiterDies(w)
    \/ \E m \in leaseMsgs : HandleLeaseExpired(m)
    \/ \E s \in timeoutMsgs : HandleWaiterTimeout(s)
    \/ \E s \in downMsgs : HandleDown(s)

Spec == Init /\ [][Next]_vars

\* The runtime fires every timer and the server drains its mailbox; nothing is
\* assumed of the callers.
Fairness ==
    /\ WF_vars(\E t \in leaseTimers : LeaseTimerFires(t))
    /\ WF_vars(\E s \in waiterTimers : WaiterTimerFires(s))
    /\ WF_vars(\E m \in leaseMsgs : HandleLeaseExpired(m))
    /\ WF_vars(\E s \in timeoutMsgs : HandleWaiterTimeout(s))
    /\ WF_vars(\E s \in downMsgs : HandleDown(s))

FairSpec == Spec /\ Fairness

-----------------------------------------------------------------------------
\* Properties.

Ids    == 1 .. MaxTuples
Tokens == [id : Ids, gen : Nat \ {0}]
Timers == [id : Ids, gen : Nat \ {0}, ref : Nat]
Seqs   == Nat \ {0}

\* Every variable has its type.
TypeOK ==
    /\ bag \subseteq [key : Seqs, id : Ids, gen : Nat, tuple : Tuples]
    /\ seq \in Nat
    /\ nextId \in 1 .. MaxTuples + 1
    /\ leases \subseteq [id : Ids, gen : Nat \ {0}, tuple : Tuples, ref : Nat]
    /\ waiters \subseteq [seq : Seqs, pattern : Patterns, timed : BOOLEAN]
    /\ waiterSeq \in Nat
    /\ leaseTimers \subseteq Timers /\ leaseMsgs \subseteq Timers
    /\ waiterTimers \subseteq Seqs /\ timeoutMsgs \subseteq Seqs
    /\ downMsgs \subseteq Seqs
    /\ taken \subseteq Tokens /\ acked \subseteq Tokens /\ expired \subseteq Tokens
    /\ granted \subseteq [seq : Seqs, id : Ids, gen : Nat \ {0}]
    /\ refused \subseteq Seqs

\* No tuple is lost and none is duplicated: each tuple ever put is one entry of the
\* bag, or under one lease, or acknowledged, and never in two of these places.
OnePlacePerTuple ==
    /\ \A d, e \in bag : d.id = e.id => d = e
    /\ \A l, m \in leases : l.id = m.id => l = m
    /\ \A e \in bag, l \in leases : e.id # l.id
    /\ \A x \in bag \cup leases, t \in acked : t.id # x.id
    /\ \A i \in 1 .. nextId - 1 :
          \/ \E x \in bag \cup leases : x.id = i
          \/ \E t \in acked : t.id = i

\* The fence: the token that acknowledged a tuple is the newest one ever given out
\* for it, so no claim was live beside it and none follows it.
AckIsNewestClaim ==
    \A t \in acked, u \in taken : u.id = t.id => u.gen <= t.gen

\* Every recorded claim ends in exactly one way: it is live, or recorded as
\* acknowledged, or recorded as expired.
ClaimsAccountedFor ==
    LET live == {Token(l) : l \in leases}
    IN  /\ taken = live \cup acked \cup expired
        /\ live \cap acked = {} /\ live \cap expired = {} /\ acked \cap expired = {}

\* Every tuple is at one place, and every claim of it has one story (out, claim_entry,
\* ack and expire_lease move a tuple and record the claim).
TuplesAreKept == TypeOK /\ OnePlacePerTuple /\ ClaimsAccountedFor

\* Nobody waits for a tuple that is in the bag.
NoStarvedWaiter ==
    \A w \in waiters, e \in bag : ~SubsetMatch(w.pattern, e.tuple)

\* A waiting caller is answered at most once and is out of the queue once it is, and
\* no claim is handed to two callers.
OneAnswerPerWaiter ==
    /\ \A g, h \in granted : g.seq = h.seq \/ Token(g) = Token(h) => g = h
    /\ \A g \in granted : g.seq \notin refused
    /\ \A w \in waiters : w.seq \notin refused /\ \A g \in granted : g.seq # w.seq

\* The queue of waiters (handoff, the waiter's timeout and its DOWN message): nobody is
\* left waiting beside a tuple that would serve, and nobody is answered twice.
WaitersAreServed == NoStarvedWaiter /\ OneAnswerPerWaiter

\* Handling a timer message never ends a lease whose own timer is still running:
\* a timer that fired before a renewal is stale.
StaleTimersAreHarmless ==
    leaseMsgs' \subseteq leaseMsgs /\ leaseMsgs' # leaseMsgs
       => \A l \in leases : TimerOf(l) \in leaseTimers => l \in leases'

\* A claim never overtakes: a waiter that is left waiting for a tuple somebody else
\* just claimed stands behind a waiter that was served in the same step.
NoOvertaking ==
    \A l \in leases' : Token(l) \notin taken =>
        \A v \in waiters \cap waiters' : SubsetMatch(v.pattern, l.tuple) =>
            \E w \in waiters \ waiters' : Before(w, v)

\* No step takes from a process what is its own: its place in the queue (handoff), or the
\* lease it has renewed (renew, handle_info({:lease_expired, ...})).
RightsAreKept == [][NoOvertaking /\ StaleTimersAreHarmless]_vars

\* A claim ends, whatever its holder does: it is acknowledged, given back, or
\* expires once the renewals stop.
EveryClaimEnds ==
    \A i \in Ids : \A g \in 1 .. MaxGen + MaxWaits :
        (\E l \in leases : l.id = i /\ l.gen = g)
            ~> ~(\E l \in leases : l.id = i /\ l.gen = g)

\* A waiter with a timeout, and one whose process died, leaves the queue.
WaitersLeave ==
    \A s \in 1 .. MaxWaits :
        (\E w \in waiters : w.seq = s /\ (w.timed \/ s \in downMsgs))
            ~> ~(\E w \in waiters : w.seq = s)

\* Every claim and every waiter that can end does.
ClaimsAndWaitersEnd == EveryClaimEnds /\ WaitersLeave

\* The space implements the lease board, tuple by tuple.
At(i) ==
    IF \E e \in bag : e.id = i
    THEN [at |-> "free", gen |-> (CHOOSE e \in bag : e.id = i).gen]
    ELSE IF \E l \in leases : l.id = i
    THEN [at |-> "held", gen |-> (CHOOSE l \in leases : l.id = i).gen]
    ELSE IF \E t \in acked : t.id = i
    THEN [at |-> "done", gen |-> (CHOOSE t \in acked : t.id = i).gen]
    ELSE [at |-> "absent", gen |-> 0]

Board == INSTANCE LeaseBoard WITH Jobs <- Ids, board <- [i \in Ids |-> At(i)]

ImplementsBoard == Board!Spec
=============================================================================
