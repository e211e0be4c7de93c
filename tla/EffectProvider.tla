--------------------------- MODULE EffectProvider ---------------------------
(***************************************************************************)
(* The out-of-process effect provider (spike/wasm/executor/src/provider.rs)*)
(* that performs the external effects of a durable run. A provider process *)
(* binds the run's socket, rebuilds its state from its log, and serves one *)
(* connection at a time: a key it has executed is answered from memory, a  *)
(* new key consumes the next canned result of its effect name and is       *)
(* logged before it is answered.                                           *)
(*                                                                         *)
(* Several provider processes can be alive at once (one spawned by a dead  *)
(* executor may still be starting), but the socket's path names only one.  *)
(* Slots of dead processes are used again.                                 *)
(***************************************************************************)
EXTENDS Naturals, Sequences, FiniteSets, SequencesExt

CONSTANTS
    Names,        \* effect names
    Canned,       \* how many results the scenario declares for each name
    Providers     \* bound: provider processes alive at once

ASSUME CannedAssumption == Canned \in [Names -> Nat]

VARIABLES
    plog,         \* provider-calls.jsonl, without a torn last line
    ptorn,        \* it ends in a torn line
    prov,         \* per process [st, executed, consumed, seq, backlog]
    sock,         \* the process whose listener the socket path names, or NoProvider
    answer        \* the reply on its way to the executor, or NoAnswer

providerVars == <<plog, ptorn, prov, sock, answer>>

NoProvider == 0
NoAnswer   == [status |-> "none"]

ASSUME ProvidersAssumption == NoProvider \notin Providers

Off == [st |-> "off", executed |-> {}, consumed |-> [n \in Names |-> 0],
        seq |-> 0, backlog |-> <<>>]

ProviderInit ==
    /\ plog = <<>> /\ ptorn = FALSE
    /\ prov = [p \in Providers |-> Off]
    /\ sock = NoProvider
    /\ answer = NoAnswer

Listening(p) == prov[p].st \in {"bound", "rebuilt", "serving"}
Connectable  == sock # NoProvider /\ Listening(sock)

\* What read_log accepts: every line whole, and the n-th line written by a process
\* that knew all the lines before it (its sequence number and previous hash).
LogIntact == \A i \in DOMAIN plog : plog[i].whole /\ plog[i].seq = i

\* What the process remembers of a key.
Bound(x) == [key |-> x.key, name |-> x.name, request |-> x.request, result |-> x.result]

Executions == {i \in DOMAIN plog : plog[i].status = "executed"}

\* Append one line; behind a torn line it becomes part of it.
Record(line) == plog' = Append(plog, line) /\ ptorn' = FALSE

Mark(p, status) == Record([status |-> status, seq |-> prov[p].seq + 1, whole |-> ~ptorn])

-----------------------------------------------------------------------------
\* Starting a process. ensure unlinks the socket before it spawns, and so does serve
\* before it binds.

Spawn(p) ==
    /\ prov[p].st = "off"
    /\ prov' = [prov EXCEPT ![p].st = "starting"]
    /\ sock' = NoProvider
    /\ UNCHANGED <<plog, ptorn, answer>>

Bind(p) ==
    /\ prov[p].st = "starting"
    /\ prov' = [prov EXCEPT ![p].st = "bound"]
    /\ sock' = p
    /\ UNCHANGED <<plog, ptorn, answer>>

\* Mutant of Rebuild: the positions of the canned results start over.
RebuildForgetsConsumed(p) ==
    /\ prov[p].st = "bound"
    /\ ptorn' = FALSE
    /\ IF LogIntact
       THEN prov' = [prov EXCEPT
                ![p].st = "rebuilt",
                ![p].executed = {Bound(plog[i]) : i \in Executions},
                ![p].seq = Len(plog)]
       ELSE prov' = [prov EXCEPT ![p] = Off]
    /\ UNCHANGED <<plog, sock, answer>>

\* Cut a torn last line, verify the log and rebuild from it. A log that does not
\* verify ends the process.
Rebuild(p) ==
    /\ prov[p].st = "bound"
    /\ ptorn' = FALSE
    /\ IF LogIntact
       THEN prov' = [prov EXCEPT
                ![p].st = "rebuilt",
                ![p].executed = {Bound(plog[i]) : i \in Executions},
                ![p].consumed = [n \in Names |->
                    Cardinality({i \in Executions : plog[i].name = n})],
                ![p].seq = Len(plog)]
       ELSE prov' = [prov EXCEPT ![p] = Off]
    /\ UNCHANGED <<plog, sock, answer>>

Announce(p) ==
    /\ prov[p].st = "rebuilt"
    /\ Mark(p, "start")
    /\ prov' = [prov EXCEPT ![p].st = "serving", ![p].seq = @ + 1]
    /\ UNCHANGED <<sock, answer>>

-----------------------------------------------------------------------------
\* Serving. A request carries open = FALSE once the process that sent it is dead.

\* The reply to request r; writing it to a dead client is a no-op.
Reply(p, r, status, result) ==
    IF r.open
    THEN answer' = [status |-> status, result |-> result, from |-> p]
    ELSE UNCHANGED answer

\* Log the request and pop it.
Logged(p, r, status, result) ==
    /\ Record([status |-> status, key |-> r.key, name |-> r.name, request |-> r.request,
               result |-> result, seq |-> prov[p].seq + 1, whole |-> ~ptorn])
    /\ Reply(p, r, status, result)

Answered(p) == [prov EXCEPT ![p].seq = @ + 1, ![p].backlog = Tail(@)]

\* The key is bound: the same request gets the original result, another one an error.
Duplicate(p, r) ==
    /\ \E b \in prov[p].executed :
          /\ b.key = r.key
          /\ IF b.name = r.name /\ b.request = r.request
             THEN Logged(p, r, "duplicate", b.result)
             ELSE Logged(p, r, "mismatch", <<>>)
    /\ prov' = Answered(p)

\* A new key gets the next canned result of its name, or is rejected. The line in the
\* log is the commit point.
Execute(p, r) ==
    LET n      == prov[p].consumed[r.name] + 1
        result == <<r.name, n>>
    IN  /\ \A b \in prov[p].executed : b.key # r.key
        /\ IF n <= Canned[r.name]
           THEN /\ Logged(p, r, "executed", result)
                /\ prov' = [Answered(p) EXCEPT
                      ![p].consumed[r.name] = n,
                      ![p].executed = @ \cup {[key |-> r.key, name |-> r.name,
                                                request |-> r.request, result |-> result]}]
           ELSE /\ Logged(p, r, "rejected", <<>>)
                /\ prov' = Answered(p)

\* The process logs a last line, unlinks the path, whoever listens there, and exits.
Shutdown(p, r) ==
    /\ Mark(p, "shutdown")
    /\ Reply(p, r, "bye", <<>>)
    /\ prov' = [prov EXCEPT ![p] = Off]
    /\ sock' = NoProvider

Serve(p) ==
    /\ prov[p].st = "serving" /\ prov[p].backlog # <<>>
    /\ LET r == Head(prov[p].backlog)
       IN  \/ r.op = "shutdown" /\ Shutdown(p, r)
           \/ r.op = "effect" /\ (Duplicate(p, r) \/ Execute(p, r)) /\ UNCHANGED sock

\* SIGKILL: memory and connections are gone, a reply may not have left, and a line
\* may be half written.
ProviderDies(p) ==
    /\ prov[p].st # "off"
    /\ prov' = [prov EXCEPT ![p] = Off]
    /\ \/ UNCHANGED ptorn
       \/ /\ prov[p].st = "rebuilt" \/ (prov[p].st = "serving" /\ prov[p].backlog # <<>>)
          /\ ptorn' = TRUE
    /\ \/ UNCHANGED answer
       \/ answer # NoAnswer /\ answer.from = p /\ answer' = NoAnswer
    /\ UNCHANGED <<plog, sock>>

-----------------------------------------------------------------------------
\* The client's side of a connection.

Send(r) ==
    /\ Connectable
    /\ prov' = [prov EXCEPT ![sock].backlog = Append(@, r)]
    /\ UNCHANGED <<plog, ptorn, sock, answer>>

\* The open connection is in no backlog and no reply is coming: end of file.
Dropped ==
    /\ answer = NoAnswer
    /\ \A p \in Providers : \A i \in DOMAIN prov[p].backlog : ~prov[p].backlog[i].open

\* The client process dies: what it sent is still read, nobody reads a reply.
HangUp ==
    /\ prov' = [p \in Providers |->
          [prov[p] EXCEPT !.backlog =
              [i \in DOMAIN @ |-> [@[i] EXCEPT !.open = FALSE]]]]
    /\ answer' = NoAnswer
=============================================================================
