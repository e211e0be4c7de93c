------------------------------ MODULE Request ------------------------------
(***************************************************************************)
(* One rho.run/v1 request, runner.execute_request: the gates a request     *)
(* passes before a planner is started, the job, and the event stream on    *)
(* stdout that the parent reads with consume_rho_v1.                       *)
(*                                                                         *)
(* Two kinds of threads write the stream: the main thread, and for every   *)
(* call of the planner a thread that forwards the planner's stderr         *)
(* (cli.call_planner_json). The main thread waits for it at most 5 s       *)
(* after the planner is gone; a process the planner left behind may hold   *)
(* stderr open for longer. EventStream.emit takes no lock.                 *)
(*                                                                         *)
(* The job is what Episode models; here it is turns that end in a          *)
(* decision. A line longer than MAX_LINE is replaced by one that fits, so  *)
(* the only lines told apart are those with a separator in them that       *)
(* str.splitlines knows and JSON does not escape ("split").                *)
(***************************************************************************)
EXTENDS Naturals, Sequences, FiniteSets, SequencesExt

CONSTANTS
    Requests,       \* see RequestAssumption
    Required,       \* RHO_PROTOCOL_GRANT_MODE is "require"
    MaxCalls,
    MaxClock,       \* bound: the ticks of the clock
    MaxLines,       \* bound: lines on stderr, over all planners
    Interrupts,     \* bound: there may be one SIGINT, or none
    Never

\* parses: it is a JSON object with a run_id. fields: protocol and model are there. witness: whether it is there and right.
\* expires, deadline: when, if ever. provider: what the grant and the planners say of it.
\* workspace: whether it can be told.
RequestAssumption ==
    \A r \in Requests :
        /\ r.parses \in BOOLEAN /\ r.fields \in BOOLEAN /\ r.workspace \in BOOLEAN
        /\ r.witness \in {"good", "bad"} /\ r.provider \in {"granted", "refused", "unmapped"}
        /\ r.expires \in Nat \cup {Never} /\ r.deadline \in Nat \cup {Never}
ASSUME RequestAssumption
ASSUME RangeAssumption ==
    MaxCalls \in Nat \ {0} /\ MaxClock \in Nat /\ MaxLines \in Nat /\ Interrupts \in BOOLEAN

Main    == 0
Threads == 0 .. MaxCalls        \* the main thread, and one for each call
Pumps   == 1 .. MaxCalls
Nothing == [kind |-> "none"]

VARIABLES
    req, clock,
    place,          \* where the main thread is
    todo,           \* what it emits before it goes on
    ending,         \* "", or the outcome it has come to
    used, planner,  \* state.used, the turns; the planner of this one
    pump,           \* per call: "off", "reads", "gone"
    hand,           \* per thread: the line it has numbered and not written
    seq, closed,    \* EventStream
    out,            \* the lines on stdout
    lines,          \* lines on stderr so far
    left,           \* a pump was alive when the main thread left its call
    broken          \* an interrupt hit the main thread in the middle of emit, or later

stream  == <<seq, closed, out, hand>>
job     == <<used, planner, pump, lines, left>>
request == <<req, clock, place, todo, ending, broken, stream, job>>

-----------------------------------------------------------------------------
\* rho.py: EventStream and its reader

Terminals == {"run.completed", "run.failed", "run.cancelled"}

Line(kind, data, shape) == [kind |-> kind, data |-> data, shape |-> shape]
Plain(kind, data)       == Line(kind, data, "line")

\* Mutant of Number: the number is taken from the lines on stdout.
NumberSame(t, line) ==
    IF closed THEN UNCHANGED stream
    ELSE /\ hand' = [hand EXCEPT ![t] = [line |-> line, seq |-> Len(out)]]
         /\ seq' = seq /\ UNCHANGED <<closed, out>>

\* emit, up to the number: there is no call in which another thread could run.
Number(t, line) ==
    IF closed THEN UNCHANGED stream
    ELSE /\ seq' = seq + 1
         /\ hand' = [hand EXCEPT ![t] = [line |-> line, seq |-> seq + 1]]
         /\ UNCHANGED <<closed, out>>

\* emit, from the time stamp on: the line goes out, and a terminal event closes.
Write(t) ==
    /\ hand[t] # Nothing
    /\ out' = Append(out, hand[t])
    /\ hand' = [hand EXCEPT ![t] = Nothing]
    /\ closed' = (closed \/ hand[t].line.kind \in Terminals)
    /\ UNCHANGED seq

\* consume_rho_v1, one line of it.
Take(result, event) ==
    LET fails(error) == [result EXCEPT !.error = error]
    IN  IF result.error # "none" THEN result
        ELSE IF event.line.shape = "split" THEN fails("decode")
        ELSE IF result.outcome # "none" THEN fails("event after terminal")
        ELSE IF event.seq <= result.previous THEN fails("non-monotonic")
        ELSE [result EXCEPT !.previous = event.seq,
                            !.outcome = IF event.line.kind \in Terminals
                                        THEN event.line.kind ELSE @]

\* What it has made of the first n lines.
Taken(text) ==
    LET after[n \in 0 .. Len(text)] ==
            IF n = 0 THEN [error |-> "none", outcome |-> "none", previous |-> 0]
            ELSE Take(after[n - 1], text[n])
    IN  after

Consume(text) ==
    LET end == Taken(text)[Len(text)]
    IN  IF end.error = "none" /\ end.outcome = "none"
        THEN [end EXCEPT !.error = "no terminal"] ELSE end

-----------------------------------------------------------------------------
\* runner.py: the gates

Past(time) == time # Never /\ clock >= time

Gates == <<"fields", "witness", "expires", "provider", "deadline", "workspace">>

\* verify_witness, where the mode asks for it.
WitnessVerdict ==
    IF ~Required THEN "pass"
    ELSE IF req.expires # Never /\ Past(req.expires) THEN "grant_expired"
    ELSE IF req.expires = Never \/ req.witness = "bad" THEN "grant_invalid"
    ELSE "pass"

\* _provider_gate
ProviderVerdict ==
    CASE req.provider = "refused"  -> "grant_invalid"
      [] req.provider = "unmapped" -> "provider_unmapped"
      [] OTHER                     -> "pass"

\* require_wire_fields, the expiry, _provider_gate, the deadline, _workspace.
Verdict(gate) ==
    CASE gate = "fields"    -> IF req.fields THEN "pass" ELSE "invalid_request"
      [] gate = "witness"   -> WitnessVerdict
      [] gate = "expires"   -> IF Past(req.expires) THEN "grant_expired" ELSE "pass"
      [] gate = "provider"  -> ProviderVerdict
      [] gate = "deadline"  -> IF Past(req.deadline) THEN "deadline" ELSE "pass"
      [] gate = "workspace" -> IF req.workspace THEN "pass" ELSE "invalid_request"

\* _emit_limit_budget: the deadline is one of the limits.
Budget == IF req.deadline = Never THEN <<>> ELSE <<Plain("budget.consumed", "limits")>>

\* _fail, with the receipt where the grant was refused; and the deadline before the job.
Refusal(code) ==
    CASE code = "deadline"        -> Append(Budget, Plain("run.cancelled", code))
      [] code = "invalid_request" -> <<Plain("run.failed", code)>>
      [] OTHER -> <<Plain("livingdict.receipt", code), Plain("run.failed", code)>>

\* _terminal_from_receipt
TerminalOf(decision) ==
    CASE decision = "success"   -> Plain("run.completed", "succeeded")
      [] decision = "cancelled" -> Plain("run.cancelled", "deadline")
      [] OTHER                  -> Plain("run.failed", decision)

Outcome(how) ==
    CASE how = "success"                                -> "run.completed"
      [] how \in {"cancelled", "deadline", "interrupted"} -> "run.cancelled"
      [] OTHER                                          -> "run.failed"

-----------------------------------------------------------------------------
RequestInit ==
    /\ req \in Requests /\ clock = 0
    /\ place = "read" /\ todo = <<>> /\ ending = "" /\ broken = FALSE
    /\ used = 0 /\ planner = "off" /\ pump = [p \in Pumps |-> "off"]
    /\ lines = 0 /\ left = FALSE
    /\ seq = 0 /\ closed = FALSE /\ out = <<>> /\ hand = [t \in Threads |-> Nothing]

\* The main thread emits what it has to before it does anything else.
Emit ==
    /\ place # "gone" /\ todo # <<>> /\ hand[Main] = Nothing
    /\ Number(Main, Head(todo)) /\ todo' = Tail(todo)
    /\ UNCHANGED <<req, clock, place, ending, broken, job>>

Put ==
    /\ place # "gone" /\ Write(Main)
    /\ UNCHANGED <<req, clock, place, todo, ending, broken, job>>

Free == todo = <<>> /\ hand[Main] = Nothing

Say(how, said) == place' = "last" /\ ending' = how /\ todo' = said

\* run_main: what does not parse ends the process with a line on stderr and no stream.
Read ==
    /\ place = "read"
    /\ IF req.parses
       THEN place' = "fields" /\ todo' = <<Plain("run.started", "")>> /\ UNCHANGED ending
       ELSE place' = "done" /\ ending' = "unreadable" /\ UNCHANGED todo
    /\ UNCHANGED <<req, clock, stream, job, broken>>

\* One gate of execute_request: the next one, or a refusal.
Gate ==
    /\ place \in ToSet(Gates) /\ Free
    /\ LET i == CHOOSE i \in DOMAIN Gates : Gates[i] = place
       IN  IF Verdict(place) # "pass" THEN Say(Verdict(place), Refusal(Verdict(place)))
           ELSE /\ place' = IF i = Len(Gates) THEN "head" ELSE Gates[i + 1]
                /\ todo' = IF place = "deadline" THEN Budget ELSE <<>>
                /\ UNCHANGED ending
    /\ UNCHANGED <<req, clock, stream, job, broken>>

Finish(decision) ==
    Say(decision, <<Plain("livingdict.receipt", decision), Plain("message.delta", decision),
                    TerminalOf(decision)>>)

\* The head of run_job's loop: the deadline, then reconcile, which may go on.
Decide ==
    /\ place = "head" /\ Free
    /\ IF Past(req.deadline) THEN Finish("cancelled")
       ELSE \/ used > 0 /\ \E d \in {"success", "blocked"} : Finish(d)
            \/ used = MaxCalls /\ Finish("halt_cap")
    /\ UNCHANGED <<req, clock, stream, job, broken>>

\* A turn is announced, then call_planner_json starts the planner and the thread for its
\* stderr.
Announce ==
    /\ place = "head" /\ Free /\ used < MaxCalls /\ ~Past(req.deadline)
    /\ place' = "spawn" /\ todo' = <<Plain("planner.call", "")>>
    /\ UNCHANGED <<req, clock, ending, broken, stream, job>>

Spawn ==
    /\ place = "spawn" /\ Free
    /\ place' = "call" /\ used' = used + 1 /\ planner' = "runs"
    /\ pump' = [pump EXCEPT ![used + 1] = "reads"]
    /\ UNCHANGED <<req, clock, todo, ending, broken, stream, lines, left>>

\* The planner ends and closes its stdout. Something it started may still hold stderr.
PlannerEnds ==
    /\ planner = "runs" /\ planner' \in {"envelope", "nothing"}
    /\ UNCHANGED <<req, clock, place, todo, ending, broken, stream, used, pump, lines, left>>

\* The planner, or what it left behind, writes a line, and its pump forwards it.
PumpEmit(p) ==
    /\ pump[p] = "reads" /\ hand[p] = Nothing /\ place # "gone"
    /\ lines < MaxLines /\ lines' = lines + 1
    /\ \E shape \in {"line", "split"} : Number(p, Line("planner.stderr", "", shape))
    /\ UNCHANGED <<req, clock, place, todo, ending, broken, used, planner, pump, left>>

PumpPut(p) ==
    /\ place # "gone" /\ Write(p)
    /\ UNCHANGED <<req, clock, place, todo, ending, broken, job>>

\* Nobody holds stderr any more.
PumpEnds(p) ==
    /\ pump[p] = "reads" /\ hand[p] = Nothing /\ place # "gone"
    /\ p = used => planner # "runs"
    /\ pump' = [pump EXCEPT ![p] = "gone"]
    /\ UNCHANGED <<req, clock, place, todo, ending, broken, stream, used, planner, lines, left>>

\* Mutant of Return: the pump is waited for without a limit.
ReturnJoins ==
    /\ place = "call" /\ Free /\ planner \in {"envelope", "nothing"} /\ pump[used] = "gone"
    /\ place' = "head" /\ todo' = <<Plain("plan.proposed", "")>>
    /\ UNCHANGED <<req, clock, ending, broken, stream, job>>

\* pump.join(timeout=5) returns, with the pump gone or not. No envelope: CLIError, whose
\* message quotes stderr. The rest of the episode commits and forwards its events, or raises.
Return ==
    /\ place = "call" /\ Free /\ planner \in {"envelope", "nothing"}
    /\ left' = (left \/ pump[used] = "reads")
    /\ IF planner = "nothing"
       THEN \E shape \in {"line", "split"} :
                /\ shape = "split" => \E i \in DOMAIN out : out[i].line.shape = "split"
                /\ Say("planner", <<Line("run.failed", "planner", shape)>>)
       ELSE \/ place' = "head" /\ todo' = <<Plain("plan.proposed", "")>> /\ UNCHANGED ending
            \/ Say("internal", <<Plain("run.failed", "internal")>>)
    /\ UNCHANGED <<req, clock, broken, stream, used, planner, pump, lines>>

\* KeyboardInterrupt in the main thread. In the try it becomes the outcome; in a handler,
\* or after the job, it ends the process. The refusals that return from inside the try are
\* cut off in the middle like the others.
Interrupt ==
    /\ place \notin {"read", "done", "gone"} /\ ending # "interrupted" /\ Interrupts
    /\ broken' = (hand[Main] # Nothing \/ place = "last")
    /\ left' = (left \/ \E p \in Pumps : pump[p] = "reads")
    /\ hand' = [hand EXCEPT ![Main] = Nothing]
    /\ ending' = "interrupted"
    /\ \/ /\ place # "last" \/ ending \in {"grant_expired", "grant_invalid", "provider_unmapped",
                                        "deadline"}
          /\ place' = "last" /\ todo' = <<Plain("run.cancelled", "interrupted")>>
       \/ /\ place = "last" /\ ending \notin {"provider_unmapped", "deadline"}
          /\ place' = "done" /\ todo' = <<>>
    /\ UNCHANGED <<req, clock, seq, closed, out, used, planner, pump, lines>>

\* execute_request returns; until the interpreter is gone, pumps still run.
Done ==
    /\ place = "last" /\ Free /\ place' = "done"
    /\ UNCHANGED <<req, clock, todo, ending, broken, stream, job>>

Exit ==
    /\ place = "done" /\ place' = "gone"
    /\ UNCHANGED <<req, clock, todo, ending, broken, stream, job>>

Tick ==
    /\ clock < MaxClock /\ clock' = clock + 1
    /\ UNCHANGED <<req, place, todo, ending, broken, stream, job>>

MainStep == Read \/ Emit \/ Put \/ Gate \/ Decide \/ Announce \/ Spawn \/ Return \/ Done \/ Exit

RequestNext ==
    \/ MainStep \/ PlannerEnds \/ Interrupt \/ Tick
    \/ \E p \in Pumps : PumpEmit(p) \/ PumpPut(p) \/ PumpEnds(p)

RequestSpec == RequestInit /\ [][RequestNext]_request

\* The main thread runs, and a planner that was started ends: nothing else ends a call.
FairRequest == RequestSpec /\ WF_request(MainStep) /\ WF_request(PlannerEnds)

-----------------------------------------------------------------------------
\* Properties.

Splits == \E i \in DOMAIN out : out[i].line.shape = "split"

\* What the parent reads is what happened: when the process is gone, the reader accepts
\* the stream and finds the outcome, unless a pump was left behind or an interrupt cut a
\* line off; and it refuses the stream of such a run if a line holds a separator of
\* str.splitlines (EventStream.emit writes them unescaped, consume_rho_v1 splits there).
ReaderAgrees ==
    place = "gone" /\ ~left /\ ~broken =>
        IF ending = "unreadable" THEN out = <<>>
        ELSE IF Splits THEN Consume(out).error = "decode"
        ELSE Consume(out).error = "none" /\ Consume(out).outcome = Outcome(ending)

\* Every request ends.
RequestEnds == <>(place = "gone")
=============================================================================
