------------------------------ MODULE Episode ------------------------------
(***************************************************************************)
(* The headless loop of the Python harness: cli.run_job drives the pure    *)
(* kernel of kernel.py. An episode asks the planner for an envelope, has   *)
(* it criticised, runs it, measures the gates of gates.py under a contract *)
(* and commits every step to the ledger events.jsonl, until the claims are *)
(* discharged, two duplicates follow each other, or the cap is reached.    *)
(* A job may be killed between any two steps, and another job may be       *)
(* started in the same run directory and workspace.                        *)
(*                                                                         *)
(* A product is a state of the files that are not claims.json, a contract  *)
(* is a content of claims.json:                                            *)
(*   product:  layout, what the structural gates find (build, look), and   *)
(*             the result of a gate `claims` its manifest declares (own)   *)
(*   contract: the kinds of its claims, whether a check looks at behaviour,*)
(*             the products its source claims and its checks hold of, and  *)
(*             whether it parses; its source claims may name no path       *)
(*   plan:     the product and claims it writes, whether the critic admits *)
(*             it, the word it uses and the word it defines, and whether   *)
(*             it is a graph of nodes                                      *)
(* Digests are injective, and a check leaves the product as it is.         *)
(***************************************************************************)
EXTENDS Naturals, Sequences, FiniteSets, SequencesExt

CONSTANTS
    Plans, Blank,       \* the envelopes a planner may return; the product at the start
    Given,              \* the contract of the user, in a mode that has one
    Modes,              \* how the job is judged, see ModeAssumption
    MaxTurns,
    MaxJobs,            \* bound: jobs in one run directory
    MaxBefore,          \* bound: turns of a job that another one follows
    MaxKills,           \* bound: jobs that are killed
    NoFile, NoWord, Same

\* judge: "own": no --claims. "hidden": --claims names a file. "missing": --claims names a
\* path where no file is. "approved": the tui wrote the file its user approved.
\* benchmark: receipt_extra.benchmark_mode. runs: the goal asks for behaviour. apart: the
\* run directory is not workspace/.livingdict-run.
ModeAssumption == Modes \subseteq [judge : {"own", "hidden", "missing", "approved"},
                                  benchmark : BOOLEAN, runs : BOOLEAN, apart : BOOLEAN]
ASSUME ModeAssumption
ASSUME BoundAssumption == MaxTurns \in Nat \ {0} /\ MaxJobs \in Nat /\ MaxBefore \in Nat
                          /\ MaxKills \in Nat
ASSUME FileAssumption == NoFile # Same /\ Given \notin {NoFile, Same}

\* The user's contract is not in an envelope by chance: whoever has it was shown it.
ASSUME PlanAssumption == \A p \in Plans : p.claims # Given

VARIABLES
    mode,
    pc, ended,
    state, ledger,      \* the kernel's State, and events.jsonl
    ws,                 \* [product, claims]
    tree, before,       \* episode_tree_before; the workspace when the job started
    dictionary,         \* run_dir/dictionary/words
    judge, author,      \* the file frozen_contract, and who wrote it
    source,             \* receipt_fields["claims_source"]
    plan, promoted, trapped,
    candidate, held,    \* contract_candidate; what measure_workspace holds back
    report,             \* the gates that were measured
    jobs, kills,
    tried,              \* the plans of this job, with the workspace they were proposed for
    judged              \* what the last report was measured of, and whether checks could run

kernel == <<state, ledger>>
disk   == <<ws, dictionary, judge, author>>
turn   == <<plan, promoted, trapped, candidate, held, report, source>>
past   == <<mode, before, jobs, kills>>
vars   == <<kernel, disk, turn, past, pc, ended, tree, tried, judged>>

-----------------------------------------------------------------------------
\* kernel.py

NoGates == [g \in {} |-> "pass"]
EmptyState == [revision |-> 0, seen |-> {}, dups |-> 0, pending |-> FALSE,
               gates |-> NoGates, used |-> 0]

Event(kind, data) == [kind |-> kind, data |-> data]

\* reduce, for an event whose sequence is assigned.
Reduce(s, e) ==
    LET next == CASE e.kind = "planned" ->
                    IF e.data \in s.seen THEN [s EXCEPT !.pending = FALSE]
                    ELSE [s EXCEPT !.seen = @ \cup {e.data}, !.dups = 0, !.pending = TRUE]
             [] e.kind = "blocked"  -> [s EXCEPT !.pending = FALSE, !.dups = @ + 1]
             [] e.kind = "rejected" -> [s EXCEPT !.pending = FALSE]
             [] e.kind = "measured" -> [s EXCEPT !.gates = e.data.gates]
             [] e.kind = "budget"   -> [s EXCEPT !.used = @ + 1]
             [] OTHER -> s
    IN  [next EXCEPT !.revision = s.revision + 1]

\* The state s after the events, one after the other.
Reduced(s, events) ==
    LET after[k \in 0 .. Len(events)] == IF k = 0 THEN s ELSE Reduce(after[k - 1], events[k])
    IN  after[Len(events)]

\* commit: the file is appended to, whatever it held before.
Commit(events) ==
    /\ state' = Reduced(state, events)
    /\ ledger' = ledger \o [i \in DOMAIN events |->
                               [kind |-> events[i].kind, data |-> events[i].data,
                                seq |-> state.revision + i]]

\* replay raises at an event whose sequence does not follow the revision.
Replays(events) == \A i \in DOMAIN events : events[i].seq = i

\* Mutant of AsOf: a measurement is no state of the product.
AsOfApplied(events, seq) ==
    LET seen == {i \in DOMAIN events : events[i].seq <= seq /\ events[i].kind = "applied"}
    IN  IF seen = {} THEN NoFile ELSE events[Max(seen)].data.tree

\* store.as_of: the tree of the last measurement, with what was applied after it.
AsOf(events, seq) ==
    LET seen == {i \in DOMAIN events :
                    events[i].seq <= seq /\ events[i].kind \in {"applied", "measured"}}
    IN  IF seen = {} THEN NoFile ELSE events[Max(seen)].data.tree

ClaimsDischarged(gates) ==
    /\ "claims" \in DOMAIN gates /\ gates["claims"] = "pass"
    /\ \A g \in {"look", "progress", "contract"} \cap DOMAIN gates : gates[g] # "fail"

\* reconcile
Decision(s) ==
    IF ClaimsDischarged(s.gates) THEN "success"
    ELSE IF ~mode.benchmark /\ s.dups >= 2 THEN "blocked"
    ELSE IF s.used >= MaxTurns THEN "halt_cap"
    ELSE "plan"

-----------------------------------------------------------------------------
\* gates.py

\* infer_gates, and the stop at a gate that timed out: the claims come last. A manifest
\* may declare a gate `claims` itself, and then that gate is run in their place.
Specs(p, c) ==
    LET claims == IF c = NoFile THEN <<>> ELSE <<"claims">>
        all    == CASE p.layout = "tests"    -> <<"build">> \o claims
                    [] p.layout \in {"declared", "owned"} -> <<"build", "claims">>
                    [] p.layout = "web"      -> <<"build", "look", "claims">>
                    [] p.layout = "bare"     -> claims
    IN  IF all # <<>> /\ Head(all) = "build" /\ p.build = "hang" THEN <<"build">> ELSE all

\* _iter_source_text: a source claim without a path is looked for in all texts of the
\* workspace, and they take in the frozen contract if its file is in the run directory.
JudgeInSight == judge # NoFile /\ mode.judge \in {"own", "approved"} /\ ~mode.apart

Found(p, c) == p \in c.holds \/ (c.anywhere /\ JudgeInSight)

\* Mutant of ClaimsHold: a check that may not run counts as one that passed.
ClaimsHoldUnchecked(p, c, allow) ==
    /\ c # NoFile /\ c.parses /\ c.kinds # {}
    /\ "source" \in c.kinds => Found(p, c)
    /\ "check" \in c.kinds /\ allow => p \in c.checked

\* measure_claims: every claim must hold; a check only runs if it is allowed to.
ClaimsHold(p, c, allow) ==
    /\ c # NoFile /\ c.parses /\ c.kinds # {}
    /\ "source" \in c.kinds => Found(p, c)
    /\ "check" \in c.kinds => allow /\ p \in c.checked

\* The structural gates, measure_build and measure_look.
Structural(p, g) == IF g = "look" THEN p.look ELSE IF p.build = "hang" THEN "fail" ELSE p.build

\* run_one_gate, of the claims: a command the manifest names `claims` is run as one.
ClaimsGate(p, c, allow) ==
    IF p.layout = "owned" THEN p.own
    ELSE IF ClaimsHold(p, c, allow) THEN "pass" ELSE "fail"

\* run_gates
RunGates(p, c, allow) ==
    [g \in ToSet(Specs(p, c)) |->
        IF g = "claims" THEN ClaimsGate(p, c, allow) ELSE Structural(p, g)]

-----------------------------------------------------------------------------
\* cli.py

\* Mutant of ClaimsSource: the label is what was asked for, whether or not the file is there.
ClaimsSourceByMode(m, file, claims) ==
    CASE m.judge = "approved" -> "approved"
      [] m.judge \in {"hidden", "missing"} -> "hidden"
      [] OTHER -> IF claims # NoFile THEN "workspace" ELSE "none"

\* claims_source: asks for the file under --claims now, not who wrote it.
ClaimsSource(m, file, claims) ==
    IF m.judge # "own" /\ file # NoFile
    THEN IF m.judge = "approved" THEN "approved" ELSE "hidden"
    ELSE IF claims # NoFile THEN "workspace" ELSE "none"

Init ==
    /\ mode \in Modes /\ pc = "head" /\ ended = "no"
    /\ ws = [product |-> Blank, claims |-> NoFile] /\ tree = ws /\ before = ws
    /\ judge = (IF mode.judge \in {"hidden", "approved"} THEN Given ELSE NoFile)
    /\ author = (IF mode.judge \in {"hidden", "approved"} THEN "human" ELSE "none")
    /\ LET start == IF mode.judge = "approved" THEN <<[kind |-> "approved", data |-> Same, seq |-> 1]>>
                    ELSE <<>>
       IN  ledger = start /\ state = [EmptyState EXCEPT !.revision = Len(start)]
    /\ source = ClaimsSource(mode, judge, NoFile)
    /\ dictionary = {} /\ plan = NoFile /\ promoted = {} /\ trapped = FALSE
    /\ candidate = FALSE /\ held = Same /\ report = NoGates
    /\ jobs = 1 /\ kills = 0 /\ tried = {} /\ judged = NoFile

End(how) == pc' = "done" /\ ended' = how

\* The deadline of the request, and then reconcile.
Cancel ==
    /\ pc = "head" /\ End("cancelled")
    /\ UNCHANGED <<kernel, disk, turn, past, tree, tried, judged>>

Conclude ==
    /\ pc = "head" /\ Decision(state) # "plan" /\ End(Decision(state))
    /\ UNCHANGED <<kernel, disk, turn, past, tree, tried, judged>>

Unreadable == judge # NoFile /\ ~judge.parses

\* call_planner fails: CLIError leaves run_job, and no receipt is written. A contract that
\* does not parse raises when the observation is put together.
PlannerFails ==
    /\ pc = "head" /\ Decision(state) = "plan" /\ ~Unreadable /\ End("error")
    /\ UNCHANGED <<kernel, disk, turn, past, tree, tried, judged>>

ContractUnreadable ==
    /\ pc = "head" /\ Decision(state) = "plan" /\ Unreadable /\ End("raised")
    /\ UNCHANGED <<kernel, disk, turn, past, tree, tried, judged>>

\* Mutant of DedupeKey: the fingerprint alone.
DedupeKeyOfPlan(p) == <<p, Same>>

DedupeKey(p) == <<p, tree>>

\* The envelope is committed; a duplicate costs a turn and is not looked at.
Propose(p) ==
    /\ pc = "head" /\ Decision(state) = "plan" /\ ~Unreadable
    /\ LET known == DedupeKey(p) \in state.seen
           planned == <<Event("planned", DedupeKey(p))>>
       IN  /\ Commit(IF known THEN planned \o <<Event("blocked", p), Event("budget", 1)>>
                     ELSE planned)
           /\ pc' = IF known THEN "head" ELSE "critic"
    /\ plan' = p /\ promoted' = {} /\ trapped' = FALSE
    /\ tried' = tried \cup {<<p, ws>>}
    /\ UNCHANGED <<disk, past, tree, judged, ended, candidate, held, report, source>>

\* prepare_program puts the words of the dictionary in front of the program.
Known(word) == word = NoWord \/ word \in dictionary

\* validate, over the prepared program.
Admitted(p) == p.lawful /\ Known(p.uses)

\* Mutant of Criticise: a rejection is free.
CriticiseFree ==
    /\ pc = "critic"
    /\ IF Admitted(plan)
       THEN Commit(<<Event("accepted", plan)>>) /\ pc' = "execute"
       ELSE Commit(<<Event("rejected", plan)>>) /\ pc' = "head"
    /\ UNCHANGED <<disk, turn, past, tree, tried, judged, ended>>

Criticise ==
    /\ pc = "critic"
    /\ IF Admitted(plan)
       THEN Commit(<<Event("accepted", plan)>>) /\ pc' = "execute"
       ELSE Commit(<<Event("rejected", plan), Event("budget", 1)>>) /\ pc' = "head"
    /\ UNCHANGED <<disk, turn, past, tree, tried, judged, ended>>

\* The workspace after all of the plan's writes, or some of them.
Written == [product |-> IF plan.product = Same THEN ws.product ELSE plan.product,
            claims  |-> IF plan.claims = Same THEN ws.claims ELSE plan.claims]
Partly  == {ws, Written, [ws EXCEPT !.product = Written.product],
            [ws EXCEPT !.claims = Written.claims]}

\* save_colon_words: the words a program that ran defines, but for those that were there.
NewWords == IF plan.defines = NoWord THEN {} ELSE {plan.defines} \ dictionary

\* run_forth, to its end.
ExecuteClean ==
    /\ pc = "execute" /\ pc' = "measure"
    /\ ws' = Written
    /\ promoted' = NewWords
    /\ dictionary' = dictionary \cup promoted'
    /\ Commit(<<Event("applied", [tree |-> Written])>>
              \o SetToSeq({Event("promoted", w) : w \in promoted'}))
    /\ UNCHANGED <<judge, author, plan, trapped, candidate, held, report, source, past, tree,
                   tried, judged, ended>>

\* A program without nodes traps: what it wrote stays, and is measured.
ExecuteTraps ==
    /\ pc = "execute" /\ ~plan.graph /\ pc' = "measure" /\ trapped' = TRUE
    /\ ws' \in Partly
    /\ Commit(<<Event("applied", [tree |-> Written])>>)
    /\ UNCHANGED <<dictionary, judge, author, plan, promoted, candidate, held, report, source,
                   past, tree, tried, judged, ended>>

\* A node traps: what the waves wrote stays, and the episode ends as if it was rejected.
ExecuteNodeTraps ==
    /\ pc = "execute" /\ plan.graph /\ pc' = "head"
    /\ ws' \in Partly
    /\ Commit(<<Event("rejected", plan), Event("budget", 1)>>)
    /\ UNCHANGED <<dictionary, judge, author, turn, past, tree, tried, judged, ended>>

\* measure_workspace puts the contract in the place of claims.json.
Swap ==
    /\ pc = "measure" /\ pc' = "gates"
    /\ source' = ClaimsSource(mode, judge, ws.claims)
    /\ candidate' = (judge = NoFile /\ ws.claims # NoFile)
    /\ held' = IF judge = NoFile THEN Same ELSE ws.claims
    /\ ws' = IF judge = NoFile THEN ws ELSE [ws EXCEPT !.claims = judge]
    /\ UNCHANGED <<kernel, dictionary, judge, author, plan, promoted, trapped, report, past,
                   tree, tried, judged, ended>>

Allow == source \in {"hidden", "approved"} \/ mode.benchmark

\* _claim_quality looks at the claims the gate reported, so it finds nothing if the
\* claims were not measured, or a command of that name was run in their place.
Reported(gates)    == /\ "claims" \in DOMAIN gates /\ ws.product.layout # "owned"
                      /\ ws.claims # NoFile /\ ws.claims.kinds # {}
SourceOnly(gates)  == Reported(gates) /\ ws.claims.kinds = {"source"}
Behavioural(gates) == Reported(gates) /\ ws.claims.behavioural

With(gates, g, result) == [h \in DOMAIN gates \cup {g} |-> IF h = g THEN result ELSE gates[h]]

Restored == IF held = Same THEN ws ELSE [ws EXCEPT !.claims = held]

ContractChanged ==
    source = "workspace" /\ judge # NoFile /\ Restored.claims \notin {NoFile, judge}

\* No product change under the model's own claims; in a benchmark, claims too weak.
NoProgress(gates) ==
    /\ source = "workspace"
    /\ \/ ws.product = before.product
       \/ mode.benchmark /\ SourceOnly(gates)
       \/ mode.benchmark /\ mode.runs /\ ~Behavioural(gates)

\* The report with the contract and the progress gate.
Completed(gates) ==
    LET contract == IF ContractChanged THEN With(gates, "contract", "fail") ELSE gates
    IN  IF NoProgress(gates) THEN With(contract, "progress", "fail") ELSE contract

\* Mutant of Ready: a contract is frozen again whenever the model's claims are good.
ReadyAgain(gates) ==
    /\ source = "workspace" /\ ~SourceOnly(gates)
    /\ mode.runs => Behavioural(gates)

\* contract_ready
Ready(gates) ==
    /\ candidate /\ ~SourceOnly(gates)
    /\ mode.runs => Behavioural(gates)

\* The gates are run, claims.json is put back, the report is completed, and a model's
\* contract that is ready is frozen in its file.
Measure ==
    LET gates == RunGates(ws.product, ws.claims, Allow)
    IN  /\ pc = "gates" /\ pc' = "close"
        /\ ws' = Restored /\ report' = Completed(gates)
        /\ judge' = IF Ready(gates) THEN Restored.claims ELSE judge
        /\ author' = IF Ready(gates) THEN "model" ELSE author
        /\ candidate' = Ready(gates)
        /\ judged' = [ws |-> ws, allow |-> Allow, source |-> source, author |-> author]
        /\ UNCHANGED <<kernel, dictionary, plan, promoted, trapped, held, source, past, tree,
                       tried, ended>>

\* promotion.evidence_for
Eligible(gates) == ~trapped /\ ClaimsDischarged(gates)

\* The end of an episode is committed. The frozen text is parsed for its event: if it
\* does not parse, the job ends here, and the file stays.
Close ==
    /\ pc = "close"
    /\ IF candidate /\ ~judge.parses
       THEN End("raised") /\ UNCHANGED <<kernel, tree>>
       ELSE /\ Commit((IF candidate THEN <<Event("approved", judge)>> ELSE <<>>)
                      \o <<Event("measured", [tree |-> ws, gates |-> report])>>
                      \o SetToSeq({Event("evidence", [word |-> w, eligible |-> Eligible(report)]) :
                                   w \in promoted})
                      \o <<Event("budget", 1)>>)
            /\ pc' = "head" /\ tree' = ws /\ UNCHANGED ended
    /\ UNCHANGED <<disk, turn, past, tried, judged>>

\* The process is killed: claims.json may hold what measure_workspace put there.
Kill ==
    /\ pc # "done" /\ kills < MaxKills /\ kills' = kills + 1 /\ End("killed")
    /\ UNCHANGED <<kernel, disk, turn, mode, before, jobs, tree, tried, judged>>

\* run_job in the same run directory: a new State over the old ledger, dictionary and
\* contract file.
Again ==
    /\ pc = "done" /\ jobs < MaxJobs /\ state.used <= MaxBefore /\ jobs' = jobs + 1
    /\ pc' = "head" /\ ended' = "no"
    /\ LET start == IF mode.judge = "approved" THEN <<[kind |-> "approved", data |-> Same, seq |-> 1]>>
                    ELSE <<>>
       IN  ledger' = ledger \o start /\ state' = [EmptyState EXCEPT !.revision = Len(start)]
    /\ tree' = ws /\ before' = ws
    /\ source' = ClaimsSource(mode, judge, ws.claims)
    /\ plan' = NoFile /\ promoted' = {} /\ trapped' = FALSE
    /\ candidate' = FALSE /\ held' = Same /\ report' = NoGates
    /\ tried' = {} /\ judged' = NoFile
    /\ UNCHANGED <<mode, disk, kills>>

Step ==
    \/ Conclude \/ PlannerFails \/ ContractUnreadable
    \/ \E p \in Plans : Propose(p)
    \/ Criticise \/ ExecuteClean \/ ExecuteTraps \/ ExecuteNodeTraps \/ Swap \/ Measure \/ Close

Next == Step \/ Cancel \/ Kill \/ Again

Spec == Init /\ [][Next]_vars

\* The loop goes on while its process lives: no planner hangs, no gate runs for ever.
FairSpec == Spec /\ WF_vars(Step)

-----------------------------------------------------------------------------
\* Properties.

\* Every claim of c holds of the product as it is, and its checks were allowed to run. Only
\* a source claim without a path may be found in the contract that asks for it.
ClaimsHeld(c) ==
    /\ c.kinds # {}
    /\ "source" \in c.kinds =>
          \/ ws.product \in c.holds
          \/ c.anywhere /\ judged.author # "none" /\ JudgeInSight
    /\ "check" \in c.kinds => judged.allow /\ ws.product \in c.checked

\* The product's own manifest puts a command in the place of the claims, and it passed.
OwnGatePassed == ws.product.layout = "owned" /\ ws.product.own = "pass"

\* A job that ends as a success was judged, in its last episode and with the product as
\* it is now: every claim held, unless the product brings a gate `claims` of its own, the
\* frozen contract was the judge and was not changed meanwhile, and claims the model wrote
\* came with a change of the product (kernel.claims_discharged over the report of
\* cli.run_job).
SuccessIsEarned ==
    ended = "success" =>
        LET c == judged.ws.claims
        IN  /\ judged.ws.product = ws.product
            /\ OwnGatePassed \/ ClaimsHeld(c)
            /\ judge \in {NoFile, c}
            /\ "look" \in DOMAIN report => report["look"] # "fail"
            /\ judged.source = "workspace" => ws.claims = c /\ ws.product # before.product

\* Whose check commands run: the user's, anybody's in a benchmark, and the model's own
\* once they are frozen at the path the user gave for a file that was not there.
WhoseChecksRun ==
    judged # NoFile =>
        (judged.allow <=> \/ mode.benchmark
                          \/ judged.author = "human"
                          \/ judged.author = "model" /\ mode.judge = "missing")

\* The hidden contract is in the workspace while the gates run and at no other time, but
\* for a job that was killed there (measure_workspace's finally).
HiddenIsPutAway ==
    mode.judge = "hidden" /\ kills = 0 /\ pc # "gates" => ws.claims # Given

\* The judge is kept apart from the work: the model neither has its checks run as if they
\* were the user's nor sees the hidden ones (cli.run_job, measure_workspace).
JudgeIsApart == WhoseChecksRun /\ HiddenIsPutAway

\* A frozen contract stays as it is, in every later episode and job, whoever wrote it.
JudgeIsSettled == [][judge # NoFile => judge' = judge /\ author' = author]_vars

Own == SubSeq(ledger, Len(ledger) - state.revision + 1, Len(ledger))

\* The ledger replays if this job wrote all of it, and if not, no longer than until this
\* job commits. What as_of rebuilds from it between two episodes is the tree that was
\* measured last, and the workspace unless a node trapped.
LedgerIsOneJobs ==
    /\ Len(ledger) = state.revision => Replays(ledger)
    /\ Replays(ledger) => state.revision \in {0, Len(ledger)}
    /\ Len(ledger) = state.revision /\ pc = "head" /\ judged # NoFile =>
          AsOf(ledger, state.revision) = tree

\* Evidence for a word is good only in the episode that ended the work: no later episode
\* of the job is planned (promotion.evidence_for).
EvidenceIsOfSuccess ==
    \A i \in DOMAIN Own : Own[i].kind = "evidence" /\ Own[i].data.eligible =>
        /\ ended \in {"no", "success", "cancelled", "killed"} /\ Decision(state) = "success"
        /\ \A j \in i .. Len(Own) : Own[j].kind # "planned"

\* Success is earned, and only success is recorded as evidence for a word.
SuccessIsReal == SuccessIsEarned /\ EvidenceIsOfSuccess

NodeTrapped == \E i \in 1 .. Len(Own) - 1 : Own[i].kind = "accepted" /\ Own[i + 1].kind = "rejected"

\* Unless a node trapped in this job, a plan is blocked only if it was proposed before for
\* the workspace as it is now; and a job stops as a feedback loop only after two of them
\* in a row.
BlockedAreRepeats ==
    [][/\ state'.dups > state.dups /\ ~NodeTrapped => <<plan', ws>> \in tried
       /\ ended' = "blocked" /\ ended # "blocked" =>
             \A k \in {1, 4} : Own[Len(Own) - k].kind = "blocked"]_vars

\* Every job ends, and asks the planner at most MaxTurns times, whatever the planner
\* returns: each turn costs budget, be it run, rejected or blocked.
JobEnds == /\ [](Len(SelectSeq(Own, LAMBDA e : e.kind = "planned")) <= MaxTurns)
           /\ []<>(pc = "done")
=============================================================================
