------------------------------- MODULE Forth -------------------------------
(***************************************************************************)
(* The control program of an envelope: the critic's walk over its tokens   *)
(* (preflight.validate), the hosted Forth that then runs them              *)
(* (forth.ForthVM) and the host words with their policy                    *)
(* (host.CapabilityHost).                                                  *)
(*                                                                         *)
(* The critic reads a program once from left to right. It does not follow  *)
(* a branch and does not look into a definition, so what it says of a      *)
(* program and what the program does are two things; the host asks the     *)
(* policy again. Nor do the two see one workspace: the critic resolves a   *)
(* path under /workspace, where it looks at nothing, the host in the real  *)
(* one, through symbolic links. A program is modelled from its tokens on; a*)
(* path, a content and a query are the same few strings, and a text is only*)
(* told apart from a number and from a receipt. Artifacts are in the       *)
(* workspace when a program starts (install_artifacts). What the commands  *)
(* of a check write is left out.                                           *)
(***************************************************************************)
EXTENDS Integers, Sequences, FiniteSets, SequencesExt

CONSTANTS
    Programs,   \* sources: [tokens, structured, flat]; flat: what a structured one stands for
    Grants,     \* sets of effects a run may be allowed
    Artifacts,  \* path -> text
    Before,     \* path -> text: the files there before
    CriticPath, \* string -> path: relative(), under the root the critic makes up
    HostPath,   \* string -> path: relative(), in the workspace; other strings escape it
    Policies,   \* the write policies in force, each the set of paths it lets through
    Skipped,    \* the paths that snapshot leaves out
    Manifests,  \* the paths from which gates are inferred
    Discharge,  \* what RUN-GATES writes: the discharge report, its history, the gate cache
    Receipts,   \* what RECEIPT writes in the workspace, if anything
    Record,     \* the text of a report or a receipt
    MaxFrames   \* bound: the interpreter's recursion limit, in calls of run_tokens

\* What the lexer makes: a word, a text or a number.
Tokens ==
    {t \in [kind : {"string", "number", "word"}, text : STRING, number : Int] :
        IF t.kind = "number" THEN t.text = "" ELSE t.number = 0}

ASSUME ProgramAssumption == \A p \in Programs : p.tokens \in Seq(Tokens)
ASSUME BoundAssumption == MaxFrames \in Nat \ {0}
ASSUME RecordAssumption == Discharge \subseteq Skipped

VARIABLES
    program, grant,
    frames,     \* the calls of run_tokens: their tokens, and the next one
    colon,      \* the words the program has defined
    machine     \* the stack, the workspace, the effects used, whether every receipt was a
                \* success, how it goes

vars == <<program, grant, frames, colon, machine>>

\* f with the value v for k (a store into a dict, or a file that is written), or for all of S.
Put(f, k, v)    == [x \in DOMAIN f \cup {k} |-> IF x = k THEN v ELSE f[x]]
PutAll(f, S, v) == [x \in DOMAIN f \cup S |-> IF x \in S THEN v ELSE f[x]]

-----------------------------------------------------------------------------
\* Tokens, and what is on the stack.

Str(s)  == [kind |-> "string", text |-> s, number |-> 0]
Num(n)  == [kind |-> "number", text |-> "", number |-> n]
Word(w) == [kind |-> "word", text |-> w, number |-> 0]
Receipt == [kind |-> "receipt", text |-> "", number |-> 0]

Syntax == {":", ";", "IF", "ELSE", "THEN"}

HostWords == {"READ-FILE", "LIST-DIR", "SEARCH", "USE-ARTIFACT", "WRITE-FILE", "RUN-TESTS",
              "RUN-GATES", "RECEIPT", "+", "-", "*", "DUP", "DROP", "SWAP", "OVER"}

\* What a word takes, from the top of the stack down, and its effect.
Wants ==
    [w \in HostWords |->
        CASE w \in {"READ-FILE", "LIST-DIR", "SEARCH", "USE-ARTIFACT"} -> <<"string">>
          [] w = "WRITE-FILE"       -> <<"string", "string">>
          [] w \in {"+", "-", "*"}  -> <<"number", "number">>
          [] w \in {"DUP", "DROP"}  -> <<"any">>
          [] w \in {"SWAP", "OVER"} -> <<"any", "any">>
          [] OTHER                  -> <<>>]

\* What it leaves.
Gives == [w \in HostWords |-> CASE w = "DROP" -> 0 [] w \in {"DUP", "SWAP"} -> 2
                                   [] w = "OVER" -> 3 [] OTHER -> 1]

Needs(w) == CASE w \in {"READ-FILE", "LIST-DIR", "SEARCH"} -> {"read"}
              [] w = "WRITE-FILE"                          -> {"write"}
              [] w \in {"RUN-TESTS", "RUN-GATES"}          -> {"exec"}
              [] OTHER                                     -> {}

\* Mutant of Denied: the policies are asked for one that lets the path through.
DeniedByAll(path) == \A P \in Policies : path \notin P

\* PathPolicy.write_allowed, of the host and of every policy around it.
Denied(path) == \E P \in Policies : path \notin P

\* The string names a path, under this resolution, that may be written.
Passes(resolve, s) == s \in DOMAIN resolve /\ ~Denied(resolve[s])

\* install_artifacts writes them as WRITE-FILE would, or the program is not run.
ASSUME ArtifactAssumption == \A key \in DOMAIN Artifacts : Passes(HostPath, key)

-----------------------------------------------------------------------------
\* lower_artifact_writes: S" k" WRITE-FILE goes where k is an artifact, it is on disk.

Lower(tokens) ==
    LET Written(i) == /\ i \in DOMAIN tokens /\ i + 1 \in DOMAIN tokens
                      /\ tokens[i].kind = "string" /\ tokens[i].text \in DOMAIN Artifacts
                      /\ tokens[i + 1] = Word("WRITE-FILE")
        kept[i \in 0 .. Len(tokens)] ==
            IF i = 0 THEN <<>>
            ELSE IF Written(i) \/ Written(i - 1) THEN kept[i - 1]
            ELSE Append(kept[i - 1], tokens[i])
    IN  kept[Len(tokens)]

-----------------------------------------------------------------------------
\* The critic: HOST_DICTIONARY and _walk_program.

HostDictionary ==
    [w \in HostWords \cup {"IF", "ELSE", "THEN"} |->
        IF w \in HostWords
        THEN [inputs |-> Len(Wants[w]), outputs |-> Gives[w],
              effects |-> IF w = "USE-ARTIFACT" THEN {"read"} ELSE Needs(w)]
        ELSE [inputs |-> IF w = "IF" THEN 1 ELSE 0, outputs |-> 0, effects |-> {}]]

\* The contract the critic gives to a word the program defines.
Blank == [inputs |-> 0, outputs |-> 0, effects |-> {}]

\* The literal in front of WRITE-FILE and of USE-ARTIFACT is looked at.
LiteralErrors(word, prev) ==
    IF prev.kind # "string" THEN {}
    ELSE (IF word = "WRITE-FILE" /\ ~Passes(CriticPath, prev.text) THEN {"path"} ELSE {})
         \cup (IF word = "USE-ARTIFACT" /\ prev.text \notin DOMAIN Artifacts
               THEN {"artifact"} ELSE {})

\* Mutant of Judge: a word is looked at as if the stack were never too short.
JudgeNoDepth(c, t) ==
    CASE t.kind # "word"    -> [c EXCEPT !.depth = @ + 1]
      [] t = Word(":")      -> [c EXCEPT !.mode = "name"]
      [] t.kind = "word" /\ t.text # ":" /\ t.text \notin c.words \cup DOMAIN HostDictionary ->
             [c EXCEPT !.errors = @ \cup {"unknown"}]
      [] OTHER ->
             LET k == IF t.text \in c.words THEN Blank ELSE HostDictionary[t.text]
             IN  [c EXCEPT !.depth = @ - k.inputs + k.outputs, !.effects = @ \cup k.effects,
                           !.errors = @ \cup LiteralErrors(t.text, c.prev)]

\* One token outside a definition.
Judge(c, t) ==
    CASE t.kind # "word"    -> [c EXCEPT !.depth = @ + 1]
      [] t = Word(":")      -> [c EXCEPT !.mode = "name"]
      [] t.kind = "word" /\ t.text # ":" /\ t.text \notin c.words \cup DOMAIN HostDictionary ->
             [c EXCEPT !.errors = @ \cup {"unknown"}]
      [] OTHER ->
             LET k     == IF t.text \in c.words THEN Blank ELSE HostDictionary[t.text]
                 short == c.depth < k.inputs
             IN  [c EXCEPT !.depth = (IF short THEN 0 ELSE @ - k.inputs) + k.outputs,
                           !.effects = @ \cup k.effects,
                           !.errors = @ \cup (IF short THEN {"underflow"} ELSE {})
                                        \cup LiteralErrors(t.text, c.prev)]

\* One token; a definition is skipped up to its end (_skip_colon).
Walk(c, t) ==
    [(CASE c.mode = "body" /\ t = Word(";") ->
               [c EXCEPT !.mode = "plain", !.words = @ \cup {c.name}]
        [] c.mode = "body" /\ t = Word(":") ->
               [c EXCEPT !.mode = "plain", !.errors = @ \cup {"nested"}]
        [] c.mode = "body" /\ t \notin {Word(";"), Word(":")} -> c
        [] c.mode = "name" /\ t.kind = "word" -> [c EXCEPT !.mode = "body", !.name = t.text]
        [] c.mode = "name" /\ t.kind # "word" ->
               Judge([c EXCEPT !.mode = "plain", !.errors = @ \cup {"name"}], t)
        [] c.mode = "plain" -> Judge(c, t)) EXCEPT !.prev = t]

NewWalk == [mode |-> "plain", name |-> "", depth |-> 0, effects |-> {}, words |-> {},
            errors |-> {}, prev |-> Word("")]

Walked(tokens) ==
    LET after[k \in 0 .. Len(tokens)] ==
            IF k = 0 THEN NewWalk ELSE Walk(after[k - 1], tokens[k])
    IN  after[Len(tokens)]

\* validate, of a program without a graph.
Accepts(tokens, allowed) ==
    LET w == Walked(tokens)
    IN  /\ w.errors = {} /\ w.mode = "plain" /\ w.effects \subseteq allowed
        /\ \A key \in DOMAIN Artifacts : Passes(CriticPath, key)

-----------------------------------------------------------------------------
\* The machine: one word of the host.

Top(m, i) == m.stack[Len(m.stack) + 1 - i]
Rest(m, n) == SubSeq(m.stack, 1, Len(m.stack) - n)

\* _pop, _pop_str, _pop_int, in the order in which a word takes them.
TakeFault(m, w) ==
    LET wants  == Wants[w]
        bad(i) == Len(m.stack) < i \/ (wants[i] # "any" /\ Top(m, i).kind # wants[i])
        first  == {i \in DOMAIN wants : bad(i) /\ \A j \in 1 .. (i - 1) : ~bad(j)}
    IN  CASE first = {}                            -> "none"
          [] \E i \in first : Len(m.stack) < i     -> "underflow"
          [] \E i \in first : Len(m.stack) >= i    -> "type"

\* _require_effect, _rel, _existing_file, _existing_dir and the policy.
HostFault(m, w, path, allowed) ==
    CASE ~(Needs(w) \subseteq allowed)                                     -> "effect"
      [] /\ w \in {"READ-FILE", "WRITE-FILE"} \/ (w = "LIST-DIR" /\ path \notin {"", "."})
         /\ path \notin DOMAIN HostPath /\ Needs(w) \subseteq allowed      -> "path"
      [] w = "READ-FILE" /\ Needs(w) \subseteq allowed
            /\ path \in DOMAIN HostPath /\ HostPath[path] \notin DOMAIN m.files -> "missing_file"
      [] w = "LIST-DIR" /\ path \notin {"", "."} /\ Needs(w) \subseteq allowed
            /\ path \in DOMAIN HostPath /\ HostPath[path] # ""             -> "missing_file"
      [] w = "WRITE-FILE" /\ Needs(w) \subseteq allowed
            /\ path \in DOMAIN HostPath /\ Denied(HostPath[path])          -> "policy"
      [] w = "USE-ARTIFACT" /\ path \notin DOMAIN Artifacts                -> "missing_artifact"
      [] OTHER                                                             -> "none"

\* What a word leaves in place of what it took.
Pushes(m, w) ==
    CASE w = "DUP"          -> <<Top(m, 1), Top(m, 1)>>
      [] w = "DROP"         -> <<>>
      [] w = "SWAP"         -> <<Top(m, 1), Top(m, 2)>>
      [] w = "OVER"         -> <<Top(m, 2), Top(m, 1), Top(m, 2)>>
      [] w = "+"            -> <<Num(Top(m, 2).number + Top(m, 1).number)>>
      [] w = "-"            -> <<Num(Top(m, 2).number - Top(m, 1).number)>>
      [] w = "*"            -> <<Num(Top(m, 2).number * Top(m, 1).number)>>
      [] w = "READ-FILE"    -> <<Str(m.files[HostPath[Top(m, 1).text]])>>
      [] w = "USE-ARTIFACT" -> <<Str(Artifacts[Top(m, 1).text])>>
      [] w \notin {"DUP", "DROP", "SWAP", "OVER", "+", "-", "*", "READ-FILE",
                   "USE-ARTIFACT"} -> <<Receipt>>

\* The files after a word. RUN-GATES and RECEIPT ask no policy; without a gate to run there
\* is no report.
FilesAfter(m, w, path) ==
    CASE w = "WRITE-FILE" -> Put(m.files, HostPath[path], Top(m, 2).text)
      [] w = "RUN-GATES" /\ Manifests \cap DOMAIN m.files # {} -> PutAll(m.files, Discharge, Record)
      [] w = "RECEIPT" -> PutAll(m.files, Receipts, Record)
      [] OTHER -> m.files

\* What host.receipt finds changed against the policy; a receipt without is a success. The
\* code asks the host's own policy only.
Violations(m) ==
    {path \in DOMAIN m.files \ Skipped :
        Denied(path) /\ ~(path \in DOMAIN Before /\ m.files[path] = Before[path])}

\* A literal, or a word of the host, with what can go wrong in it.
Do(m, t, allowed) ==
    IF t.kind # "word" THEN [m EXCEPT !.stack = Append(@, t)]
    ELSE IF t.text \notin HostWords THEN [m EXCEPT !.status = "unknown"]
    ELSE LET w    == t.text
             take == TakeFault(m, w)
             path == IF m.stack = <<>> THEN "" ELSE Top(m, 1).text
             host == HostFault(m, w, path, allowed)
         IN  IF take # "none" THEN [m EXCEPT !.status = take]
             ELSE IF host # "none"
             THEN [m EXCEPT !.status = host, !.used = @ \cup (Needs(w) \cap allowed)]
             ELSE [m EXCEPT !.stack = Rest(m, Len(Wants[w])) \o Pushes(m, w),
                            !.files = FilesAfter(m, w, path),
                            !.used = @ \cup Needs(w),
                            !.clean = @ /\ (w = "RECEIPT" => Violations(m) = {})]

\* The workspace when the program starts (install_artifacts). Of two artifacts that resolve
\* to one file either is taken.
Installed ==
    LET targets == {HostPath[key] : key \in DOMAIN Artifacts}
    IN  [path \in targets \cup DOMAIN Before |->
            IF path \in targets
            THEN Artifacts[CHOOSE key \in DOMAIN Artifacts : HostPath[key] = path]
            ELSE Before[path]]

Fresh == [stack |-> <<>>, files |-> Installed, used |-> {}, clean |-> TRUE, status |-> "runs"]

-----------------------------------------------------------------------------
\* run_tokens: one token of the innermost call.

Here  == Last(frames)
Token == Here.tokens[Here.at]
AtWord(w) == frames # <<>> /\ Here.at <= Len(Here.tokens) /\ Token = Word(w)

Goto(i)  == [frames EXCEPT ![Len(frames)].at = i]
Trap(code) == machine' = [machine EXCEPT !.status = code] /\ UNCHANGED <<frames, colon>>

\* A call within a call; the limit ends the run with an error ForthError does not cover.
Enter(tokens, next, stack) ==
    IF Len(frames) = MaxFrames THEN Trap("recursion")
    ELSE /\ frames' = Append(Goto(next), [tokens |-> tokens, at |-> 1])
         /\ machine' = [machine EXCEPT !.stack = stack]
         /\ UNCHANGED colon

Init ==
    /\ program \in Programs /\ grant \in Grants
    /\ frames = <<[tokens |-> Lower(program.tokens), at |-> 1]>>
    /\ colon = <<>> /\ machine = Fresh

Running == machine.status = "runs" /\ UNCHANGED <<program, grant>>

\* The end of a call: of run_tokens itself, of a word or of a branch.
Return ==
    /\ Running /\ Here.at > Len(Here.tokens)
    /\ IF Len(frames) > 1 THEN frames' = Front(frames) /\ UNCHANGED machine
       ELSE machine' = [machine EXCEPT !.status = "done"] /\ UNCHANGED frames
    /\ UNCHANGED colon

\* _compile_colon
Compile ==
    /\ Running /\ AtWord(":")
    /\ LET i    == Here.at
           ends == {j \in (i + 2) .. Len(Here.tokens) :
                        Here.tokens[j] \in {Word(";"), Word(":")}}
           end  == CHOOSE j \in ends : \A k \in ends : j <= k
       IN  IF \/ i = Len(Here.tokens) \/ Here.tokens[i + 1].kind # "word"
              \/ ends = {} \/ Here.tokens[end] = Word(":")
           THEN Trap("syntax")
           ELSE /\ colon' = Put(colon, Here.tokens[i + 1].text,
                                SubSeq(Here.tokens, i + 2, end - 1))
                /\ frames' = Goto(end + 1)
                /\ UNCHANGED machine

\* How deep in IFs a token is, counted from the IF at i.
Nesting(tokens, i, j) ==
    Cardinality({k \in i .. (j - 1) : tokens[k] = Word("IF")})
        - Cardinality({k \in i .. (j - 1) : tokens[k] = Word("THEN")})

\* Mutant of Match: the first THEN and the last ELSE before it.
MatchFirst(tokens, i) ==
    LET thens == {j \in i .. Len(tokens) : tokens[j] = Word("THEN")}
        then  == CHOOSE j \in thens : \A k \in thens : j <= k
    IN  [then |-> IF thens = {} THEN {} ELSE {then},
         else |-> IF thens = {} THEN {} ELSE {j \in i .. then : tokens[j] = Word("ELSE")}]

\* _match_if: the THEN of the IF at i, and its ELSEs.
Match(tokens, i) ==
    LET level(w) == {j \in i .. Len(tokens) : tokens[j] = Word(w) /\ Nesting(tokens, i, j) = 1}
        thens    == level("THEN")
        then     == CHOOSE j \in thens : \A k \in thens : j <= k
    IN  [then |-> IF thens = {} THEN {} ELSE {then},
         else |-> IF thens = {} THEN {} ELSE {j \in level("ELSE") : j < then}]

\* _run_if: the flag is gone before the branches are looked for.
Branch ==
    /\ Running /\ AtWord("IF")
    /\ LET i    == Here.at
           m    == Match(Here.tokens, i)
           then == CHOOSE j \in m.then : TRUE
           else == CHOOSE j \in m.else : \A k \in m.else : k <= j
           flag == Top(machine, 1) # Num(0)
           part == IF flag THEN SubSeq(Here.tokens, i + 1, (IF m.else = {} THEN then ELSE else) - 1)
                   ELSE SubSeq(Here.tokens, else + 1, then - 1)
       IN  CASE machine.stack = <<>> -> Trap("underflow")
             [] machine.stack # <<>> /\ m.then = {} -> Trap("syntax")
             [] machine.stack # <<>> /\ m.then # {} /\ (flag \/ m.else # {}) ->
                    Enter(part, then + 1, Front(machine.stack))
             [] machine.stack # <<>> /\ m.then # {} /\ ~flag /\ m.else = {} ->
                    /\ machine' = [machine EXCEPT !.stack = Front(@)]
                    /\ frames' = Goto(then + 1) /\ UNCHANGED colon

\* ELSE, THEN and ; on their own.
Stray ==
    /\ Running /\ \E w \in {"ELSE", "THEN", ";"} : AtWord(w)
    /\ Trap("syntax")

\* A word the program has defined.
Call ==
    /\ Running /\ \E w \in DOMAIN colon \ Syntax : AtWord(w)
    /\ Enter(colon[Token.text], Here.at + 1, machine.stack)

\* A literal, or a word of the host.
Perform ==
    /\ Running /\ Here.at <= Len(Here.tokens)
    /\ Token.kind = "word" => Token.text \notin Syntax \cup DOMAIN colon
    /\ machine' = Do(machine, Token, grant)
    /\ frames' = IF machine'.status = "runs" THEN Goto(Here.at + 1) ELSE frames
    /\ UNCHANGED colon

Next == Return \/ Compile \/ Branch \/ Stray \/ Call \/ Perform

Spec == Init /\ [][Next]_vars

-----------------------------------------------------------------------------
\* Properties.

Lowered  == Lower(program.tokens)
Admitted == Accepts(Lowered, grant)

\* No branch, and no call of a word the program defines.
Straight ==
    /\ \A i \in DOMAIN Lowered : Lowered[i] \notin {Word(w) : w \in {"IF", "ELSE", "THEN"}}
    /\ \A w \in Walked(Lowered).words : \E j \in DOMAIN Lowered :
           {i \in DOMAIN Lowered : Lowered[i] = Word(w)} = {j}

\* The critic and the host resolve the string to the same path, or neither does.
Alike(s) ==
    s \in DOMAIN CriticPath \cup DOMAIN HostPath =>
        s \in DOMAIN CriticPath \cap DOMAIN HostPath /\ CriticPath[s] = HostPath[s]

\* The token at i is a literal that names the file of the WRITE-FILE after it.
NamesFile(tokens, i) ==
    /\ i \in DOMAIN tokens /\ i + 1 \in DOMAIN tokens
    /\ tokens[i].kind = "string" /\ tokens[i + 1] = Word("WRITE-FILE")

AdmittedRuns ==
    Admitted /\ Straight =>
        /\ machine.status \notin {"underflow", "unknown", "effect", "syntax", "recursion"}
        /\ machine.status \in {"policy", "path", "missing_artifact"}
              /\ Token.text \in {"WRITE-FILE", "USE-ARTIFACT"}
           => /\ Here.at > 1
              /\ Here.tokens[Here.at - 1].kind = "string" =>
                    NamesFile(Here.tokens, Here.at - 1) /\ ~Alike(Here.tokens[Here.at - 1].text)

SummaryHolds ==
    machine.status = "done" /\ Straight =>
        /\ Len(machine.stack) = Walked(Lowered).depth
        /\ machine.used \subseteq Walked(Lowered).effects
        /\ \/ Admitted
           \/ "read" \notin grant /\ Contains(Lowered, Word("USE-ARTIFACT"))
           \/ \E i \in DOMAIN Lowered : NamesFile(Lowered, i) /\ ~Alike(Lowered[i].text)
           \/ \E key \in DOMAIN Artifacts : ~Alike(key)

\* The critic and the machine agree on a straight program, but for the paths that they
\* resolve to different files. One it accepts never runs out of stack, meets an unknown
\* word, an effect it was not allowed or bad syntax, and the host only refuses what no
\* literal named, or a file that a literal names to the host and not to the critic; one
\* that runs to its end has the depth and the effects the critic said, and was accepted,
\* but for such a file and for the read effect that only the critic gives to USE-ARTIFACT
\* (preflight.validate and forth.ForthVM).
CriticIsExact == AdmittedRuns /\ SummaryHolds

LetThrough(path) == \A P \in Policies : path \in P

\* The host holds where the critic does not look, in a body or a branch too. A program uses
\* no effect it was not allowed, and what its words change in the workspace is a file that
\* all policies let through, by the write effect, or a record of the harness, which no
\* policy is asked about: reports by the exec effect, and the receipt. The check after the
\* fact agrees with the refusal up front: a receipt only fails for the receipt before it
\* (host.write_file, host.run_gates, host.receipt).
HostHolds ==
    /\ machine.used \subseteq grant
    /\ \A path \in DOMAIN machine.files :
           \/ path \in DOMAIN Fresh.files /\ machine.files[path] = Fresh.files[path]
           \/ LetThrough(path) /\ "write" \in machine.used
           \/ path \in Discharge /\ "exec" \in machine.used
           \/ path \in Receipts
    /\ machine.clean \/ \E path \in Receipts \cap DOMAIN machine.files : ~LetThrough(path)

\* Words and branches are the tokens they stand for: a program ends as its text does with
\* every call and every chosen branch written out (_run_if, _match_if, _exec_word).
CallsAreInlined ==
    program.structured /\ machine.status \notin {"runs", "recursion"} =>
        LET end == FoldLeft(LAMBDA m, t : IF m.status = "runs" THEN Do(m, t, grant) ELSE m,
                            Fresh, program.flat)
        IN  /\ end.files = machine.files /\ end.used = machine.used
            /\ IF machine.status = "done" THEN end.status = "runs" /\ end.stack = machine.stack
               ELSE end.status = machine.status
=============================================================================
