---------------------------- MODULE ForthProofs ----------------------------
(***************************************************************************)
(* Theorems about Forth, for all programs, grants, artifacts and policies. *)
(***************************************************************************)
EXTENDS Forth, SequenceTheorems, WellFoundedInduction, TLAPS

-----------------------------------------------------------------------------
\* The host.

\* The state of the machine is a record of these five.
IsMachine(m) ==
    m \in [stack : {m.stack}, files : {m.files}, used : {m.used}, clean : {m.clean},
           status : {m.status}]

\* A file is as it was at the start, was let through, or is a record of the harness.
Explained(m, path) ==
    \/ path \in DOMAIN Fresh.files /\ m.files[path] = Fresh.files[path]
    \/ LetThrough(path) /\ "write" \in m.used
    \/ path \in Discharge /\ "exec" \in m.used
    \/ path \in Receipts

\* HostHolds, of any machine.
Holds(m, allowed) ==
    /\ m.used \subseteq allowed
    /\ \A path \in DOMAIN m.files : Explained(m, path)
    /\ m.clean \/ \E path \in Receipts \cap DOMAIN m.files : ~LetThrough(path)

\* What the host does not refuse is an effect that was allowed, and a write it does not
\* refuse goes where every policy lets it (CapabilityHost._require_effect, write_file).
LEMMA HostRefuses ==
    ASSUME NEW m, NEW w, NEW path, NEW allowed, HostFault(m, w, path, allowed) = "none"
    PROVE  /\ Needs(w) \subseteq allowed
           /\ w = "WRITE-FILE" => LetThrough(HostPath[path])
<1>1. Needs(w) \subseteq allowed
  BY DEF HostFault
<1>2. ASSUME w = "WRITE-FILE" PROVE path \in DOMAIN HostPath
  BY <1>1, <1>2 DEF HostFault
<1>3. ASSUME w = "WRITE-FILE" PROVE ~Denied(HostPath[path])
  BY <1>1, <1>2, <1>3 DEF HostFault
<1> QED
  BY <1>1, <1>2, <1>3 DEF LetThrough, Denied

\* Only the word that writes a file, the gates and the receipt change a file, and none of
\* them removes one.
LEMMA FilesAfterIs ==
    ASSUME NEW m, NEW w, NEW path, NEW f, f = FilesAfter(m, w, path)
    PROVE  /\ DOMAIN m.files \subseteq DOMAIN f
           /\ \A p \in DOMAIN f :
                  \/ p \in DOMAIN m.files /\ f[p] = m.files[p]
                  \/ w = "WRITE-FILE" /\ p = HostPath[path]
                  \/ w = "RUN-GATES" /\ p \in Discharge
                  \/ w = "RECEIPT" /\ p \in Receipts
<1>1. CASE w = "WRITE-FILE"
  <2>1. f = Put(m.files, HostPath[path], Top(m, 2).text)
    BY <1>1 DEF FilesAfter
  <2> QED
    BY <1>1, <2>1 DEF Put
<1>2. CASE w = "RUN-GATES" /\ Manifests \cap DOMAIN m.files # {}
  <2>1. f = PutAll(m.files, Discharge, Record)
    BY <1>2 DEF FilesAfter
  <2> QED
    BY <1>2, <2>1 DEF PutAll
<1>3. CASE w = "RECEIPT"
  <2>1. f = PutAll(m.files, Receipts, Record)
    BY <1>3 DEF FilesAfter
  <2> QED
    BY <1>3, <2>1 DEF PutAll
<1>4. CASE /\ w \notin {"WRITE-FILE", "RECEIPT"}
           /\ ~(w = "RUN-GATES" /\ Manifests \cap DOMAIN m.files # {})
  <2>1. f = m.files
    BY <1>4 DEF FilesAfter
  <2> QED
    BY <2>1
<1> QED
  BY <1>1, <1>2, <1>3, <1>4

\* A file that is explained is no violation unless it is a receipt: the artifacts were let
\* through, and the discharge is not looked at.
LEMMA OnlyReceipts ==
    ASSUME NEW m, \A path \in DOMAIN m.files : Explained(m, path)
    PROVE  \A p \in Violations(m) : p \in Receipts \cap DOMAIN m.files /\ ~LetThrough(p)
<1> SUFFICES ASSUME NEW p \in Violations(m)
             PROVE  p \in Receipts \cap DOMAIN m.files /\ ~LetThrough(p)
  OBVIOUS
<1>1. /\ p \in DOMAIN m.files /\ p \notin Skipped /\ Denied(p)
      /\ ~(p \in DOMAIN Before /\ m.files[p] = Before[p])
  BY DEF Violations
<1>2. ~LetThrough(p)
  BY <1>1 DEF Denied, LetThrough
<1>3. ASSUME p \in DOMAIN Fresh.files, m.files[p] = Fresh.files[p]
      PROVE  FALSE
  <2> DEFINE targets == {HostPath[key] : key \in DOMAIN Artifacts}
  <2>1. p \in targets \cup DOMAIN Before
        /\ (p \notin targets => Fresh.files[p] = Before[p])
    BY <1>3 DEF Fresh, Installed
  <2>2. p \in targets
    BY <1>1, <1>3, <2>1
  <2>3. PICK key \in DOMAIN Artifacts : p = HostPath[key]
    BY <2>2
  <2> QED
    BY <1>1, <2>3, ArtifactAssumption DEF Passes
<1>4. p \notin Discharge
  BY <1>1, RecordAssumption
<1> QED
  BY <1>1, <1>2, <1>3, <1>4 DEF Explained

LEMMA DoHolds ==
    ASSUME NEW m, NEW t, NEW allowed, IsMachine(m), Holds(m, allowed)
    PROVE  IsMachine(Do(m, t, allowed)) /\ Holds(Do(m, t, allowed), allowed)
<1> DEFINE w    == t.text
           path == IF m.stack = <<>> THEN "" ELSE Top(m, 1).text
           take == TakeFault(m, w)
           fault == HostFault(m, w, path, allowed)
           stack == Rest(m, Len(Wants[w])) \o Pushes(m, w)
           files == FilesAfter(m, w, path)
           clean == m.clean /\ (w = "RECEIPT" => Violations(m) = {})
<1>1. ASSUME NEW s PROVE IsMachine([m EXCEPT !.status = s]) /\ Holds([m EXCEPT !.status = s], allowed)
  BY DEF IsMachine, Holds, Explained
<1>2. CASE t.kind # "word"
  BY <1>2 DEF Do, IsMachine, Holds, Explained
<1>3. CASE t.kind = "word" /\ w \notin HostWords
  BY <1>1, <1>3 DEF Do
<1>4. CASE t.kind = "word" /\ w \in HostWords
  <2>1. CASE take # "none"
    BY <1>1, <1>4, <2>1 DEF Do
  <2>2. CASE take = "none" /\ fault # "none"
    <3> DEFINE n == [m EXCEPT !.status = fault, !.used = @ \cup (Needs(w) \cap allowed)]
    <3>1. Do(m, t, allowed) = n
      BY <1>4, <2>2 DEF Do
    <3> HIDE DEF fault
    <3>2. /\ IsMachine(n) /\ n.files = m.files /\ n.clean = m.clean
          /\ n.used = m.used \cup (Needs(w) \cap allowed)
      <4> HIDE DEF w
      <4> QED
        BY DEF IsMachine
    <3> QED
      BY <3>1, <3>2 DEF Holds, Explained
  <2>3. CASE take = "none" /\ fault = "none"
    <3> DEFINE n == [m EXCEPT !.stack = stack, !.files = files, !.used = @ \cup Needs(w),
                              !.clean = clean]
    <3>1. Do(m, t, allowed) = n
      BY <1>4, <2>3 DEF Do
    <3>2. Needs(w) \subseteq allowed /\ (w = "WRITE-FILE" => LetThrough(HostPath[path]))
      BY <2>3, HostRefuses
    <3>3. /\ DOMAIN m.files \subseteq DOMAIN files
          /\ \A p \in DOMAIN files :
                 \/ p \in DOMAIN m.files /\ files[p] = m.files[p]
                 \/ w = "WRITE-FILE" /\ p = HostPath[path]
                 \/ w = "RUN-GATES" /\ p \in Discharge
                 \/ w = "RECEIPT" /\ p \in Receipts
      <4>1. PICK f : f = FilesAfter(m, w, path)
        OBVIOUS
      <4> HIDE DEF path, w
      <4> QED
        BY <4>1, FilesAfterIs DEF files
    <3>4. (w = "WRITE-FILE" => "write" \in Needs(w)) /\ (w = "RUN-GATES" => "exec" \in Needs(w))
      BY DEF Needs
    <3>5. /\ (clean <=> m.clean /\ (w = "RECEIPT" => Violations(m) = {}))
          /\ \A p \in Violations(m) : p \in Receipts \cap DOMAIN m.files /\ ~LetThrough(p)
      BY OnlyReceipts DEF Holds
    <3> HIDE DEF stack, path, w, files, clean
    <3>6. IsMachine(n) /\ n.files = files /\ n.used = m.used \cup Needs(w) /\ n.clean = clean
      BY DEF IsMachine, n
    <3> HIDE DEF n
    <3>7. \A p \in DOMAIN n.files : Explained(n, p)
      BY <3>2, <3>3, <3>4, <3>6 DEF Holds, Explained
    <3>8. n.clean \/ \E p \in Receipts \cap DOMAIN n.files : ~LetThrough(p)
      BY <3>3, <3>5, <3>6 DEF Holds
    <3> QED
      BY <3>1, <3>2, <3>6, <3>7, <3>8 DEF Holds
  <2> QED
    BY <2>1, <2>2, <2>3
<1> QED
  BY <1>2, <1>3, <1>4

\* Every step but a word of the host changes at most the stack and the status.
Leaves == /\ machine'.files = machine.files /\ machine'.used = machine.used
          /\ machine'.clean = machine.clean

LEMMA StepLeaves ==
    ASSUME IsMachine(machine), [Next]_vars
    PROVE  grant' = grant /\ (Perform \/ (IsMachine(machine') /\ Leaves))
<1>1. ASSUME NEW code, Trap(code) PROVE IsMachine(machine') /\ Leaves
  BY <1>1 DEF Trap, IsMachine, Leaves
<1>2. ASSUME machine' = machine PROVE IsMachine(machine') /\ Leaves
  BY <1>2 DEF IsMachine, Leaves
<1>3. ASSUME NEW s, machine' = [machine EXCEPT !.stack = s] PROVE IsMachine(machine') /\ Leaves
  BY <1>3 DEF IsMachine, Leaves
<1>4. ASSUME NEW tokens, NEW next, NEW s, Enter(tokens, next, s)
      PROVE  IsMachine(machine') /\ Leaves
  BY <1>1, <1>3, <1>4 DEF Enter
<1>5. CASE Return
  BY <1>2, <1>5 DEF Return, Running, IsMachine, Leaves
<1>6. CASE Compile
  BY <1>1, <1>2, <1>6 DEF Compile, Running
<1>7. CASE Branch
  <2>1. grant' = grant
    BY <1>7 DEF Branch, Running
  <2>2. \/ \E code : Trap(code)
        \/ \E tokens, next, s : Enter(tokens, next, s)
        \/ machine' = [machine EXCEPT !.stack = Front(machine.stack)]
    <3> DEFINE m    == Match(Here.tokens, Here.at)
               flag == Top(machine, 1) # Num(0)
    <3>1. CASE machine.stack = <<>>
      BY <1>7, <3>1 DEF Branch
    <3>2. CASE machine.stack # <<>> /\ m.then = {}
      BY <1>7, <3>2 DEF Branch
    <3>3. CASE machine.stack # <<>> /\ m.then # {} /\ (flag \/ m.else # {})
      BY <1>7, <3>3 DEF Branch
    <3>4. CASE machine.stack # <<>> /\ m.then # {} /\ ~flag /\ m.else = {}
      BY <1>7, <3>4 DEF Branch
    <3> QED
      BY <3>1, <3>2, <3>3, <3>4
  <2> QED
    BY <1>1, <1>3, <1>4, <2>1, <2>2
<1>8. CASE Stray
  BY <1>1, <1>8 DEF Stray, Running
<1>9. CASE Call
  BY <1>4, <1>9 DEF Call, Running
<1>10. CASE Perform
  BY <1>10 DEF Perform, Running
<1>11. CASE UNCHANGED vars
  BY <1>2, <1>11 DEF vars
<1> QED
  BY <1>5, <1>6, <1>7, <1>8, <1>9, <1>10, <1>11 DEF Next

\* The invariant: the machine is a machine, and the host has held.
Hosting == IsMachine(machine) /\ Holds(machine, grant)

LEMMA HostStarts == Init => Hosting
  BY DEF Init, Fresh, IsMachine, Holds, Explained, Hosting

LEMMA HostStays == Hosting /\ [Next]_vars => Hosting'
<1> USE DEF Hosting
<1> SUFFICES ASSUME Hosting, [Next]_vars PROVE Hosting'
  OBVIOUS
<1>1. grant' = grant
  BY StepLeaves
<1>2. CASE Perform
  <2>1. machine' = Do(machine, Token, grant)
    BY <1>2 DEF Perform
  <2> QED
    BY <1>1, <2>1, DoHolds
<1>3. CASE IsMachine(machine') /\ Leaves
  BY <1>1, <1>3 DEF Holds, Explained, Leaves
<1> QED
  BY <1>2, <1>3, StepLeaves

\* Whatever a program does, in a body or in a branch too, it uses no effect it was not
\* allowed; what its words change is a file that all policies let through, or a record of
\* RUN-GATES or RECEIPT; and a receipt fails only for a receipt that was written before it
\* where a policy denies it (CapabilityHost).
THEOREM HostHoldsAlways == Spec => []HostHolds
<1>1. Hosting => HostHolds
  BY DEF Hosting, Holds, Explained, HostHolds
<1> QED
  BY <1>1, HostStarts, HostStays, PTL DEF Spec

-----------------------------------------------------------------------------
\* The tokens of a program.

LEMMA SmallestOf ==
    ASSUME NEW T \in SUBSET Nat, T # {}
    PROVE  \E m \in T : \A n \in T : m <= n
<1>1. PICK m \in T : \A n \in T : <<n, m>> \notin OpToRel(<, Nat)
  BY WFMin, NatLessThanWellFounded
<1>2. ASSUME NEW n \in T, n < m
      PROVE  FALSE
  <2>1. n \in Nat /\ m \in Nat
    OBVIOUS
  <2>2. <<n, m>> \in {ss \in Nat \X Nat : ss[1] < ss[2]}
    BY <1>2, <2>1
  <2>3. <<n, m>> \in OpToRel(<, Nat)
    BY <2>1, <2>2, Zenon DEF OpToRel
  <2> QED
    BY <1>1, <2>3, Zenon
<1> QED
  BY <1>2

\* The program without the first writes of artifacts, token by token.
LEMMA LowerIs ==
    ASSUME NEW tokens \in Seq(Tokens)
    PROVE  Lower(tokens) \in Seq(Tokens)
<1> DEFINE n == Len(tokens)
           Written(i) == /\ i \in DOMAIN tokens /\ i + 1 \in DOMAIN tokens
                         /\ tokens[i].kind = "string" /\ tokens[i].text \in DOMAIN Artifacts
                         /\ tokens[i + 1] = Word("WRITE-FILE")
           Cut(i) == Written(i) \/ Written(i - 1)
           Keeps(f, m) == f = [i \in 0 .. m |-> IF i = 0 THEN <<>>
                                                ELSE IF Cut(i) THEN f[i - 1]
                                                ELSE Append(f[i - 1], tokens[i])]
           Bad == {m \in 0 .. n : ~\E f : Keeps(f, m)}
           kept == CHOOSE f : Keeps(f, n)
<1>0. n \in Nat /\ \A i \in 1 .. n : tokens[i] \in Tokens
  BY LenProperties
<1>1. Lower(tokens) = kept[n]
  BY DEF Lower
<1> HIDE DEF Cut, n
<1>2. Bad = {}
  <2> SUFFICES ASSUME Bad # {} PROVE FALSE
    OBVIOUS
  <2>1. PICK m \in Bad : \A j \in Bad : m <= j
    <3>1. Bad \in SUBSET Nat
      BY <1>0
    <3> HIDE DEF Bad
    <3> QED
      BY <3>1, SmallestOf
  <2>2. m \in 0 .. n /\ ~\E f : Keeps(f, m)
    BY <2>1
  <2>3. m # 0
    <3> DEFINE f == [i \in 0 .. 0 |-> <<>>]
    <3>1. Keeps(f, 0)
      OBVIOUS
    <3> HIDE DEF Keeps, f
    <3> QED
      BY <2>2, <3>1
  <2>4. m - 1 \in 0 .. n /\ m - 1 \notin Bad
    <3>1. m - 1 \in 0 .. n /\ ~(m <= m - 1)
      BY <1>0, <2>2, <2>3
    <3> HIDE DEF Bad
    <3> QED
      BY <2>1, <3>1
  <2>5. PICK f : Keeps(f, m - 1)
    BY <2>4
  <2> DEFINE g == [i \in 0 .. m |-> IF i # m THEN f[i] ELSE IF Cut(m) THEN f[m - 1]
                                    ELSE Append(f[m - 1], tokens[m])]
  <2>6. ASSUME NEW i \in 0 .. m
        PROVE  g[i] = IF i = 0 THEN <<>> ELSE IF Cut(i) THEN g[i - 1]
                      ELSE Append(g[i - 1], tokens[i])
    <3>1. m \in Nat /\ m # 0
      BY <1>0, <2>2, <2>3
    <3>2. CASE i = m
      <4>1. g[m - 1] = f[m - 1]
        BY <3>1
      <4>2. g[m] = IF Cut(m) THEN f[m - 1] ELSE Append(f[m - 1], tokens[m])
        BY <3>1
      <4> HIDE DEF g
      <4> QED
        BY <3>1, <3>2, <4>1, <4>2
    <3>3. CASE i # m
      <4>1. i \in 0 .. m - 1 /\ g[i] = f[i] /\ (i # 0 => g[i - 1] = f[i - 1])
        BY <3>1, <3>3
      <4>2. f[i] = IF i = 0 THEN <<>> ELSE IF Cut(i) THEN f[i - 1] ELSE Append(f[i - 1], tokens[i])
        BY <2>5, <4>1
      <4> HIDE DEF g
      <4> QED
        BY <4>1, <4>2
    <3> QED
      BY <3>2, <3>3
  <2>7. g = [i \in 0 .. m |-> g[i]]
    OBVIOUS
  <2> HIDE DEF g
  <2>8. Keeps(g, m)
    BY <2>6, <2>7
  <2> QED
    BY <2>2, <2>8
<1>3. Keeps(kept, n)
  <2>1. n \in 0 .. n
    BY <1>0
  <2> HIDE DEF Keeps
  <2> QED
    BY <1>2, <2>1
<1> HIDE DEF kept
<1> DEFINE Off == {i \in 0 .. n : kept[i] \notin Seq(Tokens)}
<1>4. Off = {}
  <2> SUFFICES ASSUME Off # {} PROVE FALSE
    OBVIOUS
  <2>1. PICK m \in Off : \A j \in Off : m <= j
    <3>1. Off \in SUBSET Nat
      BY <1>0
    <3> HIDE DEF Off
    <3> QED
      BY <3>1, SmallestOf
  <2>2. m # 0
    BY <1>0, <1>3, <2>1
  <2>3. m \in 1 .. n /\ kept[m - 1] \in Seq(Tokens)
    BY <1>0, <2>1, <2>2
  <2>4. kept[m] = kept[m - 1] \/ kept[m] = Append(kept[m - 1], tokens[m])
    BY <1>0, <1>3, <2>2, <2>3
  <2>5. kept[m] \in Seq(Tokens)
    <3>1. tokens[m] \in Tokens
      BY <1>0, <2>3
    <3>2. Append(kept[m - 1], tokens[m]) \in Seq(Tokens)
      <4> HIDE DEF Off
      <4> QED
        BY <2>3, <3>1, AppendProperties
    <3> QED
      BY <2>3, <2>4, <3>2
  <2> QED
    BY <2>1, <2>5
<1>5. n \in 0 .. n
  BY <1>0
<1> QED
  BY <1>1, <1>4, <1>5

\* What the critic knows after each token.
WalkStates(tokens) ==
    CHOOSE f : f = [k \in 0 .. Len(tokens) |->
                       IF k = 0 THEN NewWalk ELSE Walk(f[k - 1], tokens[k])]

LEMMA WalkedIs ==
    ASSUME NEW tokens, Len(tokens) \in Nat
    PROVE  /\ Walked(tokens) = WalkStates(tokens)[Len(tokens)]
           /\ WalkStates(tokens)[0] = NewWalk
           /\ \A k \in 1 .. Len(tokens) :
                 WalkStates(tokens)[k] = Walk(WalkStates(tokens)[k - 1], tokens[k])
<1> DEFINE n == Len(tokens)
           Walks(f, m) == f = [k \in 0 .. m |->
                                 IF k = 0 THEN NewWalk ELSE Walk(f[k - 1], tokens[k])]
           Bad == {m \in 0 .. n : ~\E f : Walks(f, m)}
           w == WalkStates(tokens)
<1>0. n \in Nat
  OBVIOUS
<1>1. Walked(tokens) = w[n]
  BY DEF Walked, WalkStates
<1> HIDE DEF n
<1>2. Bad = {}
  <2> SUFFICES ASSUME Bad # {} PROVE FALSE
    OBVIOUS
  <2>1. PICK m \in Bad : \A j \in Bad : m <= j
    <3>1. Bad \in SUBSET Nat
      BY <1>0
    <3> HIDE DEF Bad
    <3> QED
      BY <3>1, SmallestOf
  <2>2. m \in 0 .. n /\ ~\E f : Walks(f, m)
    BY <2>1
  <2>3. m # 0
    <3> DEFINE f == [k \in 0 .. 0 |-> NewWalk]
    <3>1. Walks(f, 0)
      OBVIOUS
    <3> HIDE DEF Walks, f
    <3> QED
      BY <2>2, <3>1
  <2>4. m - 1 \in 0 .. n /\ m - 1 \notin Bad
    <3>1. m - 1 \in 0 .. n /\ ~(m <= m - 1)
      BY <1>0, <2>2, <2>3
    <3> HIDE DEF Bad
    <3> QED
      BY <2>1, <3>1
  <2>5. PICK f : Walks(f, m - 1)
    BY <2>4
  <2> DEFINE g == [k \in 0 .. m |-> IF k = m THEN Walk(f[m - 1], tokens[m]) ELSE f[k]]
  <2>6. ASSUME NEW k \in 0 .. m
        PROVE  g[k] = IF k = 0 THEN NewWalk ELSE Walk(g[k - 1], tokens[k])
    BY <1>0, <2>2, <2>3, <2>5
  <2>7. g = [k \in 0 .. m |-> g[k]]
    OBVIOUS
  <2> HIDE DEF g
  <2>8. Walks(g, m)
    BY <2>6, <2>7
  <2> QED
    BY <2>2, <2>8
<1>3. Walks(w, n)
  <2>1. n \in 0 .. n
    BY <1>0
  <2>2. PICK f : Walks(f, n)
    BY <1>2, <2>1
  <2> QED
    BY <2>2 DEF WalkStates, n
<1> HIDE DEF w
<1>4. w[0] = NewWalk /\ \A k \in 1 .. n : w[k] = Walk(w[k - 1], tokens[k])
  BY <1>0, <1>3
<1> QED
  BY <1>1, <1>4 DEF w, n

LEMMA TokenIs ==
    ASSUME NEW t \in Tokens
    PROVE  /\ t.kind \in {"string", "number", "word"}
           /\ \A w : t = Word(w) <=> t.kind = "word" /\ t.text = w
<1>1. t \in [kind : {"string", "number", "word"}, text : STRING, number : Int]
  BY DEF Tokens
<1>2. ASSUME t.kind = "word" PROVE t = Word(t.text)
  <2>1. t.number = 0
    BY <1>2 DEF Tokens
  <2> QED
    BY <1>1, <1>2, <2>1 DEF Word
<1>3. ASSUME NEW w, t = Word(w) PROVE t.kind = "word" /\ t.text = w
  BY <1>3 DEF Word
<1> QED
  BY <1>1, <1>2, <1>3

-----------------------------------------------------------------------------
\* The critic.

IsWalk(c) ==
    c \in [mode : {c.mode}, name : {c.name}, depth : {c.depth}, effects : {c.effects},
           words : {c.words}, errors : {c.errors}, prev : {c.prev}]

\* What a token leaves alone when it is not judged.
Unjudged(c, d) == d.depth = c.depth /\ d.effects = c.effects

\* What is known after t, in a definition.
SkipsTo(c, t, d) ==
    /\ IsWalk(d) /\ Unjudged(c, d) /\ d.prev = t
    /\ c.mode = "name" => d.mode = "body" /\ d.name = t.text /\ d.words = c.words /\ d.errors = c.errors
    /\ c.mode = "body" /\ t = Word(";") =>
          d.mode = "plain" /\ d.words = c.words \cup {c.name} /\ d.errors = c.errors
    /\ c.mode = "body" /\ t = Word(":") =>
          d.mode = "plain" /\ d.words = c.words /\ d.errors = c.errors \cup {"nested"}
    /\ c.mode = "body" /\ t \notin {Word(";"), Word(":")} =>
          d.mode = "body" /\ d.name = c.name /\ d.words = c.words /\ d.errors = c.errors

LEMMA Skips ==
    ASSUME NEW c, IsWalk(c), NEW t \in Tokens,
           c.mode = "body" \/ (c.mode = "name" /\ t.kind = "word")
    PROVE  SkipsTo(c, t, Walk(c, t))
<1>0. PICK d : d = Walk(c, t)
  OBVIOUS
<1>a. SUFFICES SkipsTo(c, t, d)
  BY <1>0
<1> USE DEF SkipsTo
<1> DEFINE e == CASE c.mode = "body" /\ t = Word(";") ->
                       [c EXCEPT !.mode = "plain", !.words = @ \cup {c.name}]
                  [] c.mode = "body" /\ t = Word(":") ->
                       [c EXCEPT !.mode = "plain", !.errors = @ \cup {"nested"}]
                  [] c.mode = "body" /\ t \notin {Word(";"), Word(":")} -> c
                  [] c.mode = "name" /\ t.kind = "word" -> [c EXCEPT !.mode = "body", !.name = t.text]
                  [] c.mode = "name" /\ t.kind # "word" ->
                       Judge([c EXCEPT !.mode = "plain", !.errors = @ \cup {"name"}], t)
                  [] c.mode = "plain" -> Judge(c, t)
<1>1. d = [e EXCEPT !.prev = t]
  BY <1>0 DEF Walk
<1>2. Word(";") # Word(":")
  BY DEF Word
<1> HIDE DEF e
<1>3. CASE c.mode = "body" /\ t = Word(";")
  <2>1. e = [c EXCEPT !.mode = "plain", !.words = @ \cup {c.name}]
    BY <1>2, <1>3 DEF e
  <2> QED
    BY <1>1, <1>2, <1>3, <2>1 DEF IsWalk, Unjudged
<1>4. CASE c.mode = "body" /\ t = Word(":")
  <2>1. e = [c EXCEPT !.mode = "plain", !.errors = @ \cup {"nested"}]
    BY <1>2, <1>4 DEF e
  <2> QED
    BY <1>1, <1>2, <1>4, <2>1 DEF IsWalk, Unjudged
<1>5. CASE c.mode = "body" /\ t \notin {Word(";"), Word(":")}
  <2>1. e = c
    BY <1>5 DEF e
  <2> QED
    BY <1>1, <1>5, <2>1 DEF IsWalk, Unjudged
<1>6. CASE c.mode = "name"
  <2>1. e = [c EXCEPT !.mode = "body", !.name = t.text]
    BY <1>6 DEF e
  <2> QED
    BY <1>1, <1>6, <2>1 DEF IsWalk, Unjudged
<1> QED
  BY <1>3, <1>4, <1>5, <1>6

\* The contract of a word that the critic knows.
ContractOf(c, w) == IF w \in c.words THEN Blank ELSE HostDictionary[w]

Known(c, t) == t.text \in c.words \cup DOMAIN HostDictionary

\* What is known after t, outside a definition.
JudgesTo(c, t, d) ==
    /\ IsWalk(d) /\ d.name = c.name /\ d.words = c.words /\ d.prev = c.prev
    /\ d.mode = IF t = Word(":") THEN "name" ELSE c.mode
    /\ t.kind # "word" => d.depth = c.depth + 1 /\ d.effects = c.effects /\ d.errors = c.errors
    /\ t = Word(":") => Unjudged(c, d) /\ d.errors = c.errors
    /\ t.kind = "word" /\ t # Word(":") /\ ~Known(c, t) =>
          Unjudged(c, d) /\ d.errors = c.errors \cup {"unknown"}
    /\ t.kind = "word" /\ t # Word(":") /\ Known(c, t) =>
          LET k == ContractOf(c, t.text)
              short == c.depth < k.inputs
          IN  /\ d.depth = (IF short THEN 0 ELSE c.depth - k.inputs) + k.outputs
              /\ d.effects = c.effects \cup k.effects
              /\ d.errors = (c.errors \cup (IF short THEN {"underflow"} ELSE {}))
                               \cup LiteralErrors(t.text, c.prev)

LEMMA Judges ==
    ASSUME NEW c, IsWalk(c), NEW t \in Tokens
    PROVE  JudgesTo(c, t, Judge(c, t))
<1>a. PICK d : d = Judge(c, t)
  OBVIOUS
<1>b. SUFFICES JudgesTo(c, t, d)
  BY <1>a
<1> USE DEF JudgesTo
<1>0. t = Word(":") <=> t.kind = "word" /\ t.text = ":"
  BY TokenIs
<1>1. CASE t.kind # "word"
  <2>1. d = [c EXCEPT !.depth = @ + 1]
    BY <1>a, <1>0, <1>1 DEF Judge
  <2> QED
    BY <1>0, <1>1, <2>1 DEF IsWalk
<1>2. CASE t = Word(":")
  <2>1. d = [c EXCEPT !.mode = "name"]
    BY <1>a, <1>0, <1>2 DEF Judge
  <2> QED
    BY <1>0, <1>2, <2>1 DEF IsWalk, Unjudged
<1>3. CASE t.kind = "word" /\ t # Word(":") /\ ~Known(c, t)
  <2>1. d = [c EXCEPT !.errors = @ \cup {"unknown"}]
    BY <1>a, <1>0, <1>3 DEF Judge, Known
  <2> QED
    BY <1>3, <2>1 DEF IsWalk, Unjudged
<1>4. CASE t.kind = "word" /\ t # Word(":") /\ Known(c, t)
  <2> DEFINE k == IF t.text \in c.words THEN Blank ELSE HostDictionary[t.text]
             short == c.depth < k.inputs
             depth == (IF short THEN 0 ELSE c.depth - k.inputs) + k.outputs
             more == IF short THEN {"underflow"} ELSE {}
             literal == LiteralErrors(t.text, c.prev)
  <2>1. d = [c EXCEPT !.depth = depth, !.effects = @ \cup k.effects,
                      !.errors = (@ \cup more) \cup literal]
    BY <1>a, <1>0, <1>4 DEF Judge, Known
  <2>2. k = ContractOf(c, t.text)
    BY DEF ContractOf
  <2> HIDE DEF k, depth, more, literal
  <2>3. /\ IsWalk(d) /\ d.name = c.name /\ d.words = c.words /\ d.mode = c.mode /\ d.prev = c.prev
        /\ d.depth = depth /\ d.effects = c.effects \cup k.effects
        /\ d.errors = (c.errors \cup more) \cup literal
    BY <2>1 DEF IsWalk
  <2> QED
    BY <1>4, <2>2, <2>3 DEF depth, more, literal
<1> QED
  BY <1>1, <1>2, <1>3, <1>4

\* A token outside a definition.
LEMMA Plainly ==
    ASSUME NEW c, IsWalk(c), c.mode = "plain", NEW t \in Tokens, NEW d, d = Walk(c, t)
    PROVE  LET j == Judge(c, t)
           IN  /\ IsWalk(d) /\ d.mode = j.mode /\ d.name = j.name /\ d.depth = j.depth
               /\ d.effects = j.effects /\ d.words = j.words /\ d.errors = j.errors /\ d.prev = t
<1> DEFINE j == Judge(c, t)
<1>1. IsWalk(j)
  BY Judges DEF JudgesTo
<1> HIDE DEF j
<1>2. d = [j EXCEPT !.prev = t]
  BY DEF Walk, j
<1>3. /\ IsWalk(d) /\ d.mode = j.mode /\ d.name = j.name /\ d.depth = j.depth
      /\ d.effects = j.effects /\ d.words = j.words /\ d.errors = j.errors /\ d.prev = t
  BY <1>1, <1>2 DEF IsWalk
<1> QED
  BY <1>3 DEF j

\* A definition without a name.
LEMMA Nameless ==
    ASSUME NEW c, IsWalk(c), c.mode = "name", NEW t \in Tokens, t.kind # "word",
           NEW d, d = Walk(c, t)
    PROVE  /\ IsWalk(d) /\ d.mode = "plain" /\ d.words = c.words /\ d.effects = c.effects
           /\ d.errors = c.errors \cup {"name"} /\ d.prev = t /\ d.depth = c.depth + 1
<1> DEFINE e == [c EXCEPT !.mode = "plain", !.errors = @ \cup {"name"}]
           j == Judge(e, t)
<1>1. /\ IsWalk(e) /\ e.mode = "plain" /\ e.words = c.words /\ e.effects = c.effects
      /\ e.errors = c.errors \cup {"name"} /\ e.depth = c.depth
  BY DEF IsWalk
<1> HIDE DEF e
<1>2. t # Word(":")
  BY TokenIs
<1>3. /\ IsWalk(j) /\ j.mode = "plain" /\ j.words = c.words /\ j.effects = c.effects
      /\ j.errors = c.errors \cup {"name"} /\ j.depth = c.depth + 1
  BY <1>1, <1>2, Judges DEF JudgesTo
<1> HIDE DEF j
<1>4. d = [j EXCEPT !.prev = t]
  BY DEF Walk, j, e
<1> QED
  BY <1>3, <1>4 DEF IsWalk

LEMMA WordIs ==
    ASSUME NEW w \in HostWords
    PROVE  /\ Len(Wants[w]) \in 0 .. 2 /\ Gives[w] \in 0 .. 3
           /\ DOMAIN Wants[w] = 1 .. Len(Wants[w])
           /\ \A i \in 1 .. Len(Wants[w]) : Wants[w][i] \in {"string", "number", "any"}
<1>1. CASE w \in {"READ-FILE", "LIST-DIR", "SEARCH", "USE-ARTIFACT"}
  <2>1. Wants[w] = <<"string">>
    BY <1>1 DEF Wants, HostWords
  <2> QED
    BY <1>1, <2>1 DEF Gives, HostWords
<1>2. CASE w = "WRITE-FILE"
  <2>1. Wants[w] = <<"string", "string">>
    BY <1>2 DEF Wants, HostWords
  <2> QED
    BY <1>2, <2>1 DEF Gives, HostWords
<1>3. CASE w \in {"+", "-", "*"}
  <2>1. Wants[w] = <<"number", "number">>
    BY <1>3 DEF Wants, HostWords
  <2> QED
    BY <1>3, <2>1 DEF Gives, HostWords
<1>4. CASE w \in {"DUP", "DROP"}
  <2>1. Wants[w] = <<"any">>
    BY <1>4 DEF Wants, HostWords
  <2> QED
    BY <1>4, <2>1 DEF Gives, HostWords
<1>5. CASE w \in {"SWAP", "OVER"}
  <2>1. Wants[w] = <<"any", "any">>
    BY <1>5 DEF Wants, HostWords
  <2> QED
    BY <1>5, <2>1 DEF Gives, HostWords
<1>6. CASE w \in {"RUN-TESTS", "RUN-GATES", "RECEIPT"}
  <2>1. Wants[w] = <<>>
    BY <1>6 DEF Wants, HostWords
  <2> QED
    BY <1>6, <2>1 DEF Gives, HostWords
<1> QED
  BY <1>1, <1>2, <1>3, <1>4, <1>5, <1>6 DEF HostWords

LEMMA ContractIs ==
    ASSUME NEW c, NEW w \in c.words \cup DOMAIN HostDictionary
    PROVE  ContractOf(c, w).inputs \in Nat /\ ContractOf(c, w).outputs \in Nat
<1>1. CASE w \in c.words
  BY <1>1 DEF ContractOf, Blank
<1>2. CASE w \notin c.words /\ w \in HostWords
  <2>1. /\ ContractOf(c, w).inputs = Len(Wants[w]) /\ ContractOf(c, w).outputs = Gives[w]
    BY <1>2 DEF ContractOf, HostDictionary
  <2> QED
    BY <1>2, <2>1, WordIs
<1>3. CASE w \notin c.words /\ w \notin HostWords
  <2>1. /\ ContractOf(c, w).inputs = (IF w = "IF" THEN 1 ELSE 0) /\ ContractOf(c, w).outputs = 0
    BY <1>3 DEF ContractOf, HostDictionary
  <2> QED
    BY <2>1
<1> QED
  BY <1>1, <1>2, <1>3

\* A word that was defined has its name and the end of its body behind it.
Defined(T, w, k) ==
    \E j \in 1 .. k, l \in 1 .. k : j < l /\ T[j] = Word(w) /\ T[l] = Word(";")

WellAt(T, k, c) ==
    /\ IsWalk(c) /\ c.mode \in {"plain", "name", "body"} /\ c.depth \in Nat
    /\ \A w \in c.words : Defined(T, w, k)
    /\ c.mode = "body" => \E j \in 1 .. k : T[j] = Word(c.name)
    /\ k # 0 => c.prev = T[k]

Grows(c, d) ==
    c.errors \subseteq d.errors /\ c.effects \subseteq d.effects /\ c.words \subseteq d.words

LEMMA WalksWell ==
    ASSUME NEW T \in Seq(Tokens), NEW k \in 1 .. Len(T), NEW c, WellAt(T, k - 1, c),
           NEW d, d = Walk(c, T[k])
    PROVE  WellAt(T, k, d) /\ Grows(c, d)
<1> DEFINE t == T[k]
<1>1. t \in Tokens /\ k \in Nat /\ k - 1 \in Nat /\ k # 0 /\ d = Walk(c, t) /\ T[k] = t
  BY LenProperties
<1> HIDE DEF t
<1>2. IsWalk(c) /\ c.mode \in {"plain", "name", "body"} /\ c.depth \in Nat
  BY DEF WellAt
<1>3. ASSUME NEW w, Defined(T, w, k - 1) PROVE Defined(T, w, k)
  <2>1. PICK j \in 1 .. k - 1, l \in 1 .. k - 1 : j < l /\ T[j] = Word(w) /\ T[l] = Word(";")
    BY <1>3 DEF Defined
  <2>2. j \in 1 .. k /\ l \in 1 .. k
    BY <1>1
  <2> QED
    BY <2>1, <2>2 DEF Defined
<1>4. CASE c.mode = "plain"
  <2> DEFINE j == Judge(c, t)
  <2>1. /\ IsWalk(d) /\ d.mode = j.mode /\ d.name = j.name /\ d.depth = j.depth
        /\ d.effects = j.effects /\ d.words = j.words /\ d.errors = j.errors /\ d.prev = t
    BY <1>1, <1>2, <1>4, Plainly
  <2>0. JudgesTo(c, t, j)
    BY <1>1, <1>2, Judges
  <2> HIDE DEF j
  <2>2. j.words = c.words /\ j.mode \in {"plain", "name"}
    BY <1>4, <2>0 DEF JudgesTo
  <2>3. j.depth \in Nat /\ c.errors \subseteq j.errors /\ c.effects \subseteq j.effects
    <3>1. CASE t.kind # "word"
      BY <1>2, <2>0, <3>1 DEF JudgesTo
    <3>2. CASE t = Word(":")
      BY <1>2, <2>0, <3>2 DEF JudgesTo, Unjudged
    <3>3. CASE t.kind = "word" /\ t # Word(":") /\ ~Known(c, t)
      BY <1>2, <2>0, <3>3 DEF JudgesTo, Unjudged
    <3>4. CASE t.kind = "word" /\ t # Word(":") /\ Known(c, t)
      <4> DEFINE q == ContractOf(c, t.text)
                 short == c.depth < q.inputs
      <4>1. /\ j.depth = (IF short THEN 0 ELSE c.depth - q.inputs) + q.outputs
            /\ j.effects = c.effects \cup q.effects
            /\ j.errors = (c.errors \cup (IF short THEN {"underflow"} ELSE {}))
                                      \cup LiteralErrors(t.text, c.prev)
        BY <2>0, <3>4 DEF JudgesTo
      <4>2. q.inputs \in Nat /\ q.outputs \in Nat
        BY <3>4, ContractIs DEF Known
      <4> HIDE DEF q
      <4>3. j.depth \in Nat
        BY <1>2, <4>1, <4>2
      <4> QED
        BY <4>1, <4>3
    <3> QED
      BY <3>1, <3>2, <3>3, <3>4
  <2> QED
    BY <1>1, <1>3, <2>1, <2>2, <2>3 DEF WellAt, Grows
<1>5. CASE c.mode = "name" /\ t.kind # "word"
  <2>1. /\ IsWalk(d) /\ d.mode = "plain" /\ d.words = c.words /\ d.effects = c.effects
        /\ d.errors = c.errors \cup {"name"} /\ d.prev = t /\ d.depth = c.depth + 1
    BY <1>1, <1>2, <1>5, Nameless
  <2> QED
    BY <1>1, <1>2, <1>3, <2>1 DEF WellAt, Grows
<1>6. CASE c.mode = "name" /\ t.kind = "word"
  <2>0. SkipsTo(c, t, d)
    BY <1>1, <1>2, <1>6, Skips
  <2>1. /\ IsWalk(d) /\ Unjudged(c, d) /\ d.prev = t
        /\ d.mode = "body" /\ d.name = t.text /\ d.words = c.words /\ d.errors = c.errors
    BY <1>6, <2>0 DEF SkipsTo
  <2>2. T[k] = Word(d.name) /\ k \in 1 .. k
    BY <1>1, <1>6, <2>1, TokenIs
  <2> QED
    BY <1>1, <1>2, <1>3, <2>1, <2>2 DEF WellAt, Grows, Unjudged
<1>7. CASE c.mode = "body"
  <2>0. SkipsTo(c, t, d)
    BY <1>1, <1>2, <1>7, Skips
  <2>1. IsWalk(d) /\ Unjudged(c, d) /\ d.prev = t
    BY <2>0 DEF SkipsTo
  <2>2. PICK j \in 1 .. k - 1 : T[j] = Word(c.name)
    BY <1>7 DEF WellAt
  <2>3. CASE t = Word(";")
    <3>1. d.mode = "plain" /\ d.words = c.words \cup {c.name} /\ d.errors = c.errors
      BY <1>7, <2>0, <2>3 DEF SkipsTo
    <3>2. Defined(T, c.name, k)
      <4>1. j \in 1 .. k /\ k \in 1 .. k /\ j < k
        BY <1>1
      <4> QED
        BY <1>1, <2>2, <2>3, <4>1 DEF Defined
    <3> QED
      BY <1>1, <1>2, <1>3, <2>1, <3>1, <3>2 DEF WellAt, Grows, Unjudged
  <2>4. CASE t = Word(":")
    <3>1. d.mode = "plain" /\ d.words = c.words /\ d.errors = c.errors \cup {"nested"}
      BY <1>7, <2>0, <2>4 DEF SkipsTo
    <3> QED
      BY <1>1, <1>2, <1>3, <2>1, <3>1 DEF WellAt, Grows, Unjudged
  <2>5. CASE t \notin {Word(";"), Word(":")}
    <3>1. d.mode = "body" /\ d.name = c.name /\ d.words = c.words /\ d.errors = c.errors
      BY <1>7, <2>0, <2>5 DEF SkipsTo
    <3>2. j \in 1 .. k
      BY <1>1
    <3> QED
      BY <1>1, <1>2, <1>3, <2>1, <2>2, <3>1, <3>2 DEF WellAt, Grows, Unjudged
  <2> QED
    BY <2>3, <2>4, <2>5
<1> QED
  BY <1>2, <1>4, <1>5, <1>6, <1>7

\* The critic's way through a program.
LEMMA WellAll ==
    ASSUME NEW T \in Seq(Tokens), NEW k \in 0 .. Len(T)
    PROVE  WellAt(T, k, WalkStates(T)[k])
<1> DEFINE W == WalkStates(T)
           Bad == {i \in 0 .. Len(T) : ~WellAt(T, i, W[i])}
<1>0. Len(T) \in Nat
  BY LenProperties
<1>1. W[0] = NewWalk /\ \A i \in 1 .. Len(T) : W[i] = Walk(W[i - 1], T[i])
  BY <1>0, WalkedIs
<1> HIDE DEF W
<1>2. Bad = {}
  <2> SUFFICES ASSUME Bad # {} PROVE FALSE
    OBVIOUS
  <2>1. PICK m \in Bad : \A j \in Bad : m <= j
    <3>1. Bad \in SUBSET Nat
      BY <1>0
    <3> HIDE DEF Bad
    <3> QED
      BY <3>1, SmallestOf
  <2>2. m # 0
    <3>1. WellAt(T, 0, NewWalk)
      BY DEF WellAt, NewWalk, IsWalk
    <3> QED
      BY <1>1, <2>1, <3>1
  <2>3. m \in 1 .. Len(T) /\ m - 1 \in 0 .. Len(T) /\ m - 1 \notin Bad
    BY <1>0, <2>1, <2>2
  <2>4. WellAt(T, m - 1, W[m - 1])
    BY <2>3
  <2>5. WellAt(T, m, W[m])
    BY <1>1, <2>3, <2>4, WalksWell
  <2> QED
    BY <2>1, <2>5
<1> QED
  BY <1>2 DEF W

LEMMA WalkGrows ==
    ASSUME NEW T \in Seq(Tokens), NEW i \in 0 .. Len(T), NEW k \in i .. Len(T)
    PROVE  Grows(WalkStates(T)[i], WalkStates(T)[k])
<1> DEFINE W == WalkStates(T)
           Bad == {j \in i .. Len(T) : ~Grows(W[i], W[j])}
<1>0. Len(T) \in Nat /\ i \in Nat
  BY LenProperties
<1>1. \A j \in 1 .. Len(T) : W[j] = Walk(W[j - 1], T[j])
  BY <1>0, WalkedIs
<1>2. \A j \in 0 .. Len(T) : WellAt(T, j, W[j])
  BY WellAll
<1> HIDE DEF W
<1>3. Bad = {}
  <2> SUFFICES ASSUME Bad # {} PROVE FALSE
    OBVIOUS
  <2>1. PICK m \in Bad : \A j \in Bad : m <= j
    <3>1. Bad \in SUBSET Nat
      BY <1>0
    <3> HIDE DEF Bad
    <3> QED
      BY <3>1, SmallestOf
  <2>2. m # i
    BY <2>1 DEF Grows
  <2>3. m \in 1 .. Len(T) /\ m - 1 \in i .. Len(T) /\ m - 1 \in 0 .. Len(T) /\ m - 1 \notin Bad
    BY <1>0, <2>1, <2>2
  <2>4. Grows(W[i], W[m - 1])
    BY <2>3
  <2>5. Grows(W[m - 1], W[m])
    BY <1>1, <1>2, <2>3, WalksWell
  <2> QED
    BY <2>1, <2>4, <2>5 DEF Grows
<1> QED
  BY <1>3 DEF W

-----------------------------------------------------------------------------
\* The stack.

IsSeq(s) == \E V : s \in Seq(V)

LEMMA Appended ==
    ASSUME NEW s, IsSeq(s), NEW v
    PROVE  /\ IsSeq(Append(s, v)) /\ Len(s) \in Nat /\ Len(Append(s, v)) = Len(s) + 1
           /\ Append(s, v)[Len(s) + 1] = v
<1>1. PICK V : s \in Seq(V)
  BY DEF IsSeq
<1> DEFINE U == V \cup {v}
<1>2. V \subseteq U /\ v \in U
  OBVIOUS
<1> HIDE DEF U
<1>3. s \in Seq(U)
  BY <1>1, <1>2, SeqMonotonic
<1>4. Append(s, v) \in Seq(U) /\ Len(Append(s, v)) = Len(s) + 1 /\ Append(s, v)[Len(s) + 1] = v
  BY <1>2, <1>3, AppendProperties
<1> QED
  BY <1>3, <1>4, LenProperties DEF IsSeq

LEMMA Joined ==
    ASSUME NEW s, IsSeq(s), NEW r, IsSeq(r)
    PROVE  IsSeq(s \o r) /\ Len(s \o r) = Len(s) + Len(r) /\ Len(s) \in Nat /\ Len(r) \in Nat
<1>1. PICK V, R : s \in Seq(V) /\ r \in Seq(R)
  BY DEF IsSeq
<1> DEFINE U == V \cup R
<1>2. V \subseteq U /\ R \subseteq U
  OBVIOUS
<1> HIDE DEF U
<1>3. s \in Seq(U) /\ r \in Seq(U)
  BY <1>1, <1>2, SeqMonotonic
<1>4. s \o r \in Seq(U) /\ Len(s \o r) = Len(s) + Len(r)
  BY <1>3, ConcatProperties
<1> QED
  BY <1>3, <1>4, LenProperties DEF IsSeq

LEMMA Dropped ==
    ASSUME NEW s, IsSeq(s), NEW n \in Nat, n <= Len(s)
    PROVE  /\ IsSeq(SubSeq(s, 1, Len(s) - n)) /\ Len(SubSeq(s, 1, Len(s) - n)) = Len(s) - n
<1>1. PICK V : s \in Seq(V)
  BY DEF IsSeq
<1>2. Len(s) \in Nat
  BY <1>1, LenProperties
<1>3. 1 \in 1 .. Len(s) + 1 /\ Len(s) - n \in 0 .. Len(s)
  BY <1>2
<1>4. SubSeq(s, 1, Len(s) - n) \in Seq(V) /\ Len(SubSeq(s, 1, Len(s) - n)) = Len(s) - n
  BY <1>1, <1>2, <1>3, SubSeqProperties
<1> QED
  BY <1>4 DEF IsSeq

LEMMA Pushed ==
    ASSUME NEW m, NEW w \in HostWords
    PROVE  IsSeq(Pushes(m, w)) /\ Len(Pushes(m, w)) = Gives[w]
<1>1. ASSUME NEW x PROVE IsSeq(<<x>>) /\ Len(<<x>>) = 1
  <2>1. <<x>> \in Seq({x})
    OBVIOUS
  <2> QED
    BY <2>1 DEF IsSeq
<1>2. ASSUME NEW x, NEW y PROVE IsSeq(<<x, y>>) /\ Len(<<x, y>>) = 2
  <2>1. <<x, y>> \in Seq({x, y})
    OBVIOUS
  <2> QED
    BY <2>1 DEF IsSeq
<1>3. ASSUME NEW x, NEW y PROVE IsSeq(<<x, y, x>>) /\ Len(<<x, y, x>>) = 3
  <2>1. <<x, y, x>> \in Seq({x, y})
    OBVIOUS
  <2> QED
    BY <2>1 DEF IsSeq
<1>4. CASE w = "DUP"
  <2>1. Pushes(m, w) = <<Top(m, 1), Top(m, 1)>> /\ Gives[w] = 2
    BY <1>4 DEF Pushes, Gives
  <2> QED
    BY <1>2, <2>1
<1>5. CASE w = "DROP"
  <2>1. Pushes(m, w) = <<>> /\ Gives[w] = 0
    BY <1>5 DEF Pushes, Gives
  <2>2. <<>> \in Seq({})
    OBVIOUS
  <2> QED
    BY <2>1, <2>2 DEF IsSeq
<1>6. CASE w = "SWAP"
  <2>1. Pushes(m, w) = <<Top(m, 1), Top(m, 2)>> /\ Gives[w] = 2
    BY <1>6 DEF Pushes, Gives
  <2> QED
    BY <1>2, <2>1
<1>7. CASE w = "OVER"
  <2>1. Pushes(m, w) = <<Top(m, 2), Top(m, 1), Top(m, 2)>> /\ Gives[w] = 3
    BY <1>7 DEF Pushes, Gives
  <2> QED
    BY <1>3, <2>1
<1>8. CASE w \notin {"DUP", "DROP", "SWAP", "OVER"}
  <2>1. Gives[w] = 1
    BY <1>8 DEF Gives
  <2>2. \E x : Pushes(m, w) = <<x>>
    <3>1. CASE w = "+"
      BY <3>1 DEF Pushes
    <3>2. CASE w = "-"
      BY <3>2 DEF Pushes
    <3>3. CASE w = "*"
      BY <3>3 DEF Pushes
    <3>4. CASE w = "READ-FILE"
      BY <3>4 DEF Pushes
    <3>5. CASE w = "USE-ARTIFACT"
      BY <3>5 DEF Pushes
    <3>6. CASE w \notin {"+", "-", "*", "READ-FILE", "USE-ARTIFACT"}
      <4>1. Pushes(m, w) = <<Receipt>>
        BY <1>8, <3>6 DEF Pushes
      <4> QED
        BY <4>1
    <3> QED
      BY <3>1, <3>2, <3>3, <3>4, <3>5, <3>6
  <2> QED
    BY <1>1, <2>1, <2>2
<1> QED
  BY <1>4, <1>5, <1>6, <1>7, <1>8

LEMMA TakeIs ==
    ASSUME NEW m, IsSeq(m.stack), NEW w \in HostWords
    PROVE  /\ TakeFault(m, w) \in {"none", "underflow", "type"}
           /\ TakeFault(m, w) = "underflow" => Len(m.stack) < Len(Wants[w])
           /\ TakeFault(m, w) = "none" => Len(Wants[w]) <= Len(m.stack)
<1> DEFINE wants  == Wants[w]
           bad(i) == Len(m.stack) < i \/ (wants[i] # "any" /\ Top(m, i).kind # wants[i])
           first  == {i \in DOMAIN wants : bad(i) /\ \A j \in 1 .. (i - 1) : ~bad(j)}
           l == Len(wants)
           n == Len(m.stack)
<1>1. l \in 0 .. 2 /\ DOMAIN wants = 1 .. l /\ n \in Nat
  BY WordIs, LenProperties DEF IsSeq
<1>2. TakeFault(m, w) = CASE first = {}                            -> "none"
                          [] \E i \in first : Len(m.stack) < i     -> "underflow"
                          [] \E i \in first : Len(m.stack) >= i    -> "type"
  BY DEF TakeFault
<1>3. \A i \in first : i \in 1 .. l /\ \A j \in first : i = j
  <2> SUFFICES ASSUME NEW i \in first, NEW j \in first PROVE i \in 1 .. l /\ i = j
    OBVIOUS
  <2>1. i \in 1 .. l /\ j \in 1 .. l /\ ~(i < j) /\ ~(j < i)
    <3>1. i \in 1 .. l /\ j \in 1 .. l
      BY <1>1
    <3>2. ASSUME i < j PROVE FALSE
      <4>1. i \in 1 .. j - 1
        BY <1>1, <3>1, <3>2
      <4> HIDE DEF bad
      <4> QED
        BY <4>1
    <3>3. ASSUME j < i PROVE FALSE
      <4>1. j \in 1 .. i - 1
        BY <1>1, <3>1, <3>3
      <4> HIDE DEF bad
      <4> QED
        BY <4>1
    <3> QED
      BY <3>1, <3>2, <3>3
  <2> QED
    BY <1>1, <2>1
<1>4. first = {} => l <= n
  <2> SUFFICES ASSUME first = {}, n < l PROVE FALSE
    BY <1>1
  <2>1. 1 \in 1 .. l
    BY <1>1
  <2>2. ~bad(1)
    <3>1. \A j \in 1 .. (1 - 1) : ~bad(j)
      OBVIOUS
    <3> HIDE DEF bad
    <3> QED
      BY <1>1, <2>1, <3>1
  <2>3. n >= 1
    BY <1>1, <2>2
  <2>4. l = 2 /\ n = 1
    <3>1. l \in 0 .. 2 /\ n \in Nat /\ n < l
      BY <1>1
    <3> HIDE DEF l, n
    <3> QED
      BY <2>3, <3>1
  <2>5. bad(2) /\ 2 \in 1 .. l /\ \A j \in 1 .. (2 - 1) : j = 1
    BY <2>4
  <2> HIDE DEF bad
  <2> QED
    BY <1>1, <2>2, <2>5
<1> HIDE DEF first, l
<1>5. CASE first = {}
  BY <1>2, <1>4, <1>5 DEF l
<1>6. CASE first # {}
  <2>1. PICK i \in first : i \in 1 .. l /\ \A j \in first : i = j
    BY <1>3, <1>6
  <2>2. CASE n < i
    <3>1. TakeFault(m, w) = "underflow"
      BY <1>1, <1>2, <1>6, <2>1, <2>2
    <3> QED
      BY <1>1, <2>1, <2>2, <3>1 DEF l
  <2>3. CASE n >= i
    <3>1. TakeFault(m, w) = "type"
      BY <1>1, <1>2, <1>6, <2>1, <2>3
    <3> QED
      BY <3>1
  <2> QED
    BY <1>1, <2>1, <2>2, <2>3
<1> QED
  BY <1>5, <1>6

PathOf(m) == IF m.stack = <<>> THEN "" ELSE Top(m, 1).text

\* How a word of the host ends.
Underflows(m, w, d) == d.status = "underflow" /\ Len(m.stack) < Len(Wants[w])
Refuses(m, w, a, d) ==
    /\ Len(Wants[w]) <= Len(m.stack) /\ HostFault(m, w, PathOf(m), a) # "none"
    /\ d.status = HostFault(m, w, PathOf(m), a)
Succeeds(m, w, a, d) ==
    /\ Len(Wants[w]) <= Len(m.stack) /\ HostFault(m, w, PathOf(m), a) = "none"
    /\ d.status = m.status /\ d.used = m.used \cup Needs(w)
    /\ IsSeq(d.stack) /\ Len(d.stack) = Len(m.stack) - Len(Wants[w]) + Gives[w]

LEMMA DoIs ==
    ASSUME NEW m, IsMachine(m), IsSeq(m.stack), NEW t, t.kind = "word", t.text \in HostWords,
           NEW allowed, NEW d, d = Do(m, t, allowed)
    PROVE  \/ Underflows(m, t.text, d)
           \/ d.status = "type"
           \/ Refuses(m, t.text, allowed, d)
           \/ Succeeds(m, t.text, allowed, d)
<1> DEFINE w    == t.text
           path == PathOf(m)
           take == TakeFault(m, w)
           fault == HostFault(m, w, path, allowed)
           stack == Rest(m, Len(Wants[w])) \o Pushes(m, w)
           files == FilesAfter(m, w, path)
           clean == m.clean /\ (w = "RECEIPT" => Violations(m) = {})
<1>0. w \in HostWords /\ Len(Wants[w]) \in Nat /\ Gives[w] \in Nat /\ Len(m.stack) \in Nat
  BY WordIs, LenProperties DEF IsSeq
<1>1. CASE take # "none"
  <2>1. d = [m EXCEPT !.status = take]
    BY <1>1 DEF Do, PathOf
  <2>2. d.status = take
    BY <2>1 DEF IsMachine
  <2> QED
    BY <1>0, <1>1, <2>2, TakeIs DEF Underflows
<1>2. CASE take = "none" /\ fault # "none"
  <2>1. d = [m EXCEPT !.status = fault, !.used = @ \cup (Needs(w) \cap allowed)]
    BY <1>2 DEF Do, PathOf
  <2> HIDE DEF fault
  <2>2. d.status = fault
    BY <2>1 DEF IsMachine
  <2> QED
    BY <1>0, <1>2, <2>2, TakeIs DEF Refuses, fault
<1>3. CASE take = "none" /\ fault = "none"
  <2>1. d = [m EXCEPT !.stack = stack, !.files = files, !.used = @ \cup Needs(w),
                      !.clean = clean]
    BY <1>3 DEF Do, PathOf
  <2>2. Len(Wants[w]) <= Len(m.stack)
    BY <1>0, <1>3, TakeIs
  <2>3. IsSeq(stack) /\ Len(stack) = Len(m.stack) - Len(Wants[w]) + Gives[w]
    <3>1. /\ IsSeq(Rest(m, Len(Wants[w]))) /\ Len(Rest(m, Len(Wants[w]))) = Len(m.stack) - Len(Wants[w])
      BY <1>0, <2>2, Dropped DEF Rest
    <3>2. IsSeq(Pushes(m, w)) /\ Len(Pushes(m, w)) = Gives[w]
      BY <1>0, Pushed
    <3> QED
      BY <3>1, <3>2, Joined
  <2> HIDE DEF stack, files, clean, fault, w
  <2>4. d.stack = stack /\ d.status = m.status /\ d.used = m.used \cup Needs(w)
    BY <2>1 DEF IsMachine
  <2> QED
    BY <1>3, <2>2, <2>3, <2>4 DEF Succeeds, fault, w
<1> QED
  BY <1>1, <1>2, <1>3

LEMMA Faults ==
    ASSUME NEW m, NEW w \in HostWords, NEW path, NEW allowed,
           NEW f, f = HostFault(m, w, path, allowed)
    PROVE  /\ f \in {"none", "effect", "path", "missing_file", "policy", "missing_artifact"}
           /\ f = "effect" => ~(Needs(w) \subseteq allowed)
           /\ f = "none" => Needs(w) \subseteq allowed
           /\ w = "WRITE-FILE" =>
                 /\ f \in {"path", "policy", "missing_artifact"} => ~Passes(HostPath, path)
                 /\ f = "none" => Passes(HostPath, path)
           /\ w = "USE-ARTIFACT" =>
                 /\ f \in {"path", "policy", "missing_artifact"} => path \notin DOMAIN Artifacts
                 /\ f = "none" => path \in DOMAIN Artifacts
<1>1. CASE ~(Needs(w) \subseteq allowed)
  <2>1. f = "effect"
    <3>1. w # "USE-ARTIFACT"
      BY <1>1 DEF Needs
    <3> QED
      BY <1>1, <3>1 DEF HostFault
  <2> QED
    BY <1>1, <2>1
<1>2. CASE Needs(w) \subseteq allowed /\ w = "WRITE-FILE"
  <2>1. CASE path \notin DOMAIN HostPath
    BY <1>2, <2>1 DEF HostFault, Passes
  <2>2. CASE path \in DOMAIN HostPath /\ Denied(HostPath[path])
    BY <1>2, <2>2 DEF HostFault, Passes
  <2>3. CASE path \in DOMAIN HostPath /\ ~Denied(HostPath[path])
    BY <1>2, <2>3 DEF HostFault, Passes
  <2> QED
    BY <2>1, <2>2, <2>3
<1>3. CASE Needs(w) \subseteq allowed /\ w = "USE-ARTIFACT"
  BY <1>3 DEF HostFault
<1>4. CASE Needs(w) \subseteq allowed /\ w = "READ-FILE"
  BY <1>4 DEF HostFault
<1>5. CASE Needs(w) \subseteq allowed /\ w = "LIST-DIR"
  BY <1>5 DEF HostFault
<1>6. CASE Needs(w) \subseteq allowed /\ w \notin {"WRITE-FILE", "USE-ARTIFACT", "READ-FILE", "LIST-DIR"}
  BY <1>6 DEF HostFault
<1> QED
  BY <1>1, <1>2, <1>3, <1>4, <1>5, <1>6

-----------------------------------------------------------------------------
\* A straight program: the machine goes beside the critic.

\* There is one call of run_tokens, at token a of T.
One(T, a) == frames \in [1 .. 1 -> [tokens : {T}, at : {a}]]

LEMMA OneIs ==
    ASSUME NEW T, NEW a, One(T, a)
    PROVE  Len(frames) = 1 /\ frames # <<>> /\ Here.tokens = T /\ Here.at = a
<1> DEFINE S == [tokens : {T}, at : {a}]
<1>1. frames \in [1 .. 1 -> S]
  BY DEF One
<1>2. frames[1] \in S
  BY <1>1
<1>3. frames[1].tokens = T /\ frames[1].at = a
  BY <1>2
<1> HIDE DEF S
<1>4. frames \in Seq(S)
  BY <1>1, SeqDef
<1>5. Len(frames) = 1
  BY <1>1, <1>4, LenProperties
<1>6. frames # <<>>
  BY <1>5
<1> QED
  BY <1>3, <1>5, <1>6 DEF Here, Last

LEMMA OneGoes ==
    ASSUME NEW T, NEW a, One(T, a), NEW i, frames' = Goto(i)
    PROVE  One(T, i)'
<1>1. Len(frames) = 1
  BY OneIs
<1>2. [frames EXCEPT ![1].at = i] \in [1 .. 1 -> [tokens : {T}, at : {i}]]
  BY DEF One
<1> QED
  BY <1>1, <1>2 DEF One, Goto

\* A string that only one of the two lets a program write to is not resolved alike.
LEMMA Apart ==
    ASSUME NEW s, ~(Passes(CriticPath, s) <=> Passes(HostPath, s))
    PROVE  ~Alike(s)
  BY DEF Passes, Alike

\* A literal before token a names one file to the critic and another, or none, to the host.
Differs(T, a) == \E i \in 1 .. a - 1 : NamesFile(T, i) /\ ~Alike(T[i].text)

\* What the critic knows before token a is what the machine has become.
Beside(T, a, c) ==
    /\ c.mode = "plain" /\ DOMAIN colon = c.words
    /\ c.errors # {} => Differs(T, a)
    /\ IsSeq(machine.stack) /\ Len(machine.stack) = c.depth
    /\ machine.used \subseteq c.effects
    /\ c.effects \subseteq grant \cup {"read"}
    /\ "read" \in c.effects \ grant => \E i \in 1 .. a - 1 : T[i] = Word("USE-ARTIFACT")
    /\ a > 1 /\ T[a - 1].kind = "string" =>
          machine.stack # <<>> /\ Top(machine, 1) = T[a - 1]

InStep(T) ==
    \E a \in 1 .. Len(T) + 1 : One(T, a) /\ Beside(T, a, WalkStates(T)[a - 1])

LEMMA LoweredIs ==
    ASSUME program \in Programs
    PROVE  Lowered \in Seq(Tokens) /\ Len(Lowered) \in Nat
<1>1. program.tokens \in Seq(Tokens)
  BY ProgramAssumption
<1>2. Lowered \in Seq(Tokens)
  BY <1>1, LowerIs DEF Lowered
<1> QED
  BY <1>2, LenProperties

LEMMA NotAdmitted ==
    ASSUME program \in Programs, NEW k \in 0 .. Len(Lowered),
           LET c == WalkStates(Lowered)[k]
           IN  c.errors # {} \/ ~(c.effects \subseteq grant)
    PROVE  ~Admitted
<1> DEFINE T == Lowered
           n == Len(T)
<1>1. T \in Seq(Tokens) /\ n \in Nat /\ k \in 0 .. n /\ n \in k .. n
  BY LoweredIs
<1>2. Walked(T) = WalkStates(T)[n]
  BY <1>1, WalkedIs
<1>3. Grows(WalkStates(T)[k], WalkStates(T)[n])
  BY <1>1, WalkGrows
<1> QED
  BY <1>2, <1>3 DEF Admitted, Accepts, Grows

\* A word that the program has defined is not called, and none of its words is a semicolon.
LEMMA NoCalls ==
    ASSUME program \in Programs, Straight, NEW a \in 1 .. Len(Lowered),
           NEW w \in WalkStates(Lowered)[a - 1].words
    PROVE  Lowered[a] # Word(w) /\ w # ";"
<1> DEFINE T == Lowered
           n == Len(T)
<1>1. T \in Seq(Tokens) /\ n \in Nat /\ a - 1 \in 0 .. n /\ n \in a - 1 .. n /\ DOMAIN T = 1 .. n
  BY LoweredIs, LenProperties
<1>a. a \in 1 .. n
  OBVIOUS
<1>2. Walked(T) = WalkStates(T)[n]
  BY <1>1, WalkedIs
<1>3. w \in Walked(T).words
  <2>1. Grows(WalkStates(T)[a - 1], WalkStates(T)[n])
    BY <1>1, WalkGrows
  <2> QED
    BY <1>2, <2>1 DEF Grows
<1>4. PICK p \in DOMAIN T : {i \in DOMAIN T : T[i] = Word(w)} = {p}
  BY <1>3 DEF Straight
<1>5. PICK j \in 1 .. a - 1, l \in 1 .. a - 1 : j < l /\ T[j] = Word(w) /\ T[l] = Word(";")
  <2>1. WellAt(T, a - 1, WalkStates(T)[a - 1])
    BY <1>1, WellAll
  <2> QED
    BY <2>1 DEF WellAt, Defined
<1> HIDE DEF n, T
<1>6. a \in DOMAIN T /\ j \in DOMAIN T /\ l \in DOMAIN T /\ j # a /\ j # l
  <2>1. n \in Nat /\ a \in 1 .. n /\ DOMAIN T = 1 .. n
    BY <1>1, <1>a
  <2>2. j < l
    BY <1>5
  <2>3. j \in 1 .. n /\ l \in 1 .. n /\ j # a /\ j # l
    BY <2>1, <2>2
  <2> QED
    BY <2>1, <2>3
<1>7. \A i \in DOMAIN T : T[i] = Word(w) => i = p
  BY <1>4
<1>8. T[a] # Word(w)
  BY <1>5, <1>6, <1>7
<1>9. w # ";"
  BY <1>5, <1>6, <1>7
<1> QED
  BY <1>8, <1>9 DEF T

\* A run that has ended otherwise than at its end, of a program that is not admitted.
LEMMA EndsRefused ==
    ASSUME UNCHANGED <<program, grant>>, ~Admitted, machine'.status # "done"
    PROVE  CriticIsExact'
<1>1. ~Admitted'
  BY DEF Admitted, Lowered
<1> QED
  BY <1>1 DEF CriticIsExact, AdmittedRuns, SummaryHolds

LEMMA StaysSame ==
    ASSUME UNCHANGED <<program, grant>>
    PROVE  Lowered' = Lowered /\ (Admitted' <=> Admitted) /\ (Straight' <=> Straight)
  BY DEF Lowered, Admitted, Straight

\* The critic's next state.
LEMMA Further ==
    ASSUME program \in Programs, NEW a \in 1 .. Len(Lowered)
    PROVE  LET c == WalkStates(Lowered)[a - 1]
               d == WalkStates(Lowered)[a]
           IN  /\ d = Walk(c, Lowered[a]) /\ Lowered[a] \in Tokens
               /\ IsWalk(c) /\ c.depth \in Nat /\ (a = 1 => c.prev = Word("") /\ c.depth = 0)
               /\ (a # 1 => c.prev = Lowered[a - 1])
<1> DEFINE T == Lowered
<1>1. T \in Seq(Tokens) /\ Len(T) \in Nat /\ T[a] \in Tokens /\ a - 1 \in 0 .. Len(T)
  BY LoweredIs, LenProperties
<1>2. WalkStates(T)[a] = Walk(WalkStates(T)[a - 1], T[a]) /\ WalkStates(T)[0] = NewWalk
  BY <1>1, WalkedIs
<1>3. WellAt(T, a - 1, WalkStates(T)[a - 1])
  BY <1>1, WellAll
<1>4. NewWalk.prev = Word("") /\ NewWalk.depth = 0
  BY DEF NewWalk
<1>5. a = 1 => WalkStates(T)[a - 1] = NewWalk
  BY <1>2
<1> DEFINE c == WalkStates(T)[a - 1]
<1> HIDE DEF T, c
<1>6. IsWalk(c) /\ c.depth \in Nat /\ (a # 1 => c.prev = T[a - 1])
  <2>1. a # 1 => a - 1 # 0
    OBVIOUS
  <2> QED
    BY <1>3, <2>1 DEF WellAt, c
<1> QED
  BY <1>1, <1>2, <1>4, <1>5, <1>6 DEF T, c

\* The steps of a straight program, with the critic one token behind and one ahead.
Now(a) == WalkStates(Lowered)[a]

StepOK(a) ==
    /\ IsMachine(machine) /\ machine.status = "runs" /\ program \in Programs /\ Straight
    /\ a \in 1 .. Len(Lowered) + 1 /\ One(Lowered, a) /\ Beside(Lowered, a, Now(a - 1))
    /\ Running

\* Goes on beside the critic, or ends as the critic said.
Fine == IF machine'.status = "runs" THEN InStep(Lowered)' ELSE CriticIsExact'

LEMMA Returns ==
    ASSUME NEW a, StepOK(a), Return
    PROVE  Fine
<1> DEFINE T == Lowered
           n == Len(T)
           c == Now(a - 1)
<1>1. T \in Seq(Tokens) /\ n \in Nat
  BY LoweredIs DEF StepOK
<1>2. Here.tokens = T /\ Here.at = a /\ Len(frames) = 1
  BY OneIs DEF StepOK
<1>3. a = n + 1 /\ c = Walked(T)
  <2>1. a = n + 1
    BY <1>1, <1>2 DEF Return, StepOK
  <2> QED
    BY <1>1, <2>1, WalkedIs DEF Now
<1>4. machine' = [machine EXCEPT !.status = "done"]
  BY <1>2 DEF Return
<1>5. machine'.status = "done" /\ machine'.stack = machine.stack /\ machine'.used = machine.used
  BY <1>4 DEF StepOK, IsMachine
<1>6. T' = T /\ (Admitted' <=> Admitted) /\ grant' = grant
  BY StaysSame DEF StepOK, Running
<1>7. Beside(T, a, c)
  BY DEF StepOK
<1>8. \/ Admitted
      \/ "read" \notin grant /\ Contains(T, Word("USE-ARTIFACT"))
      \/ \E i \in DOMAIN T : NamesFile(T, i) /\ ~Alike(T[i].text)
      \/ \E key \in DOMAIN Artifacts : ~Alike(key)
  <2>1. c.mode = "plain" /\ c.effects \subseteq grant \cup {"read"}
    BY <1>7 DEF Beside
  <2>2. CASE c.effects \subseteq grant /\ c.errors = {}
    <3>1. CASE \A key \in DOMAIN Artifacts : Passes(CriticPath, key)
      <4> HIDE DEF c
      <4> QED
        BY <1>3, <2>1, <2>2, <3>1 DEF Admitted, Accepts
    <3>2. CASE \E key \in DOMAIN Artifacts : ~Passes(CriticPath, key)
      BY <3>2, ArtifactAssumption, Apart
    <3> QED
      BY <3>1, <3>2
  <2>4. CASE c.errors # {}
    <3>1. PICK i \in 1 .. a - 1 : NamesFile(T, i) /\ ~Alike(T[i].text)
      BY <1>7, <2>4 DEF Beside, Differs
    <3>2. i \in DOMAIN T
      BY <3>1 DEF NamesFile
    <3> QED
      BY <3>1, <3>2
  <2>3. CASE ~(c.effects \subseteq grant)
    <3>1. "read" \in c.effects \ grant
      <4> HIDE DEF c
      <4> QED
        BY <2>1, <2>3
    <3>2. PICK i \in 1 .. a - 1 : T[i] = Word("USE-ARTIFACT")
      BY <1>7, <3>1 DEF Beside
    <3>3. Contains(T, Word("USE-ARTIFACT"))
      BY <1>1, <1>3, <3>2 DEF Contains
    <3> QED
      BY <3>1, <3>3
  <2> QED
    BY <2>2, <2>3, <2>4
<1>9. SummaryHolds'
  <2>1. Len(machine.stack) = c.depth /\ machine.used \subseteq c.effects
    BY <1>7 DEF Beside
  <2> HIDE DEF T, c
  <2>2. SummaryHolds' <=>
           (machine'.status = "done" /\ Straight' =>
              /\ Len(machine'.stack) = Walked(T').depth
              /\ machine'.used \subseteq Walked(T').effects
              /\ \/ Admitted'
                 \/ "read" \notin grant' /\ Contains(T', Word("USE-ARTIFACT"))
                 \/ \E i \in DOMAIN T' : NamesFile(T', i) /\ ~Alike(T'[i].text)
                 \/ \E key \in DOMAIN Artifacts : ~Alike(key))
    BY DEF SummaryHolds, T
  <2> QED
    BY <1>3, <1>5, <1>6, <1>8, <2>1, <2>2
<1>10. AdmittedRuns'
  BY <1>5 DEF AdmittedRuns
<1> QED
  BY <1>5, <1>9, <1>10 DEF Fine, CriticIsExact

\* A trap in a program that is not admitted.
LEMMA Refused ==
    ASSUME NEW a, StepOK(a), NEW s, s \notin {"runs", "done"}, Trap(s), ~Admitted
    PROVE  Fine
<1>1. machine'.status = s
  BY DEF Trap, StepOK, IsMachine
<1> QED
  BY <1>1, EndsRefused DEF Fine, StepOK, Running

\* IF, ELSE and THEN are not in a straight program, and none of its words is called.
LEMMA NoBranches ==
    ASSUME NEW a, StepOK(a)
    PROVE  ~Branch /\ ~Call /\ ~AtWord("ELSE") /\ ~AtWord("THEN")
<1> DEFINE T == Lowered
<1>1. T \in Seq(Tokens) /\ Len(T) \in Nat /\ DOMAIN T = 1 .. Len(T)
  BY LoweredIs, LenProperties DEF StepOK
<1>2. Here.tokens = T /\ Here.at = a /\ Token = T[a]
  BY OneIs DEF StepOK, Token
<1>3. ASSUME NEW w, AtWord(w) PROVE a \in DOMAIN T /\ T[a] = Word(w)
  BY <1>1, <1>2, <1>3 DEF AtWord, StepOK
<1>4. \A i \in DOMAIN T : T[i] \notin {Word(w) : w \in {"IF", "ELSE", "THEN"}}
  BY DEF StepOK, Straight
<1>5. ~AtWord("IF") /\ ~AtWord("ELSE") /\ ~AtWord("THEN")
  BY <1>3, <1>4
<1>6. ASSUME NEW w \in DOMAIN colon, AtWord(w) PROVE FALSE
  <2>1. w \in Now(a - 1).words
    BY DEF StepOK, Beside
  <2>2. a \in 1 .. Len(T) /\ T[a] = Word(w)
    BY <1>1, <1>3, <1>6
  <2> QED
    BY <2>1, <2>2, NoCalls DEF StepOK, Now
<1> QED
  BY <1>5, <1>6 DEF Branch, Call

\* A word that the critic does not know.
LEMMA Unknown ==
    ASSUME NEW a, StepOK(a), a \in 1 .. Len(Lowered), Lowered[a].kind = "word",
           Lowered[a] # Word(":"), ~Known(Now(a - 1), Lowered[a])
    PROVE  ~Admitted
<1> DEFINE t == Lowered[a]
           c == Now(a - 1)
           j == Judge(c, t)
<1>1. Now(a) = Walk(c, t) /\ t \in Tokens /\ IsWalk(c) /\ c.mode = "plain"
  BY Further DEF StepOK, Now, Beside
<1>2. JudgesTo(c, t, j)
  BY <1>1, Judges
<1>3. j.errors = c.errors \cup {"unknown"}
  BY <1>2 DEF JudgesTo
<1>4. Now(a).errors = j.errors
  BY <1>1, Plainly
<1>5. Now(a).errors # {} /\ a \in 0 .. Len(Lowered)
  BY <1>3, <1>4
<1> QED
  BY <1>5, NotAdmitted DEF StepOK, Now

LEMMA Strays ==
    ASSUME NEW a, StepOK(a), Stray
    PROVE  Fine
<1> DEFINE T == Lowered
<1>1. T \in Seq(Tokens) /\ Len(T) \in Nat /\ DOMAIN T = 1 .. Len(T)
  BY LoweredIs, LenProperties DEF StepOK
<1>2. Here.tokens = T /\ Here.at = a /\ Token = T[a]
  BY OneIs DEF StepOK, Token
<1>3. AtWord(";") /\ Trap("syntax")
  BY NoBranches DEF Stray
<1>4. a \in 1 .. Len(T) /\ T[a] = Word(";")
  <2>1. a <= Len(T) /\ T[a] = Word(";")
    BY <1>2, <1>3 DEF AtWord
  <2>2. a \in 1 .. Len(T) + 1
    BY DEF StepOK
  <2>3. a <= Len(T)
    BY <2>1, Zenon
  <2>4. a \in 1 .. Len(T)
    BY <1>1, <2>2, <2>3
  <2> QED
    BY <2>1, <2>4, Zenon
<1>5. T[a].kind = "word" /\ T[a].text = ";" /\ T[a] # Word(":")
  <2>1. T[a] \in Tokens
    BY <1>1, <1>4, Zenon, ElementOfSeq
  <2>2. T[a].kind = "word" /\ T[a].text = ";"
    BY <1>4, <2>1, TokenIs, Zenon
  <2>3. ";" # ":"
    BY Zenon
  <2> QED
    BY <2>1, <2>2, <2>3, TokenIs, Zenon
<1>6. ";" \notin DOMAIN HostDictionary
  BY DEF HostDictionary, HostWords
<1>7. ";" \notin Now(a - 1).words
  BY <1>4, NoCalls DEF StepOK, Now
<1>8. ~Known(Now(a - 1), T[a])
  BY <1>5, <1>6, <1>7 DEF Known
<1>9. ~Admitted
  BY <1>4, <1>5, <1>8, Unknown
<1> QED
  BY <1>3, <1>9, Refused

\* Between the name of a definition and token k the critic has skipped.
Skipping(c, name, d) ==
    /\ IsWalk(d) /\ d.mode = "body" /\ d.name = name /\ Unjudged(c, d)
    /\ d.words = c.words /\ d.errors = c.errors

Ends == {Word(";"), Word(":")}

LEMMA BodySkipped ==
    ASSUME program \in Programs, NEW c, NEW name, NEW i \in 1 .. Len(Lowered),
           Skipping(c, name, Now(i)), NEW k \in i .. Len(Lowered),
           \A j \in i + 1 .. k : Lowered[j] \notin Ends
    PROVE  Skipping(c, name, Now(k))
<1> DEFINE T == Lowered
           Bad == {m \in i .. k : ~Skipping(c, name, Now(m))}
<1>1. T \in Seq(Tokens) /\ Len(T) \in Nat /\ k \in Nat /\ i \in Nat /\ k <= Len(T) /\ 1 <= i
  BY LoweredIs
<1>2. Bad = {}
  <2> SUFFICES ASSUME Bad # {} PROVE FALSE
    OBVIOUS
  <2>1. PICK m \in Bad : \A j \in Bad : m <= j
    <3>1. Bad \in SUBSET Nat
      BY <1>1
    <3> HIDE DEF Bad
    <3> QED
      BY <3>1, SmallestOf
  <2>2. m # i
    BY <2>1
  <2>3. m \in i .. k /\ m \in i + 1 .. k /\ m - 1 \in i .. k /\ m - 1 \notin Bad /\ m \in 1 .. Len(T)
    BY <1>1, <2>1, <2>2
  <2>4. Skipping(c, name, Now(m - 1))
    BY <2>3
  <2>5. Now(m) = Walk(Now(m - 1), T[m]) /\ T[m] \in Tokens
    BY <2>3, Further DEF Now
  <2>6. SkipsTo(Now(m - 1), T[m], Now(m))
    BY <2>4, <2>5, Skips DEF Skipping
  <2>7. T[m] \notin Ends
    BY <2>3
  <2>8. Skipping(c, name, Now(m))
    BY <2>4, <2>6, <2>7 DEF Skipping, SkipsTo, Unjudged, Ends
  <2> QED
    BY <2>1, <2>8
<1>3. k \in i .. k
  BY <1>1
<1> QED
  BY <1>2, <1>3

LEMMA NotPlain ==
    ASSUME program \in Programs, Now(Len(Lowered)).mode # "plain"
    PROVE  ~Admitted
<1>1. Walked(Lowered) = Now(Len(Lowered))
  BY LoweredIs, WalkedIs DEF Now
<1> QED
  BY <1>1 DEF Admitted, Accepts

LEMMA Compiles ==
    ASSUME NEW a, StepOK(a), Compile
    PROVE  Fine
<1> DEFINE T == Lowered
           n == Len(T)
           c == Now(a - 1)
           ends == {j \in (a + 2) .. n : T[j] \in Ends}
           end == CHOOSE j \in ends : \A k \in ends : j <= k
           name == T[a + 1].text
           bad == \/ a = n \/ T[a + 1].kind # "word" \/ ends = {} \/ T[end] = Word(":")
<1>1. T \in Seq(Tokens) /\ n \in Nat /\ \A i \in 1 .. n : T[i] \in Tokens
  BY LoweredIs, LenProperties DEF StepOK
<1>2. Here.tokens = T /\ Here.at = a /\ Token = T[a]
  BY OneIs DEF StepOK, Token
<1>3. a \in 1 .. n /\ T[a] = Word(":") /\ program \in Programs
  <2>1. a <= n /\ T[a] = Word(":")
    BY <1>2 DEF Compile, AtWord
  <2>2. a \in 1 .. n + 1 /\ program \in Programs
    BY DEF StepOK
  <2> QED
    BY <1>1, <2>1, <2>2
<1>4. IF bad THEN Trap("syntax")
      ELSE /\ colon' = Put(colon, name, SubSeq(T, a + 2, end - 1))
           /\ frames' = Goto(end + 1) /\ machine' = machine
  BY <1>2 DEF Compile, Ends
<1>5. Beside(T, a, c) /\ c.mode = "plain" /\ (c.errors # {} => Differs(T, a))
  BY DEF StepOK, Beside
<1>6. Now(a) = Walk(c, T[a]) /\ T[a] \in Tokens /\ IsWalk(c)
  BY <1>3, Further DEF Now
<1>7. /\ IsWalk(Now(a)) /\ Now(a).mode = "name" /\ Unjudged(c, Now(a))
      /\ Now(a).words = c.words /\ Now(a).errors = c.errors
  <2> DEFINE j == Judge(c, T[a])
  <2>1. JudgesTo(c, T[a], j)
    BY <1>6, Judges
  <2>2. /\ IsWalk(Now(a)) /\ Now(a).mode = j.mode /\ Now(a).depth = j.depth
        /\ Now(a).effects = j.effects /\ Now(a).words = j.words /\ Now(a).errors = j.errors
    BY <1>5, <1>6, Plainly
  <2> HIDE DEF j
  <2> QED
    BY <1>3, <2>1, <2>2 DEF JudgesTo, Unjudged
<1> HIDE DEF T, n, c, end
<1>8. ASSUME a # n
      PROVE  /\ a + 1 \in 1 .. n /\ T[a + 1] \in Tokens /\ Now(a + 1) = Walk(Now(a), T[a + 1])
  <2>1. a + 1 \in 1 .. n
    BY <1>1, <1>3, <1>8
  <2>2. PICK b \in 1 .. n : b = a + 1
    BY <2>1
  <2>3. Now(b) = Walk(Now(b - 1), T[b])
    BY <1>3, Further DEF Now, T, n
  <2>4. b - 1 = a
    BY <1>1, <1>3, <2>2
  <2> QED
    BY <1>1, <2>1, <2>2, <2>3, <2>4
<1>9. ASSUME a # n, T[a + 1].kind = "word"
      PROVE  Skipping(c, name, Now(a + 1))
  <2>1. SkipsTo(Now(a), T[a + 1], Now(a + 1))
    BY <1>7, <1>8, <1>9, Skips
  <2> QED
    BY <1>7, <2>1 DEF SkipsTo, Skipping, Unjudged
<1>10. ASSUME ends # {}
       PROVE  end \in ends /\ \A k \in ends : end <= k
  <2>1. ends \in SUBSET Nat
    BY <1>1, <1>3
  <2>2. \E m \in ends : \A k \in ends : m <= k
    <3> HIDE DEF ends
    <3> QED
      BY <1>10, <2>1, SmallestOf
  <2> HIDE DEF ends
  <2> QED
    BY <2>2 DEF end
<1>11. ASSUME a # n, T[a + 1].kind = "word", ends # {}
       PROVE  /\ end \in a + 2 .. n /\ T[end] \in Ends /\ Skipping(c, name, Now(end - 1))
              /\ SkipsTo(Now(end - 1), T[end], Now(end))
  <2>1. end \in a + 2 .. n /\ T[end] \in Ends /\ \A j \in ends : end <= j
    BY <1>10, <1>11
  <2>2. a \in Nat /\ n \in Nat /\ 1 <= a
    BY <1>1, <1>3
  <2>3. end - 1 \in a + 1 .. n /\ end \in 1 .. n /\ a + 1 \in 1 .. n
    BY <2>1, <2>2
  <2>4. \A j \in a + 1 + 1 .. end - 1 : T[j] \notin Ends
    <3> SUFFICES ASSUME NEW j \in a + 1 + 1 .. end - 1, T[j] \in Ends PROVE FALSE
      OBVIOUS
    <3>1. j \in a + 2 .. n /\ ~(end <= j)
      BY <2>1, <2>2
    <3> QED
      BY <2>1, <3>1
  <2>5. Skipping(c, name, Now(end - 1))
    BY <1>3, <1>9, <1>11, <2>3, <2>4, BodySkipped DEF T, n
  <2>6. Now(end) = Walk(Now(end - 1), T[end]) /\ T[end] \in Tokens
    BY <1>3, <2>3, Further DEF Now, T, n
  <2>7. SkipsTo(Now(end - 1), T[end], Now(end))
    BY <2>5, <2>6, Skips DEF Skipping
  <2> QED
    BY <2>1, <2>5, <2>7
<1>12. ASSUME bad PROVE ~Admitted
  <2>1. CASE a = n
    <3>1. Now(n).mode # "plain"
      BY <1>7, <2>1
    <3> QED
      BY <1>3, <3>1, NotPlain DEF T, n
  <2>2. CASE a # n /\ T[a + 1].kind # "word"
    <3>1. Now(a + 1).errors = Now(a).errors \cup {"name"}
      BY <1>7, <1>8, <2>2, Nameless
    <3>2. Now(a + 1).errors # {} /\ a + 1 \in 0 .. n
      BY <1>8, <2>2, <3>1
    <3> QED
      BY <1>3, <3>2, NotAdmitted DEF Now, T, n
  <2>3. CASE a # n /\ T[a + 1].kind = "word" /\ ends = {}
    <3>1. a + 1 \in 1 .. n /\ n \in a + 1 .. n
      BY <1>1, <1>3, <1>8, <2>3
    <3>2. \A j \in a + 1 + 1 .. n : T[j] \notin Ends
      <4>1. a + 1 + 1 = a + 2
        BY <1>1, <1>3
      <4> QED
        BY <2>3, <4>1
    <3>3. Skipping(c, name, Now(n))
      BY <1>3, <1>9, <2>3, <3>1, <3>2, BodySkipped DEF T, n
    <3>4. Now(n).mode # "plain"
      BY <3>3 DEF Skipping
    <3> QED
      BY <1>3, <3>4, NotPlain DEF T, n
  <2>4. CASE a # n /\ T[a + 1].kind = "word" /\ ends # {} /\ T[end] = Word(":")
    <3>1. Now(end).errors = Now(end - 1).errors \cup {"nested"}
      BY <1>11, <2>4 DEF SkipsTo, Skipping
    <3>2. Now(end).errors # {} /\ end \in 0 .. n
      BY <1>1, <1>3, <1>11, <2>4, <3>1
    <3> QED
      BY <1>3, <3>2, NotAdmitted DEF Now, T, n
  <2> HIDE DEF ends
  <2> QED
    BY <1>12, <2>1, <2>2, <2>3, <2>4
<1>13. CASE bad
  BY <1>4, <1>12, <1>13, Refused
<1>14. CASE ~bad
  <2>1. /\ colon' = Put(colon, name, SubSeq(T, a + 2, end - 1))
        /\ frames' = Goto(end + 1) /\ machine' = machine
    <3> HIDE DEF bad
    <3> QED
      BY <1>4, <1>14
  <2>2. a # n /\ T[a + 1].kind = "word" /\ ends # {} /\ T[end] # Word(":")
    <3> HIDE DEF ends
    <3> QED
      BY <1>14
  <2>3. PICK e : e = end
    OBVIOUS
  <2>4. e \in a + 2 .. n /\ T[e] \in Ends /\ Skipping(c, name, Now(e - 1))
        /\ SkipsTo(Now(e - 1), T[e], Now(e))
    BY <1>11, <2>2, <2>3
  <2>5. T[e] = Word(";")
    BY <2>2, <2>3, <2>4 DEF Ends
  <2>6. /\ Now(e).mode = "plain" /\ Now(e).words = c.words \cup {name}
        /\ Now(e).errors = c.errors /\ Unjudged(c, Now(e))
    BY <2>4, <2>5 DEF SkipsTo, Skipping, Unjudged
  <2>7. DOMAIN colon' = DOMAIN colon \cup {name}
    BY <2>1 DEF Put
  <2>8. e + 1 \in 1 .. n + 1 /\ e + 1 - 1 = e /\ \A i \in 1 .. a - 1 : i \in 1 .. e
    <3>1. e \in a + 2 .. n
      BY <2>4
    <3> QED
      BY <1>1, <1>3, <3>1
  <2>9. T[e].kind # "string"
    <3>1. e \in 1 .. n
      BY <1>1, <1>3, <2>4
    <3>2. T[e] \in Tokens
      BY <1>1, <3>1
    <3>3. T[e].kind = "word"
      BY <2>5, <3>2, TokenIs, Zenon
    <3> QED
      BY <3>3
  <2>10. PICK b : b = e + 1
    OBVIOUS
  <2>a. b - 1 = e /\ b \in 1 .. n + 1 /\ \A i \in 1 .. a - 1 : i \in 1 .. b - 1
    <3> HIDE DEF ends
    <3>1. e + 1 \in 1 .. n + 1 /\ e + 1 - 1 = e /\ \A i \in 1 .. a - 1 : i \in 1 .. e
      BY <2>8
    <3>2. e \in Nat /\ a \in Nat /\ n \in Nat
      BY <1>1, <1>3, <2>4
    <3>3. b - 1 = e
      BY <2>10, <3>2
    <3>4. \A i \in 1 .. a - 1 : i \in 1 .. b - 1
      BY <3>1, <3>3
    <3> QED
      BY <2>10, <3>1, <3>3, <3>4
  <2>11. One(Lowered, b)'
    <3>1. PICK S : S = Lowered
      OBVIOUS
    <3>2. One(S, b)'
      BY <2>1, <2>3, <2>10, <3>1, OneGoes DEF StepOK
    <3> QED
      BY <3>1, <3>2, StaysSame DEF StepOK, Running
  <2>12. Lowered' = Lowered /\ grant' = grant
    BY StaysSame DEF StepOK, Running
  <2>13. Now(e)' = Now(e)
    BY <2>12 DEF Now
  <2>14. /\ DOMAIN colon = c.words /\ IsSeq(machine.stack) /\ Len(machine.stack) = c.depth
         /\ machine.used \subseteq c.effects /\ c.effects \subseteq grant \cup {"read"}
         /\ "read" \in c.effects \ grant => \E i \in 1 .. a - 1 : T[i] = Word("USE-ARTIFACT")
    BY <1>5 DEF Beside
  <2>15. "read" \in Now(e).effects \ grant => \E i \in 1 .. b - 1 : T[i] = Word("USE-ARTIFACT")
    <3>1. Now(e).effects = c.effects
      BY <2>6 DEF Unjudged
    <3> QED
      BY <2>a, <2>14, <3>1
  <2>b. Now(e).errors # {} => Differs(T, b)
    BY <1>5, <2>6, <2>a DEF Differs
  <2>16. /\ Now(e).mode = "plain" /\ DOMAIN colon' = Now(e).words
         /\ IsSeq(machine.stack) /\ Len(machine.stack) = Now(e).depth
         /\ machine.used \subseteq Now(e).effects
         /\ Now(e).effects \subseteq grant \cup {"read"}
    BY <1>5, <2>6, <2>7, <2>14 DEF Unjudged
  <2>17. T[b - 1].kind # "string"
    BY <2>9, <2>a
  <2>18. Beside(Lowered, b, Now(e))'
    BY <2>1, <2>12, <2>13, <2>15, <2>b, <2>16, <2>17 DEF Beside, Differs, IsSeq, T
  <2>19. InStep(Lowered)'
    <3>1. b \in (1 .. Len(Lowered) + 1)' /\ b - 1 = e
      BY <2>a, <2>12 DEF n, T
    <3> QED
      BY <2>11, <2>12, <2>18, <3>1 DEF InStep, Now
  <2> QED
    BY <2>1, <2>19 DEF Fine, StepOK
<1> QED
  BY <1>13, <1>14
\* What the next token makes of the critic and of the machine.
LEMMA Performed ==
    ASSUME NEW a, StepOK(a), Perform
    PROVE  LET t == Lowered[a]
               c == Now(a - 1)
               j == Judge(c, t)
               d == Now(a)
           IN  /\ a \in 1 .. Len(Lowered) /\ Len(Lowered) \in Nat /\ t \in Tokens /\ Token = t
               /\ machine' = Do(machine, t, grant) /\ colon' = colon
               /\ frames' = IF machine'.status = "runs" THEN Goto(a + 1) ELSE frames
               /\ t.kind = "word" => t.text \notin Syntax \cup c.words
               /\ c.depth \in Nat /\ (a = 1 => c.prev = Word("") /\ c.depth = 0)
               /\ a # 1 => c.prev = Lowered[a - 1]
               /\ Beside(Lowered, a, c) /\ JudgesTo(c, t, j)
               /\ d.mode = j.mode /\ d.depth = j.depth /\ d.effects = j.effects
               /\ d.words = j.words /\ d.errors = j.errors
<1> DEFINE T == Lowered
           t == T[a]
           c == Now(a - 1)
           j == Judge(c, t)
           d == Now(a)
<1>1. T \in Seq(Tokens) /\ Len(T) \in Nat
  BY LoweredIs DEF StepOK
<1>2. Here.tokens = T /\ Here.at = a /\ Token = t
  BY OneIs DEF StepOK, Token
<1>3. a \in 1 .. Len(T)
  BY <1>1, <1>2 DEF Perform, StepOK
<1>4. Beside(T, a, c) /\ c.mode = "plain" /\ DOMAIN colon = c.words
  BY DEF StepOK, Beside
<1>5. d = Walk(c, t) /\ t \in Tokens /\ IsWalk(c) /\ c.depth \in Nat
      /\ (a = 1 => c.prev = Word("") /\ c.depth = 0) /\ (a # 1 => c.prev = T[a - 1])
  BY <1>3, Further DEF StepOK, Now
<1>6. JudgesTo(c, t, j)
  BY <1>5, Judges
<1>7. /\ d.mode = j.mode /\ d.depth = j.depth /\ d.effects = j.effects
      /\ d.words = j.words /\ d.errors = j.errors
  <2>1. d = Walk(c, t) /\ t \in Tokens /\ IsWalk(c) /\ c.mode = "plain"
    BY <1>4, <1>5
  <2> HIDE DEF d, c, t
  <2> QED
    BY <2>1, Plainly
<1>8. /\ machine' = Do(machine, t, grant) /\ colon' = colon
      /\ frames' = IF machine'.status = "runs" THEN Goto(a + 1) ELSE frames
  BY <1>2 DEF Perform
<1>9. t.kind = "word" => t.text \notin Syntax \cup c.words
  BY <1>2, <1>4 DEF Perform
<1> QED
  BY <1>1, <1>2, <1>3, <1>4, <1>5, <1>6, <1>7, <1>8, <1>9

\* One token further, still beside the critic.
LEMMA Goes ==
    ASSUME NEW a, StepOK(a), a \in 1 .. Len(Lowered), Len(Lowered) \in Nat,
           machine'.status = "runs", frames' = Goto(a + 1), Beside(Lowered, a + 1, Now(a))'
    PROVE  Fine
<1>1. PICK b : b = a + 1
  OBVIOUS
<1>2. b \in 1 .. Len(Lowered) + 1 /\ b - 1 = a
  BY <1>1
<1>3. One(Lowered, b)'
  <2>1. PICK S : S = Lowered
    OBVIOUS
  <2>2. One(S, b)'
    BY <1>1, <2>1, OneGoes DEF StepOK
  <2> QED
    BY <2>1, <2>2, StaysSame DEF StepOK, Running
<1>4. Lowered' = Lowered
  BY StaysSame DEF StepOK, Running
<1>5. Beside(Lowered, b, WalkStates(Lowered)[b - 1])'
  BY <1>1, <1>2 DEF Now
<1>6. b \in (1 .. Len(Lowered) + 1)'
  BY <1>2, <1>4
<1>7. InStep(Lowered)'
  BY <1>3, <1>5, <1>6 DEF InStep
<1> QED
  BY <1>7 DEF Fine

\* A fault that the critic has seen.
LEMMA Foreseen ==
    ASSUME NEW a, StepOK(a), NEW k \in 0 .. Len(Lowered),
           Now(k).errors # {} \/ ~(Now(k).effects \subseteq grant),
           machine'.status \notin {"runs", "done"}
    PROVE  Fine
<1>1. ~Admitted
  BY NotAdmitted DEF StepOK, Now
<1> QED
  BY <1>1, EndsRefused DEF Fine, StepOK, Running

\* A fault that the critic says nothing of.
LEMMA Unforeseen ==
    ASSUME machine'.status \in {"type", "missing_file"}
    PROVE  Fine
  BY DEF Fine, CriticIsExact, AdmittedRuns, SummaryHolds

LEMMA Literals ==
    ASSUME NEW a, StepOK(a), Perform, Lowered[a].kind # "word"
    PROVE  Fine
<1> DEFINE T == Lowered
           t == T[a]
           c == Now(a - 1)
           d == Now(a)
<1>1. /\ a \in 1 .. Len(T) /\ Len(T) \in Nat /\ t \in Tokens /\ Beside(T, a, c)
      /\ machine' = Do(machine, t, grant) /\ colon' = colon
      /\ frames' = IF machine'.status = "runs" THEN Goto(a + 1) ELSE frames
  BY Performed
<1>2. t # Word(":")
  BY <1>1, TokenIs
<1>3. /\ d.mode = c.mode /\ d.depth = c.depth + 1 /\ d.effects = c.effects
      /\ d.words = c.words /\ d.errors = c.errors
  <2> DEFINE j == Judge(c, t)
  <2>1. /\ JudgesTo(c, t, j) /\ d.mode = j.mode /\ d.depth = j.depth /\ d.effects = j.effects
        /\ d.words = j.words /\ d.errors = j.errors /\ t.kind # "word"
    BY Performed
  <2> HIDE DEF T, t, c, d, j
  <2> QED
    BY <1>2, <2>1 DEF JudgesTo
<1>4. machine' = [machine EXCEPT !.stack = Append(@, t)]
  BY <1>1 DEF Do
<1>5. machine'.stack = Append(machine.stack, t) /\ machine'.status = "runs" /\ machine'.used = machine.used
  BY <1>4 DEF StepOK, IsMachine
<1>6. /\ c.mode = "plain" /\ DOMAIN colon = c.words /\ IsSeq(machine.stack)
      /\ c.errors # {} => Differs(T, a)
      /\ Len(machine.stack) = c.depth /\ machine.used \subseteq c.effects
      /\ c.effects \subseteq grant \cup {"read"}
      /\ "read" \in c.effects \ grant => \E i \in 1 .. a - 1 : T[i] = Word("USE-ARTIFACT")
  BY <1>1 DEF Beside
<1> HIDE DEF T, t, c, d
<1>7. /\ IsSeq(machine'.stack) /\ Len(machine.stack) \in Nat
      /\ Len(machine'.stack) = Len(machine.stack) + 1 /\ machine'.stack[Len(machine.stack) + 1] = t
  BY <1>5, <1>6, Appended
<1>8. machine'.stack # <<>> /\ Top(machine, 1)' = t
  <2>1. Len(machine'.stack) # 0 /\ Len(machine'.stack) + 1 - 1 = Len(machine.stack) + 1
    BY <1>7
  <2>2. machine'.stack # <<>>
    BY <2>1
  <2> QED
    BY <1>7, <2>1, <2>2 DEF Top
<1>9. T' = T /\ grant' = grant /\ d' = d
  BY StaysSame DEF StepOK, Running, T, d, Now
<1>10. PICK b : b = a + 1
  OBVIOUS
<1>11. b - 1 = a /\ \A i \in 1 .. a - 1 : i \in 1 .. b - 1
  BY <1>1, <1>10
<1>12. "read" \in d.effects \ grant => \E i \in 1 .. b - 1 : T[i] = Word("USE-ARTIFACT")
  BY <1>3, <1>6, <1>11
<1>13. Beside(T, b, d)'
  <2>1. T[b - 1] = t
    BY <1>11 DEF t
  <2>3. d.errors # {} => Differs(T, b)
    BY <1>3, <1>6, <1>11 DEF Differs
  <2>2. /\ d.mode = "plain" /\ DOMAIN colon' = d.words
        /\ IsSeq(machine'.stack) /\ Len(machine'.stack) = d.depth
        /\ machine'.used \subseteq d.effects /\ d.effects \subseteq grant \cup {"read"}
    BY <1>1, <1>3, <1>5, <1>6, <1>7
  <2> QED
    BY <1>8, <1>9, <1>12, <2>1, <2>2, <2>3 DEF Beside, Differs, IsSeq
<1> QED
  BY <1>1, <1>5, <1>10, <1>13, Goes DEF T, d
\* A word that neither the program nor the host knows.
LEMMA Strangers ==
    ASSUME NEW a, StepOK(a), Perform, Lowered[a].kind = "word", Lowered[a].text \notin HostWords
    PROVE  Fine
<1> DEFINE t == Lowered[a]
           c == Now(a - 1)
<1>1. /\ a \in 1 .. Len(Lowered) /\ t \in Tokens /\ t.text \notin Syntax \cup c.words
      /\ machine' = Do(machine, t, grant)
  BY Performed
<1>2. machine' = [machine EXCEPT !.status = "unknown"]
  BY <1>1 DEF Do
<1>3. machine'.status = "unknown"
  BY <1>2 DEF StepOK, IsMachine
<1>4. t.text \notin {"IF", "ELSE", "THEN"} /\ t.text # ":"
  BY <1>1 DEF Syntax
<1>5. t # Word(":")
  BY <1>1, <1>4, TokenIs
<1>6. ~Known(c, t)
  BY <1>1, <1>4 DEF Known, HostDictionary
<1>7. ~Admitted
  BY <1>1, <1>5, <1>6, Unknown
<1> QED
  BY <1>3, <1>7, EndsRefused DEF Fine, StepOK, Running

\* What the critic says of a word of the host.
Said(c, w, d) ==
    LET short == c.depth < Len(Wants[w])
        effects == IF w = "USE-ARTIFACT" THEN {"read"} ELSE Needs(w)
    IN  /\ d.depth = (IF short THEN 0 ELSE c.depth - Len(Wants[w])) + Gives[w]
        /\ d.effects = c.effects \cup effects
        /\ d.errors = (c.errors \cup (IF short THEN {"underflow"} ELSE {}))
                          \cup LiteralErrors(w, c.prev)
        /\ d.mode = c.mode /\ d.words = c.words

LEMMA Hosted ==
    ASSUME NEW a, StepOK(a), Perform, NEW w \in HostWords,
           Lowered[a].kind = "word", Lowered[a].text = w
    PROVE  Said(Now(a - 1), w, Now(a))
<1> DEFINE t == Lowered[a]
           c == Now(a - 1)
           j == Judge(c, t)
           d == Now(a)
<1>1. /\ t \in Tokens /\ w \notin Syntax \cup c.words /\ JudgesTo(c, t, j)
      /\ d.mode = j.mode /\ d.depth = j.depth /\ d.effects = j.effects
      /\ d.words = j.words /\ d.errors = j.errors
  BY Performed
<1>2. t.kind = "word" /\ t.text = w /\ t # Word(":")
  <2>1. w # ":"
    BY <1>1 DEF Syntax
  <2> QED
    BY <1>1, <2>1, TokenIs
<1>3. Known(c, t) /\ ContractOf(c, w) = HostDictionary[w]
  BY <1>1, <1>2 DEF Known, ContractOf, HostDictionary
<1>4. /\ HostDictionary[w].inputs = Len(Wants[w]) /\ HostDictionary[w].outputs = Gives[w]
      /\ HostDictionary[w].effects = IF w = "USE-ARTIFACT" THEN {"read"} ELSE Needs(w)
  BY DEF HostDictionary
<1> HIDE DEF t, c, j, d
<1>5. /\ LET k == HostDictionary[w]
             short == c.depth < k.inputs
         IN  /\ j.depth = (IF short THEN 0 ELSE c.depth - k.inputs) + k.outputs
             /\ j.effects = c.effects \cup k.effects
             /\ j.errors = (c.errors \cup (IF short THEN {"underflow"} ELSE {}))
                               \cup LiteralErrors(w, c.prev)
      /\ j.mode = c.mode /\ j.words = c.words
  BY <1>1, <1>2, <1>3 DEF JudgesTo
<1>6. Said(c, w, d)
  BY <1>1, <1>4, <1>5 DEF Said
<1> QED
  BY <1>6 DEF c, d

\* Where the host looks: at the literal in front, when there is one.
LEMMA Looks ==
    ASSUME NEW a, StepOK(a), Perform, machine.stack # <<>>
    PROVE  /\ a # 1 /\ Now(a - 1).prev = Lowered[a - 1]
           /\ Lowered[a - 1].kind = "string" => PathOf(machine) = Lowered[a - 1].text
<1> DEFINE T == Lowered
           c == Now(a - 1)
<1>1. /\ a \in 1 .. Len(T) /\ c.depth \in Nat /\ (a = 1 => c.depth = 0)
      /\ (a # 1 => c.prev = T[a - 1]) /\ Beside(T, a, c)
  BY Performed
<1>2. /\ IsSeq(machine.stack) /\ Len(machine.stack) = c.depth
      /\ a > 1 /\ T[a - 1].kind = "string" => Top(machine, 1) = T[a - 1]
  BY <1>1 DEF Beside
<1>3. a # 1
  <2>1. Len(machine.stack) # 0
    <3>1. PICK V : machine.stack \in Seq(V)
      BY <1>2 DEF IsSeq
    <3> QED
      BY <3>1, EmptySeq
  <2> QED
    BY <1>1, <1>2, <2>1
<1>4. a > 1
  BY <1>1, <1>3
<1> HIDE DEF T, c
<1>5. T[a - 1].kind = "string" => PathOf(machine) = T[a - 1].text
  BY <1>2, <1>4 DEF PathOf
<1> QED
  BY <1>1, <1>3, <1>5 DEF T, c
LEMMA StackLen ==
    ASSUME NEW a, StepOK(a)
    PROVE  Len(machine.stack) \in Nat
<1>1. IsSeq(machine.stack)
  BY DEF StepOK, Beside
<1> QED
  BY <1>1, LenProperties DEF IsSeq

LEMMA TakesOne ==
    ASSUME NEW w \in {"WRITE-FILE", "USE-ARTIFACT"}, NEW n \in Nat, Len(Wants[w]) <= n
    PROVE  n # 0
<1>1. CASE w = "WRITE-FILE"
  <2>1. Wants[w] = <<"string", "string">>
    BY <1>1 DEF Wants, HostWords
  <2>2. Len(Wants[w]) = 2
    BY <2>1
  <2> QED
    BY <2>2
<1>2. CASE w = "USE-ARTIFACT"
  <2>1. Wants[w] = <<"string">>
    BY <1>2 DEF Wants, HostWords
  <2>2. Len(Wants[w]) = 1
    BY <2>1
  <2> QED
    BY <2>2
<1> QED
  BY <1>1, <1>2

\* A word of the host that is refused what it asked for.
LEMMA HostRefused ==
    ASSUME NEW a, StepOK(a), Perform, NEW w \in HostWords,
           Lowered[a].kind = "word", Lowered[a].text = w, Refuses(machine, w, grant, machine')
    PROVE  Fine
<1> DEFINE T == Lowered
           c == Now(a - 1)
           d == Now(a)
           f == HostFault(machine, w, PathOf(machine), grant)
           path == PathOf(machine)
<1>1. /\ a \in 1 .. Len(T) /\ Len(T) \in Nat /\ T[a] \in Tokens /\ Token = T[a]
      /\ frames' = IF machine'.status = "runs" THEN Goto(a + 1) ELSE frames
  BY Performed
<1>2. Said(c, w, d) /\ a \in 0 .. Len(T)
  BY <1>1, Hosted
<1>3. f # "none" /\ machine'.status = f
  BY DEF Refuses
<1>a. Len(Wants[w]) <= Len(machine.stack) /\ Len(machine.stack) \in Nat
  BY StackLen DEF Refuses
<1>4. /\ f \in {"effect", "path", "missing_file", "policy", "missing_artifact"}
      /\ f = "effect" => ~(Needs(w) \subseteq grant)
      /\ w = "WRITE-FILE" /\ f \in {"path", "policy", "missing_artifact"} =>
            ~Passes(HostPath, path)
      /\ w = "USE-ARTIFACT" /\ f \in {"path", "policy", "missing_artifact"} =>
            path \notin DOMAIN Artifacts
  <2>1. f = HostFault(machine, w, path, grant)
    OBVIOUS
  <2> HIDE DEF f, path
  <2>2. f # "none"
    BY <1>3
  <2> QED
    BY <2>1, <2>2, Faults
<1> HIDE DEF f, path
<1>5. machine'.status \notin {"runs", "done"} /\ frames' = frames
  BY <1>1, <1>3, <1>4
<1>6. CASE f = "effect"
  <2>1. w # "USE-ARTIFACT"
    BY <1>4, <1>6 DEF Needs
  <2>2. ~(d.effects \subseteq grant)
    <3> HIDE DEF c, d
    <3> QED
      BY <1>2, <1>4, <1>6, <2>1 DEF Said
  <2> QED
    BY <1>2, <1>5, <2>2, Foreseen
<1>7. CASE f = "missing_file"
  BY <1>3, <1>7, Unforeseen
<1>8. CASE f \in {"path", "policy", "missing_artifact"} /\ w \in {"WRITE-FILE", "USE-ARTIFACT"}
  <2>1. machine.stack # <<>>
    <3>1. Len(machine.stack) # 0
      BY <1>8, TakesOne, <1>a, Zenon
    <3> QED
      BY <3>1
  <2>2. a # 1 /\ c.prev = T[a - 1] /\ (T[a - 1].kind = "string" => path = T[a - 1].text)
    BY <2>1, Looks DEF path
  <2>b. Here' = Here /\ Here.at = a /\ Here.tokens = T
    BY <1>5, OneIs DEF StepOK, Here
  <2>c. a > 1
    BY <1>1, <2>1, Looks
  <2>d. SummaryHolds'
    BY <1>5 DEF SummaryHolds
  <2>5. CASE T[a - 1].kind = "string" /\ w = "WRITE-FILE" /\ Passes(CriticPath, path)
    <3>1. ~Alike(T[a - 1].text)
      <4> HIDE DEF T
      <4>1. T[a - 1].text = path
        BY <2>2, <2>5
      <4>2. ~Passes(HostPath, path)
        BY <1>4, <1>8, <2>5
      <4>3. ~Alike(path)
        BY <2>5, <4>2, Apart
      <4> QED
        BY <4>1, <4>3
    <3>2. NamesFile(T, a - 1)
      <4>1. T[a] = Word("WRITE-FILE")
        BY <1>1, <2>5, TokenIs
      <4>2. a - 1 \in DOMAIN T /\ (a - 1) + 1 \in DOMAIN T /\ (a - 1) + 1 = a
        BY <1>1, <2>c
      <4> QED
        BY <2>5, <4>1, <4>2 DEF NamesFile
    <3>3. AdmittedRuns'
      <4> HIDE DEF T
      <4> QED
        BY <1>3, <1>8, <2>b, <2>c, <3>1, <3>2 DEF AdmittedRuns
    <3> QED
      BY <1>5, <2>d, <3>3 DEF Fine, CriticIsExact
  <2>3. CASE T[a - 1].kind = "string" /\ ~(w = "WRITE-FILE" /\ Passes(CriticPath, path))
    <3>1. LiteralErrors(w, c.prev) # {}
      <4> HIDE DEF c, T
      <4>1. c.prev.kind = "string" /\ c.prev.text = path
        BY <2>1, <2>2, <2>3, Looks DEF path, T, c
      <4>2. CASE w = "WRITE-FILE"
        BY <2>3, <4>1, <4>2 DEF LiteralErrors
      <4>3. CASE w = "USE-ARTIFACT"
        BY <1>4, <1>8, <4>1, <4>3 DEF LiteralErrors
      <4> QED
        BY <1>8, <4>2, <4>3
    <3>2. d.errors # {}
      <4> HIDE DEF c, d
      <4> QED
        BY <1>2, <3>1 DEF Said
    <3> QED
      BY <1>2, <1>5, <3>2, Foreseen
  <2>4. CASE T[a - 1].kind # "string"
    <3>1. AdmittedRuns'
      <4> HIDE DEF T
      <4> QED
        BY <1>3, <1>8, <2>4, <2>b, <2>c DEF AdmittedRuns
    <3> QED
      BY <1>5, <2>d, <3>1 DEF Fine, CriticIsExact
  <2> QED
    BY <2>3, <2>4, <2>5
<1>9. CASE f \in {"path", "policy", "missing_artifact"} /\ w \notin {"WRITE-FILE", "USE-ARTIFACT"}
  <2>1. Here' = Here
    BY <1>5 DEF Here
  <2>2. Token' = Token
    BY <2>1 DEF Token
  <2>3. AdmittedRuns'
    BY <1>1, <1>3, <1>9, <2>2 DEF AdmittedRuns
  <2>4. SummaryHolds'
    BY <1>5 DEF SummaryHolds
  <2> QED
    BY <1>5, <2>3, <2>4 DEF Fine, CriticIsExact
<1> QED
  BY <1>4, <1>6, <1>7, <1>8, <1>9

\* A word of the host that goes through: the literal in front was not refused by the
\* critic either, unless they resolve it apart, nor was the effect, but for the read of
\* USE-ARTIFACT.
LEMMA HostSucceeds ==
    ASSUME NEW a, StepOK(a), Perform, NEW w \in HostWords,
           Lowered[a].kind = "word", Lowered[a].text = w, Succeeds(machine, w, grant, machine')
    PROVE  Fine
<1> DEFINE T == Lowered
           c == Now(a - 1)
           d == Now(a)
           path == PathOf(machine)
           effects == IF w = "USE-ARTIFACT" THEN {"read"} ELSE Needs(w)
<1>1. /\ a \in 1 .. Len(T) /\ Len(T) \in Nat /\ T[a] \in Tokens /\ colon' = colon
      /\ frames' = IF machine'.status = "runs" THEN Goto(a + 1) ELSE frames
      /\ c.depth \in Nat /\ (a = 1 => c.prev = Word("")) /\ Beside(T, a, c)
  BY Performed
<1>2. Said(c, w, d)
  BY Hosted
<1>b. a \in Nat /\ 1 <= a
  <2>1. a \in 1 .. Len(T) /\ Len(T) \in Nat
    BY <1>1
  <2> HIDE DEF T
  <2> QED
    BY <2>1
<1>a. Len(Wants[w]) <= Len(machine.stack) /\ Len(machine.stack) \in Nat
  BY StackLen DEF Succeeds
<1>3. /\ HostFault(machine, w, path, grant) = "none"
      /\ machine'.status = "runs" /\ machine'.used = machine.used \cup Needs(w)
      /\ IsSeq(machine'.stack)
      /\ Len(machine'.stack) = Len(machine.stack) - Len(Wants[w]) + Gives[w]
  BY DEF Succeeds, StepOK
<1>4. /\ Needs(w) \subseteq grant
      /\ w = "WRITE-FILE" => Passes(HostPath, path)
      /\ w = "USE-ARTIFACT" => path \in DOMAIN Artifacts
  BY <1>3, Faults
<1>5. /\ c.mode = "plain" /\ DOMAIN colon = c.words
      /\ c.errors # {} => Differs(T, a)
      /\ Len(machine.stack) = c.depth /\ machine.used \subseteq c.effects
      /\ c.effects \subseteq grant \cup {"read"}
      /\ "read" \in c.effects \ grant => \E i \in 1 .. a - 1 : T[i] = Word("USE-ARTIFACT")
  BY <1>1 DEF Beside
<1>6. ASSUME LiteralErrors(w, c.prev) # {}
      PROVE  a > 1 /\ NamesFile(T, a - 1) /\ ~Alike(T[a - 1].text)
  <2>1. CASE w \notin {"WRITE-FILE", "USE-ARTIFACT"}
    BY <1>6, <2>1 DEF LiteralErrors
  <2>2. CASE w \in {"WRITE-FILE", "USE-ARTIFACT"}
    <3>1. machine.stack # <<>>
      <4>1. Len(machine.stack) # 0
        BY <2>2, TakesOne, <1>a, Zenon
      <4> QED
        BY <4>1
    <3>2. a # 1 /\ c.prev = T[a - 1] /\ (c.prev.kind = "string" => path = c.prev.text)
      BY <3>1, Looks
    <3>3. T[a - 1].kind = "string" /\ w = "WRITE-FILE" /\ ~Passes(CriticPath, path)
      <4> HIDE DEF c, path, T
      <4> QED
        BY <1>4, <1>6, <2>2, <3>2 DEF LiteralErrors
    <3>4. ~Alike(T[a - 1].text)
      BY <1>4, <3>2, <3>3, Apart
    <3>5. T[a] = Word("WRITE-FILE")
      <4>1. T[a] \in Tokens /\ T[a].kind = "word" /\ T[a].text = "WRITE-FILE"
        BY <1>1, <3>3
      <4> QED
        BY <4>1, TokenIs, Zenon
    <3>6. a - 1 \in DOMAIN T /\ (a - 1) + 1 \in DOMAIN T /\ (a - 1) + 1 = a /\ a > 1
      <4>1. DOMAIN T = 1 .. Len(T)
        BY LoweredIs, LenProperties DEF StepOK
      <4>2. a \in 1 .. Len(T) /\ Len(T) \in Nat /\ a # 1
        BY <1>1, <3>2
      <4> HIDE DEF T
      <4> QED
        BY <1>b, <4>1, <4>2
    <3> QED
      BY <3>3, <3>4, <3>5, <3>6 DEF NamesFile
  <2> QED
    BY <2>1, <2>2
<1>7. Len(Wants[w]) \in Nat /\ Gives[w] \in Nat
  BY WordIs
<1>8. Needs(w) \subseteq effects /\ effects \subseteq Needs(w) \cup {"read"}
      /\ ("read" \in effects \ grant => w = "USE-ARTIFACT")
  <2>1. w = "USE-ARTIFACT" => Needs(w) = {}
    BY DEF Needs
  <2> QED
    BY <1>4, <2>1
<1> HIDE DEF T, c, d, effects
<1>9. /\ d.mode = "plain" /\ d.errors = c.errors \cup LiteralErrors(w, c.prev)
      /\ DOMAIN colon' = d.words
      /\ d.depth = c.depth - Len(Wants[w]) + Gives[w] /\ d.effects = c.effects \cup effects
  <2>1. ~(c.depth < Len(Wants[w]))
    <3>1. Len(machine.stack) = c.depth
      BY <1>5
    <3> QED
      BY <1>a, <1>7, <3>1
  <2>2. /\ d.depth = c.depth - Len(Wants[w]) + Gives[w] /\ d.effects = c.effects \cup effects
        /\ d.errors = (c.errors \cup {}) \cup LiteralErrors(w, c.prev)
        /\ d.mode = c.mode /\ d.words = c.words
    BY <1>2, <2>1 DEF Said, effects
  <2> QED
    BY <1>1, <1>5, <2>2
<1>10. /\ Len(machine'.stack) = d.depth /\ machine'.used \subseteq d.effects
       /\ d.effects \subseteq grant \cup {"read"}
  BY <1>3, <1>4, <1>5, <1>8, <1>9
<1>11. T' = T /\ grant' = grant /\ d' = d
  BY StaysSame DEF StepOK, Running, T, d, Now
<1>12. PICK b : b = a + 1
  OBVIOUS
<1>13. b - 1 = a /\ a \in 1 .. b - 1 /\ \A i \in 1 .. a - 1 : i \in 1 .. b - 1
  BY <1>b, <1>12
<1>14. "read" \in d.effects \ grant => \E i \in 1 .. b - 1 : T[i] = Word("USE-ARTIFACT")
  <2> SUFFICES ASSUME "read" \in d.effects \ grant PROVE \E i \in 1 .. b - 1 : T[i] = Word("USE-ARTIFACT")
    OBVIOUS
  <2>1. CASE "read" \in c.effects
    BY <1>5, <1>13, <2>1
  <2>2. CASE "read" \in effects
    <3>1. w = "USE-ARTIFACT"
      BY <1>8, <2>2
    <3>2. T[a] = Word("USE-ARTIFACT")
      <4>1. T[a] \in Tokens /\ T[a].kind = "word" /\ T[a].text = "USE-ARTIFACT"
        BY <1>1, <3>1 DEF T
      <4> QED
        BY <4>1, TokenIs, Zenon
    <3> QED
      BY <1>13, <3>2
  <2> QED
    BY <1>9, <2>1, <2>2
<1>15. T[b - 1].kind # "string"
  BY <1>13 DEF T
<1>c. d.errors # {} => Differs(T, b)
  <2>1. CASE c.errors # {}
    BY <1>5, <1>13, <2>1 DEF Differs
  <2>2. CASE LiteralErrors(w, c.prev) # {}
    <3>1. a - 1 \in 1 .. b - 1
      BY <1>b, <1>6, <1>13, <2>2
    <3> QED
      BY <1>6, <2>2, <3>1 DEF Differs
  <2> QED
    BY <1>9, <2>1, <2>2
<1>16. Beside(T, b, d)'
  BY <1>3, <1>9, <1>10, <1>11, <1>14, <1>15, <1>c DEF Beside, Differs, IsSeq
<1> QED
  BY <1>1, <1>3, <1>12, <1>16, Goes DEF T, d

LEMMA Performs ==
    ASSUME NEW a, StepOK(a), Perform
    PROVE  Fine
<1> DEFINE t == Lowered[a]
           w == t.text
           c == Now(a - 1)
<1>1. CASE t.kind # "word"
  BY <1>1, Literals
<1>2. CASE t.kind = "word" /\ w \notin HostWords
  BY <1>2, Strangers
<1>3. CASE t.kind = "word" /\ w \in HostWords
  <2>1. /\ machine' = Do(machine, t, grant) /\ Beside(Lowered, a, c) /\ IsMachine(machine)
        /\ a \in 0 .. Len(Lowered)
    <3>1. a \in 1 .. Len(Lowered) /\ Len(Lowered) \in Nat /\ machine' = Do(machine, t, grant)
          /\ Beside(Lowered, a, c)
      BY Performed
    <3>2. a \in 0 .. Len(Lowered)
      BY <3>1
    <3> QED
      BY <3>1, <3>2 DEF StepOK
  <2>2. IsSeq(machine.stack) /\ Len(machine.stack) = c.depth
    BY <2>1 DEF Beside
  <2>3. \/ Underflows(machine, w, machine') \/ machine'.status = "type"
        \/ Refuses(machine, w, grant, machine') \/ Succeeds(machine, w, grant, machine')
    <3> HIDE DEF t
    <3> QED
      BY <1>3, <2>1, <2>2, DoIs
  <2>4. CASE Underflows(machine, w, machine')
    <3>1. machine'.status = "underflow" /\ c.depth < Len(Wants[w])
      BY <2>2, <2>4 DEF Underflows
    <3>2. Said(c, w, Now(a))
      BY <1>3, Hosted
    <3>3. Now(a).errors # {}
      <4> HIDE DEF c, w
      <4> QED
        BY <3>1, <3>2 DEF Said
    <3> QED
      BY <2>1, <3>1, <3>3, Foreseen
  <2>5. CASE machine'.status = "type"
    BY <2>5, Unforeseen
  <2>6. CASE Refuses(machine, w, grant, machine')
    BY <1>3, <2>6, HostRefused
  <2>7. CASE Succeeds(machine, w, grant, machine')
    BY <1>3, <2>7, HostSucceeds
  <2> QED
    BY <2>3, <2>4, <2>5, <2>6, <2>7
<1> QED
  BY <1>1, <1>2, <1>3

\* A straight program goes on beside the critic until it ends as the critic said.
StraightRuns ==
    /\ Hosting /\ program \in Programs
    /\ Straight => IF machine.status = "runs" THEN InStep(Lowered) ELSE CriticIsExact

LEMMA Starts == Init => StraightRuns
<1> SUFFICES ASSUME Init PROVE StraightRuns
  OBVIOUS
<1>1. /\ program \in Programs /\ frames = <<[tokens |-> Lowered, at |-> 1]>>
      /\ colon = <<>> /\ machine = Fresh
  BY DEF Init, Lowered
<1>2. /\ IsMachine(machine) /\ machine.stack = <<>> /\ machine.used = {} /\ machine.status = "runs"
  BY <1>1 DEF Fresh, IsMachine
<1>3. Lowered \in Seq(Tokens) /\ Len(Lowered) \in Nat
  BY <1>1, LoweredIs
<1>4. One(Lowered, 1)
  BY <1>1 DEF One
<1>5. Beside(Lowered, 1, WalkStates(Lowered)[1 - 1])
  <2>1. WalkStates(Lowered)[1 - 1] = NewWalk
    BY <1>3, WalkedIs
  <2>2. IsSeq(machine.stack) /\ Len(machine.stack) = 0
    <3>1. machine.stack \in Seq({})
      BY <1>2
    <3> QED
      BY <1>2, <3>1 DEF IsSeq
  <2>3. DOMAIN colon = {}
    BY <1>1
  <2>4. /\ NewWalk.mode = "plain" /\ NewWalk.errors = {} /\ NewWalk.words = {}
        /\ NewWalk.depth = 0 /\ NewWalk.effects = {}
    BY DEF NewWalk
  <2> HIDE DEF NewWalk
  <2>5. Beside(Lowered, 1, NewWalk)
    BY <1>2, <2>2, <2>3, <2>4 DEF Beside
  <2> QED
    BY <2>1, <2>5
<1>6. InStep(Lowered)
  BY <1>3, <1>4, <1>5 DEF InStep
<1> QED
  BY <1>1, <1>2, <1>6, HostStarts DEF StraightRuns

LEMMA RunsOn == StraightRuns /\ [Next]_vars => StraightRuns'
<1> SUFFICES ASSUME StraightRuns, [Next]_vars PROVE StraightRuns'
  OBVIOUS
<1>1. IsMachine(machine) /\ program \in Programs
  BY DEF StraightRuns, Hosting
<1>2. Hosting'
  BY HostStays DEF StraightRuns
<1>3. CASE UNCHANGED vars
  <2>1. UNCHANGED <<program, grant, frames, colon, machine>>
    BY <1>3 DEF vars
  <2> QED
    BY <1>2, <2>1 DEF StraightRuns, InStep, One, Beside, CriticIsExact, AdmittedRuns, SummaryHolds,
                Here, Token, Lowered, Admitted, Straight, Top
<1>4. CASE Next
  <2>1. Running
    BY <1>4 DEF Next, Return, Compile, Branch, Stray, Call, Perform
  <2>2. program' = program /\ grant' = grant /\ machine.status = "runs"
    BY <2>1 DEF Running
  <2>3. SUFFICES ASSUME Straight PROVE Fine
    BY <1>1, <1>2, <2>2, StaysSame DEF StraightRuns, Fine
  <2>4. PICK a \in 1 .. Len(Lowered) + 1 : One(Lowered, a) /\ Beside(Lowered, a, Now(a - 1))
    BY <2>2, <2>3 DEF StraightRuns, InStep, Now
  <2>5. StepOK(a)
    BY <1>1, <2>1, <2>2, <2>3, <2>4 DEF StepOK
  <2>6. CASE Return
    BY <2>5, <2>6, Returns
  <2>7. CASE Compile
    BY <2>5, <2>7, Compiles
  <2>8. CASE Stray
    BY <2>5, <2>8, Strays
  <2>9. CASE Perform
    BY <2>5, <2>9, Performs
  <2>10. ~Branch /\ ~Call
    BY <2>5, NoBranches
  <2> QED
    BY <1>4, <2>6, <2>7, <2>8, <2>9, <2>10 DEF Next
<1> QED
  BY <1>3, <1>4

\* The critic and the machine agree on every straight program: one it accepts never runs
\* out of stack, meets an unknown word, an effect it was not allowed or bad syntax, and the
\* host only refuses what no literal named, or a file that the two resolve apart; one that
\* runs to its end has the depth and the effects the critic said, and was accepted, but for
\* such a file and for the read effect of USE-ARTIFACT (preflight.validate and
\* forth.ForthVM).
THEOREM CriticIsExactAlways == Spec => []CriticIsExact
<1>1. StraightRuns => CriticIsExact
  <2>1. ~Straight => CriticIsExact
    BY DEF CriticIsExact, AdmittedRuns, SummaryHolds
  <2>2. machine.status = "runs" => CriticIsExact
    BY DEF CriticIsExact, AdmittedRuns, SummaryHolds
  <2> QED
    BY <2>1, <2>2 DEF StraightRuns
<1> QED
  BY <1>1, Starts, RunsOn, PTL DEF Spec
=============================================================================
