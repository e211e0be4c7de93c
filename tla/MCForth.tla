------------------------------ MODULE MCForth ------------------------------
\* Small programs for Forth: every straight one of up to three tokens, and definitions,
\* calls and branches, some of them malformed.
EXTENDS Forth

\* a: an artifact. q: a file that is there, and that one policy denies. up: ../up. abs: a path
\* under /workspace. in: one under the real workspace. ln: a symbolic link to q.
Literals == {Str(s) : s \in {"a", "q", "up", "abs", "in", "ln"}} \cup {Num(0), Num(2)}
Own      == Word("F")
Plain    == Literals \cup {Word(w) : w \in HostWords}
Short    == {Str("a"), Str("q"), Num(0), Word("DROP"), Word("WRITE-FILE"), Word("+")}

SeqsOf(S, n) == UNION {[1 .. k -> S] : k \in 0 .. n}

Of(tokens)         == [tokens |-> tokens, structured |-> FALSE, flat |-> <<>>]
As(tokens, flat)   == [tokens |-> tokens, structured |-> TRUE, flat |-> flat]

Colon(name, body) == <<Word(":"), Word(name)>> \o body \o <<Word(";")>>
If(a, b)          == <<Word("IF")>> \o a \o <<Word("ELSE")>> \o b \o <<Word("THEN")>>
If1(a)            == <<Word("IF")>> \o a \o <<Word("THEN")>>

Ones == SeqsOf(Short, 1)

StraightOnes == {As(s, Lower(s)) : s \in SeqsOf(Plain, 3)}
Writes == {As(<<x, y, Word("WRITE-FILE"), z>>, Lower(<<x, y, Word("WRITE-FILE"), z>>)) :
               x \in Literals, y \in Literals \cup {Word("DUP")}, z \in Plain}
Calls == {As(Colon("F", b) \o a \o <<Own>> \o c, a \o Lower(b) \o c) :
              b \in SeqsOf(Short, 2), a \in Ones, c \in Ones}
Branches == {As(<<Num(n)>> \o If(a, b) \o c, (IF n = 0 THEN b ELSE a) \o c) :
                 n \in {0, 2}, a \in Ones, b \in Ones, c \in Ones}
            \cup {As(<<Num(n)>> \o If1(a) \o c, (IF n = 0 THEN <<>> ELSE a) \o c) :
                 n \in {0, 2}, a \in Ones, c \in Ones}
Nested == {As(<<Num(m), Num(n)>> \o If(a \o If(b, <<>>), c),
              IF n = 0 THEN <<Num(m)>> \o c
              ELSE IF a = <<Num(0)>> THEN <<Num(m)>> ELSE (IF m = 0 THEN <<>> ELSE b)) :
                  m \in {0, 2}, n \in {0, 2}, a \in {<<>>, <<Num(0)>>}, b \in Ones, c \in Ones}
Malformed == {Of(s) : s \in SeqsOf({Word(":"), Word(";"), Word("IF"), Word("ELSE"),
                                    Word("THEN"), Own, Num(0)}, 4)}
Recursive == {Of(Colon("F", b \o <<Own>> \o c) \o <<Own>>) : b \in Ones, c \in Ones}

MCPrograms == StraightOnes \cup Writes \cup Calls \cup Branches \cup Nested \cup Malformed
              \cup Recursive
MCGrants    == {{"read", "write", "exec"}, {"read", "write"}, {"write"}}
MCArtifacts == "a" :> "x"
MCBefore    == "q" :> "y"
Relative    == [s \in {"a", "b", "q", "x", "y", "rec", ".", ""} |-> IF s = "." THEN "" ELSE s]
MCCriticPath == Relative @@ ("abs" :> "b" @@ "ln" :> "ln")
MCHostPath  == Relative @@ ("in" :> "b" @@ "ln" :> "q")
MCPolicies  == {{"a", "b", "x", "q", "ln"}, {"a", "b", "x", "ln"}}
MCSkipped   == {"report"}
MCManifests == {"b"}
MCDischarge == {"report"}
MCReceipts  == {"receipt"}
MCRecord    == "rec"
=============================================================================
