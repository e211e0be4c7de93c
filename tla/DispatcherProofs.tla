-------------------------- MODULE DispatcherProofs --------------------------
(***************************************************************************)
(* Theorems about Dispatcher, for every set of obligations and dispatchers *)
(* and any number of faults. The argument follows a token: it is in one    *)
(* mailbox as a claim, then one task's, then in one mailbox as that task's *)
(* end, and then nowhere; while it is somewhere its end is not recorded.   *)
(***************************************************************************)
EXTENDS Dispatcher, SequenceTheorems, TLAPS

-----------------------------------------------------------------------------
\* The inductive invariant.

\* The messages of mailbox s, and that no two of them are about one claim.
Mail(s) == {s[i] : i \in DOMAIN s}
Once(s) == \A i, k \in DOMAIN s : Token(s[i]) = Token(s[k]) => i = k

DownIsEmpty == \A d \in Dispatchers : ~up[d] => inbox[d] = <<>> /\ running[d] = {}

\* Only a dispatcher that died leaves tasks nobody hears of.
NoOrphans == faults = 0 => \A x \in tasks : x.owner # Nobody

InOnePlace ==
    /\ \A d \in Dispatchers : Once(inbox[d])
    /\ \A d, e \in Dispatchers : \A m \in Mail(inbox[d]), n \in Mail(inbox[e]) :
          Token(m) = Token(n) => d = e
    /\ \A d \in Dispatchers : \A m \in Mail(inbox[d]), x \in tasks : Token(m) # Token(x)
    /\ \A x, y \in tasks : Token(x) = Token(y) => x = y

\* RunningIsTracked, token by token.
Alive(d, t) == \E x \in tasks : x.owner = d /\ Token(x) = t
Ended(d, t) == \E m \in Mail(inbox[d]) : m.kind # "claimed" /\ Token(m) = t

TableIsExact ==
    \A d \in Dispatchers : \A t \in Tokens : t \in running[d] <=> Alive(d, t) \/ Ended(d, t)

\* Where a token is, mailbox or task, it was made by a claim of the board.
TokensAreOld ==
    /\ \A x \in tasks : x.gen <= board[x.job].gen
    /\ \A d \in Dispatchers : \A m \in Mail(inbox[d]) : m.gen <= board[m.job].gen
    /\ \A e \in ledger : e.gen <= board[e.job].gen

Somewhere(t) ==
    \/ \E x \in tasks : Token(x) = t
    \/ \E d \in Dispatchers : \E m \in Mail(inbox[d]) : Token(m) = t

\* Without a fault a claim is current until its task has ended, and every lease is in a
\* mailbox or a task's.
CurrentUntilEnded ==
    faults = 0 =>
        /\ \A x \in tasks : Current(Token(x))
        /\ \A d \in Dispatchers : \A m \in Mail(inbox[d]) :
              m.kind = "claimed" => Current(Token(m))
        /\ \A j \in Jobs : board[j].at = "held" =>
              Somewhere([job |-> j, gen |-> board[j].gen])

\* A claim whose end is recorded is nowhere any more, and its end is the only one.
EndedIsGone ==
    /\ \A e \in ledger : e.type # "spawned" => ~Somewhere(Token(e))
    /\ OneOutcomePerClaim

ResultsReturned ==
    \A d \in Dispatchers : \A m \in Mail(inbox[d]) :
        m.kind = "result" => Token(m) \in returned

IInv ==
    /\ TypeOK
    /\ DownIsEmpty
    /\ NoOrphans
    /\ InOnePlace
    /\ TableIsExact
    /\ TokensAreOld
    /\ CurrentUntilEnded
    /\ EndedIsGone
    /\ ResultsReturned
    /\ AckedMeansWorked

-----------------------------------------------------------------------------
\* Mailboxes.

\* Popping a mailbox with one message per claim takes out its head and nothing else.
LEMMA PopMail ==
    ASSUME NEW s \in Seq(Messages), s # <<>>, Once(s)
    PROVE  /\ Tail(s) \in Seq(Messages) /\ Once(Tail(s))
           /\ Head(s) \in Mail(s) /\ Head(s) \in Messages
           /\ Mail(Tail(s)) = Mail(s) \ {Head(s)}
           /\ \A m \in Mail(Tail(s)) : Token(m) # Token(Head(s))
<1>1. /\ Len(s) \in Nat \ {0} /\ DOMAIN s = 1 .. Len(s) /\ Head(s) = s[1]
      /\ Tail(s) \in Seq(Messages) /\ Len(Tail(s)) = Len(s) - 1
      /\ DOMAIN Tail(s) = 1 .. Len(s) - 1
      /\ \A i \in 1 .. Len(s) - 1 : Tail(s)[i] = s[i + 1]
  BY HeadTailProperties, LenProperties, EmptySeq
<1>2. Once(Tail(s))
  BY <1>1 DEF Once
<1>3. /\ Head(s) \in Mail(s) /\ Head(s) \in Messages
  BY <1>1 DEF Mail
<1>4. \A m \in Mail(Tail(s)) : m \in Mail(s) /\ Token(m) # Token(Head(s))
  BY <1>1 DEF Mail, Once
<1>5. ASSUME NEW m \in Mail(s), m # Head(s)
      PROVE  m \in Mail(Tail(s))
  <2>1. PICK i \in 1 .. Len(s) : m = s[i]
    BY <1>1 DEF Mail
  <2>2. i - 1 \in 1 .. Len(s) - 1 /\ s[i] = Tail(s)[i - 1]
    BY <1>1, <1>5, <2>1
  <2> QED
    BY <1>1, <2>1, <2>2 DEF Mail
<1> QED
  BY <1>1, <1>2, <1>3, <1>4, <1>5

\* Sending a message about a claim no message of the mailbox is about keeps it so.
LEMMA SendMail ==
    ASSUME NEW s \in Seq(Messages), Once(s), NEW m \in Messages,
           \A n \in Mail(s) : Token(n) # Token(m)
    PROVE  /\ Append(s, m) \in Seq(Messages) /\ Once(Append(s, m))
           /\ Mail(Append(s, m)) = Mail(s) \cup {m}
<1>1. /\ Len(s) \in Nat /\ DOMAIN s = 1 .. Len(s)
      /\ Append(s, m) \in Seq(Messages) /\ DOMAIN Append(s, m) = 1 .. Len(s) + 1
      /\ \A i \in 1 .. Len(s) : Append(s, m)[i] = s[i]
      /\ Append(s, m)[Len(s) + 1] = m
  BY AppendProperties, LenProperties
<1>2. Once(Append(s, m))
  BY <1>1 DEF Once, Mail
<1>3. Mail(Append(s, m)) = Mail(s) \cup {m}
  BY <1>1 DEF Mail
<1> QED
  BY <1>1, <1>2, <1>3

LEMMA MailTypes ==
    ASSUME NEW s \in Seq(Messages)
    PROVE  Mail(s) \subseteq Messages
  BY DEF Mail

LEMMA EmptyMail == Mail(<<>>) = {} /\ Once(<<>>)
  BY DEF Mail, Once

-----------------------------------------------------------------------------
\* The space acts, or a caller: no mailbox, task or table changes.

Places == [at : {"absent", "free", "held", "done"}, gen : Nat]

\* A place of a board is its record of where and how often, and is held or not.
LEMMA PlaceTypes ==
    ASSUME NEW b \in [Jobs -> Places], NEW j \in Jobs
    PROVE  /\ b[j].gen \in Nat /\ b[j].at \in {"absent", "free", "held", "done"}
           /\ \A g \in Nat : b[j] = Space!Held(g) <=> b[j].at = "held" /\ b[j].gen = g
           /\ b[j] = Space!Absent <=> b[j].at = "absent" /\ b[j].gen = 0
  BY DEF Places, Space!Held, Space!Absent

\* What the types say of one task, message or event.
LEMMA ElementTypes ==
    ASSUME TypeOK
    PROVE  /\ board \in [Jobs -> Places]
           /\ \A x \in tasks : /\ x.job \in Jobs /\ x.gen \in Nat \ {0}
                               /\ x.owner \in Dispatchers \cup {Nobody}
                               /\ Token(x) \in Tokens
                               /\ Token(x).job = x.job /\ Token(x).gen = x.gen
           /\ \A d \in Dispatchers : \A m \in Mail(inbox[d]) :
                  /\ m \in Messages /\ m.job \in Jobs /\ m.gen \in Nat \ {0}
                  /\ Token(m) \in Tokens
                  /\ Token(m).job = m.job /\ Token(m).gen = m.gen
           /\ \A e \in ledger : /\ e.job \in Jobs /\ e.gen \in Nat \ {0}
                                /\ Token(e) \in Tokens
                                /\ Token(e).job = e.job /\ Token(e).gen = e.gen
           /\ \A d \in Dispatchers : inbox[d] \in Seq(Messages) /\ running[d] \subseteq Tokens
<1>1. \A d \in Dispatchers : Mail(inbox[d]) \subseteq Messages
  BY MailTypes DEF TypeOK
<1> QED
  BY <1>1 DEF TypeOK, Places, Messages, Tokens, Token

LEMMA PostKeeps ==
    ASSUME IInv, NEW j \in Jobs, Post(j)
    PROVE  IInv'
<1> USE DEF IInv
<1>1. /\ board' = [board EXCEPT ![j] = [at |-> "free", gen |-> 0]]
      /\ board[j].at = "absent" /\ board[j].gen = 0
  BY DEF Post, Space!Becomes, Space!Free, Space!Absent
<1>2. /\ UNCHANGED <<up, taking, inbox, running, tasks, idle, ledger, returned, faults>>
      /\ \A i \in Jobs : board'[i].gen = board[i].gen /\ (i # j => board'[i] = board[i])
      /\ board'[j].at = "free"
  BY <1>1 DEF Post, TypeOK
<1>3. TypeOK'
  BY <1>1, <1>2 DEF TypeOK
<1>4. (DownIsEmpty /\ NoOrphans /\ InOnePlace /\ TableIsExact /\ EndedIsGone /\ ResultsReturned)'
  BY <1>2 DEF DownIsEmpty, NoOrphans, InOnePlace, TableIsExact, EndedIsGone, ResultsReturned,
              Alive, Ended, Somewhere, OneOutcomePerClaim
<1>5. TokensAreOld'
  BY <1>2, ElementTypes DEF TokensAreOld
<1>6. CurrentUntilEnded'
  <2>1. \A t \in Tokens : Current(t) => Current(t)'
    BY <1>1, <1>2, ElementTypes, PlaceTypes DEF Current, Space!Held, Tokens
  <2>2. \A i \in Jobs : board'[i].at = "held" => board[i].at = "held"
    BY <1>1, <1>2
  <2> QED
    BY <1>2, <2>1, <2>2, ElementTypes DEF CurrentUntilEnded, Somewhere
<1>7. AckedMeansWorked'
  BY <1>1, <1>2 DEF AckedMeansWorked, TypeOK
<1> QED
  BY <1>3, <1>4, <1>5, <1>6, <1>7

\* Where a token is, it is tended: a dispatcher with mail is up.
LEMMA SomewhereIsTended ==
    ASSUME DownIsEmpty, NEW t
    PROVE  Somewhere(t) <=> Tended(t)
<1>1. \A d \in Dispatchers : Mail(inbox[d]) # {} => up[d]
  BY EmptyMail DEF DownIsEmpty
<1> QED
  BY <1>1 DEF Somewhere, Tended, Mail

LEMMA LapsesKeeps ==
    ASSUME IInv, NEW j \in Jobs, LeaseLapses(j) \/ LeaseLapsesLate(j)
    PROVE  IInv'
<1> USE DEF IInv
<1> DEFINE lost == [job |-> j, gen |-> board[j].gen]
<1>1. /\ board[j].at = "held"
      /\ board' = [board EXCEPT ![j] = [at |-> "free", gen |-> board[j].gen]]
      /\ UNCHANGED <<up, taking, inbox, running, tasks, idle, ledger, returned>>
      /\ \/ faults' = faults /\ ~Tended(lost)
         \/ faults < MaxFaults /\ faults' = faults + 1
  <2>1. board[j] = Space!Held(board[j].gen)
    BY ElementTypes, PlaceTypes DEF LeaseLapses, LeaseLapsesLate, Lapses
  <2> QED
    BY <2>1 DEF LeaseLapses, LeaseLapsesLate, Lapses, ExpireClaim, Current, Space!Becomes,
                Space!Free
<1>2. /\ \A i \in Jobs : board'[i].gen = board[i].gen /\ (i # j => board'[i] = board[i])
      /\ board'[j].at = "free"
  BY <1>1 DEF TypeOK
<1>3. TypeOK'
  BY <1>1, DispatcherAssumption DEF TypeOK
<1>4. (DownIsEmpty /\ InOnePlace /\ TableIsExact /\ EndedIsGone /\ ResultsReturned)'
  BY <1>1 DEF DownIsEmpty, InOnePlace, TableIsExact, EndedIsGone, ResultsReturned,
              Alive, Ended, Somewhere, OneOutcomePerClaim
<1>8. NoOrphans'
  BY <1>1, DispatcherAssumption DEF NoOrphans, TypeOK
<1>5. TokensAreOld'
  BY <1>1, <1>2, ElementTypes DEF TokensAreOld
<1>6. CurrentUntilEnded'
  <2> SUFFICES ASSUME faults' = 0
               PROVE  CurrentUntilEnded'
    BY DEF CurrentUntilEnded
  <2>1. faults = 0 /\ ~Somewhere(lost)
    BY <1>1, SomewhereIsTended, DispatcherAssumption DEF TypeOK
  <2>2. \A t \in Tokens : Somewhere(t) /\ Current(t) => Current(t)'
    <3> SUFFICES ASSUME NEW t \in Tokens, Somewhere(t), Current(t)
                 PROVE  Current(t)'
      OBVIOUS
    <3>1. t.job \in Jobs /\ t.gen \in Nat /\ t = [job |-> t.job, gen |-> t.gen]
      BY DEF Tokens
    <3>2. t.job # j
      BY <2>1, <3>1, ElementTypes, PlaceTypes DEF Current
    <3> QED
      BY <1>2, <3>1, <3>2 DEF Current, Space!Held
  <2>3. \A i \in Jobs : board'[i].at = "held" => board'[i] = board[i]
    BY <1>1, <1>2
  <2>4. \A d \in Dispatchers : \A m \in Mail(inbox[d]) : Somewhere(Token(m))
    BY DEF Somewhere
  <2>5. \A x \in tasks : Somewhere(Token(x))
    BY DEF Somewhere
  <2> QED
    BY <1>1, <2>1, <2>2, <2>3, <2>4, <2>5, ElementTypes DEF CurrentUntilEnded, Somewhere
<1>7. AckedMeansWorked'
  BY <1>1, <1>2 DEF AckedMeansWorked, TypeOK
<1> QED
  BY <1>3, <1>4, <1>5, <1>6, <1>7, <1>8

LEMMA AwaitIdleKeeps ==
    ASSUME IInv, NEW d \in Dispatchers, AwaitIdle(d)
    PROVE  IInv'
<1> USE DEF IInv
<1>1. UNCHANGED <<board, up, taking, inbox, running, tasks, ledger, returned, faults>>
  BY DEF AwaitIdle
<1>2. TypeOK'
  BY DEF AwaitIdle, TypeOK
<1> QED
  BY <1>1, <1>2
     DEF DownIsEmpty, NoOrphans, InOnePlace, TableIsExact, EndedIsGone, ResultsReturned, TokensAreOld,
         CurrentUntilEnded, AckedMeansWorked, Alive, Ended, Somewhere, OneOutcomePerClaim,
         Current

-----------------------------------------------------------------------------
\* The taker sends a new claim.

LEMMA TakeKeeps ==
    ASSUME IInv, NEW d \in Dispatchers, NEW j \in Jobs, Take(d, j)
    PROVE  IInv'
<1> USE DEF IInv
<1> DEFINE new == [job |-> j, gen |-> board[j].gen + 1]
           msg == Message("claimed", new)
<1>1. /\ up[d] /\ board[j].at = "free"
      /\ board' = [board EXCEPT ![j] = Space!Held(board[j].gen + 1)]
      /\ taking' = [taking EXCEPT ![d] = FALSE]
      /\ inbox' = [inbox EXCEPT ![d] = Append(inbox[d], msg)]
      /\ UNCHANGED <<up, running, tasks, idle, ledger, returned, faults>>
  BY DEF Take, Space!Claim, Space!Becomes
<1>2. /\ board[j].gen \in Nat /\ new \in Tokens /\ msg \in Messages /\ Token(msg) = new
      /\ msg.kind = "claimed" /\ msg.job = j /\ msg.gen = board[j].gen + 1
  BY ElementTypes, PlaceTypes DEF Tokens, Messages, Message, Token
<1>3. /\ \A i \in Jobs : i # j => board'[i] = board[i]
      /\ board'[j].gen = board[j].gen + 1 /\ board'[j].at = "held"
      /\ board'[j] = Space!Held(board[j].gen + 1)
  BY <1>1, <1>2 DEF TypeOK, Space!Held
<1>4. /\ ~Somewhere(new)
      /\ \A e \in ledger : Token(e) # new
  BY <1>2, ElementTypes DEF TokensAreOld, Somewhere
<1>5. /\ inbox'[d] \in Seq(Messages) /\ Once(inbox'[d])
      /\ Mail(inbox'[d]) = Mail(inbox[d]) \cup {msg}
      /\ \A e \in Dispatchers : e # d => inbox'[e] = inbox[e]
  <2>1. \A n \in Mail(inbox[d]) : Token(n) # Token(msg)
    BY <1>2, <1>4 DEF Somewhere
  <2>2. Once(inbox[d]) /\ inbox[d] \in Seq(Messages)
    BY ElementTypes DEF InOnePlace
  <2>3. /\ Append(inbox[d], msg) \in Seq(Messages) /\ Once(Append(inbox[d], msg))
        /\ Mail(Append(inbox[d], msg)) = Mail(inbox[d]) \cup {msg}
    BY <1>2, <2>1, <2>2, SendMail
  <2> QED
    BY <1>1, <2>3 DEF TypeOK
<1>6. TypeOK'
  BY <1>1, <1>2, <1>5 DEF TypeOK, Space!Held
<1>7. (DownIsEmpty /\ NoOrphans)'
  BY <1>1, <1>5 DEF DownIsEmpty, NoOrphans
<1>8. InOnePlace'
  <2> HIDE DEF msg, new
  <2>1. \A e \in Dispatchers : \A m \in Mail(inbox'[e]) :
            m \in Mail(inbox[e]) \/ (e = d /\ m = msg)
    BY <1>5
  <2>2. \A e \in Dispatchers : \A m \in Mail(inbox[e]) : Token(m) # Token(msg)
    BY <1>2, <1>4 DEF Somewhere
  <2>3. \A e \in Dispatchers : Once(inbox'[e])
    BY <1>5 DEF InOnePlace
  <2>4. \A e, f \in Dispatchers : \A m \in Mail(inbox'[e]), n \in Mail(inbox'[f]) :
            Token(m) = Token(n) => e = f
    BY <2>1, <2>2 DEF InOnePlace
  <2>5. \A e \in Dispatchers : \A m \in Mail(inbox'[e]), x \in tasks : Token(m) # Token(x)
    BY <1>2, <1>4, <2>1 DEF InOnePlace, Somewhere
  <2> QED
    BY <1>1, <2>3, <2>4, <2>5 DEF InOnePlace
<1>9. (TableIsExact /\ ResultsReturned)'
  BY <1>1, <1>2, <1>5 DEF TableIsExact, ResultsReturned, Alive, Ended
<1>10. TokensAreOld'
  <2>1. \A i \in Jobs : /\ board[i].gen \in Nat /\ board'[i].gen \in Nat
                        /\ board[i].gen <= board'[i].gen
    BY <1>2, <1>3, ElementTypes, PlaceTypes
  <2>2. \A x \in tasks' : x.gen <= board'[x.job].gen
    BY <1>1, <2>1, ElementTypes DEF TokensAreOld
  <2>3. \A e \in ledger' : e.gen <= board'[e.job].gen
    BY <1>1, <2>1, ElementTypes DEF TokensAreOld
  <2>4. \A e \in Dispatchers : \A m \in Mail(inbox'[e]) : m.gen <= board'[m.job].gen
    BY <1>2, <1>3, <1>5, <2>1, ElementTypes DEF TokensAreOld
  <2> QED
    BY <2>2, <2>3, <2>4 DEF TokensAreOld
<1>11. CurrentUntilEnded'
  <2>1. \A t \in Tokens : Current(t) => Current(t)'
    BY <1>1, <1>3 DEF Current, Space!Held, Tokens
  <2>2. \A t : t = new => Current(t)'
    BY <1>3 DEF Current
  <2>3. \A i \in Jobs : board'[i].at = "held" => i = j \/ board'[i] = board[i]
    BY <1>3
  <2> SUFFICES ASSUME faults = 0
               PROVE  CurrentUntilEnded'
    BY <1>1 DEF CurrentUntilEnded
  <2>4. \A x \in tasks' : Current(Token(x))'
    BY <1>1, <2>1, ElementTypes DEF CurrentUntilEnded
  <2>5. \A e \in Dispatchers : \A m \in Mail(inbox'[e]) :
            m.kind = "claimed" => Current(Token(m))'
    BY <1>2, <1>5, <2>1, <2>2, ElementTypes DEF CurrentUntilEnded
  <2>6. \A t : Somewhere(t) \/ t = new => Somewhere(t)'
    BY <1>1, <1>2, <1>5 DEF Somewhere
  <2>7. (\A i \in Jobs : board[i].at = "held" =>
            Somewhere([job |-> i, gen |-> board[i].gen]))'
    BY <1>3, <2>3, <2>6 DEF CurrentUntilEnded
  <2> QED
    BY <2>4, <2>5, <2>7 DEF CurrentUntilEnded
<1>12. EndedIsGone'
  BY <1>1, <1>2, <1>4, <1>5 DEF EndedIsGone, OneOutcomePerClaim, Somewhere
<1>13. AckedMeansWorked'
  BY <1>1, <1>3 DEF AckedMeansWorked
<1> QED
  BY <1>6, <1>7, <1>8, <1>9, <1>10, <1>11, <1>12, <1>13

-----------------------------------------------------------------------------
\* A dispatcher handles the first message of its mailbox.

\* The message is nowhere afterwards, nor is anything else about its claim.
LEMMA Popped ==
    ASSUME IInv, NEW d \in Dispatchers, inbox[d] # <<>>, Pop(d)
    PROVE  /\ Head(inbox[d]) \in Mail(inbox[d])
           /\ \A x \in tasks : Token(x) # Token(Head(inbox[d]))
           /\ inbox' \in [Dispatchers -> Seq(Messages)]
           /\ \A e \in Dispatchers :
                 /\ Once(inbox'[e])
                 /\ Mail(inbox'[e]) \subseteq Mail(inbox[e])
                 /\ \A m \in Mail(inbox[e]) :
                       m \in Mail(inbox'[e]) \/ (e = d /\ m = Head(inbox[d]))
                 /\ \A m \in Mail(inbox'[e]) : Token(m) # Token(Head(inbox[d]))
                 /\ e # d => inbox'[e] = inbox[e]
<1> USE DEF IInv
<1>1. inbox' = [inbox EXCEPT ![d] = Tail(inbox[d])]
  BY DEF Pop
<1>2. /\ Tail(inbox[d]) \in Seq(Messages) /\ Once(Tail(inbox[d]))
      /\ Head(inbox[d]) \in Mail(inbox[d])
      /\ Mail(Tail(inbox[d])) = Mail(inbox[d]) \ {Head(inbox[d])}
      /\ \A m \in Mail(Tail(inbox[d])) : Token(m) # Token(Head(inbox[d]))
  BY PopMail, ElementTypes DEF InOnePlace
<1>3. \A x \in tasks : Token(x) # Token(Head(inbox[d]))
  BY <1>2 DEF InOnePlace
<1>4. /\ inbox' \in [Dispatchers -> Seq(Messages)]
      /\ inbox'[d] = Tail(inbox[d])
      /\ \A e \in Dispatchers : e # d => inbox'[e] = inbox[e]
  BY <1>1, <1>2 DEF TypeOK
<1>5. ASSUME NEW e \in Dispatchers, e # d, NEW m \in Mail(inbox[e])
      PROVE  Token(m) # Token(Head(inbox[d]))
  BY <1>2, <1>5 DEF InOnePlace
<1> QED
  BY <1>2, <1>3, <1>4, <1>5 DEF InOnePlace

\* Ending the claim t, one way or the other, disturbs no other claim.
LEMMA ClaimEnds ==
    ASSUME TypeOK, NEW t \in Tokens, AckClaim(t) \/ ExpireClaim(t)
    PROVE  /\ board' \in [Jobs -> Places]
           /\ \A i \in Jobs : board'[i].gen = board[i].gen
           /\ \A u \in Tokens : u # t /\ Current(u) => Current(u)'
           /\ \A i \in Jobs : board'[i].at = "held" =>
                 /\ board'[i] = board[i]
                 /\ [job |-> i, gen |-> board[i].gen] # t
           /\ \A i \in Jobs : board'[i].at = "done" =>
                 \/ board[i].at = "done"
                 \/ ~ExpireClaim(t) /\ i = t.job /\ board[i].gen = t.gen
<1>1. /\ t.job \in Jobs /\ t.gen \in Nat /\ t = [job |-> t.job, gen |-> t.gen]
      /\ board \in [Jobs -> Places]
  BY ElementTypes DEF Tokens
<1>2. CASE ~Current(t)
  <2>1. board' = board
    BY <1>2 DEF AckClaim, ExpireClaim
  <2>2. \A i \in Jobs : board[i].at = "held" => [job |-> i, gen |-> board[i].gen] # t
    BY <1>1, <1>2, PlaceTypes DEF Current
  <2> QED
    BY <1>1, <2>1, <2>2 DEF Current
<1>3. CASE Current(t)
  <2>1. board[t.job].at = "held" /\ board[t.job].gen = t.gen
    BY <1>1, <1>3, PlaceTypes DEF Current
  <2>2. /\ \/ board' = [board EXCEPT ![t.job] = [at |-> "done", gen |-> t.gen]]
           \/ board' = [board EXCEPT ![t.job] = [at |-> "free", gen |-> t.gen]]
        /\ ExpireClaim(t) => board' = [board EXCEPT ![t.job] = [at |-> "free", gen |-> t.gen]]
    BY <1>3, <2>1
       DEF AckClaim, ExpireClaim, Space!Finish, Space!Becomes, Space!Free, Space!Done
  <2>3. /\ \A i \in Jobs : i # t.job => board'[i] = board[i]
        /\ board'[t.job].gen = t.gen /\ board'[t.job].at \in {"free", "done"}
        /\ board'[t.job].at = "done" => ~ExpireClaim(t)
        /\ board' \in [Jobs -> Places]
    BY <1>1, <2>2 DEF Places
  <2>4. \A u \in Tokens : u # t /\ Current(u) => u.job # t.job
    BY <1>1, <2>1, PlaceTypes DEF Tokens, Current
  <2> QED
    BY <1>1, <2>1, <2>3, <2>4 DEF Current, Tokens, Space!Held
<1> QED
  BY <1>2, <1>3

\* The end of a claim is recorded: its token is nowhere any more.
LEMMA EndKeeps ==
    ASSUME IInv, NEW d \in Dispatchers, inbox[d] # <<>>, Pop(d),
           NEW t, t = Token(Head(inbox[d])),
           NEW type \in {"denied", "finished", "crashed"},
           \/ ExpireClaim(t)
           \/ AckClaim(t) /\ (t.job \in Refused \/ t \in returned),
           ledger' = ledger \cup {Event(type, t)},
           running' = [running EXCEPT ![d] = @ \ {t}],
           taking' \in [Dispatchers -> BOOLEAN],
           idle' \in [Dispatchers -> {"none", "waiting", "told"}],
           UNCHANGED <<up, tasks, returned, faults>>
    PROVE  IInv'
<1> USE DEF IInv
<1> DEFINE msg == Head(inbox[d])
<1>1. /\ msg \in Mail(inbox[d]) /\ \A x \in tasks : Token(x) # t
      /\ inbox' \in [Dispatchers -> Seq(Messages)]
      /\ \A e \in Dispatchers :
            /\ Once(inbox'[e]) /\ Mail(inbox'[e]) \subseteq Mail(inbox[e])
            /\ \A m \in Mail(inbox[e]) : m \in Mail(inbox'[e]) \/ (e = d /\ m = msg)
            /\ \A m \in Mail(inbox'[e]) : Token(m) # t
            /\ e # d => inbox'[e] = inbox[e]
  BY Popped
<1>2. /\ t \in Tokens /\ t.job = msg.job /\ t.gen = msg.gen /\ Somewhere(t)
      /\ t.job \in Jobs /\ t.gen \in Nat \ {0} /\ Token(t) = t /\ Token(msg) = t
  BY <1>1, ElementTypes DEF Somewhere, Tokens, Token
<1>3. /\ Event(type, t).type = type /\ Token(Event(type, t)) = t
      /\ Event(type, t).job = t.job /\ Event(type, t).gen = t.gen
      /\ Event(type, t) \in [type : {"spawned", "denied", "finished", "crashed"},
                             job : Jobs, gen : Nat \ {0}]
  BY <1>2 DEF Event, Token, Tokens
<1> HIDE DEF msg
<1>4. /\ board' \in [Jobs -> Places]
      /\ \A i \in Jobs : board'[i].gen = board[i].gen
      /\ \A u \in Tokens : u # t /\ Current(u) => Current(u)'
      /\ \A i \in Jobs : board'[i].at = "held" =>
            board'[i] = board[i] /\ [job |-> i, gen |-> board[i].gen] # t
      /\ \A i \in Jobs : board'[i].at = "done" =>
            \/ board[i].at = "done"
            \/ ~ExpireClaim(t) /\ i = t.job /\ board[i].gen = t.gen
  BY <1>2, ClaimEnds
<1>5. TypeOK'
  BY <1>1, <1>3, <1>4 DEF TypeOK, Places
<1>6. (DownIsEmpty /\ NoOrphans /\ InOnePlace)'
  <2>1. \A e \in Dispatchers : e # d => inbox'[e] = inbox[e] /\ running'[e] = running[e]
    BY <1>1 DEF TypeOK
  <2>2. DownIsEmpty'
    BY <2>1 DEF DownIsEmpty
  <2>3. (NoOrphans /\ InOnePlace)'
    BY <1>1 DEF NoOrphans, InOnePlace
  <2> QED
    BY <2>2, <2>3
<1>7. TableIsExact'
  <2>1. \A e \in Dispatchers : running'[e] = IF e = d THEN running[d] \ {t} ELSE running[e]
    BY DEF TypeOK
  <2>2. \A e \in Dispatchers, u \in Tokens : Ended(e, u)' <=> Ended(e, u) /\ ~(e = d /\ u = t)
    <3>1. \A e \in Dispatchers, u \in Tokens : Ended(e, u)' => Ended(e, u) /\ u # t
      BY <1>1 DEF Ended
    <3>2. \A e \in Dispatchers, u \in Tokens : Ended(e, u) /\ ~(e = d /\ u = t) => Ended(e, u)'
      BY <1>1, <1>2 DEF Ended
    <3> QED
      BY <3>1, <3>2
  <2>3. \A e \in Dispatchers, u \in Tokens : Alive(e, u)' <=> Alive(e, u) /\ u # t
    BY <1>1 DEF Alive
  <2>4. \A e \in Dispatchers : e # d => ~Ended(e, t)
    BY <1>1, <1>2 DEF Ended, InOnePlace
  <2>5. \A e \in Dispatchers : ~Alive(e, t)
    BY <1>1 DEF Alive
  <2> SUFFICES ASSUME NEW e \in Dispatchers, NEW u \in Tokens
               PROVE  u \in running'[e] <=> Alive(e, u)' \/ Ended(e, u)'
    BY DEF TableIsExact
  <2>6. u \in running[e] <=> Alive(e, u) \/ Ended(e, u)
    BY DEF TableIsExact
  <2>7. CASE u = t
    BY <2>1, <2>2, <2>3, <2>4, <2>5, <2>6, <2>7
  <2>8. CASE u # t
    BY <2>1, <2>2, <2>3, <2>6, <2>8
  <2> QED
    BY <2>7, <2>8
<1>8. ResultsReturned'
  BY <1>1 DEF ResultsReturned
<1>9. TokensAreOld'
  <2>1. ASSUME NEW e \in ledger'
        PROVE  e.gen <= board'[e.job].gen
    <3>1. CASE e = Event(type, t)
      <4>1. msg.gen <= board[msg.job].gen
        BY <1>1 DEF TokensAreOld
      <4>2. board'[t.job].gen = board[t.job].gen
        BY <1>2, <1>4
      <4> QED
        BY <1>2, <1>3, <3>1, <4>1, <4>2
    <3>2. CASE e \in ledger
      <4>1. e.job \in Jobs
        BY <3>2, ElementTypes
      <4> QED
        BY <1>4, <3>2, <4>1 DEF TokensAreOld
    <3> QED
      BY <2>1, <3>1, <3>2
  <2>2. \A x \in tasks' : x.gen <= board'[x.job].gen
    BY <1>4, ElementTypes DEF TokensAreOld
  <2>3. \A e \in Dispatchers : \A m \in Mail(inbox'[e]) : m.gen <= board'[m.job].gen
    BY <1>1, <1>4, ElementTypes DEF TokensAreOld
  <2> QED
    BY <2>1, <2>2, <2>3 DEF TokensAreOld
<1>10. \A u \in Tokens : Somewhere(u)' <=> Somewhere(u) /\ u # t
  <2>1. \A u \in Tokens : Somewhere(u)' => Somewhere(u) /\ u # t
    BY <1>1 DEF Somewhere
  <2>2. \A u \in Tokens : Somewhere(u) /\ u # t => Somewhere(u)'
    BY <1>1, <1>2 DEF Somewhere
  <2> QED
    BY <2>1, <2>2
<1>11. CurrentUntilEnded'
  <2> SUFFICES ASSUME faults = 0
               PROVE  CurrentUntilEnded'
    BY DEF CurrentUntilEnded
  <2>1. \A x \in tasks' : Current(Token(x))'
    BY <1>1, <1>4, ElementTypes DEF CurrentUntilEnded
  <2>2. \A e \in Dispatchers : \A m \in Mail(inbox'[e]) :
            m.kind = "claimed" => Current(Token(m))'
    BY <1>1, <1>4, ElementTypes DEF CurrentUntilEnded
  <2>3. (\A i \in Jobs : board[i].at = "held" =>
            Somewhere([job |-> i, gen |-> board[i].gen]))'
    <3> SUFFICES ASSUME NEW i \in Jobs, board'[i].at = "held"
                 PROVE  Somewhere([job |-> i, gen |-> board[i].gen])'
      OBVIOUS
    <3>1. board'[i] = board[i] /\ [job |-> i, gen |-> board[i].gen] # t
      BY <1>4
    <3>2. Somewhere([job |-> i, gen |-> board[i].gen])
      BY <3>1 DEF CurrentUntilEnded
    <3>3. [job |-> i, gen |-> board[i].gen] \in Tokens
      BY <3>2, ElementTypes DEF Somewhere
    <3> QED
      BY <1>10, <3>1, <3>2, <3>3
  <2> QED
    BY <2>1, <2>2, <2>3 DEF CurrentUntilEnded
<1>12. EndedIsGone'
  <2>1. \A e \in ledger' : e.type # "spawned" => ~Somewhere(Token(e))'
    BY <1>2, <1>3, <1>10, ElementTypes DEF EndedIsGone
  <2>2. \A e \in ledger : e.type # "spawned" => Token(e) # t
    BY <1>2 DEF EndedIsGone
  <2>3. OneOutcomePerClaim'
    BY <1>3, <2>2 DEF EndedIsGone, OneOutcomePerClaim
  <2> QED
    BY <2>1, <2>3 DEF EndedIsGone
<1>13. AckedMeansWorked'
  <2> SUFFICES ASSUME NEW j \in Jobs, board'[j].at = "done"
               PROVE  j \in Refused \/ [job |-> j, gen |-> board'[j].gen] \in returned
    BY DEF AckedMeansWorked
  <2>1. t = [job |-> t.job, gen |-> t.gen]
    BY <1>2 DEF Tokens
  <2> QED
    BY <1>4, <2>1 DEF AckedMeansWorked
<1> QED
  BY <1>5, <1>6, <1>7, <1>8, <1>9, <1>11, <1>12, <1>13

LEMMA HandleClaimedKeeps ==
    ASSUME IInv, NEW d \in Dispatchers, HandleClaimed(d)
    PROVE  IInv'
<1> USE DEF IInv
<1> DEFINE msg == Head(inbox[d])
           t == Token(msg)
           task == [job |-> t.job, gen |-> t.gen, owner |-> d]
<1>1. /\ up[d] /\ inbox[d] # <<>> /\ msg.kind = "claimed" /\ Pop(d)
      /\ taking' = [taking EXCEPT ![d] = TRUE]
      /\ UNCHANGED <<up, idle, returned, faults>>
  BY DEF HandleClaimed, Receives
<1>2. /\ msg \in Mail(inbox[d]) /\ \A x \in tasks : Token(x) # t
      /\ inbox' \in [Dispatchers -> Seq(Messages)]
      /\ \A e \in Dispatchers :
            /\ Once(inbox'[e]) /\ Mail(inbox'[e]) \subseteq Mail(inbox[e])
            /\ \A m \in Mail(inbox[e]) : m \in Mail(inbox'[e]) \/ (e = d /\ m = msg)
            /\ \A m \in Mail(inbox'[e]) : Token(m) # t
            /\ e # d => inbox'[e] = inbox[e]
  BY <1>1, Popped
<1>3. /\ t \in Tokens /\ t.job = msg.job /\ t.gen = msg.gen /\ Somewhere(t)
      /\ t.job \in Jobs /\ t.gen \in Nat \ {0} /\ Token(t) = t
      /\ Token(task) = t /\ task.owner = d /\ task.job = t.job /\ task.gen = t.gen
      /\ task \in [job : Jobs, gen : Nat \ {0}, owner : Dispatchers \cup {Nobody}]
  BY <1>2, ElementTypes DEF Somewhere, Tokens, Token
<1>4. ~Ended(d, t) /\ ~Alive(d, t)
  BY <1>1, <1>2 DEF Ended, Alive, InOnePlace, Mail, Once
<1>5. CASE t.job \in Refused
  <2>1. /\ AckClaim(t) /\ ledger' = ledger \cup {Event("denied", t)}
        /\ UNCHANGED <<running, tasks>>
    BY <1>5 DEF HandleClaimed
  <2>2. running' = [running EXCEPT ![d] = @ \ {t}]
    BY <1>3, <1>4, <2>1 DEF TableIsExact, TypeOK
  <2>3. taking' \in [Dispatchers -> BOOLEAN] /\ idle' \in [Dispatchers -> {"none", "waiting", "told"}]
    BY <1>1 DEF TypeOK
  <2> QED
    BY <1>1, <1>5, <2>1, <2>2, <2>3, EndKeeps
<1>6. CASE t.job \notin Refused
  <2>1. /\ ledger' = ledger \cup {Event("spawned", t)}
        /\ tasks' = tasks \cup {task}
        /\ running' = [running EXCEPT ![d] = @ \cup {t}]
        /\ board' = board
    BY <1>6 DEF HandleClaimed
  <2> HIDE DEF msg, t, task
  <2>2. /\ Event("spawned", t).type = "spawned" /\ Token(Event("spawned", t)) = t
        /\ Event("spawned", t).job = t.job /\ Event("spawned", t).gen = t.gen
        /\ Event("spawned", t) \in [type : {"spawned", "denied", "finished", "crashed"},
                                    job : Jobs, gen : Nat \ {0}]
    BY <1>3 DEF Event, Token, Tokens
  <2>3. TypeOK'
    BY <1>1, <1>2, <1>3, <2>1, <2>2 DEF TypeOK
  <2>4. (DownIsEmpty /\ NoOrphans)'
    <3>1. \A e \in Dispatchers : e # d => inbox'[e] = inbox[e] /\ running'[e] = running[e]
      BY <1>2, <2>1 DEF TypeOK
    <3> QED
      BY <1>1, <1>3, <2>1, <3>1, NobodyAssumption DEF DownIsEmpty, NoOrphans
  <2>5. InOnePlace'
    <3>1. \A x, y \in tasks' : Token(x) = Token(y) => x = y
      BY <1>2, <1>3, <2>1 DEF InOnePlace
    <3>2. \A e \in Dispatchers : \A m \in Mail(inbox'[e]), x \in tasks' : Token(m) # Token(x)
      BY <1>2, <1>3, <2>1 DEF InOnePlace
    <3>3. \A e, f \in Dispatchers : \A m \in Mail(inbox'[e]), n \in Mail(inbox'[f]) :
              Token(m) = Token(n) => e = f
      BY <1>2 DEF InOnePlace
    <3> QED
      BY <1>2, <3>1, <3>2, <3>3 DEF InOnePlace
  <2>6. TableIsExact'
    <3>1. \A e \in Dispatchers : running'[e] = IF e = d THEN running[d] \cup {t} ELSE running[e]
      BY <2>1 DEF TypeOK
    <3>2. \A e \in Dispatchers, u \in Tokens : Ended(e, u)' <=> Ended(e, u)
      BY <1>1, <1>2 DEF Ended
    <3>3. \A e \in Dispatchers, u \in Tokens : Alive(e, u)' <=> Alive(e, u) \/ (e = d /\ u = t)
      BY <1>3, <2>1 DEF Alive
    <3> QED
      BY <3>1, <3>2, <3>3 DEF TableIsExact
  <2>7. TokensAreOld'
    <3>1. t.gen <= board[t.job].gen
      BY <1>2, <1>3 DEF TokensAreOld
    <3> QED
      BY <1>2, <1>3, <2>1, <2>2, <3>1 DEF TokensAreOld
  <2>8. \A u \in Tokens : Somewhere(u)' <=> Somewhere(u)
    <3>1. \A u \in Tokens : Somewhere(u)' => Somewhere(u)
      BY <1>2, <1>3, <2>1 DEF Somewhere
    <3>2. \A u \in Tokens : Somewhere(u) => Somewhere(u)'
      BY <1>2, <1>3, <2>1, ElementTypes DEF Somewhere
    <3> QED
      BY <3>1, <3>2
  <2>9. CurrentUntilEnded'
    <3> SUFFICES ASSUME faults = 0
                 PROVE  CurrentUntilEnded'
      BY <1>1 DEF CurrentUntilEnded
    <3>1. Current(t) /\ \A u : Current(u)' <=> Current(u)
      BY <1>1, <1>2, <1>3, <2>1 DEF CurrentUntilEnded, Current, t
    <3>2. \A x \in tasks' : Current(Token(x))'
      BY <1>3, <2>1, <3>1 DEF CurrentUntilEnded
    <3>3. \A e \in Dispatchers : \A m \in Mail(inbox'[e]) :
              m.kind = "claimed" => Current(Token(m))'
      BY <1>2, <3>1 DEF CurrentUntilEnded
    <3>4. (\A j \in Jobs : board[j].at = "held" =>
              Somewhere([job |-> j, gen |-> board[j].gen]))'
      <4> SUFFICES ASSUME NEW j \in Jobs, board[j].at = "held"
                   PROVE  Somewhere([job |-> j, gen |-> board[j].gen])'
        BY <2>1
      <4>1. Somewhere([job |-> j, gen |-> board[j].gen])
        BY DEF CurrentUntilEnded
      <4>2. [job |-> j, gen |-> board[j].gen] \in Tokens
        BY <4>1, ElementTypes DEF Somewhere
      <4> QED
        BY <2>1, <2>8, <4>1, <4>2
    <3> QED
      BY <3>2, <3>3, <3>4 DEF CurrentUntilEnded
  <2>10. EndedIsGone'
    <3>1. \A e \in ledger' : e.type # "spawned" => e \in ledger
      BY <2>1, <2>2
    <3> QED
      BY <2>8, <3>1, ElementTypes DEF EndedIsGone, OneOutcomePerClaim
  <2>11. (ResultsReturned /\ AckedMeansWorked)'
    BY <1>1, <1>2, <2>1 DEF ResultsReturned, AckedMeansWorked
  <2> QED
    BY <2>3, <2>4, <2>5, <2>6, <2>7, <2>9, <2>10, <2>11
<1> QED
  BY <1>5, <1>6

\* A task's end is always in the table: the branch that ignores it is not taken.
LEMMA HandleEndKeeps ==
    ASSUME IInv, NEW d \in Dispatchers, HandleResult(d) \/ HandleDown(d)
    PROVE  IInv'
<1> USE DEF IInv
<1> DEFINE msg == Head(inbox[d])
           t == Token(msg)
<1>1. /\ up[d] /\ inbox[d] # <<>> /\ Pop(d) /\ msg.kind \in {"result", "down"}
      /\ UNCHANGED <<up, taking, tasks, returned, faults>>
  BY DEF HandleResult, HandleDown, Receives
<1>2. msg \in Mail(inbox[d])
  BY <1>1, Popped
<1>3. t \in Tokens /\ t \in running[d]
  BY <1>1, <1>2, ElementTypes DEF TableIsExact, Ended
<1>4. Forget(d, t)
  BY <1>3 DEF HandleResult, HandleDown
<1>5. /\ running' = [running EXCEPT ![d] = @ \ {t}]
      /\ taking' \in [Dispatchers -> BOOLEAN]
      /\ idle' \in [Dispatchers -> {"none", "waiting", "told"}]
  BY <1>1, <1>4 DEF Forget, TypeOK
<1>6. CASE HandleResult(d)
  <2>1. AckClaim(t) /\ ledger' = ledger \cup {Event("finished", t)} /\ t \in returned
    BY <1>2, <1>3, <1>6 DEF HandleResult, Receives, ResultsReturned
  <2> QED
    BY <1>1, <1>5, <2>1, EndKeeps
<1>7. CASE HandleDown(d)
  <2>1. ExpireClaim(t) /\ ledger' = ledger \cup {Event("crashed", t)}
    BY <1>3, <1>7 DEF HandleDown
  <2> QED
    BY <1>1, <1>5, <2>1, EndKeeps
<1> QED
  BY <1>6, <1>7

-----------------------------------------------------------------------------
\* A task ends: what becomes of its token depends on its owner.

\* A task that died with its dispatcher drops its token; that was a fault.
LEMMA OrphanEndKeeps ==
    ASSUME IInv, NEW x \in tasks, x.owner = Nobody,
           TaskReturns(x) \/ TaskCrashes(x)
    PROVE  IInv'
<1> USE DEF IInv
<1>1. /\ tasks' = tasks \ {x}
      /\ UNCHANGED <<board, up, taking, inbox, running, idle, ledger>>
      /\ returned \subseteq returned' /\ returned' \subseteq returned \cup {Token(x)}
      /\ faults' \in 0 .. MaxFaults /\ faults # 0 /\ faults' # 0
  BY DispatcherAssumption
     DEF TaskReturns, TaskCrashes, Ends, NoOrphans, TypeOK
<1>2. TypeOK'
  BY <1>1, ElementTypes DEF TypeOK
<1>3. (DownIsEmpty /\ NoOrphans /\ InOnePlace /\ TokensAreOld /\ CurrentUntilEnded)'
  BY <1>1 DEF DownIsEmpty, NoOrphans, InOnePlace, TokensAreOld, CurrentUntilEnded
<1>4. TableIsExact'
  BY <1>1, NobodyAssumption DEF TableIsExact, Alive, Ended
<1>5. (EndedIsGone /\ ResultsReturned /\ AckedMeansWorked)'
  BY <1>1 DEF EndedIsGone, ResultsReturned, AckedMeansWorked, Somewhere, OneOutcomePerClaim
<1> QED
  BY <1>2, <1>3, <1>4, <1>5

LEMMA TaskEndKeeps ==
    ASSUME IInv, NEW x \in tasks, x.owner \in Dispatchers,
           NEW kind \in {"result", "down"},
           \/ kind = "result" /\ TaskReturns(x)
           \/ kind = "down" /\ TaskCrashes(x)
    PROVE  IInv'
<1> USE DEF IInv
<1> DEFINE o == x.owner
           t == Token(x)
           msg == Message(kind, x)
<1>1. /\ tasks' = tasks \ {x}
      /\ inbox' = [inbox EXCEPT ![o] = Append(inbox[o], msg)]
      /\ UNCHANGED <<board, up, taking, running, idle, ledger>>
      /\ returned \subseteq returned' /\ returned' \subseteq returned \cup {t}
      /\ kind = "result" => t \in returned'
      /\ faults' \in 0 .. MaxFaults /\ (faults' = 0 => faults = 0)
  BY DispatcherAssumption, NobodyAssumption DEF TaskReturns, TaskCrashes, Ends, TypeOK
<1>2. /\ t \in Tokens /\ msg \in Messages /\ Token(msg) = t /\ msg.kind = kind
      /\ msg.job = x.job /\ msg.gen = x.gen
  BY ElementTypes DEF Tokens, Messages, Message, Token
<1> HIDE DEF o, t, msg
<1>3. /\ o \in Dispatchers /\ o = x.owner /\ t = Token(x) /\ t \in running[o] /\ up[o]
  BY <1>2 DEF o, t, TableIsExact, Alive, DownIsEmpty
<1>4. /\ \A d \in Dispatchers : \A m \in Mail(inbox[d]) : Token(m) # t
      /\ \A y \in tasks : y # x => Token(y) # t
  BY <1>3 DEF InOnePlace
<1>5. /\ inbox'[o] \in Seq(Messages) /\ Once(inbox'[o])
      /\ Mail(inbox'[o]) = Mail(inbox[o]) \cup {msg}
      /\ \A e \in Dispatchers : e # o => inbox'[e] = inbox[e]
  <2>1. Once(inbox[o]) /\ inbox[o] \in Seq(Messages)
    BY <1>3, ElementTypes DEF InOnePlace
  <2>2. /\ Append(inbox[o], msg) \in Seq(Messages) /\ Once(Append(inbox[o], msg))
        /\ Mail(Append(inbox[o], msg)) = Mail(inbox[o]) \cup {msg}
    BY <1>2, <1>3, <1>4, <2>1, SendMail
  <2> QED
    BY <1>1, <1>3, <2>2 DEF TypeOK
<1>6. TypeOK'
  BY <1>1, <1>2, <1>3, <1>5 DEF TypeOK
<1>7. (DownIsEmpty /\ NoOrphans)'
  BY <1>1, <1>3, <1>5 DEF DownIsEmpty, NoOrphans
<1>8. \A e \in Dispatchers : \A m \in Mail(inbox'[e]) : m \in Mail(inbox[e]) \/ (e = o /\ m = msg)
  BY <1>5
<1>9. InOnePlace'
  <2>1. \A e \in Dispatchers : Once(inbox'[e])
    BY <1>5 DEF InOnePlace
  <2>2. \A e, f \in Dispatchers : \A m \in Mail(inbox'[e]), n \in Mail(inbox'[f]) :
            Token(m) = Token(n) => e = f
    BY <1>2, <1>4, <1>8 DEF InOnePlace
  <2>3. \A e \in Dispatchers : \A m \in Mail(inbox'[e]), y \in tasks' : Token(m) # Token(y)
    BY <1>1, <1>2, <1>4, <1>8 DEF InOnePlace
  <2> QED
    BY <1>1, <2>1, <2>2, <2>3 DEF InOnePlace
<1>10. TableIsExact'
  <2>1. \A e \in Dispatchers, u \in Tokens : Ended(e, u)' <=> Ended(e, u) \/ (e = o /\ u = t)
    BY <1>2, <1>5 DEF Ended
  <2>2. \A e \in Dispatchers, u \in Tokens : Alive(e, u)' <=> Alive(e, u) /\ ~(e = o /\ u = t)
    BY <1>1, <1>3, <1>4 DEF Alive
  <2> QED
    BY <1>1, <1>3, <2>1, <2>2 DEF TableIsExact
<1>11. TokensAreOld'
  BY <1>1, <1>2, <1>8 DEF TokensAreOld
<1>12. \A u : Somewhere(u)' <=> Somewhere(u)
  <2>1. \A u : Somewhere(u)' => Somewhere(u)
    BY <1>1, <1>2, <1>3, <1>8 DEF Somewhere
  <2>2. ASSUME NEW u, Somewhere(u)
        PROVE  Somewhere(u)'
    <3>1. CASE u = t
      BY <1>2, <1>3, <1>5, <3>1 DEF Somewhere
    <3>2. CASE u # t
      BY <1>1, <1>3, <1>5, <2>2, <3>2 DEF Somewhere
    <3> QED
      BY <3>1, <3>2
  <2> QED
    BY <2>1, <2>2
<1>13. CurrentUntilEnded'
  <2> SUFFICES ASSUME faults = 0
               PROVE  CurrentUntilEnded'
    BY <1>1 DEF CurrentUntilEnded
  <2>1. \A u : Current(u)' <=> Current(u)
    BY <1>1 DEF Current
  <2>2. \A e \in Dispatchers : \A m \in Mail(inbox'[e]) :
            m.kind = "claimed" => Current(Token(m))'
    BY <1>2, <1>8, <2>1 DEF CurrentUntilEnded
  <2>3. (\A j \in Jobs : board[j].at = "held" =>
            Somewhere([job |-> j, gen |-> board[j].gen]))'
    <3> SUFFICES ASSUME NEW j \in Jobs, board[j].at = "held"
                 PROVE  Somewhere([job |-> j, gen |-> board[j].gen])'
      BY <1>1
    <3>1. Somewhere([job |-> j, gen |-> board[j].gen])
      BY DEF CurrentUntilEnded
    <3> QED
      BY <1>1, <1>12, <3>1
  <2> QED
    BY <1>1, <2>1, <2>2, <2>3 DEF CurrentUntilEnded
<1>14. EndedIsGone'
  BY <1>1, <1>12 DEF EndedIsGone, OneOutcomePerClaim
<1>15. (ResultsReturned /\ AckedMeansWorked)'
  BY <1>1, <1>2, <1>8 DEF ResultsReturned, AckedMeansWorked
<1> QED
  BY <1>6, <1>7, <1>9, <1>10, <1>11, <1>13, <1>14, <1>15

-----------------------------------------------------------------------------
\* A dispatcher dies or is started again.

LEMMA DiesKeeps ==
    ASSUME IInv, NEW d \in Dispatchers, DispatcherDies(d)
    PROVE  IInv'
<1> USE DEF IInv
<1> DEFINE orphan(x) == IF x.owner = d THEN [x EXCEPT !.owner = Nobody] ELSE x
<1>1. /\ up' = [up EXCEPT ![d] = FALSE] /\ taking' = [taking EXCEPT ![d] = FALSE]
      /\ inbox' = [inbox EXCEPT ![d] = <<>>] /\ running' = [running EXCEPT ![d] = {}]
      /\ idle' = [idle EXCEPT ![d] = "none"]
      /\ tasks' = {orphan(x) : x \in tasks}
      /\ UNCHANGED <<board, ledger, returned>>
      /\ faults' \in 0 .. MaxFaults /\ faults' # 0
  BY DispatcherAssumption DEF DispatcherDies, TypeOK
<1>2. \A x \in tasks :
          /\ orphan(x) \in [job : Jobs, gen : Nat \ {0}, owner : Dispatchers \cup {Nobody}]
          /\ orphan(x).job = x.job /\ orphan(x).gen = x.gen /\ Token(orphan(x)) = Token(x)
          /\ orphan(x).owner = IF x.owner = d THEN Nobody ELSE x.owner
  BY DEF TypeOK, Token
<1> HIDE DEF orphan
<1>3. /\ inbox'[d] = <<>> /\ running'[d] = {}
      /\ \A e \in Dispatchers : e # d =>
            inbox'[e] = inbox[e] /\ running'[e] = running[e] /\ up'[e] = up[e]
  BY <1>1 DEF TypeOK
<1>4. \A e \in Dispatchers : Mail(inbox'[e]) = IF e = d THEN {} ELSE Mail(inbox[e])
  BY <1>3, EmptyMail
<1>5. TypeOK'
  BY <1>1, <1>2, EmptySeq DEF TypeOK
<1>6. (DownIsEmpty /\ NoOrphans /\ CurrentUntilEnded)'
  BY <1>1, <1>3 DEF DownIsEmpty, NoOrphans, CurrentUntilEnded
<1>7. InOnePlace'
  <2>1. \A e \in Dispatchers : Once(inbox'[e])
    BY <1>3, EmptyMail DEF InOnePlace
  <2>2. \A e, f \in Dispatchers : \A m \in Mail(inbox'[e]), n \in Mail(inbox'[f]) :
            Token(m) = Token(n) => e = f
    BY <1>4 DEF InOnePlace
  <2>3. \A e \in Dispatchers : \A m \in Mail(inbox'[e]), y \in tasks' : Token(m) # Token(y)
    BY <1>1, <1>2, <1>4 DEF InOnePlace
  <2>4. \A x, y \in tasks' : Token(x) = Token(y) => x = y
    BY <1>1, <1>2 DEF InOnePlace
  <2> QED
    BY <2>1, <2>2, <2>3, <2>4 DEF InOnePlace
<1>8. TableIsExact'
  <2>1. \A e \in Dispatchers, u \in Tokens : Ended(e, u)' <=> Ended(e, u) /\ e # d
    BY <1>4 DEF Ended
  <2>2. \A e \in Dispatchers, u \in Tokens : Alive(e, u)' <=> Alive(e, u) /\ e # d
    BY <1>1, <1>2, NobodyAssumption DEF Alive
  <2> QED
    BY <1>3, <2>1, <2>2 DEF TableIsExact
<1>9. TokensAreOld'
  BY <1>1, <1>2, <1>4 DEF TokensAreOld
<1>10. \A u : Somewhere(u)' => Somewhere(u)
  BY <1>1, <1>2, <1>4 DEF Somewhere
<1>11. (EndedIsGone /\ ResultsReturned /\ AckedMeansWorked)'
  BY <1>1, <1>4, <1>10
     DEF EndedIsGone, ResultsReturned, AckedMeansWorked, OneOutcomePerClaim
<1> QED
  BY <1>5, <1>6, <1>7, <1>8, <1>9, <1>11

LEMMA StartsKeeps ==
    ASSUME IInv, NEW d \in Dispatchers, DispatcherStarts(d)
    PROVE  IInv'
<1> USE DEF IInv
<1>1. /\ up' = [up EXCEPT ![d] = TRUE] /\ taking' = [taking EXCEPT ![d] = TRUE]
      /\ UNCHANGED <<board, inbox, running, tasks, idle, ledger, returned, faults>>
  BY DEF DispatcherStarts
<1>2. (TypeOK /\ DownIsEmpty)'
  BY <1>1 DEF TypeOK, DownIsEmpty
<1> QED
  BY <1>1, <1>2
     DEF NoOrphans, InOnePlace, TableIsExact, EndedIsGone, ResultsReturned, TokensAreOld,
         CurrentUntilEnded, AckedMeansWorked, Alive, Ended, Somewhere, OneOutcomePerClaim,
         Current

-----------------------------------------------------------------------------
LEMMA InitHolds == Init => IInv
<1> SUFFICES ASSUME Init
             PROVE  IInv
  OBVIOUS
<1>1. /\ board = [j \in Jobs |-> [at |-> "absent", gen |-> 0]]
      /\ \A d \in Dispatchers : inbox[d] = <<>> /\ running[d] = {} /\ up[d]
      /\ tasks = {} /\ ledger = {} /\ returned = {} /\ faults = 0
  BY DEF Init, Space!Init, Space!Absent
<1>2. \A d \in Dispatchers : Mail(inbox[d]) = {} /\ Once(inbox[d])
  BY <1>1, EmptyMail
<1>3. TypeOK
  BY <1>1, DispatcherAssumption, EmptySeq DEF Init, TypeOK
<1> QED
  BY <1>1, <1>2, <1>3
     DEF IInv, DownIsEmpty, NoOrphans, InOnePlace, TableIsExact, EndedIsGone,
         ResultsReturned, TokensAreOld, CurrentUntilEnded, AckedMeansWorked, Alive, Ended,
         Somewhere, OneOutcomePerClaim

LEMMA StepKeeps == IInv /\ [Next]_vars => IInv'
<1> SUFFICES ASSUME IInv, [Next]_vars
             PROVE  IInv'
  OBVIOUS
<1>1. ASSUME NEW j \in Jobs, Post(j) \/ LeaseLapses(j) \/ LeaseLapsesLate(j)
      PROVE  IInv'
  BY <1>1, PostKeeps, LapsesKeeps
<1>2. ASSUME NEW d \in Dispatchers, NEW j \in Jobs, Take(d, j)
      PROVE  IInv'
  BY <1>2, TakeKeeps
<1>3. ASSUME NEW d \in Dispatchers, Handle(d)
      PROVE  IInv'
  BY <1>3, HandleClaimedKeeps, HandleEndKeeps DEF Handle
<1>4. ASSUME NEW d \in Dispatchers, AwaitIdle(d) \/ DispatcherDies(d) \/ DispatcherStarts(d)
      PROVE  IInv'
  BY <1>4, AwaitIdleKeeps, DiesKeeps, StartsKeeps
<1>5. ASSUME NEW x \in tasks, TaskReturns(x) \/ TaskCrashes(x)
      PROVE  IInv'
  <2>1. x.owner \in Dispatchers \/ x.owner = Nobody
    BY ElementTypes DEF IInv
  <2>2. CASE x.owner = Nobody
    BY <1>5, <2>2, OrphanEndKeeps
  <2>3. CASE x.owner \in Dispatchers
    BY <1>5, <2>3, TaskEndKeeps
  <2> QED
    BY <2>1, <2>2, <2>3
<1>6. CASE UNCHANGED vars
  BY <1>6
     DEF vars, IInv, TypeOK, DownIsEmpty, NoOrphans, InOnePlace, TableIsExact, EndedIsGone,
         ResultsReturned, TokensAreOld, CurrentUntilEnded, AckedMeansWorked, Alive, Ended,
         Somewhere, OneOutcomePerClaim, Current
<1> QED
  BY <1>1, <1>2, <1>3, <1>4, <1>5, <1>6 DEF Next

\* The invariant holds in every state the dispatchers reach, with any faults.
THEOREM DispatcherInvariant == Spec => []IInv
  BY InitHolds, StepKeeps, PTL DEF Spec

-----------------------------------------------------------------------------
\* What a reader of the dispatcher relies on.

LEMMA TableIsTracked == IInv => RunningIsTracked
<1> DEFINE alive(d) == {Token(x) : x \in {y \in tasks : y.owner = d}}
           ended(d) == {Token(inbox[d][i]) :
                           i \in {k \in DOMAIN inbox[d] : inbox[d][k].kind # "claimed"}}
<1>1. ASSUME IInv, NEW d \in Dispatchers
      PROVE  running[d] = alive(d) \cup ended(d) /\ alive(d) \cap ended(d) = {}
  <2>1. \A t : t \in alive(d) <=> Alive(d, t)
    BY DEF Alive
  <2>2. \A t : t \in ended(d) <=> Ended(d, t)
    BY DEF Ended, Mail
  <2>3. \A t : Alive(d, t) \/ Ended(d, t) => t \in Tokens
    BY <1>1, ElementTypes DEF Alive, Ended, IInv
  <2>4. running[d] \subseteq Tokens
    BY <1>1, ElementTypes DEF IInv
  <2>5. \A t : ~(Alive(d, t) /\ Ended(d, t))
    BY <1>1 DEF Alive, Ended, IInv, InOnePlace
  <2> HIDE DEF alive, ended
  <2>6. running[d] = alive(d) \cup ended(d)
    BY <1>1, <2>1, <2>2, <2>3, <2>4 DEF IInv, TableIsExact
  <2> QED
    BY <2>1, <2>2, <2>5, <2>6
<1> QED
  BY <1>1, Zenon DEF RunningIsTracked

\* Every running obligation is one live task or one unread end, and without faults every
\* lease is tended (handle_claim, finish, start_heartbeat).
THEOREM ClaimsTracked == Spec => []ClaimsAreTracked
<1>1. IInv => EveryLeaseIsTended
  BY SomewhereIsTended DEF IInv, EveryLeaseIsTended, CurrentUntilEnded
<1>2. IInv => ClaimsAreTracked
  BY <1>1, TableIsTracked DEF IInv, ClaimsAreTracked
<1> QED
  BY <1>2, DispatcherInvariant, PTL

\* Without faults one task works on an obligation; a claim has one recorded end; what was
\* acknowledged had been refused or had returned (handle_result, refuse, finish).
THEOREM OneOutcome == Spec => []OneWorkerOneOutcome
<1>1. IInv => WorkedByOneTask
  <2> SUFFICES ASSUME IInv, faults = 0, NEW x \in tasks, NEW y \in tasks, x.job = y.job
               PROVE  x = y
    BY DEF WorkedByOneTask
  <2>1. Current(Token(x)) /\ Current(Token(y))
    BY DEF IInv, CurrentUntilEnded
  <2>2. x.gen = y.gen
    BY <2>1, ElementTypes, PlaceTypes DEF Current, IInv
  <2> QED
    BY <2>2 DEF IInv, InOnePlace, Token
<1>2. IInv => OneWorkerOneOutcome
  BY <1>1 DEF IInv, OneWorkerOneOutcome, EndedIsGone
<1> QED
  BY <1>2, DispatcherInvariant, PTL

\* A waiting caller of await_idle is answered in a step after which the dispatcher has no
\* live task (reply_when_idle after Map.delete, in finish).
THEOREM IdleIsTrue == Spec => ToldWhenIdle
<1>1. ASSUME IInv, IInv', [Next]_vars, NEW d \in Dispatchers,
             idle[d] = "waiting", idle'[d] = "told"
      PROVE  \A x \in tasks' : x.owner # d
  <2>1. running'[d] = {}
    <3>1. ASSUME NEW e \in Dispatchers, HandleResult(e) \/ HandleDown(e)
          PROVE  running'[d] = {}
      BY <1>1, <3>1 DEF HandleResult, HandleDown, Forget, IInv, TypeOK
    <3>2. ASSUME NEW e \in Dispatchers, AwaitIdle(e) \/ DispatcherDies(e)
          PROVE  FALSE
      BY <1>1, <3>2 DEF AwaitIdle, DispatcherDies, IInv, TypeOK
    <3>3. CASE UNCHANGED idle
      BY <1>1, <3>3
    <3>4. \/ \E e \in Dispatchers : HandleResult(e) \/ HandleDown(e)
          \/ \E e \in Dispatchers : AwaitIdle(e) \/ DispatcherDies(e)
          \/ UNCHANGED idle
      BY <1>1
         DEF Next, vars, Post, Take, LeaseLapses, LeaseLapsesLate, Lapses, Handle,
             HandleClaimed, TaskReturns, TaskCrashes, Ends, DispatcherStarts
    <3> QED
      BY <3>1, <3>2, <3>3, <3>4
  <2>2. \A t \in Tokens : ~Alive(d, t)'
    BY <1>1, <2>1 DEF IInv, TableIsExact
  <2>3. \A x \in tasks' : Token(x) \in Tokens
    BY <1>1 DEF IInv, TypeOK, Token, Tokens
  <2> QED
    BY <2>2, <2>3 DEF Alive
<1>2. IInv /\ IInv' /\ [Next]_vars =>
          [\A d \in Dispatchers : idle[d] = "waiting" /\ idle'[d] = "told" =>
              \A x \in tasks' : x.owner # d]_vars
  BY <1>1
<1> QED
  BY <1>2, DispatcherInvariant, PTL DEF Spec, ToldWhenIdle

\* What the dispatchers do to the space is what the board allows, so every claim of an
\* obligation is newer than the one before and an acknowledged one never comes back
\* (the calls of Space.take, ack and expire).
THEOREM BoardIsKept == Spec => Space!Spec
<1>1. Init => Space!Init
  BY DEF Init
<1>2. ASSUME IInv, [Next]_vars
      PROVE  [Space!Next]_board
  <2>1. ASSUME NEW j \in Jobs, Post(j)
        PROVE  Space!Next
    BY <2>1 DEF Post, Space!Post, Space!Next
  <2>2. ASSUME NEW d \in Dispatchers, NEW j \in Jobs, Take(d, j)
        PROVE  Space!Next
    BY <2>2 DEF Take, Space!Next
  <2>3. ASSUME NEW t \in Tokens, AckClaim(t) \/ ExpireClaim(t)
        PROVE  Space!Next \/ UNCHANGED board
    <3>1. t.job \in Jobs /\ t.gen \in Nat
      BY DEF Tokens
    <3>2. CASE Current(t)
      <4>1. board[t.job].at = "held" /\ board[t.job].gen = t.gen
        BY <3>1, <3>2, <1>2, ElementTypes, PlaceTypes DEF Current, IInv
      <4>2. Space!Finish(t.job) \/ Space!Release(t.job)
        BY <2>3, <3>2, <4>1 DEF AckClaim, ExpireClaim, Space!Release
      <4> QED
        BY <3>1, <4>2 DEF Space!Next
    <3>3. CASE ~Current(t)
      BY <2>3, <3>3 DEF AckClaim, ExpireClaim
    <3> QED
      BY <3>2, <3>3
  <2>4. ASSUME NEW j \in Jobs, LeaseLapses(j) \/ LeaseLapsesLate(j)
        PROVE  Space!Next \/ UNCHANGED board
    <3>1. board[j].at = "held" /\ ExpireClaim([job |-> j, gen |-> board[j].gen])
      BY <2>4 DEF LeaseLapses, LeaseLapsesLate, Lapses
    <3>2. board[j] = Space!Held(board[j].gen)
      BY <1>2, <3>1, ElementTypes, PlaceTypes DEF IInv
    <3>3. Space!Release(j)
      BY <3>1, <3>2 DEF ExpireClaim, Current, Space!Release
    <3> QED
      BY <3>3 DEF Space!Next
  <2>5. ASSUME NEW d \in Dispatchers, Handle(d)
        PROVE  Space!Next \/ UNCHANGED board
    <3> DEFINE t == Token(Head(inbox[d]))
    <3>1. inbox[d] # <<>> /\ Pop(d)
      BY <2>5 DEF Handle, HandleClaimed, HandleResult, HandleDown, Receives
    <3>2. t \in Tokens
      BY <1>2, <3>1, Popped, ElementTypes DEF IInv
    <3>3. AckClaim(t) \/ ExpireClaim(t) \/ UNCHANGED board
      BY <2>5 DEF Handle, HandleClaimed, HandleResult, HandleDown
    <3> QED
      BY <2>3, <3>2, <3>3
  <2>6. CASE \/ \E d \in Dispatchers : AwaitIdle(d) \/ DispatcherDies(d) \/ DispatcherStarts(d)
             \/ \E x \in tasks : TaskReturns(x) \/ TaskCrashes(x)
             \/ UNCHANGED vars
    BY <2>6
       DEF AwaitIdle, DispatcherDies, DispatcherStarts, TaskReturns, TaskCrashes, Ends, vars
  <2> QED
    BY <1>2, <2>1, <2>2, <2>4, <2>5, <2>6 DEF Next
<1> QED
  BY <1>1, <1>2, DispatcherInvariant, PTL DEF Spec, Space!Spec
=============================================================================
