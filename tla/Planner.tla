------------------------------ MODULE Planner ------------------------------
(***************************************************************************)
(* The planner of client/planner.py, and that of the BEAM host (ld_host/   *)
(* planner.ex), as processes that share one OAuth session: the record in   *)
(* ~/.grok/auth.json. A client reads the record, exchanges its refresh     *)
(* token when the access token has expired (Python: also when the service  *)
(* answers 401), writes the record back through auth.json.tmp, asks the    *)
(* model and prints the envelope of the reply. Nothing locks the file.     *)
(*                                                                         *)
(* Tokens are numbers: the n-th grant gives the access token n, and none   *)
(* outlives a later one. The other record of the file belongs to another   *)
(* login, which the grok CLI rewrites; it is the number of the write. An   *)
(* open file follows its inode: when the copy is renamed, who has it open  *)
(* writes the file, and who had the old file open writes what is gone.     *)
(* A client that rests may begin the next call, of this or of another job. *)
(***************************************************************************)
EXTENDS Naturals, Sequences

CONSTANTS
    Python, Beam,       \* the clients that use the session
    Keyed,              \* the clients with an API key, or that ask the codex CLI
    Replies,            \* what the model may say
    MaxGrants,          \* bound: refreshes that the service grants
    MaxFaults,          \* bound: lost answers, failed requests, kills
    MaxWrites,          \* bound: writes of the grok CLI
    Empty, Torn,        \* contents of a file that is no JSON
    None                \* no file, no record, no envelope

ASSUME ClientAssumption == Python \cap Beam = {} /\ Keyed \cap (Python \cup Beam) = {}
ASSUME LimitAssumption  == MaxGrants \in Nat /\ MaxFaults \in Nat /\ MaxWrites \in Nat

Records == [key : Nat, refresh : Nat, exp : Nat]
Texts   == [key : Nat, refresh : Nat, exp : Nat, theirs : Nat]
ASSUME TextAssumption ==
    /\ Empty \notin Texts /\ Torn \notin Texts /\ None \notin Texts /\ None \notin Records
    /\ None \notin {Empty, Torn, "file", "copy", "gone"}

Sharing == Python \cup Beam
Clients == Sharing \cup Keyed

VARIABLES
    policy,             \* of the token service, see Policies
    server,             \* [refresh, dead, grants]: the refresh token it takes, a revoked session
    expired, refused,   \* the first access token not past its expires_at; not answered 401
    file, copy,         \* auth.json and auth.json.tmp
    theirs,             \* the last write of the grok CLI
    stage, rec, blob,   \* per client: where it is, its record, the file it read
    fd, retried,        \* the file it has open; whether the service has answered 401
    said,               \* how the call that was just over has ended
    faults,
    overlapped, lost, raced

service == <<policy, server, expired, refused>>
files   == <<file, copy, theirs>>
client  == <<stage, rec, blob, fd, retried>>
history == <<overlapped, lost, raced>>
session == <<service, files, client, said, faults, history>>

\* The service keeps the refresh token, or rotates it at each use; an old one that comes
\* back is refused, or makes it revoke the session.
Policies == {"keeps", "rotates", "revokes"}

Holding    == {"back", "open", "fill", "chmod", "rename"}   \* a grant that is not in the file
Refreshing == Holding \cup {"post"}

-----------------------------------------------------------------------------
\* Envelopes. A field is "none" (absent or null), "text", "blank", "list" (of strings),
\* "null" (allowed_globs, when it is there), "falsy" or "bad" (of another type). The nodes
\* are a sequence when is = "list".

Falsy == {"none", "blank", "falsy"}

Fields == Falsy \cup {"text", "list", "dict", "null", "bad"}
Nodes  == [id : Fields, writes : Fields, depends_on : Fields, program : Fields,
           allowed_globs : Fields]
Messages ==
    [is : {"object", "prose", "broken"}, program : Fields, artifacts : Fields,
     rationale : Fields, nodes : [is : Fields, list : Seq(Nodes)], claims : BOOLEAN]
ASSUME ReplyAssumption == Replies \subseteq Messages

HasNodes(value) == value.nodes.is = "list" /\ value.nodes.list # <<>>

\* Mutant of NormalNode: what has passed is handed on as it came.
NormalNodeLeft(n) == n

\* _normalize_nodes: what becomes of a node that passes.
NormalNode(n) ==
    [n EXCEPT !.writes = "list", !.depends_on = "list",
              !.program = IF @ = "none" THEN "blank" ELSE @]

NodePasses(n) ==
    /\ n.id = "text" /\ n.program \in {"none", "text", "blank"}
    /\ {n.writes, n.depends_on} \subseteq {"list"} \cup Falsy
    /\ n.allowed_globs \in {"none", "list"}

\* normalize_envelope: the envelope, or None for a PlannerError.
Normalize(raw) ==
    LET graph   == HasNodes(raw)
        program == IF raw.program = "none" /\ graph THEN "blank" ELSE raw.program
    IN  IF /\ raw.nodes.is # "bad" /\ \A i \in DOMAIN raw.nodes.list : NodePasses(raw.nodes.list[i])
           /\ program \in {"text"} \cup (IF graph THEN {"blank"} ELSE {})
           /\ raw.artifacts \in {"dict"} \cup Falsy
        THEN [program |-> program, artifacts |-> "dict",
              rationale |-> IF raw.rationale \in Falsy THEN "blank" ELSE "text",
              nodes |-> [is   |-> IF graph THEN "list" ELSE "none",
                         list |-> [i \in DOMAIN raw.nodes.list |-> NormalNode(raw.nodes.list[i])]]]
        ELSE None

\* parse_nodes of livingdict/envelope.py
NodeParses(n) ==
    /\ n.id = "text" /\ n.program \in {"none", "text", "blank"}
    /\ {n.writes, n.depends_on} \subseteq {"none", "list"}
    /\ n.allowed_globs \in {"none", "null", "list"}

\* parse_envelope, which call_planner applies to what the planner printed.
Parses(value) ==
    /\ value.nodes.is # "bad" /\ \A i \in DOMAIN value.nodes.list : NodeParses(value.nodes.list[i])
    /\ value.program \in {"text", "blank"} \cup (IF HasNodes(value) THEN {"none"} ELSE {})
    /\ value.artifacts \in {"dict"} \cup Falsy
    /\ value.rationale \in {"text"} \cup Falsy

\* A process ends with exit 0 ("done"), with the exit 2 of a PlannerError or what the BEAM
\* host returns as an error, with an exception that nobody handles, or killed.
Ends(how) == [how |-> how, envelope |-> None, reply |-> None]

\* extract_json_object: how a call ends whose reply has no object in it, or one that is
\* broken; None when there is one. The JSONDecodeError of a broken one is handled by the BEAM
\* host only.
Extracted(reply, beam) ==
    CASE reply.is = "prose"  -> Ends("error")
      [] reply.is = "broken" -> Ends(IF beam THEN "error" ELSE "crash")
      [] reply.is = "object" -> None

\* What the process was started for, main: plan, draft_claims, audit_gate. The BEAM host, like
\* audit_gate, takes any object.
Phases(beam) == IF beam THEN {"audit"} ELSE {"plan", "claims", "audit"}

\* How a call ends whose reply is an object.
Made(phase, reply) ==
    CASE phase = "audit"  -> Ends("done")
      [] phase = "claims" -> Ends(IF reply.claims THEN "done" ELSE "error")
      [] phase = "plan"   ->
            IF Normalize(reply) = None THEN Ends("error")
            ELSE [how |-> "done", envelope |-> Normalize(reply), reply |-> reply]

\* _consume_stream: what has arrived when the stream ends, with [DONE] or without it.
Heard(reply) == {reply} \cup {[reply EXCEPT !.is = i] : i \in {"prose", "broken"}}

Endings(beam) ==
    {IF Extracted(heard, beam) # None THEN Extracted(heard, beam) ELSE Made(phase, heard) :
        phase \in Phases(beam), heard \in UNION {Heard(reply) : reply \in Replies}}
PythonEndings == Endings(FALSE)
BeamEndings   == Endings(TRUE)

-----------------------------------------------------------------------------
\* The file.

Contents(r, others) == [key |-> r.key, refresh |-> r.refresh, exp |-> r.exp, theirs |-> others]
Session(text)       == [key |-> text.key, refresh |-> text.refresh, exp |-> text.exp]

Whole == file \notin {Empty, Torn}

PlannerInit ==
    /\ policy \in Policies /\ server = [refresh |-> 0, dead |-> FALSE, grants |-> 0]
    /\ expired = 0 /\ refused = 0 /\ theirs = 0 /\ faults = 0
    /\ file = Contents([key |-> 0, refresh |-> 0, exp |-> 0], 0) /\ copy = None
    /\ stage = [c \in Clients |-> "rest"] /\ retried = [c \in Clients |-> FALSE]
    /\ rec = [c \in Clients |-> None] /\ blob = [c \in Clients |-> None]
    /\ fd = [c \in Clients |-> None] /\ said = None
    /\ overlapped = FALSE /\ lost = FALSE /\ raced = FALSE

\* The client goes on.
Go(c, where) ==
    /\ stage' = [stage EXCEPT ![c] = where] /\ said' = None
    /\ overlapped' = (overlapped \/ \E a, b \in Sharing :
                        a # b /\ {stage'[a], stage'[b]} \subseteq Refreshing)

\* Its process ends, see Ends.
Over(c, end) ==
    /\ stage' = [stage EXCEPT ![c] = "rest"] /\ said' = end
    /\ rec' = [rec EXCEPT ![c] = None] /\ blob' = [blob EXCEPT ![c] = None]
    /\ fd' = [fd EXCEPT ![c] = None] /\ retried' = [retried EXCEPT ![c] = FALSE]
    /\ UNCHANGED overlapped

\* _oauth_record, and find_oauth_record: the record, to be exchanged if it has to be or has
\* expired. The BEAM host holds on to the file.
Reads(c, anyway) ==
    IF ~Whole THEN Over(c, Ends("error"))
    ELSE /\ Go(c, IF anyway \/ file.exp < expired THEN "post" ELSE "ask")
         /\ rec' = [rec EXCEPT ![c] = Session(file)]
         /\ blob' = [blob EXCEPT ![c] = IF c \in Beam THEN file ELSE None]
         /\ UNCHANGED fd

-----------------------------------------------------------------------------
\* A call.

\* bearer_token, oauth_token. The token of an expired record is exchanged first.
Begin(c) ==
    /\ stage[c] = "rest" /\ UNCHANGED retried
    /\ Reads(c, FALSE)
    /\ UNCHANGED <<service, files, faults, lost, raced>>

\* XAI_API_KEY, OPENAI_API_KEY, ANTHROPIC_API_KEY or codex: no session.
BeginKeyed(c) ==
    /\ stage[c] = "rest" /\ Go(c, "ask")
    /\ UNCHANGED <<service, files, faults, lost, raced, rec, blob, fd, retried>>

Grants(c) == rec[c].refresh = server.refresh /\ ~server.dead /\ server.grants < MaxGrants

\* The service takes the refresh token: one more grant, and the token it will take next.
Rotated == [refresh |-> IF policy = "keeps" THEN server.refresh ELSE server.grants + 1,
            dead |-> server.dead, grants |-> server.grants + 1]

\* The client's new record: without expires_in the old expires_at stays.
Granted(c, dated) ==
    rec' = [rec EXCEPT ![c] = [key |-> server'.grants, refresh |-> server'.refresh,
                               exp |-> IF dated THEN server'.grants ELSE @.exp]]

\* _refresh_oauth, as far as the answer.
Post(c) ==
    /\ stage[c] = "post" /\ Grants(c) /\ server' = Rotated
    /\ \E dated \in BOOLEAN : Granted(c, dated)
    /\ Go(c, IF c \in Python THEN "back" ELSE "open")
    /\ UNCHANGED <<policy, expired, refused, files, blob, fd, retried, faults, lost, raced>>

PostRefused(c) ==
    /\ stage[c] = "post" /\ ~Grants(c) /\ Over(c, Ends("error"))
    /\ server' = [server EXCEPT !.dead =
                    @ \/ (policy = "revokes" /\ rec[c].refresh # server.refresh)]
    /\ UNCHANGED <<policy, expired, refused, files, faults, lost, raced>>

\* The answer does not arrive: a URLError or a timeout, which Python does not handle here.
PostLost(c) ==
    /\ stage[c] = "post" /\ faults < MaxFaults /\ faults' = faults + 1
    /\ IF Grants(c) THEN server' = Rotated ELSE UNCHANGED server
    /\ lost' = TRUE /\ Over(c, Ends(IF c \in Python THEN "crash" ELSE "error"))
    /\ UNCHANGED <<policy, expired, refused, files, raced>>

\* Mutant of ReadBack: the file as it was before the exchange is written back.
ReadBackNot(c) ==
    /\ stage[c] = "back" /\ Whole /\ Go(c, "open")
    /\ blob' = [blob EXCEPT ![c] = Contents(rec[c], 0)]
    /\ UNCHANGED <<service, files, rec, fd, retried, faults, lost, raced>>

\* Python reads the file again, for the other records in it.
ReadBack(c) ==
    /\ stage[c] = "back"
    /\ IF Whole
       THEN /\ Go(c, "open") /\ blob' = [blob EXCEPT ![c] = file]
            /\ UNCHANGED <<rec, fd, retried>>
       ELSE Over(c, Ends("crash"))
    /\ UNCHANGED <<service, files, faults, lost, raced>>

\* Mutant of Open: the file itself is written, not a copy of it.
OpenInPlace(c) ==
    /\ stage[c] = "open" /\ Go(c, "fill")
    /\ file' = Empty /\ fd' = [fd EXCEPT ![c] = "file"]
    /\ UNCHANGED <<service, copy, theirs, rec, blob, retried, faults, lost, raced>>

\* The copy is opened for writing: created, or cut to nothing if it is there.
Open(c) ==
    /\ stage[c] = "open" /\ Go(c, "fill")
    /\ copy' = Empty /\ fd' = [fd EXCEPT ![c] = "copy"]
    /\ UNCHANGED <<service, file, theirs, rec, blob, retried, faults, lost, raced>>

\* What a text becomes when the client writes its own: over that of another client, part of
\* which may stick out at the end.
WrittenOver(c, text) ==
    {Contents(rec[c], blob[c].theirs)} \cup (IF text = Empty THEN {} ELSE {Torn})

\* The text is written, and the file closed.
Fill(c) ==
    /\ stage[c] = "fill" /\ Go(c, "chmod") /\ fd' = [fd EXCEPT ![c] = None]
    /\ copy' \in (IF fd[c] = "copy" THEN WrittenOver(c, copy) ELSE {copy})
    /\ file' \in (IF fd[c] = "file" THEN WrittenOver(c, file) ELSE {file})
    /\ UNCHANGED <<service, theirs, rec, blob, retried, faults, lost, raced>>

\* chmod 0600, which needs the name. An OSError is handled by neither host.
Chmod(c) ==
    /\ stage[c] = "chmod"
    /\ IF copy = None THEN Over(c, Ends("crash"))
       ELSE Go(c, "rename") /\ UNCHANGED <<rec, blob, fd, retried>>
    /\ UNCHANGED <<service, files, faults, lost, raced>>

\* What is open, when the name of the file is given to the copy or to another file.
Moved(copied) == [c \in Clients |-> CASE fd[c] = "file" -> "gone"
                                     [] fd[c] = "copy" -> copied
                                     [] OTHER -> fd[c]]

Rename(c) ==
    /\ stage[c] = "rename"
    /\ IF copy = None
       THEN Over(c, Ends("crash")) /\ UNCHANGED <<file, copy>>
       ELSE /\ Go(c, "ask") /\ blob' = [blob EXCEPT ![c] = None] /\ UNCHANGED <<rec, retried>>
            /\ file' = copy /\ copy' = None /\ fd' = Moved("file")
    /\ UNCHANGED <<service, theirs, faults, lost, raced>>

Refuses(c) == c \in Sharing /\ rec[c].key < refused

\* _open_chat: at the first 401 Python takes the record of the file, exchanges its refresh
\* token and asks again; the HTTPError of the second request is not handled.
Denied(c) ==
    /\ stage[c] = "ask" /\ Refuses(c)
    /\ IF c \in Python /\ ~retried[c]
       THEN /\ Reads(c, TRUE)
            /\ retried' = [retried EXCEPT ![c] = Whole]
       ELSE Over(c, Ends(IF c \in Python THEN "crash" ELSE "error"))
    /\ UNCHANGED <<service, files, faults, lost, raced>>

\* How a request ends the call that is answered neither with 200 nor with 401, or not at all.
\* Of what urllib raises, _json_request and _open_chat leave a timeout while they read;
\* _codex_oauth handles a timeout and any exit code.
FailsAs(c) == IF c \in Beam THEN {"error"} ELSE {"error", "crash"}

AskFails(c) ==
    /\ stage[c] = "ask" /\ faults < MaxFaults /\ faults' = faults + 1
    /\ \E how \in FailsAs(c) : Over(c, Ends(how))
    /\ UNCHANGED <<service, files, lost, raced>>

\* complete_json: the reply, streamed or whole, and what becomes of it.
Answer(c) ==
    /\ stage[c] = "ask" /\ ~Refuses(c)
    /\ \E end \in (IF c \in Beam THEN BeamEndings ELSE PythonEndings) : Over(c, end)
    /\ UNCHANGED <<service, files, faults, lost, raced>>

\* The process is killed, with the harness or for itself.
KillClient(c) ==
    /\ stage[c] # "rest" /\ faults < MaxFaults /\ faults' = faults + 1
    /\ lost' = (lost \/ stage[c] \in Holding)
    /\ Over(c, Ends("killed"))
    /\ UNCHANGED <<service, files, raced>>

-----------------------------------------------------------------------------
\* What is not a planner.

\* expires_at passes, or the service stops taking a token before that.
Expire ==
    /\ expired <= server.grants /\ expired' = expired + 1
    /\ refused' = (IF refused < expired' THEN expired' ELSE refused)
    /\ said' = None /\ UNCHANGED <<policy, server, files, client, faults, history>>

Revoke ==
    /\ refused <= server.grants /\ refused' = refused + 1
    /\ said' = None /\ UNCHANGED <<policy, server, expired, files, client, faults, history>>

\* A client holds a copy of the file that will replace it.
Replacing(c) == blob[c] # None /\ stage[c] \in Refreshing

\* The grok CLI replaces the file by one in which its own record is new.
GrokWrites ==
    /\ theirs < MaxWrites /\ Whole /\ theirs' = theirs + 1
    /\ file' = Contents(file, theirs') /\ fd' = Moved("copy")
    /\ raced' = (raced \/ \E c \in Sharing : Replacing(c))
    /\ said' = None
    /\ UNCHANGED <<service, copy, stage, rec, blob, retried, faults, overlapped, lost>>

Refresh(c) ==
    \/ Post(c) \/ PostRefused(c) \/ ReadBack(c)
    \/ Open(c) \/ Fill(c) \/ Chmod(c) \/ Rename(c)

Call(c) == Refresh(c) \/ Denied(c) \/ Answer(c)

PlannerNext ==
    \/ \E c \in Sharing : Begin(c) \/ PostLost(c)
    \/ \E c \in Keyed   : BeginKeyed(c)
    \/ \E c \in Clients : Call(c) \/ AskFails(c) \/ KillClient(c)
    \/ Expire \/ Revoke \/ GrokWrites

PlannerSpec == PlannerInit /\ [][PlannerNext]_session

-----------------------------------------------------------------------------
\* Properties.

\* Type invariant. A client that refreshes or asks has a record; the file it will write has
\* been read; a client with a key has neither.
TypeOK ==
    /\ policy \in Policies /\ server \in [refresh : Nat, dead : BOOLEAN, grants : Nat]
    /\ expired \in Nat /\ refused \in Nat /\ theirs \in Nat /\ faults \in Nat
    /\ file \in Texts \cup {Empty, Torn} /\ copy \in Texts \cup {Empty, Torn, None}
    /\ stage \in [Clients -> Refreshing \cup {"rest", "ask"}]
    /\ rec \in [Clients -> Records \cup {None}] /\ blob \in [Clients -> Texts \cup {None}]
    /\ fd \in [Clients -> {"file", "copy", "gone", None}] /\ retried \in [Clients -> BOOLEAN]
    /\ overlapped \in BOOLEAN /\ lost \in BOOLEAN /\ raced \in BOOLEAN
    /\ \A c \in Sharing :
        /\ stage[c] # "rest" => rec[c] \in Records
        /\ stage[c] \in Holding \ {"back"} \/ (stage[c] = "post" /\ c \in Beam) => blob[c] \in Texts
    /\ \A c \in Keyed : stage[c] \in {"rest", "ask"}

\* The session outlives its refreshes. The file is whole at every moment, also when a client
\* is killed in the middle of writing, and no client loses its copy, unless the service keeps
\* its refresh token and two refreshes overlapped: a service that rotates it lets through one
\* writer at a time. And a whole file, when no client holds a grant, has the refresh token that the service takes,
\* unless an answer was lost, a holder was killed, or an old token was taken for a theft.
SessionIsKept ==
    /\ (policy # "keeps" \/ ~overlapped) =>
           Whole /\ \A c \in Sharing : stage[c] \in {"chmod", "rename"} => copy # None
    /\ ~lost /\ (policy = "rotates" \/ ~overlapped) /\ (\A c \in Sharing : stage[c] \notin Holding)
       => ~server.dead /\ file.refresh = server.refresh

\* No write of the other login is undone, unless a client had the file in its hands then: the
\* BEAM host from before the exchange, Python only while it writes.
OthersAreKept == ~raced /\ Whole => file.theirs = theirs

\* What the planner prints is an envelope that the harness parses, and it has the program
\* and as many nodes as the reply of the model.
HarnessParses ==
    (IF said = None THEN FALSE ELSE said.envelope # None) =>
        /\ said.how = "done" /\ Parses(said.envelope)
        /\ said.envelope.program = IF said.reply.program = "none" THEN "blank"
                                   ELSE said.reply.program
        /\ DOMAIN said.envelope.nodes.list = DOMAIN said.reply.nodes.list
=============================================================================
