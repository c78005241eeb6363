------------------------------ MODULE ChatRound ------------------------------
(***************************************************************************)
(* One conversation's rounds: chat_service.py and assistant_agent_service  *)
(* open a round, one row of ai_message, and hand a generator to the web    *)
(* server, which streams it (run_agent_stream, run_llm_stream), or answer  *)
(* in one piece (run_agent_complete, run_llm_complete).  The client may    *)
(* leave, a user may ask the agent to stop through redis, the model, redis *)
(* or the database may fail, the web process may die, and other rounds of  *)
(* the same conversation run meanwhile and read the rows as history.       *)
(*                                                                         *)
(* Answers are counted in pieces (the deltas of the stream; a synchronous  *)
(* answer is one piece), tool calls are one flag, and a frame's payload is *)
(* its status.  Frames reach the client in order, so what it has been sent *)
(* is the number of pieces and the frames of the record out.               *)
(***************************************************************************)
EXTENDS Naturals, FiniteSets

CONSTANTS
    Rounds,    \* the rounds of the conversation
    Users,     \* accounts that may call the stop endpoint
    Owner,     \* the account that sent each round
    Kinds,     \* how each round may be answered: "agent", "plain", "sync"
    MaxSaid,   \* most pieces of one answer
    Cap,       \* rounds of history a prompt takes (cap_turns)
    MayDelete, \* rounds whose message its user may delete
    Faults     \* parts that may fail: "model", "redis", "db", "broker",
               \* "setup", "crash", "ttl"

ASSUME RoundsAssumption ==
    /\ IsFiniteSet(Rounds)
    /\ Owner \in [Rounds -> Users]
    /\ Kinds \in [Rounds -> SUBSET {"agent", "plain", "sync"}]
    /\ MaxSaid \in Nat \ {0}
    /\ Cap \in Nat

VARIABLES
    gen,      \* the generator (or the request) that serves each round
    row,      \* the round's row of ai_message; closed: its counts are set
    out,      \* the frames sent: stop or error, agent_end and its status
    hist,     \* the answers each round's prompt took as history
    belong,   \* rounds whose task id is registered in redis
    stopped,  \* rounds whose stop flag is set in redis
    found,    \* stop requests that have passed the check of ownership
    asked,    \* ... since the beginning (for the properties)
    gone,     \* rounds whose client has closed the connection
    sent,     \* rounds announced to the after-round task
    deleted   \* rows soft-deleted by their user

vars == <<gen, row, out, hist, belong, stopped, found, asked, gone, sent,
          deleted>>

Statuses == {"normal", "stop", "error"}

PCs == {"none", "asked", "open", "ping", "loop", "yield", "halt", "final",
        "thoughts", "enqueue", "clear", "end", "done", "dead"}

GenType ==
    [pc : PCs, kind : {"none", "agent", "plain", "sync"},
     said : 0..MaxSaid, acted : BOOLEAN, status : Statuses,
     whole : BOOLEAN, left : BOOLEAN]

RowType ==
    [status : Statuses \union {"none"}, answer : 0..MaxSaid,
     closed : BOOLEAN, at : Nat]

OutType ==
    [mark : {"none", "stop", "error"}, end : Statuses \union {"none"}]

\* Every variable keeps to its type.
TypeOK ==
    /\ gen \in [Rounds -> GenType]
    /\ row \in [Rounds -> RowType]
    /\ out \in [Rounds -> OutType]
    /\ hist \in [Rounds -> SUBSET (Rounds \X (0..MaxSaid))]
    /\ belong \subseteq Rounds
    /\ stopped \subseteq Rounds
    /\ found \subseteq Users \X Rounds
    /\ asked \subseteq Users \X Rounds
    /\ gone \subseteq Rounds
    /\ sent \subseteq Rounds
    /\ deleted \subseteq Rounds

Init ==
    /\ gen = [r \in Rounds |->
                [pc |-> "none", kind |-> "none", said |-> 0, acted |-> FALSE,
                 status |-> "normal", whole |-> FALSE, left |-> FALSE]]
    /\ row = [r \in Rounds |->
                [status |-> "none", answer |-> 0, closed |-> FALSE, at |-> 0]]
    /\ out = [r \in Rounds |->
                [mark |-> "none", end |-> "none"]]
    /\ hist = [r \in Rounds |-> {}]
    /\ belong = {}
    /\ stopped = {}
    /\ found = {}
    /\ asked = {}
    /\ gone = {}
    /\ sent = {}
    /\ deleted = {}

At(r, pc) == gen[r].pc = pc

Goto(r, pc) == gen' = [gen EXCEPT ![r].pc = pc]

Opened == {r \in Rounds : row[r].status # "none"}

(***************************************************************************)
(* The request: read the history, then open the row, then set up.          *)
(***************************************************************************)

\* Mutant: history takes rows without an answer too.
ReadableBlank(q) == row[q].status = "normal" /\ q \notin deleted

\* A row counts as a completed turn: status normal, an answer, not deleted.
Readable(q) ==
    /\ row[q].status = "normal"
    /\ row[q].answer # 0
    /\ q \notin deleted

\* history_for_llm: the newest Cap completed turns.
History ==
    LET turns == {q \in Rounds : Readable(q)}
        newer(q) == {p \in turns : row[p].at > row[q].at}
    IN  {<<q, row[q].answer>> :
            q \in {t \in turns : Cardinality(newer(t)) < Cap}}

Ask(r, kind) ==
    /\ At(r, "none")
    /\ gen' = [gen EXCEPT ![r].pc = "asked", ![r].kind = kind]
    /\ hist' = [hist EXCEPT ![r] = History]
    /\ UNCHANGED <<row, out, belong, stopped, found, asked, gone, sent,
                   deleted>>

\* append_round: the row is committed as normal, with an empty answer.
Append(r) ==
    /\ At(r, "asked")
    /\ row' = [row EXCEPT ![r].status = "normal",
                          ![r].at = Cardinality(Opened) + 1]
    /\ Goto(r, "open")
    /\ UNCHANGED <<out, hist, belong, stopped, found, asked, gone, sent,
                   deleted>>

\* instantiate and _build_tools; a stream's first frame carries its task id.
SetUp(r) ==
    /\ At(r, "open")
    /\ Goto(r, IF gen[r].kind = "sync" THEN "loop" ELSE "ping")
    /\ UNCHANGED <<row, out, hist, belong, stopped, found, asked, gone, sent,
                   deleted>>

\* The set-up raises: the request fails and the row stays open.
SetUpFails(r) ==
    /\ "setup" \in Faults
    /\ At(r, "open")
    /\ Goto(r, "dead")
    /\ UNCHANGED <<row, out, hist, belong, stopped, found, asked, gone, sent,
                   deleted>>

\* The generator goes on after its ping; the agent registers its task.
Register(r) ==
    /\ At(r, "ping")
    /\ Goto(r, "loop")
    /\ belong' = IF gen[r].kind = "agent" THEN belong \union {r} ELSE belong
    /\ UNCHANGED <<row, out, hist, stopped, found, asked, gone, sent,
                   deleted>>

\* Before the try: redis fails to register, or the client left at the ping.
NotStarted(r) ==
    /\ At(r, "ping")
    /\ \/ "redis" \in Faults /\ gen[r].kind = "agent"
       \/ r \in gone
    /\ Goto(r, "dead")
    /\ UNCHANGED <<row, out, hist, belong, stopped, found, asked, gone, sent,
                   deleted>>

(***************************************************************************)
(* The body of the try: events of the model, checks of the stop flag.      *)
(***************************************************************************)

\* The flag is read when the first event of the agent arrives, and then at
\* the first event after a quarter of a second: of a later event nobody can
\* tell.
MayPass(r) == r \in stopped => gen[r].said > 0 \/ gen[r].acted

\* A delta is kept, then sent.
Say(r) ==
    /\ At(r, "loop")
    /\ MayPass(r)
    /\ gen[r].kind # "sync"
    /\ gen[r].said < MaxSaid
    /\ gen' = [gen EXCEPT ![r].said = @ + 1, ![r].pc = "yield"]
    /\ UNCHANGED <<row, out, hist, belong, stopped, found, asked, gone, sent,
                   deleted>>

\* The agent calls a tool: a thought is kept, then sent.
Act(r) ==
    /\ At(r, "loop")
    /\ MayPass(r)
    /\ gen[r].kind = "agent"
    /\ ~gen[r].acted
    /\ gen' = [gen EXCEPT ![r].acted = TRUE, ![r].pc = "yield"]
    /\ UNCHANGED <<row, out, hist, belong, stopped, found, asked, gone, sent,
                   deleted>>

\* The web server has written the frame and asks for the next one.
Resume(r) ==
    /\ At(r, "yield")
    /\ Goto(r, "loop")
    /\ UNCHANGED <<row, out, hist, belong, stopped, found, asked, gone, sent,
                   deleted>>

\* A status for the row, and the frame that says so.
Announce(r, status) ==
    /\ gen' = [gen EXCEPT ![r].status = status, ![r].pc = "halt"]
    /\ out' = [out EXCEPT ![r].mark = status]

\* An event arrives, the flag is read and is set: the event is dropped.
Halt(r) ==
    /\ At(r, "loop")
    /\ gen[r].kind = "agent"
    /\ r \in stopped
    /\ Announce(r, "stop")
    /\ UNCHANGED <<row, hist, belong, stopped, found, asked, gone, sent,
                   deleted>>

\* The model, a chain of calls or the read of the flag raises.
Fail(r) ==
    /\ At(r, "loop")
    /\ gen[r].kind # "sync"
    /\ \/ "model" \in Faults
       \/ "redis" \in Faults /\ gen[r].kind = "agent"
    /\ Announce(r, "error")
    /\ UNCHANGED <<row, hist, belong, stopped, found, asked, gone, sent,
                   deleted>>

\* The model has nothing more to say.
Finish(r) ==
    /\ At(r, "loop")
    /\ MayPass(r)
    /\ gen[r].kind # "sync"
    /\ gen' = [gen EXCEPT ![r].whole = TRUE, ![r].pc = "final"]
    /\ UNCHANGED <<row, out, hist, belong, stopped, found, asked, gone, sent,
                   deleted>>

\* Leave the try after the frame of a stop or of an error.
Halted(r) ==
    /\ At(r, "halt")
    /\ Goto(r, "final")
    /\ UNCHANGED <<row, out, hist, belong, stopped, found, asked, gone, sent,
                   deleted>>

\* Mutant: without a finally, a generator that is closed is done.
ExitAtOnce(r) ==
    /\ gen[r].pc \in {"yield", "halt"}
    /\ r \in gone
    /\ Goto(r, "done")
    /\ UNCHANGED <<row, out, hist, belong, stopped, found, asked, gone, sent,
                   deleted>>

\* The web server finds the client gone and closes the generator, which is
\* suspended at a frame: GeneratorExit passes by the except to the finally.
Exit(r) ==
    /\ gen[r].pc \in {"yield", "halt"}
    /\ r \in gone
    /\ gen' = [gen EXCEPT ![r].left = TRUE, ![r].pc = "final"]
    /\ UNCHANGED <<row, out, hist, belong, stopped, found, asked, gone, sent,
                   deleted>>

\* The synchronous paths: invoke answers in one piece, or raises.
Answer(r) ==
    /\ At(r, "loop")
    /\ gen[r].kind = "sync"
    /\ \/ \E said \in {0, 1} :
            gen' = [gen EXCEPT ![r].said = said, ![r].whole = TRUE,
                               ![r].pc = "final"]
       \/ /\ "model" \in Faults
          /\ gen' = [gen EXCEPT ![r].status = "error", ![r].pc = "final"]
    /\ UNCHANGED <<row, out, hist, belong, stopped, found, asked, gone, sent,
                   deleted>>

(***************************************************************************)
(* The finally: close the row, keep the thoughts, announce, clean up, end. *)
(***************************************************************************)

\* Mutant: only a round that ended well keeps its answer.
FinalDropsAnswer(r) ==
    /\ At(r, "final")
    /\ row' = [row EXCEPT
                ![r].answer = IF gen[r].status = "normal" THEN gen[r].said
                              ELSE 0,
                ![r].status = gen[r].status,
                ![r].closed = TRUE]
    /\ Goto(r, IF gen[r].kind = "plain" THEN "enqueue" ELSE "thoughts")
    /\ UNCHANGED <<out, hist, belong, stopped, found, asked, gone, sent,
                   deleted>>

\* finalize_round.
Final(r) ==
    /\ At(r, "final")
    /\ row' = [row EXCEPT ![r].answer = gen[r].said,
                          ![r].status = gen[r].status,
                          ![r].closed = TRUE]
    /\ Goto(r, IF gen[r].kind = "plain" THEN "enqueue" ELSE "thoughts")
    /\ UNCHANGED <<out, hist, belong, stopped, found, asked, gone, sent,
                   deleted>>

\* finalize_round raises: nothing after it runs.
FinalFails(r) ==
    /\ "db" \in Faults
    /\ At(r, "final")
    /\ Goto(r, "dead")
    /\ UNCHANGED <<row, out, hist, belong, stopped, found, asked, gone, sent,
                   deleted>>

\* _safe_persist keeps the thoughts in a table of their own, which nothing
\* here reads; a failure leaves them out and goes on the same way.
Persist(r) ==
    /\ At(r, "thoughts")
    /\ Goto(r, "enqueue")
    /\ UNCHANGED <<row, out, hist, belong, stopped, found, asked, gone, sent,
                   deleted>>

\* enqueue_after_round: a failure of the broker is swallowed.
Enqueue(r) ==
    /\ At(r, "enqueue")
    /\ \/ sent' = sent \union {r}
       \/ "broker" \in Faults /\ UNCHANGED sent
    /\ Goto(r, IF gen[r].kind = "agent" THEN "clear" ELSE "end")
    /\ UNCHANGED <<row, out, hist, belong, stopped, found, asked, gone,
                   deleted>>

\* clear_task: both keys in one DELETE.
Clear(r) ==
    /\ At(r, "clear")
    /\ belong' = belong \ {r}
    /\ stopped' = stopped \ {r}
    /\ Goto(r, "end")
    /\ UNCHANGED <<row, out, hist, found, asked, gone, sent, deleted>>

ClearFails(r) ==
    /\ "redis" \in Faults
    /\ At(r, "clear")
    /\ Goto(r, "dead")
    /\ UNCHANGED <<row, out, hist, belong, stopped, found, asked, gone, sent,
                   deleted>>

\* Mutant: agent_end always says that the round ended well.
EndAsNormal(r) ==
    /\ At(r, "end")
    /\ out' = [out EXCEPT ![r].end = IF gen[r].left THEN @ ELSE "normal"]
    /\ Goto(r, "done")
    /\ UNCHANGED <<row, hist, belong, stopped, found, asked, gone, sent,
                   deleted>>

\* agent_end, or the synchronous response; a generator that is being closed
\* may not yield: RuntimeError, and no frame.
End(r) ==
    /\ At(r, "end")
    /\ out' = [out EXCEPT ![r].end = IF gen[r].left THEN @
                                     ELSE gen[r].status]
    /\ Goto(r, "done")
    /\ UNCHANGED <<row, hist, belong, stopped, found, asked, gone, sent,
                   deleted>>

(***************************************************************************)
(* The others: the client, the stop endpoint, redis' clock, the machine.   *)
(***************************************************************************)

Running == PCs \ {"none", "done", "dead"}

\* The client closes the connection, before the finally (nothing after it
\* depends on the client).
Leave(r) ==
    /\ gen[r].pc \in {"asked", "open", "ping", "loop", "yield", "halt"}
    /\ gen[r].kind # "sync"
    /\ r \notin gone
    /\ gone' = gone \union {r}
    /\ UNCHANGED <<gen, row, out, hist, belong, stopped, found, asked, sent,
                   deleted>>

\* Mutant: the stop endpoint does not compare the task's owner.
FindAnyones(u, r) ==
    /\ r \in belong
    /\ <<u, r>> \notin asked
    /\ asked' = asked \union {<<u, r>>}
    /\ found' = found \union {<<u, r>>}
    /\ UNCHANGED <<gen, row, out, hist, belong, stopped, gone, sent, deleted>>

\* request_stop reads whose task it is; a task that is not there, or not
\* the caller's, ends the request.  Each account asks once per round.
Find(u, r) ==
    /\ r \in belong
    /\ Owner[r] = u
    /\ <<u, r>> \notin asked
    /\ asked' = asked \union {<<u, r>>}
    /\ found' = found \union {<<u, r>>}
    /\ UNCHANGED <<gen, row, out, hist, belong, stopped, gone, sent, deleted>>

\* ... and sets the flag, whatever the generator has done since.
SetStop(u, r) ==
    /\ <<u, r>> \in found
    /\ found' = found \ {<<u, r>>}
    /\ stopped' = stopped \union {r}
    /\ UNCHANGED <<gen, row, out, hist, belong, asked, gone, sent, deleted>>

\* The registration lives 30 minutes in redis, the flag 10.
Expire(r) ==
    /\ "ttl" \in Faults
    /\ \/ r \in belong /\ belong' = belong \ {r} /\ UNCHANGED stopped
       \/ r \in stopped /\ stopped' = stopped \ {r} /\ UNCHANGED belong
    /\ UNCHANGED <<gen, row, out, hist, found, asked, gone, sent, deleted>>

\* delete_message.
Delete(r) ==
    /\ r \in MayDelete
    /\ row[r].status # "none"
    /\ r \notin deleted
    /\ deleted' = deleted \union {r}
    /\ UNCHANGED <<gen, row, out, hist, belong, stopped, found, asked, gone,
                   sent>>

\* The web process that serves the round dies.
Crash(r) ==
    /\ "crash" \in Faults
    /\ gen[r].pc \in Running
    /\ Goto(r, "dead")
    /\ UNCHANGED <<row, out, hist, belong, stopped, found, asked, gone, sent,
                   deleted>>

\* What the web server drives by itself once a round is asked for.
Advance(r) ==
    \/ Append(r) \/ SetUp(r) \/ Register(r)
    \/ Say(r) \/ Act(r) \/ Resume(r) \/ Halt(r) \/ Finish(r) \/ Halted(r)
    \/ Answer(r) \/ Exit(r)
    \/ Final(r) \/ Persist(r) \/ Enqueue(r) \/ Clear(r) \/ End(r)

Hurt(r) ==
    \/ SetUpFails(r) \/ NotStarted(r) \/ Fail(r) \/ FinalFails(r)
    \/ ClearFails(r) \/ Expire(r) \/ Crash(r)

Outside(r) ==
    \/ \E kind \in Kinds[r] : Ask(r, kind)
    \/ \E u \in Users : Find(u, r) \/ SetStop(u, r)
    \/ Leave(r)
    \/ Delete(r)

Next == \E r \in Rounds : Advance(r) \/ Hurt(r) \/ Outside(r)

Spec == Init /\ [][Next]_vars

\* The web server keeps driving a generator: it asks for the next frame, or
\* closes it; the calls it waits on end.
FairSpec == Spec /\ \A r \in Rounds : WF_vars(Advance(r))

(***************************************************************************)
(* Properties.                                                             *)
(***************************************************************************)

\* A client that was told how its round ended can rely on it: the row was
\* closed before, with that status and with all the client was shown; and a
\* stop or error frame is never taken back by the row (the order of
\* finalize_round and agent_end in the finally, lines 224-248).
ShownIsStored ==
    \A r \in Rounds :
        /\ out[r].end # "none" =>
            /\ row[r].closed
            /\ row[r].status = out[r].end
            /\ row[r].answer = gen[r].said
        /\ row[r].closed /\ out[r].mark # "none" =>
            row[r].status = out[r].mark

\* A closed row says why the round ended: "normal" only if the model came to
\* its end or the client left, "stop" only if the owner of the round asked
\* for it, whoever else tried (request_stop's check of ownership).
RowIsHonest ==
    \A r \in Rounds : row[r].closed =>
        /\ row[r].status = "normal" => gen[r].whole \/ gen[r].left
        /\ row[r].status = "stop" => <<Owner[r], r>> \in asked

\* What a prompt has taken as history is never overtaken: each turn was a
\* closed round, which still has the answer that was read, and the answer is
\* the model's whole answer unless the client of that round had left
\* (history_for_llm, while other rounds of the conversation are running).
HistoryIsSettled ==
    \A r \in Rounds : \A turn \in hist[r] :
        LET q == turn[1] IN
        /\ row[q].closed
        /\ row[q].answer = turn[2]
        /\ gen[q].whole \/ gen[q].left

\* A generator that got into its try always closes the row, however the
\* round ends -- the model's end or error, a stop, a client that left --
\* unless the database fails or the process dies (the finally).
RoundsClose ==
    \A r \in Rounds :
        At(r, "loop") ~> (row[r].closed \/ At(r, "dead"))

\* What the row of a round shows of it.
RoundState(r) ==
    CASE row[r].status = "none" -> "none"
      [] row[r].status # "none" /\ ~row[r].closed -> "open"
      [] row[r].closed -> row[r].status

Image(r) ==
    [state |-> RoundState(r), said |-> gen[r].said, stored |-> row[r].answer]

Images == [r \in Rounds |-> Image(r)]

Abstract == INSTANCE Round WITH round <- Images, told <- sent

\* The generators keep the promise of Round: a row is opened once and closed
\* at most once, with all that was said by then and nothing said after, and
\* only closed rows are announced to the after-round task, once.
Promise == Abstract!Spec

=============================================================================
