---------------------------- MODULE Conversations ----------------------------
(***************************************************************************)
(* Conversations of one account: which of them a message continues, and    *)
(* what the tasks that follow its rounds make of their titles and of their *)
(* long-term memory.                                                       *)
(*                                                                         *)
(* One application is talked to in three ways: as a draft by its owner     *)
(* (web_app), as published by its owner, and through the API by end users. *)
(* The assistant is an application of its own.  A request that names no    *)
(* conversation continues the latest one in sight or opens one; the owner  *)
(* may name any conversation of the application.  It looks it up, fetches  *)
(* attachments and only then inserts its row: by then other conversations  *)
(* may be later and this one deleted.  As each is the latest when it is    *)
(* opened, a slow request may continue any one in sight, or open another   *)
(* because it saw none.                                                    *)
(*                                                                         *)
(* When a round is closed a task is sent, at most once.  It names a        *)
(* conversation that has the default title, then rewrites the summary to   *)
(* include the round.  Each is a read, a call of a model and a commit; five *)
(* children take tasks, so those of one conversation may overlap.          *)
(*                                                                         *)
(* ChatRound has the inside of a round, which is open or closed here.  A   *)
(* summary is abstracted to the rounds that went into it.                  *)
(***************************************************************************)
EXTENDS Integers, Sequences, FiniteSets, SequencesExt, FiniteSetsExt, TLC

CONSTANTS
    EndUsers,     \* the API's users of the application
    MaxConvs,     \* conversations ever created
    MaxRounds,    \* rounds ever opened
    MaxEdits      \* titles and summaries changed by hand

ASSUME BoundsAssumption ==
    MaxConvs \in Nat /\ MaxRounds \in Nat /\ MaxEdits \in Nat

VARIABLES
    convs,     \* the rows, in the order of creation
    live,      \* those that have not been deleted
    rounds,    \* the messages, in the order of creation
    tasks,     \* the task of each round
    met,       \* conversations on which two writers have overlapped
    edits      \* changes made by hand

vars == <<convs, live, rounds, tasks, met, edits>>

-----------------------------------------------------------------------------
(* Conversations.                                                          *)

AppKinds == {"web_app", "published", "service_api"}

Conv(kind, of) ==
    [kind |-> kind, of |-> of, summary |-> <<>>,
     title |-> IF kind = "web_app" THEN "default" ELSE "fixed"]

OfKinds(kinds) == {c \in DOMAIN convs : convs[c].kind \in kinds}

\* What a request that names no conversation looks among: the preview leaves
\* out only the published ones.
InSight(by) == IF by = "web_app" THEN AppKinds \ {"published"} ELSE {by}

\* Conversation c is there, or is created now.
Reached(c, kind, of) ==
    IF c \in DOMAIN convs THEN UNCHANGED <<convs, live>>
    ELSE /\ c = Len(convs) + 1 /\ c <= MaxConvs
         /\ convs' = Append(convs, Conv(kind, of))
         /\ live' = live \cup {c}

\* One is opened without a round: the messages are only read, a memory is
\* written where there is no conversation, or the request fails before it
\* inserts its row.
Open(by) ==
    /\ Reached(Len(convs) + 1, by, "nobody")
    /\ UNCHANGED <<rounds, tasks, met, edits>>

Delete(cs) ==
    /\ live \cap cs # {}
    /\ live' = live \ cs
    /\ UNCHANGED <<convs, rounds, tasks, met, edits>>

\* All of the owner's conversations of the application, of every kind.
DeleteDebug == Delete(OfKinds(AppKinds))

ClearAssistant == Delete(OfKinds({"assistant_agent"}))

-----------------------------------------------------------------------------
(* Rounds.                                                                 *)

NoTask == [at |-> "none", old |-> <<>>]

\* named: it is the owner's, and names its conversation.
Message(c, by, of, memory, named) ==
    [conv |-> c, by |-> by, of |-> of, memory |-> memory, named |-> named,
     status |-> "open", shown |-> "yes"]

\* The row of the round is inserted.
Ask(c, by, of, memory, named) ==
    /\ Len(rounds) < MaxRounds
    /\ Reached(c, by, of)
    /\ rounds' = Append(rounds, Message(c, by, of, memory, named))
    /\ tasks' = Append(tasks, NoTask)
    /\ UNCHANGED <<met, edits>>

New == Len(convs) + 1

\* What the preview or the published application continues: of a conversation
\* that is named only the owner and the application are checked.
Prepared(by, named) ==
    IF named = "yes" THEN OfKinds(AppKinds)
    ELSE OfKinds(InSight(by)) \cup {New}

\* The configuration has a switch for the memory.
Chat(by, memory) ==
    \E named \in {"yes", "no"} : \E c \in Prepared(by, named) :
        Ask(c, by, "nobody", memory, named)

\* What the assistant continues.
AssistantConversation == OfKinds({"assistant_agent"}) \cup {New}

\* The assistant has no memory.
Assist ==
    \E c \in AssistantConversation :
        Ask(c, "assistant_agent", "nobody", "no", "no")

\* Mutant: the conversation's end user is not compared.
OfAnyEndUser(eu) ==
    {c \in OfKinds({"service_api"}) : convs[c].of \in EndUsers}

\* What an end user may continue.
OfEndUser(eu) == {c \in OfKinds({"service_api"}) : convs[c].of = eu}

Serve(eu, memory) ==
    \E c \in OfEndUser(eu) \cup {New} :
        Ask(c, "service_api", eu, memory, "no")

\* The answer is stored and the task sent, which may fail.
Close(r) ==
    /\ rounds[r].status = "open"
    /\ rounds' = [rounds EXCEPT ![r].status = "normal"]
    /\ \E at \in {"queued", "done"} : tasks' = [tasks EXCEPT ![r].at = at]
    /\ UNCHANGED <<convs, live, met, edits>>

\* Stopped or failed: a task would find nothing to do.
Break(r) ==
    /\ rounds[r].status = "open"
    /\ rounds' = [rounds EXCEPT ![r].status = "failed"]
    /\ tasks' = [tasks EXCEPT ![r].at = "done"]
    /\ UNCHANGED <<convs, live, met, edits>>

\* Rounds are hidden from the model and from their tasks, open ones, too.
Hide(rs) ==
    /\ \E r \in rs : rounds[r].shown = "yes"
    /\ rounds' = [r \in DOMAIN rounds |->
           IF r \in rs THEN [rounds[r] EXCEPT !.shown = "no"] ELSE rounds[r]]
    /\ UNCHANGED <<convs, live, tasks, met, edits>>

DeleteMessage(r) == rounds[r].conv \in live /\ Hide({r})

\* A published conversation is emptied, its memory stays.
ClearPublished ==
    \E c \in OfKinds({"published"}) :
        Hide({r \in DOMAIN rounds : rounds[r].conv = c})

-----------------------------------------------------------------------------
(* The task.                                                               *)

\* Tasks between their read and their last commit.
Active(c) ==
    {r \in DOMAIN tasks : /\ rounds[r].conv = c
                          /\ tasks[r].at \in {"naming", "summing"}}

Meets(c) == met' = IF Active(c) = {} THEN met ELSE met \cup {c}

Goes(r, at, old) == tasks' = [tasks EXCEPT ![r] = [at |-> at, old |-> old]]

\* The message or the conversation has been deleted.
Void(r) == rounds[r].shown = "no" \/ rounds[r].conv \notin live

\* After naming: the summary is to be rewritten, from what was read.
Summarise(r, old) ==
    IF rounds[r].memory = "yes" THEN Goes(r, "summing", old)
    ELSE Goes(r, "done", <<>>)

\* A child takes the task, which acknowledges it, and reads.
Start(r) ==
    LET c == rounds[r].conv
    IN /\ tasks[r].at = "queued"
       /\ IF Void(r) THEN Goes(r, "done", <<>>) /\ UNCHANGED met
          ELSE /\ IF convs[c].title = "default"
                  THEN Goes(r, "naming", convs[c].summary)
                  ELSE Summarise(r, convs[c].summary)
               /\ Meets(c)
       /\ UNCHANGED <<convs, live, rounds, edits>>

\* The title is written over whatever it is by now; then all is read again.
Name(r) ==
    LET c == rounds[r].conv
    IN /\ tasks[r].at = "naming"
       /\ convs' = [convs EXCEPT ![c].title =
                       IF @ = "user" THEN "overwritten" ELSE "auto"]
       /\ IF Void(r) THEN Goes(r, "done", <<>>)
          ELSE Summarise(r, convs[c].summary)
       /\ UNCHANGED <<live, rounds, met, edits>>

\* The model has no name for it, and the session keeps what it has read.
StayUnnamed(r) ==
    /\ tasks[r].at = "naming"
    /\ Summarise(r, tasks[r].old)
    /\ UNCHANGED <<convs, live, rounds, met, edits>>

\* Mutant: only the round is summarised.
OfRoundOnly(old, r) == <<r>>

\* The model makes one summary of the old one and the round.
Summary(old, r) == Append(old, r)

Remember(r) ==
    LET c == rounds[r].conv
    IN /\ tasks[r].at = "summing"
       /\ convs' = [convs EXCEPT ![c].summary = Summary(tasks[r].old, r)]
       /\ Goes(r, "told", <<>>)
       /\ UNCHANGED <<live, rounds, met, edits>>

\* Mutant: the message is handed out again.
FailAgain(r) ==
    /\ tasks[r].at \in {"naming", "summing", "told"}
    /\ Goes(r, "queued", <<>>)
    /\ UNCHANGED <<convs, live, rounds, met, edits>>

\* The model or the database fails, or the child is killed: no second try.
Fail(r) ==
    /\ tasks[r].at \in {"queued", "naming", "summing"}
    /\ Goes(r, "done", <<>>)
    /\ UNCHANGED <<convs, live, rounds, met, edits>>

-----------------------------------------------------------------------------
(* Changes by hand.                                                        *)

Rename(c) ==
    /\ edits < MaxEdits /\ edits' = edits + 1
    /\ c \in live
    /\ convs' = [convs EXCEPT ![c].title = "user"]
    /\ Meets(c)
    /\ UNCHANGED <<live, rounds, tasks>>

\* The memory of the application is that of its latest conversation, of any
\* kind; what is written by hand holds no round.
EditSummary ==
    \E c \in OfKinds(AppKinds) :
        /\ edits < MaxEdits /\ edits' = edits + 1
        /\ convs' = [convs EXCEPT ![c].summary = <<>>]
        /\ tasks' = [r \in DOMAIN tasks |->
               IF rounds[r].conv = c /\ tasks[r].at = "told"
               THEN [tasks[r] EXCEPT !.at = "done"] ELSE tasks[r]]
        /\ Meets(c)
        /\ UNCHANGED <<live, rounds>>

-----------------------------------------------------------------------------
Init ==
    /\ convs = <<>> /\ live = {} /\ rounds = <<>> /\ tasks = <<>>
    /\ met = {} /\ edits = 0

Next ==
    \/ \E by \in {"web_app", "published"} :
          \/ Open(by)
          \/ \E memory \in {"yes", "no"} : Chat(by, memory)
    \/ \E eu \in EndUsers, memory \in {"yes", "no"} : Serve(eu, memory)
    \/ Assist \/ EditSummary
    \/ DeleteDebug \/ ClearAssistant \/ ClearPublished
    \/ \E c \in live : Rename(c) \/ Delete({c})
    \/ \E r \in DOMAIN rounds :
          \/ Close(r) \/ Break(r) \/ DeleteMessage(r)
          \/ Start(r) \/ Name(r) \/ StayUnnamed(r) \/ Remember(r) \/ Fail(r)

Spec == Init /\ [][Next]_vars

-----------------------------------------------------------------------------
TypeOK ==
    /\ Len(convs) <= MaxConvs /\ Len(rounds) <= MaxRounds
    /\ DOMAIN tasks = DOMAIN rounds
    /\ live \subseteq DOMAIN convs /\ met \subseteq DOMAIN convs
    /\ \A c \in DOMAIN convs : ToSet(convs[c].summary) \subseteq DOMAIN rounds
    /\ \A r \in DOMAIN rounds :
          /\ rounds[r].conv \in DOMAIN convs
          /\ tasks[r].at # "none" <=> rounds[r].status # "open"
          /\ tasks[r].at \notin {"naming", "summing"} => tasks[r].old = <<>>

\* No round goes into a summary twice, whatever overlaps, fails or is killed:
\* the task is acknowledged when it is taken and never tried again, because
\* its work cannot be repeated.
NoRoundTwice == \A c \in DOMAIN convs : IsInjective(convs[c].summary)

\* A round whose task has committed is in the memory of its conversation
\* until the memory is written by hand, and a title given by hand is not
\* replaced, as long as no two writers of the conversation have overlapped:
\* each reads before it calls the model and writes everything after.
RememberedUnlessMet ==
    \A c \in DOMAIN convs \ met :
        /\ convs[c].title # "overwritten"
        /\ ToSet(convs[c].summary) =
              {r \in DOMAIN rounds :
                  rounds[r].conv = c /\ tasks[r].at = "told"}

\* What has been said in a conversation or is remembered there, and so can be
\* given to the model, was said by the one the conversation belongs to: an
\* end user, the assistant or the owner.  In that of an end user there is
\* nothing but his own words and the owner's; and the published application
\* and the preview have their own as long as no request of the owner's names
\* a conversation of the other kind.
SilosApart ==
    \A c \in DOMAIN convs :
        \A r \in ToSet(convs[c].summary) \cup
                    {q \in DOMAIN rounds : rounds[q].conv = c} :
            \/ rounds[r].by = convs[c].kind /\ rounds[r].of = convs[c].of
            \/ rounds[r].by = "web_app" /\ convs[c].kind = "service_api"
            \/ /\ rounds[r].named = "yes"
               /\ rounds[r].by \in {"web_app", "published"}
               /\ convs[c].kind \in AppKinds
=============================================================================
