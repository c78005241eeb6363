---------------------------- MODULE ChannelRouter ----------------------------
(***************************************************************************)
(* The fail-over between the channels of a multi-channel provider and the  *)
(* circuit breaker behind it: calls in several threads and processes, the  *)
(* failure counters and disabled marks they share in redis, and the        *)
(* upstream channels that go down and come back.                           *)
(*                                                                         *)
(* A call is FailoverChatModel.stream, or ChannelRouter.run for invoke,    *)
(* images and speech.  One redis command or one upstream answer is a step. *)
(* Chunks after the first change nothing and are left out, as is the err   *)
(* key, which is only displayed.  A count stops at Threshold, the only     *)
(* value it is compared with.                                              *)
(***************************************************************************)
EXTENDS Naturals, FiniteSets

CONSTANTS
    Channels,   \* the enabled channels of the provider
    Threads,    \* threads that call models
    Rank,       \* the order of the candidates: by priority, then by id
    Threshold,  \* CHANNEL_FAILURE_THRESHOLD
    Reliable,   \* channels that have no outage
    Rejects,    \* which requests an upstream may refuse: "first", a chat
                \* request, before its first chunk; "later", a stream, in
                \* the middle; "image", an image request
    RedisFails, \* whether redis commands may fail
    None        \* no channel

ASSUME ConstantsAssumption ==
    /\ Rank \in [Channels -> Nat]
    /\ \A c, d \in Channels : Rank[c] = Rank[d] => c = d
    /\ Threshold \in Nat \ {0}
    /\ Reliable \subseteq Channels
    /\ Rejects \subseteq {"first", "later", "image"}
    /\ RedisFails \in BOOLEAN
    /\ None \notin Channels

VARIABLES
    well,  \* whether each upstream channel is in order
    fails, \* ai:llm:chan:<id>:fails
    open,  \* whether ai:llm:chan:<id>:disabled exists: the circuit is open
    call   \* what each thread is doing

vars == <<well, fails, open, call>>

-----------------------------------------------------------------------------
(* Values.                                                                 *)

Pcs == {"idle", "look", "call", "streaming", "count", "trip", "clear"}
Answers == {"none", "ok", "rejected", "failed", "refused", "cut", "closed"}

\* A call with the candidates S, and a thread that has made none.  asked,
\* spoke and answer outlive the call they belong to.
CallOf(S, pc, kind) ==
    [pc |-> pc, kind |-> kind, asked |-> S, todo |-> S, live |-> {},
     at |-> None, cut |-> FALSE, spoke |-> {}, answer |-> "none"]
Idle == CallOf({}, "idle", "run")

CallType ==
    [pc : Pcs, kind : {"run", "stream"},
     asked : SUBSET Channels,         \* the candidates
     todo : SUBSET Channels,          \* candidates filter_live has to look at
     live : SUBSET Channels,          \* candidates it kept, not yet tried
     at : Channels \union {None},     \* the channel that answers
     cut : BOOLEAN,                   \* whether the stream broke after a chunk
     spoke : SUBSET Channels,         \* the channels whose chunks came out
     answer : Answers]                \* how the call ended

Firsts(S) == {c \in S : \A d \in S : Rank[c] <= Rank[d]}

\* Whether a redis command is carried out; a failed one is swallowed.
Redis == IF RedisFails THEN BOOLEAN ELSE {TRUE}

Put(t, k) == call' = [call EXCEPT ![t] = k]

Ended(k, answer) ==
    [k EXCEPT !.pc = "idle", !.answer = answer, !.todo = {}, !.live = {},
              !.at = None, !.cut = FALSE]

Init ==
    /\ well = [c \in Channels |-> TRUE]
    /\ fails = [c \in Channels |-> 0]
    /\ open = [c \in Channels |-> FALSE]
    /\ call = [t \in Threads |-> Idle]

-----------------------------------------------------------------------------
(* The candidates.                                                         *)

Begin(t) ==
    /\ call[t].pc = "idle"
    /\ \E S \in SUBSET Channels \ {{}}, kind \in {"run", "stream"} :
        Put(t, CallOf(S, "look", kind))
    /\ UNCHANGED <<well, fails, open>>

\* Mutant: without an answer the channel counts as disabled.
LookAtClosed(t) ==
    /\ call[t].pc = "look"
    /\ \E c \in Firsts(call[t].todo), up \in Redis :
        Put(t, [call[t] EXCEPT !.todo = @ \ {c},
                               !.live = IF up /\ ~open[c] THEN @ \union {c}
                                                          ELSE @])
    /\ UNCHANGED <<well, fails, open>>

\* filter_live asks redis channel by channel; without an answer the channel
\* counts as available.
LookAt(t) ==
    /\ call[t].pc = "look"
    /\ \E c \in Firsts(call[t].todo), up \in Redis :
        Put(t, [call[t] EXCEPT !.todo = @ \ {c},
                               !.live = IF up /\ open[c] THEN @
                                                         ELSE @ \union {c}])
    /\ UNCHANGED <<well, fails, open>>

Admit(t) ==
    /\ call[t].pc = "look"
    /\ call[t].todo = {}
    /\ Put(t, IF call[t].live = {} THEN Ended(call[t], "refused")
                                   ELSE [call[t] EXCEPT !.pc = "call"])
    /\ UNCHANGED <<well, fails, open>>

-----------------------------------------------------------------------------
(* One candidate.                                                          *)

\* Up to its first answer the channel under trial is the first of live.
Trying(t, c) == call[t].pc = "call" /\ c \in Firsts(call[t].live)

\* invoke returns, or a stream ends without a chunk.
Answer(t) ==
    /\ \E c \in Channels :
        /\ Trying(t, c)
        /\ Put(t, [call[t] EXCEPT !.pc = "clear", !.at = c])
    /\ UNCHANGED <<well, fails, open>>

FirstChunk(t) ==
    /\ call[t].kind = "stream"
    /\ \E c \in Channels :
        /\ Trying(t, c)
        /\ Put(t, [call[t] EXCEPT !.pc = "streaming", !.at = c,
                                  !.spoke = @ \union {c}])
    /\ UNCHANGED <<well, fails, open>>

\* Mutant: every error counts against the channel.
RejectCounted(t) ==
    /\ "first" \in Rejects
    /\ \E c \in Channels :
        /\ Trying(t, c)
        /\ Put(t, [call[t] EXCEPT !.pc = "count", !.at = c])
    /\ UNCHANGED <<well, fails, open>>

\* A request error (400, 422) is raised at once, whoever answers it.
Reject(t) ==
    /\ "first" \in Rejects
    /\ \E c \in Channels : Trying(t, c)
    /\ Put(t, Ended(call[t], "rejected"))
    /\ UNCHANGED <<well, fails, open>>

\* What counts as a failure of channel c: a refused connection, a timeout, a
\* 5xx, 401, 403 or 429; and any refused image request, since the provider
\* turns the answer into a RuntimeError, which has no status code.
ChannelError(k, c) == ~well[c] \/ ("image" \in Rejects /\ k.kind = "run")

Fail(t) ==
    /\ \E c \in Channels :
        /\ Trying(t, c)
        /\ ChannelError(call[t], c)
        /\ Put(t, [call[t] EXCEPT !.pc = "count", !.at = c])
    /\ UNCHANGED <<well, fails, open>>

\* After the first chunk every error is recorded and raised.
Broken(k) == ~well[k.at] \/ "later" \in Rejects

Break(t) ==
    /\ call[t].pc = "streaming"
    /\ Broken(call[t])
    /\ Put(t, [call[t] EXCEPT !.pc = "count", !.cut = TRUE])
    /\ UNCHANGED <<well, fails, open>>

EndStream(t) ==
    /\ call[t].pc = "streaming"
    /\ Put(t, [call[t] EXCEPT !.pc = "clear"])
    /\ UNCHANGED <<well, fails, open>>

\* The consumer closes the generator: GeneratorExit passes both handlers.
CloseStream(t) ==
    /\ call[t].pc = "streaming"
    /\ Put(t, Ended(call[t], "closed"))
    /\ UNCHANGED <<well, fails, open>>

-----------------------------------------------------------------------------
(* The breaker.                                                            *)

\* Mutants: a broken stream goes on with the next channel; a failed channel
\* stays in the list.
NextAfterCut(k) ==
    LET rest == k.live \ {k.at}
    IN  IF rest = {} THEN Ended(k, "failed")
        ELSE [k EXCEPT !.pc = "call", !.live = rest, !.at = None, !.cut = FALSE]
NextAgain(k) ==
    IF k.cut THEN Ended(k, "cut")
    ELSE [k EXCEPT !.pc = "call", !.at = None]

\* What is left of the call after a recorded failure.
NextCandidate(k) ==
    LET rest == k.live \ {k.at}
    IN  IF k.cut THEN Ended(k, "cut")
        ELSE IF rest = {} THEN Ended(k, "failed")
        ELSE [k EXCEPT !.pc = "call", !.live = rest, !.at = None]

\* record_success deletes the keys of the channel in one command.
RecordSuccess(t) ==
    /\ call[t].pc = "clear"
    /\ \E up \in Redis :
        /\ fails' = IF up THEN [fails EXCEPT ![call[t].at] = 0] ELSE fails
        /\ open' = IF up THEN [open EXCEPT ![call[t].at] = FALSE] ELSE open
    /\ Put(t, Ended(call[t], "ok"))
    /\ UNCHANGED well

\* record_failure, INCR: the reply decides whether the circuit opens.  If the
\* EXPIRE that follows fails, the circuit stays closed: Trip without redis.
Count(t) ==
    /\ call[t].pc = "count"
    /\ LET c == call[t].at
           n == IF fails[c] = Threshold THEN Threshold ELSE fails[c] + 1
       IN  \E up \in Redis :
            /\ fails' = IF up THEN [fails EXCEPT ![c] = n] ELSE fails
            /\ Put(t, IF up /\ n = Threshold
                      THEN [call[t] EXCEPT !.pc = "trip"]
                      ELSE NextCandidate(call[t]))
    /\ UNCHANGED <<well, open>>

\* record_failure, SET ... EX.
Trip(t) ==
    /\ call[t].pc = "trip"
    /\ \E up \in Redis :
        open' = IF up THEN [open EXCEPT ![call[t].at] = TRUE] ELSE open
    /\ Put(t, NextCandidate(call[t]))
    /\ UNCHANGED <<well, fails>>

\* Mutant: the mark only goes with the counter, which is longer-lived.
CoolDownLast(c) ==
    /\ open[c]
    /\ fails[c] = 0
    /\ open' = [open EXCEPT ![c] = FALSE]
    /\ UNCHANGED <<well, fails, call>>

\* The disabled mark runs out: the next call tries the channel again, and one
\* failure is enough to open the circuit anew.
CoolDown(c) ==
    /\ open[c]
    /\ open' = [open EXCEPT ![c] = FALSE]
    /\ UNCHANGED <<well, fails, call>>

\* The counter lives five cool-downs from its last failure.
ForgetFails(c) ==
    /\ fails[c] # 0
    /\ ~open[c]
    /\ fails' = [fails EXCEPT ![c] = 0]
    /\ UNCHANGED <<well, open, call>>

\* The console's recover button, or the deletion of the channel.
Recover(c) ==
    /\ fails' = [fails EXCEPT ![c] = 0]
    /\ open' = [open EXCEPT ![c] = FALSE]
    /\ UNCHANGED <<well, call>>

-----------------------------------------------------------------------------
(* The environment.                                                        *)

Outage(c) ==
    /\ c \notin Reliable
    /\ well' = [well EXCEPT ![c] = ~@]
    /\ UNCHANGED <<fails, open, call>>

\* The worker process dies, or the thread is given up.
Kill(t) ==
    /\ call[t].pc # "idle"
    /\ Put(t, Ended(call[t], "none"))
    /\ UNCHANGED <<well, fails, open>>

Step(t) ==
    \/ LookAt(t) \/ Admit(t)
    \/ Answer(t) \/ FirstChunk(t) \/ Reject(t) \/ Fail(t)
    \/ Break(t) \/ EndStream(t) \/ CloseStream(t)
    \/ RecordSuccess(t) \/ Count(t) \/ Trip(t)

Next ==
    \/ \E t \in Threads : Begin(t) \/ Step(t) \/ Kill(t)
    \/ \E c \in Channels :
        CoolDown(c) \/ ForgetFails(c) \/ Recover(c) \/ Outage(c)

Spec == Init /\ [][Next]_vars

\* Upstream calls and redis commands return, by their timeouts if need be,
\* and keys with a time to live run out.
Fairness ==
    /\ \A t \in Threads : WF_vars(Step(t))
    /\ \A c \in Channels : WF_vars(CoolDown(c))

FairSpec == Spec /\ Fairness

-----------------------------------------------------------------------------
(* Properties.                                                             *)

\* Types of all variables.
TypeOK ==
    /\ well \in [Channels -> BOOLEAN]
    /\ fails \in [Channels -> 0..Threshold]
    /\ open \in [Channels -> BOOLEAN]
    /\ call \in [Threads -> CallType]

\* Requests that are refused for what they contain never count against a
\* channel that has no outage: it is never disabled.
SoundStaysOn == \A c \in Reliable : fails[c] = 0 /\ ~open[c]

\* A call with a channel in its list that has no outage does not end for want
\* of a channel, whatever the others do and whoever disables them meanwhile.
SoundChannelServes ==
    \A t \in Threads :
        call[t].answer \in {"refused", "failed"} =>
            call[t].asked \intersect Reliable = {}

\* What one stream puts out comes from one channel: it fails over before its
\* first chunk only, so no text is repeated.
OneChannelPerStream == \A t \in Threads : Cardinality(call[t].spoke) <= 1

\* A channel whose outage is over for good is in use again for good: its
\* circuit closes without anybody's help (while upstreams refuse a request
\* before its first chunk, if they do).
RepairedIsUsedAgain ==
    \A c \in Channels : <>[]well[c] => <>[]~open[c]

\* Every call ends, with an answer or an error, whatever fails on its way
\* through the candidates.
CallsEnd == \A t \in Threads : call[t].pc # "idle" ~> call[t].pc = "idle"

=============================================================================
