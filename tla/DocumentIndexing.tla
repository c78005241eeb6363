-------------------------- MODULE DocumentIndexing --------------------------
(***************************************************************************)
(* The knowledge-base indexing pipeline of the backend: documents and      *)
(* segment rows in MySQL, vectors in Qdrant, the keyword table, the Celery *)
(* messages that carry a build, the pool children that run them, and the   *)
(* console requests that start, restart and delete documents.              *)
(*                                                                         *)
(* One step is one commit or one call to an outside store.  A worker holds *)
(* between two steps only what the Python frame holds.  Manual segment     *)
(* edits and the enable/disable switch are in KnowledgeSync; the locked    *)
(* read-modify-write of the keyword table is one step here and is opened   *)
(* up in KeywordTable.                                                     *)
(***************************************************************************)
EXTENDS FiniteSets, Naturals

CONSTANTS
    Docs,         \* document ids, each created at most once
    Segs,         \* segment ids of a document (row id and node_id are one)
    Tasks,        \* broker slots: at most that many messages at a time
    Workers,      \* pool children of the Celery worker
    Reqs,         \* console requests that can be in progress at a time
    Batches,      \* the sets of documents one upload may create
    MaxSplit,     \* most segments a split produces
    MaxAttempts,  \* DOC_BUILD_MAX_ATTEMPTS
    Faults,       \* what the environment may do, a subset of FaultKinds
    None          \* "no task" / "no document"

(***************************************************************************)
(* reject      a stage raises: unreadable file, nothing to index, embedding *)
(*             or Qdrant or lock failure                                   *)
(* qdrant      vectors cannot be deleted: a purge swallows that, a clean-up *)
(*             ends with it                                                *)
(* redis       the attempt counter is unreachable or has expired           *)
(* mark        the commit that would record a failure fails, and is only   *)
(*             rolled back                                                 *)
(* kill        the kernel kills a pool child for the memory a build takes  *)
(* lose        a pool child dies in a clean-up                             *)
(* restart     the worker container dies and boots again                   *)
(* visibility  the broker hands out a message whose build is still running *)
(* dispatch    the web process fails between its commit and .delay()       *)
(* race        others run between a request's check and its commit         *)
(***************************************************************************)
FaultKinds == {"reject", "qdrant", "redis", "mark", "kill", "lose",
               "restart", "visibility", "dispatch", "race"}

ASSUME ConstantsAssumption ==
    /\ Batches \subseteq (SUBSET Docs) \ {{}}
    /\ MaxSplit \in Nat \ {0}
    /\ MaxAttempts \in Nat \ {0}
    /\ Faults \subseteq FaultKinds
    /\ None \notin Docs /\ None \notin Tasks

VARIABLES
    status,    \* ai_document.status; "none" before the row, "deleted" after it
    enabled,   \* ai_document.enabled
    rows,      \* ai_segment rows of a document
    live,      \* those rows with enabled and status completed
    points,    \* Qdrant points whose payload names the document
    kw,        \* segment ids of the document in the keyword table
    attempts,  \* ai:doc_build_attempt:{id}, saturating at MaxAttempts + 1
    task,      \* the broker: one message per slot
    job,       \* what each pool child is doing
    req,       \* what each console request is doing
    unmarked   \* ghost: documents whose last failure could not be recorded

db == <<status, enabled, rows, live, unmarked>>
index == <<points, kw>>
vars == <<status, enabled, rows, live, points, kw, attempts, task, job, req,
          unmarked>>

-----------------------------------------------------------------------------
(* Values.                                                                 *)

Processing == {"parsing", "splitting", "indexing"}
Terminal == {"completed", "error"}
Statuses == {"none", "deleted", "waiting"} \union Processing \union Terminal

\* The steps of one document's build, in the order of _build_one.
BuildPcs == {"purge", "purgeKw", "purgeVec", "purgeRows", "reset", "parse",
             "split", "addRows", "index", "embed", "upsert", "kwRead",
             "addKw", "fail", "clear"}

JobPcs == {"idle", "next", "dropVec", "dropKw"} \union BuildPcs

NoTask == [st |-> "free", kind |-> "none", docs |-> {}, segs |-> {}]
Idle == [pc |-> "idle", task |-> None, left |-> {}, doc |-> None,
         mine |-> {}, todo |-> {}]
NoReq == [pc |-> "idle", op |-> "none", docs |-> {}, segs |-> {},
          saw |-> FALSE]

Messages == {"build", "delete"}

TaskType == [st : {"free", "queued", "leased"},
             kind : {"none"} \union Messages,
             docs : SUBSET Docs, segs : SUBSET Segs]
JobType == [pc : JobPcs, task : Tasks \union {None}, left : SUBSET Docs,
            doc : Docs \union {None}, mine : SUBSET Segs,
            todo : SUBSET Segs]
ReqType == [pc : {"idle", "checked", "dispatch"},
            op : {"none", "build", "reindex", "delete"},
            docs : SUBSET Docs, segs : SUBSET Segs, saw : BOOLEAN]

Exists(d) == status[d] \notin {"none", "deleted"}

Held(t) == \E w \in Workers : job[w].task = t

\* Ids nothing refers to any more: autoincrement and uuid4 never repeat one.
Fresh(d) ==
    {s \in Segs :
        /\ s \notin rows[d] \union points[d] \union kw[d]
        /\ \A w \in Workers : job[w].doc = d => s \notin job[w].mine
        /\ \A t \in Tasks : d \in task[t].docs => s \notin task[t].segs
        /\ \A r \in Reqs : d \in req[r].docs => s \notin req[r].segs}

Init ==
    /\ status = [d \in Docs |-> "none"]
    /\ enabled = [d \in Docs |-> FALSE]
    /\ rows = [d \in Docs |-> {}]
    /\ live = [d \in Docs |-> {}]
    /\ points = [d \in Docs |-> {}]
    /\ kw = [d \in Docs |-> {}]
    /\ attempts = [d \in Docs |-> 0]
    /\ task = [t \in Tasks |-> NoTask]
    /\ job = [w \in Workers |-> Idle]
    /\ req = [r \in Reqs |-> NoReq]
    /\ unmarked = {}

-----------------------------------------------------------------------------
(* Console requests: check, commit, dispatch.                              *)

\* A commit that sets the status of d says again where d stands.
Write(d, s) ==
    /\ status' = [status EXCEPT ![d] = s]
    /\ unmarked' = unmarked \ {d}

\* create_documents: the rows are committed as waiting, then dispatched.
CreateDocuments(r, D) ==
    /\ req[r].pc = "idle"
    /\ \A d \in D : status[d] = "none"
    /\ status' = [d \in Docs |-> IF d \in D THEN "waiting" ELSE status[d]]
    /\ UNCHANGED unmarked
    /\ req' = [req EXCEPT ![r] = [NoReq EXCEPT !.pc = "dispatch",
                                               !.op = "build", !.docs = D]]
    /\ UNCHANGED <<enabled, rows, live, index, attempts, task, job>>

CheckReindex(r, d) ==
    /\ req[r].pc = "idle"
    /\ status[d] \in Terminal
    /\ req' = [req EXCEPT ![r] = [NoReq EXCEPT !.pc = "checked",
                                               !.op = "reindex",
                                               !.docs = {d},
                                               !.saw = enabled[d]]]
    /\ UNCHANGED <<db, index, attempts, task, job>>

\* The ORM writes enabled only when the value it loaded was TRUE, and the
\* UPDATE of a vanished row raises, which ends the request.
CommitReindex(r, d) ==
    /\ req[r].pc = "checked" /\ req[r].op = "reindex" /\ req[r].docs = {d}
    /\ IF Exists(d)
       THEN /\ Write(d, "waiting")
            /\ enabled' = [enabled EXCEPT ![d] = @ /\ ~req[r].saw]
            /\ req' = [req EXCEPT ![r].pc = "dispatch", ![r].op = "build"]
       ELSE /\ req' = [req EXCEPT ![r] = NoReq]
            /\ UNCHANGED <<status, enabled, unmarked>>
    /\ UNCHANGED <<rows, live, index, attempts, task, job>>

CheckDelete(r, d) ==
    /\ req[r].pc = "idle"
    /\ status[d] \in Terminal
    /\ req' = [req EXCEPT ![r] = [NoReq EXCEPT !.pc = "checked",
                                               !.op = "delete",
                                               !.docs = {d},
                                               !.segs = rows[d]]]
    /\ UNCHANGED <<db, index, attempts, task, job>>

\* Mutant: the segment ids are collected after the cascade removed the rows.
CommitDeleteThenRead(r, d) ==
    /\ req[r].pc = "checked" /\ req[r].op = "delete" /\ req[r].docs = {d}
    /\ Write(d, "deleted")
    /\ enabled' = [enabled EXCEPT ![d] = FALSE]
    /\ rows' = [rows EXCEPT ![d] = {}]
    /\ live' = [live EXCEPT ![d] = {}]
    /\ req' = [req EXCEPT ![r].pc = "dispatch", ![r].segs = {}]
    /\ UNCHANGED <<index, attempts, task, job>>

\* The foreign key cascade removes the segment rows with the document.
CommitDelete(r, d) ==
    /\ req[r].pc = "checked" /\ req[r].op = "delete" /\ req[r].docs = {d}
    /\ Write(d, "deleted")
    /\ enabled' = [enabled EXCEPT ![d] = FALSE]
    /\ rows' = [rows EXCEPT ![d] = {}]
    /\ live' = [live EXCEPT ![d] = {}]
    /\ req' = [req EXCEPT ![r].pc = "dispatch"]
    /\ UNCHANGED <<index, attempts, task, job>>

Dispatch(r, t) ==
    /\ req[r].pc = "dispatch"
    /\ task[t].st = "free"
    /\ task' = [task EXCEPT ![t] = [st |-> "queued", kind |-> req[r].op,
                                    docs |-> req[r].docs,
                                    segs |-> req[r].segs]]
    /\ req' = [req EXCEPT ![r] = NoReq]
    /\ UNCHANGED <<db, index, attempts, job>>

\* The broker refuses the message, or the process dies before sending it.
LoseDispatch(r) ==
    /\ "dispatch" \in Faults
    /\ req[r].pc = "dispatch"
    /\ req' = [req EXCEPT ![r] = NoReq]
    /\ UNCHANGED <<db, index, attempts, task, job>>

-----------------------------------------------------------------------------
(* Workers: taking and finishing messages.                                 *)

Goto(w, there) == job' = [job EXCEPT ![w].pc = there]

Ack(w) ==
    /\ task' = [task EXCEPT ![job[w].task] = NoTask]
    /\ job' = [job EXCEPT ![w] = Idle]

\* acks_late: a build stays leased until it ends.  It loads the rows that
\* still exist, whatever their status.
TakeBuild(w, t) ==
    /\ job[w].pc = "idle"
    /\ task[t].st = "queued" /\ task[t].kind = "build"
    /\ task' = [task EXCEPT ![t].st = "leased"]
    /\ job' = [job EXCEPT ![w] = [Idle EXCEPT
                    !.pc = "next", !.task = t,
                    !.left = {d \in task[t].docs : Exists(d)}]]
    /\ UNCHANGED <<db, index, attempts, req>>

\* delete_document is acknowledged when it is taken.
TakeDelete(w, t, d) ==
    /\ job[w].pc = "idle"
    /\ task[t].st = "queued" /\ task[t].kind = "delete"
    /\ task[t].docs = {d}
    /\ task' = [task EXCEPT ![t] = NoTask]
    /\ job' = [job EXCEPT ![w] = [Idle EXCEPT !.pc = "dropVec", !.doc = d,
                                              !.mine = task[t].segs]]
    /\ UNCHANGED <<db, index, attempts, req>>

DropVectors(w, d) ==
    /\ job[w].pc = "dropVec" /\ job[w].doc = d
    /\ \/ points' = [points EXCEPT ![d] = {}] /\ Goto(w, "dropKw")
       \/ /\ "qdrant" \in Faults /\ UNCHANGED points
          /\ job' = [job EXCEPT ![w] = Idle]
    /\ UNCHANGED <<db, kw, attempts, task, req>>

DropKeywords(w, d) ==
    /\ job[w].pc = "dropKw" /\ job[w].doc = d
    /\ kw' = [kw EXCEPT ![d] = @ \ job[w].mine]
    /\ job' = [job EXCEPT ![w] = Idle]
    /\ UNCHANGED <<db, points, attempts, task, req>>

FinishBuild(w) ==
    /\ job[w].pc = "next"
    /\ job[w].left = {}
    /\ Ack(w)
    /\ UNCHANGED <<db, index, attempts, req>>

\* Touching a row that was deleted since it was loaded raises outside every
\* handler: the whole message ends, the documents still left with it.
Abandon(w) ==
    /\ \/ job[w].pc = "next" /\ \E d \in job[w].left : ~Exists(d)
       \/ job[w].pc = "fail" /\ ~Exists(job[w].doc)
    /\ Ack(w)
    /\ UNCHANGED <<db, index, attempts, req>>

\* Mutant: the attempts of a build are not remembered.
BumpForgets(d, n) == n = 1 /\ UNCHANGED attempts

\* What _bump_attempt returns: a counter that fails to answer counts as 1.
Bump(d, n) ==
    \/ /\ n = IF attempts[d] > MaxAttempts THEN attempts[d]
                                           ELSE attempts[d] + 1
       /\ attempts' = [attempts EXCEPT ![d] = n]
    \/ /\ "redis" \in Faults
       /\ n = 1
       /\ UNCHANGED attempts

\* Mutant: a document over its attempts is skipped, not marked error.
StartDocumentOrSkip(w, d) ==
    /\ job[w].pc = "next"
    /\ d \in job[w].left /\ Exists(d)
    /\ \E n \in 1..(MaxAttempts + 1) :
        /\ Bump(d, n)
        /\ job' = [job EXCEPT
                ![w] = [@ EXCEPT !.left = job[w].left \ {d}, !.doc = d,
                          !.pc = IF n > MaxAttempts THEN "clear"
                                                    ELSE "purge"]]
    /\ UNCHANGED <<db, index, task, req>>

StartDocument(w, d) ==
    /\ job[w].pc = "next"
    /\ d \in job[w].left /\ Exists(d)
    /\ \E n \in 1..(MaxAttempts + 1) :
        /\ Bump(d, n)
        /\ job' = [job EXCEPT
                ![w] = [@ EXCEPT !.left = job[w].left \ {d}, !.doc = d,
                          !.mine = {},
                          !.pc = IF n > MaxAttempts THEN "fail"
                                                    ELSE "purge"]]
    /\ UNCHANGED <<db, index, task, req>>

\* A counter that cannot be deleted keeps its value.
ClearAttempts(w, d) ==
    /\ job[w].pc = "clear" /\ job[w].doc = d
    /\ \/ attempts' = [attempts EXCEPT ![d] = 0]
       \/ "redis" \in Faults /\ UNCHANGED attempts
    /\ job' = [job EXCEPT ![w] = [@ EXCEPT !.pc = "next", !.doc = None,
                                            !.mine = {}]]
    /\ UNCHANGED <<db, index, task, req>>

-----------------------------------------------------------------------------
(* Workers: one document's build.                                          *)

\* Worker w is about to do step here of d's build.
At(w, d, here) == job[w].pc = here /\ job[w].doc = d

\* A statement on a document whose row is gone raises.
Vanished(w, d) ==
    /\ job[w].pc \in {"reset", "parse", "split", "addRows", "index",
                      "embed", "kwRead"}
    /\ job[w].doc = d /\ ~Exists(d)
    /\ Goto(w, "fail")
    /\ UNCHANGED <<db, index, attempts, task, req>>

\* A stage raises and build_documents catches it.
Reject(w) ==
    /\ "reject" \in Faults
    /\ job[w].pc \in {"purgeKw", "split", "addRows", "embed", "upsert",
                      "addKw"}
    /\ Goto(w, "fail")
    /\ UNCHANGED <<db, index, attempts, task, req>>

PurgeRead(w, d) ==
    /\ At(w, d, "purge")
    /\ job' = [job EXCEPT ![w] = [@ EXCEPT
                    !.mine = rows[d],
                    !.pc = IF rows[d] = {} THEN "reset" ELSE "purgeKw"]]
    /\ UNCHANGED <<db, index, attempts, task, req>>

\* Mutant: a rebuild leaves the keyword entries of the old segments.
PurgeNoKeywords(w, d) ==
    /\ At(w, d, "purgeKw")
    /\ Goto(w, "purgeVec")
    /\ UNCHANGED <<db, index, attempts, task, req>>

PurgeKeywords(w, d) ==
    /\ At(w, d, "purgeKw")
    /\ kw' = [kw EXCEPT ![d] = @ \ job[w].mine]
    /\ Goto(w, "purgeVec")
    /\ UNCHANGED <<db, points, attempts, task, req>>

\* Mutant: only the vectors of the segments that were live are purged.
PurgeLiveVectors(w, d) ==
    /\ At(w, d, "purgeVec")
    /\ points' = [points EXCEPT ![d] = @ \ live[d]]
    /\ Goto(w, "purgeRows")
    /\ UNCHANGED <<db, kw, attempts, task, req>>

PurgeVectors(w, d) ==
    /\ At(w, d, "purgeVec")
    /\ \/ points' = [points EXCEPT ![d] = {}]
       \/ "qdrant" \in Faults /\ UNCHANGED points
    /\ Goto(w, "purgeRows")
    /\ UNCHANGED <<db, kw, attempts, task, req>>

\* Mutant: the segment rows of the earlier build stay.
PurgeNoRows(w, d) ==
    /\ At(w, d, "purgeRows")
    /\ job' = [job EXCEPT ![w] = [@ EXCEPT !.pc = "reset", !.mine = {}]]
    /\ UNCHANGED <<db, index, attempts, task, req>>

PurgeRows(w, d) ==
    /\ At(w, d, "purgeRows")
    /\ rows' = [rows EXCEPT ![d] = {}]
    /\ live' = [live EXCEPT ![d] = {}]
    /\ job' = [job EXCEPT ![w] = [@ EXCEPT !.pc = "reset", !.mine = {}]]
    /\ UNCHANGED <<status, enabled, unmarked, index, attempts, task, req>>

ResetDocument(w, d) ==
    /\ At(w, d, "reset") /\ Exists(d)
    /\ enabled' = [enabled EXCEPT ![d] = FALSE]
    /\ Goto(w, "parse")
    /\ UNCHANGED <<status, rows, live, unmarked, index, attempts, task, req>>

\* The three commits that only move the status forward.
Stage(w, d, here, s, there) ==
    /\ At(w, d, here) /\ Exists(d)
    /\ Write(d, s)
    /\ Goto(w, there)
    /\ UNCHANGED <<enabled, rows, live, index, attempts, task, req>>

StartParsing(w, d) == Stage(w, d, "parse", "parsing", "split")
StartSplitting(w, d) == Stage(w, d, "split", "splitting", "addRows")
StartIndexing(w, d) == Stage(w, d, "index", "indexing", "embed")

AddRows(w, d) ==
    /\ At(w, d, "addRows") /\ Exists(d)
    /\ \E S \in SUBSET Fresh(d) :
        /\ S # {} /\ Cardinality(S) <= MaxSplit
        /\ rows' = [rows EXCEPT ![d] = @ \union S]
        /\ job' = [job EXCEPT ![w] = [@ EXCEPT !.pc = "index", !.mine = S]]
    /\ UNCHANGED <<status, enabled, live, unmarked, index, attempts, task,
                   req>>

\* _complete reads the segments once; until the next commit it sees them in
\* that snapshot.  Rows another build purged are gone: the read raises.
StartEmbedding(w, d) ==
    /\ At(w, d, "embed") /\ Exists(d)
    /\ job' = [job EXCEPT ![w] = [@ EXCEPT
                    !.todo = job[w].mine,
                    !.pc = IF job[w].mine \subseteq rows[d]
                           THEN "upsert" ELSE "fail"]]
    /\ UNCHANGED <<db, index, attempts, task, req>>

UpsertBatch(w, d, s) ==
    /\ At(w, d, "upsert")
    /\ s \in job[w].todo
    /\ points' = [points EXCEPT ![d] = @ \union {s}]
    /\ job' = [job EXCEPT ![w].todo = @ \ {s}]
    /\ UNCHANGED <<db, kw, attempts, task, req>>

\* Mutant: the document is published before its last batch is embedded.
PublishEarly(w, d) ==
    /\ At(w, d, "upsert") /\ Exists(d)
    /\ live' = [live EXCEPT ![d] = @ \union job[w].mine]
    /\ enabled' = [enabled EXCEPT ![d] = TRUE]
    /\ Write(d, "completed")
    /\ Goto(w, "kwRead")
    /\ UNCHANGED <<rows, index, attempts, task, req>>

\* One commit turns the segments and the document on; an UPDATE that misses
\* a row rolls all of it back and raises.
Publish(w, d) ==
    /\ At(w, d, "upsert")
    /\ job[w].todo = {}
    /\ IF Exists(d) /\ job[w].mine \subseteq rows[d]
       THEN /\ live' = [live EXCEPT ![d] = @ \union job[w].mine]
            /\ enabled' = [enabled EXCEPT ![d] = TRUE]
            /\ Write(d, "completed")
            /\ Goto(w, "kwRead")
       ELSE /\ UNCHANGED <<status, enabled, live, unmarked>>
            /\ Goto(w, "fail")
    /\ UNCHANGED <<rows, index, attempts, task, req>>

\* The arguments of the keyword update are read before its lock is taken.
ReadForKeywords(w, d) ==
    /\ At(w, d, "kwRead") /\ Exists(d)
    /\ Goto(w, IF job[w].mine \subseteq rows[d] THEN "addKw" ELSE "fail")
    /\ UNCHANGED <<db, index, attempts, task, req>>

AddKeywords(w, d) ==
    /\ At(w, d, "addKw")
    /\ kw' = [kw EXCEPT ![d] = @ \union job[w].mine]
    /\ Goto(w, "clear")
    /\ UNCHANGED <<db, points, attempts, task, req>>

\* When this commit fails too, the error is swallowed: the document keeps its
\* status and the message goes on as if it had been marked.
MarkError(w, d) ==
    /\ At(w, d, "fail") /\ Exists(d)
    /\ \/ Write(d, "error")
       \/ /\ "mark" \in Faults
          /\ unmarked' = unmarked \union {d}
          /\ UNCHANGED status
    /\ job' = [job EXCEPT ![w] = [@ EXCEPT !.pc = "clear", !.todo = {}]]
    /\ UNCHANGED <<enabled, rows, live, index, attempts, task, req>>

-----------------------------------------------------------------------------
(* The environment.                                                        *)

\* Those of S on which a step succeeds that fault f makes fail.
Spared(S, f) == IF f \in Faults THEN SUBSET S ELSE {S}

Building(w) == job[w].pc \in BuildPcs \union {"next"}

CleaningUp(w) == job[w].pc \in {"dropVec", "dropKw"}

\* Mutant: the message of a killed build was acknowledged when it was taken.
KillAcknowledged(w) ==
    /\ "kill" \in Faults /\ Building(w)
    /\ Ack(w)
    /\ UNCHANGED <<db, index, attempts, req>>

\* reject_on_worker_lost: the message of a killed build goes back at once.  A
\* clean-up was acknowledged when it was taken and is lost.
Kill(w) ==
    /\ \/ "kill" \in Faults /\ Building(w)
       \/ "lose" \in Faults /\ CleaningUp(w)
    /\ task' = [task EXCEPT ![job[w].task].st = "queued"]
    /\ job' = [job EXCEPT ![w] = Idle]
    /\ UNCHANGED <<db, index, attempts, req>>

\* Every child dies; at boot recover_stuck_documents marks those documents
\* that have been in process for longer than the threshold.  A leased message
\* stays leased, an acknowledged one is lost.
Restart(S) ==
    /\ "restart" \in Faults
    /\ \A d \in S : status[d] \in Processing
    /\ \E M \in Spared(S, "mark") :
        /\ status' = [d \in Docs |-> IF d \in M THEN "error" ELSE status[d]]
        /\ unmarked' = unmarked \ M
    /\ \E C \in Spared(S, "redis") :
        attempts' = [d \in Docs |-> IF d \in C THEN 0 ELSE attempts[d]]
    /\ job' = [w \in Workers |-> Idle]
    /\ UNCHANGED <<enabled, rows, live, index, task, req>>

\* The visibility timeout gives a message nobody runs back to the queue...
Restore(t) ==
    /\ task[t].st = "leased" /\ ~Held(t)
    /\ task' = [task EXCEPT ![t].st = "queued"]
    /\ UNCHANGED <<db, index, attempts, job, req>>

\* ... and a second copy of one whose build takes longer than the timeout.
Redeliver(t, u) ==
    /\ "visibility" \in Faults
    /\ task[t].st = "leased" /\ Held(t)
    /\ task[u].st = "free"
    /\ task' = [task EXCEPT ![u] = [task[t] EXCEPT !.st = "queued"]]
    /\ UNCHANGED <<db, index, attempts, job, req>>

\* The two-hour lifetime of the counter ends, or redis loses it.
LoseCounter(d) ==
    /\ "redis" \in Faults
    /\ attempts[d] # 0
    /\ attempts' = [attempts EXCEPT ![d] = 0]
    /\ UNCHANGED <<db, index, task, job, req>>

-----------------------------------------------------------------------------
(* Specification.                                                          *)

Commit(r) == \E d \in Docs : CommitReindex(r, d) \/ CommitDelete(r, d)

RequestStep(r) ==
    \/ \E D \in Batches : CreateDocuments(r, D)
    \/ \E d \in Docs : CheckReindex(r, d) \/ CheckDelete(r, d)
    \/ \E t \in Tasks : Dispatch(r, t)
    \/ LoseDispatch(r)

BuildStep(w, d) ==
    \/ StartDocument(w, d) \/ ClearAttempts(w, d) \/ Vanished(w, d)
    \/ PurgeRead(w, d) \/ PurgeKeywords(w, d) \/ PurgeVectors(w, d)
    \/ PurgeRows(w, d) \/ ResetDocument(w, d) \/ StartParsing(w, d)
    \/ StartSplitting(w, d) \/ AddRows(w, d) \/ StartIndexing(w, d)
    \/ StartEmbedding(w, d) \/ \E s \in Segs : UpsertBatch(w, d, s)
    \/ Publish(w, d) \/ ReadForKeywords(w, d) \/ AddKeywords(w, d)
    \/ MarkError(w, d)

WorkerStep(w) ==
    \/ \E t \in Tasks : TakeBuild(w, t) \/ \E d \in Docs : TakeDelete(w, t, d)
    \/ \E d \in Docs : DropVectors(w, d) \/ DropKeywords(w, d)
    \/ \E d \in Docs : BuildStep(w, d)
    \/ FinishBuild(w) \/ Abandon(w)

EnvironmentStep ==
    \/ \E w \in Workers : Kill(w) \/ Reject(w)
    \/ \E S \in SUBSET Docs : Restart(S)
    \/ \E t \in Tasks : Restore(t)
    \/ \E t, u \in Tasks : Redeliver(t, u)
    \/ \E d \in Docs : LoseCounter(d)

\* Without the race fault a checked request commits before anyone else moves.
Undisturbed == "race" \in Faults \/ \A r \in Reqs : req[r].pc # "checked"

Next ==
    \/ \E r \in Reqs : Commit(r)
    \/ Undisturbed /\ \/ \E r \in Reqs : RequestStep(r)
                      \/ \E w \in Workers : WorkerStep(w)
                      \/ EnvironmentStep

Spec == Init /\ [][Next]_vars

(***************************************************************************)
(* A living worker process keeps running, the broker keeps delivering and  *)
(* a request that began ends.  A kill comes from the memory a build takes: *)
(* the short bookkeeping steps around it are not hit for ever, which is    *)
(* strong fairness for each of them and each document.                     *)
(***************************************************************************)
Fairness ==
    /\ \A r \in Reqs : WF_vars(Commit(r))
    /\ \A r \in Reqs : WF_vars(Undisturbed /\ \E t \in Tasks : Dispatch(r, t))
    /\ \A t \in Tasks : WF_vars(Undisturbed /\ Restore(t))
    /\ \A w \in Workers :
        /\ WF_vars(Undisturbed /\ WorkerStep(w))
        /\ SF_vars(Undisturbed /\ (FinishBuild(w) \/ Abandon(w)))
        /\ \A d \in Docs :
            /\ SF_vars(Undisturbed /\ StartDocument(w, d))
            /\ SF_vars(Undisturbed /\ MarkError(w, d))
            /\ SF_vars(Undisturbed /\ ClearAttempts(w, d))

FairSpec == Spec /\ Fairness

-----------------------------------------------------------------------------
(* Properties.                                                             *)

\* The shape of every variable.
TypeOK ==
    /\ status \in [Docs -> Statuses]
    /\ enabled \in [Docs -> BOOLEAN]
    /\ rows \in [Docs -> SUBSET Segs]
    /\ live \in [Docs -> SUBSET Segs]
    /\ points \in [Docs -> SUBSET Segs]
    /\ kw \in [Docs -> SUBSET Segs]
    /\ attempts \in [Docs -> 0..(MaxAttempts + 1)]
    /\ task \in [Tasks -> TaskType]
    /\ job \in [Workers -> JobType]
    /\ req \in [Reqs -> ReqType]
    /\ unmarked \subseteq Docs
    /\ \A r \in Reqs : req[r].pc = "dispatch" => req[r].op \in Messages

\* A message, or a request about to send one, will build d.
InFlight(d) ==
    \/ \E r \in Reqs : /\ req[r].pc = "dispatch" /\ req[r].op = "build"
                       /\ d \in req[r].docs
    \/ \E t \in Tasks : /\ task[t].st # "free" /\ task[t].kind = "build"
                        /\ d \in task[t].docs

\* A document shown as being indexed has a message that will finish the job:
\* no crash, failure or second delivery strands it in parsing, splitting or
\* indexing (the promise of acks_late in document_task.py).  The one way out
\* is a failure that could not be recorded either, whose message is
\* acknowledged all the same.
ProcessingIsCarried ==
    \A d \in Docs : status[d] \in Processing => InFlight(d) \/ d \in unmarked

\* A waiting document has a message or a request that is about to send it;
\* nothing else ever picks a waiting document up.  The exception is the same.
WaitingIsCarried ==
    \A d \in Docs : status[d] = "waiting" => InFlight(d) \/ d \in unmarked

\* Once nothing is building it, a completed document is indexed: every row is
\* live and has its vector, and no vector is left from an earlier build that
\* was interrupted, rejected or replaced.
SettledHasVectors ==
    \A d \in Docs : status[d] = "completed" /\ ~InFlight(d) =>
        rows[d] = live[d] /\ rows[d] = points[d]

\* The same for the keyword table: exactly the segments that exist.
SettledHasKeywords ==
    \A d \in Docs : status[d] = "completed" /\ ~InFlight(d) =>
        rows[d] = kw[d]

\* A rebuild, by hand or by a repeated delivery, replaces the segments and
\* never adds a second set of them ("build is idempotent").
NoDuplicateSegments ==
    \A d \in Docs : status[d] = "completed" /\ ~InFlight(d) =>
        Cardinality(rows[d]) <= MaxSplit

\* A deleted document leaves neither vectors nor keyword entries once its
\* clean-up message has been worked off.
DeletedIsClean ==
    \A d \in Docs :
        /\ status[d] = "deleted"
        /\ ~InFlight(d)
        /\ \A r \in Reqs : d \notin req[r].docs
        /\ \A t \in Tasks : d \notin task[t].docs
        /\ \A w \in Workers : job[w].doc # d
        => points[d] = {} /\ kw[d] = {}

\* A document becomes completed only in a step that leaves all its rows live
\* and all of them already in the vector store.
PublishedWhole ==
    [][\A d \in Docs : status[d] # "completed" /\ status'[d] = "completed" =>
            rows'[d] = live'[d] /\ rows'[d] \subseteq points'[d]]_vars

\* A build in flight ends, however often children are killed: the attempt
\* counter breaks the loop of kill and redelivery.  It ends in a status that
\* says so, or in a failure that could not be recorded.
BuildsSettle ==
    \A d \in Docs : status[d] \in {"waiting"} \union Processing
        ~> status[d] \in Terminal \union {"deleted"} \/ d \in unmarked

=============================================================================
