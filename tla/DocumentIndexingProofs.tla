----------------------- MODULE DocumentIndexingProofs -----------------------
(***************************************************************************)
(* Theorems about DocumentIndexing, for any sets of documents, segments,   *)
(* messages, workers and requests and, where not said otherwise, any       *)
(* faults.                                                                 *)
(***************************************************************************)
EXTENDS DocumentIndexing, FiniteSetTheorems, TLAPS

-----------------------------------------------------------------------------
(* Type correctness.                                                       *)

\* Every place a worker can be at is a place of JobType.
LEMMA Places ==
    /\ "idle" \in JobPcs /\ "next" \in JobPcs /\ "dropVec" \in JobPcs
    /\ "dropKw" \in JobPcs /\ "purge" \in JobPcs /\ "purgeKw" \in JobPcs
    /\ "purgeVec" \in JobPcs /\ "purgeRows" \in JobPcs /\ "reset" \in JobPcs
    /\ "parse" \in JobPcs /\ "split" \in JobPcs /\ "addRows" \in JobPcs
    /\ "index" \in JobPcs /\ "embed" \in JobPcs /\ "upsert" \in JobPcs
    /\ "kwRead" \in JobPcs /\ "addKw" \in JobPcs /\ "fail" \in JobPcs
    /\ "clear" \in JobPcs
BY DEF JobPcs, BuildPcs

LEMMA FieldTypes ==
    ASSUME TypeOK, NEW w \in Workers
    PROVE  /\ job[w].left \in SUBSET Docs
           /\ job[w].mine \in SUBSET Segs
           /\ job[w].todo \in SUBSET Segs
           /\ job[w].task \in Tasks \union {None}
           /\ job[w].pc \in JobPcs
BY DEF TypeOK, JobType

\* A worker that only moves on keeps the shape of its job.
LEMMA GotoTypes ==
    ASSUME TypeOK, NEW w \in Workers, NEW p \in JobPcs, Goto(w, p)
    PROVE  job' \in [Workers -> JobType]
<1>1. job \in [Workers -> JobType] BY DEF TypeOK
<1>2. [job[w] EXCEPT !.pc = p] \in JobType BY <1>1 DEF JobType
<1>3. job' = [job EXCEPT ![w] = [job[w] EXCEPT !.pc = p]] BY DEF Goto
<1> QED BY <1>1, <1>2, <1>3

LEMMA InitTypes == Init => TypeOK
<1> SUFFICES ASSUME Init PROVE TypeOK OBVIOUS
<1>1. NoTask \in TaskType BY DEF NoTask, TaskType
<1>2. Idle \in JobType BY Places DEF Idle, JobType
<1>3. NoReq \in ReqType /\ NoReq.pc # "dispatch" BY DEF NoReq, ReqType
<1> QED
  BY <1>1, <1>2, <1>3, ConstantsAssumption
     DEF Init, TypeOK, Statuses, ConstantsAssumption

LEMMA BuildTypes ==
    ASSUME TypeOK, NEW w \in Workers, NEW d \in Docs, BuildStep(w, d)
    PROVE  TypeOK'
<1>a. job \in [Workers -> JobType] /\ rows \in [Docs -> SUBSET Segs]
  BY DEF TypeOK
<1>0. job[w] \in JobType BY <1>a
<1>b. USE FieldTypes
<1> USE DEF db, index, Goto
<1>1. CASE StartDocument(w, d)
  <2>1. PICK n \in 1..(MaxAttempts + 1) :
          /\ Bump(d, n)
          /\ job' = [job EXCEPT
                 ![w] = [@ EXCEPT !.left = job[w].left \ {d}, !.doc = d,
                           !.mine = {},
                           !.pc = IF n > MaxAttempts THEN "fail"
                                                     ELSE "purge"]]
    BY <1>1 DEF StartDocument
  <2>2. PICK p \in JobPcs, L \in SUBSET Docs :
          job' = [job EXCEPT
                 ![w] = [@ EXCEPT !.left = L, !.doc = d, !.mine = {},
                           !.pc = p]]
    <3>1. job[w].left \ {d} \in SUBSET Docs OBVIOUS
    <3>2. (IF n > MaxAttempts THEN "fail" ELSE "purge") \in JobPcs BY Places
    <3>3. QED BY <2>1, <3>1, <3>2
  <2>3. [job[w] EXCEPT !.left = L, !.doc = d, !.mine = {}, !.pc = p]
          \in JobType
    BY <1>a DEF JobType
  <2>4. job' \in [Workers -> JobType] BY <2>2, <2>3, <1>a
  <2>5. QED
    BY <1>1, <2>1, <2>4, ConstantsAssumption
       DEF TypeOK, StartDocument, Bump, ConstantsAssumption
<1>2. CASE ClearAttempts(w, d)
  <2>1. job' \in [Workers -> JobType]
    <3>1. [job[w] EXCEPT !.pc = "next", !.doc = None, !.mine = {}] \in JobType
      BY <1>0, Places DEF JobType
    <3>2. QED BY <1>2, <1>a, <3>1 DEF ClearAttempts
  <2>2. QED BY <1>2, <2>1, ConstantsAssumption
            DEF TypeOK, ClearAttempts, ConstantsAssumption
<1>3. CASE Vanished(w, d)
  <2>1. job' \in [Workers -> JobType]
    <3>1. Goto(w, "fail") BY <1>3 DEF Vanished
    <3>2. QED BY <3>1, Places, GotoTypes
  <2>2. QED BY <1>3, <2>1 DEF TypeOK, Vanished
<1>4. CASE PurgeRead(w, d)
  <2>1. PICK p \in JobPcs :
          job' = [job EXCEPT ![w] = [@ EXCEPT !.mine = rows[d], !.pc = p]]
    BY <1>4, Places DEF PurgeRead
  <2>2. rows[d] \in SUBSET Segs BY <1>a
  <2>3. [job[w] EXCEPT !.mine = rows[d], !.pc = p] \in JobType
    BY <2>2, <1>0 DEF JobType
  <2>4. job' \in [Workers -> JobType] BY <2>1, <2>3, <1>a
  <2>5. QED BY <1>4, <2>4 DEF TypeOK, PurgeRead
<1>5. CASE PurgeKeywords(w, d)
  <2>1. job' \in [Workers -> JobType]
    <3>1. Goto(w, "purgeVec") BY <1>5 DEF PurgeKeywords
    <3>2. QED BY <3>1, Places, GotoTypes
  <2>2. QED BY <1>5, <2>1 DEF TypeOK, PurgeKeywords
<1>6. CASE PurgeVectors(w, d)
  <2>1. job' \in [Workers -> JobType]
    <3>1. Goto(w, "purgeRows") BY <1>6 DEF PurgeVectors
    <3>2. QED BY <3>1, Places, GotoTypes
  <2>2. QED BY <1>6, <2>1 DEF TypeOK, PurgeVectors
<1>7. CASE PurgeRows(w, d)
  <2>1. job' \in [Workers -> JobType]
    <3>1. [job[w] EXCEPT !.pc = "reset", !.mine = {}] \in JobType
      BY <1>0, Places DEF JobType
    <3>2. QED BY <1>7, <1>a, <3>1 DEF PurgeRows
  <2>2. QED BY <1>7, <2>1 DEF TypeOK, PurgeRows
<1>8. CASE ResetDocument(w, d)
  <2>1. job' \in [Workers -> JobType]
    <3>1. Goto(w, "parse") BY <1>8 DEF ResetDocument
    <3>2. QED BY <3>1, Places, GotoTypes
  <2>2. QED BY <1>8, <2>1 DEF TypeOK, ResetDocument
<1>9. CASE \/ StartParsing(w, d) \/ StartSplitting(w, d)
           \/ StartIndexing(w, d)
  <2>1. PICK s \in Processing, p \in JobPcs, h \in JobPcs :
          Stage(w, d, h, s, p)
    BY <1>9, Places
       DEF StartParsing, StartSplitting, StartIndexing, Processing
  <2>2. job' \in [Workers -> JobType]
    BY <2>1, GotoTypes DEF Stage
  <2>3. QED BY <2>1, <2>2 DEF TypeOK, Stage, Write, Statuses
<1>10. CASE AddRows(w, d)
  <2>1. PICK S \in SUBSET Segs :
          /\ rows' = [rows EXCEPT ![d] = @ \union S]
          /\ job' = [job EXCEPT ![w] = [@ EXCEPT !.pc = "index", !.mine = S]]
    BY <1>10 DEF AddRows, Fresh
  <2>2. [job[w] EXCEPT !.pc = "index", !.mine = S] \in JobType
    BY <1>0, Places DEF JobType
  <2>3. job' \in [Workers -> JobType] BY <2>1, <2>2, <1>a
  <2>4. QED BY <1>10, <2>1, <2>3 DEF TypeOK, AddRows
<1>11. CASE StartEmbedding(w, d)
  <2>1. PICK p \in JobPcs :
          job' = [job EXCEPT ![w] = [@ EXCEPT !.todo = job[w].mine, !.pc = p]]
    BY <1>11, Places DEF StartEmbedding
  <2>2. [job[w] EXCEPT !.todo = job[w].mine, !.pc = p] \in JobType
    BY <1>0 DEF JobType
  <2>3. job' \in [Workers -> JobType] BY <2>1, <2>2, <1>a
  <2>4. QED BY <1>11, <2>3 DEF TypeOK, StartEmbedding
<1>12. CASE \E s \in Segs : UpsertBatch(w, d, s)
  <2>1. job' \in [Workers -> JobType]
    BY <1>12, <1>a DEF UpsertBatch, JobType
  <2>2. QED BY <1>12, <2>1 DEF TypeOK, UpsertBatch
<1>13. CASE Publish(w, d)
  <2>1. job' \in [Workers -> JobType]
    <3>1. Goto(w, "kwRead") \/ Goto(w, "fail") BY <1>13 DEF Publish
    <3>2. QED BY <3>1, Places, GotoTypes
  <2>2. CASE Exists(d) /\ job[w].mine \subseteq rows[d]
    <3>1. Write(d, "completed")
          /\ enabled' = [enabled EXCEPT ![d] = TRUE]
          /\ live' = [live EXCEPT ![d] = @ \union job[w].mine]
      BY <1>13, <2>2 DEF Publish
    <3>2. "completed" \in Statuses BY DEF Statuses, Terminal
    <3>3. QED BY <1>13, <2>1, <3>1, <3>2 DEF TypeOK, Publish, Write
  <2>3. CASE ~(Exists(d) /\ job[w].mine \subseteq rows[d])
    BY <1>13, <2>1, <2>3 DEF TypeOK, Publish
  <2>4. QED BY <2>2, <2>3
<1>14. CASE ReadForKeywords(w, d)
  <2>1. job' \in [Workers -> JobType]
    <3>1. Goto(w, "addKw") \/ Goto(w, "fail") BY <1>14 DEF ReadForKeywords
    <3>2. QED BY <3>1, Places, GotoTypes
  <2>2. QED BY <1>14, <2>1 DEF TypeOK, ReadForKeywords
<1>15. CASE AddKeywords(w, d)
  <2>1. job' \in [Workers -> JobType]
    <3>1. Goto(w, "clear") BY <1>15 DEF AddKeywords
    <3>2. QED BY <3>1, Places, GotoTypes
  <2>2. QED BY <1>15, <2>1 DEF TypeOK, AddKeywords
<1>16. CASE MarkError(w, d)
  <2>1. job' \in [Workers -> JobType]
    <3>1. [job[w] EXCEPT !.pc = "clear", !.todo = {}] \in JobType
      BY <1>0, Places DEF JobType
    <3>2. QED BY <1>16, <1>a, <3>1 DEF MarkError
  <2>2. QED BY <1>16, <2>1 DEF TypeOK, MarkError, Write, Statuses, Terminal
<1> QED
  BY <1>1, <1>2, <1>3, <1>4, <1>5, <1>6, <1>7, <1>8, <1>9, <1>10, <1>11,
     <1>12, <1>13, <1>14, <1>15, <1>16 DEF BuildStep

LEMMA TypeStep == TypeOK /\ [Next]_vars => TypeOK'
<1> SUFFICES ASSUME TypeOK, [Next]_vars PROVE TypeOK' OBVIOUS
<1>a. job \in [Workers -> JobType] /\ task \in [Tasks -> TaskType]
      /\ req \in [Reqs -> ReqType]
  BY DEF TypeOK
<1>b. NoTask \in TaskType /\ Idle \in JobType /\ NoReq \in ReqType
      /\ NoReq.pc # "dispatch"
  BY Places DEF NoTask, TaskType, Idle, JobType, NoReq, ReqType
<1> USE FieldTypes
<1> USE DEF db, index, Goto
<1>1. ASSUME NEW r \in Reqs, NEW d \in Docs,
             CommitReindex(r, d) \/ CommitDelete(r, d)
      PROVE  TypeOK'
  <2>1. req' \in [Reqs -> ReqType]
    BY <1>1, <1>a, <1>b DEF CommitReindex, CommitDelete, ReqType
  <2>2. req'[r].pc = "dispatch" => req'[r].op \in Messages
    BY <1>1, <1>a, <1>b DEF CommitReindex, CommitDelete, ReqType, Messages
  <2>3. \A q \in Reqs \ {r} : req'[q] = req[q]
    BY <1>1, <1>a DEF CommitReindex, CommitDelete
  <2>4. QED BY <1>1, <2>1, <2>2, <2>3
            DEF TypeOK, CommitReindex, CommitDelete, Write, Statuses
<1>2. ASSUME NEW r \in Reqs, NEW D \in Batches, CreateDocuments(r, D)
      PROVE  TypeOK'
  <2>1. D \in SUBSET Docs BY ConstantsAssumption DEF ConstantsAssumption
  <2>2. [NoReq EXCEPT !.pc = "dispatch", !.op = "build", !.docs = D]
          \in ReqType
    BY <2>1, <1>b DEF ReqType
  <2>3. [NoReq EXCEPT !.pc = "dispatch", !.op = "build", !.docs = D].op
          \in Messages
    BY DEF NoReq, Messages
  <2>4. status' \in [Docs -> Statuses]
    BY <1>2 DEF TypeOK, CreateDocuments, Statuses
  <2>5. QED BY <1>2, <2>2, <2>3, <2>4 DEF TypeOK, CreateDocuments
<1>3. ASSUME NEW r \in Reqs, NEW d \in Docs,
             CheckReindex(r, d) \/ CheckDelete(r, d)
      PROVE  TypeOK'
  <2>1. enabled[d] \in BOOLEAN /\ rows[d] \in SUBSET Segs BY DEF TypeOK
  <2>2. [NoReq EXCEPT !.pc = "checked", !.op = "reindex", !.docs = {d},
                      !.saw = enabled[d]] \in ReqType
    BY <2>1, <1>b DEF ReqType
  <2>3. [NoReq EXCEPT !.pc = "checked", !.op = "delete", !.docs = {d},
                      !.segs = rows[d]] \in ReqType
    BY <2>1, <1>b DEF ReqType
  <2>4. req' \in [Reqs -> ReqType]
    BY <1>3, <1>a, <2>2, <2>3 DEF CheckReindex, CheckDelete
  <2>5. req'[r].pc = "checked"
    BY <1>3, <1>a DEF CheckReindex, CheckDelete, NoReq
  <2>6. \A q \in Reqs \ {r} : req'[q] = req[q]
    BY <1>3, <1>a DEF CheckReindex, CheckDelete
  <2>7. QED BY <1>3, <2>4, <2>5, <2>6 DEF TypeOK, CheckReindex, CheckDelete
<1>4. ASSUME NEW r \in Reqs, NEW t \in Tasks, Dispatch(r, t)
      PROVE  TypeOK'
  <2>1. req[r].op \in Messages BY <1>4 DEF Dispatch, TypeOK
  <2>2. [st |-> "queued", kind |-> req[r].op, docs |-> req[r].docs,
         segs |-> req[r].segs] \in TaskType
    BY <2>1, <1>a DEF ReqType, TaskType
  <2>3. QED BY <1>4, <2>2, <1>b DEF TypeOK, Dispatch, NoReq
<1>5. ASSUME NEW r \in Reqs, LoseDispatch(r)
      PROVE  TypeOK'
  BY <1>5, <1>b DEF TypeOK, LoseDispatch
<1>6. ASSUME NEW w \in Workers, WorkerStep(w)
      PROVE  TypeOK'
  <2>1. ASSUME NEW t \in Tasks, TakeBuild(w, t) PROVE TypeOK'
    <3>1. [Idle EXCEPT !.pc = "next", !.task = t,
                       !.left = {d \in task[t].docs : Exists(d)}] \in JobType
      BY <1>a, <1>b, Places DEF JobType, TaskType
    <3>2. [task[t] EXCEPT !.st = "leased"] \in TaskType
      BY <1>a DEF TaskType
    <3>3. QED BY <2>1, <3>1, <3>2 DEF TypeOK, TakeBuild
  <2>2. ASSUME NEW t \in Tasks, NEW d \in Docs, TakeDelete(w, t, d)
        PROVE  TypeOK'
    <3>1. [Idle EXCEPT !.pc = "dropVec", !.doc = d, !.mine = task[t].segs]
            \in JobType
      BY <1>a, <1>b, Places DEF JobType, TaskType
    <3>2. QED BY <2>2, <3>1, <1>b DEF TypeOK, TakeDelete
  <2>3. ASSUME NEW d \in Docs, DropVectors(w, d) PROVE TypeOK'
    <3>1. job' \in [Workers -> JobType]
      <4>1. CASE job' = [job EXCEPT ![w].pc = "dropKw"]
        BY <4>1, <1>a, Places DEF JobType
      <4>2. CASE job' = [job EXCEPT ![w] = Idle] BY <4>2, <1>a, <1>b
      <4>3. QED BY <2>3, <4>1, <4>2 DEF DropVectors
    <3>2. QED BY <2>3, <3>1 DEF TypeOK, DropVectors
  <2>4. ASSUME NEW d \in Docs, DropKeywords(w, d) PROVE TypeOK'
    BY <2>4, <1>b DEF TypeOK, DropKeywords
  <2>5. ASSUME NEW d \in Docs, BuildStep(w, d) PROVE TypeOK'
    BY <2>5, BuildTypes
  <2>6. CASE FinishBuild(w) \/ Abandon(w)
    BY <2>6, <1>b DEF TypeOK, FinishBuild, Abandon, Ack
  <2>7. QED BY <1>6, <2>1, <2>2, <2>3, <2>4, <2>5, <2>6 DEF WorkerStep
<1>7. ASSUME NEW w \in Workers, Kill(w) PROVE TypeOK'
  <2>1. task' \in [Tasks -> TaskType] BY <1>7, <1>a DEF Kill, TaskType
  <2>2. QED BY <1>7, <1>b, <2>1 DEF TypeOK, Kill
<1>8. ASSUME NEW w \in Workers, Reject(w) PROVE TypeOK'
  <2>1. job' \in [Workers -> JobType]
    BY <1>8, <1>a, Places DEF Reject, JobType
  <2>2. QED BY <1>8, <2>1 DEF TypeOK, Reject
<1>9. ASSUME NEW S \in SUBSET Docs, Restart(S) PROVE TypeOK'
  BY <1>9, <1>b, ConstantsAssumption
     DEF TypeOK, Restart, Statuses, Terminal, ConstantsAssumption
<1>10. ASSUME NEW t \in Tasks, Restore(t) PROVE TypeOK'
  <2>1. task' \in [Tasks -> TaskType] BY <1>10, <1>a DEF Restore, TaskType
  <2>2. QED BY <1>10, <2>1 DEF TypeOK, Restore
<1>11. ASSUME NEW t \in Tasks, NEW u \in Tasks, Redeliver(t, u)
       PROVE  TypeOK'
  <2>1. [task[t] EXCEPT !.st = "queued"] \in TaskType BY <1>a DEF TaskType
  <2>2. QED BY <1>11, <2>1 DEF TypeOK, Redeliver
<1>12. ASSUME NEW d \in Docs, LoseCounter(d) PROVE TypeOK'
  BY <1>12, ConstantsAssumption DEF TypeOK, LoseCounter, ConstantsAssumption
<1>13. CASE UNCHANGED vars BY <1>13 DEF TypeOK, vars
<1> QED
  BY <1>1, <1>2, <1>3, <1>4, <1>5, <1>6, <1>7, <1>8, <1>9, <1>10, <1>11,
     <1>12, <1>13 DEF Next, Commit, RequestStep, EnvironmentStep

\* Every variable keeps its type, whatever fails.
THEOREM TypeCorrect == Spec => []TypeOK
BY InitTypes, TypeStep, PTL DEF Spec

-----------------------------------------------------------------------------
(* No document is stranded while it is being indexed.                      *)
(*                                                                         *)
(* InFlight alone is not inductive: it does not say that the message a     *)
(* worker acknowledges is the one nobody else needs.  Carried names who    *)
(* still has to finish a document, Consistent ties workers to messages.    *)

Open == {"waiting"} \union Processing

\* At these places of a build its terminal status is still to be written.
Unfinished == BuildPcs \ {"kwRead", "addKw", "clear"}

Pending(t, d) ==
    /\ task[t].kind = "build" /\ d \in task[t].docs
    /\ task[t].st = "queued" \/ (task[t].st = "leased" /\ ~Held(t))

Working(P, w, d) ==
    \/ d \in job[w].left
    \/ job[w].doc = d /\ job[w].pc \in P

\* A message or a worker at one of the places P has to finish d.
Carried(P, d) ==
    \/ \E t \in Tasks : Pending(t, d)
    \/ \E w \in Workers : Working(P, w, d)

Requested(d) ==
    \E r \in Reqs : /\ req[r].pc = "dispatch" /\ req[r].op = "build"
                    /\ d \in req[r].docs

InBuild(w) == job[w].pc \in BuildPcs \union {"next"}

\* What a worker holds agrees with the message it leased, and messages that
\* build name one document.
JobAgrees(w) ==
    IF InBuild(w)
    THEN LET t == job[w].task IN
         /\ t \in Tasks /\ task[t].st = "leased" /\ task[t].kind = "build"
         /\ job[w].left \subseteq task[t].docs
         /\ job[w].pc \in BuildPcs =>
                job[w].doc \in task[t].docs /\ job[w].left = {}
    ELSE job[w].task = None /\ job[w].left = {}

OneDocument(docs) == \E d \in Docs : docs = {d}

Consistent ==
    /\ \A w \in Workers : JobAgrees(w)
    /\ \A v, w \in Workers :
        job[v].task = job[w].task /\ job[v].task # None => v = w
    /\ \A t \in Tasks : task[t].kind = "build" => OneDocument(task[t].docs)
    /\ \A r \in Reqs : req[r].op = "build" => OneDocument(req[r].docs)

SingleUploads == \A D \in Batches : OneDocument(D)

ProcessingCarried ==
    \A d \in Docs : status[d] \in Processing =>
        Carried(Unfinished, d) \/ d \in unmarked

WaitingCarried ==
    \A d \in Docs : status[d] = "waiting" =>
        Carried(Unfinished, d) \/ Requested(d) \/ d \in unmarked

\* All a step inside one document's build changes that matters here.
LEMMA BuildFrame ==
    ASSUME TypeOK, NEW w \in Workers, NEW d \in Docs,
           \/ BuildStep(w, d) /\ job[w].pc \notin {"next", "clear"}
           \/ Reject(w) /\ job[w].doc = d
    PROVE  /\ UNCHANGED <<task, req>>
           /\ job[w].pc \in BuildPcs /\ job'[w].pc \in BuildPcs
           /\ job[w].doc = d /\ job'[w].doc = d
           /\ job'[w].task = job[w].task /\ job'[w].left = job[w].left
           /\ \A v \in Workers \ {w} : job'[v] = job[v]
           /\ \A e \in Docs \ {d} : status'[e] = status[e]
           /\ status'[d] \in {status[d]} \union Processing \union Terminal
           /\ status'[d] \in Open =>
                  \/ job'[w].pc \in Unfinished
                  \/ job[w].pc \notin Unfinished /\ status'[d] = status[d]
                  \/ d \in unmarked' /\ status'[d] = status[d]
           /\ unmarked \ {d} \subseteq unmarked'
           /\ d \in unmarked \ unmarked' /\ status'[d] \in Open =>
                  job'[w].pc \in Unfinished
<1>a. job \in [Workers -> JobType] /\ status \in [Docs -> Statuses]
  BY DEF TypeOK
<1> USE <1>a DEF db, index, Goto, At, JobType, BuildPcs, Unfinished,
                 Processing, Terminal, Open, Write
<1>1. CASE Vanished(w, d) BY <1>1 DEF Vanished
<1>2. CASE PurgeRead(w, d) BY <1>2 DEF PurgeRead
<1>3. CASE PurgeKeywords(w, d) BY <1>3 DEF PurgeKeywords
<1>4. CASE PurgeVectors(w, d) BY <1>4 DEF PurgeVectors
<1>5. CASE PurgeRows(w, d) BY <1>5 DEF PurgeRows
<1>6. CASE ResetDocument(w, d) BY <1>6 DEF ResetDocument
<1>7. CASE StartParsing(w, d) BY <1>7 DEF StartParsing, Stage
<1>8. CASE StartSplitting(w, d) BY <1>8 DEF StartSplitting, Stage
<1>9. CASE StartIndexing(w, d) BY <1>9 DEF StartIndexing, Stage
<1>10. CASE AddRows(w, d) BY <1>10 DEF AddRows
<1>11. CASE StartEmbedding(w, d) BY <1>11 DEF StartEmbedding
<1>12. CASE \E s \in Segs : UpsertBatch(w, d, s) BY <1>12 DEF UpsertBatch
<1>13. CASE Publish(w, d) BY <1>13 DEF Publish
<1>14. CASE ReadForKeywords(w, d) BY <1>14 DEF ReadForKeywords
<1>15. CASE AddKeywords(w, d) BY <1>15 DEF AddKeywords
<1>16. CASE MarkError(w, d) BY <1>16 DEF MarkError
<1>17. CASE Reject(w) /\ job[w].doc = d BY <1>17 DEF Reject
<1> QED
  BY <1>1, <1>2, <1>3, <1>4, <1>5, <1>6, <1>7, <1>8, <1>9, <1>10, <1>11,
     <1>12, <1>13, <1>14, <1>15, <1>16, <1>17
     DEF BuildStep, StartDocument, ClearAttempts

\* A step of worker w that leaves the other workers and their messages alone.
LEMMA OthersAgree ==
    ASSUME Consistent, NEW w \in Workers, NEW v \in Workers \ {w},
           job'[v] = job[v],
           \A t \in Tasks : task[t].st = "leased" /\ t # job[w].task
                              => task'[t] = task[t]
    PROVE  JobAgrees(v)'
<1>1. JobAgrees(v) BY DEF Consistent
<1>2. CASE InBuild(v)
  <2>1. job[v].task # job[w].task
    BY <1>1, <1>2, ConstantsAssumption
       DEF Consistent, JobAgrees, ConstantsAssumption
  <2>2. QED BY <1>1, <1>2, <2>1 DEF JobAgrees, InBuild
<1>3. CASE ~InBuild(v) BY <1>1, <1>3 DEF JobAgrees, InBuild
<1> QED BY <1>2, <1>3

LEMMA ConsistentStep ==
    ASSUME SingleUploads, TypeOK, Consistent, [Next]_vars
    PROVE  Consistent'
<1>a. job \in [Workers -> JobType] /\ task \in [Tasks -> TaskType]
      /\ req \in [Reqs -> ReqType]
  BY DEF TypeOK
<1>b. None \notin Docs /\ None \notin Tasks
  BY ConstantsAssumption DEF ConstantsAssumption
<1>c. \A w \in Workers : job[w].pc \in JobPcs BY FieldTypes
<1> USE <1>a, <1>b DEF db, index
<1>1. ASSUME NEW r \in Reqs, Commit(r) \/ LoseDispatch(r) \/
             (\E D \in Batches : CreateDocuments(r, D)) \/
             (\E d \in Docs : CheckReindex(r, d) \/ CheckDelete(r, d))
      PROVE  Consistent'
  <2>1. UNCHANGED <<task, job>>
    BY <1>1 DEF Commit, LoseDispatch, CreateDocuments, CheckReindex,
                CheckDelete, CommitReindex, CommitDelete
  <2>2. \A q \in Reqs \ {r} : req'[q] = req[q]
    BY <1>1 DEF Commit, LoseDispatch, CreateDocuments, CheckReindex,
                CheckDelete, CommitReindex, CommitDelete
  <2>3. req'[r].op = "build" => OneDocument(req'[r].docs)
    <3>1. CASE Commit(r)
      <4>1. PICK d \in Docs : CommitReindex(r, d) \/ CommitDelete(r, d)
        BY <3>1 DEF Commit
      <4>2. CASE req'[r] = NoReq BY <4>2 DEF NoReq
      <4>3. CASE req'[r].docs = req[r].docs
        BY <4>1, <4>3 DEF CommitReindex, CommitDelete, OneDocument
      <4>4. QED
        BY <4>1, <4>2, <4>3 DEF CommitReindex, CommitDelete, ReqType
    <3>2. CASE LoseDispatch(r) BY <3>2 DEF LoseDispatch, NoReq
    <3>3. CASE \E D \in Batches : CreateDocuments(r, D)
      BY <3>3 DEF CreateDocuments, NoReq, SingleUploads
    <3>4. CASE \E d \in Docs : CheckReindex(r, d) \/ CheckDelete(r, d)
      BY <3>4 DEF CheckReindex, CheckDelete, NoReq
    <3>5. QED BY <1>1, <3>1, <3>2, <3>3, <3>4
  <2>4. QED
    BY <2>1, <2>2, <2>3 DEF Consistent, JobAgrees, InBuild, OneDocument
<1>2. ASSUME NEW r \in Reqs, NEW t \in Tasks, Dispatch(r, t)
      PROVE  Consistent'
  <2>1. \A w \in Workers : JobAgrees(w)'
    BY <1>2 DEF Dispatch, Consistent, JobAgrees, InBuild
  <2>2. \A u \in Tasks : task'[u].kind = "build" => OneDocument(task'[u].docs)
    BY <1>2 DEF Dispatch, Consistent, OneDocument
  <2>3. \A q \in Reqs : req'[q].op = "build" => OneDocument(req'[q].docs)
    BY <1>2 DEF Dispatch, Consistent, OneDocument, NoReq
  <2>4. QED BY <1>2, <2>1, <2>2, <2>3 DEF Dispatch, Consistent, OneDocument
<1>3. ASSUME NEW w \in Workers, NEW t \in Tasks, TakeBuild(w, t)
      PROVE  Consistent'
  <2>1. JobAgrees(w)' BY <1>3 DEF TakeBuild, JobAgrees, InBuild, BuildPcs
  <2>2. \A v \in Workers \ {w} : JobAgrees(v)'
    BY <1>3, OthersAgree DEF TakeBuild
  <2>3. \A v \in Workers \ {w} : job'[v].task # t
    BY <1>3 DEF TakeBuild, Consistent, JobAgrees
  <2>4. \A u, v \in Workers :
          job'[u].task = job'[v].task /\ job'[u].task # None => u = v
    BY <1>3, <2>3 DEF TakeBuild, Consistent
  <2>5. QED
    BY <1>3, <2>1, <2>2, <2>4 DEF TakeBuild, Consistent, OneDocument
<1>4. ASSUME NEW w \in Workers, NEW t \in Tasks, NEW d \in Docs,
             TakeDelete(w, t, d)
      PROVE  Consistent'
  <2>1. JobAgrees(w)'
    BY <1>4 DEF TakeDelete, JobAgrees, InBuild, BuildPcs, Idle
  <2>2. \A v \in Workers \ {w} : JobAgrees(v)'
    BY <1>4, OthersAgree DEF TakeDelete
  <2>3. \A u, v \in Workers :
          job'[u].task = job'[v].task /\ job'[u].task # None => u = v
    BY <1>4 DEF TakeDelete, Consistent, Idle
  <2>4. QED
    BY <1>4, <2>1, <2>2, <2>3
       DEF TakeDelete, Consistent, OneDocument, NoTask
<1>5. ASSUME NEW w \in Workers, NEW d \in Docs,
             DropVectors(w, d) \/ DropKeywords(w, d)
      PROVE  Consistent'
  <2>1. JobAgrees(w) /\ ~InBuild(w)
    BY <1>5 DEF Consistent, DropVectors, DropKeywords, InBuild, BuildPcs
  <2>2. ~InBuild(w)' /\ job'[w].task = None /\ job'[w].left = {}
    BY <1>5, <2>1
       DEF DropVectors, DropKeywords, Goto, Idle, InBuild, BuildPcs,
           JobAgrees, JobType
  <2>3. JobAgrees(w)' BY <2>2 DEF JobAgrees
  <2>4. \A v \in Workers \ {w} : JobAgrees(v)' /\ job'[v] = job[v]
    BY <1>5, OthersAgree DEF DropVectors, DropKeywords, Goto
  <2>5. \A u, v \in Workers :
          job'[u].task = job'[v].task /\ job'[u].task # None => u = v
    BY <2>2, <2>4 DEF Consistent
  <2>6. UNCHANGED <<task, req>> BY <1>5 DEF DropVectors, DropKeywords
  <2>7. QED BY <2>3, <2>4, <2>5, <2>6 DEF Consistent, OneDocument
<1>6. ASSUME NEW w \in Workers, NEW d \in Docs,
             StartDocument(w, d) \/ ClearAttempts(w, d)
      PROVE  Consistent'
  <2>1. JobAgrees(w) /\ InBuild(w)
    BY <1>6 DEF Consistent, StartDocument, ClearAttempts, InBuild, BuildPcs
  <2>2. PICK p \in {"fail", "purge", "next"} :
          \/ /\ p # "next" /\ d \in job[w].left
             /\ job' = [job EXCEPT
                  ![w] = [@ EXCEPT !.left = job[w].left \ {d}, !.doc = d,
                            !.mine = {}, !.pc = p]]
          \/ /\ p = "next"
             /\ job' = [job EXCEPT
                  ![w] = [@ EXCEPT !.pc = p, !.doc = None, !.mine = {}]]
    BY <1>6 DEF StartDocument, ClearAttempts
  <2>3. /\ job'[w].task = job[w].task /\ job'[w].pc = p
        /\ p = "next" => job'[w].left = job[w].left
        /\ p # "next" => /\ job'[w].doc = d /\ d \in job[w].left
                        /\ job'[w].left = job[w].left \ {d}
    <3>1. CASE p # "next"
      <4>1. job'[w] = [job[w] EXCEPT !.left = job[w].left \ {d}, !.doc = d,
                                     !.mine = {}, !.pc = p]
        BY <2>2, <3>1
      <4>2. job[w] \in JobType OBVIOUS
      <4>3. QED BY <2>2, <3>1, <4>1, <4>2 DEF JobType
    <3>2. CASE p = "next"
      <4>1. job'[w] = [job[w] EXCEPT !.pc = p, !.doc = None, !.mine = {}]
        BY <2>2, <3>2
      <4>2. job[w] \in JobType OBVIOUS
      <4>3. QED BY <3>2, <4>1, <4>2 DEF JobType
    <3>3. QED BY <3>1, <3>2
  <2>4. InBuild(w)' BY <2>3 DEF InBuild, BuildPcs
  <2>5. UNCHANGED <<task, req>> BY <1>6 DEF StartDocument, ClearAttempts
  <2>6. JobAgrees(w)'
    <3>1. OneDocument(task[job[w].task].docs)
      BY <2>1 DEF Consistent, JobAgrees
    <3>2. job'[w].pc \in BuildPcs => job'[w].left = {}
      BY <3>1, <2>1, <2>3 DEF JobAgrees, OneDocument, BuildPcs
    <3>3. QED BY <2>1, <2>3, <2>5, <2>4, <3>2 DEF JobAgrees, BuildPcs
  <2>7. \A v \in Workers \ {w} : JobAgrees(v)' /\ job'[v] = job[v]
    BY <1>6, <2>5, OthersAgree DEF StartDocument, ClearAttempts
  <2>8. QED BY <2>3, <2>5, <2>6, <2>7 DEF Consistent, OneDocument
<1>7. ASSUME NEW w \in Workers, NEW d \in Docs,
             \/ BuildStep(w, d) /\ job[w].pc \notin {"next", "clear"}
             \/ Reject(w) /\ job[w].doc = d
      PROVE  Consistent'
  <2>1. \A v \in Workers : JobAgrees(v)'
    <3>1. JobAgrees(w)'
      BY <1>7, BuildFrame DEF Consistent, JobAgrees, InBuild
    <3>2. \A v \in Workers \ {w} : JobAgrees(v)'
      BY <1>7, BuildFrame, OthersAgree
    <3>3. QED BY <3>1, <3>2
  <2>2. QED BY <1>7, <2>1, BuildFrame DEF Consistent, OneDocument
<1>8. ASSUME NEW w \in Workers, FinishBuild(w) \/ Abandon(w) \/ Kill(w)
      PROVE  Consistent'
  <2>1. job' = [job EXCEPT ![w] = Idle] /\ UNCHANGED req
    BY <1>8 DEF FinishBuild, Abandon, Kill, Ack
  <2>2. \A t \in Tasks \ {job[w].task} : task'[t] = task[t]
    BY <1>8 DEF FinishBuild, Abandon, Kill, Ack
  <2>3. JobAgrees(w)' BY <2>1 DEF JobAgrees, InBuild, BuildPcs, Idle
  <2>4. \A v \in Workers \ {w} : JobAgrees(v)'
    BY <2>1, <2>2, OthersAgree
  <2>5. \A t \in Tasks : task'[t].kind = "build" => OneDocument(task'[t].docs)
    <3>1. ASSUME job[w].task \in Tasks,
                 task'[job[w].task].kind = "build"
          PROVE  OneDocument(task'[job[w].task].docs)
      BY <1>8, <3>1
         DEF FinishBuild, Abandon, Kill, Ack, NoTask, Consistent,
             OneDocument, TaskType
    <3>2. QED BY <2>2, <3>1 DEF Consistent, OneDocument
  <2>6. QED
    BY <2>1, <2>3, <2>4, <2>5 DEF Consistent, OneDocument, Idle
<1>9. ASSUME NEW S \in SUBSET Docs, Restart(S) PROVE Consistent'
  BY <1>9 DEF Restart, Consistent, JobAgrees, InBuild, BuildPcs, Idle,
              OneDocument
<1>10. ASSUME NEW t \in Tasks, Restore(t) PROVE Consistent'
  <2>1. \A w \in Workers : job[w].task # t BY <1>10 DEF Restore, Held
  <2>2. \A w \in Workers : JobAgrees(w)'
    BY <1>10, <2>1 DEF Restore, Consistent, JobAgrees, InBuild
  <2>3. \A u \in Tasks : task'[u].kind = "build" => OneDocument(task'[u].docs)
    BY <1>10 DEF Restore, Consistent, OneDocument, TaskType
  <2>4. QED BY <1>10, <2>2, <2>3 DEF Restore, Consistent, OneDocument
<1>11. ASSUME NEW t \in Tasks, NEW u \in Tasks, Redeliver(t, u)
       PROVE  Consistent'
  <2>1. \A w \in Workers : JobAgrees(w)'
    BY <1>11 DEF Redeliver, Consistent, JobAgrees, InBuild
  <2>2. \A x \in Tasks : task'[x].kind = "build" => OneDocument(task'[x].docs)
    BY <1>11 DEF Redeliver, Consistent, OneDocument, TaskType
  <2>3. QED BY <1>11, <2>1, <2>2 DEF Redeliver, Consistent, OneDocument
<1>12. CASE (\E d \in Docs : LoseCounter(d)) \/ UNCHANGED vars
  BY <1>12 DEF LoseCounter, vars, Consistent, JobAgrees, InBuild, OneDocument
<1>13. ASSUME NEW w \in Workers, WorkerStep(w) PROVE Consistent'
  <2>1. ASSUME NEW d \in Docs, BuildStep(w, d) PROVE Consistent'
    <3>1. CASE job[w].pc \in {"next", "clear"}
      BY <2>1, <3>1, <1>6
         DEF BuildStep, Vanished, PurgeRead, PurgeKeywords, PurgeVectors,
             PurgeRows, ResetDocument, StartParsing, StartSplitting, AddRows,
             StartIndexing, Stage, StartEmbedding, UpsertBatch, Publish,
             ReadForKeywords, AddKeywords, MarkError, At
    <3>2. QED BY <2>1, <3>1, <1>7
  <2>2. QED BY <1>13, <2>1, <1>3, <1>4, <1>5, <1>8 DEF WorkerStep
<1>14. ASSUME NEW w \in Workers, Reject(w) PROVE Consistent'
  <2>1. JobAgrees(w) /\ job[w].pc \in BuildPcs
    BY <1>14 DEF Consistent, Reject, BuildPcs
  <2>2. job[w].doc \in Docs BY <2>1 DEF JobAgrees, InBuild, TaskType
  <2>3. QED BY <1>7, <1>14, <2>2
<1> QED
  BY <1>1, <1>2, <1>8, <1>9, <1>10, <1>11, <1>12, <1>13, <1>14
     DEF Next, RequestStep, EnvironmentStep

LEMMA WorkingHolds ==
    ASSUME Consistent, NEW P \in SUBSET BuildPcs,
           NEW w \in Workers, NEW d \in Docs, Working(P, w, d)
    PROVE  /\ InBuild(w)
           /\ job[w].task \in Tasks
           /\ task[job[w].task].st = "leased"
           /\ task[job[w].task].kind = "build"
           /\ d \in task[job[w].task].docs
BY DEF Consistent, JobAgrees, Working, InBuild

\* Once somebody has to finish d, somebody has to until a step of d's build
\* leaves the places P.
LEMMA CarriedUntilLeft ==
    ASSUME TypeOK, Consistent, [Next]_vars,
           NEW P \in SUBSET (BuildPcs \ {"clear"}),
           {"purge", "fail"} \subseteq P,
           NEW d \in Docs, Carried(P, d), Exists(d)',
           ~ \E w \in Workers : /\ BuildStep(w, d) /\ job[w].pc \in P
                                /\ job'[w].pc \in BuildPcs \ P
    PROVE  Carried(P, d)'
<1>a. job \in [Workers -> JobType] /\ task \in [Tasks -> TaskType]
  BY DEF TypeOK
<1>b. None \notin Docs /\ None \notin Tasks
  BY ConstantsAssumption DEF ConstantsAssumption
<1>c. \A w \in Workers : JobAgrees(w) BY DEF Consistent
<1> USE <1>a, <1>b DEF db, index
<1>1. CASE UNCHANGED <<task, job>>
  BY <1>1 DEF Carried, Pending, Working, Held
<1>2. ASSUME NEW r \in Reqs, NEW u \in Tasks, Dispatch(r, u)
      PROVE  Carried(P, d)'
  <2>1. \A t \in Tasks : Pending(t, d) => Pending(t, d)'
    BY <1>2 DEF Dispatch, Pending, Held
  <2>2. QED BY <1>2, <2>1 DEF Dispatch, Carried, Working
<1>3. ASSUME NEW v \in Workers, NEW u \in Tasks, TakeBuild(v, u)
      PROVE  Carried(P, d)'
  <2>1. ASSUME NEW t \in Tasks \ {u}, Pending(t, d) PROVE Pending(t, d)'
    BY <1>3, <2>1 DEF TakeBuild, Pending, Held
  <2>2. ASSUME Pending(u, d) PROVE Working(P, v, d)'
    <3>1. Exists(d)
      BY <1>3 DEF TakeBuild, Exists
    <3>2. QED BY <1>3, <2>2, <3>1 DEF TakeBuild, Pending, Working
  <2>3. ASSUME NEW w \in Workers, Working(P, w, d) PROVE Working(P, w, d)'
    <3>1. w # v
      BY <1>3, <2>3, WorkingHolds DEF TakeBuild, InBuild, BuildPcs
    <3>2. QED BY <1>3, <2>3, <3>1 DEF TakeBuild, Working
  <2>4. QED BY <2>1, <2>2, <2>3 DEF Carried
<1>4. ASSUME NEW v \in Workers, NEW u \in Tasks, NEW e \in Docs,
             TakeDelete(v, u, e)
      PROVE  Carried(P, d)'
  <2>1. ASSUME NEW t \in Tasks, Pending(t, d) PROVE Pending(t, d)'
    BY <1>4, <2>1 DEF TakeDelete, Pending, Held, Idle
  <2>2. ASSUME NEW w \in Workers, Working(P, w, d) PROVE Working(P, w, d)'
    <3>1. w # v
      BY <1>4, <2>2, WorkingHolds DEF TakeDelete, InBuild, BuildPcs
    <3>2. QED BY <1>4, <2>2, <3>1 DEF TakeDelete, Working
  <2>3. QED BY <2>1, <2>2 DEF Carried
<1>5. ASSUME NEW v \in Workers, NEW e \in Docs,
             DropVectors(v, e) \/ DropKeywords(v, e)
      PROVE  Carried(P, d)'
  <2>1. \A w \in Workers : job'[w].task \in {job[w].task, None}
    BY <1>5 DEF DropVectors, DropKeywords, Goto, Idle, JobType
  <2>2. ASSUME NEW t \in Tasks, Pending(t, d) PROVE Pending(t, d)'
    BY <1>5, <2>1, <2>2 DEF DropVectors, DropKeywords, Pending, Held
  <2>3. ASSUME NEW w \in Workers, Working(P, w, d) PROVE Working(P, w, d)'
    <3>1. w # v
      BY <1>5, <2>3, WorkingHolds
         DEF DropVectors, DropKeywords, InBuild, BuildPcs
    <3>2. QED
      BY <1>5, <2>3, <3>1 DEF DropVectors, DropKeywords, Goto, Working
  <2>4. QED BY <2>2, <2>3 DEF Carried
<1>6. ASSUME NEW v \in Workers, NEW e \in Docs,
             StartDocument(v, e) \/ ClearAttempts(v, e)
      PROVE  Carried(P, d)'
  <2>1. PICK p \in {"fail", "purge", "next"} :
          \/ /\ p # "next" /\ job[v].pc = "next"
             /\ job' = [job EXCEPT
                  ![v] = [@ EXCEPT !.left = job[v].left \ {e}, !.doc = e,
                            !.mine = {}, !.pc = p]]
          \/ /\ p = "next" /\ job[v].pc = "clear"
             /\ job' = [job EXCEPT
                  ![v] = [@ EXCEPT !.pc = p, !.doc = None, !.mine = {}]]
    BY <1>6 DEF StartDocument, ClearAttempts
  <2>2. UNCHANGED task BY <1>6 DEF StartDocument, ClearAttempts
  <2>3. \A w \in Workers : job'[w].task = job[w].task
    <3>1. \A w \in Workers \ {v} : job'[w] = job[w] BY <2>1
    <3>2. job[v] \in JobType OBVIOUS
    <3>3. \/ job'[v] = [job[v] EXCEPT !.left = job[v].left \ {e}, !.doc = e,
                                      !.mine = {}, !.pc = p]
          \/ job'[v] = [job[v] EXCEPT !.pc = p, !.doc = None, !.mine = {}]
      BY <2>1
    <3>4. job'[v].task = job[v].task BY <3>2, <3>3 DEF JobType
    <3>5. QED BY <3>1, <3>4
  <2>4. ASSUME NEW t \in Tasks, Pending(t, d) PROVE Pending(t, d)'
    BY <2>2, <2>3, <2>4 DEF Pending, Held
  <2>5. ASSUME Working(P, v, d) PROVE Working(P, v, d)'
    <3>1. d \in job[v].left
      BY <2>1, <2>5 DEF Working, BuildPcs
    <3>2. job[v] \in JobType OBVIOUS
    <3>3. CASE p = "next"
      <4>1. job'[v] = [job[v] EXCEPT !.pc = p, !.doc = None, !.mine = {}]
        BY <2>1, <3>3
      <4>2. QED BY <3>1, <3>2, <4>1 DEF Working, JobType
    <3>4. CASE p # "next"
      <4>1. job'[v] = [job[v] EXCEPT !.left = job[v].left \ {e}, !.doc = e,
                                     !.mine = {}, !.pc = p]
        BY <2>1, <3>4
      <4>2. /\ job'[v].left = job[v].left \ {e} /\ job'[v].doc = e
            /\ job'[v].pc = p
        BY <3>2, <4>1 DEF JobType
      <4>3. QED BY <2>1, <3>1, <3>4, <4>2 DEF Working
    <3>5. QED BY <3>3, <3>4
  <2>6. ASSUME NEW w \in Workers \ {v}, Working(P, w, d)
        PROVE  Working(P, w, d)'
    BY <2>1, <2>6 DEF Working
  <2>7. QED BY <2>4, <2>5, <2>6 DEF Carried
<1>7. ASSUME NEW v \in Workers, NEW e \in Docs,
             \/ BuildStep(v, e) /\ job[v].pc \notin {"next", "clear"}
             \/ Reject(v) /\ job[v].doc = e
      PROVE  Carried(P, d)'
  <2>1. ASSUME NEW t \in Tasks, Pending(t, d) PROVE Pending(t, d)'
    BY <1>7, <2>1, BuildFrame DEF Pending, Held
  <2>2. ASSUME NEW w \in Workers, Working(P, w, d) PROVE Working(P, w, d)'
    <3>1. CASE w # v BY <1>7, <2>2, <3>1, BuildFrame DEF Working
    <3>2. CASE w = v
      <4>1. job[v].left = {}
        BY <1>7, <1>c, BuildFrame DEF JobAgrees, InBuild
      <4>2. job[v].pc \in P /\ e = d
        BY <1>7, <2>2, <3>2, <4>1, BuildFrame DEF Working
      <4>3. CASE BuildStep(v, e)
        BY <1>7, <3>2, <4>2, <4>3, BuildFrame DEF Working
      <4>4. CASE Reject(v)
        BY <1>7, <3>2, <4>2, <4>4, BuildFrame DEF Working, Reject, Goto
      <4>5. QED BY <1>7, <4>3, <4>4
    <3>3. QED BY <3>1, <3>2
  <2>3. QED BY <2>1, <2>2 DEF Carried
<1>8. ASSUME NEW v \in Workers, FinishBuild(v) \/ Abandon(v)
      PROVE  Carried(P, d)'
  <2>1. JobAgrees(v) /\ InBuild(v)
    BY <1>8, <1>c DEF FinishBuild, Abandon, InBuild, BuildPcs
  <2>2. ~Working(P, v, d)
    <3>1. CASE FinishBuild(v)
      BY <3>1 DEF FinishBuild, Working, BuildPcs
    <3>2. CASE Abandon(v)
      <4>1. Exists(d) BY <3>2 DEF Abandon, Exists
      <4>2. OneDocument(task[job[v].task].docs)
        BY <2>1 DEF Consistent, JobAgrees
      <4>3. QED
        BY <2>1, <3>2, <4>1, <4>2
           DEF Abandon, Working, JobAgrees, OneDocument, BuildPcs
    <3>3. QED BY <1>8, <3>1, <3>2
  <2>3. ASSUME NEW t \in Tasks, Pending(t, d) PROVE Pending(t, d)'
    <3>1. t # job[v].task BY <2>1, <2>3 DEF JobAgrees, Pending, Held
    <3>2. QED
      BY <1>8, <2>3, <3>1
         DEF FinishBuild, Abandon, Ack, Pending, Held, Idle
  <2>4. ASSUME NEW w \in Workers \ {v}, Working(P, w, d)
        PROVE  Working(P, w, d)'
    BY <1>8, <2>4 DEF FinishBuild, Abandon, Ack, Working
  <2>5. QED BY <2>2, <2>3, <2>4 DEF Carried
<1>9. ASSUME NEW v \in Workers, Kill(v) PROVE Carried(P, d)'
  <2>1. JobAgrees(v) BY <1>c
  <2>2. ASSUME Working(P, v, d), NEW t \in Tasks, t = job[v].task
        PROVE  Pending(t, d)'
    BY <1>9, <2>2, WorkingHolds DEF Kill, Pending, TaskType
  <2>3. ASSUME NEW t \in Tasks, Pending(t, d) PROVE Pending(t, d)'
    <3>1. job[v].task = t => task[t].st = "queued"
      BY <2>3 DEF Pending, Held
    <3>2. t # job[v].task
      BY <2>1, <3>1, ConstantsAssumption
         DEF JobAgrees, ConstantsAssumption
    <3>3. QED BY <1>9, <2>3, <3>2 DEF Kill, Pending, Held, Idle
  <2>4. ASSUME NEW w \in Workers \ {v}, Working(P, w, d)
        PROVE  Working(P, w, d)'
    BY <1>9, <2>4 DEF Kill, Working
  <2>5. Working(P, v, d) => Carried(P, d)'
    BY <2>2, WorkingHolds DEF Carried
  <2>6. QED BY <2>3, <2>4, <2>5 DEF Carried
<1>10. ASSUME NEW S \in SUBSET Docs, Restart(S) PROVE Carried(P, d)'
  <2>1. \A t \in Tasks : ~Held(t)' BY <1>10 DEF Restart, Held, Idle
  <2>2. ASSUME NEW t \in Tasks, Pending(t, d) PROVE Pending(t, d)'
    BY <1>10, <2>1, <2>2 DEF Restart, Pending
  <2>3. ASSUME NEW w \in Workers, Working(P, w, d),
               NEW t \in Tasks, t = job[w].task
        PROVE  Pending(t, d)'
    BY <1>10, <2>1, <2>3, WorkingHolds DEF Restart, Pending
  <2>4. QED BY <2>2, <2>3, WorkingHolds DEF Carried
<1>11. ASSUME NEW u \in Tasks, Restore(u) PROVE Carried(P, d)'
  <2>1. ASSUME NEW t \in Tasks, Pending(t, d) PROVE Pending(t, d)'
    BY <1>11, <2>1 DEF Restore, Pending, Held, TaskType
  <2>2. QED BY <1>11, <2>1 DEF Restore, Carried, Working
<1>12. ASSUME NEW u \in Tasks, NEW x \in Tasks, Redeliver(u, x)
       PROVE  Carried(P, d)'
  <2>1. ASSUME NEW t \in Tasks, Pending(t, d) PROVE Pending(t, d)'
    BY <1>12, <2>1 DEF Redeliver, Pending, Held
  <2>2. QED BY <1>12, <2>1 DEF Redeliver, Carried, Working
<1>13. ASSUME NEW w \in Workers, WorkerStep(w) PROVE Carried(P, d)'
  <2>1. ASSUME NEW e \in Docs, BuildStep(w, e) PROVE Carried(P, d)'
    <3>1. CASE job[w].pc \in {"next", "clear"}
      BY <2>1, <3>1, <1>6
         DEF BuildStep, Vanished, PurgeRead, PurgeKeywords, PurgeVectors,
             PurgeRows, ResetDocument, StartParsing, StartSplitting, AddRows,
             StartIndexing, Stage, StartEmbedding, UpsertBatch, Publish,
             ReadForKeywords, AddKeywords, MarkError, At
    <3>2. QED BY <2>1, <3>1, <1>7
  <2>2. QED BY <1>13, <2>1, <1>3, <1>4, <1>5, <1>8 DEF WorkerStep
<1>14. ASSUME NEW w \in Workers, Reject(w) PROVE Carried(P, d)'
  <2>1. JobAgrees(w) /\ job[w].pc \in BuildPcs
    BY <1>14, <1>c DEF Reject, BuildPcs
  <2>2. job[w].doc \in Docs BY <2>1 DEF JobAgrees, InBuild, TaskType
  <2>3. QED BY <1>7, <1>14, <2>2
<1>15. ASSUME NEW r \in Reqs, Commit(r) \/ RequestStep(r)
       PROVE  Carried(P, d)'
  BY <1>15, <1>1, <1>2
     DEF Commit, RequestStep, LoseDispatch, CreateDocuments, CheckReindex,
         CheckDelete, CommitReindex, CommitDelete
<1>16. CASE (\E e \in Docs : LoseCounter(e)) \/ UNCHANGED vars
  BY <1>16, <1>1 DEF LoseCounter, vars
<1> QED
  BY <1>9, <1>10, <1>11, <1>12, <1>13, <1>14, <1>15, <1>16
     DEF Next, EnvironmentStep

LEMMA CarriedStays ==
    ASSUME TypeOK, Consistent, [Next]_vars, NEW d \in Docs,
           Carried(Unfinished, d), status'[d] \in Open
    PROVE  Carried(Unfinished, d)' \/ d \in unmarked'
<1>1. /\ Unfinished \in SUBSET (BuildPcs \ {"clear"})
      /\ {"purge", "fail"} \subseteq Unfinished
  BY DEF Unfinished, BuildPcs
<1>2. Exists(d)' BY DEF Open, Processing, Exists
<1>3. ASSUME NEW w \in Workers, BuildStep(w, d), job[w].pc \in Unfinished
      PROVE  job'[w].pc \in Unfinished \/ d \in unmarked'
  <2>1. job[w].pc \notin {"next", "clear"} BY <1>3 DEF Unfinished, BuildPcs
  <2>2. QED BY <1>3, <2>1, BuildFrame
<1> QED BY <1>1, <1>2, <1>3, CarriedUntilLeft

\* Only a worker that will finish it brings a document into processing.
LEMMA ProcessingBegins ==
    ASSUME TypeOK, [Next]_vars, NEW d \in Docs,
           status[d] \notin Processing, status'[d] \in Processing
    PROVE  Carried(Unfinished, d)'
<1>a. job \in [Workers -> JobType] /\ status \in [Docs -> Statuses]
  BY DEF TypeOK
<1>1. status'[d] # status[d] OBVIOUS
<1>2. PICK w \in Workers, e \in Docs : BuildStep(w, e)
  BY <1>a, <1>1
     DEF Next, Commit, CommitReindex, CommitDelete, RequestStep,
         CreateDocuments, CheckReindex, CheckDelete, Dispatch, LoseDispatch,
         WorkerStep, TakeBuild, TakeDelete, DropVectors, DropKeywords,
         FinishBuild, Abandon, EnvironmentStep, Kill, Reject, Restart,
         Spared, Restore, Redeliver, LoseCounter, Write, vars, db, Processing
<1>3. job[w].pc \notin {"next", "clear"}
  BY <1>1, <1>2
     DEF BuildStep, StartDocument, ClearAttempts, Vanished, PurgeRead,
         PurgeKeywords, PurgeVectors, PurgeRows, ResetDocument, StartParsing,
         StartSplitting, AddRows, StartIndexing, Stage, StartEmbedding,
         UpsertBatch, Publish, ReadForKeywords, AddKeywords, MarkError, At, db
<1>4. e = d BY <1>1, <1>2, <1>3, BuildFrame
<1>5. Working(Unfinished, w, d)'
  BY <1>1, <1>2, <1>3, <1>4, BuildFrame DEF Working, Open
<1> QED BY <1>5 DEF Carried

\* A document whose failure could not be recorded stays so until somebody
\* writes its status, who then has to finish it or ends it.
LEMMA UnmarkedStays ==
    ASSUME TypeOK, [Next]_vars, NEW d \in Docs, d \in unmarked,
           status'[d] \in Open
    PROVE  \/ d \in unmarked' \/ Carried(Unfinished, d)'
           \/ (status'[d] = "waiting" /\ Requested(d)')
<1>a. /\ job \in [Workers -> JobType] /\ status \in [Docs -> Statuses]
      /\ req \in [Reqs -> ReqType]
  BY DEF TypeOK
<1> USE <1>a DEF db
<1>1. CASE UNCHANGED unmarked BY <1>1
<1>2. ASSUME NEW r \in Reqs, NEW e \in Docs, CommitReindex(r, e)
      PROVE  d \in unmarked' \/ (status'[d] = "waiting" /\ Requested(d)')
  <2>1. CASE e # d \/ ~Exists(e)
    <3>1. d \in unmarked'
      BY <1>2, <2>1 DEF CommitReindex, Write
    <3>2. QED BY <3>1
  <2>2. CASE e = d /\ Exists(d)
    <3>1. /\ req' = [req EXCEPT ![r].pc = "dispatch", ![r].op = "build"]
          /\ status'[d] = "waiting" /\ req[r].docs = {d}
      BY <1>2, <2>2 DEF CommitReindex, Write
    <3>2. /\ req'[r].pc = "dispatch" /\ req'[r].op = "build"
          /\ req'[r].docs = {d}
      BY <3>1 DEF ReqType
    <3>3. QED BY <3>1, <3>2 DEF Requested
  <2>3. QED BY <2>1, <2>2
<1>3. ASSUME NEW r \in Reqs, NEW e \in Docs, CommitDelete(r, e)
      PROVE  d \in unmarked'
  BY <1>3 DEF CommitDelete, Write, Open, Processing
<1>4. ASSUME NEW w \in Workers, NEW e \in Docs, BuildStep(w, e)
      PROVE  d \in unmarked' \/ Carried(Unfinished, d)'
  <2>1. CASE job[w].pc \notin {"next", "clear"}
    <3>1. CASE e # d BY <1>4, <2>1, <3>1, BuildFrame
    <3>2. CASE e = d /\ d \notin unmarked'
      <4>1. job'[w].pc \in Unfinished /\ job'[w].doc = d
        BY <1>4, <2>1, <3>2, BuildFrame
      <4>2. Working(Unfinished, w, d)' BY <4>1 DEF Working
      <4>3. QED BY <4>2 DEF Carried
    <3>3. QED BY <3>1, <3>2
  <2>2. CASE job[w].pc \in {"next", "clear"}
    BY <1>4, <2>2
       DEF BuildStep, StartDocument, ClearAttempts, Vanished, PurgeRead,
           PurgeKeywords, PurgeVectors, PurgeRows, ResetDocument,
           StartParsing, StartSplitting, AddRows, StartIndexing, Stage,
           StartEmbedding, UpsertBatch, Publish, ReadForKeywords,
           AddKeywords, MarkError, At
  <2>3. QED BY <2>1, <2>2
<1>5. ASSUME NEW S \in SUBSET Docs, Restart(S)
      PROVE  d \in unmarked'
  <2>1. PICK M \in Spared(S, "mark") :
          /\ status' = [e \in Docs |-> IF e \in M THEN "error"
                                                 ELSE status[e]]
          /\ unmarked' = unmarked \ M
    BY <1>5 DEF Restart
  <2>2. d \notin M BY <2>1 DEF Open, Processing
  <2>3. QED BY <2>1, <2>2
<1> QED
  BY <1>1, <1>2, <1>3, <1>4, <1>5
     DEF Next, Commit, RequestStep, CreateDocuments, CheckReindex,
         CheckDelete, Dispatch, LoseDispatch, WorkerStep, TakeBuild,
         TakeDelete, DropVectors, DropKeywords, FinishBuild, Abandon,
         EnvironmentStep, Kill, Reject, Restore, Redeliver, LoseCounter, vars

LEMMA InFlightFollows ==
    ASSUME Consistent, NEW d \in Docs, Carried(Unfinished, d) \/ Requested(d)
    PROVE  InFlight(d)
<1>1. Unfinished \in SUBSET BuildPcs BY DEF Unfinished
<1>2. QED BY <1>1, WorkingHolds DEF Carried, Requested, Pending, InFlight

LEMMA ProcessingInvariant ==
    SingleUploads => (Spec => [](TypeOK /\ Consistent /\ ProcessingCarried))
<1> DEFINE I == TypeOK /\ Consistent /\ ProcessingCarried
<1> SUFFICES ASSUME SingleUploads PROVE Spec => []I OBVIOUS
<1>1. Init => I
  <2>1. Init => Consistent /\ ProcessingCarried
    BY DEF Init, Consistent, JobAgrees, InBuild, BuildPcs, Idle, NoTask,
           NoReq, ProcessingCarried, Processing
  <2>2. QED BY <2>1, InitTypes
<1>2. I /\ [Next]_vars => I'
  <2> SUFFICES ASSUME I, [Next]_vars PROVE I' OBVIOUS
  <2>1. TypeOK' BY TypeStep
  <2>2. Consistent' BY ConsistentStep
  <2>3. ASSUME NEW d \in Docs, status'[d] \in Processing
        PROVE  Carried(Unfinished, d)' \/ d \in unmarked'
    <3>1. status'[d] \in Open /\ status'[d] # "waiting"
      BY <2>3 DEF Open, Processing
    <3>2. CASE status[d] \notin Processing BY <2>3, <3>2, ProcessingBegins
    <3>3. CASE Carried(Unfinished, d) BY <3>1, <3>3, CarriedStays
    <3>4. CASE d \in unmarked BY <3>1, <3>4, UnmarkedStays
    <3>5. QED BY <3>2, <3>3, <3>4 DEF ProcessingCarried
  <2>4. QED BY <2>1, <2>2, <2>3 DEF ProcessingCarried
<1> HIDE DEF I
<1> QED BY <1>1, <1>2, PTL DEF Spec

\* When every upload names one document, no crash, restart, repeated delivery
\* or failure leaves a document in parsing, splitting or indexing without a
\* message that will finish it, unless the failure itself went unrecorded.
THEOREM ProcessingNeverStranded ==
    SingleUploads => (Spec => []ProcessingIsCarried)
<1>1. Consistent /\ ProcessingCarried => ProcessingIsCarried
  BY InFlightFollows DEF ProcessingCarried, ProcessingIsCarried
<1> QED BY <1>1, ProcessingInvariant, PTL

LEMMA RequestedStays ==
    ASSUME "dispatch" \notin Faults, TypeOK, [Next]_vars, NEW d \in Docs,
           Requested(d)
    PROVE  Carried(Unfinished, d)' \/ Requested(d)'
<1>a. req \in [Reqs -> ReqType] /\ task \in [Tasks -> TaskType]
      /\ job \in [Workers -> JobType]
  BY DEF TypeOK
<1>1. PICK r \in Reqs : /\ req[r].pc = "dispatch" /\ req[r].op = "build"
                        /\ d \in req[r].docs
  BY DEF Requested
<1>2. CASE req'[r] = req[r] BY <1>1, <1>2 DEF Requested
<1>3. ASSUME NEW u \in Tasks, Dispatch(r, u) PROVE Carried(Unfinished, d)'
  <2>1. Pending(u, d)' BY <1>1, <1>3, <1>a DEF Dispatch, Pending
  <2>2. QED BY <2>1 DEF Carried
<1>4. ASSUME NEW q \in Reqs, RequestStep(q)
      PROVE  Carried(Unfinished, d)' \/ req'[r] = req[r]
  <2>1. CASE q = r
    BY <1>1, <1>3, <1>4, <2>1
       DEF RequestStep, CreateDocuments, CheckReindex, CheckDelete,
           LoseDispatch
  <2>2. CASE q # r
    BY <1>4, <1>a, <2>2
       DEF RequestStep, CreateDocuments, CheckReindex, CheckDelete,
           LoseDispatch, Dispatch
  <2>3. QED BY <2>1, <2>2
<1>5. ASSUME NEW q \in Reqs, Commit(q) PROVE req'[r] = req[r]
  BY <1>1, <1>5, <1>a DEF Commit, CommitReindex, CommitDelete
<1>6. ASSUME NEW w \in Workers, WorkerStep(w) PROVE UNCHANGED req
  BY <1>6
     DEF WorkerStep, TakeBuild, TakeDelete, DropVectors, DropKeywords,
         FinishBuild, Abandon, BuildStep, StartDocument, ClearAttempts,
         Vanished, PurgeRead, PurgeKeywords, PurgeVectors, PurgeRows,
         ResetDocument, StartParsing, StartSplitting, AddRows, StartIndexing,
         Stage, StartEmbedding, UpsertBatch, Publish, ReadForKeywords,
         AddKeywords, MarkError
<1>7. CASE EnvironmentStep \/ UNCHANGED vars
  BY <1>2, <1>7
     DEF EnvironmentStep, Kill, Reject, Restart, Restore, Redeliver,
         LoseCounter, vars
<1> QED BY <1>2, <1>4, <1>5, <1>6, <1>7 DEF Next

\* Only an upload or a rebuild by hand makes a document wait, and it is the
\* one that dispatches it.
LEMMA WaitingBegins ==
    ASSUME TypeOK, [Next]_vars, NEW d \in Docs,
           status[d] # "waiting", status'[d] = "waiting"
    PROVE  Requested(d)'
<1>a. req \in [Reqs -> ReqType] /\ status \in [Docs -> Statuses]
  BY DEF TypeOK
<1>1. ASSUME NEW r \in Reqs, NEW e \in Docs,
             CommitReindex(r, e) \/ CommitDelete(r, e)
      PROVE  Requested(d)'
  <2>1. CommitReindex(r, e) /\ e = d
    BY <1>1, <1>a DEF CommitReindex, CommitDelete, Write
  <2>2. Exists(d) BY <2>1, <1>a DEF CommitReindex
  <2>3. req' = [req EXCEPT ![r].pc = "dispatch", ![r].op = "build"]
    BY <2>1, <2>2 DEF CommitReindex
  <2>4. req[r] \in ReqType /\ req[r].docs = {d}
    BY <2>1, <1>a DEF CommitReindex
  <2>5. /\ req'[r].pc = "dispatch" /\ req'[r].op = "build"
        /\ req'[r].docs = {d}
    BY <2>3, <2>4, <1>a DEF ReqType
  <2>6. QED BY <2>5 DEF Requested
<1>2. ASSUME NEW r \in Reqs, NEW D \in Batches, CreateDocuments(r, D)
      PROVE  Requested(d)'
  <2>1. d \in D BY <1>2, <1>a DEF CreateDocuments
  <2>2. QED BY <1>2, <2>1, <1>a DEF CreateDocuments, Requested, NoReq
<1>3. ASSUME NEW w \in Workers, NEW e \in Docs, BuildStep(w, e)
      PROVE  FALSE
  <2>1. job[w].pc \notin {"next", "clear"}
    BY <1>3
       DEF BuildStep, StartDocument, ClearAttempts, Vanished, PurgeRead,
           PurgeKeywords, PurgeVectors, PurgeRows, ResetDocument,
           StartParsing, StartSplitting, AddRows, StartIndexing, Stage,
           StartEmbedding, UpsertBatch, Publish, ReadForKeywords,
           AddKeywords, MarkError, At, db
  <2>2. QED BY <1>3, <2>1, BuildFrame DEF Processing, Terminal
<1> QED
  BY <1>1, <1>2, <1>3, <1>a
     DEF Next, Commit, RequestStep, CheckReindex, CheckDelete, Dispatch,
         LoseDispatch, WorkerStep, TakeBuild, TakeDelete, DropVectors,
         DropKeywords, FinishBuild, Abandon, EnvironmentStep, Kill, Reject,
         Restart, Restore, Redeliver, LoseCounter, vars, db

\* When moreover no dispatch is lost, a waiting document always has a message
\* or a request that is about to send one.
THEOREM WaitingNeverStranded ==
    SingleUploads /\ "dispatch" \notin Faults => (Spec => []WaitingIsCarried)
<1> SUFFICES ASSUME SingleUploads, "dispatch" \notin Faults
             PROVE  Spec => []WaitingIsCarried
  OBVIOUS
<1> DEFINE J == TypeOK /\ Consistent /\ ProcessingCarried
<1>1. Spec => []J BY ProcessingInvariant
<1>2. Init => WaitingCarried BY DEF Init, WaitingCarried
<1>3. J /\ WaitingCarried /\ [Next]_vars => WaitingCarried'
  <2> SUFFICES ASSUME J, WaitingCarried, [Next]_vars,
                      NEW d \in Docs, status'[d] = "waiting"
               PROVE  \/ Carried(Unfinished, d)' \/ Requested(d)'
                      \/ d \in unmarked'
    BY DEF WaitingCarried
  <2>1. CASE status[d] = "waiting" /\ Carried(Unfinished, d)
    BY <2>1, CarriedStays DEF Open
  <2>2. CASE status[d] = "waiting" /\ Requested(d) BY <2>2, RequestedStays
  <2>3. CASE status[d] # "waiting" BY <2>3, WaitingBegins
  <2>4. CASE d \in unmarked BY <2>4, UnmarkedStays DEF Open
  <2>5. QED BY <2>1, <2>2, <2>3, <2>4 DEF WaitingCarried
<1>4. J /\ WaitingCarried => WaitingIsCarried
  BY InFlightFollows DEF WaitingCarried, WaitingIsCarried
<1> HIDE DEF J
<1> QED BY <1>1, <1>2, <1>3, <1>4, PTL DEF Spec

-----------------------------------------------------------------------------
(***************************************************************************)
(* A document that nothing builds any more is indexed whole: its rows, its *)
(* live rows, its vectors and its keyword entries are the same segments,   *)
(* and there are no more of them than one split produces.                  *)
(*                                                                         *)
(* This is proved of the runs in which no two workers build one document   *)
(* at the same time (BuildsAlone), in which uploads name one document and  *)
(* in which the purge does not lose its call to the vector store.  Without *)
(* the first and the third it is false (README, section 5).                *)
(***************************************************************************)

\* Everywhere in a build but at the clearing of the counter.
Indexing == BuildPcs \ {"clear"}

BuildsAlone ==
    \A v, w \in Workers :
        /\ job[v].pc \in Indexing /\ job[w].pc \in Indexing
        /\ job[v].doc = job[w].doc
        => v = w

\* Nothing is stored about a document that does not exist yet, and vectors
\* and keyword entries of one that does belong to its rows.
Stored(d) ==
    /\ live[d] \subseteq rows[d]
    /\ Cardinality(rows[d]) <= MaxSplit
    /\ Exists(d) => points[d] \subseteq rows[d] /\ kw[d] \subseteq rows[d]
    /\ status[d] = "none" =>
        rows[d] = {} /\ points[d] = {} /\ kw[d] = {}
    /\ status[d] = "deleted" => rows[d] = {}

Whole(d) == rows[d] = live[d] /\ rows[d] = points[d] /\ rows[d] = kw[d]

\* What worker w may rely on at each place of d's build.
Relies(w, d) ==
    /\ status[d] # "none"
    /\ job[w].pc \in {"reset", "parse", "split", "addRows"} => rows[d] = {}
    /\ Exists(d) =>
        /\ job[w].pc = "purgeKw" => job[w].mine = rows[d]
        /\ job[w].pc = "purgeVec" => kw[d] = {}
        /\ job[w].pc = "purgeRows" => kw[d] = {} /\ points[d] = {}
        /\ job[w].pc \in {"index", "embed", "upsert", "kwRead", "addKw"} =>
            job[w].mine = rows[d]
        /\ job[w].pc = "upsert" =>
            /\ job[w].todo \subseteq job[w].mine
            /\ job[w].mine \ job[w].todo \subseteq points[d]
        /\ job[w].pc \in {"kwRead", "addKw"} =>
            rows[d] = live[d] /\ rows[d] = points[d]

\* A clean-up message is only ever sent for a document that is gone.
Gone(d) == status[d] = "deleted"

CleanUps ==
    /\ \A r \in Reqs : req[r].pc = "dispatch" /\ req[r].op = "delete" =>
        \A d \in req[r].docs : Gone(d)
    /\ \A t \in Tasks : task[t].kind = "delete" =>
        \A d \in task[t].docs : Gone(d)
    /\ \A w \in Workers : job[w].pc \in {"dropVec", "dropKw"} =>
        job[w].doc \in Docs /\ Gone(job[w].doc)

\* A failure after the publishing commit must be recorded for this.
Settles(d) ==
    "mark" \notin Faults /\ status[d] = "completed" =>
        Whole(d) \/ Carried(Indexing, d)

Contents ==
    /\ \A d \in Docs : Stored(d) /\ Settles(d)
    /\ \A w \in Workers, d \in Docs : job[w].doc = d => Relies(w, d)
    /\ CleanUps

-----------------------------------------------------------------------------
(* One document's build.                                                   *)

\* A step of d's build touches no other document.
LEMMA OtherDocuments ==
    ASSUME TypeOK, NEW w \in Workers, NEW d \in Docs, NEW e \in Docs \ {d},
           BuildStep(w, d) \/ Reject(w)
    PROVE  /\ rows'[e] = rows[e] /\ live'[e] = live[e]
           /\ points'[e] = points[e] /\ kw'[e] = kw[e]
           /\ status'[e] = status[e]
BY DEF TypeOK, BuildStep, StartDocument, ClearAttempts, Vanished, PurgeRead,
       PurgeKeywords, PurgeVectors, PurgeRows, ResetDocument, StartParsing,
       StartSplitting, StartIndexing, Stage, AddRows, StartEmbedding,
       UpsertBatch, Publish, ReadForKeywords, AddKeywords, MarkError, Reject,
       db, index, Write

LEMMA BuildContents ==
    ASSUME "qdrant" \notin Faults, TypeOK, NEW w \in Workers, NEW d \in Docs,
           Stored(d), Relies(w, d),
           \/ BuildStep(w, d) /\ job[w].pc \notin {"next", "clear"}
           \/ Reject(w) /\ job[w].doc = d
    PROVE  /\ Stored(d)' /\ Relies(w, d)'
           /\ /\ "mark" \notin Faults
              /\ job'[w].pc = "clear" /\ status'[d] = "completed"
              => Whole(d)'
<1>a. job \in [Workers -> JobType] /\ status \in [Docs -> Statuses]
      /\ rows \in [Docs -> SUBSET Segs] /\ live \in [Docs -> SUBSET Segs]
      /\ points \in [Docs -> SUBSET Segs] /\ kw \in [Docs -> SUBSET Segs]
  BY DEF TypeOK
<1>b. Cardinality({}) = 0 /\ MaxSplit \in Nat \ {0}
  BY FS_EmptySet, ConstantsAssumption DEF ConstantsAssumption
<1>c. job[w] \in JobType BY <1>a
<1> USE <1>a, <1>c DEF db, index, Goto, At, Stored, Relies, Exists, Write
<1>1. CASE Vanished(w, d) BY <1>1 DEF Vanished
<1>2. CASE PurgeRead(w, d) BY <1>2 DEF PurgeRead, JobType
<1>3. CASE PurgeKeywords(w, d) BY <1>3 DEF PurgeKeywords, JobType
<1>4. CASE PurgeVectors(w, d) BY <1>4 DEF PurgeVectors, JobType
<1>5. CASE PurgeRows(w, d) BY <1>5, <1>b DEF PurgeRows, JobType
<1>6. CASE ResetDocument(w, d) BY <1>6 DEF ResetDocument, JobType
<1>7. CASE StartParsing(w, d) BY <1>7 DEF StartParsing, Stage, JobType
<1>8. CASE StartSplitting(w, d) BY <1>8 DEF StartSplitting, Stage, JobType
<1>9. CASE StartIndexing(w, d) BY <1>9 DEF StartIndexing, Stage, JobType
<1>10. CASE AddRows(w, d)
  <2>1. rows[d] = {} /\ live[d] = {} BY <1>10 DEF AddRows
  <2>2. PICK S \in SUBSET Segs :
          /\ Cardinality(S) <= MaxSplit
          /\ rows' = [rows EXCEPT ![d] = @ \union S]
          /\ job' = [job EXCEPT ![w] = [@ EXCEPT !.pc = "index", !.mine = S]]
    BY <1>10 DEF AddRows, Fresh
  <2>3. rows'[d] = S BY <2>1, <2>2
  <2>4. job'[w].pc = "index" /\ job'[w].mine = S BY <2>2 DEF JobType
  <2>5. Exists(d) /\ UNCHANGED <<status, live, points, kw>>
    BY <1>10 DEF AddRows
  <2>6. points[d] = {} /\ kw[d] = {} BY <2>1, <2>5
  <2>7. QED BY <2>1, <2>2, <2>3, <2>4, <2>5, <2>6
<1>11. CASE StartEmbedding(w, d) BY <1>11 DEF StartEmbedding, JobType
<1>12. CASE \E s \in Segs : UpsertBatch(w, d, s)
  BY <1>12 DEF UpsertBatch, JobType
<1>13. CASE Publish(w, d)
  <2>1. CASE Exists(d) /\ job[w].mine \subseteq rows[d]
    <3>1. /\ live' = [live EXCEPT ![d] = @ \union job[w].mine]
          /\ status' = [status EXCEPT ![d] = "completed"]
          /\ job' = [job EXCEPT ![w].pc = "kwRead"]
          /\ UNCHANGED <<rows, points, kw>>
      BY <1>13, <2>1 DEF Publish
    <3>2. job[w].mine = rows[d] /\ rows[d] = points[d]
      BY <1>13, <2>1 DEF Publish
    <3>3. live'[d] = rows'[d] BY <3>1, <3>2
    <3>4. job'[w].pc = "kwRead" /\ job'[w].mine = job[w].mine
      BY <3>1 DEF JobType
    <3>5. QED BY <2>1, <3>1, <3>2, <3>3, <3>4
  <2>2. CASE ~(Exists(d) /\ job[w].mine \subseteq rows[d])
    BY <1>13, <2>2 DEF Publish, JobType
  <2>3. QED BY <2>1, <2>2
<1>14. CASE ReadForKeywords(w, d) BY <1>14 DEF ReadForKeywords, JobType
<1>15. CASE AddKeywords(w, d) BY <1>15 DEF AddKeywords, Whole, JobType
<1>16. CASE MarkError(w, d) BY <1>16 DEF MarkError, JobType
<1>17. CASE Reject(w) /\ job[w].doc = d BY <1>17 DEF Reject
<1> QED
  BY <1>1, <1>2, <1>3, <1>4, <1>5, <1>6, <1>7, <1>8, <1>9, <1>10, <1>11,
     <1>12, <1>13, <1>14, <1>15, <1>16, <1>17
     DEF BuildStep, StartDocument, ClearAttempts

-----------------------------------------------------------------------------
(* The whole system.                                                       *)

SameData(d) == /\ rows'[d] = rows[d] /\ live'[d] = live[d]
               /\ points'[d] = points[d] /\ kw'[d] = kw[d]

\* The seven ways a step can concern what is stored about d.
Untouched(d) == SameData(d) /\ status'[d] = status[d]
Built(d) == \E w \in Workers :
                BuildStep(w, d) /\ job[w].pc \notin {"next", "clear"}
Created(d) == SameData(d) /\ job' = job /\ status[d] = "none"
              /\ status'[d] = "waiting"
Reindexed(d) == SameData(d) /\ job' = job /\ Exists(d)
                /\ status'[d] = "waiting"
Deleted(d) == /\ rows'[d] = {} /\ live'[d] = {} /\ job' = job
              /\ status'[d] = "deleted"
CleanedUp(d) == /\ rows'[d] = rows[d] /\ live'[d] = live[d]
                /\ Gone(d) /\ status'[d] = status[d]
Recovered(d) == /\ SameData(d) /\ status[d] \in Processing
                /\ status'[d] = "error" /\ job' = [w \in Workers |-> Idle]

LEMMA WhoTouches ==
    ASSUME TypeOK, CleanUps, [Next]_vars, NEW d \in Docs
    PROVE  \/ Untouched(d) \/ Built(d) \/ Created(d) \/ Reindexed(d)
           \/ Deleted(d) \/ CleanedUp(d) \/ Recovered(d)
<1>a. /\ job \in [Workers -> JobType] /\ status \in [Docs -> Statuses]
      /\ rows \in [Docs -> SUBSET Segs] /\ live \in [Docs -> SUBSET Segs]
      /\ points \in [Docs -> SUBSET Segs] /\ kw \in [Docs -> SUBSET Segs]
  BY DEF TypeOK
<1> USE <1>a DEF db, index
<1>1. CASE UNCHANGED <<status, rows, live, points, kw>>
  BY <1>1 DEF Untouched, SameData
<1>2. ASSUME NEW r \in Reqs, NEW D \in Batches, CreateDocuments(r, D)
      PROVE  Untouched(d) \/ Created(d)
  BY <1>2 DEF CreateDocuments, Untouched, Created, SameData
<1>3. ASSUME NEW r \in Reqs, NEW e \in Docs, CommitReindex(r, e)
      PROVE  Untouched(d) \/ Reindexed(d)
  BY <1>3 DEF CommitReindex, Write, Untouched, Reindexed, SameData
<1>4. ASSUME NEW r \in Reqs, NEW e \in Docs, CommitDelete(r, e)
      PROVE  Untouched(d) \/ Deleted(d)
  BY <1>4 DEF CommitDelete, Write, Untouched, Deleted, SameData
<1>5. ASSUME NEW w \in Workers, NEW e \in Docs,
             DropVectors(w, e) \/ DropKeywords(w, e)
      PROVE  Untouched(d) \/ CleanedUp(d)
  BY <1>5 DEF DropVectors, DropKeywords, CleanUps, Untouched, CleanedUp,
              SameData
<1>6. ASSUME NEW w \in Workers, NEW e \in Docs, BuildStep(w, e)
      PROVE  Untouched(d) \/ Built(d)
  <2>1. CASE e # d BY <1>6, <2>1, OtherDocuments DEF Untouched, SameData
  <2>2. CASE e = d /\ job[w].pc \notin {"next", "clear"}
    BY <1>6, <2>2 DEF Built
  <2>3. CASE job[w].pc \in {"next", "clear"}
    <3>1. StartDocument(w, e) \/ ClearAttempts(w, e)
      BY <1>6, <2>3
         DEF BuildStep, Vanished, PurgeRead, PurgeKeywords, PurgeVectors,
             PurgeRows, ResetDocument, StartParsing, StartSplitting, AddRows,
             StartIndexing, Stage, StartEmbedding, UpsertBatch, Publish,
             ReadForKeywords, AddKeywords, MarkError, At
    <3>2. QED
      BY <3>1 DEF StartDocument, ClearAttempts, Untouched, SameData
  <2>4. QED BY <2>1, <2>2, <2>3
<1>7. ASSUME NEW S \in SUBSET Docs, Restart(S)
      PROVE  Untouched(d) \/ Recovered(d)
  BY <1>7 DEF Restart, Spared, Untouched, Recovered, SameData
<1> QED
  BY <1>1, <1>2, <1>3, <1>4, <1>5, <1>6, <1>7
     DEF Next, Commit, RequestStep, CheckReindex, CheckDelete, Dispatch,
         LoseDispatch, WorkerStep, TakeBuild, TakeDelete, FinishBuild,
         Abandon, EnvironmentStep, Kill, Reject, Restore, Redeliver,
         LoseCounter, vars

LEMMA GoneStays ==
    ASSUME TypeOK, CleanUps, [Next]_vars, NEW d \in Docs, Gone(d)
    PROVE  Gone(d)'
<1>1. ~Exists(d) /\ status[d] \notin Processing
  BY DEF Gone, Exists, Processing
<1>2. ASSUME NEW w \in Workers, BuildStep(w, d) PROVE status'[d] = status[d]
  BY <1>1, <1>2
     DEF BuildStep, StartDocument, ClearAttempts, Vanished, PurgeRead,
         PurgeKeywords, PurgeVectors, PurgeRows, ResetDocument,
         StartParsing, StartSplitting, AddRows, StartIndexing, Stage,
         StartEmbedding, UpsertBatch, Publish, ReadForKeywords,
         AddKeywords, MarkError, db
<1> QED
  BY <1>1, <1>2, WhoTouches
     DEF Untouched, Built, Created, Reindexed, Deleted, CleanedUp,
         Recovered, Gone

\* Where worker w's document comes from in a step.
LEMMA JobMoves ==
    ASSUME TypeOK, CleanUps, [Next]_vars, NEW w \in Workers, NEW d \in Docs,
           job'[w].doc = d
    PROVE  \/ job'[w] = job[w]
           \/ BuildStep(w, d) /\ job[w].pc \notin {"next", "clear"}
           \/ Reject(w) /\ job[w].doc = d
           \/ /\ job'[w].pc \in {"purge", "fail", "dropVec", "dropKw"}
              /\ status[d] # "none" /\ status' = status
<1>a. job \in [Workers -> JobType] /\ None \notin Docs
  BY ConstantsAssumption DEF TypeOK, ConstantsAssumption
<1> USE <1>a DEF db
<1>1. CASE job' = job BY <1>1
<1>2. ASSUME NEW v \in Workers, NEW t \in Tasks, TakeBuild(v, t)
      PROVE  job'[w] = job[w]
  BY <1>2 DEF TakeBuild, Idle
<1>3. ASSUME NEW v \in Workers, NEW t \in Tasks, NEW e \in Docs,
             TakeDelete(v, t, e)
      PROVE  \/ job'[w] = job[w]
             \/ /\ job'[w].pc = "dropVec"
                /\ status[d] # "none" /\ status' = status
  BY <1>3 DEF TakeDelete, Idle, CleanUps, Gone
<1>4. ASSUME NEW v \in Workers, NEW e \in Docs,
             DropVectors(v, e) \/ DropKeywords(v, e)
      PROVE  \/ job'[w] = job[w]
             \/ /\ job'[w].pc = "dropKw"
                /\ status[d] # "none" /\ status' = status
  BY <1>4 DEF DropVectors, DropKeywords, Goto, Idle, CleanUps, Gone, JobType
<1>5. ASSUME NEW v \in Workers, FinishBuild(v) \/ Abandon(v) \/ Kill(v)
      PROVE  job'[w] = job[w]
  BY <1>5 DEF FinishBuild, Abandon, Kill, Ack, Idle
<1>6. ASSUME NEW S \in SUBSET Docs, Restart(S) PROVE FALSE
  BY <1>6 DEF Restart, Idle
<1>7. ASSUME NEW v \in Workers, NEW e \in Docs,
             StartDocument(v, e) \/ ClearAttempts(v, e)
      PROVE  \/ job'[w] = job[w]
             \/ /\ job'[w].pc \in {"purge", "fail"}
                /\ status[d] # "none" /\ status' = status
  <2>1. CASE v # w BY <1>7, <2>1 DEF StartDocument, ClearAttempts
  <2>2. CASE v = w /\ StartDocument(v, e)
    <3>1. PICK p \in {"purge", "fail"} :
            job' = [job EXCEPT
                 ![w] = [@ EXCEPT !.left = job[w].left \ {e}, !.doc = e,
                           !.mine = {}, !.pc = p]]
      BY <2>2 DEF StartDocument
    <3>2. job'[w] = [job[w] EXCEPT !.left = job[w].left \ {e}, !.doc = e,
                                   !.mine = {}, !.pc = p]
      BY <3>1
    <3>3. job[w] \in JobType OBVIOUS
    <3>4. job'[w].pc = p /\ job'[w].doc = e BY <3>2, <3>3 DEF JobType
    <3>5. QED BY <2>2, <3>4 DEF StartDocument, Exists
  <2>3. CASE v = w /\ ClearAttempts(v, e)
    BY <2>3 DEF ClearAttempts, JobType
  <2>4. QED BY <1>7, <2>1, <2>2, <2>3
<1>8. ASSUME NEW v \in Workers, NEW e \in Docs, BuildStep(v, e),
             job[v].pc \notin {"next", "clear"}
      PROVE  \/ job'[w] = job[w]
             \/ BuildStep(w, d) /\ job[w].pc \notin {"next", "clear"}
  BY <1>8, BuildFrame
<1>9. ASSUME NEW v \in Workers, Reject(v)
      PROVE  job'[w] = job[w] \/ (Reject(w) /\ job[w].doc = d)
  BY <1>9 DEF Reject, Goto, JobType
<1>10. ASSUME NEW v \in Workers, NEW e \in Docs, BuildStep(v, e),
              job[v].pc \in {"next", "clear"}
       PROVE  StartDocument(v, e) \/ ClearAttempts(v, e)
  BY <1>10
     DEF BuildStep, Vanished, PurgeRead, PurgeKeywords, PurgeVectors,
         PurgeRows, ResetDocument, StartParsing, StartSplitting, AddRows,
         StartIndexing, Stage, StartEmbedding, UpsertBatch, Publish,
         ReadForKeywords, AddKeywords, MarkError, At
<1>11. ASSUME NEW r \in Reqs, Commit(r) \/ RequestStep(r) PROVE job' = job
  BY <1>11
     DEF Commit, CommitReindex, CommitDelete, RequestStep, CreateDocuments,
         CheckReindex, CheckDelete, Dispatch, LoseDispatch
<1>12. CASE \/ \E t \in Tasks : Restore(t)
            \/ \E t, u \in Tasks : Redeliver(t, u)
            \/ \E e \in Docs : LoseCounter(e)
            \/ UNCHANGED vars
  BY <1>12 DEF Restore, Redeliver, LoseCounter, vars
<1> QED
  BY <1>1, <1>2, <1>3, <1>4, <1>5, <1>6, <1>7, <1>8, <1>9, <1>10, <1>11,
     <1>12
     DEF Next, WorkerStep, EnvironmentStep

LEMMA ReliesStep ==
    ASSUME "qdrant" \notin Faults, TypeOK, Contents, BuildsAlone, [Next]_vars,
           NEW w \in Workers, NEW d \in Docs, job'[w].doc = d
    PROVE  Relies(w, d)'
<1>a. Stored(d) /\ CleanUps BY DEF Contents
<1>1. CASE \/ BuildStep(w, d) /\ job[w].pc \notin {"next", "clear"}
           \/ Reject(w) /\ job[w].doc = d
  <2>1. job[w].doc = d BY <1>1, BuildFrame
  <2>2. Relies(w, d) BY <2>1 DEF Contents
  <2>3. QED BY <1>1, <1>a, <2>2, BuildContents
<1>2. CASE /\ job'[w].pc \in {"purge", "fail", "dropVec", "dropKw"}
           /\ status[d] # "none" /\ status' = status
  BY <1>2 DEF Relies
<1>3. CASE job'[w] = job[w]
  <2>1. Relies(w, d) BY <1>3 DEF Contents
  <2>2. CASE Built(d)
    <3>1. PICK v \in Workers :
            BuildStep(v, d) /\ job[v].pc \notin {"next", "clear"}
      BY <2>2 DEF Built
    <3>2. CASE v = w BY <3>1, <3>2, <1>1
    <3>3. CASE v # w
      <4>1. job[v].pc \in Indexing /\ job[v].doc = d
        BY <3>1, BuildFrame DEF Indexing
      <4>2. job[w].pc \notin Indexing
        BY <1>3, <3>3, <4>1 DEF BuildsAlone
      <4>3. status'[d] # "none"
        BY <2>1, <3>1, BuildFrame DEF Relies, Processing, Terminal
      <4>4. QED BY <1>3, <4>2, <4>3 DEF Relies, Indexing, BuildPcs
    <3>4. QED BY <3>2, <3>3
  <2>3. CASE Untouched(d) \/ Reindexed(d)
    BY <1>3, <2>1, <2>3 DEF Untouched, Reindexed, SameData, Relies, Exists
  <2>4. CASE Created(d) BY <2>1, <2>4 DEF Created, Relies
  <2>5. CASE Deleted(d)
    BY <1>3, <2>5 DEF Deleted, Relies, Exists
  <2>6. CASE CleanedUp(d)
    BY <1>3, <2>1, <2>6 DEF CleanedUp, Gone, Relies, Exists
  <2>7. CASE Recovered(d)
    BY <2>7, ConstantsAssumption DEF Recovered, Idle, ConstantsAssumption
  <2>8. QED
    BY <1>a, <2>2, <2>3, <2>4, <2>5, <2>6, <2>7, WhoTouches
<1> QED BY <1>a, <1>1, <1>2, <1>3, JobMoves

LEMMA StoredStep ==
    ASSUME "qdrant" \notin Faults, TypeOK, Contents, [Next]_vars,
           NEW d \in Docs
    PROVE  Stored(d)'
<1>a. Stored(d) /\ CleanUps BY DEF Contents
<1>1. CASE Built(d)
  <2>1. PICK w \in Workers :
          BuildStep(w, d) /\ job[w].pc \notin {"next", "clear"}
    BY <1>1 DEF Built
  <2>2. Relies(w, d) BY <2>1, BuildFrame DEF Contents
  <2>3. QED BY <1>a, <2>1, <2>2, BuildContents
<1>2. CASE Untouched(d) \/ Created(d) \/ Reindexed(d)
  BY <1>a, <1>2
     DEF Untouched, Created, Reindexed, SameData, Stored, Exists
<1>3. CASE Deleted(d)
  BY <1>3, FS_EmptySet, ConstantsAssumption
     DEF Deleted, Stored, Exists, ConstantsAssumption
<1>4. CASE CleanedUp(d)
  BY <1>a, <1>4 DEF CleanedUp, Gone, Stored, Exists
<1>5. CASE Recovered(d)
  BY <1>a, <1>5 DEF Recovered, SameData, Stored, Exists, Processing
<1> QED BY <1>a, <1>1, <1>2, <1>3, <1>4, <1>5, WhoTouches

LEMMA SettlesStep ==
    ASSUME "qdrant" \notin Faults, TypeOK, Consistent, Contents, [Next]_vars,
           NEW d \in Docs
    PROVE  Settles(d)'
<1> SUFFICES ASSUME "mark" \notin Faults, status'[d] = "completed"
             PROVE  Whole(d)' \/ Carried(Indexing, d)'
  BY DEF Settles
<1>a. Stored(d) /\ Settles(d) /\ CleanUps BY DEF Contents
<1>1. ASSUME NEW w \in Workers, BuildStep(w, d),
             job[w].pc \notin {"next", "clear"}
      PROVE  Whole(d)' \/ Carried(Indexing, d)'
  <2>1. job'[w].pc \in BuildPcs /\ job'[w].doc = d BY <1>1, BuildFrame
  <2>2. CASE job'[w].pc \in Indexing
    <3>1. Working(Indexing, w, d)' BY <2>1, <2>2 DEF Working
    <3>2. QED BY <3>1 DEF Carried
  <2>3. CASE job'[w].pc = "clear"
    <3>1. Relies(w, d) BY <1>1, BuildFrame DEF Contents
    <3>2. QED BY <1>1, <1>a, <2>3, <3>1, BuildContents
  <2>4. QED BY <2>1, <2>2, <2>3 DEF Indexing
<1>2. CASE Built(d) BY <1>1, <1>2 DEF Built
<1>3. CASE Untouched(d)
  <2>1. CASE Whole(d) BY <1>3, <2>1 DEF Untouched, SameData, Whole
  <2>2. CASE Carried(Indexing, d)
    <3>1. Indexing \in SUBSET (BuildPcs \ {"clear"})
          /\ {"purge", "fail"} \subseteq Indexing
      BY DEF Indexing, BuildPcs
    <3>2. Exists(d)' BY DEF Exists
    <3>3. CASE \E w \in Workers : /\ BuildStep(w, d)
                                  /\ job[w].pc \in Indexing
                                  /\ job'[w].pc \in BuildPcs \ Indexing
      BY <1>1, <3>3 DEF Indexing, BuildPcs
    <3>4. QED BY <2>2, <3>1, <3>2, <3>3, CarriedUntilLeft
  <2>3. QED BY <1>a, <1>3, <2>1, <2>2 DEF Untouched, Settles
<1>4. QED
  BY <1>a, <1>2, <1>3, WhoTouches
     DEF Created, Reindexed, Deleted, CleanedUp, Recovered, Gone

LEMMA CleanUpsStep ==
    ASSUME TypeOK, CleanUps, [Next]_vars
    PROVE  CleanUps'
<1>a. /\ job \in [Workers -> JobType] /\ task \in [Tasks -> TaskType]
      /\ req \in [Reqs -> ReqType] /\ status \in [Docs -> Statuses]
  BY DEF TypeOK
<1> USE <1>a
<1>b. \A d \in Docs : Gone(d) => Gone(d)' BY GoneStays
<1>1. ASSUME NEW r \in Reqs, req'[r].pc = "dispatch", req'[r].op = "delete",
             NEW d \in req'[r].docs
      PROVE  Gone(d)'
  <2>1. CASE req'[r] = req[r]
    BY <1>1, <1>b, <2>1 DEF CleanUps, ReqType
  <2>2. ASSUME NEW e \in Docs, CommitDelete(r, e) PROVE Gone(d)'
    <3>1. req' = [req EXCEPT ![r].pc = "dispatch"] /\ req[r].docs = {e}
      BY <2>2 DEF CommitDelete
    <3>2. req'[r].docs = {e} BY <3>1 DEF ReqType
    <3>3. QED BY <1>1, <2>2, <3>2 DEF CommitDelete, Write, Gone
  <2>3. ASSUME NEW q \in Reqs, NEW e \in Docs, CommitReindex(q, e)
        PROVE  req'[r] = req[r]
    BY <1>1, <2>3 DEF CommitReindex, NoReq, ReqType
  <2>4. ASSUME NEW q \in Reqs, RequestStep(q) PROVE req'[r] = req[r]
    <3>1. CASE q # r
      BY <2>4, <3>1
         DEF RequestStep, CreateDocuments, CheckReindex, CheckDelete,
             Dispatch, LoseDispatch
    <3>2. ASSUME NEW D \in Batches, CreateDocuments(r, D)
          PROVE  req'[r].op = "build"
      BY <3>2 DEF CreateDocuments, NoReq
    <3>3. ASSUME NEW e \in Docs, CheckReindex(r, e) \/ CheckDelete(r, e)
          PROVE  req'[r].pc = "checked"
      BY <3>3 DEF CheckReindex, CheckDelete, NoReq
    <3>4. ASSUME LoseDispatch(r) \/ \E t \in Tasks : Dispatch(r, t)
          PROVE  req'[r] = NoReq
      BY <3>4 DEF LoseDispatch, Dispatch
    <3>5. CASE q = r
      BY <1>1, <2>4, <3>2, <3>3, <3>4, <3>5 DEF RequestStep, NoReq
    <3>6. QED BY <3>1, <3>5
  <2>5. ASSUME NEW q \in Reqs \ {r}, NEW e \in Docs, CommitDelete(q, e)
        PROVE  req'[r] = req[r]
    BY <2>5 DEF CommitDelete
  <2>6. ASSUME NEW w \in Workers, WorkerStep(w) PROVE UNCHANGED req
    BY <2>6
       DEF WorkerStep, TakeBuild, TakeDelete, DropVectors, DropKeywords,
           FinishBuild, Abandon, BuildStep, StartDocument, ClearAttempts,
           Vanished, PurgeRead, PurgeKeywords, PurgeVectors, PurgeRows,
           ResetDocument, StartParsing, StartSplitting, AddRows,
           StartIndexing, Stage, StartEmbedding, UpsertBatch, Publish,
           ReadForKeywords, AddKeywords, MarkError
  <2>7. CASE EnvironmentStep \/ UNCHANGED vars
    BY <2>1, <2>7
       DEF EnvironmentStep, Kill, Reject, Restart, Restore, Redeliver,
           LoseCounter, vars
  <2>8. QED
    BY <2>1, <2>2, <2>3, <2>4, <2>5, <2>6, <2>7 DEF Next, Commit
<1>2. ASSUME NEW t \in Tasks, task'[t].kind = "delete",
             NEW d \in task'[t].docs
      PROVE  Gone(d)'
  <2>1. CASE \E u \in Tasks : task'[t].kind = task[u].kind
                              /\ task'[t].docs = task[u].docs
    BY <1>2, <1>b, <2>1 DEF CleanUps, TaskType
  <2>2. ASSUME NEW r \in Reqs, Dispatch(r, t) PROVE Gone(d)'
    <3>1. /\ req[r].pc = "dispatch" /\ req[r].op = "delete"
          /\ d \in req[r].docs
      BY <1>2, <2>2 DEF Dispatch
    <3>2. QED BY <1>b, <3>1 DEF CleanUps, ReqType
  <2>3. CASE task'[t] = NoTask BY <1>2, <2>3 DEF NoTask
  <2>4. ASSUME NEW w \in Workers, WorkerStep(w)
        PROVE  \/ task'[t] = NoTask \/ task'[t] = task[t]
               \/ task'[t] = [task[t] EXCEPT !.st = "leased"]
    <3>1. ASSUME NEW e \in Docs, BuildStep(w, e) PROVE UNCHANGED task
      BY <3>1
         DEF BuildStep, StartDocument, ClearAttempts, Vanished, PurgeRead,
             PurgeKeywords, PurgeVectors, PurgeRows, ResetDocument,
             StartParsing, StartSplitting, AddRows, StartIndexing, Stage,
             StartEmbedding, UpsertBatch, Publish, ReadForKeywords,
             AddKeywords, MarkError
    <3>2. QED
      BY <2>4, <3>1
         DEF WorkerStep, TakeBuild, TakeDelete, DropVectors, DropKeywords,
             FinishBuild, Abandon, Ack
  <2>5. CASE EnvironmentStep
    <3>1. \/ task'[t] = task[t]
          \/ \E u \in Tasks : task'[t] = [task[u] EXCEPT !.st = "queued"]
      BY <2>5 DEF EnvironmentStep, Kill, Reject, Restart, Restore, Redeliver,
                  LoseCounter
    <3>2. QED BY <2>1, <3>1 DEF TaskType
  <2>6. ASSUME NEW q \in Reqs, Commit(q) PROVE UNCHANGED task
    BY <2>6 DEF Commit, CommitReindex, CommitDelete
  <2>7. ASSUME NEW q \in Reqs, RequestStep(q)
        PROVE  task'[t] = task[t] \/ Dispatch(q, t)
    BY <2>7 DEF RequestStep, CreateDocuments, CheckReindex, CheckDelete,
                Dispatch, LoseDispatch
  <2>8. CASE UNCHANGED vars BY <2>1, <2>8 DEF vars
  <2>9. QED
    BY <2>1, <2>2, <2>3, <2>4, <2>5, <2>6, <2>7, <2>8
       DEF Next, TaskType
<1> USE DEF Gone
<1>3. ASSUME NEW w \in Workers, job'[w].pc \in {"dropVec", "dropKw"}
      PROVE  job'[w].doc \in Docs /\ status'[job'[w].doc] = "deleted"
  <2>1. CASE job'[w] = job[w] BY <1>3, <1>b, <2>1 DEF CleanUps
  <2>2. ASSUME NEW t \in Tasks, NEW d \in Docs, TakeDelete(w, t, d)
        PROVE  job'[w].doc \in Docs /\ status'[job'[w].doc] = "deleted"
    <3>1. job'[w].doc = d BY <2>2 DEF TakeDelete, Idle
    <3>2. Gone(d) BY <2>2 DEF TakeDelete, CleanUps
    <3>3. QED BY <1>b, <3>1, <3>2
  <2>3. ASSUME NEW d \in Docs, DropVectors(w, d)
        PROVE  job'[w].doc \in Docs /\ status'[job'[w].doc] = "deleted"
    <3>1. job'[w].doc = d BY <1>3, <2>3 DEF DropVectors, Goto, Idle, JobType
    <3>2. Gone(d) BY <2>3 DEF DropVectors, CleanUps
    <3>3. QED BY <1>b, <3>1, <3>2
  <2>4. ASSUME NEW v \in Workers, NEW d \in Docs, BuildStep(v, d)
        PROVE  job'[w] = job[w]
    <3>1. CASE job[v].pc \notin {"next", "clear"}
      BY <1>3, <2>4, <3>1, BuildFrame DEF BuildPcs
    <3>2. CASE StartDocument(v, d) \/ ClearAttempts(v, d)
      <4>1. v # w => job'[w] = job[w]
        BY <3>2 DEF StartDocument, ClearAttempts
      <4>2. PICK p \in {"fail", "purge", "next"} :
              \/ job' = [job EXCEPT
                    ![v] = [@ EXCEPT !.left = job[v].left \ {d}, !.doc = d,
                              !.mine = {}, !.pc = p]]
              \/ job' = [job EXCEPT
                    ![v] = [@ EXCEPT !.pc = p, !.doc = None, !.mine = {}]]
        BY <3>2 DEF StartDocument, ClearAttempts
      <4>3. job[v] \in JobType OBVIOUS
      <4>4. \/ job'[v] = [job[v] EXCEPT !.left = job[v].left \ {d},
                                        !.doc = d, !.mine = {}, !.pc = p]
            \/ job'[v] = [job[v] EXCEPT !.pc = p, !.doc = None, !.mine = {}]
        BY <4>2
      <4>5. job'[v].pc = p BY <4>3, <4>4 DEF JobType
      <4>6. QED BY <1>3, <4>1, <4>5
    <3>3. QED
      BY <2>4, <3>1, <3>2
         DEF BuildStep, Vanished, PurgeRead, PurgeKeywords, PurgeVectors,
             PurgeRows, ResetDocument, StartParsing, StartSplitting, AddRows,
             StartIndexing, Stage, StartEmbedding, UpsertBatch, Publish,
             ReadForKeywords, AddKeywords, MarkError, At
  <2>5. ASSUME NEW v \in Workers, WorkerStep(v)
        PROVE  \/ job'[w] = job[w]
               \/ \E t \in Tasks, d \in Docs : TakeDelete(w, t, d)
               \/ \E d \in Docs : DropVectors(w, d)
    <3>1. ASSUME NEW t \in Tasks, TakeBuild(v, t) PROVE job'[w] = job[w]
      BY <1>3, <3>1 DEF TakeBuild, Idle
    <3>2. ASSUME NEW t \in Tasks, NEW d \in Docs, TakeDelete(v, t, d)
          PROVE  job'[w] = job[w] \/ TakeDelete(w, t, d)
      BY <3>2 DEF TakeDelete
    <3>3. ASSUME NEW d \in Docs, DropVectors(v, d)
          PROVE  job'[w] = job[w] \/ DropVectors(w, d)
      BY <3>3 DEF DropVectors, Goto
    <3>4. ASSUME NEW d \in Docs, DropKeywords(v, d) PROVE job'[w] = job[w]
      BY <1>3, <3>4 DEF DropKeywords, Idle
    <3>5. CASE FinishBuild(v) \/ Abandon(v)
      BY <1>3, <3>5 DEF FinishBuild, Abandon, Ack, Idle
    <3>6. QED
      BY <2>4, <2>5, <3>1, <3>2, <3>3, <3>4, <3>5 DEF WorkerStep
  <2>6. ASSUME EnvironmentStep PROVE job'[w] = job[w]
    <3>1. ASSUME NEW v \in Workers, Kill(v) PROVE job'[w] = job[w]
      BY <1>3, <3>1 DEF Kill, Idle
    <3>2. ASSUME NEW v \in Workers, Reject(v) PROVE job'[w] = job[w]
      BY <1>3, <3>2 DEF Reject, Goto, JobType
    <3>3. ASSUME NEW S \in SUBSET Docs, Restart(S) PROVE job'[w] = job[w]
      BY <1>3, <3>3 DEF Restart, Idle
    <3>4. QED
      BY <2>6, <3>1, <3>2, <3>3
         DEF EnvironmentStep, Restore, Redeliver, LoseCounter
  <2>7. ASSUME NEW q \in Reqs, Commit(q) \/ RequestStep(q)
        PROVE  job'[w] = job[w]
    BY <2>7
       DEF Commit, CommitReindex, CommitDelete, RequestStep, CreateDocuments,
           CheckReindex, CheckDelete, Dispatch, LoseDispatch
  <2>8. CASE UNCHANGED vars BY <2>1, <2>8 DEF vars
  <2>9. QED BY <2>1, <2>2, <2>3, <2>5, <2>6, <2>7, <2>8 DEF Next
<1> QED BY <1>1, <1>2, <1>3 DEF CleanUps

-----------------------------------------------------------------------------
(* The theorems.                                                           *)

\* What has to hold besides the type invariant.
Assumptions == SingleUploads /\ "qdrant" \notin Faults

LEMMA ContentsInvariant ==
    Assumptions => (Spec /\ []BuildsAlone => []Contents)
<1> SUFFICES ASSUME Assumptions PROVE Spec /\ []BuildsAlone => []Contents
  OBVIOUS
<1> DEFINE J == TypeOK /\ Consistent /\ ProcessingCarried
<1>1. Spec => []J BY ProcessingInvariant DEF Assumptions
<1>2. Init => Contents
  <2> SUFFICES ASSUME Init PROVE Contents OBVIOUS
  <2>1. \A d \in Docs : Stored(d) /\ Settles(d)
    BY FS_EmptySet, ConstantsAssumption
       DEF Init, Stored, Settles, Exists, ConstantsAssumption
  <2>2. \A w \in Workers : job[w].doc = None /\ job[w].pc = "idle"
    BY DEF Init, Idle
  <2>3. CleanUps BY <2>2 DEF Init, CleanUps, NoReq, NoTask
  <2>4. QED
    BY <2>1, <2>2, <2>3, ConstantsAssumption
       DEF Contents, ConstantsAssumption
<1>3. J /\ BuildsAlone /\ Contents /\ [Next]_vars => Contents'
  BY StoredStep, SettlesStep, ReliesStep, CleanUpsStep
     DEF Contents, Assumptions
<1> HIDE DEF J
<1> QED BY <1>1, <1>2, <1>3, PTL DEF Spec

\* A completed document that nothing builds any more has exactly its rows,
\* all of them live, in the vector store and in the keyword table, whatever
\* was killed, restarted, repeated, rejected or raced before, as long as the
\* failures of builds are recorded.
THEOREM CompletedIsWhole ==
    Assumptions /\ "mark" \notin Faults =>
        (Spec /\ []BuildsAlone => [](SettledHasVectors /\ SettledHasKeywords))
<1> SUFFICES ASSUME Assumptions, "mark" \notin Faults
             PROVE  Spec /\ []BuildsAlone =>
                        [](SettledHasVectors /\ SettledHasKeywords)
  OBVIOUS
<1>1. ASSUME Consistent, Contents, NEW d \in Docs, status[d] = "completed",
             ~InFlight(d)
      PROVE  Whole(d)
  <2>1. Indexing \in SUBSET BuildPcs BY DEF Indexing
  <2>2. ~Carried(Indexing, d)
    BY <1>1, <2>1, WorkingHolds DEF Carried, Pending, InFlight
  <2>3. QED BY <1>1, <2>2 DEF Contents, Settles
<1>2. Consistent /\ Contents => SettledHasVectors /\ SettledHasKeywords
  BY <1>1 DEF SettledHasVectors, SettledHasKeywords, Whole
<1>3. Spec => [](TypeOK /\ Consistent /\ ProcessingCarried)
  BY ProcessingInvariant DEF Assumptions
<1> QED BY <1>2, <1>3, ContentsInvariant, PTL

\* The part of it about keywords: full-text search knows the segments of a
\* completed document and no others.
COROLLARY KeywordsAreWhole ==
    Assumptions /\ "mark" \notin Faults =>
        (Spec /\ []BuildsAlone => []SettledHasKeywords)
<1> SUFFICES ASSUME Assumptions, "mark" \notin Faults
             PROVE  Spec /\ []BuildsAlone => []SettledHasKeywords
  OBVIOUS
<1>1. Spec /\ []BuildsAlone => [](SettledHasVectors /\ SettledHasKeywords)
  BY CompletedIsWhole
<1> QED BY <1>1, PTL

\* Builds that are delivered again or requested again leave the segments of
\* one split, also when their failures go unrecorded.
THEOREM OneSplitIsLeft ==
    Assumptions => (Spec /\ []BuildsAlone => []NoDuplicateSegments)
<1> SUFFICES ASSUME Assumptions
             PROVE  Spec /\ []BuildsAlone => []NoDuplicateSegments
  OBVIOUS
<1>1. Contents => NoDuplicateSegments
  BY DEF Contents, Stored, NoDuplicateSegments
<1> QED BY <1>1, ContentsInvariant, PTL

\* Under the same assumptions a document is switched to completed only when
\* all its rows become live with it and all of them are searchable already.
THEOREM PublishesWhole ==
    Assumptions => (Spec /\ []BuildsAlone => PublishedWhole)
<1> SUFFICES ASSUME Assumptions
             PROVE  Spec /\ []BuildsAlone => PublishedWhole
  OBVIOUS
<1> DEFINE Published ==
      \A d \in Docs : status[d] # "completed" /\ status'[d] = "completed" =>
          rows'[d] = live'[d] /\ rows'[d] \subseteq points'[d]
<1>1. TypeOK /\ Contents /\ Contents' /\ [Next]_vars => [Published]_vars
  <2> SUFFICES ASSUME TypeOK, Contents, Contents', [Next]_vars,
                      NEW d \in Docs, status[d] # "completed",
                      status'[d] = "completed"
               PROVE  rows'[d] = live'[d] /\ rows'[d] \subseteq points'[d]
    OBVIOUS
  <2>1. Built(d)
    BY WhoTouches
       DEF Contents, Untouched, Created, Reindexed, Deleted, CleanedUp,
           Recovered
  <2>2. PICK w \in Workers :
          BuildStep(w, d) /\ job[w].pc \notin {"next", "clear"}
    BY <2>1 DEF Built
  <2>3. Publish(w, d)
    BY <2>2
       DEF BuildStep, StartDocument, ClearAttempts, Vanished, PurgeRead,
           PurgeKeywords, PurgeVectors, PurgeRows, ResetDocument,
           StartParsing, StartSplitting, AddRows, StartIndexing, Stage,
           StartEmbedding, UpsertBatch, ReadForKeywords, AddKeywords,
           MarkError, Write, db, TypeOK
  <2>4. job'[w].pc = "kwRead"
    BY <2>3 DEF Publish, Goto, TypeOK, JobType
  <2>5. job'[w].doc = d BY <2>2, BuildFrame
  <2>6. Relies(w, d)' BY <2>5 DEF Contents
  <2>7. Exists(d)' BY DEF Exists
  <2>8. QED BY <2>4, <2>6, <2>7 DEF Relies
<1>2. Spec => []TypeOK BY TypeCorrect
<1> QED
  BY <1>1, <1>2, ContentsInvariant, PTL DEF Spec, PublishedWhole

-----------------------------------------------------------------------------
(***************************************************************************)
(* A deleted document leaves nothing behind.                               *)
(*                                                                         *)
(* The invariant says who still has to sweep a deleted document, and that  *)
(* this clean-up names every keyword entry it will find, those a build is  *)
(* still about to add included.  It is proved of the runs in which no two  *)
(* workers are busy with one document (DocumentsAlone: true of a single    *)
(* worker), and in which nothing loses a clean-up or lets somebody change  *)
(* the document between the check of a deletion and its commit.  Without   *)
(* any of these it is false (README, sections 5 and 6).                    *)
(***************************************************************************)

DocumentsAlone ==
    \A v, w \in Workers :
        job[v].doc = job[w].doc /\ job[v].doc # None => v = w

\* The faults that lose a clean-up or race with a deletion.
Losses == {"qdrant", "lose", "restart", "dispatch", "race"}

\* A request between its check and its commit is the only one, and what it
\* found is still so.
CheckedIsFresh ==
    /\ \A q, r \in Reqs :
        req[q].pc = "checked" /\ req[r].pc = "checked" => q = r
    /\ \A r \in Reqs : req[r].pc = "checked" =>
        \A d \in req[r].docs :
            /\ status[d] \in Terminal
            /\ req[r].op = "delete" => req[r].segs = rows[d]

\* While a build may add rows or vectors its document is in process, so that
\* no deletion is accepted.
StatusAt(w) ==
    /\ job[w].pc = "split" => status[job[w].doc] = "parsing"
    /\ job[w].pc \in {"addRows", "index"} => status[job[w].doc] = "splitting"
    /\ job[w].pc \in {"embed", "upsert"} => status[job[w].doc] = "indexing"

\* S has every keyword entry d has or is about to get.
Covers(d, S) ==
    /\ kw[d] \subseteq S
    /\ \A w \in Workers : At(w, d, "addKw") => job[w].mine \subseteq S

\* A clean-up of d on its way, in the hands of a worker, or no longer needed.
RequestSweeps(d) ==
    \E r \in Reqs : /\ req[r].pc = "dispatch" /\ req[r].op = "delete"
                    /\ req[r].docs = {d} /\ Covers(d, req[r].segs)

MessageSweeps(d) ==
    \E t \in Tasks : /\ task[t].st = "queued" /\ task[t].kind = "delete"
                     /\ task[t].docs = {d} /\ Covers(d, task[t].segs)

WorkerSweeps(d) ==
    \E w \in Workers : /\ CleaningUp(w) /\ job[w].doc = d
                       /\ Covers(d, job[w].mine)
                       /\ job[w].pc = "dropKw" => points[d] = {}

Swept(d) == points[d] = {} /\ Covers(d, {})

Cleaned(d) ==
    RequestSweeps(d) \/ MessageSweeps(d) \/ WorkerSweeps(d) \/ Swept(d)

Deletions ==
    /\ CheckedIsFresh
    /\ \A w \in Workers : StatusAt(w)
    /\ \A d \in Docs : Gone(d) => Cleaned(d)

LEMMA CheckedStep ==
    ASSUME Losses \intersect Faults = {}, TypeOK, CheckedIsFresh, [Next]_vars
    PROVE  CheckedIsFresh'
<1>a. req \in [Reqs -> ReqType] BY DEF TypeOK
<1>b. "race" \notin Faults BY DEF Losses
<1> USE <1>a DEF db
<1>1. ASSUME NEW r \in Reqs, Commit(r) PROVE CheckedIsFresh'
  <2>1. PICK d \in Docs : CommitReindex(r, d) \/ CommitDelete(r, d)
    BY <1>1 DEF Commit
  <2>2. req[r].pc = "checked" BY <2>1 DEF CommitReindex, CommitDelete
  <2>3. req'[r].pc # "checked"
    BY <2>1 DEF CommitReindex, CommitDelete, NoReq, ReqType
  <2>4. \A q \in Reqs \ {r} : req'[q] = req[q]
    BY <2>1 DEF CommitReindex, CommitDelete
  <2>5. \A q \in Reqs : req'[q].pc # "checked"
    BY <2>2, <2>3, <2>4 DEF CheckedIsFresh
  <2>6. QED BY <2>5 DEF CheckedIsFresh
<1>2. ASSUME \A r \in Reqs : req[r].pc # "checked",
             NEW r \in Reqs, RequestStep(r)
      PROVE  CheckedIsFresh'
  <2>1. \A q \in Reqs \ {r} : req'[q] = req[q]
    BY <1>2 DEF RequestStep, CreateDocuments, CheckReindex, CheckDelete,
                Dispatch, LoseDispatch
  <2>2. CASE req'[r].pc # "checked"
    BY <1>2, <2>1, <2>2 DEF CheckedIsFresh
  <2>3. ASSUME NEW d \in Docs, CheckReindex(r, d) \/ CheckDelete(r, d)
        PROVE  CheckedIsFresh'
    <3>1. /\ req'[r].docs = {d} /\ status'[d] \in Terminal
          /\ req'[r].op = "delete" => req'[r].segs = rows'[d]
      BY <2>3 DEF CheckReindex, CheckDelete, NoReq
    <3>2. QED BY <1>2, <2>1, <3>1 DEF CheckedIsFresh
  <2>4. ASSUME NEW D \in Batches, CreateDocuments(r, D)
        PROVE  req'[r].pc # "checked"
    BY <2>4 DEF CreateDocuments, NoReq
  <2>5. ASSUME NEW t \in Tasks, Dispatch(r, t)
        PROVE  req'[r].pc # "checked"
    BY <2>5 DEF Dispatch, NoReq
  <2>6. CASE LoseDispatch(r) BY <2>2, <2>6 DEF LoseDispatch, NoReq
  <2>7. QED BY <1>2, <2>2, <2>3, <2>4, <2>5, <2>6 DEF RequestStep
<1>3. ASSUME \A r \in Reqs : req[r].pc # "checked", UNCHANGED req
      PROVE  CheckedIsFresh'
  BY <1>3 DEF CheckedIsFresh
<1>4. ASSUME NEW w \in Workers, WorkerStep(w) PROVE UNCHANGED req
  BY <1>4
     DEF WorkerStep, TakeBuild, TakeDelete, DropVectors, DropKeywords,
         FinishBuild, Abandon, BuildStep, StartDocument, ClearAttempts,
         Vanished, PurgeRead, PurgeKeywords, PurgeVectors, PurgeRows,
         ResetDocument, StartParsing, StartSplitting, AddRows,
         StartIndexing, Stage, StartEmbedding, UpsertBatch, Publish,
         ReadForKeywords, AddKeywords, MarkError
<1>5. CASE UNCHANGED vars BY <1>5 DEF vars, CheckedIsFresh
<1>6. Undisturbed => \A r \in Reqs : req[r].pc # "checked"
  BY <1>b DEF Undisturbed
<1> QED
  <2>1. ASSUME NEW r \in Reqs, Undisturbed, RequestStep(r)
        PROVE  CheckedIsFresh'
    BY <2>1, <1>2, <1>6
  <2>2. CASE Undisturbed /\ EnvironmentStep
    <3>1. UNCHANGED req
      BY <2>2 DEF EnvironmentStep, Kill, Reject, Restart, Restore,
                  Redeliver, LoseCounter
    <3>2. QED BY <2>2, <3>1, <1>3, <1>6
  <2>3. ASSUME NEW w \in Workers, Undisturbed, WorkerStep(w)
        PROVE  CheckedIsFresh'
    BY <2>3, <1>3, <1>4, <1>6
  <2>4. QED BY <1>1, <1>5, <2>1, <2>2, <2>3 DEF Next

\* What is in process changes only by a step of its own build.
LEMMA InProcessStays ==
    ASSUME Losses \intersect Faults = {}, TypeOK, CheckedIsFresh,
           [Next]_vars, NEW d \in Docs, status[d] \in Processing
    PROVE  status'[d] = status[d] \/ Built(d)
<1>a. status \in [Docs -> Statuses] BY DEF TypeOK
<1> USE <1>a DEF db
<1>1. ASSUME NEW r \in Reqs, Commit(r) PROVE status'[d] = status[d]
  <2>1. PICK e \in Docs : CommitReindex(r, e) \/ CommitDelete(r, e)
    BY <1>1 DEF Commit
  <2>2. status[e] \in Terminal
    BY <2>1 DEF CommitReindex, CommitDelete, CheckedIsFresh
  <2>3. e # d BY <2>2 DEF Terminal, Processing
  <2>4. QED BY <2>1, <2>3 DEF CommitReindex, CommitDelete, Write
<1>2. ASSUME NEW r \in Reqs, RequestStep(r) PROVE status'[d] = status[d]
  BY <1>2 DEF RequestStep, CreateDocuments, CheckReindex, CheckDelete,
              Dispatch, LoseDispatch, Processing
<1>3. ASSUME NEW w \in Workers, NEW e \in Docs, BuildStep(w, e)
      PROVE  status'[d] = status[d] \/ Built(d)
  <2>1. CASE e # d BY <1>3, <2>1, OtherDocuments
  <2>2. CASE job[w].pc \in {"next", "clear"}
    BY <1>3, <2>2
       DEF BuildStep, StartDocument, ClearAttempts, Vanished, PurgeRead,
           PurgeKeywords, PurgeVectors, PurgeRows, ResetDocument,
           StartParsing, StartSplitting, StartIndexing, Stage, AddRows,
           StartEmbedding, UpsertBatch, Publish, ReadForKeywords,
           AddKeywords, MarkError, At
  <2>3. QED BY <1>3, <2>1, <2>2 DEF Built
<1>4. ASSUME NEW w \in Workers, WorkerStep(w)
      PROVE  status'[d] = status[d] \/ Built(d)
  BY <1>3, <1>4
     DEF WorkerStep, TakeBuild, TakeDelete, DropVectors, DropKeywords,
         FinishBuild, Abandon
<1>5. CASE EnvironmentStep
  BY <1>5 DEF EnvironmentStep, Kill, Reject, Restart, Restore, Redeliver,
              LoseCounter, Losses
<1>6. CASE UNCHANGED vars BY <1>6 DEF vars
<1> QED BY <1>1, <1>2, <1>4, <1>5, <1>6 DEF Next

LEMMA StatusStep ==
    ASSUME Losses \intersect Faults = {}, TypeOK, Consistent, Consistent',
           TypeOK', CleanUps, CheckedIsFresh, DocumentsAlone, [Next]_vars,
           NEW w \in Workers, StatusAt(w)
    PROVE  StatusAt(w)'
<1>a. job \in [Workers -> JobType] /\ status \in [Docs -> Statuses]
  BY DEF TypeOK
<1> DEFINE Fixed == {"split", "addRows", "index", "embed", "upsert"}
<1> SUFFICES ASSUME job'[w].pc \in Fixed PROVE StatusAt(w)'
  BY DEF StatusAt
<1>1. PICK d \in Docs : job'[w].doc = d
  <2>1. JobAgrees(w)' BY DEF Consistent
  <2>2. job'[w].pc \in BuildPcs BY DEF BuildPcs
  <2>3. QED BY <2>1, <2>2 DEF JobAgrees, InBuild, TypeOK, TaskType
<1>2. ASSUME BuildStep(w, d), job[w].pc \notin {"next", "clear"}
      PROVE  StatusAt(w)'
  <2> USE <1>a, <1>1 DEF db, index, Goto, At, StatusAt, JobType, Write
  <2>0. job[w].doc = d /\ job[w] \in JobType BY <1>2, BuildFrame
  <2>1. CASE Vanished(w, d) BY <2>1 DEF Vanished
  <2>2. CASE PurgeRead(w, d) BY <2>2 DEF PurgeRead
  <2>3. CASE PurgeKeywords(w, d) BY <2>3 DEF PurgeKeywords
  <2>4. CASE PurgeVectors(w, d) BY <2>4 DEF PurgeVectors
  <2>5. CASE PurgeRows(w, d) BY <2>5 DEF PurgeRows
  <2>6. CASE ResetDocument(w, d) BY <2>6 DEF ResetDocument
  <2>7. CASE StartParsing(w, d) BY <2>7 DEF StartParsing, Stage
  <2>8. CASE StartSplitting(w, d) BY <2>8 DEF StartSplitting, Stage
  <2>9. CASE StartIndexing(w, d) BY <2>9 DEF StartIndexing, Stage
  <2>10. CASE AddRows(w, d) BY <2>0, <2>10 DEF AddRows
  <2>11. CASE StartEmbedding(w, d) BY <2>0, <2>11 DEF StartEmbedding
  <2>12. CASE \E s \in Segs : UpsertBatch(w, d, s)
    BY <2>0, <2>12 DEF UpsertBatch
  <2>13. CASE Publish(w, d) BY <2>13 DEF Publish
  <2>14. CASE ReadForKeywords(w, d) BY <2>14 DEF ReadForKeywords
  <2>15. CASE AddKeywords(w, d) BY <2>15 DEF AddKeywords
  <2>16. CASE MarkError(w, d) BY <2>16 DEF MarkError
  <2> QED
    BY <1>2, <2>1, <2>2, <2>3, <2>4, <2>5, <2>6, <2>7, <2>8, <2>9, <2>10,
       <2>11, <2>12, <2>13, <2>14, <2>15, <2>16
       DEF BuildStep, StartDocument, ClearAttempts
<1>3. CASE Reject(w) BY <1>a, <1>3 DEF Reject, Goto, JobType
<1>4. CASE job'[w] = job[w]
  <2>1. status[d] \in Processing
    BY <1>1, <1>4 DEF StatusAt, Processing
  <2>2. CASE status'[d] = status[d] BY <1>1, <1>4, <2>2 DEF StatusAt
  <2>3. CASE Built(d)
    <3>1. PICK v \in Workers :
            BuildStep(v, d) /\ job[v].pc \notin {"next", "clear"}
      BY <2>3 DEF Built
    <3>2. job[v].doc = d /\ job[w].doc = d BY <1>1, <1>4, <3>1, BuildFrame
    <3>3. v = w
      BY <3>2, ConstantsAssumption DEF DocumentsAlone, ConstantsAssumption
    <3>4. QED BY <1>2, <3>1, <3>3
  <2>4. QED BY <2>1, <2>2, <2>3, InProcessStays
<1>5. CASE job'[w].pc \in {"purge", "fail", "dropVec", "dropKw"}
  BY <1>5
<1> QED BY <1>1, <1>2, <1>3, <1>4, <1>5, JobMoves

\* Nobody adds to the stores of a deleted document but who was already about
\* to.
LEMMA SweepFrame ==
    ASSUME TypeOK, CleanUps, \A w \in Workers : StatusAt(w), [Next]_vars,
           NEW d \in Docs, Gone(d)
    PROVE  /\ points'[d] \subseteq points[d]
           /\ \/ kw'[d] \subseteq kw[d]
              \/ \E w \in Workers : /\ At(w, d, "addKw")
                                    /\ kw'[d] = kw[d] \union job[w].mine
           /\ \A w \in Workers : At(w, d, "addKw")' => job'[w] = job[w]
<1>a. /\ job \in [Workers -> JobType] /\ points \in [Docs -> SUBSET Segs]
      /\ kw \in [Docs -> SUBSET Segs]
  BY DEF TypeOK
<1>b. ~Exists(d) BY DEF Gone, Exists
<1> USE <1>a DEF db, index
<1>1. ASSUME NEW w \in Workers, NEW e \in Docs, BuildStep(w, e)
      PROVE  /\ points'[d] \subseteq points[d]
             /\ \/ kw'[d] \subseteq kw[d]
                \/ At(w, d, "addKw") /\ kw'[d] = kw[d] \union job[w].mine
  <2>1. CASE e # d BY <1>1, <2>1, OtherDocuments
  <2>2. CASE e = d /\ PurgeKeywords(w, e) BY <2>2 DEF PurgeKeywords
  <2>3. CASE e = d /\ PurgeVectors(w, e) BY <2>3 DEF PurgeVectors
  <2>4. ASSUME e = d, NEW s \in Segs, UpsertBatch(w, e, s) PROVE FALSE
    BY <2>4 DEF UpsertBatch, At, StatusAt, Gone
  <2>5. CASE e = d /\ AddKeywords(w, e) BY <2>5 DEF AddKeywords
  <2>6. CASE UNCHANGED <<points, kw>> BY <2>6
  <2>7. QED
    BY <1>1, <2>1, <2>2, <2>3, <2>4, <2>5, <2>6
       DEF BuildStep, StartDocument, ClearAttempts, Vanished, PurgeRead,
           PurgeRows, ResetDocument, StartParsing, StartSplitting,
           StartIndexing, Stage, AddRows, StartEmbedding, Publish,
           ReadForKeywords, MarkError
<1>2. ASSUME NEW w \in Workers, NEW e \in Docs,
             DropVectors(w, e) \/ DropKeywords(w, e)
      PROVE  points'[d] \subseteq points[d] /\ kw'[d] \subseteq kw[d]
  BY <1>2 DEF DropVectors, DropKeywords
<1>3. ASSUME NEW w \in Workers, FinishBuild(w) \/ Abandon(w) \/
             (\E t \in Tasks : TakeBuild(w, t)) \/
             (\E t \in Tasks, e \in Docs : TakeDelete(w, t, e))
      PROVE  UNCHANGED <<points, kw>>
  BY <1>3 DEF FinishBuild, Abandon, TakeBuild, TakeDelete
<1>4. ASSUME NEW r \in Reqs, Commit(r) \/ RequestStep(r)
      PROVE  UNCHANGED <<points, kw>>
  BY <1>4
     DEF Commit, CommitReindex, CommitDelete, RequestStep, CreateDocuments,
         CheckReindex, CheckDelete, Dispatch, LoseDispatch
<1>5. ASSUME EnvironmentStep \/ UNCHANGED vars
      PROVE  UNCHANGED <<points, kw>>
  BY <1>5 DEF EnvironmentStep, Kill, Reject, Restart, Restore, Redeliver,
              LoseCounter, vars
<1>6. ASSUME NEW w \in Workers, At(w, d, "addKw")'
      PROVE  job'[w] = job[w]
  <2>1. ASSUME BuildStep(w, d), job[w].pc \notin {"next", "clear"}
        PROVE  FALSE
    <3>1. job'[w].pc = "addKw" BY <1>6 DEF At
    <3>2. ~ReadForKeywords(w, d) BY <1>b DEF ReadForKeywords
    <3> USE DEF JobType, Goto
    <3>3. ASSUME Vanished(w, d) \/ PurgeRead(w, d) \/ PurgeKeywords(w, d) \/
                 PurgeVectors(w, d) \/ PurgeRows(w, d) \/
                 ResetDocument(w, d)
          PROVE  FALSE
      <4>1. CASE Vanished(w, d) BY <3>1, <4>1 DEF Vanished
      <4>2. CASE PurgeRead(w, d) BY <3>1, <4>2 DEF PurgeRead
      <4>3. CASE PurgeKeywords(w, d) BY <3>1, <4>3 DEF PurgeKeywords
      <4>4. CASE PurgeVectors(w, d) BY <3>1, <4>4 DEF PurgeVectors
      <4>5. CASE PurgeRows(w, d) BY <3>1, <4>5 DEF PurgeRows
      <4>6. CASE ResetDocument(w, d) BY <3>1, <4>6 DEF ResetDocument
      <4>7. QED BY <3>3, <4>1, <4>2, <4>3, <4>4, <4>5, <4>6
    <3>4. ASSUME StartParsing(w, d) \/ StartSplitting(w, d) \/
                 StartIndexing(w, d) \/ AddRows(w, d) \/
                 StartEmbedding(w, d)
          PROVE  FALSE
      BY <1>b, <3>4 DEF StartParsing, StartSplitting, StartIndexing, Stage,
                        AddRows, StartEmbedding
    <3>5. ASSUME NEW s \in Segs, UpsertBatch(w, d, s) PROVE FALSE
      BY <3>1, <3>5 DEF UpsertBatch, At
    <3>6. ASSUME Publish(w, d) PROVE FALSE
      BY <1>b, <3>1, <3>6 DEF Publish
    <3>7. ASSUME AddKeywords(w, d) \/ MarkError(w, d) PROVE FALSE
      BY <1>b, <3>1, <3>7 DEF AddKeywords, MarkError
    <3>8. QED
      BY <2>1, <3>2, <3>3, <3>4, <3>5, <3>6, <3>7
         DEF BuildStep, StartDocument, ClearAttempts
  <2>2. CASE Reject(w) BY <1>6, <2>2 DEF Reject, Goto, At, JobType
  <2>3. QED BY <1>6, <2>1, <2>2, JobMoves DEF At
<1>7. ASSUME NEW w \in Workers, WorkerStep(w)
      PROVE  /\ points'[d] \subseteq points[d]
             /\ \/ kw'[d] \subseteq kw[d]
                \/ At(w, d, "addKw") /\ kw'[d] = kw[d] \union job[w].mine
  <2>1. CASE UNCHANGED <<points, kw>> BY <2>1
  <2>2. QED BY <1>1, <1>2, <1>3, <1>7, <2>1 DEF WorkerStep
<1>8. CASE UNCHANGED <<points, kw>> BY <1>6, <1>8
<1> QED BY <1>4, <1>5, <1>6, <1>7, <1>8 DEF Next

\* What names everything to be swept still does after a step.
LEMMA CoversStays ==
    ASSUME TypeOK, CleanUps, \A w \in Workers : StatusAt(w), [Next]_vars,
           NEW d \in Docs, Gone(d), NEW S, Covers(d, S)
    PROVE  /\ kw'[d] \subseteq S
           /\ \A w \in Workers : At(w, d, "addKw")' => job'[w].mine \subseteq S
<1>1. kw'[d] \subseteq S BY SweepFrame DEF Covers
<1>2. ASSUME NEW w \in Workers, At(w, d, "addKw")'
      PROVE  job'[w].mine \subseteq S
  <2>1. job'[w] = job[w] BY <1>2, SweepFrame
  <2>2. QED BY <1>2, <2>1 DEF Covers, At
<1> QED BY <1>1, <1>2

\* A clean-up is handed from the request to the message, from the message to
\* a worker, and done.
LEMMA CleanedStays ==
    ASSUME Losses \intersect Faults = {}, TypeOK, Consistent, CleanUps,
           \A w \in Workers : StatusAt(w), DocumentsAlone, [Next]_vars,
           NEW d \in Docs, Gone(d), Cleaned(d)
    PROVE  Cleaned(d)'
<1>a. /\ job \in [Workers -> JobType] /\ task \in [Tasks -> TaskType]
      /\ req \in [Reqs -> ReqType] /\ points \in [Docs -> SUBSET Segs]
      /\ kw \in [Docs -> SUBSET Segs]
  BY DEF TypeOK
<1>b. points[d] = {} => points'[d] = {} BY SweepFrame
<1> USE <1>a DEF db, index
<1>1. CASE RequestSweeps(d)
  <2>1. PICK r \in Reqs :
          /\ req[r].pc = "dispatch" /\ req[r].op = "delete"
          /\ req[r].docs = {d} /\ Covers(d, req[r].segs)
    BY <1>1 DEF RequestSweeps
  <2>2. PICK S : S = req[r].segs OBVIOUS
  <2>3. Covers(d, S)' BY <2>1, <2>2, CoversStays DEF Covers
  <2>4. CASE req'[r] = req[r]
    BY <2>1, <2>2, <2>3, <2>4 DEF Cleaned, RequestSweeps
  <2>5. ASSUME NEW t \in Tasks, Dispatch(r, t) PROVE Cleaned(d)'
    <3>1. task'[t] = [st |-> "queued", kind |-> req[r].op,
                      docs |-> req[r].docs, segs |-> req[r].segs]
      BY <2>5 DEF Dispatch
    <3>2. /\ task'[t].st = "queued" /\ task'[t].kind = "delete"
          /\ task'[t].docs = {d} /\ task'[t].segs = S
      BY <2>1, <2>2, <3>1
    <3>3. MessageSweeps(d)' BY <2>3, <3>2 DEF MessageSweeps
    <3>4. QED BY <3>3 DEF Cleaned
  <2>6. ASSUME NEW q \in Reqs, Commit(q) PROVE req'[r] = req[r]
    BY <2>1, <2>6 DEF Commit, CommitReindex, CommitDelete
  <2>7. ASSUME NEW q \in Reqs, RequestStep(q)
        PROVE  req'[r] = req[r] \/ \E t \in Tasks : Dispatch(r, t)
    BY <2>1, <2>7 DEF RequestStep, CreateDocuments, CheckReindex,
                      CheckDelete, Dispatch, LoseDispatch, Losses
  <2>8. ASSUME NEW w \in Workers, WorkerStep(w) PROVE UNCHANGED req
    BY <2>8
       DEF WorkerStep, TakeBuild, TakeDelete, DropVectors, DropKeywords,
           FinishBuild, Abandon, BuildStep, StartDocument, ClearAttempts,
           Vanished, PurgeRead, PurgeKeywords, PurgeVectors, PurgeRows,
           ResetDocument, StartParsing, StartSplitting, AddRows,
           StartIndexing, Stage, StartEmbedding, UpsertBatch, Publish,
           ReadForKeywords, AddKeywords, MarkError
  <2>9. ASSUME EnvironmentStep \/ UNCHANGED vars PROVE UNCHANGED req
    BY <2>9 DEF EnvironmentStep, Kill, Reject, Restart, Restore, Redeliver,
                LoseCounter, vars
  <2>10. QED
    BY <2>4, <2>5, <2>6, <2>7, <2>8, <2>9 DEF Next
<1>2. CASE MessageSweeps(d)
  <2>1. PICK t \in Tasks :
          /\ task[t].st = "queued" /\ task[t].kind = "delete"
          /\ task[t].docs = {d} /\ Covers(d, task[t].segs)
    BY <1>2 DEF MessageSweeps
  <2>2. PICK S : S = task[t].segs OBVIOUS
  <2>3. Covers(d, S)' BY <2>1, <2>2, CoversStays DEF Covers
  <2>4. CASE task'[t] = task[t]
    BY <2>1, <2>2, <2>3, <2>4 DEF Cleaned, MessageSweeps
  <2>5. ASSUME NEW w \in Workers, NEW e \in Docs, TakeDelete(w, t, e)
        PROVE  Cleaned(d)'
    <3>1. e = d BY <2>1, <2>5 DEF TakeDelete
    <3>2. job'[w] = [Idle EXCEPT !.pc = "dropVec", !.doc = d, !.mine = S]
      BY <2>2, <2>5, <3>1 DEF TakeDelete
    <3>3. job'[w].pc = "dropVec" /\ job'[w].doc = d /\ job'[w].mine = S
      BY <3>2 DEF Idle
    <3>4. WorkerSweeps(d)' BY <2>3, <3>3 DEF WorkerSweeps, CleaningUp
    <3>5. QED BY <3>4 DEF Cleaned
  <2>6. ASSUME NEW w \in Workers, InBuild(w) PROVE job[w].task # t
    BY <2>1, <2>6 DEF Consistent, JobAgrees
  <2>7. ASSUME NEW w \in Workers, FinishBuild(w) \/ Abandon(w) \/ Kill(w)
        PROVE  task'[t] = task[t]
    <3>1. InBuild(w)
      BY <2>7 DEF FinishBuild, Abandon, Kill, Building, InBuild, Losses,
                  BuildPcs
    <3>2. job[w].task # t BY <2>6, <3>1
    <3>3. QED BY <2>7, <3>2 DEF FinishBuild, Abandon, Kill, Ack
  <2>8. ASSUME NEW w \in Workers, NEW u \in Tasks,
               TakeBuild(w, u) \/ \E e \in Docs : TakeDelete(w, u, e)
        PROVE  task'[t] = task[t] \/ \E e \in Docs : TakeDelete(w, t, e)
    BY <2>1, <2>8 DEF TakeBuild, TakeDelete
  <2>9. ASSUME NEW w \in Workers, NEW e \in Docs,
               BuildStep(w, e) \/ DropVectors(w, e) \/ DropKeywords(w, e)
        PROVE  UNCHANGED task
    BY <2>9
       DEF DropVectors, DropKeywords, BuildStep, StartDocument,
           ClearAttempts, Vanished, PurgeRead, PurgeKeywords, PurgeVectors,
           PurgeRows, ResetDocument, StartParsing, StartSplitting, AddRows,
           StartIndexing, Stage, StartEmbedding, UpsertBatch, Publish,
           ReadForKeywords, AddKeywords, MarkError
  <2>10. ASSUME NEW w \in Workers, WorkerStep(w) PROVE Cleaned(d)'
    BY <2>4, <2>5, <2>7, <2>8, <2>9, <2>10 DEF WorkerStep
  <2>11. ASSUME NEW q \in Reqs, Commit(q) \/ RequestStep(q)
         PROVE  task'[t] = task[t]
    BY <2>1, <2>11
       DEF Commit, CommitReindex, CommitDelete, RequestStep,
           CreateDocuments, CheckReindex, CheckDelete, Dispatch,
           LoseDispatch
  <2>12. CASE EnvironmentStep
    <3>1. ASSUME NEW u \in Tasks, Restore(u) PROVE task'[t] = task[t]
      BY <2>1, <3>1 DEF Restore
    <3>2. ASSUME NEW u \in Tasks, NEW x \in Tasks, Redeliver(u, x)
          PROVE  task'[t] = task[t]
      BY <2>1, <3>2 DEF Redeliver
    <3>3. QED
      BY <2>4, <2>7, <2>12, <3>1, <3>2
         DEF EnvironmentStep, Reject, Restart, LoseCounter
  <2>13. CASE UNCHANGED vars BY <2>4, <2>13 DEF vars
  <2>14. QED BY <2>4, <2>10, <2>11, <2>12, <2>13 DEF Next
<1>3. CASE WorkerSweeps(d)
  <2>1. PICK w \in Workers :
          /\ CleaningUp(w) /\ job[w].doc = d /\ Covers(d, job[w].mine)
          /\ job[w].pc = "dropKw" => points[d] = {}
    BY <1>3 DEF WorkerSweeps
  <2>2. PICK S : S = job[w].mine OBVIOUS
  <2>3. Covers(d, S)'
    <3>1. Covers(d, S) BY <2>1, <2>2
    <3>2. QED BY <3>1, CoversStays DEF Covers
  <2>4. job[w].pc \notin BuildPcs \union {"next", "idle"}
    BY <2>1 DEF CleaningUp, BuildPcs
  <2>5. CASE job'[w] = job[w]
    <3>1. CleaningUp(w)' BY <2>1, <2>5 DEF CleaningUp
    <3>2. WorkerSweeps(d)'
      BY <1>b, <2>1, <2>2, <2>3, <2>5, <3>1 DEF WorkerSweeps
    <3>3. QED BY <3>2 DEF Cleaned
  <2>6. ASSUME NEW e \in Docs, DropVectors(w, e) PROVE Cleaned(d)'
    <3>1. e = d /\ points'[d] = {} /\ job' = [job EXCEPT ![w].pc = "dropKw"]
      BY <2>1, <2>6 DEF DropVectors, Goto, Losses
    <3>2. /\ job'[w].pc = "dropKw" /\ job'[w].doc = d /\ job'[w].mine = S
      BY <2>1, <2>2, <3>1 DEF JobType
    <3>3. WorkerSweeps(d)'
      BY <2>3, <3>1, <3>2 DEF WorkerSweeps, CleaningUp
    <3>4. QED BY <3>3 DEF Cleaned
  <2>7. ASSUME NEW e \in Docs, DropKeywords(w, e) PROVE Cleaned(d)'
    <3>1. /\ e = d /\ points'[d] = {}
          /\ kw'[d] = kw[d] \ S /\ job' = [job EXCEPT ![w] = Idle]
      BY <1>b, <2>1, <2>2, <2>7 DEF DropKeywords
    <3>2. kw'[d] = {} BY <2>1, <2>2, <3>1 DEF Covers
    <3>3. ASSUME NEW v \in Workers, At(v, d, "addKw")' PROVE FALSE
      <4>1. v # w /\ job[v].doc = d BY <3>1, <3>3 DEF At, Idle
      <4>2. QED
        BY <2>1, <4>1, ConstantsAssumption
           DEF DocumentsAlone, ConstantsAssumption
    <3>4. Swept(d)' BY <3>1, <3>2, <3>3 DEF Swept, Covers
    <3>5. QED BY <3>4 DEF Cleaned
  <2>8. ASSUME NEW v \in Workers, NEW e \in Docs, BuildStep(v, e)
        PROVE  job'[w] = job[w]
    <3>1. job[v].pc \in BuildPcs \union {"next"}
      BY <2>8
         DEF BuildStep, StartDocument, ClearAttempts, Vanished, PurgeRead,
             PurgeKeywords, PurgeVectors, PurgeRows, ResetDocument,
             StartParsing, StartSplitting, AddRows, StartIndexing, Stage,
             StartEmbedding, UpsertBatch, Publish, ReadForKeywords,
             AddKeywords, MarkError, At, BuildPcs
    <3>2. v # w BY <2>4, <3>1
    <3>3. QED
      BY <2>8, <3>2
         DEF BuildStep, StartDocument, ClearAttempts, Vanished, PurgeRead,
             PurgeKeywords, PurgeVectors, PurgeRows, ResetDocument,
             StartParsing, StartSplitting, AddRows, StartIndexing, Stage,
             StartEmbedding, UpsertBatch, Publish, ReadForKeywords,
             AddKeywords, MarkError, Goto
  <2>9. ASSUME NEW v \in Workers,
               FinishBuild(v) \/ Abandon(v) \/ Kill(v) \/ Reject(v) \/
               (\E t \in Tasks : TakeBuild(v, t)) \/
               (\E t \in Tasks, e \in Docs : TakeDelete(v, t, e))
        PROVE  job'[w] = job[w]
    <3>1. job[v].pc \in BuildPcs \union {"next", "idle"}
      BY <2>9 DEF FinishBuild, Abandon, Kill, Building, Reject, TakeBuild,
                  TakeDelete, Losses, BuildPcs
    <3>2. v # w BY <2>4, <3>1
    <3>3. QED
      BY <2>9, <3>2 DEF FinishBuild, Abandon, Kill, Ack, Reject, Goto,
                        TakeBuild, TakeDelete
  <2>10. ASSUME NEW v \in Workers, NEW e \in Docs, v # w,
                DropVectors(v, e) \/ DropKeywords(v, e)
         PROVE  job'[w] = job[w]
    BY <2>10 DEF DropVectors, DropKeywords, Goto
  <2>11. ASSUME NEW v \in Workers, WorkerStep(v) PROVE Cleaned(d)'
    BY <2>5, <2>6, <2>7, <2>8, <2>9, <2>10, <2>11 DEF WorkerStep
  <2>12. ASSUME NEW q \in Reqs, Commit(q) \/ RequestStep(q)
         PROVE  UNCHANGED job
    BY <2>12
       DEF Commit, CommitReindex, CommitDelete, RequestStep,
           CreateDocuments, CheckReindex, CheckDelete, Dispatch,
           LoseDispatch
  <2>13. CASE EnvironmentStep \/ UNCHANGED vars
    BY <2>5, <2>9, <2>13
       DEF EnvironmentStep, Restart, Restore, Redeliver, LoseCounter, Losses,
           vars
  <2>14. QED BY <2>5, <2>11, <2>12, <2>13 DEF Next
<1>4. CASE Swept(d)
  <2>1. Covers(d, {})' BY <1>4, CoversStays DEF Swept, Covers
  <2>2. QED BY <1>b, <1>4, <2>1 DEF Swept, Cleaned
<1> QED BY <1>1, <1>2, <1>3, <1>4 DEF Cleaned

\* The deletion that is committed has collected what is stored.
LEMMA DeletionBegins ==
    ASSUME Losses \intersect Faults = {}, TypeOK, Contents, CheckedIsFresh,
           [Next]_vars, NEW d \in Docs, ~Gone(d), Gone(d)'
    PROVE  RequestSweeps(d)'
<1>a. /\ status \in [Docs -> Statuses] /\ req \in [Reqs -> ReqType]
      /\ Stored(d) /\ CleanUps
  BY DEF TypeOK, Contents
<1>1. PICK r \in Reqs : CommitDelete(r, d)
  <2>1. status'[d] # status[d] /\ status'[d] \notin {"waiting", "error"}
    BY DEF Gone
  <2>2. ~Untouched(d) /\ ~Created(d) /\ ~Reindexed(d) /\ ~Recovered(d)
        /\ ~CleanedUp(d)
    BY <2>1 DEF Untouched, Created, Reindexed, Recovered, CleanedUp
  <2>3. ~Built(d)
    BY <2>1, BuildFrame DEF Built, Gone, Processing, Terminal
  <2>4. Deleted(d) BY <1>a, <2>2, <2>3, WhoTouches
  <2>5. ASSUME NEW q \in Reqs, NEW e \in Docs, CommitReindex(q, e)
        PROVE  status'[d] \in {status[d], "waiting"}
    BY <1>a, <2>5 DEF CommitReindex, Write
  <2>6. ASSUME NEW q \in Reqs, NEW e \in Docs, e # d, CommitDelete(q, e)
        PROVE  status'[d] = status[d]
    BY <1>a, <2>6 DEF CommitDelete, Write
  <2>7. ASSUME NEW q \in Reqs, RequestStep(q)
        PROVE  status'[d] \in {status[d], "waiting"}
    BY <1>a, <2>7 DEF RequestStep, CreateDocuments, CheckReindex,
                      CheckDelete, Dispatch, LoseDispatch, db
  <2>8. ASSUME NEW w \in Workers, NEW e \in Docs, BuildStep(w, e)
        PROVE  status'[d] = status[d]
    <3>1. CASE e # d BY <2>8, <3>1, OtherDocuments
    <3>2. CASE job[w].pc \in {"next", "clear"}
      BY <2>8, <3>2
         DEF BuildStep, StartDocument, ClearAttempts, Vanished, PurgeRead,
             PurgeKeywords, PurgeVectors, PurgeRows, ResetDocument,
             StartParsing, StartSplitting, StartIndexing, Stage, AddRows,
             StartEmbedding, UpsertBatch, Publish, ReadForKeywords,
             AddKeywords, MarkError, At, db
    <3>3. QED BY <2>3, <2>8, <3>1, <3>2 DEF Built
  <2>9. ASSUME NEW w \in Workers, WorkerStep(w)
        PROVE  status'[d] = status[d]
    BY <2>8, <2>9 DEF WorkerStep, TakeBuild, TakeDelete, DropVectors,
                      DropKeywords, FinishBuild, Abandon, db
  <2>10. ASSUME EnvironmentStep \/ UNCHANGED vars
         PROVE  status'[d] \in {status[d], "error"}
    BY <1>a, <2>10 DEF EnvironmentStep, Kill, Reject, Restart, Restore,
                       Redeliver, LoseCounter, db, vars
  <2>11. QED
    BY <2>1, <2>5, <2>6, <2>7, <2>9, <2>10 DEF Next, Commit
<1>2. PICK S : S = rows[d] OBVIOUS
<1>3. /\ req[r].pc = "checked" /\ req[r].op = "delete" /\ req[r].docs = {d}
      /\ req' = [req EXCEPT ![r].pc = "dispatch"]
      /\ UNCHANGED <<points, kw, job>>
  BY <1>1 DEF CommitDelete, index
<1>4. status[d] \in Terminal /\ req[r].segs = S
  BY <1>2, <1>3 DEF CheckedIsFresh
<1>5. Exists(d) BY <1>4 DEF Exists, Terminal
<1>6. Covers(d, S)
  BY <1>2, <1>5, <1>a DEF Covers, Stored, At, Contents, Relies
<1>7. Covers(d, S)' BY <1>3, <1>6 DEF Covers, At
<1>8. /\ req'[r].pc = "dispatch" /\ req'[r].op = "delete"
      /\ req'[r].docs = {d} /\ req'[r].segs = S
  BY <1>a, <1>3, <1>4 DEF ReqType
<1> QED BY <1>7, <1>8 DEF RequestSweeps

LEMMA DeletionsStep ==
    ASSUME Losses \intersect Faults = {}, TypeOK, TypeOK', Consistent,
           Consistent', Contents, Deletions, DocumentsAlone, [Next]_vars
    PROVE  Deletions'
<1>1. CheckedIsFresh' BY CheckedStep DEF Deletions
<1>2. \A w \in Workers : StatusAt(w)'
  BY StatusStep DEF Deletions, Contents
<1>3. ASSUME NEW d \in Docs, Gone(d)' PROVE Cleaned(d)'
  <2>1. CASE Gone(d) BY <2>1, CleanedStays DEF Deletions, Contents
  <2>2. CASE ~Gone(d) BY <1>3, <2>2, DeletionBegins DEF Deletions, Cleaned
  <2>3. QED BY <2>1, <2>2
<1> QED BY <1>1, <1>2, <1>3 DEF Deletions

LEMMA AloneBuilds == Consistent /\ DocumentsAlone => BuildsAlone
<1> SUFFICES ASSUME Consistent, DocumentsAlone,
                    NEW v \in Workers, NEW w \in Workers,
                    job[v].pc \in Indexing, job[w].pc \in Indexing,
                    job[v].doc = job[w].doc
             PROVE  v = w
  BY DEF BuildsAlone
<1>1. job[v].pc \in BuildPcs BY DEF Indexing
<1>2. JobAgrees(v) BY DEF Consistent
<1>3. job[v].task \in Tasks /\ task[job[v].task].kind = "build"
      /\ job[v].doc \in task[job[v].task].docs
  BY <1>1, <1>2 DEF JobAgrees, InBuild
<1>4. job[v].doc \in Docs BY <1>3 DEF Consistent, OneDocument
<1>5. job[v].doc # None
  BY <1>4, ConstantsAssumption DEF ConstantsAssumption
<1> QED BY <1>5 DEF DocumentsAlone

\* A deleted document leaves neither vectors nor keyword entries once its
\* clean-up is worked off, whatever was killed, rejected or delivered twice
\* before: the deletion names every entry, also those of a build that has
\* published the document and not yet written its keywords.
THEOREM DeletedLeavesNothing ==
    SingleUploads /\ Losses \intersect Faults = {} =>
        (Spec /\ []DocumentsAlone => []DeletedIsClean)
<1> SUFFICES ASSUME SingleUploads, Losses \intersect Faults = {}
             PROVE  Spec /\ []DocumentsAlone => []DeletedIsClean
  OBVIOUS
<1> DEFINE J == TypeOK /\ Consistent /\ ProcessingCarried
<1>1. Spec => []J BY ProcessingInvariant
<1>2. Spec /\ []BuildsAlone => []Contents
  BY ContentsInvariant DEF Assumptions, Losses
<1>3. J /\ DocumentsAlone => BuildsAlone BY AloneBuilds
<1>4. Init => Deletions
  BY DEF Init, Deletions, CheckedIsFresh, StatusAt, Gone, NoReq, Idle
<1>5. J /\ J' /\ Contents /\ DocumentsAlone /\ Deletions /\ [Next]_vars
        => Deletions'
  BY DeletionsStep
<1>6. TypeOK /\ Deletions => DeletedIsClean
  <2> SUFFICES ASSUME TypeOK, Deletions, NEW d \in Docs, Gone(d),
                      \A r \in Reqs : d \notin req[r].docs,
                      \A t \in Tasks : d \notin task[t].docs,
                      \A w \in Workers : job[w].doc # d
               PROVE  points[d] = {} /\ kw[d] = {}
    BY DEF DeletedIsClean, Gone
  <2>1. Cleaned(d) BY DEF Deletions
  <2>2. Swept(d)
    BY <2>1 DEF Cleaned, RequestSweeps, MessageSweeps, WorkerSweeps
  <2>3. QED BY <2>2 DEF Swept, Covers
<1> HIDE DEF J
<1>7. J => TypeOK BY DEF J
<1> QED BY <1>1, <1>2, <1>3, <1>4, <1>5, <1>6, <1>7, PTL DEF Spec

\* With one pool child (CELERY_CONCURRENCY = 1) nobody is ever busy with the
\* document of another.
COROLLARY OneWorkerDeletesCleanly ==
    ASSUME NEW only, Workers = {only}, SingleUploads,
           Losses \intersect Faults = {}
    PROVE  Spec => []DeletedIsClean
<1>1. DocumentsAlone BY DEF DocumentsAlone
<1>2. Spec /\ []DocumentsAlone => []DeletedIsClean BY DeletedLeavesNothing
<1> QED BY <1>1, <1>2, PTL

\* With one pool child the contents theorem needs no assumption on behaviours
\* either: whatever is killed, restarted, repeated or rejected, a completed
\* document that nothing builds is whole in all three stores.
COROLLARY OneWorkerCompletesWhole ==
    ASSUME NEW only, Workers = {only}, Assumptions, "mark" \notin Faults
    PROVE  Spec => [](SettledHasVectors /\ SettledHasKeywords
                      /\ NoDuplicateSegments)
<1>1. BuildsAlone BY DEF BuildsAlone
<1>2. Spec /\ []BuildsAlone => [](SettledHasVectors /\ SettledHasKeywords)
  BY CompletedIsWhole
<1>3. Spec /\ []BuildsAlone => []NoDuplicateSegments BY OneSplitIsLeft
<1> QED BY <1>1, <1>2, <1>3, PTL

=============================================================================
