# A verification development for linming_llmops

TLA+ models of the concurrent and failure-prone parts of the platform, the TLC
runs that check them on small instances, and TLAPS proofs of the properties
that matter most, for every value of the constants.  Paths are relative to the
repository; `B` stands for `src/backend/internal`, `F` for
`src/frontend/src`.

Contents: 1 the system, 2 what is hard about it, 3 the modules, 4 the runs,
5 where the code and its documentation disagree, 6 the proofs, 7 what is not
covered, 8 the plan.

## 1. The system

A Flask application (gunicorn, 2 processes of 4 threads) and a Celery worker
(prefork, 5 children) share MySQL 8, Redis and Qdrant; a React application
talks to Flask over JSON and server-sent events.  MySQL runs at its default
isolation level (REPEATABLE READ), SQLAlchemy expires every attribute at a
commit, and Celery uses Redis as its broker with a visibility timeout of one
hour.

| Component | Code | State it keeps | Operations | Talks to |
|---|---|---|---|---|
| Document indexing pipeline | `B/service/indexing_service.py`, `document_service.py`, `B/task/document_task.py`, `recovery.py` | `ai_document`, `ai_segment`, attempt counter in Redis | upload, rebuild, delete (web); build, clean up (worker); recovery at boot | broker, Qdrant, keyword table |
| Keyword table | `B/service/keyword_table_service.py` | one JSON row per dataset, a Redis lock | add, delete, get or create | called by web threads and by workers |
| Manual maintenance | `B/service/segment_service.py`, switches in `document_service.py` and `indexing_service.py` | the same rows, payload flags of points, counts of the document | create, edit, switch, delete a segment; switch a document | Qdrant, keyword table, broker |
| Retrieval | `B/service/retrieval_service.py`, `B/core/retrievers` | none (hit counts) | semantic, full-text and hybrid search | Qdrant, keyword table, `ai_segment` |
| Model channels | `B/core/language_model/channel_router.py` | failure counts and cool-down keys in Redis | choose, call, record success or failure | chat, workflow, assistant |
| Model catalogue | `language_model_manager.py`, `llm_admin_service.py`, `llm_seed_service.py` | a catalogue per process, a version in Redis | reload, bump, instantiate | database, Redis |
| Quotas | `B/service/quota_service.py` | window counters in Redis, row counts | check, record | every creating request |
| Chat rounds | `_agent_runtime.py`, `chat_service.py`, `conversation_service.py`, `assistant_agent_service.py`, `openapi_service.py`, `B/task/conversation_task.py` | conversations, messages, thoughts, registered rounds | stream, stop, persist, summarise, name, delete | agent, models, broker |
| Agent loop | `B/core/agent` | the message list of a round | call the model, call tools | model channels, tools |
| Workflows | `workflow_service.py`, `B/core/workflow` | draft and published graph, debug flag, results | edit, debug, publish, withdraw; validate and run a graph | nodes, agents (as tools) |
| Applications | `app_service.py`, `app_config_service.py` | draft, published and historic configurations, store listing | edit, publish, withdraw, fall back, list, copy | chat, workflows, datasets |
| Accounts and access | `account_service.py`, `jwt_service.py`, `api_key_service.py`, `B/middleware` | accounts, tokens, keys | log in, refresh, check | every request |
| Tools, images, uploads | `B/core/tools`, `api_tool_service.py`, `image_generation_service.py`, `upload_file_service.py` | rows per tool, image, file | call an outside service | agents, workflows |
| Frontend: session | `F/lib/http` | the one refresh in progress | refresh once for many requests, log out | accounts |
| Frontend: workflow editor | `F/features/workflow/editor` | graph, dirty flag, timer | edit, save after a pause, flush | workflows |
| Frontend: chat stream | `F/features/chat`, `F/lib/sse` | messages of a round | apply events, stop | chat rounds |

What makes each correct: a completed document is exactly its rows, vectors and
keyword entries, once; no document is stuck; concurrent callers lose no keyword
entry; a search finds exactly what is enabled; a failing channel is skipped and
comes back, and a stream never mixes two channels; a process serves the newest
catalogue it could know of; a quota is not exceeded by its window; a round is
stored once, with what was streamed, and a stopped round ends; a published
workflow is the graph that passed its debug run; a valid graph runs every node
once, after its inputs; a published application has a configuration and a
history without gaps; one refresh serves all waiting requests; the last edit
made is the one the server keeps.

| Module | Composes | Proofs |
|---|---|---|
| `DocumentIndexing` | requests, broker, workers, the three stores of a document | `DocumentIndexingProofs` |
| `KeywordTable` | implements `AtomicKeywordTable` | `KnowledgeSyncProofs` |
| `KnowledgeSync` | manual maintenance, switches and their task, retrieval | `KnowledgeSyncProofs` |
| `ChannelRouter` | callers, channels, circuit breaker | `ChannelRouterProofs` |
| `ModelCatalog` | processes, threads, administrators | `ModelCatalogProofs` |
| `ChatRound` | generators, stop requests, clients; implements `Round` | `ChatRoundProofs` |
| `Conversations` | the rounds of many conversations and the tasks after them | `ConversationsProofs` |
| `Workflow` | row, requests and runs, over the graphs of `WorkflowGraph` | `WorkflowProofs` |
| `AppStore` | applications, store, plugins | `AppStoreProofs` |

## 2. What is hard about it

`PROJECT.json` lists every hazard at its line.  The classes are

* steps of several stores without a common transaction (MySQL, Qdrant, the
  keyword row, the broker), each of which can be the last one before a crash;
* Celery's two delivery modes: builds are acknowledged late and delivered
  again, everything else is acknowledged when taken and lost with its worker;
* snapshots: the first SELECT after a commit fixes what later ones see, so a
  lock taken afterwards protects a stale read;
* checks that a commit comes too late for (status of a document, window of a
  quota, version of a draft);
* loops of crash and redelivery that only a counter ends;
* streams: a client that leaves, a stop request that comes early, a model that
  fails in mid-stream.

## 3. The modules

### DocumentIndexing

The life of documents from upload to deletion.  One step is one commit or one
call to an outside store; between two steps a worker holds what the Python
frame holds.

| Variable | Code |
|---|---|
| `status`, `enabled` | `ai_document.status`, `.enabled`; "none" and "deleted" for no row |
| `rows`, `live` | `ai_segment` rows of a document; those enabled and completed |
| `points`, `kw` | its Qdrant points; its segments in the keyword table |
| `attempts` | `ai:doc_build_attempt:{id}` |
| `task` | broker messages: queued, or leased to a child (unacknowledged) |
| `job` | the frame of each pool child: place, documents left, segments at hand |
| `req` | the frame of each console request, between check, commit and `.delay()` |
| `unmarked` | history variable: documents whose last failure could not be recorded |

Requests are `CreateDocuments`, `CheckReindex`/`CommitReindex`,
`CheckDelete`/`CommitDelete`, then `Dispatch`.  `TakeBuild` begins
`build_documents`; `StartDocument` is the attempt counter; `PurgeRead` to
`PurgeRows` are `_purge_partial`; `StartParsing` to `AddRows` are the stages of
`_build_one` and `_split`; `StartEmbedding` to `Publish` are `_complete`;
`ReadForKeywords` and `AddKeywords` are `_index_keywords`; `MarkError`,
`Abandon` and `ClearAttempts` are the ends a build can take.  `TakeDelete`,
`DropVectors`, `DropKeywords` are the clean-up task.  What the environment may
do is the constant `Faults`: a rejected file, an unreachable Redis (for the
attempt counter, to count or to clear it) or Qdrant, a commit of `_mark_error`
that fails and is only rolled back, a killed child, a restarted container (with
`recover_stuck_documents`), a second delivery after the visibility timeout, a
lost dispatch, and requests whose check and commit are not adjacent.

### AtomicKeywordTable and KeywordTable

`AtomicKeywordTable` is the promise: a call adds or removes its own segments at
one instant.  `KeywordTable` is the service: `Begin` (the caller evaluates its
arguments, and with that may open its transaction), `Acquire`, `Find`, `Create`
and `Refresh` (`get_or_create`), `Change`, `Release`, with lock expiry, killed
callers and a dataset deleted under them.  `Isolation` is the database's
isolation level.  `Atomic` says that the service implements the promise, under
the refinement mapping `Promise`.

### KnowledgeSync

One completed document under manual maintenance.  A request's first step checks
and commits; the rest of it is a list `todo` of the stores it has still to
visit, in the order of the code, each of them one step.  The worker's task
`update_document_enabled` loads the rows once (`TakeSwitch`), sets the flags of
the points (`SwitchPoints`) and then writes the keyword table
(`SwitchKeywords`).  A `view` is the snapshot a transaction reads from: the
keyword table is written back from it, as `KeywordTable` shows in detail.
`SemanticHits` and `FullTextHits` are the filters of the two retrievers,
`Hits` the strategies made of them, `HitTest` and `ChatHits` what the console
and a conversation find.
`overlapped` and `lost` are history variables: they record that two requests or
tasks have been in progress at a time and that a switch was lost with its
carrier; nothing in the model depends on them.

### ChannelRouter

Calls to a provider with several channels, and the circuit breaker they share.
One step is one Redis command or one upstream answer.

| Variable | Code |
|---|---|
| `well` | whether an upstream channel is in order (environment) |
| `fails`, `open` | `ai:llm:chan:<id>:fails`, `:disabled` |
| `call` | a frame of `FailoverChatModel.stream` or `ChannelRouter.run`, with how it ended |

`LookAt` and `Admit` are `filter_live`; `Answer`, `FirstChunk`, `Reject`, `Fail`
are what a candidate can do, `Break`, `EndStream`, `CloseStream` what happens to
a stream after its first chunk; `Count` and `Trip` are `record_failure`,
`RecordSuccess` is `record_success`; `CoolDown` and `ForgetFails` are the
expiry of the keys, `Recover` the console's button.  `ChannelError` is
`is_channel_error` as the answers of the providers reach it.  The constant
`Rejects` says which requests an upstream may refuse for their contents.

### ModelCatalog

`config` is the number of edits committed to MySQL and `version` the counter in
Redis; a process has `copy` (the edit its `_cache` was read after), `held`
(`_version`), `recent` (the eight-second window) and `lock`.  A request goes
through `_ensure_loaded` (`FindCurrent`, `Lock`, `ReadVersion` or
`MissVersion`, `Reload` or `FailReload`, `Store`), then through `instantiate`
or `_dispatch`, whose choice of a model, a channel list or the default is
`Resolve`, `Served` and `Dispatched` over the rows `Catalogue[n]`. An edit is
`Commit` and then `Bump`.  `snap` is the snapshot of a request's transaction.
`Begin` fixes it when the request authenticates, as its account's row is the
first one read (`middleware.py:47`, `:71`); only a node of a workflow that runs
in a thread of its own (`base_node.py:28`) comes with a transaction that has
read nothing, and its snapshot is the one of the load.  `since` is a history
variable: the version in Redis at the time the snapshot was fixed, of a request
and of the one that loaded a process's copy.

### Round and ChatRound

`Round` is what a round promises to whoever reads its row afterwards: opened
once, closed at most once with all that was said by then, nothing said after,
and announced to the after-round tasks only when closed, once.  `ChatRound` is
the code that keeps this promise, for several rounds of one conversation.

| Variable | Code |
|---|---|
| `gen` | the generator of a streamed round, or the request of a synchronous one: its place, pieces said, tool calls, status |
| `row` | `ai_message`: status, answer, order; `closed` is "its latency and counts are filled in" |
| `out` | the frames sent so far: stop or error, and `agent_end` |
| `hist` | the turns `history_for_llm` gave each prompt |
| `belong`, `stopped` | `agent_task_belong:`, `agent_task_stopped:` keys |
| `found`, `asked` | stop requests between their GET and SET, and those made |
| `gone`, `sent`, `deleted` | clients that left, dispatched after-round tasks, soft-deleted rows |

`Ask`, `Append`, `SetUp` are the request (`_stream`, `_complete`); `Register`
and `NotStarted` what happens at the ping, before the `try`; `Say`, `Act`,
`Halt`, `Fail`, `Finish` the loop over the model's events, `Answer` the
synchronous call; `Exit` is the GeneratorExit a generator gets, at a frame,
when the server finds the client gone; `Final`, `Persist`, `Enqueue`, `Clear`,
`End` are the `finally`.  `Find` and `SetStop` are `request_stop`.  Answers are
counted in pieces; since frames arrive in order, a client has always seen a
prefix of what was sent, and all of it when it sees `agent_end`.

### Conversations

`ChatRound` has the inside of a round; here a round is open or closed, and the
questions are which conversation it belongs to and what remains of it.

| Variable | Code |
|---|---|
| `convs`, `live` | `ai_conversation`: kind (`invoke_from`), end user, title, summary; those not deleted |
| `rounds` | `ai_message`: conversation, who asked, whether the owner named the conversation, whether the memory is on, status, hidden |
| `tasks` | the message of `ai.after_round` for each round, and the summary it has read |
| `met` | history variable: conversations on which two writers have overlapped |

`Chat`, `Assist` and `Serve` are the three ways to ask; `InSight` is what
`get_or_create_*` look among.  A conversation that a request of the owner's
names is checked for its owner and its application only
(`chat_service.py:229-232`, `:244-247`), so `Prepared` lets the preview and the
published chat continue one of any kind (`AppKinds`); that an end user names is
checked for its kind and for him as well (`OfEndUser`).  A request looks its
conversation up, then fetches attachments, then inserts the row: as every
conversation is the latest one when it is opened, a request that is slow enough
continues any one in sight, deleted ones too, or opens another because it saw
none.  This is why recency is no part of the state.  `Start`, `Name`,
`StayUnnamed`, `Remember`, `Fail` are the task; it is acknowledged when it is
taken, so that `Fail` covers a model that does not answer and a child that is
killed.  A summary is the sequence of rounds that went into it.

### WorkflowGraph and Workflow

`WorkflowGraph` is the graph as the service stores it.  `Lenient` is
`_validate_graph`, which drops what does not fit, item by item; `Strict` is
`WorkflowConfig.validate_workflow_config` with its algorithms over the two
adjacency lists: `OnePole` (degrees), `Connected` (breadth-first search),
`Cyclic` (Kahn), `Predecessors` (depth-first search) and `RefsHold`.
`WellFormed` says in graph theory's words what they should amount to, from
`Way` (every set that holds m and that no edge leaves holds n) and `Acyclic`;
`WaysArePaths` proves that a way is a path as the community module `Graphs` has
it.  A node's class is the outputs it declares (`AsClass`).

`Workflow` is the row, the requests on it and the debug runs.

| Variable | Code |
|---|---|
| `wf` | `ai_workflow`: draft and published graph, status, `is_debug_passed` |
| `req` | `Save`, `Publish`: the view they read and the row they will write, until `Commit` |
| `run` | a debug run: the generator of `debug_workflow`, LangGraph's superstep (`active`, `wrote`), the blackboard (`seen`), its result row |
| `used` | the day's counter of debug runs in Redis |
| `tested`, `doubt` | history variables: graphs that a run has executed to its end, and what came in between: clients that left, saves that met the end of a run, publications that overlapped |

`Ready` and `Advance` are LangGraph as `WorkflowTool._build_workflow` uses it: the
edges into a node are one with several sources, and what a superstep's nodes
write shows when all of them have ended.  `NodeEnds`, `NodeFails`, `CodeHangs`,
`CodeTimesOut` are the nodes, `Writes` what each kind of them writes.
`ClientLeaves` is the GeneratorExit of a closed stream, `DebugIsLost` a process
that dies or a last commit that fails.  `Flush` is SQLAlchemy's unit of work: a
commit writes the columns that differ from what the request read.

### AppStore

| Variable | Code |
|---|---|
| `apps` | `ai_app`: owner, status, pointer to what serves, token, draft, where it was copied from |
| `hist` | `ai_app_config` with `ai_app_config_version`, in the order of publication |
| `store` | `ai_public_app`: an entry and its copy of a configuration |
| `tools`, `plugin` | `ai_api_tool`: who made each; the one each user's plugin has now |
| `req` | a request between its snapshot and its commit; `AddToMe` between its two |
| `met` | history variable: applications on which two requests have overlapped |

A request is what it is going to write (`SaveDraft`, `Fallback`, `Publish`,
`CancelPublish`, `SetPublic`, `SetPrivate`), computed from one snapshot, and the
commit that writes it (`Saved`, `Rewritten`, `Published`, ...).  `AtOnce` is
one that nothing interrupts; `Begin`, `Commit` and `RollBack` let others commit
in between.  A configuration is the set of references it holds: builtin tools,
tools of a plugin, knowledge bases or workflows of a user (`Dataset`: both are
cleaned alike).  `Validated` is what a draft is after the service's check,
`Sanitize` what the store keeps, `Resolved` what a conversation gets.

### The MC modules

`MCDocumentIndexing`, `MCKeywordTable` and `MCKnowledgeSync` add the sets of
uploads and the symmetry sets, `MCChannelRouter` the order of the channels,
`MCModelCatalog` the threads' processes and three successive catalogues,
`MCChatRound` the owner of the rounds and how each is answered, `MCWorkflow` the
graphs an editor may send, `MCAppStore` and `MCConversations` the symmetry sets.
Symmetry is used for runs without a temporal property that needs fairness, and
only over sets of interchangeable ids.

## 4. The runs

| Run | Instance | What it shows |
|---|---|---|
| `idx_recovery` | 1 document, 4 segments, splits of up to 2, 1 worker, 2 messages, 2 requests; killed child, restart, rejected stage, lost Redis, lost dispatch, racing requests | a completed document that nothing builds has exactly the rows, vectors and keyword entries of one split, and is published whole |
| `idx_faults` | 1 document, 2 segments, 2 workers, all faults but a lost dispatch and a failing attempt counter | a document in process, or waiting, always has a message that will build it, or a failure that could not be recorded |
| `idx_live` | 1 document, 1 worker, kills, rejected stages and failures that go unrecorded, with fairness | every build ends, in a terminal state if its failure could be recorded; a deleted document leaves nothing behind |
| `kw_cleanups` | 3 callers, 2 segments, killed callers, deleted dataset, with fairness | clean-ups are atomic, and every waiter gets the lock |
| `sync_search` | 1 segment, 2 contents, 1 request at a time, 1 worker, 2 waiting messages, with fairness | edits show at once in a semantic search, the counts are right, switches take effect, the keyword table is exact when nothing overlaps |
| `route_failover` | 2 callers, 2 channels (the first one with outages), threshold 2, failing Redis, refused chat requests, with fairness | the sound channel stays on and is always reached, a stream is one channel's, a repaired channel is used again, calls end |
| `cat_edits` | 1 process with 2 threads, 2 administrators, 2 edits, all faults, with fairness | a copy has what its version announces, never goes back and follows every announced edit, unless the request that loads it had read a row before that edit was announced; the default model stands in |
| `round_serve` | 1 streamed round (agent or plain) and 1 synchronous one of a conversation, answers of up to 2 pieces, history of 1 turn, 2 accounts, all faults, with fairness | what the client was shown is stored, a row says why its round ended, history is settled when read, a generator that has started closes its row, and the rounds implement `Round` |
| `wf_life` | drafts: every graph over a start, a model node, a code node and an end with six possible edges and three ways to refer, and 15 lists with all kinds of nodes or of mistakes, then a second save; 1 request and 2 debug runs in progress, 1 of them counted, with fairness | the strict check accepts exactly the well-formed graphs; a run executes every node, after what it reads; what is published has been run; every run ends |
| `wf_gate` (violation) | the same | the gate is lit by a run that its client left (section 5) |
| `app_store` | 2 users, 2 applications, one of which is edited, published and listed; 2 saves, 2 publications, 1 entry, 1 plugin tool, 1 request in progress while others commit | the store has what serves, without private references; no tool of another user; versions without gaps |
| `conv_memory` | 2 end users, 2 conversations, 2 rounds, 1 change by hand | no round is remembered twice; a memory has its rounds and a title stays, unless two writers met; what is said to one party stays with it, unless the owner names a conversation of another kind |

Bounds.  A document's contents interact only through its own segments, so one
document with four segment ids (an old and a new split of two) reaches every
mixture of an interrupted and a repeated build; a batch of two documents is
needed only for what one document's failure does to another (section 5).  `MaxAttempts` is 1 or 2 where the code has a small constant: what matters
is that the counter passes its limit.  Two messages are enough for a message
and its copy, two workers for two overlapping builds.  Three callers of the
keyword table are one who holds the lock and two who compete.  In
`sync_search` the points of different segments are never written by one
request, and the keyword rows of different segments meet only in overlapping
write-backs, which its property excludes: one segment that is there from the
beginning, or is created, edited, switched and deleted, is enough.  Two waiting
messages are a switch and its reversal.  In `route_failover` one channel with
outages and one without are the two kinds there are; two callers are enough for
one to count while the other succeeds, and a threshold of two for a count that
is not yet a mark.  Counts stop at the threshold, the only value they are
compared with.  In `cat_edits` processes share nothing but MySQL and Redis, and
another process only reads those: one process with two threads has every
interleaving at the lock.  Two edits are one that is loaded and one that comes
in between; the three catalogues are a full one, one whose second provider has
lost its channel, and one without that provider and the default model.  In
`round_serve` rounds meet only in the history one reads of another: a streamed
round, which takes all the paths, beside a synchronous one, in either order,
has every such meeting; two pieces are one before and one after a check of the
stop flag, and a history of one turn has to leave another out.  In `wf_life`
four nodes are the fewest with parallel branches, a cycle beside the way and a
node off the way; a second save is what a run or a publication can overlap.
Two debug runs are one that ends after the other, or one within the limit and
one over it.  In `app_store` copying, deletion and ownership need a second
application, everything else relates one application to its own entry and
history; an entry is inserted once, so that a request in progress cannot find
another under its number.  Two users and one plugin tool are an owner and a
stranger.  In `conv_memory` two rounds are the fewest whose tasks overlap, in
one conversation or in two of different kinds; the properties also hold with
one conversation and three rounds (`MaxConvs = 1`, `MaxRounds = 3`, 684 thousand
states).

The type invariants are theorems.  The one of `Workflow` is checked by `wf_life` as
well, because it says
something of the code: a stored draft is a fixed point of the lenient check, so
that loading the editor does not change it.

Deadlock is not checked in the `idx_`, `kw_`, `sync_`, `wf_`, `app_` and `conv_`
runs: these systems really stop, when what there is has been deleted (ids are
not used again) or the ids are used up.  It is checked in the others.

Fairness.  Requests that have begun and living workers go on (weak fairness of
their steps): threads and children are scheduled by the operating system.  In
`DocumentIndexing` a killed child is a build killed for its memory; the short
steps around it (taking the next document, marking an error, clearing the
counter, acknowledging) are therefore not killed for ever, which is strong
fairness of these steps, and they are all that the counter's argument needs.
In `KeywordTable` waiters poll for the lock and Redis removes expired keys:
strong fairness of `Acquire`, weak fairness of `Expire`.  In `ChannelRouter`
upstream calls and Redis commands return, by their time-outs if need be, and
the disabled mark has a time to live: weak fairness of a call's steps and of
`CoolDown`; an outage need not end.  `ModelCatalog` is the one model in which
requests must keep coming (weak fairness of `Begin`), as a process that is
never asked for a model never looks at the version; the lock, Redis and the
database are available again and again (strong fairness of `Lock`,
`ReadVersion` and `Reload`), and eight seconds pass.  In `ChatRound` the web
server asks a generator for its next frame or closes it, and the calls it waits
on return (weak fairness of `Advance`).  In `Workflow` the server asks a
generator for its next frame or closes it, and every call a node makes has a
time limit (weak fairness of a run's steps; a hung code node is ended by
`CodeTimesOut` only).  Elsewhere nothing is
assumed about requests beginning, uploads, or failures.

## 5. Where the code and its documentation disagree

* `wf_gate` (`workflow_service.py:209-245`): `gen()` begins with `run_status`
  SUCCEEDED, and only `except Exception` sets it to FAILED.  A client that
  closes the stream raises GeneratorExit at the `yield`, which is no
  `Exception`; the `finally` then lights `is_debug_passed` and stores the run
  as succeeded.  The header of the service has the gate lit by a run that came
  through (`workflow_service.py:5`, `model/workflow.py:54`).

These were found on instances that are no longer among the runs; the change to
a cfg that shows each is in parentheses.

* Two rebuild requests can both pass the status check; their builds overlap in
  two children and both sets of segments stay, although `reindex_document`
  (`document_service.py:174`) promises that a repeated build makes no
  duplicates.  The same happens when the visibility timeout delivers a build
  that still runs (`idx_recovery` with `Workers = {w1, w2}`, three messages and
  `Faults = {}`: `NoDuplicateSegments`).
* Every caller of the keyword table but the clean-up task reads before it has
  the lock, and the SELECT inside the lock is answered from that snapshot: what
  others wrote in between is overwritten, although
  `keyword_table_service.py:3` has the lock prevent just that (`kw_cleanups`
  with `Ops = {"add"}`: `Atomic`).
* `_generate_images` raises a `RuntimeError` without a status code for a
  refused request, which `is_channel_error` takes for a failure of the channel.
  A request with a bad size is tried on every channel, and a few of them
  disable channels that are in order, for chats as well, although
  `channel_router.py:9` has such requests raised at once.  An error in
  mid-stream is not classified at all and does the same (`route_failover` with
  `Rejects = {"first", "image"}`: `SoundStaysOn`, `SoundChannelServes`).
* `_reload` reads in the request's transaction, whose snapshot was fixed when
  the request authenticated.  An edit committed between that read and the
  reading of the version is stored as loaded although it is not, and the
  process keeps the old catalogue until the next edit, although `_bump`
  promises a reload (`language_model_manager.py:174`).  The longer a request
  has run since its last commit, the wider the window: `finalize_round` looks
  up prices at the end of every streamed round, in the transaction
  `append_round` opened before the stream began.  A thread that waits for the
  lock with such a snapshot also puts an older catalogue back that another
  thread has just replaced.  `cat_edits` lets requests do so:
  `CopyHasItsVersion`, `NeverGoesBack` and `EditsArrive` each name this one
  exception (`ReadBefore`), and each fails without it.
* Withdrawing an application while it is being listed leaves an entry in the
  store for an application that is not published, although an entry exists
  exactly for published ones (`app_service.py:237`, `model/app.py:203`); a
  publication beside a withdrawal leaves status draft with a serving
  configuration; two publications get one version number (`app_store` without
  the `\ met` of `StoreIsCurrent` or `HistoryTells`).
* Two summaries in progress lose one round for good, although
  `conversation_service.py:387` has one come late at most; a name given while
  the task asks its model for one is overwritten, although line 361 skips what
  has a name (`conv_memory` without the `\ met` of `RememberedUnlessMet`).
* A publication writes the columns that differ from what it has read.  With a
  withdrawal in between, the status stays draft beside a published graph; if
  two more publications of that draft then overlap and a withdrawal commits
  between them, the second one finds the graph as it was and writes the status
  alone: a workflow is published with an empty graph, which conversations are
  not offered (`wf_life` with two different drafts, three runs, `Reqs = {q1, q2}`
  and without "raced" in `doubt`: `PublishedWasTested`).
* The owner's preview without a conversation id continues the latest
  conversation that is not a published one, and that may be an API end user's,
  although `openapi_service.py:8` keeps end users apart (`SilosApart` names this
  exception).  The memory shown and edited for an application is that of its
  latest conversation of any kind, and clearing the preview deletes the
  application's published and API conversations too.
* `debug_chat` and `published_chat` accept any conversation of the application
  by its id (`DebugChatReq.conversation_id`; `chat_service.py:229-232`,
  `:244-247` check the owner and the application).  So the preview may continue
  a published conversation, and the published chat a preview's or an end
  user's; the new round is read back as history there and enters its memory.
  `conversation_service.py:111` and `:130` keep the kinds apart only where a
  conversation is looked for without an id (the second exception of
  `SilosApart`, which fails without it).

Seen while modelling and not kept as runs: a document deleted while its batch
is being loaded raises outside the `try` of `build_documents` and ends the
whole message, and another document of the batch that was in process stays
there (`ProcessingIsCarried` fails with `Batches <- Together`); an answer cut
short because its client left is stored with status normal and is history for
later prompts, though `history_for_llm` speaks of rounds that ended normally
(`HistoryIsSettled` says exactly this much); a failure whose commit fails too
is swallowed (`indexing_service.py:197`) and the message acknowledged, which
leaves the document waiting or in process for good (the exception `unmarked` of
`ProcessingIsCarried`, `WaitingIsCarried` and `BuildsSettle`) or completed
without its keywords (`SettledHasKeywords` fails with the fault "mark"); a
client that leaves at the ping, or a failure before the `try`, leaves a row
that looks like a normal round without an answer; a stop request between the
ping and the registration is dropped silently; a clean-up of vectors that fails
is swallowed by a rebuild, which then leaves the old vectors searchable
(`SettledHasVectors` fails with the fault "qdrant"); with two workers, or with
requests that race, a deletion can collect the segment ids before a rebuild has
replaced them, or be followed by a late keyword update, and leave entries
behind (`DeletedIsClean` fails); a failure between `Publish` and the keyword
update marks a document error while it is enabled and searchable; two switches
of a document in quick succession may be carried out in the wrong order by two
children (`SwitchTakesEffect` fails with two workers); it says nothing of
requests that overlap, and fails without that premise with two of them, as an
edit that took its snapshot before a switch stores its point with the old flag
after it (`segment_service.py:104`), and as two switches may send their
messages in the other order than they committed; two overlapping edits of a
segment leave the vector of one and the content of the other (`EditsShowAtOnce`
fails with two requests); segments created or edited in a disabled document are
found by full-text search; a segment disabled while its document is being
enabled stays in the keyword table, which is to hold enabled segments only; a
tool node or an agent loses its plugin tool silently when the plugin is
overwritten, as its tools are made anew; adding an entry of the store twice at
once, or dying between the two commits of it, gives a user two copies; renaming
an application does not rename its entry; `recover_stuck_documents` clears the
attempt counter at boot, so a build that takes the whole container down is
delivered for ever.

## 6. The proofs

All theorems hold for arbitrary sets of documents, segments, messages, workers,
callers and requests.

* `DocumentIndexingProofs`
  * `TypeCorrect`: `TypeOK` is inductive as it stands.
  * `ProcessingNeverStranded` (all faults, uploads of one document):
    `ProcessingIsCarried`, with the exception of failures that went unrecorded
    (`UnmarkedStays`: such a document keeps its status until a commit sets it).
    "Some message will build it" is not inductive, as a message can be past its
    document.  The invariant `Consistent` ties every worker to the message it
    holds and to the document that message names; `ProcessingCarried` says that
    a document in process is named by a waiting message, or by a held one whose
    worker has not reached the end of its build.  `CarriedUntilLeft` shows that
    only the last steps of a build end this, and `ProcessingBegins` that only
    such a worker starts it.
  * `WaitingNeverStranded` (no lost dispatch): the same for a waiting document,
    where a request that is about to dispatch counts as well.
  The restriction to uploads of one document is necessary (section 5).
  * `CompletedIsWhole`, `KeywordsAreWhole`, `OneSplitIsLeft`: if vectors can be
    deleted, failures can be recorded (`OneSplitIsLeft` holds without) and no
    two builds of one document overlap (`BuildsAlone`, an assumption on
    behaviours; section 5 shows it to be necessary), a completed document that
    nothing builds has exactly the rows, vectors and keyword entries of one
    split.  The invariant follows one document through its build: at each place
    of the worker it says which of the three stores agree (`Contents`), and a
    delete message or clean-up can only name segments that are gone.
    `OneWorkerCompletesWhole`: with one pool child (`CELERY_CONCURRENCY=1`)
    `BuildsAlone` holds by itself.
  * `PublishesWhole`: the action property `PublishedWhole` from the same
    invariant.
  * `DeletedLeavesNothing`: if no two workers are ever busy with one document
    (`DocumentsAlone`) and none of the faults in `Losses` occurs, a deleted
    document leaves neither vectors nor keyword entries once its clean-up is
    worked off.  Three facts carry it (`Deletions`).  A request between its check
    and its commit is the only one, and the document is still as it was found
    (`CheckedIsFresh`).  While a build may still add rows or vectors, the document is in
    process (`StatusAt`), so that no deletion is accepted; a build that has
    published may be overtaken by one, but what it will list is among the rows
    the deletion has collected.  So the segment ids that the request
    hands to the message and the message to the worker cover every vector
    and every keyword entry there is or will be (`Covers`, `Cleaned`), until the
    worker has dropped both.  TLC finds `DeletedIsClean` violated with each
    single member of `Losses` among the faults, and with two workers without
    `DocumentsAlone`.  `OneWorkerDeletesCleanly`: with one pool child
    `DocumentsAlone` holds by itself; the default of the deployment is five
    (deploy/README.md:130).
* `KnowledgeSyncProofs` (any segments, texts, requests and workers)
  * `TypeCorrect`, of all runs.  What is left of a request's list is its stage,
    and there are only so many (`Stages`); the proofs say at each stage what
    the stores look like, and have one lemma per kind of fact for "a step leads
    to what the next stage wants".
  * `EditsAreShown`: if no two requests are about one segment at a time
    (`Apart`, an assumption on behaviours), `EditsShowAtOnce`, and even
    `ShownUnlessTouched`: a segment that no request is about any more has its
    content and its switch in its point, whatever tasks and other requests are
    in the middle of.  `Edit` says what row and point are at a stage.
  * `CountsStayCurrent`: if one request is worked on at a time (`Alone`),
    `CountsAreCurrent`, from `Tally`.  Requests for two segments are enough to
    refute it, as both recount and write.  `OneRequesterIsShown`: with a single
    requester both conditions hold by themselves, whatever the tasks do.
  * `IndexesAgree`: `FullTextMatches` of all runs; the property itself is about
    those where nothing has overlapped and no switch was lost.  `IndexInv` says
    of these that what a request or a task has seen is what is still stored
    (`Seen`, `Task`), what entries the keyword table has at each stage
    (`Entries`), and that the indexes agree when nobody is at work (`Rested`);
    of all others only that the types are right.
  * `TableTyped`, `LockExcludes` and `CallsAreAtomic`, about `KeywordTable`
    through an instance whose variables stand beside those of the stores.  If no
    call outlives the lock, at most one is inside the with block, whatever the
    isolation, whoever dies and even if the dataset is deleted
    (`LockExcludes`): what is lost under "repeatable read" (section 5) is lost
    by a stale read, not by the lock. Under the further assumption that no
    caller reads before it has the lock (isolation "read committed", or
    clean-ups only) `KeywordTable` implements `AtomicKeywordTable`. The
    invariant says that whoever is inside holds the lock (`Holders`) and has
    seen the present table (`Reading`), so `Change` maps to one `Add`, `Remove`
    or `Refuse`, and every other step to a request, an end, or a stutter.
  Section 5 shows what happens without the assumptions.

* `ChannelRouterProofs`
  * `Typing`; `SoundChannelsStayOn` and `SoundChannelsServe` under the
    assumption that upstreams refuse chat requests only, and before the first
    chunk (section 5 shows it to be needed); `StreamsAreWhole` without any.
    The invariant is about one call at a time: only a channel that is not
    reliable is under count, and whatever is left to try holds every reliable
    candidate (`LeftFacts`); no channel has spoken before a trial
    (`SpokeFacts`).  There is one lemma for each kind of change to a call.
* `ModelCatalogProofs`
  * `Typing`, which needs that announcements never overtake commits (the
    version plus the number of pending announcements is at most the number of
    commits); `DefaultAlwaysServes`; and, without any assumption,
    `CopiesHaveTheirVersion` and `CopiesNeverGoBack`: what a snapshot lacks was
    not announced when it was fixed, so that the thread that holds the lock has
    rows which, but for edits announced after its first read, are no older than
    the version it has read and than the copy it replaces.

* `ChatRoundProofs` (any rounds, accounts, length of answers, cap of history and
  faults, no further assumption)
  * `TypeCorrect`; `ShownAreStored`, `RowsAreHonest`, `HistoriesAreSettled`, and
    `RoundsKeepPromise`: `ChatRound` implements `Round`.  The invariant is about
    one round at a time: its generator's place says whether the row is there and
    closed (`RowFacts`), what the status may be and what has been sent
    (`EndFacts`), and that a stop goes back to the owner (`StopFacts`); `Frame`
    shows that a step of one round leaves the others alone, `StepSettled` that
    a turn, once settled, stays so.  `Append`, `Say` or `Answer`, `Final` and
    `Enqueue` map to the four steps of `Round`, all others to stutters.

* `ConversationsProofs` (any conversations, rounds, end users and faults)
  * `TypeCorrect`, `NoRoundGoesInTwice`, `AllRememberedUnlessMet`,
    `SilosStayApart`.  The invariant is about every memory, and about what a
    task between its read and its commit holds of one (`Memory`): distinct
    rounds of that conversation whose task has committed.  A task never returns
    to the queue, so such a round stays one and the task's own round is not
    among them.  A conversation that is not in `met` has at most one writer,
    who has read what is still there (`Alone`).  How `Prepared` finds a
    conversation leaves the owner two ways into one of another kind: he names
    it, or the preview finds an end user's.
* `AppStoreProofs` (any users, applications, requests and bounds)
  * `TypeCorrect`, `StoreShowsWhatServes`, `NobodyUsesAnothersTools`,
    `HistoryIsTold`, from the one assumption that "nobody" is no user.  A request
    in progress on an application that is not in `met` is still one that could be
    asked for now, so that its commit does what it would do at once.  For the
    ownership of tools the invariant follows every reference wherever it may be:
    a draft, a version, an entry, a request; an application keeps its owner and
    its number until it is deleted, and neither is used again.
* `WorkflowProofs` (any lists an editor may send, any requests, runs, limits)
  * About the graphs: what `Lenient` leaves is `Settled` (`SavedIsSettled`), and of
    a settled graph it leaves everything (`SettledStays`).  In a graph that `Cyclic`
    does not refuse every set of nodes has one that no other of them comes
    before (`FirstOne`); a set that is closed under what comes directly before
    holds all `Predecessors` (`PredecessorsWithin`).  The recursions of the model
    are recursive functions; where a proof needs one, it shows first that
    such a function exists, by giving it.
  * About the strict check: `StrictMeansWellFormed`, for any two lists, and
    `StrictCheckIsExact`, for every draft that can be stored.  The searches find
    what ways lead to (`SearchFinds`, and with it `ConnectedMeans` and
    `PredecessorsMean`); Kahn's sort refuses exactly the graphs with an edge whose
    end leads back to it (`CyclicMeans`).  One direction
    (`StrictIsWellFormed`) takes the only node without an edge into it and the
    only one without an edge out of it for the start and the end; that every way
    can be prolonged to the end follows from `LastOne`, in the nodes that come
    after a node.  In the other (`WellFormedIsStrict`) no edge leads into the
    start, as it would close a cycle, and one leads into every other node, as a
    way does; the same for the end.
  * About the engine: what a run has begun is preceded only by what it has
    executed (`IsRun`).  So all that an active node refers to has been written
    (`ReferencesAreBound`), and when nothing is ready, `FirstOne` applied to the
    nodes that are left shows that none is (`EveryNodeRuns`).  No step begins a
    node that has begun before, or one with a source that has not been executed
    (`NodesRunOnceInOrder`, an action property no run has).  As long as a run
    goes on, a node of it is active (`EngineNeverStuck`): what `RunsSettle` waits
    for is always a node's end, failure or timeout, or the last block.
  * About the gate: while `doubt` is empty the gate is lit for a tested draft only,
    a save in progress will put it out if it is lit, and the one publication in
    progress has seen a tested draft and the columns it does not write are as it
    has seen them (`Gate`); this is what `OfferedWasTested` rests on.  Without
    the three exceptions it is false (section 5).  `LeavingAloneMisleads` is
    the other side of the disagreement `wf_gate` shows: as long as no client
    has left a run, `GateMeansTested` holds for any requests and runs,
    overlapping publications included (`Lit`).
  * `TypeCorrect`, which says that loading a saved draft changes nothing.
  The assumption `SentAssumption` says what an editor can send at all: lists, of
  nodes with these fields, in which a start node reads no other node.

Only model-checked: everything temporal under fairness (`BuildsSettle`,
`CallersAreServed`, `SwitchTakesEffect`, `RepairedIsUsedAgain`, `CallsEnd`,
`EditsArrive`, `RoundsClose`, `RunsSettle`), which the proof system cannot
reach.  Every invariant and every action property of the passing runs is
stated by a theorem; `Atomic` by `CallsAreAtomic`, through its instance.

## 7. What is not covered

* Ranking, tokenising, splitting and embedding: a split is any non-empty set of
  new segments, a content any value.
* HTTP parsing and ownership checks: a request reaches its service only for the
  owner's rows, which are the only rows in a model.
* In `DocumentIndexing` a keyword update is one atomic step, which is more than
  the service gives (section 5); its properties of the keyword table are
  about crashes and repeats of builds, not about competing callers.
  `KnowledgeSync` has the snapshots but not the lock's expiry.
* In `KnowledgeSync` the document is not rebuilt or deleted, and a web process
  does not die in the middle of an edit: an edit that fails half-way leaves its
  stores apart and nothing in the code repairs that.
* In `ModelCatalog` a provider's credentials are assumed to be set: without a
  key a single-channel provider fails and a channel is left out of the list.
  The version in Redis is assumed to survive; a Redis that loses its data could
  repeat a version a process already holds.
* In `ChatRound` what a tool does or returns, attachments, prices and the rows of
  `ai_message_agent_thought` (which nothing in the model reads) are left out; so
  are whole conversations being cleared while a round runs.  A prompt's history
  is read at one instant: an older snapshot is the same read, made earlier.
* In `Conversations` pins, lists, pages and the names of published and API
  conversations are left out, as are the cut of long inputs to a summary, the
  deletion of an application with its conversations, and
  `ConversationService.update_summary`, which no endpoint calls.
* In `Workflow` what a node computes; the name, icon and call name of a workflow
  and the uniqueness of the latter; an application's use of a published workflow
  beyond `Offered`.  The published graph is run by the same engine as a debug
  run.
* In `AppStore` names, icons, the renewal of a token and the store's pages; the
  store of plugins; a configuration's prompt, model and switches, which nothing
  checks against another row.  A knowledge base or workflow that is deleted
  stays in the configurations that name it and is left out when it is resolved.
* The limits of `quota_service.py` other than the one on debug runs: the windows
  are the same two Redis commands, and the limits on rows count what is there
  before the row is inserted, so that requests which count at the same time
  exceed them by their number.
* In retrieval a strategy's `k` is assumed to be large enough for every hit.
* The message list an agent builds in a round is LangGraph's; images and uploads
  are one call and one row; accounts, keys and tokens are single-row reads and
  writes.  Handlers and schemas parse a request and call one service method.
* The frontend: the refresh of a token shared by requests, the order of
  autosaves, and a chat page that receives frames of an earlier stream are the
  three pieces of logic there; none is modelled.
* Components with status `not_modelled` in `PROJECT.json`, each with its reason.

## 8. The plan

Written: the document pipeline and its stores, manual maintenance, the choice of
models, chats with their conversations, workflows, applications, and proofs for
all of them.  Left: the refresh queue and the chat page's reducer of the
frontend, which no module touches yet.
