------------------------------ MODULE Workflow -------------------------------
(***************************************************************************)
(* One workflow of a user: its row, the console requests that save,        *)
(* publish, withdraw and delete it, and the debug runs of its draft.       *)
(*                                                                         *)
(* A save or a publication takes a view of the row (the snapshot of its    *)
(* transaction, fixed when the session authenticates the user), checks the *)
(* graph and later commits.  SQLAlchemy writes only the columns whose      *)
(* value differs from the view; an update of a row that is gone rolls the  *)
(* request back.                                                           *)
(*                                                                         *)
(* A debug run compiles the draft to a LangGraph program (external): the   *)
(* nodes whose sources have all been written run at the same time, each in *)
(* a thread, and what they write becomes visible when all of them have     *)
(* ended.  An error of one ends the run.  The run's generator keeps its    *)
(* session: the row it lights the gate on is read in the snapshot opened   *)
(* when the run was stored, unless a node's own commit has renewed it.     *)
(***************************************************************************)
EXTENDS WorkflowGraph

CONSTANTS
    Sent,       \* what the editor may send: a sequence, one set for each save
    Reqs,       \* console requests that can be in progress at a time
    MaxRuns,    \* debug requests
    DebugLimit  \* QUOTA_WORKFLOW_DEBUG_DAILY_LIMIT

ASSUME LimitAssumption == DebugLimit \in Nat \ {0} /\ MaxRuns \in Nat

\* What is sent are lists, of nodes as Node makes them; a start node's inputs
\* are given from outside.
ASSUME SentAssumption ==
    /\ Sent \in Seq(ToSet(Sent))
    /\ \A k \in DOMAIN Sent : \A g \in Sent[k] :
          /\ g.nodes \in Seq(Nodes(g)) /\ g.edges \in Seq(Edges(g))
          /\ \A n \in Nodes(g) :
                /\ n = Node(n.id, n.type, n.title,
                            n.refs, n.vars, n.ok, n.mine)
                /\ n.type = "start" => n.refs = {}

VARIABLES
    wf,       \* the row: draft, graph, status and the gate is_debug_passed
    req,      \* the requests in progress
    run,      \* the debug runs and their result rows
    used,     \* the debug counter in Redis
    saves,    \* saves so far
    tested,   \* the graphs a run has executed to the end
    doubt     \* "left", "edited", "raced": clients, saves and publications
              \* that came in between

vars == <<wf, req, run, used, saves, tested, doubt>>

-----------------------------------------------------------------------------
(* Rows.                                                                   *)

\* Debug requests are numbered in the order they arrive.
Runs == 1..MaxRuns

Row(draft, graph, status, passed) ==
    [draft |-> draft, graph |-> graph, status |-> status, passed |-> passed]

Gone == Row(NoGraph, NoGraph, "gone", "no")

NoReq == [kind |-> "none", view |-> Gone, new |-> Gone]

NoRun == [pc |-> "idle", graph |-> NoGraph, active |-> {}, wrote |-> {},
          seen |-> {}, hung |-> {}, result |-> "none", passed |-> "no",
          left |-> "no"]

\* The unit of work: the columns that differ from the view are written.
Flush(row, view, new) ==
    [c \in DOMAIN row |-> IF new[c] # view[c] THEN new[c] ELSE row[c]]

Active(d) == run[d].pc \in {"running", "closing"}

-----------------------------------------------------------------------------
(* The engine.                                                             *)

\* Mutant: the edges are added one by one and the first source starts a node.
ReadyAtFirst(g, seen) ==
    {i \in Ids(g) \ seen : Prev1(g, i) \cap seen # {}}

\* The edges into a node are merged to one with several sources: it waits
\* for all of them.
Ready(g, seen) ==
    {i \in Ids(g) \ seen : Prev1(g, i) # {} /\ Prev1(g, i) \subseteq seen}

Start(g) == {n.id : n \in {m \in Nodes(g) : m.type = "start"}}

\* A superstep ends with its last node: what was written becomes visible.
\* When no node is ready the program is over, and the generator closes.
Advance(r) ==
    LET seen == r.seen \cup r.wrote
        next == Ready(r.graph, seen)
    IN IF r.active # {} THEN r
       ELSE [r EXCEPT !.seen = seen, !.wrote = {}, !.active = next,
                      !.pc = IF next = {} THEN "closing" ELSE "running",
                      !.result = IF next = {} THEN "succeeded" ELSE "running"]

Wrote(d, i) == [run[d] EXCEPT !.active = @ \ {i}, !.wrote = @ \cup {i}]

\* The first output a node declares, or a name of its class.
FirstOf(n, name) ==
    IF n.vars = {} THEN {name} ELSE {CHOOSE v \in n.vars : TRUE}

\* The variables each kind of node writes when its call succeeds: the start
\* the inputs it declares, given or by default; the model its answer; the
\* plugin, looked up among the owner's, its result; the retrieval the texts;
\* the request body and status; the code what main returns, by declaration;
\* the end only the outputs of the whole run.
StartWrites(n) == n.vars
LLMWrites(n) == FirstOf(n, "output")
ToolWrites(n) == FirstOf(n, "text")
DatasetWrites(n) == FirstOf(n, "combine_documents")
TemplateWrites(n) == {"output"}
HttpWrites(n) == {"text", "status_code"}
CodeWrites(n) == n.vars
EndWrites(n) == {}

Writes(n) ==
    CASE n.type = "start" -> StartWrites(n)
      [] n.type = "llm" -> LLMWrites(n)
      [] n.type = "tool" -> ToolWrites(n)
      [] n.type = "dataset" -> DatasetWrites(n)
      [] n.type = "template" -> TemplateWrites(n)
      [] n.type = "http" -> HttpWrites(n)
      [] n.type = "code" -> CodeWrites(n)
      [] n.type = "end" -> EndWrites(n)

\* What an input finds on the blackboard: a reference without a result is no
\* error, the input is left out, or gets its type's default.
Found(r, ref) ==
    /\ ref[1] \in r.seen
    /\ ref[2] \in Writes(NodeOf(r.graph, ref[1]))

\* A node ends: it has read what it references, called what it has to call
\* and written its result.  A dataset node commits its query in the session
\* of the run, so that the row may be read anew at the end.
NodeEnds(d, i) ==
    /\ run[d].pc = "running" /\ i \in run[d].active \ run[d].hung
    /\ LET r == Advance(Wrote(d, i))
       IN \/ run' = [run EXCEPT ![d] = r]
          \/ /\ NodeOf(run[d].graph, i).type = "dataset"
             /\ run' = [run EXCEPT ![d] = [r EXCEPT !.passed = wf.passed]]
    /\ UNCHANGED <<wf, req, used, saves, tested, doubt>>

Fail(r) == [r EXCEPT !.pc = "closing", !.result = "failed", !.active = {},
                     !.hung = {}]

\* The start node misses a required input, or a node's call fails: the tool
\* is not found among the owner's, the template or the request is refused,
\* the model does not answer in time.
NodeFails(d, i) ==
    /\ run[d].pc = "running" /\ i \in run[d].active \ run[d].hung
    /\ run' = [run EXCEPT ![d] = Fail(@)]
    /\ UNCHANGED <<wf, req, used, saves, tested, doubt>>

\* The child process of a code node does not come back.
CodeHangs(d, i) ==
    /\ run[d].pc = "running" /\ i \in run[d].active \ run[d].hung
    /\ NodeOf(run[d].graph, i).type = "code"
    /\ run' = [run EXCEPT ![d].hung = @ \cup {i}]
    /\ UNCHANGED <<wf, req, used, saves, tested, doubt>>

\* Mutant: the node waits for its child without a limit.
WaitForCode(d, i) == FALSE /\ UNCHANGED vars

\* The pipe's poll times out; the child is terminated, then killed.
CodeTimesOut(d, i) ==
    /\ run[d].pc = "running" /\ i \in run[d].hung
    /\ run' = [run EXCEPT ![d] = Fail(@)]
    /\ UNCHANGED <<wf, req, used, saves, tested, doubt>>

-----------------------------------------------------------------------------
(* A debug run.                                                            *)

\* Within the day's limit: the counter goes up even if it is not, and without
\* Redis everyone passes.
WithinLimit(counted) == counted => used < DebugLimit

\* Belongs to the user, within the limit and strictly valid: then the run is
\* stored and its generator starts.
DebugStarts(d, counted) ==
    /\ run[d].pc = "idle" /\ \A x \in 1..d - 1 : run[x].pc # "idle"
    /\ wf # Gone
    /\ used' = IF counted THEN used + 1 ELSE used
    /\ LET admitted == WithinLimit(counted) /\ Strict(wf.draft)
       IN run' = [run EXCEPT ![d] =
            IF admitted
            THEN [NoRun EXCEPT !.pc = "running", !.graph = wf.draft,
                               !.active = Start(wf.draft),
                               !.result = "running", !.passed = wf.passed]
            ELSE [NoRun EXCEPT !.pc = "refused"]]
    /\ UNCHANGED <<wf, req, saves, tested, doubt>>

\* The client closes the stream after a frame: the generator is closed at
\* that point, which its handler for errors does not see.
ClientLeaves(d) ==
    /\ run[d].pc = "running" /\ run[d].seen \cup run[d].wrote # {}
    /\ run' = [run EXCEPT ![d] = [@ EXCEPT !.pc = "closing", !.active = {},
                    !.hung = {}, !.result = "succeeded", !.left = "yes"]]
    /\ UNCHANGED <<wf, req, used, saves, tested, doubt>>

\* Mutant: the gate is lit whatever the run came to.
LightAlways(row, r) ==
    IF row = Gone THEN Gone ELSE [row EXCEPT !.passed = "yes"]

\* The gate is lit after a success, unless the view had it lit already.
Light(row, r) ==
    IF row # Gone /\ r.result = "succeeded" /\ r.passed = "no"
    THEN [row EXCEPT !.passed = "yes"] ELSE row

\* The generator's last block: one commit for the result and the gate.  Both
\* rows are gone if the workflow has been deleted; an error is only logged.
DebugEnds(d) ==
    /\ run[d].pc = "closing"
    /\ wf' = Light(wf, run[d])
    /\ run' = [run EXCEPT ![d] = [NoRun EXCEPT !.pc = "over"]]
    /\ tested' = IF run[d].result = "succeeded" /\ run[d].left = "no"
                 THEN tested \cup {run[d].graph} ELSE tested
    /\ doubt' = doubt \cup
          (IF run[d].left = "yes" THEN {"left"} ELSE {}) \cup
          (IF \/ wf.draft # run[d].graph
              \/ \E q \in Reqs : req[q].kind = "save"
           THEN {"edited"} ELSE {})
    /\ UNCHANGED <<req, used, saves>>

\* The process dies, the generator is never started, or the last commit
\* fails: the row stays "running".
DebugIsLost(d) ==
    /\ Active(d)
    /\ run' = [run EXCEPT ![d] = [NoRun EXCEPT !.pc = "lost"]]
    /\ UNCHANGED <<wf, req, used, saves, tested, doubt>>

-----------------------------------------------------------------------------
(* Requests.                                                               *)

Begin(q, kind, new) ==
    /\ req[q].kind = "none" /\ wf # Gone
    /\ req' = [req EXCEPT ![q] = [kind |-> kind, view |-> wf, new |-> new]]
    /\ UNCHANGED <<run, used, tested>>

\* The draft is replaced by what the lenient check leaves of it, and has to
\* be debugged again.
Save(q, g) ==
    /\ saves' = saves + 1
    /\ Begin(q, "save", [wf EXCEPT !.draft = Lenient(g), !.passed = "no"])
    /\ UNCHANGED <<wf, doubt>>

\* The gate is lit and the draft is still strictly valid; otherwise the gate
\* is put out.
Publish(q) ==
    /\ wf.passed = "yes"
    /\ Begin(q, "publish",
             IF Strict(wf.draft)
             THEN [wf EXCEPT !.graph = wf.draft, !.passed = "no",
                             !.status = "published"]
             ELSE [wf EXCEPT !.passed = "no"])
    /\ doubt' = IF \E p \in Reqs : req[p].kind = "publish"
                THEN doubt \cup {"raced"} ELSE doubt
    /\ UNCHANGED <<wf, saves>>

Commit(q) ==
    /\ req[q].kind # "none"
    /\ req' = [req EXCEPT ![q] = NoReq]
    /\ wf' = IF wf = Gone THEN Gone
             ELSE Flush(wf, req[q].view, req[q].new)
    /\ UNCHANGED <<run, used, saves, tested, doubt>>

\* Withdrawn.  Applications that are bound to it find it by its status.
Cancel ==
    /\ wf.status = "published"
    /\ wf' = [wf EXCEPT !.graph = NoGraph, !.status = "draft", !.passed = "no"]
    /\ UNCHANGED <<req, run, used, saves, tested, doubt>>

\* The results go with the workflow.
Delete ==
    /\ wf # Gone /\ wf' = Gone
    /\ UNCHANGED <<req, run, used, saves, tested, doubt>>

\* Creation checks the quota and the call name against the user's other
\* workflows, which are not modelled.
Create ==
    /\ wf = Gone /\ saves = 0 /\ req = [q \in Reqs |-> NoReq]
    /\ wf' = Row(NoGraph, NoGraph, "draft", "no")
    /\ UNCHANGED <<req, run, used, saves, tested, doubt>>

-----------------------------------------------------------------------------
(* What is read of the row elsewhere.                                      *)

\* The editor's load checks the draft once more.
GetDraft == Lenient(wf.draft)

\* A conversation offers the model the published graph, if it still builds.
Offered == wf.status = "published" /\ Strict(wf.graph)

-----------------------------------------------------------------------------
Init ==
    /\ wf = Gone
    /\ req = [q \in Reqs |-> NoReq]
    /\ run = [d \in Runs |-> NoRun]
    /\ used = 0 /\ saves = 0 /\ tested = {} /\ doubt = {}

Request(q) ==
    \/ saves < Len(Sent) /\ \E g \in Sent[saves + 1] : Save(q, g)
    \/ Publish(q) \/ Commit(q)

RunStep(d) ==
    \/ \E i \in run[d].active :
          NodeEnds(d, i) \/ NodeFails(d, i) \/ CodeTimesOut(d, i)
    \/ DebugEnds(d)

Next ==
    \/ Create \/ Cancel \/ Delete
    \/ \E q \in Reqs : Request(q)
    \/ \E d \in Runs :
          \/ RunStep(d)
          \/ \E counted \in BOOLEAN : DebugStarts(d, counted)
          \/ \E i \in run[d].active : CodeHangs(d, i)
          \/ ClientLeaves(d) \/ DebugIsLost(d)

\* Every call a node makes has a time limit, and the server drives the
\* generator to its end.
Spec == Init /\ [][Next]_vars /\ \A d \in Runs : WF_vars(RunStep(d))
-----------------------------------------------------------------------------
\* The types, and the form of a stored draft: one that the editor's next load
\* leaves as it is.
TypeOK ==
    /\ GetDraft = wf.draft
    /\ wf.status \in {"gone", "draft", "published"}
    /\ wf.passed \in {"yes", "no"}
    /\ \A q \in Reqs : req[q].kind \in
          {"none", "save", "publish"}
    /\ \A d \in Runs :
          /\ run[d].pc \in {"idle", "refused", "running", "closing", "over",
                            "lost"}
          /\ run[d].result \in {"none", "running", "succeeded", "failed"}
          /\ run[d].hung \subseteq run[d].active
          /\ run[d].active \cup run[d].wrote \cup run[d].seen
                \subseteq Ids(run[d].graph)
    /\ used \in 0..MaxRuns /\ saves \in 0..Len(Sent)
    /\ doubt \subseteq {"left", "edited", "raced"}

\* The strict check (degrees, search, topological sort, predecessors) accepts
\* a stored draft exactly if it is an acyclic graph whose nodes lie on a way
\* from its start to its end and read declared variables of earlier nodes.
StrictIsExact == Strict(wf.draft) <=> WellFormed(wf.draft)

\* When the engine runs a node, every variable it refers to is on the
\* blackboard: the strict check, the engine's order and the outputs that the
\* classes declare and the nodes write agree.  The code would not notice.
RefsAreBound ==
    \A d \in Runs : \A i \in run[d].active :
        \A ref \in NodeOf(run[d].graph, i).refs : Found(run[d], ref)

\* A run that ends by itself without an error has executed every node, the
\* end node among them; an engine that is stuck would report a success too.
RunsAreWhole ==
    \A d \in Runs :
        run[d].pc = "closing" /\ run[d].result = "succeeded"
            /\ run[d].left = "no"
        => run[d].seen = Ids(run[d].graph)

\* What is published has been run to its end by a debug run, and is offered
\* to conversations, however requests, runs and deletions interleave -- if no
\* client left a run in the middle, no save overlapped a run, and no two
\* publications overlapped.
PublishedWasTested ==
    wf.status = "published" /\ doubt = {} =>
        wf.graph \in tested /\ Offered

\* The gate shows that a run of the draft came to its end, as the service's
\* header has it (a save that overlaps a run is set apart).
GateMeansTested ==
    wf.passed = "yes" /\ "edited" \notin doubt => wf.draft \in tested

\* Every run ends and its row leaves "running", although code may hang, unless
\* the process or the last commit fails.
RunsSettle ==
    \A d \in Runs : Active(d) ~> run[d].pc \in {"over", "lost"}
=============================================================================
