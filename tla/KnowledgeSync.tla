---------------------------- MODULE KnowledgeSync ----------------------------
(***************************************************************************)
(* One indexed document under manual maintenance: its segment rows and the *)
(* enabled switches in MySQL, the flags and texts of its points in Qdrant, *)
(* its entries in the keyword table, the console requests that change them *)
(* one store after the other, and the Celery messages that carry the       *)
(* document's switch to the two indexes.                                   *)
(*                                                                         *)
(* The document stays completed.  A segment's text stands for its content, *)
(* its keywords and its vector.  A view is the snapshot a transaction      *)
(* reads from: MySQL fixes it at the first SELECT after a commit, and the  *)
(* keyword table is written back from it (KeywordTable has the lock).      *)
(***************************************************************************)
EXTENDS Naturals, Sequences

CONSTANTS
    Segs,      \* segment ids; an id is given out once
    Texts,     \* contents of a segment
    Reqs,      \* console requests that can be in progress at a time
    Workers,   \* pool children of the Celery worker
    MaxQueue,  \* most messages waiting at a time
    None       \* no content, no segment

ASSUME ConstantsAssumption ==
    MaxQueue \in Nat \ {0} /\ None \notin Texts \union Segs

VARIABLES
    docEnabled,  \* ai_document.enabled
    text,        \* content of the ai_segment rows, None without a row
    enabled,     \* ai_segment.enabled
    unused,      \* ids no row has had
    counted,     \* the contents the document's counts were summed over
    point,       \* the Qdrant points
    kw,          \* the contents each segment is listed under
    queue,       \* update_document_enabled messages
    req,         \* what each request has still to do
    work,        \* what each worker is doing
    overlapped,  \* two requests or tasks have been in progress at a time
    lost         \* a switch of the document was lost on its way

rows == <<text, enabled, unused>>
history == <<overlapped, lost>>
vars == <<docEnabled, rows, counted, point, kw, queue, req, work, history>>

-----------------------------------------------------------------------------
(* Values.                                                                 *)

NoPoint == [text |-> None, doc |-> FALSE, on |-> FALSE]
NoView == [text |-> [s \in Segs |-> None], on |-> [s \in Segs |-> FALSE],
           doc |-> FALSE, kw |-> [s \in Segs |-> {}]]
NoReq == [todo |-> <<>>, seg |-> None, text |-> None, on |-> FALSE,
          view |-> NoView]
NoWork == [pc |-> "idle", on |-> FALSE, view |-> NoView]

\* What a transaction that starts now will see, and the parts of it that the
\* keyword table and the counts are computed from.
View == [text |-> text, on |-> enabled, doc |-> docEnabled, kw |-> kw]
TableView == [NoView EXCEPT !.kw = kw]
RowsView == [NoView EXCEPT !.text = text]

Stored(s) == text[s] # None

Asking == {r \in Reqs : req[r].todo # <<>>}
Working == {w \in Workers : work[w].pc # "idle"}

Init ==
    /\ docEnabled = TRUE
    /\ \E S \in SUBSET Segs, t \in Texts :
        /\ text = [s \in Segs |-> IF s \in S THEN t ELSE None]
        /\ enabled = [s \in Segs |-> s \in S]
        /\ unused = Segs \ S
        /\ point = [s \in Segs |->
                       IF s \in S THEN [text |-> t, doc |-> TRUE, on |-> TRUE]
                                  ELSE NoPoint]
        /\ kw = [s \in Segs |-> IF s \in S THEN {t} ELSE {}]
    /\ counted = text
    /\ queue = <<>>
    /\ req = [r \in Reqs |-> NoReq]
    /\ work = [w \in Workers |-> NoWork]
    /\ overlapped = FALSE
    /\ lost = FALSE

-----------------------------------------------------------------------------
(* Requests: the first step checks and commits, the rest is a list of the  *)
(* stores still to be visited.                                             *)

Begin(r, s, t, on, view, todo) ==
    /\ req[r].todo = <<>>
    /\ req' = [req EXCEPT ![r] = [todo |-> todo, seg |-> s, text |-> t,
                                  on |-> on, view |-> view]]
    /\ overlapped' = (overlapped \/ Asking # {} \/ Working # {})
    /\ UNCHANGED <<counted, point, kw, queue, work, lost>>

CreateSegment(r, s, t) ==
    /\ s \in unused
    /\ text' = [text EXCEPT ![s] = t]
    /\ enabled' = [enabled EXCEPT ![s] = TRUE]
    /\ unused' = unused \ {s}
    /\ Begin(r, s, t, TRUE, NoView,
             <<"look", "upsert", "add", "sum", "count">>)
    /\ UNCHANGED docEnabled

\* Mutant: the vector is never recomputed.
UpdateSegmentOldVector(r, s, t) ==
    /\ Stored(s)
    /\ Begin(r, s, t, FALSE, TableView,
             <<"drop", "write", "look", "addIfOn", "relook", "count">>)
    /\ UNCHANGED <<docEnabled, rows>>

\* The vector is recomputed only when the content changes.
UpdateSegment(r, s, t) ==
    /\ Stored(s)
    /\ Begin(r, s, t, FALSE, TableView,
             <<"drop", "write", "look", "addIfOn", "relook">>
             \o (IF t # text[s] THEN <<"upsert">> ELSE <<>>) \o <<"count">>)
    /\ UNCHANGED <<docEnabled, rows>>

SwitchSegment(r, s, on) ==
    /\ Stored(s)
    /\ enabled' = [enabled EXCEPT ![s] = on]
    /\ Begin(r, s, None, on, NoView,
             <<"look", "flag", IF on THEN "add" ELSE "drop">>)
    /\ UNCHANGED <<docEnabled, text, unused>>

\* Mutant: the counts are not brought up to date after a deletion.
DeleteSegmentUncounted(r, s) ==
    /\ Stored(s)
    /\ Begin(r, s, None, FALSE, TableView, <<"drop", "delete", "unpoint">>)
    /\ UNCHANGED <<docEnabled, rows>>

DeleteSegment(r, s) ==
    /\ Stored(s)
    /\ Begin(r, s, None, FALSE, TableView,
             <<"drop", "delete", "unpoint", "sum", "count">>)
    /\ UNCHANGED <<docEnabled, rows>>

SwitchDocument(r, on) ==
    /\ docEnabled # on
    /\ docEnabled' = on
    /\ Begin(r, None, None, on, NoView, <<"send">>)
    /\ UNCHANGED rows

Doing(r, here) == req[r].todo # <<>> /\ Head(req[r].todo) = here

\* r has done its step and goes on with view.
Goes(r, view) ==
    req' = [req EXCEPT ![r] =
               IF Len(@.todo) = 1 THEN NoReq
               ELSE [@ EXCEPT !.todo = Tail(req[r].todo), !.view = view]]

Done(r) == Goes(r, NoView)

\* Attributes of a row that is gone cannot be read again: that raises.
Look(r) ==
    /\ Doing(r, "look")
    /\ IF Stored(req[r].seg) THEN Goes(r, View)
                             ELSE req' = [req EXCEPT ![r] = NoReq]
    /\ UNCHANGED <<docEnabled, rows, counted, point, kw, queue, work, history>>

\* The same after a commit; without one the old snapshot stays.
Relook(r) ==
    /\ Doing(r, "relook")
    /\ IF ~req[r].view.on[req[r].seg] THEN Goes(r, req[r].view)
       ELSE IF Stored(req[r].seg) THEN Goes(r, View)
       ELSE req' = [req EXCEPT ![r] = NoReq]
    /\ UNCHANGED <<docEnabled, rows, counted, point, kw, queue, work, history>>

\* The keyword table is written back from the snapshot it was read from; a
\* table equal to that sends no UPDATE.
WriteBack(new, view) == kw' = IF new = view.kw THEN kw ELSE new

AddKeywords(r) ==
    /\ \/ Doing(r, "add")
       \/ Doing(r, "addIfOn")
    /\ LET s == req[r].seg
           view == req[r].view
       IN IF Doing(r, "add") \/ view.on[s]
          THEN WriteBack([view.kw EXCEPT ![s] = @ \union {view.text[s]}], view)
          ELSE UNCHANGED kw
    /\ Goes(r, [req[r].view EXCEPT !.kw = NoView.kw])
    /\ UNCHANGED <<docEnabled, rows, counted, point, queue, work, history>>

DropKeywords(r) ==
    /\ Doing(r, "drop")
    /\ WriteBack([req[r].view.kw EXCEPT ![req[r].seg] = {}], req[r].view)
    /\ Done(r)
    /\ UNCHANGED <<docEnabled, rows, counted, point, queue, work, history>>

\* The UPDATE of a row that is gone raises.
WriteSegment(r) ==
    /\ Doing(r, "write")
    /\ IF Stored(req[r].seg)
       THEN text' = [text EXCEPT ![req[r].seg] = req[r].text] /\ Done(r)
       ELSE req' = [req EXCEPT ![r] = NoReq] /\ UNCHANGED text
    /\ UNCHANGED <<docEnabled, enabled, unused, counted, point, kw, queue,
                   work, history>>

\* The new point carries the switches as the snapshot shows them; a segment
\* just created is on.
UpsertPoint(r) ==
    /\ Doing(r, "upsert")
    /\ point' = [point EXCEPT ![req[r].seg] =
                    [text |-> req[r].text, doc |-> req[r].view.doc,
                     on |-> req[r].on \/ req[r].view.on[req[r].seg]]]
    /\ Goes(r, [req[r].view EXCEPT !.doc = FALSE])
    /\ UNCHANGED <<docEnabled, rows, counted, kw, queue, work, history>>

\* set_payload does nothing to a point that is not there.
FlagSegment(r) ==
    /\ Doing(r, "flag")
    /\ point' = IF point[req[r].seg] = NoPoint THEN point
                ELSE [point EXCEPT ![req[r].seg].on = req[r].on]
    /\ Goes(r, req[r].view)
    /\ UNCHANGED <<docEnabled, rows, counted, kw, queue, work, history>>

RemoveSegment(r) ==
    /\ Doing(r, "delete")
    /\ text' = [text EXCEPT ![req[r].seg] = None]
    /\ enabled' = [enabled EXCEPT ![req[r].seg] = FALSE]
    /\ Done(r)
    /\ UNCHANGED <<docEnabled, unused, counted, point, kw, queue, work,
                   history>>

RemovePoint(r) ==
    /\ Doing(r, "unpoint")
    /\ point' = [point EXCEPT ![req[r].seg] = NoPoint]
    /\ Done(r)
    /\ UNCHANGED <<docEnabled, rows, counted, kw, queue, work, history>>

\* _recount_document: the sums are read, and written in a later statement.
Sum(r) ==
    /\ Doing(r, "sum")
    /\ Goes(r, RowsView)
    /\ UNCHANGED <<docEnabled, rows, counted, point, kw, queue, work, history>>

Count(r) ==
    /\ Doing(r, "count")
    /\ counted' = req[r].view.text
    /\ Done(r)
    /\ UNCHANGED <<docEnabled, rows, point, kw, queue, work, history>>

Send(r) ==
    /\ Doing(r, "send")
    /\ Len(queue) < MaxQueue
    /\ queue' = Append(queue, req[r].on)
    /\ Done(r)
    /\ UNCHANGED <<docEnabled, rows, counted, point, kw, work, history>>

-----------------------------------------------------------------------------
(* The update_document_enabled task: acknowledged when it is taken.        *)

\* The rows are loaded once, before the first of the two indexes.
TakeSwitch(w) ==
    /\ work[w].pc = "idle"
    /\ queue # <<>>
    /\ queue' = Tail(queue)
    /\ work' = [work EXCEPT ![w] = [pc |-> "flags", on |-> Head(queue),
                                    view |-> [View EXCEPT !.doc = FALSE]]]
    /\ overlapped' = (overlapped \/ Asking # {} \/ Working # {})
    /\ UNCHANGED <<docEnabled, rows, counted, point, kw, req, lost>>

\* Mutant: only the points of enabled segments are switched.
SwitchPointsOfEnabled(w) ==
    /\ work[w].pc = "flags"
    /\ point' = [s \in Segs |->
                    IF ~work[w].view.on[s] \/ point[s] = NoPoint
                    THEN point[s]
                    ELSE [point[s] EXCEPT !.doc = work[w].on]]
    /\ work' = [work EXCEPT ![w].pc = "keywords"]
    /\ UNCHANGED <<docEnabled, rows, counted, kw, queue, req, history>>

SwitchPoints(w) ==
    /\ work[w].pc = "flags"
    /\ point' = [s \in Segs |->
                    IF work[w].view.text[s] = None \/ point[s] = NoPoint
                    THEN point[s]
                    ELSE [point[s] EXCEPT !.doc = work[w].on]]
    /\ work' = [work EXCEPT ![w].pc = "keywords"]
    /\ UNCHANGED <<docEnabled, rows, counted, kw, queue, req, history>>

\* Mutant: the keywords of disabled segments are added too.
SwitchAllKeywords(w) ==
    /\ work[w].pc = "keywords"
    /\ LET view == work[w].view IN
       WriteBack([s \in Segs |->
                    IF work[w].on
                    THEN view.kw[s] \union ({view.text[s]} \ {None})
                    ELSE {t \in view.kw[s] : view.text[s] = None}],
                 view)
    /\ work' = [work EXCEPT ![w] = NoWork]
    /\ UNCHANGED <<docEnabled, rows, counted, point, queue, req, history>>

SwitchKeywords(w) ==
    /\ work[w].pc = "keywords"
    /\ LET view == work[w].view IN
       WriteBack([s \in Segs |->
                    IF work[w].on
                    THEN view.kw[s] \union
                         {t \in {view.text[s]} : view.on[s]}
                    ELSE {t \in view.kw[s] : view.text[s] = None}],
                 view)
    /\ work' = [work EXCEPT ![w] = NoWork]
    /\ UNCHANGED <<docEnabled, rows, counted, point, queue, req, history>>

-----------------------------------------------------------------------------
(* Failures: the request dies between its commit and .delay(), and the     *)
(* child between taking a message and the end of its work.                 *)

LoseSend(r) ==
    /\ Doing(r, "send")
    /\ lost' = TRUE
    /\ req' = [req EXCEPT ![r] = NoReq]
    /\ UNCHANGED <<docEnabled, rows, counted, point, kw, queue, work,
                   overlapped>>

Kill(w) ==
    /\ work[w].pc # "idle"
    /\ lost' = TRUE
    /\ work' = [work EXCEPT ![w] = NoWork]
    /\ UNCHANGED <<docEnabled, rows, counted, point, kw, queue, req,
                   overlapped>>

-----------------------------------------------------------------------------
(* Specification.                                                          *)

Ask(r) ==
    \/ \E s \in Segs, t \in Texts : CreateSegment(r, s, t)
                                    \/ UpdateSegment(r, s, t)
    \/ \E s \in Segs, on \in BOOLEAN : SwitchSegment(r, s, on)
    \/ \E s \in Segs : DeleteSegment(r, s)
    \/ \E on \in BOOLEAN : SwitchDocument(r, on)

Continue(r) ==
    \/ Look(r) \/ Relook(r) \/ AddKeywords(r) \/ DropKeywords(r)
    \/ WriteSegment(r) \/ UpsertPoint(r) \/ FlagSegment(r)
    \/ RemoveSegment(r) \/ RemovePoint(r) \/ Sum(r) \/ Count(r) \/ Send(r)

Work(w) == TakeSwitch(w) \/ SwitchPoints(w) \/ SwitchKeywords(w)

Next ==
    \/ \E r \in Reqs : Ask(r) \/ Continue(r) \/ LoseSend(r)
    \/ \E w \in Workers : Work(w) \/ Kill(w)

Spec == Init /\ [][Next]_vars

\* A request that began goes on, and a living worker works off its queue.
Fairness ==
    /\ \A r \in Reqs : WF_vars(Continue(r))
    /\ \A w \in Workers : WF_vars(Work(w))

FairSpec == Spec /\ Fairness

-----------------------------------------------------------------------------
(* What a search finds.                                                    *)

\* Both flags of a point are set.
PassesFilter(p) == p.doc /\ p.on

\* The nearest points among those; a search asks for enough to rank them all.
SemanticHits == {s \in Segs : PassesFilter(point[s])}

\* The table under a word of t, and the rows that exist among its ids.
FullTextHits(t) == {s \in Segs : t \in kw[s] /\ Stored(s)}

\* The strategy picks the retriever; hybrid merges what both find.
Hits(strategy, t) ==
    CASE strategy = "semantic" -> SemanticHits
      [] strategy = "full_text" -> FullTextHits(t)
      [] strategy = "hybrid" -> SemanticHits \cup FullTextHits(t)

\* The hit test shows the rows of what was found.
HitTest(strategy, t) == {s \in Hits(strategy, t) : Stored(s)}

\* A conversation's retrieval tool.
ChatHits(t) == Hits("semantic", t)

-----------------------------------------------------------------------------
(* Properties.                                                             *)

Quiet == Asking = {} /\ Working = {} /\ queue = <<>>

\* The shape of every variable.
TypeOK ==
    /\ docEnabled \in BOOLEAN
    /\ text \in [Segs -> Texts \union {None}]
    /\ enabled \in [Segs -> BOOLEAN]
    /\ unused \in SUBSET Segs
    /\ counted \in [Segs -> Texts \union {None}]
    /\ point \in [Segs -> [text : Texts \union {None}, doc : BOOLEAN,
                           on : BOOLEAN]]
    /\ kw \in [Segs -> SUBSET Texts]
    /\ queue \in Seq(BOOLEAN) /\ Len(queue) <= MaxQueue
    /\ overlapped \in BOOLEAN /\ lost \in BOOLEAN
    /\ \A r \in Reqs : Len(req[r].todo) <= 7
                       /\ req[r].seg \in Segs \union {None}
    /\ \A w \in Workers : work[w].pc \in {"idle", "flags", "keywords"}

\* When a request has ended every segment has one point, with its content and
\* its switch, whatever the tasks are doing: a change made by hand shows at
\* once in a semantic search.  Two requests at a time would break this, as
\* each stores what its own snapshot shows.
EditsShowAtOnce ==
    Asking = {} => \A s \in Segs : /\ point[s].text = text[s]
                                   /\ point[s].on = enabled[s]

\* If no two of them overlapped, the requests and tasks leave two indexes that
\* agree: a full-text search finds exactly the enabled segments of an enabled
\* document under their present keywords and no disabled segment ever, a
\* conversation those of an enabled document, and a hybrid hit test no other.
FullTextMatches ==
    Quiet /\ ~overlapped /\ ~lost =>
        \A t \in Texts :
            LET on == {s \in Segs : enabled[s]}
                with == {s \in on : text[s] = t}
            IN /\ HitTest("full_text", t) \subseteq with
               /\ docEnabled => HitTest("full_text", t) = with
               /\ ChatHits(t) = IF docEnabled THEN on ELSE {}
               /\ HitTest("hybrid", t) \subseteq on

\* The document's counts are those of the segments it has when a request has
\* ended, if requests come one at a time.
CountsAreCurrent == Asking = {} => counted = text

\* As long as requests come one at a time, a switch of the document that is
\* left alone reaches every point in the end, whatever switches wait before
\* it, and those points included that are stored while its message waits or
\* its task has read the rows: a semantic search finds the enabled segments
\* of an enabled document only.  An edit in progress when the switch commits
\* may store a point with the flag of its older snapshot.
SwitchTakesEffect ==
    [](\A q, r \in Asking : q = r) =>
        \A on \in BOOLEAN :
            <>[](docEnabled = on /\ ~lost)
                => <>[](\A s \in Segs : point[s] # NoPoint
                                         => point[s].doc = on)

=============================================================================
