---------------------------- MODULE WorkflowGraph ----------------------------
(***************************************************************************)
(* The graph of a workflow as the service stores it, and the two checks it *)
(* goes through: the lenient one drops whatever is wrong when a draft is   *)
(* saved, the strict one refuses the whole graph before it is run or       *)
(* published.  A graph is two lists, as in the JSON column.                *)
(*                                                                         *)
(* A node's texts, prompts and parameters are left out: ok says whether    *)
(* the class of its type accepts them, mine whether the tool it calls is a *)
(* builtin one or the caller's own.  refs are the <<node, variable>> pairs *)
(* its inputs read (its outputs, for the end node), vars the outputs it    *)
(* declares for others to read (its inputs, for the start node).           *)
(***************************************************************************)
EXTENDS Integers, FiniteSets, Sequences, SequencesExt

CONSTANT MaxNodes   \* WORKFLOW_MAX_NODES

ASSUME MaxNodesAssumption == MaxNodes \in Nat

Node(id, type, title, refs, vars, ok, mine) ==
    [id |-> id, type |-> type, title |-> title, refs |-> refs,
     vars |-> vars, ok |-> ok, mine |-> mine]

Edge(id, src, srcType, dst, dstType) ==
    [id |-> id, src |-> src, srcType |-> srcType,
     dst |-> dst, dstType |-> dstType]

\* A value that is a reference to another node's variable.
Ref(node, var) == <<node, var>>

NoGraph == [nodes |-> <<>>, edges |-> <<>>]

-----------------------------------------------------------------------------
(* The registry: a class for each type.  Most classes put outputs of their *)
(* own in the place of those that were sent.                               *)

NodeTypes == {"start", "end", "llm", "template", "dataset", "code", "tool",
              "http"}

StartNodeData(n) == n.vars
EndNodeData(n) == {}
CodeNodeData(n) == n.vars
LLMNodeData(n) == {"output"}
TemplateTransformNodeData(n) == {"output"}
DatasetRetrievalNodeData(n) == {"combine_documents"}
HttpRequestNodeData(n) == {"status_code", "text"}
ToolNodeData(n) == {"text"}

\* The node as its class dumps it.
AsClass(n) ==
    [n EXCEPT !.vars =
        CASE n.type = "start" -> StartNodeData(n)
          [] n.type = "end" -> EndNodeData(n)
          [] n.type = "llm" -> LLMNodeData(n)
          [] n.type = "template" -> TemplateTransformNodeData(n)
          [] n.type = "dataset" -> DatasetRetrievalNodeData(n)
          [] n.type = "code" -> CodeNodeData(n)
          [] n.type = "tool" -> ToolNodeData(n)
          [] n.type = "http" -> HttpRequestNodeData(n)]

-----------------------------------------------------------------------------
(* Reading a graph.                                                        *)

Nodes(g) == ToSet(g.nodes)
Edges(g) == ToSet(g.edges)
Ids(g) == {n.id : n \in Nodes(g)}
NodeOf(g, i) == CHOOSE n \in Nodes(g) : n.id = i

\* The ends of an edge are nodes, of the types it says they are.
Fits(nodes, e) ==
    /\ \E n \in nodes : n.id = e.src /\ n.type = e.srcType
    /\ \E n \in nodes : n.id = e.dst /\ n.type = e.dstType

\* The adjacency lists, forwards and backwards.
Next1(g, i) == {e.dst : e \in {x \in Edges(g) : x.src = i}}
Prev1(g, i) == {e.src : e \in {x \in Edges(g) : x.dst = i}}

\* The nodes the adjacency list has an entry for.
Joined(g) == UNION {{e.src, e.dst} : e \in Edges(g)}

-----------------------------------------------------------------------------
(* The lenient check: the items are taken in order, and one that does not  *)
(* fit those kept before it is left out.  A start node that its class      *)
(* accepts is counted, even when its id or its title then rules it out.    *)

IsPole(n) == n.type \in {"start", "end"}

\* A builtin tool that exists, or one of the caller's own plugins.
Allowed(n) == n.type = "tool" => n.mine

Clash(kept, n) ==
    \E i \in DOMAIN kept : kept[i].id = n.id \/ kept[i].title = n.title

TakeNode(acc, n) ==
    LET fit == n.type \in NodeTypes /\ n.ok
        second == IsPole(n) /\ n.type \in acc.poles
        wanted == fit /\ ~second /\ ~Clash(acc.kept, n) /\ Allowed(n)
    IN [kept |-> IF wanted THEN Append(acc.kept, AsClass(n))
                ELSE acc.kept,
        poles |-> IF fit /\ IsPole(n) THEN acc.poles \cup {n.type}
                  ELSE acc.poles]

KeptNodes(g) ==
    LET take[k \in 0..Len(g.nodes)] ==
            IF k = 0 THEN [kept |-> <<>>, poles |-> {}]
            ELSE TakeNode(take[k - 1], g.nodes[k])
    IN take[Len(g.nodes)].kept

\* An edge joins nodes of the given list and is new to those kept so far.
TakeEdge(nodes, kept, e) ==
    IF /\ Fits(ToSet(nodes), e)
       /\ \A i \in DOMAIN kept : /\ kept[i].id # e.id
                                 /\ \/ kept[i].src # e.src
                                    \/ kept[i].dst # e.dst
    THEN Append(kept, e) ELSE kept

KeptEdges(nodes, edges) ==
    LET take[k \in 0..Len(edges)] ==
            IF k = 0 THEN <<>> ELSE TakeEdge(nodes, take[k - 1], edges[k])
    IN take[Len(edges)]

\* Mutant: an edge is compared with the nodes that were sent.
LenientOnSent(g) ==
    [nodes |-> KeptNodes(g), edges |-> KeptEdges(g.nodes, g.edges)]

Lenient(g) ==
    [nodes |-> KeptNodes(g), edges |-> KeptEdges(KeptNodes(g), g.edges)]

-----------------------------------------------------------------------------
(* The strict check.                                                       *)

Distinct(keys) ==
    \A i, j \in DOMAIN keys : keys[i] = keys[j] => i = j

\* Of the nodes without an edge into them (out of them) there is exactly one,
\* the start (the end).
OnePole(bare, type) == Cardinality(bare) = 1 /\ \A n \in bare : n.type = type

Sources(g) == {n \in Nodes(g) : Prev1(g, n.id) = {}}
Sinks(g) == {n \in Nodes(g) : Next1(g, n.id) = {}}

\* The breadth-first search from the start, compared with the number of
\* entries of the adjacency list.
Connected(g) ==
    LET visit[seen \in SUBSET Ids(g)] ==
            LET more == seen \cup UNION {Next1(g, i) : i \in seen}
            IN IF more = seen THEN seen ELSE visit[more]
        start == (CHOOSE n \in Sources(g) : TRUE).id
    IN Cardinality(visit[{start}]) = Cardinality(Joined(g))

\* Mutant: only an edge from a node to itself counts as a cycle.
CyclicAtOneNode(g) == \E i \in Ids(g) : i \in Next1(g, i)

\* Kahn's algorithm: take the nodes whose predecessors have all been taken,
\* as long as there are some; a cycle is what is left.
Cyclic(g) ==
    LET sort[done \in SUBSET Ids(g)] ==
            LET zero == {i \in Ids(g) \ done : Prev1(g, i) \subseteq done}
            IN IF zero = {} THEN done ELSE sort[done \cup zero]
    IN sort[{}] # Ids(g)

\* Every node a path leads from, the node itself excepted.
Predecessors(g, i) ==
    LET back[seen \in SUBSET Ids(g)] ==
            LET more == seen \cup UNION {Prev1(g, j) : j \in seen}
            IN IF more = seen THEN seen ELSE back[more]
    IN back[{i}] \ {i}

\* What a node reads belongs to a predecessor and is declared there.
RefsHold(g) ==
    \A n \in Nodes(g) : n.type # "start" =>
        \A r \in n.refs : /\ r[1] \in Predecessors(g, n.id)
                          /\ r[2] \in NodeOf(g, r[1]).vars

Strict(g) ==
    LET Poles(t) == Cardinality({i \in DOMAIN g.nodes : g.nodes[i].type = t})
    IN /\ g.nodes # <<>> /\ g.edges # <<>> /\ Len(g.nodes) <= MaxNodes
       /\ \A n \in Nodes(g) : n.type \in NodeTypes /\ n.ok
       /\ Poles("start") <= 1 /\ Poles("end") <= 1
       /\ Distinct([i \in DOMAIN g.nodes |-> g.nodes[i].id])
       /\ Distinct([i \in DOMAIN g.nodes |-> g.nodes[i].title])
       /\ Distinct([i \in DOMAIN g.edges |-> g.edges[i].id])
       /\ Distinct([i \in DOMAIN g.edges |->
                       <<g.edges[i].src, g.edges[i].dst>>])
       /\ \A e \in Edges(g) : Fits(Nodes(g), e)
       /\ OnePole(Sources(g), "start") /\ OnePole(Sinks(g), "end")
       /\ Connected(g) /\ ~Cyclic(g)
       /\ RefsHold(g)

-----------------------------------------------------------------------------
(* What the strict check is meant to accept, in the words of graph theory: *)
(* an acyclic graph, each of whose nodes lies on a way from its start to   *)
(* its end and reads declared variables of nodes that come before it.      *)

Lists(g) ==
    LET ids == [i \in DOMAIN g.nodes |-> g.nodes[i].id]
        pairs == [i \in DOMAIN g.edges |-> <<g.edges[i].src, g.edges[i].dst>>]
    IN /\ IsInjective(ids) /\ IsInjective(pairs)
       /\ IsInjective([i \in DOMAIN g.nodes |-> g.nodes[i].title])
       /\ IsInjective([i \in DOMAIN g.edges |-> g.edges[i].id])
       /\ \A e \in Edges(g) : Fits(Nodes(g), e)

\* A way leads from m to n, or they are the same: every set that holds m and
\* that no edge leaves holds n.
Way(g, m, n) ==
    \A S \in SUBSET Ids(g) :
        m \in S /\ (\A i \in S : Next1(g, i) \subseteq S) => n \in S

Acyclic(g) == \A e \in Edges(g) : ~Way(g, e.dst, e.src)

WellFormed(g) ==
    LET Pole(t) == {n.id : n \in {x \in Nodes(g) : x.type = t}}
    IN /\ Lists(g) /\ Len(g.nodes) <= MaxNodes
       /\ \A n \in Nodes(g) : n.type \in NodeTypes /\ n.ok
       /\ Acyclic(g)
       /\ \E s, e \in Ids(g) :
             /\ s # e /\ Pole("start") = {s} /\ Pole("end") = {e}
             /\ \A i \in Ids(g) : Way(g, s, i) /\ Way(g, i, e)
       /\ \A n \in Nodes(g) : n.type # "start" =>
             \A r \in n.refs :
                \E m \in Nodes(g) : /\ m.id = r[1] /\ m.id # n.id
                                    /\ Way(g, m.id, n.id) /\ r[2] \in m.vars
=============================================================================
