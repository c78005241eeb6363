----------------------------- MODULE MCWorkflow ------------------------------
(* Drafts for the workflow: every graph over a start, two nodes and an end  *)
(* with six possible edges, and lists an editor may send half done.         *)
EXTENDS Workflow

Typ == [s |-> "start", a |-> "llm", b |-> "code", e |-> "end"]
Arrow(p) == Edge(p[1] \o p[2], p[1], Typ[p[1]], p[2], Typ[p[2]])
Plain(i, type, refs) == Node(i, type, i, refs, {"o"}, TRUE, TRUE)

Arrows == << <<"s", "a">>, <<"s", "b">>, <<"a", "b">>, <<"b", "a">>,
             <<"a", "e">>, <<"b", "e">> >>

Graph(B, ra, rb, re) ==
    [nodes |-> << Plain("s", "start", {}), Plain("a", "llm", ra),
                  Plain("b", "code", rb), Plain("e", "end", re) >>,
     edges |-> LET Take(acc, p) == IF p \in B THEN Append(acc, Arrow(p))
                                   ELSE acc
               IN FoldLeft(Take, <<>>, Arrows)]

Reads == { << {}, {Ref("s", "o")}, {Ref("a", "output"), Ref("b", "o")} >>,
           << {Ref("b", "o")}, {Ref("a", "output")}, {} >>,
           << {}, {Ref("a", "q")}, {} >> }

\* Without the mirror images: "ba" only where it closes a cycle with "ab".
Sets == LET free == SUBSET (ToSet(Arrows) \ {<<"b", "a">>})
        IN free \cup {B \cup {<<"b", "a">>} : B \in {x \in free :
                                                    <<"a", "b">> \in x}}

Shapes == {Graph(B, r[1], r[2], r[3]) : B \in Sets, r \in Reads}

S == Plain("s", "start", {})
A == Plain("a", "llm", {Ref("s", "o")})
E == Plain("e", "end", {Ref("a", "output")})
Line == [nodes |-> <<S, A, E>>, edges |-> <<Arrow(<<"s", "a">>),
                                            Arrow(<<"a", "e">>)>>]
With(nodes, edges) == [nodes |-> nodes, edges |-> edges]

Searching == With(<<S, [A EXCEPT !.type = "dataset"], E>>,
                  <<[Arrow(<<"s", "a">>) EXCEPT !.dstType = "dataset"],
                    [Arrow(<<"a", "e">>) EXCEPT !.srcType = "dataset"]>>)

Chain(i, t, j, u, ri, rj) ==
    With(<<S, Plain(i, t, ri), Plain(j, u, rj), Plain("e", "end", {})>>,
         <<Edge("1", "s", "start", i, t), Edge("2", i, t, j, u),
           Edge("3", j, u, "e", "end")>>)

HalfDone == {
    Line, Searching,
    Chain("i", "tool", "j", "http", {Ref("s", "o")}, {Ref("i", "text")}),
    Chain("i", "tool", "j", "template", {}, {Ref("i", "o")}),
    Chain("i", "http", "j", "template", {}, {Ref("i", "status_code")}),
    Chain("i", "template", "j", "dataset", {}, {Ref("i", "output")}),
    \* a second start, a second node of the same title or id
    With(<<[S EXCEPT !.id = "t", !.title = "t"]>> \o Line.nodes, Line.edges),
    With(<<A, [S EXCEPT !.title = "a"], S, E>>, Line.edges),
    With(<<S, [A EXCEPT !.title = "e"], A, A, E>>, Line.edges),
    \* a node its class refuses, another owner's tool, an unknown type
    With(<<S, [A EXCEPT !.ok = FALSE], E>>, Line.edges),
    With(<<S, [A EXCEPT !.type = "tool", !.mine = FALSE], E>>,
         <<[Line.edges[1] EXCEPT !.dstType = "tool"]>> \o Line.edges),
    With(<<S, [A EXCEPT !.type = "iteration"], E>>, Line.edges),
    \* edges twice, of the wrong type, and too many nodes
    With(Line.nodes, Line.edges \o <<[Line.edges[1] EXCEPT !.id = "f"],
                                     [Line.edges[1] EXCEPT !.dst = "e",
                                                           !.dstType = "end"]>>),
    With(Line.nodes, <<[Line.edges[1] EXCEPT !.dstType = "code"]>>
                     \o Line.edges),
    With(Line.nodes \o <<Plain("b", "code", {}), Plain("c", "code", {})>>,
         Line.edges \o <<Edge("1", "s", "start", "b", "code"),
                         Edge("2", "b", "code", "c", "code"),
                         Edge("3", "c", "code", "e", "end")>>)}

MCSent == <<Shapes \cup HalfDone, {Line}>>
=============================================================================
