------------------------- MODULE KnowledgeSyncProofs -------------------------
(***************************************************************************)
(* What KnowledgeSync promises for any number of segments, texts, requests *)
(* and workers: an edit shows at once unless another request is about the  *)
(* same segment, the counts are current when one request is worked on at a *)
(* time, and the two indexes agree when no two requests or tasks have      *)
(* overlapped.                                                             *)
(*                                                                         *)
(* The argument follows one request through the stores it still has to     *)
(* visit.  A stage is what is left of its list; Edit says what the row and *)
(* the point of its segment look like at each stage, Tally the same of the *)
(* counts, Seen and Entries of the snapshots and the keyword entries.      *)
(*                                                                         *)
(* The last part is about the keyword table under it: KeywordTable         *)
(* implements AtomicKeywordTable.                                          *)
(***************************************************************************)
EXTENDS KnowledgeSync, SequenceTheorems, TLAPS

-----------------------------------------------------------------------------
(* The stages of a request.                                                *)

\* Adding a segment, a new content, the same content again, switching a
\* segment on and off, deleting one, switching the document.
Creating == {"createLook", "createUpsert", "createAdd"}
Changing == {"changeDrop", "changeWrite", "changeLook", "changeAdd",
             "changeRelook", "changeUpsert"}
Repeating == {"sameDrop", "sameWrite", "sameLook", "sameAdd", "sameRelook"}
SwitchingOn == {"onLook", "onFlag", "onAdd"}
SwitchingOff == {"offLook", "offFlag", "offDrop"}
Deleting == {"deleteDrop", "deleteRow", "deletePoint"}

Stages == Creating \union Changing \union Repeating \union SwitchingOn
          \union SwitchingOff \union Deleting \union {"sum", "count", "send"}

\* The list at a stage.
Rest(k) ==
    CASE k = "createLook" -> <<"look", "upsert", "add", "sum", "count">>
      [] k = "createUpsert" -> <<"upsert", "add", "sum", "count">>
      [] k = "createAdd" -> <<"add", "sum", "count">>
      [] k = "changeDrop" -> <<"drop", "write", "look", "addIfOn", "relook",
                               "upsert", "count">>
      [] k = "changeWrite" -> <<"write", "look", "addIfOn", "relook",
                                "upsert", "count">>
      [] k = "changeLook" -> <<"look", "addIfOn", "relook", "upsert",
                               "count">>
      [] k = "changeAdd" -> <<"addIfOn", "relook", "upsert", "count">>
      [] k = "changeRelook" -> <<"relook", "upsert", "count">>
      [] k = "changeUpsert" -> <<"upsert", "count">>
      [] k = "sameDrop" -> <<"drop", "write", "look", "addIfOn", "relook",
                             "count">>
      [] k = "sameWrite" -> <<"write", "look", "addIfOn", "relook", "count">>
      [] k = "sameLook" -> <<"look", "addIfOn", "relook", "count">>
      [] k = "sameAdd" -> <<"addIfOn", "relook", "count">>
      [] k = "sameRelook" -> <<"relook", "count">>
      [] k = "onLook" -> <<"look", "flag", "add">>
      [] k = "onFlag" -> <<"flag", "add">>
      [] k = "onAdd" -> <<"add">>
      [] k = "offLook" -> <<"look", "flag", "drop">>
      [] k = "offFlag" -> <<"flag", "drop">>
      [] k = "offDrop" -> <<"drop">>
      [] k = "deleteDrop" -> <<"drop", "delete", "unpoint", "sum", "count">>
      [] k = "deleteRow" -> <<"delete", "unpoint", "sum", "count">>
      [] k = "deletePoint" -> <<"unpoint", "sum", "count">>
      [] k = "sum" -> <<"sum", "count">>
      [] k = "count" -> <<"count">>
      [] k = "send" -> <<"send">>

\* The stage that follows.
After(k) ==
    CASE k = "createLook" -> "createUpsert"
      [] k = "createUpsert" -> "createAdd"
      [] k = "changeDrop" -> "changeWrite"
      [] k = "changeWrite" -> "changeLook"
      [] k = "changeLook" -> "changeAdd"
      [] k = "changeAdd" -> "changeRelook"
      [] k = "changeRelook" -> "changeUpsert"
      [] k = "sameDrop" -> "sameWrite"
      [] k = "sameWrite" -> "sameLook"
      [] k = "sameLook" -> "sameAdd"
      [] k = "sameAdd" -> "sameRelook"
      [] k = "onLook" -> "onFlag"
      [] k = "onFlag" -> "onAdd"
      [] k = "offLook" -> "offFlag"
      [] k = "offFlag" -> "offDrop"
      [] k = "deleteDrop" -> "deleteRow"
      [] k = "deleteRow" -> "deletePoint"
      [] k \in {"createAdd", "deletePoint"} -> "sum"
      [] k \in {"changeUpsert", "sameRelook", "sum"} -> "count"
      [] k \in {"onAdd", "offDrop", "count", "send"} -> "done"

At(r, k) == req[r].todo = Rest(k)

-----------------------------------------------------------------------------
(* The invariant.                                                          *)

ViewType == [text : [Segs -> Texts \union {None}], on : [Segs -> BOOLEAN],
             doc : BOOLEAN, kw : [Segs -> SUBSET Texts]]

ReqType == [todo : {<<>>} \union {Rest(k) : k \in Stages},
            seg : Segs \union {None}, text : Texts \union {None},
            on : BOOLEAN, view : ViewType]

WorkType == [pc : {"idle", "flags", "keywords"}, on : BOOLEAN,
             view : ViewType]

Types ==
    /\ TypeOK
    /\ req \in [Reqs -> ReqType]
    /\ work \in [Workers -> WorkType]

\* What a request knows of its segment at stage k.
Sound(r, k) ==
    /\ (IF k = "send" THEN req[r].seg = None ELSE req[r].seg \in Segs)
    /\ k \in Changing \union Repeating => req[r].text # None
    /\ k \in {"createUpsert", "createAdd", "changeAdd", "sameAdd", "onFlag",
              "onAdd"}
        => req[r].view.text[req[r].seg] # None

\* A segment that is on has a row, and one whose id is unused has none.
Rows ==
    /\ \A s \in Segs : enabled[s] => Stored(s)
    /\ \A s \in unused : ~Stored(s)
    /\ \A w \in Workers, s \in Segs :
        work[w].view.on[s] => work[w].view.text[s] # None

Sane ==
    /\ Types /\ Rows
    /\ \A r \in Asking : \E k \in Stages : At(r, k) /\ Sound(r, k)

\* No two requests are about one segment at a time.
Apart ==
    \A q, r \in Asking :
        req[q].seg = req[r].seg /\ req[q].seg \in Segs => q = r

\* One request is worked on at a time.
Alone == \A q, r \in Asking : q = r

\* The point of s shows its row.
Shown(s) == point[s].text = text[s] /\ point[s].on = enabled[s]

\* Where the row and the point of its segment stand when r is at stage k.
Edit(r, k) ==
    LET s == req[r].seg IN
    /\ Sound(r, k)
    /\ k \in {"createAdd", "changeDrop", "changeWrite", "onAdd", "offDrop",
              "deleteDrop", "deleteRow", "sum", "count"} \union Repeating
        => Shown(s)
    /\ k \in (Stages \ {"deletePoint", "sum", "count", "send"})
        => Stored(s)
    /\ k \in {"createLook", "createUpsert", "changeLook", "changeAdd",
              "changeRelook", "changeUpsert"} \union Repeating
        => text[s] = req[r].text
    /\ k \in {"createLook", "createUpsert"} => enabled[s] /\ req[r].on
    /\ k \in Changing => ~req[r].on /\ point[s].on = enabled[s]
    /\ k \in {"changeAdd", "changeRelook", "changeUpsert", "sameAdd"}
        => req[r].view.on[s] = enabled[s]
    /\ k \in SwitchingOn \union SwitchingOff
        => enabled[s] = req[r].on /\ point[s].text = text[s]
    /\ k = "deletePoint" => text[s] = None /\ ~enabled[s]

Edits ==
    /\ \A r \in Asking : \E k \in Stages : At(r, k) /\ Edit(r, k)
    /\ \A s \in Segs : (\A r \in Asking : req[r].seg # s) => Shown(s)

\* Where the counts stand.
Tally(r, k) ==
    /\ k \in {"changeDrop", "changeWrite", "deleteDrop", "deleteRow", "send"}
             \union Repeating \union SwitchingOn \union SwitchingOff
        => counted = text
    /\ k \in {"changeAdd", "changeRelook", "changeUpsert", "sameAdd",
              "sameRelook", "count"}
        => req[r].view.text = text

Tallies ==
    /\ Alone
    /\ \A r \in Asking : \E k \in Stages :
        At(r, k) /\ Edit(r, k) /\ Tally(r, k)
    /\ Asking = {} => counted = text

-----------------------------------------------------------------------------
(* The two indexes.                                                        *)

Solo == /\ Alone
        /\ \A v, w \in Working : v = w
        /\ Asking = {} \/ Working = {}

\* The entries of s are its content, and none while it is off.
Listed(s) == kw[s] \subseteq (IF enabled[s] THEN {text[s]} ELSE {})

\* The last switch is the one the document shows.
LastIsCurrent == queue # <<>> => queue[Len(queue)] = docEnabled

Flagged(s) == point[s].text # None => point[s].doc = docEnabled
Full(s) == docEnabled /\ enabled[s] => text[s] \in kw[s]

\* What the snapshot of r still agrees with at stage k.
Seen(r, k) ==
    LET s == req[r].seg
        view == req[r].view
    IN
    /\ k \in {"createUpsert", "createAdd", "changeDrop", "changeAdd",
              "sameDrop", "sameAdd", "onFlag", "onAdd", "offFlag", "offDrop",
              "deleteDrop"}
        => view.kw = kw
    /\ k \in {"createUpsert", "createAdd", "changeAdd", "sameAdd", "onFlag",
              "onAdd"}
        => view.text = text
    /\ k \in {"createUpsert", "changeAdd", "changeRelook", "changeUpsert"}
        => view.doc = docEnabled
    /\ k \in {"createAdd"} \union SwitchingOn => enabled[s]
    /\ k \in SwitchingOff => ~enabled[s]

\* The stages at which its segment has its entry.
Filed == {"changeDrop", "sameDrop", "changeRelook", "sameRelook",
          "changeUpsert", "offLook", "offFlag", "offDrop", "deleteDrop",
          "deletePoint", "sum", "count"}

\* Where entries, flags and the document's switch stand at stage k.
Entries(r, k) ==
    LET s == req[r].seg IN
    /\ \A x \in Segs \ {s} : Listed(x)
    /\ k \notin SwitchingOff \union {"send"} => Listed(s)
    /\ k \in {"changeWrite", "sameWrite", "deleteRow"} => kw[s] = {}
    /\ ~lost /\ k = "send" => req[r].on = docEnabled
    /\ ~lost /\ k # "send" => LastIsCurrent
    /\ ~lost /\ k # "send" /\ queue = <<>> =>
        /\ \A x \in Segs : Flagged(x)
        /\ \A x \in Segs \ {s} : Full(x)
        /\ k \in Filed => Full(s)

\* Where they stand when worker w carries out a switch.
Task(w) ==
    /\ \A s \in Segs : Listed(s)
    /\ work[w].view.text = text /\ work[w].view.on = enabled
    /\ work[w].view.kw = kw
    /\ ~lost => LastIsCurrent
    /\ ~lost /\ queue = <<>> =>
        /\ work[w].on = docEnabled
        /\ work[w].pc = "keywords" => \A s \in Segs : Flagged(s)

Rested ==
    /\ \A s \in Segs : Listed(s)
    /\ ~lost => LastIsCurrent
    /\ ~lost /\ queue = <<>> => \A s \in Segs : Flagged(s) /\ Full(s)

InStep ==
    /\ Solo
    /\ \A r \in Asking : \E k \in Stages :
        At(r, k) /\ Edit(r, k) /\ Seen(r, k) /\ Entries(r, k)
    /\ \A w \in Working : Task(w)
    /\ Asking = {} /\ Working = {} => Rested

IndexInv == Sane /\ (~overlapped => Edits /\ InStep)

-----------------------------------------------------------------------------
(* Lists.                                                                  *)

\* A list that is not at its end goes on as the list of the next stage.
LEMMA RestShape ==
    ASSUME NEW k \in Stages
    PROVE  /\ Len(Rest(k)) \in 1..7
           /\ Rest(k) # <<>>
           /\ ((Len(Rest(k)) = 1) <=> (After(k) = "done"))
           /\ After(k) # "done" => After(k) \in Stages
<1> DEFINE One == {"onAdd", "offDrop", "count", "send"}
           Two == {"changeUpsert", "sameRelook", "onFlag", "offFlag", "sum"}
           Three == {"createAdd", "changeRelook", "sameAdd", "onLook",
                     "offLook", "deletePoint"}
           Four == {"createUpsert", "changeAdd", "sameLook", "deleteRow"}
           Five == {"createLook", "changeLook", "sameWrite", "deleteDrop"}
           Six == {"changeWrite", "sameDrop"}
<1>1. ASSUME k \in One PROVE Len(Rest(k)) = 1 BY <1>1 DEF Rest
<1>2. ASSUME k \in Two PROVE Len(Rest(k)) = 2 BY <1>2 DEF Rest
<1>3. ASSUME k \in Three PROVE Len(Rest(k)) = 3 BY <1>3 DEF Rest
<1>4. ASSUME k \in Four PROVE Len(Rest(k)) = 4 BY <1>4 DEF Rest
<1>5. ASSUME k \in Five PROVE Len(Rest(k)) = 5 BY <1>5 DEF Rest
<1>6. ASSUME k \in Six PROVE Len(Rest(k)) = 6 BY <1>6 DEF Rest
<1>7. ASSUME k = "changeDrop" PROVE Len(Rest(k)) = 7 BY <1>7 DEF Rest
<1>8. ((k \in One) <=> (After(k) = "done"))
  BY DEF After, Stages, Creating, Changing, Repeating, SwitchingOn,
         SwitchingOff, Deleting
<1>9. k \notin One => After(k) \in Stages
  BY DEF After, Stages, Creating, Changing, Repeating, SwitchingOn,
         SwitchingOff, Deleting
<1>10. k \in One \union Two \union Three \union Four \union Five \union Six
             \union {"changeDrop"}
  BY DEF Stages, Creating, Changing, Repeating, SwitchingOn, SwitchingOff,
         Deleting
<1> DEFINE n == Len(Rest(k))
<1>11. n \in 1..7 /\ ((n = 1) <=> (k \in One))
  <2> HIDE DEF n
  <2>1. CASE k \in One BY <1>1, <2>1 DEF n
  <2>2. CASE k \in Two \union Three \union Four
    <3>1. n = 2 \/ n = 3 \/ n = 4 BY <1>2, <1>3, <1>4, <2>2 DEF n
    <3>2. QED BY <2>2, <3>1
  <2>3. CASE k \in Five \union Six \union {"changeDrop"}
    <3>1. n = 5 \/ n = 6 \/ n = 7 BY <1>5, <1>6, <1>7, <2>3 DEF n
    <3>2. QED BY <2>3, <3>1
  <2>4. QED BY <1>10, <2>1, <2>2, <2>3
<1>12. Rest(k) # <<>> BY <1>11
<1> QED BY <1>8, <1>9, <1>11, <1>12

\* What is left after the first step is the list of the next stage.
LEMMA RestTail ==
    ASSUME NEW k \in Stages, After(k) # "done"
    PROVE  Tail(Rest(k)) = Rest(After(k))
<1>1. CASE k = "createLook" BY <1>1 DEF Rest, After
<1>2. CASE k = "createUpsert" BY <1>2 DEF Rest, After
<1>3. CASE k = "createAdd" BY <1>3 DEF Rest, After
<1>4. CASE k = "changeDrop" BY <1>4 DEF Rest, After
<1>5. CASE k = "changeWrite" BY <1>5 DEF Rest, After
<1>6. CASE k = "changeLook" BY <1>6 DEF Rest, After
<1>7. CASE k = "changeAdd" BY <1>7 DEF Rest, After
<1>8. CASE k = "changeRelook" BY <1>8 DEF Rest, After
<1>9. CASE k = "changeUpsert" BY <1>9 DEF Rest, After
<1>10. CASE k = "sameDrop" BY <1>10 DEF Rest, After
<1>11. CASE k = "sameWrite" BY <1>11 DEF Rest, After
<1>12. CASE k = "sameLook" BY <1>12 DEF Rest, After
<1>13. CASE k = "sameAdd" BY <1>13 DEF Rest, After
<1>14. CASE k = "sameRelook" BY <1>14 DEF Rest, After
<1>15. CASE k = "onLook" BY <1>15 DEF Rest, After
<1>16. CASE k = "onFlag" BY <1>16 DEF Rest, After
<1>17. CASE k = "offLook" BY <1>17 DEF Rest, After
<1>18. CASE k = "offFlag" BY <1>18 DEF Rest, After
<1>19. CASE k = "deleteDrop" BY <1>19 DEF Rest, After
<1>20. CASE k = "deleteRow" BY <1>20 DEF Rest, After
<1>21. CASE k = "deletePoint" BY <1>21 DEF Rest, After
<1>22. CASE k = "sum" BY <1>22 DEF Rest, After
<1>23. QED
  BY <1>1, <1>2, <1>3, <1>4, <1>5, <1>6, <1>7, <1>8, <1>9, <1>10, <1>11,
     <1>12, <1>13, <1>14, <1>15, <1>16, <1>17, <1>18, <1>19, <1>20, <1>21,
     <1>22
     DEF Stages, Creating, Changing, Repeating, SwitchingOn, SwitchingOff,
         Deleting, After

\* What is next at a stage.
Front(k) ==
    CASE k \in {"createLook", "changeLook", "sameLook", "onLook", "offLook"}
           -> "look"
      [] k \in {"changeRelook", "sameRelook"} -> "relook"
      [] k \in {"createUpsert", "changeUpsert"} -> "upsert"
      [] k \in {"createAdd", "onAdd"} -> "add"
      [] k \in {"changeAdd", "sameAdd"} -> "addIfOn"
      [] k \in {"changeDrop", "sameDrop", "offDrop", "deleteDrop"} -> "drop"
      [] k \in {"changeWrite", "sameWrite"} -> "write"
      [] k \in {"onFlag", "offFlag"} -> "flag"
      [] k = "deleteRow" -> "delete"
      [] k = "deletePoint" -> "unpoint"
      [] k = "sum" -> "sum"
      [] k = "count" -> "count"
      [] k = "send" -> "send"

\* The first step of the list at a stage.
LEMMA RestHead ==
    ASSUME NEW k \in Stages
    PROVE  Head(Rest(k)) = Front(k)
<1>1. CASE k \in Creating \union Deleting
  BY <1>1 DEF Rest, Front, Creating, Deleting
<1>2. CASE k \in Changing BY <1>2 DEF Rest, Front, Changing
<1>3. CASE k \in Repeating BY <1>3 DEF Rest, Front, Repeating
<1>4. CASE k \in SwitchingOn \union SwitchingOff
  BY <1>4 DEF Rest, Front, SwitchingOn, SwitchingOff
<1>5. CASE k \in {"sum", "count", "send"} BY <1>5 DEF Rest, Front
<1>6. QED BY <1>1, <1>2, <1>3, <1>4, <1>5 DEF Stages

\* The stages of a step.
LEMMA FrontStages ==
    ASSUME NEW k \in Stages
    PROVE  /\ Front(k) = "look" =>
                k \in {"createLook", "changeLook", "sameLook", "onLook",
                       "offLook"}
           /\ Front(k) = "relook" => k \in {"changeRelook", "sameRelook"}
           /\ Front(k) = "upsert" => k \in {"createUpsert", "changeUpsert"}
           /\ Front(k) = "add" => k \in {"createAdd", "onAdd"}
           /\ Front(k) = "addIfOn" => k \in {"changeAdd", "sameAdd"}
           /\ Front(k) = "drop" =>
                k \in {"changeDrop", "sameDrop", "offDrop", "deleteDrop"}
           /\ Front(k) = "write" => k \in {"changeWrite", "sameWrite"}
           /\ Front(k) = "flag" => k \in {"onFlag", "offFlag"}
           /\ Front(k) = "delete" => k = "deleteRow"
           /\ Front(k) = "unpoint" => k = "deletePoint"
           /\ Front(k) = "sum" => k = "sum"
           /\ Front(k) = "count" => k = "count"
           /\ Front(k) = "send" => k = "send"
BY DEF Front, Stages, Creating, Changing, Repeating, SwitchingOn,
       SwitchingOff, Deleting

\* The lists that an edit puts together from two parts.
LEMMA FiveAndOne ==
    ASSUME NEW a, NEW b, NEW c, NEW d, NEW e, NEW f
    PROVE  <<a, b, c, d, e>> \o <<f>> = <<a, b, c, d, e, f>>
<1> DEFINE L == <<a, b, c, d, e>> \o <<f>>
           M == <<a, b, c, d, e, f>>
           S == {a, b, c, d, e, f}
<1>1. L \in Seq(S) /\ M \in Seq(S) OBVIOUS
<1>2. /\ Len(L) = 6 /\ L[1] = a /\ L[2] = b /\ L[3] = c /\ L[4] = d
      /\ L[5] = e /\ L[6] = f
  OBVIOUS
<1>3. /\ Len(M) = 6 /\ M[1] = a /\ M[2] = b /\ M[3] = c /\ M[4] = d
      /\ M[5] = e /\ M[6] = f
  OBVIOUS
<1> HIDE DEF L, M, S
<1>4. \A i \in 1..6 : i = 1 \/ i = 2 \/ i = 3 \/ i = 4 \/ i = 5 \/ i = 6
  OBVIOUS
<1>5. \A i \in 1..6 : L[i] = M[i] BY <1>2, <1>3, <1>4
<1>6. QED BY <1>1, <1>2, <1>3, <1>5, SeqEqual DEF L, M

\* The same for a longer list.
LEMMA SixAndOne ==
    ASSUME NEW a, NEW b, NEW c, NEW d, NEW e, NEW f, NEW g
    PROVE  <<a, b, c, d, e, f>> \o <<g>> = <<a, b, c, d, e, f, g>>
<1> DEFINE L == <<a, b, c, d, e, f>> \o <<g>>
           M == <<a, b, c, d, e, f, g>>
           S == {a, b, c, d, e, f, g}
<1>1. L \in Seq(S) /\ M \in Seq(S) OBVIOUS
<1>2. /\ Len(L) = 7 /\ L[1] = a /\ L[2] = b /\ L[3] = c /\ L[4] = d
      /\ L[5] = e /\ L[6] = f /\ L[7] = g
  OBVIOUS
<1>3. /\ Len(M) = 7 /\ M[1] = a /\ M[2] = b /\ M[3] = c /\ M[4] = d
      /\ M[5] = e /\ M[6] = f /\ M[7] = g
  OBVIOUS
<1> HIDE DEF L, M, S
<1>4. \A i \in 1..7 : \/ i = 1 \/ i = 2 \/ i = 3 \/ i = 4 \/ i = 5
                      \/ i = 6 \/ i = 7
  OBVIOUS
<1>5. \A i \in 1..7 : L[i] = M[i] BY <1>2, <1>3, <1>4
<1>6. QED BY <1>1, <1>2, <1>3, <1>5, SeqEqual DEF L, M

\* The lists a request begins with.
LEMMA FirstLists ==
    /\ <<"look", "upsert", "add", "sum", "count">> = Rest("createLook")
    /\ <<"drop", "write", "look", "addIfOn", "relook">>
       \o <<"upsert">> \o <<"count">> = Rest("changeDrop")
    /\ <<"drop", "write", "look", "addIfOn", "relook">>
       \o <<>> \o <<"count">> = Rest("sameDrop")
    /\ <<"look", "flag", "add">> = Rest("onLook")
    /\ <<"look", "flag", "drop">> = Rest("offLook")
    /\ <<"drop", "delete", "unpoint", "sum", "count">> = Rest("deleteDrop")
    /\ <<"send">> = Rest("send")
<1>1. <<"look", "upsert", "add", "sum", "count">> = Rest("createLook")
  BY DEF Rest
<1>2. <<"drop", "write", "look", "addIfOn", "relook">>
      \o <<"upsert">> \o <<"count">> = Rest("changeDrop")
  <2>1. <<"drop", "write", "look", "addIfOn", "relook">> \o <<"upsert">>
        = <<"drop", "write", "look", "addIfOn", "relook", "upsert">>
    BY FiveAndOne
  <2>2. <<"drop", "write", "look", "addIfOn", "relook", "upsert">>
        \o <<"count">>
        = <<"drop", "write", "look", "addIfOn", "relook", "upsert", "count">>
    BY SixAndOne
  <2>3. QED BY <2>1, <2>2 DEF Rest
<1>3. <<"drop", "write", "look", "addIfOn", "relook">>
      \o <<>> \o <<"count">> = Rest("sameDrop")
  BY FiveAndOne DEF Rest
<1>4. <<"look", "flag", "add">> = Rest("onLook") BY DEF Rest
<1>5. <<"look", "flag", "drop">> = Rest("offLook") BY DEF Rest
<1>6. <<"drop", "delete", "unpoint", "sum", "count">> = Rest("deleteDrop")
  BY DEF Rest
<1>7. <<"send">> = Rest("send") BY DEF Rest
<1>8. QED BY <1>1, <1>2, <1>3, <1>4, <1>5, <1>6, <1>7

-----------------------------------------------------------------------------
(* Steps of one request.                                                   *)

\* Nobody has seen anything to begin with.
LEMMA NoViewTyped ==
    /\ NoView \in ViewType
    /\ \A s \in Segs : ~NoView.on[s] /\ NoView.text[s] = None
BY DEF NoView, ViewType

\* A request that does not run has nothing to do.
LEMMA NoReqTyped == NoReq \in ReqType /\ NoReq.todo = <<>>
BY NoViewTyped DEF NoReq, ReqType

\* An idle worker has seen nothing.
LEMMA NoWorkTyped ==
    /\ NoWork \in WorkType /\ NoWork.pc = "idle"
    /\ \A s \in Segs : ~NoWork.view.on[s]
BY NoViewTyped DEF NoWork, WorkType

\* The snapshots a step takes.
LEMMA ViewsTyped ==
    ASSUME TypeOK
    PROVE  /\ View \in ViewType /\ TableView \in ViewType
           /\ RowsView \in ViewType /\ [View EXCEPT !.doc = FALSE] \in ViewType
           /\ View.text = text /\ View.on = enabled /\ View.kw = kw
           /\ View.doc = docEnabled /\ TableView.kw = kw
           /\ RowsView.text = text
BY DEF TypeOK, View, TableView, RowsView, NoView, ViewType

\* A request at its last stage ends, another one is at the next.
Advanced(r, k, v) ==
    IF After(k) = "done"
    THEN req' = [req EXCEPT ![r] = NoReq]
    ELSE req' = [req EXCEPT ![r] = [@ EXCEPT !.todo = Rest(After(k)),
                                             !.view = v]]

\* A step that ends in Goes takes a request to its next stage.
LEMMA GoesAdvances ==
    ASSUME NEW r, NEW k \in Stages, NEW v, At(r, k), Goes(r, v)
    PROVE  Advanced(r, k, v)
<1>1. req[r].todo = Rest(k) BY DEF At
<1>2. CASE After(k) = "done"
  <2>1. Len(req[r].todo) = 1 BY <1>1, <1>2, RestShape
  <2>2. QED BY <1>2, <2>1 DEF Advanced, Goes
<1>3. CASE After(k) # "done"
  <2>1. Len(req[r].todo) # 1 BY <1>1, <1>3, RestShape
  <2>2. Tail(req[r].todo) = Rest(After(k)) BY <1>1, <1>3, RestTail
  <2>3. QED BY <1>3, <2>1, <2>2 DEF Advanced, Goes
<1>4. QED BY <1>2, <1>3

\* Where a request goes.
LEMMA AdvancedTo ==
    ASSUME req \in [Reqs -> ReqType], NEW r \in Reqs, NEW k \in Stages,
           NEW v \in ViewType, Advanced(r, k, v)
    PROVE  /\ req' \in [Reqs -> ReqType]
           /\ \A q \in Reqs \ {r} : req'[q] = req[q]
           /\ After(k) = "done" => req'[r] = NoReq /\ req'[r].todo = <<>>
           /\ After(k) # "done" =>
                /\ req'[r].todo = Rest(After(k)) /\ req'[r].view = v
                /\ req'[r].seg = req[r].seg /\ req'[r].text = req[r].text
                /\ req'[r].on = req[r].on
<1>1. CASE After(k) = "done"
  <2>1. req' = [req EXCEPT ![r] = NoReq] BY <1>1 DEF Advanced
  <2>2. NoReq \in ReqType BY NoReqTyped
  <2>3. QED BY <1>1, <2>1, <2>2 DEF NoReq
<1>2. CASE After(k) # "done"
  <2>1. req' = [req EXCEPT ![r] = [@ EXCEPT !.todo = Rest(After(k)),
                                            !.view = v]]
    BY <1>2 DEF Advanced
  <2>2. Rest(After(k)) \in {<<>>} \union {Rest(j) : j \in Stages}
    BY <1>2, RestShape
  <2> DEFINE L == Rest(After(k))
  <2> HIDE DEF L
  <2>3. req' = [req EXCEPT ![r] = [@ EXCEPT !.todo = L, !.view = v]]
    BY <2>1 DEF L
  <2>4. L \in {<<>>} \union {Rest(j) : j \in Stages} BY <2>2 DEF L
  <2>5. req' \in [Reqs -> ReqType] BY <2>3, <2>4 DEF ReqType
  <2>6. /\ \A q \in Reqs \ {r} : req'[q] = req[q]
        /\ req'[r].todo = L /\ req'[r].view = v
        /\ req'[r].seg = req[r].seg /\ req'[r].text = req[r].text
        /\ req'[r].on = req[r].on
    BY <2>3 DEF ReqType
  <2>7. QED BY <1>2, <2>5, <2>6 DEF L
<1>3. QED BY <1>1, <1>2

\* The stage of a request says which step is next.
LEMMA DoingAt ==
    ASSUME NEW r, NEW here, Doing(r, here), NEW k \in Stages, At(r, k)
    PROVE  Front(k) = here
BY RestHead DEF Doing, At

\* What is left of a request that goes on.
LEMMA SoundNext ==
    ASSUME req \in [Reqs -> ReqType], NEW r \in Reqs, NEW k \in Stages,
           Sound(r, k), NEW v \in ViewType, Advanced(r, k, v),
           After(k) \in {"createUpsert", "createAdd", "changeAdd", "sameAdd",
                         "onFlag", "onAdd"}
             => v.text[req[r].seg] # None
    PROVE  /\ req' \in [Reqs -> ReqType]
           /\ \A q \in Reqs \ {r} : req'[q] = req[q]
           /\ \/ req'[r].todo = <<>>
              \/ \E j \in Stages : At(r, j)' /\ Sound(r, j)'
<1>1. /\ req' \in [Reqs -> ReqType]
      /\ \A q \in Reqs \ {r} : req'[q] = req[q]
      /\ After(k) = "done" => req'[r].todo = <<>>
  BY AdvancedTo
<1>2. CASE After(k) # "done"
  <2> DEFINE j == After(k)
  <2>1. /\ req'[r].todo = Rest(j) /\ req'[r].view = v
        /\ req'[r].seg = req[r].seg /\ req'[r].text = req[r].text
    BY <1>2, AdvancedTo
  <2>2. j \in Stages BY <1>2, RestShape
  <2>3. k # "send" /\ j # "send"
    BY <1>2 DEF After, Stages, Creating, Changing, Repeating, SwitchingOn,
                SwitchingOff, Deleting
  <2>4. j \in Changing \union Repeating => k \in Changing \union Repeating
    BY DEF After, Stages, Creating, Changing, Repeating, SwitchingOn,
           SwitchingOff, Deleting
  <2>5. At(r, j)' BY <2>1 DEF At
  <2> HIDE DEF j
  <2>6. j \in {"createUpsert", "createAdd", "changeAdd", "sameAdd", "onFlag",
               "onAdd"}
          => req'[r].view.text[req'[r].seg] # None
    BY <2>1 DEF j
  <2>7. Sound(r, j)' BY <2>1, <2>3, <2>4, <2>6 DEF Sound
  <2>8. QED BY <1>1, <2>2, <2>5, <2>7
<1>3. QED BY <1>1, <1>2

\* What ReqType says of a list is what TypeOK asks of it.
LEMMA ReqShape ==
    ASSUME NEW x \in ReqType
    PROVE  Len(x.todo) <= 7 /\ x.seg \in Segs \union {None}
<1>1. x.todo = <<>> \/ \E k \in Stages : x.todo = Rest(k) BY DEF ReqType
<1>2. Len(x.todo) <= 7
  <2>1. CASE x.todo = <<>> BY <2>1
  <2>2. CASE \E k \in Stages : x.todo = Rest(k)
    <3>1. PICK k \in Stages : x.todo = Rest(k) BY <2>2
    <3>2. Len(Rest(k)) \in 1..7 BY RestShape
    <3> DEFINE n == Len(Rest(k))
    <3>3. Len(x.todo) = n BY <3>1
    <3>4. n \in 1..7 BY <3>2
    <3> HIDE DEF n
    <3>5. QED BY <3>3, <3>4
  <2>3. QED BY <1>1, <2>1, <2>2
<1>3. QED BY <1>2 DEF ReqType

\* The requests of others are left alone.
LEMMA SoundFrame ==
    ASSUME NEW r \in Reqs, \A q \in Asking : \E k \in Stages :
                               At(q, k) /\ Sound(q, k),
           \A q \in Reqs \ {r} : req'[q] = req[q],
           \/ req'[r].todo = <<>>
           \/ \E k \in Stages : At(r, k)' /\ Sound(r, k)'
    PROVE  (\A q \in Asking : \E k \in Stages : At(q, k) /\ Sound(q, k))'
<1> SUFFICES ASSUME NEW q \in Reqs, req'[q].todo # <<>>
             PROVE  \E k \in Stages : At(q, k)' /\ Sound(q, k)'
  BY DEF Asking
<1>1. CASE q = r BY <1>1
<1>2. CASE q # r
  <2>1. req'[q] = req[q] BY <1>2
  <2>2. q \in Asking BY <2>1 DEF Asking
  <2>3. PICK k \in Stages : At(q, k) /\ Sound(q, k) BY <2>2
  <2>4. At(q, k)' /\ Sound(q, k)' BY <2>1, <2>3 DEF At, Sound
  <2>5. QED BY <2>4
<1>3. QED BY <1>1, <1>2

\* A request that begins at stage k.
Begun(r, k, s, t, on, v) ==
    /\ req[r].todo = <<>>
    /\ req' \in [Reqs -> ReqType]
    /\ \A q \in Reqs \ {r} : req'[q] = req[q]
    /\ At(r, k)' /\ req'[r].todo # <<>>
    /\ req'[r].seg = s /\ req'[r].text = t
    /\ req'[r].on = on /\ req'[r].view = v

\* A request begins at the stage whose list it is given.
LEMMA BeginsAt ==
    ASSUME req \in [Reqs -> ReqType], NEW r \in Reqs, NEW k \in Stages,
           NEW s \in Segs \union {None}, NEW t \in Texts \union {None},
           NEW on \in BOOLEAN, NEW v \in ViewType, NEW L, L = Rest(k),
           Begin(r, s, t, on, v, L)
    PROVE  Begun(r, k, s, t, on, v)
<1> DEFINE x == [todo |-> L, seg |-> s, text |-> t, on |-> on, view |-> v]
<1>1. req' = [req EXCEPT ![r] = x] /\ req[r].todo = <<>> BY DEF Begin
<1>2. /\ x.todo = L /\ x.seg = s /\ x.text = t /\ x.on = on /\ x.view = v
  OBVIOUS
<1>3. x \in ReqType BY DEF ReqType
<1> HIDE DEF x
<1>4. req' \in [Reqs -> ReqType] /\ req'[r] = x BY <1>1, <1>3
<1>5. \A q \in Reqs \ {r} : req'[q] = req[q] BY <1>1
<1>6. L # <<>> BY RestShape
<1>7. QED BY <1>1, <1>2, <1>4, <1>5, <1>6 DEF At, Begun

-----------------------------------------------------------------------------
(* What holds however requests overlap.                                    *)

\* Sane holds to begin with,
LEMMA InitSane == Init => Sane
<1> SUFFICES ASSUME Init PROVE Sane OBVIOUS
<1>1. PICK S \in SUBSET Segs, t \in Texts :
        /\ text = [s \in Segs |-> IF s \in S THEN t ELSE None]
        /\ enabled = [s \in Segs |-> s \in S]
        /\ unused = Segs \ S
        /\ point = [s \in Segs |->
                       IF s \in S THEN [text |-> t, doc |-> TRUE, on |-> TRUE]
                                  ELSE NoPoint]
        /\ kw = [s \in Segs |-> IF s \in S THEN {t} ELSE {}]
  BY DEF Init
<1>2. req \in [Reqs -> ReqType] /\ work \in [Workers -> WorkType]
  BY NoReqTyped, NoWorkTyped DEF Init
<1>3. TypeOK
  <2>1. text \in [Segs -> Texts \union {None}] /\ kw \in [Segs -> SUBSET Texts]
    BY <1>1
  <2>2. point \in [Segs -> [text : Texts \union {None}, doc : BOOLEAN,
                            on : BOOLEAN]]
    <3>1. NoPoint \in [text : Texts \union {None}, doc : BOOLEAN, on : BOOLEAN]
      BY DEF NoPoint
    <3>2. QED BY <1>1, <3>1
  <2>3. enabled \in [Segs -> BOOLEAN] /\ unused \in SUBSET Segs BY <1>1
  <2>4. queue \in Seq(BOOLEAN) /\ Len(queue) <= MaxQueue
    BY ConstantsAssumption DEF Init, ConstantsAssumption
  <2>5. \A r \in Reqs : /\ Len(req[r].todo) <= 7
                        /\ req[r].seg \in Segs \union {None}
    BY <1>2, ReqShape
  <2>6. \A w \in Workers : work[w].pc \in {"idle", "flags", "keywords"}
    BY <1>2 DEF WorkType
  <2>7. docEnabled \in BOOLEAN /\ overlapped \in BOOLEAN /\ lost \in BOOLEAN
        /\ counted = text
    BY DEF Init
  <2>8. QED BY <2>1, <2>2, <2>3, <2>4, <2>5, <2>6, <2>7 DEF TypeOK
<1>4. Rows
  <2>1. \A s \in Segs : enabled[s] => Stored(s)
    BY <1>1, ConstantsAssumption DEF Stored, ConstantsAssumption
  <2>2. \A s \in unused : ~Stored(s) BY <1>1 DEF Stored
  <2>3. \A w \in Workers, s \in Segs : ~work[w].view.on[s]
    BY NoWorkTyped DEF Init
  <2>4. QED BY <2>1, <2>2, <2>3 DEF Rows
<1>5. Asking = {} BY NoReqTyped DEF Init, Asking
<1>6. QED BY <1>2, <1>3, <1>4, <1>5 DEF Sane, Types

\* What the first step of a request does to the rows.
LEMMA AskSane ==
    ASSUME Sane, NEW r \in Reqs, Ask(r)
    PROVE  Sane'
<1>a. TypeOK /\ req \in [Reqs -> ReqType] /\ work \in [Workers -> WorkType]
  BY DEF Sane, Types
<1>b. Rows BY DEF Sane
<1>v. NoView \in ViewType /\ TableView \in ViewType
  BY <1>a, NoViewTyped, ViewsTyped
\* It is enough that the rows are as they should and the request has begun.
<1>1. ASSUME NEW k \in Stages, NEW s \in Segs \union {None},
             NEW t \in Texts \union {None}, NEW on \in BOOLEAN,
             NEW v \in ViewType, NEW L, L = Rest(k),
             Begin(r, s, t, on, v, L),
             IF k = "send" THEN s = None ELSE s \in Segs,
             k \in Changing \union Repeating => t # None,
             k \notin {"createUpsert", "createAdd", "changeAdd", "sameAdd",
                       "onFlag", "onAdd"},
             text' \in [Segs -> Texts \union {None}],
             enabled' \in [Segs -> BOOLEAN], unused' \in SUBSET Segs,
             docEnabled' \in BOOLEAN,
             \A x \in Segs : enabled'[x] => text'[x] # None,
             \A x \in unused' : text'[x] = None
      PROVE  Sane'
  <2>1. /\ req' \in [Reqs -> ReqType] /\ At(r, k)'
        /\ \A q \in Reqs \ {r} : req'[q] = req[q]
        /\ req'[r].seg = s /\ req'[r].text = t
    <3>1. Begin(r, s, t, on, v, L) /\ L = Rest(k) BY <1>1
    <3>2. req \in [Reqs -> ReqType] BY <1>a
    <3>3. Begun(r, k, s, t, on, v) BY <3>1, <3>2, BeginsAt
    <3>4. QED BY <3>3 DEF Begun
  <2>2. Sound(r, k)' BY <1>1, <2>1 DEF Sound
  <2>3. (\A q \in Asking : \E j \in Stages : At(q, j) /\ Sound(q, j))'
    BY <2>1, <2>2, SoundFrame DEF Sane
  <2>4. TypeOK'
    <3>1. \A q \in Reqs : Len(req'[q].todo) <= 7
                          /\ req'[q].seg \in Segs \union {None}
      BY <2>1, ReqShape
    <3>2. UNCHANGED <<counted, point, kw, queue, work, lost>>
          /\ overlapped' \in BOOLEAN
      BY <1>1, <1>a DEF Begin, TypeOK
    <3>3. QED BY <1>1, <1>a, <3>1, <3>2 DEF TypeOK
  <2>5. work' = work BY <1>1 DEF Begin
  <2>6. Rows' BY <1>1, <1>b, <2>5 DEF Rows, Stored
  <2>7. QED BY <1>a, <2>1, <2>3, <2>4, <2>5, <2>6 DEF Sane, Types
<1>k. {"createLook", "changeDrop", "sameDrop", "onLook", "offLook",
       "deleteDrop", "send"} \subseteq Stages
  BY DEF Stages, Creating, Changing, Repeating, SwitchingOn, SwitchingOff,
         Deleting
<1> USE DEF Creating, Changing, Repeating
<1>2. ASSUME NEW s \in Segs, NEW t \in Texts, CreateSegment(r, s, t)
      PROVE  Sane'
  <2>1. t # None BY ConstantsAssumption DEF ConstantsAssumption
  <2>2. /\ text' = [text EXCEPT ![s] = t]
        /\ enabled' = [enabled EXCEPT ![s] = TRUE]
        /\ unused' = unused \ {s} /\ docEnabled' = docEnabled
        /\ Begin(r, s, t, TRUE, NoView, Rest("createLook"))
    BY <1>2, FirstLists DEF CreateSegment
  <2>3. /\ text' \in [Segs -> Texts \union {None}]
        /\ enabled' \in [Segs -> BOOLEAN] /\ unused' \in SUBSET Segs
        /\ docEnabled' \in BOOLEAN
        /\ \A x \in Segs : enabled'[x] => text'[x] # None
        /\ \A x \in unused' : text'[x] = None
    BY <1>a, <1>b, <2>1, <2>2 DEF TypeOK, Rows, Stored
  <2>4. QED BY <1>1, <1>k, <1>v, <2>2, <2>3
<1>s. UNCHANGED <<docEnabled, rows>> =>
        /\ text' \in [Segs -> Texts \union {None}]
        /\ enabled' \in [Segs -> BOOLEAN] /\ unused' \in SUBSET Segs
        /\ docEnabled' \in BOOLEAN
        /\ \A x \in Segs : enabled'[x] => text'[x] # None
        /\ \A x \in unused' : text'[x] = None
  BY <1>a, <1>b DEF TypeOK, Rows, Stored, rows
<1>3. ASSUME NEW s \in Segs, NEW t \in Texts, UpdateSegment(r, s, t)
      PROVE  Sane'
  <2>1. t # None BY ConstantsAssumption DEF ConstantsAssumption
  <2>2. PICK k \in {"changeDrop", "sameDrop"} :
          Begin(r, s, t, FALSE, TableView, Rest(k))
    BY <1>3, FirstLists DEF UpdateSegment
  <2>3. UNCHANGED <<docEnabled, rows>> BY <1>3 DEF UpdateSegment
  <2>4. QED BY <1>1, <1>k, <1>v, <1>s, <2>1, <2>2, <2>3
<1>4. ASSUME NEW s \in Segs, NEW on \in BOOLEAN, SwitchSegment(r, s, on)
      PROVE  Sane'
  <2>1. PICK k \in {"onLook", "offLook"} :
          Begin(r, s, None, on, NoView, Rest(k))
    BY <1>4, FirstLists DEF SwitchSegment
  <2>2. /\ enabled' = [enabled EXCEPT ![s] = on]
        /\ text' = text /\ unused' = unused /\ docEnabled' = docEnabled
        /\ Stored(s)
    BY <1>4 DEF SwitchSegment
  <2>3. /\ text' \in [Segs -> Texts \union {None}]
        /\ enabled' \in [Segs -> BOOLEAN] /\ unused' \in SUBSET Segs
        /\ docEnabled' \in BOOLEAN
        /\ \A x \in Segs : enabled'[x] => text'[x] # None
        /\ \A x \in unused' : text'[x] = None
    BY <1>a, <1>b, <2>2 DEF TypeOK, Rows, Stored
  <2>4. /\ k \in Stages /\ k # "send" /\ k \notin Changing \union Repeating
        /\ k \notin {"createUpsert", "createAdd", "changeAdd", "sameAdd",
                     "onFlag", "onAdd"}
    BY <1>k
  <2>5. QED BY <1>1, <1>v, <2>1, <2>3, <2>4
<1>5. ASSUME NEW s \in Segs, DeleteSegment(r, s) PROVE Sane'
  <2>1. Begin(r, s, None, FALSE, TableView, Rest("deleteDrop"))
        /\ UNCHANGED <<docEnabled, rows>>
    BY <1>5, FirstLists DEF DeleteSegment
  <2>2. QED BY <1>1, <1>k, <1>v, <1>s, <2>1
<1>6. ASSUME NEW on \in BOOLEAN, SwitchDocument(r, on) PROVE Sane'
  <2>1. /\ Begin(r, None, None, on, NoView, Rest("send"))
        /\ docEnabled' = on /\ UNCHANGED rows
    BY <1>6, FirstLists DEF SwitchDocument
  <2>2. /\ text' \in [Segs -> Texts \union {None}]
        /\ enabled' \in [Segs -> BOOLEAN] /\ unused' \in SUBSET Segs
        /\ docEnabled' \in BOOLEAN
        /\ \A x \in Segs : enabled'[x] => text'[x] # None
        /\ \A x \in unused' : text'[x] = None
    BY <1>a, <1>b, <2>1 DEF TypeOK, Rows, Stored, rows
  <2>3. /\ "send" \in Stages /\ "send" \notin Changing \union Repeating
        /\ "send" \notin {"createUpsert", "createAdd", "changeAdd", "sameAdd",
                          "onFlag", "onAdd"}
    BY <1>k
  <2> HIDE DEF Creating, Changing, Repeating
  <2>4. None \in Segs \union {None} /\ None \in Texts \union {None} OBVIOUS
  <2>5. PICK k \in {"send"} : Begin(r, None, None, on, NoView, Rest(k)) BY <2>1
  <2>6. k \in Stages /\ k \notin Changing \union Repeating /\ k = "send"
        /\ k \notin {"createUpsert", "createAdd", "changeAdd", "sameAdd",
                     "onFlag", "onAdd"}
    BY <2>3
  <2>7. QED BY <1>1, <1>v, <2>2, <2>4, <2>5, <2>6
<1>7. QED BY <1>2, <1>3, <1>4, <1>5, <1>6 DEF Ask

\* What a later step of a request does.
LEMMA ContinueSane ==
    ASSUME Sane, NEW r \in Reqs, Continue(r) \/ LoseSend(r)
    PROVE  Sane'
<1>a. TypeOK /\ req \in [Reqs -> ReqType] /\ work \in [Workers -> WorkType]
  BY DEF Sane, Types
<1>b. Rows BY DEF Sane
<1>v. /\ NoView \in ViewType /\ View \in ViewType /\ RowsView \in ViewType
      /\ View.text = text
  BY <1>a, NoViewTyped, ViewsTyped
<1>r. req[r] \in ReqType BY <1>a
<1>w. req[r].view \in ViewType /\ req[r].seg \in Segs \union {None}
      /\ req[r].text \in Texts \union {None} /\ req[r].on \in BOOLEAN
  BY <1>r DEF ReqType
<1> DEFINE Typed == /\ text \in [Segs -> Texts \union {None}]
                    /\ enabled \in [Segs -> BOOLEAN]
                    /\ counted \in [Segs -> Texts \union {None}]
                    /\ point \in [Segs -> [text : Texts \union {None},
                                           doc : BOOLEAN, on : BOOLEAN]]
                    /\ kw \in [Segs -> SUBSET Texts]
                    /\ queue \in Seq(BOOLEAN) /\ Len(queue) <= MaxQueue
           Fit == \A x \in Segs : /\ enabled[x] => text[x] # None
                                  /\ x \in unused => text[x] = None
           Next1 == /\ req' \in [Reqs -> ReqType]
                    /\ \A q \in Reqs \ {r} : req'[q] = req[q]
                    /\ \/ req'[r].todo = <<>>
                       \/ \E k \in Stages : At(r, k)' /\ Sound(r, k)'
           Others == UNCHANGED <<docEnabled, unused, work, overlapped>>
\* It is enough that the stores and what is left of the request are as they
\* should.
<1>1. ASSUME Typed', Fit', Next1, Others, lost' \in BOOLEAN PROVE Sane'
  <2>1. (\A q \in Asking : \E j \in Stages : At(q, j) /\ Sound(q, j))'
    BY <1>1, SoundFrame DEF Sane
  <2>2. TypeOK'
    <3>1. \A q \in Reqs : Len(req'[q].todo) <= 7
                          /\ req'[q].seg \in Segs \union {None}
      BY <1>1, ReqShape
    <3>2. QED BY <1>1, <1>a, <3>1 DEF TypeOK
  <2>3. Rows' BY <1>1, <1>a, <1>b DEF Rows, Stored, TypeOK
  <2>4. QED BY <1>1, <1>a, <2>1, <2>2, <2>3 DEF Sane, Types
<1>t. UNCHANGED <<text, enabled, counted, point, kw, queue>> => Typed'
  BY <1>a DEF TypeOK
<1>f. UNCHANGED <<text, enabled, unused>> => Fit'
  BY <1>a, <1>b DEF Rows, Stored, TypeOK
<1>k. ASSUME req[r].todo # <<>>
      PROVE  \E k \in Stages : At(r, k) /\ Sound(r, k)
  BY <1>k DEF Sane, Asking
<1>e. ASSUME req' = [req EXCEPT ![r] = NoReq] PROVE Next1
  BY <1>e, <1>a, NoReqTyped
<1>n. ASSUME NEW k \in Stages, Sound(r, k), At(r, k), NEW v \in ViewType,
             Goes(r, v),
             After(k) \in {"createUpsert", "createAdd", "changeAdd",
                           "sameAdd", "onFlag", "onAdd"}
               => v.text[req[r].seg] # None
      PROVE  Next1
  BY <1>n, <1>a, GoesAdvances, SoundNext
<1> HIDE DEF Next1
<1>2. ASSUME Look(r) PROVE Sane'
  <2>1. PICK k \in Stages : At(r, k) /\ Sound(r, k)
    BY <1>2, <1>k DEF Look, Doing
  <2>2. Next1
    <3>1. CASE Stored(req[r].seg) /\ Goes(r, View)
      BY <1>n, <1>v, <2>1, <3>1 DEF Stored
    <3>2. CASE req' = [req EXCEPT ![r] = NoReq] BY <1>e, <3>2
    <3>3. QED BY <1>2, <3>1, <3>2 DEF Look
  <2>3. QED BY <1>1, <1>2, <1>a, <1>t, <1>f, <2>2
            DEF Look, rows, history, TypeOK
<1>3. ASSUME Relook(r) PROVE Sane'
  <2>1. PICK k \in Stages : At(r, k) /\ Sound(r, k)
    BY <1>3, <1>k DEF Relook, Doing
  <2>2. k \in {"changeRelook", "sameRelook"}
    BY <1>3, <2>1, DoingAt, FrontStages DEF Relook
  <2>3. After(k) \in {"changeUpsert", "count"} BY <2>2 DEF After
  <2>4. Next1
    <3>1. CASE \E v \in ViewType : Goes(r, v)
      BY <1>n, <2>1, <2>3, <3>1
    <3>2. CASE req' = [req EXCEPT ![r] = NoReq] BY <1>e, <3>2
    <3>3. QED BY <1>3, <1>v, <1>w, <3>1, <3>2 DEF Relook
  <2>5. QED BY <1>1, <1>3, <1>a, <1>t, <1>f, <2>4
            DEF Relook, rows, history, TypeOK
<1>4. ASSUME AddKeywords(r) PROVE Sane'
  <2>1. PICK k \in Stages : At(r, k) /\ Sound(r, k)
    BY <1>4, <1>k DEF AddKeywords, Doing
  <2>2. k \in {"createAdd", "onAdd", "changeAdd", "sameAdd"}
    BY <1>4, <2>1, DoingAt, FrontStages DEF AddKeywords
  <2>3. After(k) \in {"sum", "done", "changeRelook", "sameRelook"}
    BY <2>2 DEF After
  <2> DEFINE s == req[r].seg
             u == req[r].view
  <2>4. s \in Segs /\ u.text[s] \in Texts
    <3>1. s \in Segs /\ u.text[s] # None BY <2>1, <2>2 DEF Sound
    <3>2. QED BY <1>w, <3>1 DEF ViewType
  <2>5. [u EXCEPT !.kw = NoView.kw] \in ViewType
    BY <1>w DEF ViewType, NoView
  <2>6. Next1
    <3>1. Goes(r, [u EXCEPT !.kw = NoView.kw]) BY <1>4 DEF AddKeywords
    <3>2. QED BY <1>n, <2>1, <2>3, <2>5, <3>1
  <2>7. kw' \in [Segs -> SUBSET Texts]
    <3>1. [u.kw EXCEPT ![s] = @ \union {u.text[s]}] \in [Segs -> SUBSET Texts]
      BY <1>w, <2>4 DEF ViewType
    <3>2. kw' = kw \/ kw' = [u.kw EXCEPT ![s] = @ \union {u.text[s]}]
      BY <1>4 DEF AddKeywords, WriteBack
    <3>3. QED BY <1>a, <3>1, <3>2 DEF TypeOK
  <2>8. QED BY <1>1, <1>4, <1>a, <1>f, <2>6, <2>7
            DEF AddKeywords, rows, history, TypeOK
<1>5. ASSUME DropKeywords(r) PROVE Sane'
  <2>1. PICK k \in Stages : At(r, k) /\ Sound(r, k)
    BY <1>5, <1>k DEF DropKeywords, Doing
  <2>2. k \in {"changeDrop", "sameDrop", "offDrop", "deleteDrop"}
    BY <1>5, <2>1, DoingAt, FrontStages DEF DropKeywords
  <2>3. After(k) \in {"changeWrite", "sameWrite", "done", "deleteRow"}
    BY <2>2 DEF After
  <2>4. Next1
    <3>1. Goes(r, NoView) BY <1>5 DEF DropKeywords, Done
    <3>2. QED BY <1>n, <1>v, <2>1, <2>3, <3>1
  <2>5. kw' \in [Segs -> SUBSET Texts]
    <3>1. [req[r].view.kw EXCEPT ![req[r].seg] = {}] \in [Segs -> SUBSET Texts]
      BY <1>w DEF ViewType
    <3>2. kw' = kw \/ kw' = [req[r].view.kw EXCEPT ![req[r].seg] = {}]
      BY <1>5 DEF DropKeywords, WriteBack
    <3>3. QED BY <1>a, <3>1, <3>2 DEF TypeOK
  <2>6. QED BY <1>1, <1>5, <1>a, <1>f, <2>4, <2>5
            DEF DropKeywords, rows, history, TypeOK
<1>6. ASSUME WriteSegment(r) PROVE Sane'
  <2>1. PICK k \in Stages : At(r, k) /\ Sound(r, k)
    BY <1>6, <1>k DEF WriteSegment, Doing
  <2>2. k \in {"changeWrite", "sameWrite"}
    BY <1>6, <2>1, DoingAt, FrontStages DEF WriteSegment
  <2>3. After(k) \in {"changeLook", "sameLook"} BY <2>2 DEF After
  <2>4. req[r].text # None
    BY <2>1, <2>2 DEF Sound, Changing, Repeating
  <2>5. CASE Stored(req[r].seg)
    <3>1. Goes(r, NoView) /\ text' = [text EXCEPT ![req[r].seg] = req[r].text]
      BY <1>6, <2>5 DEF WriteSegment, Done
    <3>2. Next1 BY <1>n, <1>v, <2>1, <2>3, <3>1
    <3>3. text' \in [Segs -> Texts \union {None}]
      BY <1>a, <1>w, <3>1 DEF TypeOK
    <3>4. Fit'
      BY <1>6, <1>a, <1>b, <2>4, <2>5, <3>1
         DEF WriteSegment, Rows, Stored, TypeOK
    <3>5. QED BY <1>1, <1>6, <1>a, <3>2, <3>3, <3>4
              DEF WriteSegment, history, TypeOK
  <2>6. CASE ~Stored(req[r].seg)
    <3>1. req' = [req EXCEPT ![r] = NoReq] /\ text' = text
      BY <1>6, <2>6 DEF WriteSegment
    <3>2. QED BY <1>1, <1>6, <1>a, <1>e, <1>t, <1>f, <3>1
              DEF WriteSegment, history, TypeOK
  <2>7. QED BY <2>5, <2>6
<1>7. ASSUME UpsertPoint(r) PROVE Sane'
  <2>1. PICK k \in Stages : At(r, k) /\ Sound(r, k)
    BY <1>7, <1>k DEF UpsertPoint, Doing
  <2>2. k \in {"createUpsert", "changeUpsert"}
    BY <1>7, <2>1, DoingAt, FrontStages DEF UpsertPoint
  <2>3. After(k) \in {"createAdd", "count"}
        /\ (After(k) = "createAdd" => k = "createUpsert")
    BY <2>2 DEF After
  <2> DEFINE s == req[r].seg
             u == req[r].view
  <2>4. s \in Segs /\ (k = "createUpsert" => u.text[s] # None)
    BY <2>1, <2>2 DEF Sound
  <2>5. [u EXCEPT !.doc = FALSE] \in ViewType
        /\ [u EXCEPT !.doc = FALSE].text = u.text
    BY <1>w DEF ViewType
  <2>6. Next1
    <3>1. Goes(r, [u EXCEPT !.doc = FALSE]) BY <1>7 DEF UpsertPoint
    <3>2. QED BY <1>n, <2>1, <2>3, <2>4, <2>5, <3>1
  <2>7. point' \in [Segs -> [text : Texts \union {None}, doc : BOOLEAN,
                             on : BOOLEAN]]
    <3>1. u.on[s] \in BOOLEAN /\ u.doc \in BOOLEAN BY <1>w, <2>4 DEF ViewType
    <3>2. PICK on \in BOOLEAN : on = (req[r].on \/ u.on[s]) OBVIOUS
    <3>3. point' = [point EXCEPT ![s] = [text |-> req[r].text, doc |-> u.doc,
                                         on |-> on]]
      BY <1>7, <3>2 DEF UpsertPoint
    <3>4. QED BY <1>a, <1>w, <3>1, <3>3 DEF TypeOK
  <2>8. QED BY <1>1, <1>7, <1>a, <1>f, <2>6, <2>7
            DEF UpsertPoint, rows, history, TypeOK
<1>8. ASSUME FlagSegment(r) PROVE Sane'
  <2>1. PICK k \in Stages : At(r, k) /\ Sound(r, k)
    BY <1>8, <1>k DEF FlagSegment, Doing
  <2>2. k \in {"onFlag", "offFlag"}
    BY <1>8, <2>1, DoingAt, FrontStages DEF FlagSegment
  <2>3. /\ After(k) \in {"onAdd", "offDrop"}
        /\ After(k) = "onAdd" => k = "onFlag"
    BY <2>2 DEF After
  <2>4. k = "onFlag" => req[r].view.text[req[r].seg] # None
    BY <2>1, <2>2 DEF Sound
  <2>5. Next1
    <3>1. Goes(r, req[r].view) BY <1>8 DEF FlagSegment
    <3>2. QED BY <1>n, <1>w, <2>1, <2>3, <2>4, <3>1
  <2>6. point' \in [Segs -> [text : Texts \union {None}, doc : BOOLEAN,
                             on : BOOLEAN]]
    BY <1>8, <1>a, <1>w DEF FlagSegment, TypeOK
  <2>7. QED BY <1>1, <1>8, <1>a, <1>f, <2>5, <2>6
            DEF FlagSegment, rows, history, TypeOK
<1>9. ASSUME RemoveSegment(r) PROVE Sane'
  <2>1. PICK k \in Stages : At(r, k) /\ Sound(r, k)
    BY <1>9, <1>k DEF RemoveSegment, Doing
  <2>2. k = "deleteRow"
    BY <1>9, <2>1, DoingAt, FrontStages DEF RemoveSegment
  <2>3. After(k) = "deletePoint" BY <2>2 DEF After
  <2>4. Next1
    <3>1. Goes(r, NoView) BY <1>9 DEF RemoveSegment, Done
    <3>2. QED BY <1>n, <1>v, <2>1, <2>3, <3>1
  <2>5. /\ text' = [text EXCEPT ![req[r].seg] = None]
        /\ enabled' = [enabled EXCEPT ![req[r].seg] = FALSE]
        /\ UNCHANGED <<docEnabled, unused, counted, point, kw, queue, work,
                       history>>
    BY <1>9 DEF RemoveSegment
  <2>6. Fit' BY <1>a, <1>b, <2>5 DEF Rows, Stored, TypeOK
  <2>7. QED BY <1>1, <1>a, <2>4, <2>5, <2>6 DEF history, TypeOK
<1>10. ASSUME RemovePoint(r) PROVE Sane'
  <2>1. PICK k \in Stages : At(r, k) /\ Sound(r, k)
    BY <1>10, <1>k DEF RemovePoint, Doing
  <2>2. k = "deletePoint"
    BY <1>10, <2>1, DoingAt, FrontStages DEF RemovePoint
  <2>3. After(k) = "sum" BY <2>2 DEF After
  <2>4. Next1
    <3>1. Goes(r, NoView) BY <1>10 DEF RemovePoint, Done
    <3>2. QED BY <1>n, <1>v, <2>1, <2>3, <3>1
  <2>5. point' \in [Segs -> [text : Texts \union {None}, doc : BOOLEAN,
                             on : BOOLEAN]]
    BY <1>10, <1>a DEF RemovePoint, NoPoint, TypeOK
  <2>6. QED BY <1>1, <1>10, <1>a, <1>f, <2>4, <2>5
            DEF RemovePoint, rows, history, TypeOK
<1>11. ASSUME Sum(r) PROVE Sane'
  <2>1. PICK k \in Stages : At(r, k) /\ Sound(r, k)
    BY <1>11, <1>k DEF Sum, Doing
  <2>2. k = "sum" BY <1>11, <2>1, DoingAt, FrontStages DEF Sum
  <2>3. After(k) = "count" BY <2>2 DEF After
  <2>4. Next1
    <3>1. Goes(r, RowsView) BY <1>11 DEF Sum
    <3>2. QED BY <1>n, <1>v, <2>1, <2>3, <3>1
  <2>5. QED BY <1>1, <1>11, <1>a, <1>t, <1>f, <2>4
            DEF Sum, rows, history, TypeOK
<1>12. ASSUME Count(r) PROVE Sane'
  <2>1. PICK k \in Stages : At(r, k) /\ Sound(r, k)
    BY <1>12, <1>k DEF Count, Doing
  <2>2. k = "count" BY <1>12, <2>1, DoingAt, FrontStages DEF Count
  <2>3. After(k) = "done" BY <2>2 DEF After
  <2>4. Next1
    <3>1. Goes(r, NoView) BY <1>12 DEF Count, Done
    <3>2. QED BY <1>n, <1>v, <2>1, <2>3, <3>1
  <2>5. counted' \in [Segs -> Texts \union {None}]
    BY <1>12, <1>w DEF Count, ViewType
  <2>6. QED BY <1>1, <1>12, <1>a, <1>f, <2>4, <2>5
            DEF Count, rows, history, TypeOK
<1>13. ASSUME Send(r) PROVE Sane'
  <2>1. PICK k \in Stages : At(r, k) /\ Sound(r, k)
    BY <1>13, <1>k DEF Send, Doing
  <2>2. k = "send" BY <1>13, <2>1, DoingAt, FrontStages DEF Send
  <2>3. After(k) = "done" BY <2>2 DEF After
  <2>4. Next1
    <3>1. Goes(r, NoView) BY <1>13 DEF Send, Done
    <3>2. QED BY <1>n, <1>v, <2>1, <2>3, <3>1
  <2>5. queue' \in Seq(BOOLEAN) /\ Len(queue') <= MaxQueue
    BY <1>13, <1>a, <1>w, ConstantsAssumption
       DEF Send, TypeOK, ConstantsAssumption
  <2>6. QED BY <1>1, <1>13, <1>a, <1>f, <2>4, <2>5
            DEF Send, rows, history, TypeOK
<1>14. ASSUME LoseSend(r) PROVE Sane'
  BY <1>1, <1>14, <1>a, <1>e, <1>t, <1>f DEF LoseSend, rows, TypeOK
<1>15. QED
  BY <1>2, <1>3, <1>4, <1>5, <1>6, <1>7, <1>8, <1>9, <1>10, <1>11, <1>12,
     <1>13, <1>14
     DEF Continue

\* What the tasks do.
LEMMA WorkSane ==
    ASSUME Sane, NEW w \in Workers, Work(w) \/ Kill(w)
    PROVE  Sane'
<1>a. TypeOK /\ req \in [Reqs -> ReqType] /\ work \in [Workers -> WorkType]
  BY DEF Sane, Types
<1>b. Rows BY DEF Sane
<1>w. work[w] \in WorkType /\ work[w].view \in ViewType
      /\ work[w].on \in BOOLEAN
  BY <1>a DEF WorkType
\* The document, its rows and the requests are left alone.
<1>1. ASSUME UNCHANGED <<docEnabled, rows, counted, req>>,
             point' \in [Segs -> [text : Texts \union {None}, doc : BOOLEAN,
                                  on : BOOLEAN]],
             kw' \in [Segs -> SUBSET Texts],
             queue' \in Seq(BOOLEAN) /\ Len(queue') <= MaxQueue,
             overlapped' \in BOOLEAN, lost' \in BOOLEAN,
             NEW x \in WorkType, work' = [work EXCEPT ![w] = x],
             \A s \in Segs : x.view.on[s] => x.view.text[s] # None
      PROVE  Sane'
  <2>1. work' \in [Workers -> WorkType] BY <1>1, <1>a
  <2>2. TypeOK'
    <3>1. \A v \in Workers : work'[v].pc \in {"idle", "flags", "keywords"}
      BY <2>1 DEF WorkType
    <3>2. QED BY <1>1, <1>a, <3>1 DEF TypeOK, rows
  <2>3. Rows'
    <3>1. \A v \in Workers, s \in Segs :
            work'[v].view.on[s] => work'[v].view.text[s] # None
      BY <1>1, <1>a, <1>b DEF Rows
    <3>2. QED BY <1>1, <1>b, <3>1 DEF Rows, Stored, rows
  <2>4. (\A q \in Asking : \E j \in Stages : At(q, j) /\ Sound(q, j))'
    BY <1>1 DEF Sane, Asking, At, Sound
  <2>5. QED BY <1>1, <1>a, <2>1, <2>2, <2>3, <2>4 DEF Sane, Types
<1>2. ASSUME TakeSwitch(w) PROVE Sane'
  <2> DEFINE x == [pc |-> "flags", on |-> Head(queue),
                   view |-> [View EXCEPT !.doc = FALSE]]
  <2>1. [View EXCEPT !.doc = FALSE] \in ViewType
        /\ [View EXCEPT !.doc = FALSE].text = text
        /\ [View EXCEPT !.doc = FALSE].on = enabled
    BY <1>a, ViewsTyped DEF View
  <2>2. queue \in Seq(BOOLEAN) /\ queue # <<>> /\ Len(queue) <= MaxQueue
        /\ MaxQueue \in Nat
    BY <1>2, <1>a, ConstantsAssumption
       DEF TakeSwitch, TypeOK, ConstantsAssumption
  <2>3. Head(queue) \in BOOLEAN /\ Tail(queue) \in Seq(BOOLEAN)
        /\ Len(Tail(queue)) <= MaxQueue
    BY <2>2
  <2>4. x \in WorkType BY <2>1, <2>3 DEF WorkType
  <2>5. \A s \in Segs : x.view.on[s] => x.view.text[s] # None
    BY <1>b, <2>1 DEF Rows, Stored
  <2>6. work' = [work EXCEPT ![w] = x] /\ queue' = Tail(queue)
        /\ UNCHANGED <<docEnabled, rows, counted, req, point, kw, lost>>
        /\ overlapped' \in BOOLEAN
    BY <1>2, <1>a DEF TakeSwitch, TypeOK
  <2> HIDE DEF x
  <2>7. QED BY <1>1, <1>a, <2>3, <2>4, <2>5, <2>6 DEF TypeOK
<1>3. ASSUME SwitchPoints(w) PROVE Sane'
  <2>1. PICK x : x = [work[w] EXCEPT !.pc = "keywords"] OBVIOUS
  <2>2. x \in WorkType /\ x.view = work[w].view BY <1>w, <2>1 DEF WorkType
  <2>3. point' \in [Segs -> [text : Texts \union {None}, doc : BOOLEAN,
                             on : BOOLEAN]]
    BY <1>3, <1>a, <1>w DEF SwitchPoints, TypeOK
  <2>4. work' = [work EXCEPT ![w] = x] BY <1>3, <2>1 DEF SwitchPoints
  <2>5. \A s \in Segs : x.view.on[s] => x.view.text[s] # None
    BY <1>b, <2>2 DEF Rows
  <2>6. UNCHANGED <<docEnabled, rows, counted, kw, queue, req, history>>
    BY <1>3 DEF SwitchPoints
  <2>7. QED BY <1>1, <1>a, <2>2, <2>3, <2>4, <2>5, <2>6 DEF TypeOK, history
<1>4. ASSUME SwitchKeywords(w) PROVE Sane'
  <2> DEFINE view == work[w].view
             new == [s \in Segs |->
                       IF work[w].on
                       THEN view.kw[s] \union
                            {t \in {view.text[s]} : view.on[s]}
                       ELSE {t \in view.kw[s] : view.text[s] = None}]
  <2>1. \A s \in Segs : view.on[s] => view.text[s] \in Texts
    BY <1>b, <1>w DEF Rows, ViewType
  <2>2. new \in [Segs -> SUBSET Texts]
    <3>1. \A s \in Segs : view.kw[s] \subseteq Texts BY <1>w DEF ViewType
    <3>2. QED BY <2>1, <3>1
  <2>3. kw' = kw \/ kw' = new BY <1>4 DEF SwitchKeywords, WriteBack
  <2>4. kw' \in [Segs -> SUBSET Texts] BY <1>a, <2>2, <2>3 DEF TypeOK
  <2>5. work' = [work EXCEPT ![w] = NoWork]
        /\ UNCHANGED <<docEnabled, rows, counted, point, queue, req, history>>
    BY <1>4 DEF SwitchKeywords
  <2>6. QED BY <1>1, <1>a, <2>4, <2>5, NoWorkTyped DEF TypeOK, history
<1>5. ASSUME Kill(w) PROVE Sane'
  <2>1. work' = [work EXCEPT ![w] = NoWork] /\ lost' = TRUE
        /\ UNCHANGED <<docEnabled, rows, counted, point, kw, queue, req,
                       overlapped>>
    BY <1>5 DEF Kill
  <2>2. QED BY <1>1, <1>a, <2>1, NoWorkTyped DEF TypeOK
<1>6. QED BY <1>2, <1>3, <1>4, <1>5 DEF Work

\* and every step keeps it.
LEMMA SaneStep == Sane /\ [Next]_vars => Sane'
<1> SUFFICES ASSUME Sane, [Next]_vars PROVE Sane' OBVIOUS
<1>1. CASE UNCHANGED vars
  <2>1. UNCHANGED <<docEnabled, text, enabled, unused, counted, point, kw,
                    queue, req, work, overlapped, lost>>
    BY <1>1 DEF vars, rows, history
  <2>2. QED BY <2>1 DEF Sane, Types, TypeOK, Rows, Stored, Asking, At, Sound
<1>2. CASE Next BY <1>2, AskSane, ContinueSane, WorkSane DEF Next
<1>3. QED BY <1>1, <1>2

\* Every variable keeps its type, however requests and tasks overlap.
THEOREM TypeCorrect == Spec => []TypeOK
<1>1. Sane => TypeOK BY DEF Sane, Types
<1>2. QED BY <1>1, InitSane, SaneStep, PTL DEF Spec

-----------------------------------------------------------------------------
(* A segment and its point.                                                *)

\* Rows and points of all segments but s stay as they are, the switch of the
\* document apart.
Untouched(s) ==
    \A x \in Segs \ {s} :
        /\ text'[x] = text[x] /\ enabled'[x] = enabled[x]
        /\ point'[x].text = point[x].text /\ point'[x].on = point[x].on

ShownNext(s) == point'[s].text = text'[s] /\ point'[s].on = enabled'[s]

\* A request that was at stage k has ended with its segment shown, or is at
\* the next stage.
EditMoves(r, k) ==
    /\ Untouched(req[r].seg)
    /\ After(k) = "done" =>
        req'[r].todo = <<>> /\ (req[r].seg \in Segs => ShownNext(req[r].seg))
    /\ After(k) # "done" =>
        /\ After(k) \in Stages /\ At(r, After(k))' /\ Edit(r, After(k))'
        /\ req'[r].seg = req[r].seg

\* A step of a request leaves row and point as the next stage wants them.
LEMMA EditNext ==
    ASSUME Sane, NEW r \in Reqs, NEW k \in Stages, At(r, k), Edit(r, k),
           Continue(r) \/ LoseSend(r)
    PROVE  EditMoves(r, k)
<1>a. /\ TypeOK /\ req \in [Reqs -> ReqType] /\ Rows
      /\ text \in [Segs -> Texts \union {None}]
      /\ enabled \in [Segs -> BOOLEAN]
      /\ point \in [Segs -> [text : Texts \union {None}, doc : BOOLEAN,
                             on : BOOLEAN]]
  BY DEF Sane, Types, TypeOK
<1>v. /\ NoView \in ViewType /\ View \in ViewType /\ RowsView \in ViewType
      /\ View.text = text /\ View.on = enabled
  BY <1>a, NoViewTyped, ViewsTyped
<1>w. /\ req[r].view \in ViewType /\ req[r].seg \in Segs \union {None}
      /\ req[r].text \in Texts \union {None} /\ req[r].on \in BOOLEAN
  BY <1>a DEF ReqType
<1> DEFINE s == req[r].seg
           j == After(k)
<1>k. k = "send" \/ s \in Segs BY DEF Edit, Sound
<1>1. ASSUME NEW v \in ViewType, Advanced(r, k, v)
      PROVE  /\ j = "done" => req'[r].todo = <<>>
             /\ j # "done" =>
                  /\ j \in Stages /\ At(r, j)'
                  /\ req'[r].view = v /\ req'[r].seg = s
                  /\ req'[r].text = req[r].text /\ req'[r].on = req[r].on
  BY <1>1, <1>a, AdvancedTo, RestShape DEF At
<1>u. UNCHANGED <<text, enabled, point>> => Untouched(s) BY DEF Untouched
<1>2. ASSUME Look(r) PROVE EditMoves(r, k)
  <2>1. k \in {"createLook", "changeLook", "sameLook", "onLook", "offLook"}
    BY <1>2, DoingAt, FrontStages DEF Look
  <2>2. Stored(s) BY <2>1 DEF Edit, Stages, Creating, Changing, Repeating,
                              SwitchingOn, SwitchingOff, Deleting
  <2>3. Advanced(r, k, View) BY <1>2, <2>2, GoesAdvances DEF Look
  <2>4. /\ UNCHANGED <<text, enabled, point>>
    BY <1>2 DEF Look, rows
  <2>5. j # "done" BY <2>1 DEF After
  <2>6. /\ j \in Stages /\ At(r, j)'
        /\ req'[r].view = View /\ req'[r].seg = s
        /\ req'[r].text = req[r].text /\ req'[r].on = req[r].on
    BY <1>1, <1>v, <2>3, <2>5
  <2>7. Edit(r, j)'
    BY <2>1, <2>2, <2>4, <2>6, <1>v
       DEF Edit, Sound, Shown, Stored, After, Creating, Changing, Repeating,
           SwitchingOn, SwitchingOff, Deleting
  <2>8. QED BY <1>u, <2>4, <2>5, <2>6, <2>7 DEF EditMoves
<1>3. ASSUME Relook(r) PROVE EditMoves(r, k)
  <2>1. k \in {"changeRelook", "sameRelook"}
    BY <1>3, DoingAt, FrontStages DEF Relook
  <2>2. Stored(s)
    BY <2>1 DEF Edit, Stages, Creating, Changing, Repeating
  <2>3. UNCHANGED <<text, enabled, point>> BY <1>3 DEF Relook, rows
  <2>4. j \in {"changeUpsert", "count"} /\ (j = "count" => k = "sameRelook")
    BY <2>1 DEF After
  <2>5. PICK v \in ViewType :
          /\ Goes(r, v)
          /\ v = View \/ v = req[r].view
    BY <1>3, <1>v, <1>w, <2>2 DEF Relook
  <2>6. /\ j \in Stages /\ At(r, j)'
        /\ req'[r].view = v /\ req'[r].seg = s
        /\ req'[r].text = req[r].text /\ req'[r].on = req[r].on
    BY <1>1, <2>4, <2>5, GoesAdvances
  <2>7. k = "changeRelook" => v.on[s] = enabled[s]
    BY <1>v, <2>5 DEF Edit
  <2>8. Edit(r, j)'
    <3>1. CASE k = "changeRelook"
      BY <2>2, <2>3, <2>6, <2>7, <3>1
         DEF After, Edit, Sound, Shown, Stored, Creating, Changing, Repeating,
             SwitchingOn, SwitchingOff, Deleting
    <3>2. CASE k = "sameRelook"
      <4>1. Shown(s) /\ s \in Segs BY <1>k, <3>2 DEF Edit, Repeating
      <4>2. j = "count" BY <3>2 DEF After
      <4>3. QED
        BY <2>3, <2>6, <4>1, <4>2
           DEF Edit, Sound, Shown, Creating, Changing, Repeating,
               SwitchingOn, SwitchingOff
    <3>3. QED BY <2>1, <3>1, <3>2
  <2>9. QED BY <1>u, <2>3, <2>4, <2>6, <2>8 DEF EditMoves
<1>4. ASSUME AddKeywords(r) PROVE EditMoves(r, k)
  <2>1. k \in {"createAdd", "onAdd", "changeAdd", "sameAdd"}
    BY <1>4, DoingAt, FrontStages DEF AddKeywords
  <2>2. UNCHANGED <<text, enabled, point>> BY <1>4 DEF AddKeywords, rows
  <2> DEFINE v == [req[r].view EXCEPT !.kw = NoView.kw]
  <2>3. v \in ViewType /\ v.on = req[r].view.on
    BY <1>w DEF ViewType, NoView
  <2>4. Advanced(r, k, v) BY <1>4, GoesAdvances DEF AddKeywords
  <2>5. CASE k = "onAdd"
    <3>1. j = "done" BY <2>5 DEF After
    <3>2. ShownNext(s) BY <2>2, <2>5 DEF Edit, Shown, ShownNext
    <3>3. QED BY <1>1, <1>u, <2>2, <2>3, <2>4, <3>1, <3>2 DEF EditMoves
  <2>6. CASE k # "onAdd"
    <3>1. j \in {"sum", "changeRelook", "sameRelook"} BY <2>1, <2>6 DEF After
    <3>2. /\ j \in Stages /\ At(r, j)'
          /\ req'[r].view.on = req[r].view.on /\ req'[r].seg = s
          /\ req'[r].text = req[r].text /\ req'[r].on = req[r].on
      BY <1>1, <2>3, <2>4, <3>1
    <3> HIDE DEF v
    <3>3. Edit(r, j)'
      BY <2>1, <2>2, <2>6, <3>2
         DEF After, Edit, Sound, Shown, Stored, Stages, Creating, Changing,
             Repeating, SwitchingOn, SwitchingOff, Deleting
    <3>4. QED BY <1>u, <2>2, <3>1, <3>2, <3>3 DEF EditMoves
  <2>7. QED BY <2>5, <2>6
<1>5. ASSUME DropKeywords(r) PROVE EditMoves(r, k)
  <2>1. k \in {"changeDrop", "sameDrop", "offDrop", "deleteDrop"}
    BY <1>5, DoingAt, FrontStages DEF DropKeywords
  <2>2. UNCHANGED <<text, enabled, point>> BY <1>5 DEF DropKeywords, rows
  <2>3. Advanced(r, k, NoView) BY <1>5, GoesAdvances DEF DropKeywords, Done
  <2>4. CASE k = "offDrop"
    <3>1. j = "done" BY <2>4 DEF After
    <3>2. ShownNext(s) BY <2>2, <2>4 DEF Edit, Shown, ShownNext
    <3>3. QED BY <1>1, <1>u, <1>v, <2>2, <2>3, <3>1, <3>2 DEF EditMoves
  <2>5. CASE k # "offDrop"
    <3>1. j \in {"changeWrite", "sameWrite", "deleteRow"}
      BY <2>1, <2>5 DEF After
    <3>2. /\ j \in Stages /\ At(r, j)' /\ req'[r].seg = s
          /\ req'[r].text = req[r].text /\ req'[r].on = req[r].on
      BY <1>1, <1>v, <2>3, <3>1
    <3> DEFINE Facts == /\ k = "changeDrop" => j = "changeWrite"
                        /\ k = "sameDrop" => j = "sameWrite"
                        /\ k = "deleteDrop" => j = "deleteRow"
    <3>f. Facts BY DEF After
    <3> HIDE DEF j
    <3>3. Edit(r, j)'
      BY <2>1, <2>2, <2>5, <3>2, <3>f
         DEF Edit, Sound, Shown, Stored, Stages, Creating, Changing,
             Repeating, SwitchingOn, SwitchingOff, Deleting
    <3>4. QED BY <1>u, <2>2, <3>1, <3>2, <3>3 DEF j, EditMoves
  <2>6. QED BY <2>4, <2>5
<1>6. ASSUME WriteSegment(r) PROVE EditMoves(r, k)
  <2>1. k \in {"changeWrite", "sameWrite"}
    BY <1>6, DoingAt, FrontStages DEF WriteSegment
  <2>2. Stored(s)
    BY <2>1 DEF Edit, Stages, Creating, Changing, Repeating
  <2>3. /\ text' = [text EXCEPT ![s] = req[r].text]
        /\ enabled' = enabled /\ point' = point
        /\ Advanced(r, k, NoView)
    BY <1>6, <2>2, GoesAdvances DEF WriteSegment, Done
  <2>4. s \in Segs /\ req[r].text # None
    BY <2>1 DEF Edit, Sound, Changing, Repeating
  <2>5. j \in {"changeLook", "sameLook"} BY <2>1 DEF After
  <2>6. /\ j \in Stages /\ At(r, j)' /\ req'[r].seg = s
        /\ req'[r].text = req[r].text /\ req'[r].on = req[r].on
    BY <1>1, <1>v, <2>3, <2>5
  <2>7. text'[s] = req[r].text /\ Untouched(s)
    BY <1>a, <2>3, <2>4 DEF Untouched
  <2> HIDE DEF j
  <2>8. Edit(r, j)'
    <3>1. CASE k = "changeWrite"
      <4>1. j = "changeLook" BY <3>1 DEF After, j
      <4>2. ~req[r].on /\ point[s].on = enabled[s]
        BY <3>1 DEF Edit, Changing
      <4>3. QED
        BY <2>3, <2>4, <2>6, <2>7, <4>1, <4>2
           DEF Edit, Sound, Stored, Changing, Repeating, SwitchingOn,
               SwitchingOff
    <3>2. CASE k = "sameWrite"
      <4>1. j = "sameLook" BY <3>2 DEF After, j
      <4>2. Shown(s) /\ text[s] = req[r].text
        BY <3>2 DEF Edit, Repeating
      <4>3. ShownNext(s) BY <2>3, <2>7, <4>2 DEF Shown, ShownNext
      <4>4. QED
        BY <2>3, <2>4, <2>6, <2>7, <4>1, <4>3
           DEF Edit, Sound, Shown, ShownNext, Stored, Changing, Repeating,
               SwitchingOn, SwitchingOff
    <3>3. QED BY <2>1, <3>1, <3>2
  <2>9. QED BY <2>5, <2>6, <2>7, <2>8 DEF EditMoves, j
<1>7. ASSUME UpsertPoint(r) PROVE EditMoves(r, k)
  <2>1. k \in {"createUpsert", "changeUpsert"}
    BY <1>7, DoingAt, FrontStages DEF UpsertPoint
  <2> DEFINE v == [req[r].view EXCEPT !.doc = FALSE]
  <2>2. v \in ViewType BY <1>w DEF ViewType
  <2>3. s \in Segs /\ text[s] = req[r].text
    BY <1>k, <2>1 DEF Edit
  <2>4. req[r].view.on[s] \in BOOLEAN BY <1>w, <2>3 DEF ViewType
  <2>5. (req[r].on \/ req[r].view.on[s]) = enabled[s]
    <3>1. CASE k = "createUpsert" BY <1>a, <1>w, <2>3, <3>1 DEF Edit
    <3>2. CASE k = "changeUpsert"
      BY <1>a, <1>w, <2>3, <2>4, <3>2 DEF Edit, Changing
    <3>3. QED BY <2>1, <3>1, <3>2
  <2>6. point' = [point EXCEPT ![s] =
                    [text |-> text[s], doc |-> req[r].view.doc,
                     on |-> enabled[s]]]
    BY <1>7, <2>3, <2>5 DEF UpsertPoint
  <2>7. UNCHANGED <<text, enabled>> /\ Advanced(r, k, v)
    BY <1>7, GoesAdvances DEF UpsertPoint, rows
  <2>8. Untouched(s) /\ ShownNext(s)
    BY <1>a, <2>3, <2>6, <2>7 DEF Untouched, ShownNext
  <2>9. j \in {"createAdd", "count"} BY <2>1 DEF After
  <2>10. /\ j \in Stages /\ At(r, j)' /\ req'[r].seg = s
         /\ req'[r].text = req[r].text /\ req'[r].on = req[r].on
         /\ req'[r].view.text = req[r].view.text
    <3>1. v.text = req[r].view.text BY <1>w DEF ViewType
    <3>2. QED BY <1>1, <2>2, <2>7, <2>9, <3>1
  <2>11. Stored(s)
    BY <2>1 DEF Edit, Stages, Creating, Changing
  <2> HIDE DEF v
  <2>12. (j = "createAdd" => req[r].view.text[s] # None)
    BY <2>1, <2>3, <2>11 DEF After, Edit, Sound
  <2>13. Edit(r, j)'
    BY <2>3, <2>7, <2>8, <2>9, <2>10, <2>11, <2>12
       DEF Edit, Sound, Shown, ShownNext, Stored, Creating, Changing,
           Repeating, SwitchingOn, SwitchingOff, Deleting
  <2>14. QED BY <2>8, <2>9, <2>10, <2>13 DEF EditMoves
<1>8. ASSUME FlagSegment(r) PROVE EditMoves(r, k)
  <2>1. k \in {"onFlag", "offFlag"}
    BY <1>8, DoingAt, FrontStages DEF FlagSegment
  <2>2. /\ s \in Segs /\ Stored(s) /\ point[s].text = text[s]
        /\ enabled[s] = req[r].on
    BY <2>1 DEF Edit, Sound, Stages, SwitchingOn, SwitchingOff
  <2>3. point[s] # NoPoint BY <2>2 DEF Stored, NoPoint
  <2>4. /\ point' = [point EXCEPT ![s].on = req[r].on]
        /\ UNCHANGED <<text, enabled>> /\ Advanced(r, k, req[r].view)
    BY <1>8, <2>3, GoesAdvances DEF FlagSegment, rows
  <2>5. Untouched(s) /\ ShownNext(s)
    BY <1>a, <2>2, <2>4 DEF Untouched, ShownNext
  <2>6. j \in {"onAdd", "offDrop"} /\ (j = "onAdd" => k = "onFlag")
    BY <2>1 DEF After
  <2>7. /\ j \in Stages /\ At(r, j)' /\ req'[r].seg = s
        /\ req'[r].text = req[r].text /\ req'[r].on = req[r].on
        /\ req'[r].view = req[r].view
    BY <1>1, <1>w, <2>4, <2>6
  <2>8. Edit(r, j)'
    BY <2>2, <2>4, <2>5, <2>6, <2>7
       DEF Edit, Sound, Shown, ShownNext, Stored, Stages, Creating, Changing,
           Repeating, SwitchingOn, SwitchingOff, Deleting
  <2>9. QED BY <2>5, <2>6, <2>7, <2>8 DEF EditMoves
<1>9. ASSUME RemoveSegment(r) PROVE EditMoves(r, k)
  <2>1. k = "deleteRow" BY <1>9, DoingAt, FrontStages DEF RemoveSegment
  <2>2. s \in Segs BY <1>k, <2>1
  <2>3. /\ text' = [text EXCEPT ![s] = None]
        /\ enabled' = [enabled EXCEPT ![s] = FALSE] /\ point' = point
        /\ Advanced(r, k, NoView)
    BY <1>9, GoesAdvances DEF RemoveSegment, Done
  <2>4. Untouched(s) /\ text'[s] = None /\ ~enabled'[s]
    BY <1>a, <2>2, <2>3 DEF Untouched
  <2>5. j = "deletePoint" BY <2>1 DEF After
  <2>6. /\ j \in Stages /\ At(r, j)' /\ req'[r].seg = s
    BY <1>1, <1>v, <2>3, <2>5
  <2>7. Edit(r, j)'
    BY <2>2, <2>4, <2>5, <2>6
       DEF Edit, Sound, Shown, ShownNext, Creating, Changing, Repeating,
           SwitchingOn, SwitchingOff
  <2>8. QED BY <2>4, <2>5, <2>6, <2>7 DEF EditMoves
<1>10. ASSUME RemovePoint(r) PROVE EditMoves(r, k)
  <2>1. k = "deletePoint" BY <1>10, DoingAt, FrontStages DEF RemovePoint
  <2>2. s \in Segs /\ text[s] = None /\ ~enabled[s]
    BY <1>k, <2>1 DEF Edit
  <2>3. /\ point' = [point EXCEPT ![s] = NoPoint]
        /\ UNCHANGED <<text, enabled>>
        /\ Advanced(r, k, NoView)
    BY <1>10, GoesAdvances DEF RemovePoint, Done, rows
  <2>4. Untouched(s) /\ ShownNext(s)
    BY <1>a, <2>2, <2>3 DEF Untouched, ShownNext, NoPoint
  <2>5. j = "sum" BY <2>1 DEF After
  <2>6. /\ j \in Stages /\ At(r, j)' /\ req'[r].seg = s
    BY <1>1, <1>v, <2>3, <2>5
  <2>7. Edit(r, j)'
    BY <2>2, <2>4, <2>5, <2>6
       DEF Edit, Sound, Shown, ShownNext, Creating, Changing, Repeating,
           SwitchingOn, SwitchingOff
  <2>8. QED BY <2>4, <2>5, <2>6, <2>7 DEF EditMoves
<1>11. ASSUME Sum(r) PROVE EditMoves(r, k)
  <2>1. k = "sum" BY <1>11, DoingAt, FrontStages DEF Sum
  <2>2. UNCHANGED <<text, enabled, point>> /\ Advanced(r, k, RowsView)
    BY <1>11, GoesAdvances DEF Sum, rows
  <2>3. j = "count" BY <2>1 DEF After
  <2>4. /\ j \in Stages /\ At(r, j)' /\ req'[r].seg = s
    BY <1>1, <1>v, <2>2, <2>3
  <2>5. ShownNext(s) BY <2>1, <2>2 DEF Edit, Shown, ShownNext
  <2>6. Edit(r, j)'
    BY <1>k, <2>1, <2>3, <2>4, <2>5
       DEF Edit, Sound, Shown, ShownNext, Creating, Changing, Repeating,
           SwitchingOn, SwitchingOff
  <2>7. QED BY <1>u, <2>2, <2>3, <2>4, <2>6 DEF EditMoves
<1>12. ASSUME Count(r) PROVE EditMoves(r, k)
  <2>1. k = "count" BY <1>12, DoingAt, FrontStages DEF Count
  <2>2. UNCHANGED <<text, enabled, point>> /\ Advanced(r, k, NoView)
    BY <1>12, GoesAdvances DEF Count, Done, rows
  <2>3. j = "done" BY <2>1 DEF After
  <2>4. ShownNext(s) BY <2>1, <2>2 DEF Edit, Shown, ShownNext
  <2>5. QED BY <1>1, <1>u, <1>v, <2>2, <2>3, <2>4 DEF EditMoves
<1>13. ASSUME Send(r) \/ LoseSend(r) PROVE EditMoves(r, k)
  <2>1. Doing(r, "send") BY <1>13 DEF Send, LoseSend
  <2>2. k = "send" BY <2>1, DoingAt, FrontStages
  <2>3. UNCHANGED <<text, enabled, point>> BY <1>13 DEF Send, LoseSend, rows
  <2>4. j = "done" BY <2>2 DEF After
  <2>5. Advanced(r, k, NoView)
    <3>1. CASE Send(r) BY <3>1, GoesAdvances DEF Send, Done
    <3>2. CASE LoseSend(r) BY <2>4, <3>2 DEF LoseSend, Advanced
    <3>3. QED BY <1>13, <3>1, <3>2
  <2>6. s \notin Segs
    BY <2>2, ConstantsAssumption DEF Edit, Sound, ConstantsAssumption
  <2>7. QED BY <1>1, <1>u, <1>v, <2>3, <2>4, <2>5, <2>6 DEF EditMoves
<1>14. QED
  BY <1>2, <1>3, <1>4, <1>5, <1>6, <1>7, <1>8, <1>9, <1>10, <1>11, <1>12,
     <1>13
     DEF Continue

\* The stage of a request is about its own segment only.
LEMMA EditFrame ==
    ASSUME NEW q, NEW k \in Stages, At(q, k), Edit(q, k),
           NEW s, Untouched(s), req'[q] = req[q],
           req[q].seg # s \/ s \notin Segs
    PROVE  At(q, k)' /\ Edit(q, k)'
<1> DEFINE x == req[q].seg
<1>1. At(q, k)' BY DEF At
<1>2. CASE k = "send"
  <2>1. Edit(q, k)'
    BY <1>2 DEF Edit, Sound, Creating, Changing, Repeating, SwitchingOn,
                SwitchingOff, Deleting
  <2>2. QED BY <1>1, <2>1
<1>3. CASE k # "send"
  <2>1. x \in Segs BY <1>3 DEF Edit, Sound
  <2>2. /\ text'[x] = text[x] /\ enabled'[x] = enabled[x]
        /\ point'[x].text = point[x].text /\ point'[x].on = point[x].on
    BY <2>1 DEF Untouched
  <2>3. Sound(q, k)' BY DEF Edit, Sound
  <2>4. Shown(x) => Shown(x)' BY <2>2 DEF Shown
  <2>5. Edit(q, k)'
    BY <2>2, <2>3 DEF Edit, Shown, Stored
  <2>6. QED BY <1>1, <2>5
<1>4. QED BY <1>2, <1>3

\* It is enough to look at the request that takes a step and at its segment.
LEMMA EditsFrame ==
    ASSUME Edits, NEW r \in Reqs, NEW s, Untouched(s),
           \A q \in Reqs \ {r} : req'[q] = req[q],
           \A q \in Asking \ {r} : req[q].seg # s \/ s \notin Segs,
           r \in Asking => req[r].seg = s,
           \/ req'[r].todo = <<>> /\ (s \in Segs => ShownNext(s))
           \/ req'[r].seg = s /\ \E k \in Stages : At(r, k)' /\ Edit(r, k)'
    PROVE  Edits'
<1>1. ASSUME NEW q \in Reqs, req'[q].todo # <<>>
      PROVE  \E k \in Stages : At(q, k)' /\ Edit(q, k)'
  <2>1. CASE q = r BY <1>1, <2>1
  <2>2. CASE q # r
    <3>1. req'[q] = req[q] /\ q \in Asking BY <1>1, <2>2 DEF Asking
    <3>2. PICK k \in Stages : At(q, k) /\ Edit(q, k) BY <3>1 DEF Edits
    <3>3. req[q].seg # s \/ s \notin Segs BY <2>2, <3>1
    <3>4. QED BY <3>1, <3>2, <3>3, EditFrame
  <2>3. QED BY <2>1, <2>2
<1>2. ASSUME NEW x \in Segs,
             \A q \in Reqs : req'[q].todo # <<>> => req'[q].seg # x
      PROVE  ShownNext(x)
  <2>1. CASE x = s
    <3>1. req'[r].todo = <<>> BY <1>2, <2>1, RestShape DEF At
    <3>2. CASE req'[r].todo = <<>> /\ ShownNext(s) BY <2>1, <3>2
    <3>3. CASE req'[r].seg = s /\ \E k \in Stages : At(r, k)' /\ Edit(r, k)'
      <4>1. PICK k \in Stages : req'[r].todo = Rest(k) BY <3>3 DEF At
      <4>2. QED BY <3>1, <4>1, RestShape
    <3>4. QED BY <2>1, <3>2, <3>3
  <2>2. CASE x # s
    <3>1. \A q \in Asking : req[q].seg # x
      BY <1>2, <2>2 DEF Asking
    <3>2. Shown(x) BY <3>1 DEF Edits
    <3>3. QED BY <2>2, <3>2 DEF Untouched, Shown, ShownNext
  <2>3. QED BY <2>1, <2>2
<1>3. (\A q \in Asking : \E k \in Stages : At(q, k) /\ Edit(q, k))'
  BY <1>1 DEF Asking
<1>4. (\A x \in Segs : (\A q \in Asking : req[q].seg # x) => Shown(x))'
  BY <1>2 DEF Asking, Shown, ShownNext
<1>5. QED BY <1>3, <1>4 DEF Edits

\* A request begins: what its first step finds and does.
Opens(r, k) ==
    LET s == req'[r].seg
        t == req'[r].text
        on == req'[r].on
    IN
    /\ req[r].todo = <<>> /\ req'[r].todo # <<>>
    /\ At(r, k)' /\ Sound(r, k)'
    /\ \A q \in Reqs \ {r} : req'[q] = req[q]
    /\ UNCHANGED <<counted, point, kw, queue, work, lost>>
    /\ overlapped' = (overlapped \/ Asking # {} \/ Working # {})
    /\ \/ /\ k = "createLook"
          /\ s \in unused /\ t \in Texts /\ on
          /\ text' = [text EXCEPT ![s] = t]
          /\ enabled' = [enabled EXCEPT ![s] = TRUE]
          /\ docEnabled' = docEnabled
       \/ /\ k \in {"changeDrop", "sameDrop", "deleteDrop"}
          /\ Stored(s) /\ ~on /\ req'[r].view.kw = kw
          /\ k = "sameDrop" => t = text[s]
          /\ UNCHANGED <<docEnabled, text, enabled>>
       \/ /\ k \in {"onLook", "offLook"}
          /\ Stored(s) /\ on = (k = "onLook")
          /\ enabled' = [enabled EXCEPT ![s] = on]
          /\ UNCHANGED <<docEnabled, text>>
       \/ /\ k = "send"
          /\ docEnabled' = on
          /\ UNCHANGED <<text, enabled>>

Started(r, k, s, t, on, v) ==
    /\ req[r].todo = <<>> /\ req'[r].todo # <<>> /\ At(r, k)'
    /\ \A q \in Reqs \ {r} : req'[q] = req[q]
    /\ UNCHANGED <<counted, point, kw, queue, work, lost>>
    /\ overlapped' = (overlapped \/ Asking # {} \/ Working # {})
    /\ req'[r].seg = s /\ req'[r].text = t
    /\ req'[r].on = on /\ req'[r].view = v

\* Whatever is asked for opens a request at some stage.
LEMMA AskOpens ==
    ASSUME Sane, NEW r \in Reqs, Ask(r)
    PROVE  \E k \in Stages : Opens(r, k)
<1>a. TypeOK /\ req \in [Reqs -> ReqType]
  BY DEF Sane, Types
<1>v. NoView \in ViewType /\ TableView \in ViewType /\ TableView.kw = kw
  BY <1>a, NoViewTyped, ViewsTyped
<1>n. /\ None \in Segs \union {None} /\ None \in Texts \union {None}
      /\ None \notin Texts
  BY ConstantsAssumption DEF ConstantsAssumption
<1>k. {"createLook", "changeDrop", "sameDrop", "onLook", "offLook",
       "deleteDrop", "send"} \subseteq Stages
  BY DEF Stages, Creating, Changing, Repeating, SwitchingOn, SwitchingOff,
         Deleting
<1>1. ASSUME NEW k \in Stages, NEW s \in Segs \union {None},
             NEW t \in Texts \union {None}, NEW on \in BOOLEAN,
             NEW v \in ViewType, Begin(r, s, t, on, v, Rest(k))
      PROVE  Started(r, k, s, t, on, v)
  <2>1. Begin(r, s, t, on, v, Rest(k)) BY <1>1
  <2>2. Begun(r, k, s, t, on, v) BY <1>a, <2>1, BeginsAt
  <2>3. QED BY <2>1, <2>2 DEF Begun, Begin, Started
<1>2. ASSUME NEW s \in Segs, NEW t \in Texts, CreateSegment(r, s, t)
      PROVE  Opens(r, "createLook")
  <2>1. /\ s \in unused /\ text' = [text EXCEPT ![s] = t]
        /\ enabled' = [enabled EXCEPT ![s] = TRUE]
        /\ docEnabled' = docEnabled
        /\ Begin(r, s, t, TRUE, NoView, Rest("createLook"))
    BY <1>2, FirstLists DEF CreateSegment
  <2>2. Started(r, "createLook", s, t, TRUE, NoView) BY <1>1, <1>k, <1>v, <2>1
  <2>3. QED BY <2>1, <2>2 DEF Started, Opens, Sound, Changing, Repeating
<1>3. ASSUME NEW s \in Segs, NEW t \in Texts, UpdateSegment(r, s, t)
      PROVE  \E k \in {"changeDrop", "sameDrop"} : Opens(r, k)
  <2>1. PICK k \in {"changeDrop", "sameDrop"} :
          /\ Begin(r, s, t, FALSE, TableView, Rest(k))
          /\ k = "sameDrop" => t = text[s]
    BY <1>3, FirstLists DEF UpdateSegment
  <2>2. Stored(s) /\ UNCHANGED <<docEnabled, text, enabled>>
    BY <1>3 DEF UpdateSegment, rows
  <2>3. Started(r, k, s, t, FALSE, TableView) BY <1>1, <1>k, <1>v, <2>1
  <2>4. Opens(r, k)
    BY <1>n, <1>v, <2>1, <2>2, <2>3 DEF Started, Opens, Sound
  <2>5. QED BY <2>4
<1>4. ASSUME NEW s \in Segs, NEW on \in BOOLEAN, SwitchSegment(r, s, on)
      PROVE  \E k \in {"onLook", "offLook"} : Opens(r, k)
  <2>1. PICK k \in {"onLook", "offLook"} :
          /\ Begin(r, s, None, on, NoView, Rest(k))
          /\ on = (k = "onLook")
    BY <1>4, FirstLists DEF SwitchSegment
  <2>2. /\ Stored(s) /\ UNCHANGED <<docEnabled, text>>
        /\ enabled' = [enabled EXCEPT ![s] = on]
    BY <1>4 DEF SwitchSegment
  <2>3. Started(r, k, s, None, on, NoView) BY <1>1, <1>k, <1>v, <1>n, <2>1
  <2>4. Opens(r, k)
    BY <2>1, <2>2, <2>3 DEF Started, Opens, Sound, Changing, Repeating
  <2>5. QED BY <2>4
<1>5. ASSUME NEW s \in Segs, DeleteSegment(r, s)
      PROVE  Opens(r, "deleteDrop")
  <2>1. /\ Begin(r, s, None, FALSE, TableView, Rest("deleteDrop"))
        /\ Stored(s) /\ UNCHANGED <<docEnabled, text, enabled>>
    BY <1>5, FirstLists DEF DeleteSegment, rows
  <2>2. Started(r, "deleteDrop", s, None, FALSE, TableView)
    BY <1>1, <1>k, <1>v, <1>n, <2>1
  <2>3. QED BY <1>v, <2>1, <2>2 DEF Started, Opens, Sound, Changing, Repeating
<1>6. ASSUME NEW on \in BOOLEAN, SwitchDocument(r, on)
      PROVE  Opens(r, "send")
  <2>1. /\ Begin(r, None, None, on, NoView, Rest("send"))
        /\ docEnabled' = on /\ UNCHANGED <<text, enabled>>
    BY <1>6, FirstLists DEF SwitchDocument, rows
  <2>2. Started(r, "send", None, None, on, NoView)
    BY <1>1, <1>k, <1>v, <1>n, <2>1
  <2>3. QED BY <2>1, <2>2 DEF Started, Opens, Sound, Changing, Repeating
<1>7. QED BY <1>2, <1>3, <1>4, <1>5, <1>6, <1>k DEF Ask

\* A request that opens finds its segment as its first stage wants it,
\* and no other request is about that segment.
LEMMA OpensEdit ==
    ASSUME Sane, Edits, Apart', NEW r \in Reqs, NEW k \in Stages, Opens(r, k)
    PROVE  /\ Edit(r, k)' /\ Untouched(req'[r].seg)
           /\ \A q \in Asking \ {r} : req[q].seg # req'[r].seg
                                      \/ req'[r].seg \notin Segs
<1> DEFINE s == req'[r].seg
<1>a. /\ text \in [Segs -> Texts \union {None}]
      /\ enabled \in [Segs -> BOOLEAN] /\ unused \subseteq Segs
  BY DEF Sane, Types, TypeOK
<1>b. Sound(r, k)' /\ point' = point BY DEF Opens
<1>1. \A q \in Asking \ {r} : req[q].seg # s \/ s \notin Segs
  <2> SUFFICES ASSUME NEW q \in Asking \ {r}, req[q].seg = s, s \in Segs
               PROVE  FALSE
    OBVIOUS
  <2>1. q \in Reqs /\ req'[q] = req[q] /\ req'[r].todo # <<>>
    BY DEF Opens, Asking
  <2>2. q \in Asking' /\ r \in Asking' BY <2>1 DEF Asking
  <2>3. QED BY <2>1, <2>2 DEF Apart
<1>2. s \in Segs => Shown(req'[r].seg)
  <2> SUFFICES ASSUME s \in Segs PROVE \A q \in Asking : req[q].seg # s
    BY DEF Edits
  <2>1. r \notin Asking BY DEF Opens, Asking
  <2>2. QED BY <1>1, <2>1
<1>3. CASE k = "createLook"
  <2>1. /\ s \in Segs /\ text' = [text EXCEPT ![s] = req'[r].text]
        /\ enabled' = [enabled EXCEPT ![s] = TRUE]
        /\ req'[r].on /\ req'[r].text \in Texts
    BY <1>3, <1>a DEF Opens
  <2>2. Untouched(s) /\ text'[s] = req'[r].text /\ enabled'[s]
    BY <1>a, <1>b, <2>1 DEF Untouched
  <2>3. text'[s] # None
    BY <2>1, <2>2, ConstantsAssumption DEF ConstantsAssumption
  <2>4. Edit(r, k)'
    BY <1>3, <1>b, <2>1, <2>2, <2>3
       DEF Edit, Stored, Changing, Repeating, SwitchingOn, SwitchingOff
  <2>5. QED BY <1>1, <2>2, <2>4
<1>4. CASE k \in {"changeDrop", "sameDrop", "deleteDrop"}
  <2>1. /\ text[s] # None /\ ~req'[r].on
        /\ k = "sameDrop" => req'[r].text = text[s]
        /\ text' = text /\ enabled' = enabled
    BY <1>4 DEF Opens, Stored
  <2>2. s \in Segs BY <1>4, <1>b DEF Sound
  <2>3. Untouched(s) BY <1>b, <2>1 DEF Untouched
  <2>4. Shown(req[r].seg)' BY <1>b, <1>2, <2>1, <2>2 DEF Shown
  <2>5. Edit(r, k)'
    BY <1>4, <1>b, <2>1, <2>4
       DEF Edit, Stored, Shown, Creating, Changing, Repeating, SwitchingOn,
           SwitchingOff
  <2>6. QED BY <1>1, <2>3, <2>5
<1>5. CASE k \in {"onLook", "offLook"}
  <2>1. /\ text[s] # None /\ text' = text
        /\ enabled' = [enabled EXCEPT ![s] = req'[r].on]
    BY <1>5 DEF Opens, Stored
  <2>2. s \in Segs BY <1>5, <1>b DEF Sound
  <2>3. Untouched(s) /\ enabled'[s] = req'[r].on
    BY <1>a, <1>b, <2>1, <2>2 DEF Untouched
  <2>4. point'[s].text = text'[s] BY <1>b, <1>2, <2>1, <2>2 DEF Shown
  <2>5. Edit(r, k)'
    BY <1>5, <1>b, <2>1, <2>3, <2>4
       DEF Edit, Stored, Changing, Repeating, SwitchingOn, SwitchingOff
  <2>6. QED BY <1>1, <2>3, <2>5
<1>6. CASE k = "send"
  <2>1. text' = text /\ enabled' = enabled BY <1>6 DEF Opens
  <2>2. Untouched(s) BY <1>b, <2>1 DEF Untouched
  <2>3. Edit(r, k)'
    BY <1>6, <1>b DEF Edit, Creating, Changing, Repeating, SwitchingOn,
                      SwitchingOff
  <2>4. QED BY <1>1, <2>2, <2>3
<1>7. QED BY <1>3, <1>4, <1>5, <1>6 DEF Opens

\* Tasks change the document's flag of the points and nothing else of them.
LEMMA WorkTouches ==
    ASSUME Sane, NEW w \in Workers, Work(w) \/ Kill(w)
    PROVE  /\ UNCHANGED <<docEnabled, text, enabled, unused, counted, req>>
           /\ \A x \in Segs : /\ point'[x].text = point[x].text
                              /\ point'[x].on = point[x].on
<1>a. point \in [Segs -> [text : Texts \union {None}, doc : BOOLEAN,
                          on : BOOLEAN]]
  BY DEF Sane, Types, TypeOK
<1>1. UNCHANGED <<docEnabled, text, enabled, unused, counted, req>>
  BY DEF Work, TakeSwitch, SwitchPoints, SwitchKeywords, Kill, rows
<1>2. CASE SwitchPoints(w)
  <2>1. \A x \in Segs : point'[x] = point[x]
                        \/ point'[x] = [point[x] EXCEPT !.doc = work[w].on]
    BY <1>2 DEF SwitchPoints
  <2>2. QED BY <1>a, <1>1, <2>1
<1>3. CASE ~SwitchPoints(w)
  <2>1. point' = point
    BY <1>3 DEF Work, TakeSwitch, SwitchKeywords, Kill
  <2>2. QED BY <1>1, <2>1
<1>4. QED BY <1>2, <1>3

\* What changes no row, no request and no content or flag of a point leaves
\* the edits where they are: the steps of tasks.
LEMMA QuietEdits ==
    ASSUME Edits, UNCHANGED <<text, enabled, req>>,
           \A x \in Segs : /\ point'[x].text = point[x].text
                           /\ point'[x].on = point[x].on
    PROVE  Edits'
<1>1. \A x : Untouched(x) BY DEF Untouched
<1>2. \A q \in Reqs, k \in Stages :
        At(q, k) /\ Edit(q, k) => At(q, k)' /\ Edit(q, k)'
  <2> SUFFICES ASSUME NEW q \in Reqs, NEW k \in Stages, At(q, k), Edit(q, k)
               PROVE  At(q, k)' /\ Edit(q, k)'
    OBVIOUS
  <2>1. Untouched(None) /\ req'[q] = req[q] BY <1>1
  <2>2. None \notin Segs BY ConstantsAssumption DEF ConstantsAssumption
  <2>3. QED BY <2>1, <2>2, EditFrame
<1>3. (\A q \in Asking : \E k \in Stages : At(q, k) /\ Edit(q, k))'
  BY <1>2 DEF Edits, Asking
<1>4. (\A x \in Segs : (\A q \in Asking : req[q].seg # x) => Shown(x))'
  BY DEF Edits, Asking, Shown
<1>5. QED BY <1>3, <1>4 DEF Edits

\* Every step keeps Edits while no two requests are about one segment.
LEMMA EditsStep ==
    ASSUME Sane, Edits, Apart, Apart', [Next]_vars
    PROVE  Edits'
<1>1. ASSUME NEW r \in Reqs, Ask(r) PROVE Edits'
  <2>1. PICK k \in Stages : Opens(r, k) BY <1>1, AskOpens
  <2>2. /\ Edit(r, k)' /\ Untouched(req'[r].seg)
        /\ \A q \in Asking \ {r} : req[q].seg # req'[r].seg
                                   \/ req'[r].seg \notin Segs
    BY <2>1, OpensEdit
  <2>3. /\ r \notin Asking /\ At(r, k)'
        /\ \A q \in Reqs \ {r} : req'[q] = req[q]
    BY <2>1 DEF Opens, Asking
  <2>4. QED BY <2>2, <2>3, EditsFrame
<1>2. ASSUME NEW r \in Reqs, Continue(r) \/ LoseSend(r) PROVE Edits'
  <2>1. r \in Asking
    BY <1>2
       DEF Continue, LoseSend, Look, Relook, AddKeywords, DropKeywords,
           WriteSegment, UpsertPoint, FlagSegment, RemoveSegment, RemovePoint,
           Sum, Count, Send, Doing, Asking
  <2>2. PICK k \in Stages : At(r, k) /\ Edit(r, k) BY <2>1 DEF Edits
  <2>3. EditMoves(r, k) BY <1>2, <2>2, EditNext
  <2>4. \A q \in Reqs \ {r} : req'[q] = req[q]
    BY <1>2
       DEF Continue, LoseSend, Look, Relook, AddKeywords, DropKeywords,
           WriteSegment, UpsertPoint, FlagSegment, RemoveSegment, RemovePoint,
           Sum, Count, Send, Goes, Done, Sane, Types
  <2>5. \A q \in Asking \ {r} : req[q].seg # req[r].seg
                                \/ req[r].seg \notin Segs
    BY <2>1 DEF Apart
  <2>6. QED BY <2>3, <2>4, <2>5, EditsFrame DEF EditMoves
<1>3. ASSUME NEW w \in Workers, Work(w) \/ Kill(w) PROVE Edits'
  <2>1. /\ UNCHANGED <<docEnabled, text, enabled, unused, counted, req>>
        /\ \A x \in Segs : /\ point'[x].text = point[x].text
                           /\ point'[x].on = point[x].on
    BY <1>3, WorkTouches
  <2>2. QED BY <2>1, QuietEdits
<1>4. CASE UNCHANGED vars
  <2>1. UNCHANGED <<text, enabled, point, req>> BY <1>4 DEF vars, rows
  <2>2. QED BY <2>1, QuietEdits
<1>5. QED BY <1>1, <1>2, <1>3, <1>4 DEF Next

\* To begin with nobody asks, and points and counts are those of the rows.
LEMMA InitEdits == Init => Edits /\ Asking = {} /\ counted = text
<1> SUFFICES ASSUME Init PROVE Edits /\ Asking = {} /\ counted = text OBVIOUS
<1>1. Asking = {} BY NoReqTyped DEF Init, Asking
<1>2. \A s \in Segs : Shown(s)
  <2>1. PICK S \in SUBSET Segs, t \in Texts :
          /\ text = [s \in Segs |-> IF s \in S THEN t ELSE None]
          /\ enabled = [s \in Segs |-> s \in S]
          /\ point = [s \in Segs |->
                         IF s \in S
                         THEN [text |-> t, doc |-> TRUE, on |-> TRUE]
                         ELSE NoPoint]
    BY DEF Init
  <2>2. ASSUME NEW s \in Segs PROVE Shown(s)
    <3>1. CASE s \in S
      <4>1. point[s] = [text |-> t, doc |-> TRUE, on |-> TRUE] /\ text[s] = t
        BY <2>1, <3>1
      <4>2. enabled[s] = (s \in S) BY <2>1
      <4>3. point[s].text = t /\ point[s].on = TRUE BY <4>1
      <4>4. QED BY <3>1, <4>1, <4>2, <4>3 DEF Shown
    <3>2. CASE s \notin S
      <4>1. point[s] = NoPoint /\ text[s] = None BY <2>1, <3>2
      <4>a. enabled[s] = (s \in S) BY <2>1
      <4>b. (s \in S) = FALSE BY <3>2
      <4>2. enabled[s] = FALSE BY <4>a, <4>b
      <4>3. NoPoint.text = None BY DEF NoPoint
      <4>4. NoPoint.on = FALSE BY DEF NoPoint
      <4>5. point[s].text = text[s] BY <4>1, <4>3
      <4>6. point[s].on = enabled[s] BY <4>1, <4>2, <4>4
      <4>7. QED BY <4>5, <4>6 DEF Shown
    <3>3. QED BY <3>1, <3>2
  <2>3. QED BY <2>2
<1>3. counted = text BY DEF Init
<1>4. QED BY <1>1, <1>2, <1>3 DEF Edits

\* A segment that no request is about any more is shown by its point.
ShownUnlessTouched ==
    \A s \in Segs : (\A r \in Asking : req[r].seg # s) => Shown(s)

\* A change made by hand shows at once: whatever tasks and requests for other
\* segments are doing, when no request is about a segment any more its point
\* has its content and its switch.
THEOREM EditsAreShown ==
    Spec /\ []Apart => [](ShownUnlessTouched /\ EditsShowAtOnce)
<1>1. Spec => []Sane BY InitSane, SaneStep, PTL DEF Spec
<1>2. Init => Edits BY InitEdits
<1>3. Sane /\ Edits /\ Apart /\ Apart' /\ [Next]_vars => Edits' BY EditsStep
<1>4. Edits => ShownUnlessTouched /\ EditsShowAtOnce
  BY DEF Edits, ShownUnlessTouched, EditsShowAtOnce, Shown
<1>5. QED BY <1>1, <1>2, <1>3, <1>4, PTL DEF Spec

-----------------------------------------------------------------------------
(* The counts of the document.                                             *)

TallyMoves(r, k) ==
    /\ After(k) = "done" => counted' = text'
    /\ After(k) # "done" => Tally(r, After(k))'

\* A step of a request leaves the counts as the next stage wants them.
LEMMA TallyNext ==
    ASSUME Sane, NEW r \in Reqs, NEW k \in Stages, At(r, k), Edit(r, k),
           Tally(r, k), Continue(r) \/ LoseSend(r)
    PROVE  TallyMoves(r, k)
<1>a. /\ req \in [Reqs -> ReqType] /\ text \in [Segs -> Texts \union {None}]
  BY DEF Sane, Types, TypeOK
<1>v. /\ NoView \in ViewType /\ View \in ViewType /\ RowsView \in ViewType
      /\ View.text = text /\ RowsView.text = text
  BY NoViewTyped, ViewsTyped DEF Sane, Types
<1>w. req[r].view \in ViewType /\ req[r].seg \in Segs \union {None}
  BY <1>a DEF ReqType
<1> DEFINE s == req[r].seg
           j == After(k)
<1>1. ASSUME NEW v \in ViewType, Advanced(r, k, v), j # "done"
      PROVE  req'[r].view = v
  BY <1>1, <1>a, AdvancedTo
<1>2. ASSUME Look(r) PROVE TallyMoves(r, k)
  <2>1. k \in {"createLook", "changeLook", "sameLook", "onLook", "offLook"}
    BY <1>2, DoingAt, FrontStages DEF Look
  <2>2. Stored(s)
    BY <2>1 DEF Edit, Stages, Creating, Changing, Repeating, SwitchingOn,
                SwitchingOff, Deleting
  <2>3. Advanced(r, k, View) /\ UNCHANGED <<text, counted>>
    BY <1>2, <2>2, GoesAdvances DEF Look, rows
  <2>4. j # "done" BY <2>1 DEF After
  <2>5. req'[r].view.text = text BY <1>1, <1>v, <2>3, <2>4
  <2>6. Tally(r, j)'
    BY <2>1, <2>3, <2>5
       DEF Tally, After, Repeating, SwitchingOn, SwitchingOff
  <2>7. QED BY <2>4, <2>6 DEF TallyMoves
<1>3. ASSUME Relook(r) PROVE TallyMoves(r, k)
  <2>1. k \in {"changeRelook", "sameRelook"}
    BY <1>3, DoingAt, FrontStages DEF Relook
  <2>2. Stored(s) BY <2>1 DEF Edit, Stages, Creating, Changing, Repeating
  <2>3. j \in {"changeUpsert", "count"} BY <2>1 DEF After
  <2>4. PICK v \in ViewType :
          /\ Goes(r, v)
          /\ v = View \/ v = req[r].view
    BY <1>3, <1>v, <1>w, <2>2 DEF Relook
  <2>5. UNCHANGED <<text, counted>> BY <1>3 DEF Relook, rows
  <2>6. req[r].view.text = text BY <2>1 DEF Tally
  <2>7. req'[r].view.text = text
    BY <1>1, <1>v, <2>3, <2>4, <2>6, GoesAdvances
  <2> HIDE DEF j
  <2>8. Tally(r, j)'
    BY <2>3, <2>5, <2>7 DEF Tally, Repeating, SwitchingOn, SwitchingOff
  <2>9. QED BY <2>3, <2>8 DEF TallyMoves, j
<1>4. ASSUME AddKeywords(r) PROVE TallyMoves(r, k)
  <2>1. k \in {"createAdd", "onAdd", "changeAdd", "sameAdd"}
    BY <1>4, DoingAt, FrontStages DEF AddKeywords
  <2> DEFINE v == [req[r].view EXCEPT !.kw = NoView.kw]
  <2>2. v \in ViewType /\ v.text = req[r].view.text
    BY <1>w DEF ViewType, NoView
  <2>3. Advanced(r, k, v) /\ UNCHANGED <<text, counted>>
    BY <1>4, GoesAdvances DEF AddKeywords, rows
  <2>4. j # "done" => req'[r].view.text = req[r].view.text
    BY <1>1, <2>2, <2>3
  <2> HIDE DEF v
  <2>5. CASE k = "onAdd"
    BY <2>3, <2>5 DEF TallyMoves, Tally, SwitchingOn, After
  <2>6. CASE k = "createAdd"
    BY <2>3, <2>6
       DEF TallyMoves, Tally, Repeating, SwitchingOn, SwitchingOff, After
  <2>7. CASE k \in {"changeAdd", "sameAdd"}
    BY <2>3, <2>4, <2>7
       DEF TallyMoves, Tally, Repeating, SwitchingOn, SwitchingOff, After
  <2>8. QED BY <2>1, <2>5, <2>6, <2>7
<1>5. ASSUME DropKeywords(r) PROVE TallyMoves(r, k)
  <2>1. k \in {"changeDrop", "sameDrop", "offDrop", "deleteDrop"}
    BY <1>5, DoingAt, FrontStages DEF DropKeywords
  <2>2. UNCHANGED <<text, counted>> BY <1>5 DEF DropKeywords, rows
  <2>3. counted = text BY <2>1 DEF Tally, Repeating, SwitchingOff
  <2>4. j \in {"done", "changeWrite", "sameWrite", "deleteRow"}
    BY <2>1 DEF After
  <2> HIDE DEF j
  <2>5. j # "done" => Tally(r, j)' BY <2>2, <2>3, <2>4 DEF Tally
  <2>6. QED BY <2>2, <2>3, <2>5 DEF TallyMoves, j
<1>6. ASSUME WriteSegment(r) PROVE TallyMoves(r, k)
  <2>1. k \in {"changeWrite", "sameWrite"}
    BY <1>6, DoingAt, FrontStages DEF WriteSegment
  <2>2. Stored(s) BY <2>1 DEF Edit, Stages, Creating, Changing, Repeating
  <2>3. text' = [text EXCEPT ![s] = req[r].text] /\ counted' = counted
    BY <1>6, <2>2 DEF WriteSegment
  <2>4. CASE k = "changeWrite"
    BY <2>4 DEF TallyMoves, Tally, Repeating, SwitchingOn, SwitchingOff, After
  <2>5. CASE k = "sameWrite"
    <3>1. counted = text /\ text[s] = req[r].text
      BY <2>5 DEF Tally, Edit, Repeating
    <3>2. text' = text BY <1>a, <2>3, <3>1
    <3>3. Tally(r, "sameLook")' BY <2>3, <3>1, <3>2 DEF Tally
    <3>4. j = "sameLook" BY <2>5 DEF After
    <3>5. QED BY <3>3, <3>4 DEF TallyMoves
  <2>6. QED BY <2>1, <2>4, <2>5
<1>7. ASSUME UpsertPoint(r) PROVE TallyMoves(r, k)
  <2>1. k \in {"createUpsert", "changeUpsert"}
    BY <1>7, DoingAt, FrontStages DEF UpsertPoint
  <2> DEFINE v == [req[r].view EXCEPT !.doc = FALSE]
  <2>2. v \in ViewType /\ v.text = req[r].view.text BY <1>w DEF ViewType
  <2>3. Advanced(r, k, v) /\ UNCHANGED <<text, counted>>
    BY <1>7, GoesAdvances DEF UpsertPoint, rows
  <2>4. j \in {"createAdd", "count"}
        /\ (j = "count" => k = "changeUpsert")
    BY <2>1 DEF After
  <2>5. req'[r].view.text = req[r].view.text BY <1>1, <2>2, <2>3, <2>4
  <2> HIDE DEF v, j
  <2>6. Tally(r, j)'
    BY <2>3, <2>4, <2>5
       DEF Tally, Repeating, SwitchingOn, SwitchingOff
  <2>7. QED BY <2>4, <2>6 DEF TallyMoves, j
<1>8. ASSUME FlagSegment(r) PROVE TallyMoves(r, k)
  <2>1. k \in {"onFlag", "offFlag"}
    BY <1>8, DoingAt, FrontStages DEF FlagSegment
  <2>2. UNCHANGED <<text, counted>> BY <1>8 DEF FlagSegment, rows
  <2>3. counted = text BY <2>1 DEF Tally, SwitchingOn, SwitchingOff
  <2>4. j \in {"onAdd", "offDrop"} BY <2>1 DEF After
  <2> HIDE DEF j
  <2>5. Tally(r, j)' BY <2>2, <2>3, <2>4 DEF Tally
  <2>6. QED BY <2>4, <2>5 DEF TallyMoves, j
<1>9. ASSUME RemoveSegment(r) PROVE TallyMoves(r, k)
  <2>1. k = "deleteRow" BY <1>9, DoingAt, FrontStages DEF RemoveSegment
  <2>2. QED
    BY <2>1 DEF TallyMoves, Tally, Repeating, SwitchingOn, SwitchingOff, After
<1>10. ASSUME RemovePoint(r) PROVE TallyMoves(r, k)
  <2>1. k = "deletePoint" BY <1>10, DoingAt, FrontStages DEF RemovePoint
  <2>2. QED
    BY <2>1 DEF TallyMoves, Tally, Repeating, SwitchingOn, SwitchingOff, After
<1>11. ASSUME Sum(r) PROVE TallyMoves(r, k)
  <2>1. k = "sum" BY <1>11, DoingAt, FrontStages DEF Sum
  <2>2. Advanced(r, k, RowsView) /\ text' = text
    BY <1>11, GoesAdvances DEF Sum, rows
  <2>3. j = "count" BY <2>1 DEF After
  <2>4. req'[r].view.text = text' BY <1>1, <1>v, <2>2, <2>3
  <2>5. Tally(r, j)'
    BY <2>3, <2>4 DEF Tally, Repeating, SwitchingOn, SwitchingOff
  <2>6. QED BY <2>3, <2>5 DEF TallyMoves
<1>12. ASSUME Count(r) PROVE TallyMoves(r, k)
  <2>1. k = "count" BY <1>12, DoingAt, FrontStages DEF Count
  <2>2. j = "done" BY <2>1 DEF After
  <2>3. counted' = text' BY <1>12, <2>1 DEF Count, rows, Tally
  <2>4. QED BY <2>2, <2>3 DEF TallyMoves
<1>13. ASSUME Send(r) \/ LoseSend(r) PROVE TallyMoves(r, k)
  <2>1. Doing(r, "send") BY <1>13 DEF Send, LoseSend
  <2>2. k = "send" BY <2>1, DoingAt, FrontStages
  <2>3. UNCHANGED <<text, counted>> BY <1>13 DEF Send, LoseSend, rows
  <2>4. QED BY <2>2, <2>3 DEF TallyMoves, Tally, After
<1>14. QED
  BY <1>2, <1>3, <1>4, <1>5, <1>6, <1>7, <1>8, <1>9, <1>10, <1>11, <1>12,
     <1>13
     DEF Continue

\* A request that opens finds the counts right.
LEMMA OpensTally ==
    ASSUME counted = text, NEW r \in Reqs, NEW k \in Stages, Opens(r, k)
    PROVE  Tally(r, k)'
<1>1. counted' = counted BY DEF Opens
<1>2. CASE k = "createLook"
  BY <1>2 DEF Tally, Repeating, SwitchingOn, SwitchingOff
<1>3. CASE k \in {"changeDrop", "sameDrop", "deleteDrop"}
  <2>1. text' = text BY <1>3 DEF Opens
  <2>2. QED BY <1>1, <1>3, <2>1 DEF Tally
<1>4. CASE k \in {"onLook", "offLook"}
  <2>1. text' = text BY <1>4 DEF Opens
  <2>2. QED BY <1>1, <1>4, <2>1 DEF Tally
<1>5. CASE k = "send"
  <2>1. text' = text BY <1>5 DEF Opens
  <2>2. QED BY <1>1, <1>5, <2>1 DEF Tally
<1>6. QED BY <1>2, <1>3, <1>4, <1>5 DEF Opens

\* Who continues was there, and leaves the others alone.
LEMMA Continuing ==
    ASSUME Sane, NEW r \in Reqs, Continue(r) \/ LoseSend(r)
    PROVE  r \in Asking /\ \A q \in Reqs \ {r} : req'[q] = req[q]
BY DEF Continue, LoseSend, Look, Relook, AddKeywords, DropKeywords,
       WriteSegment, UpsertPoint, FlagSegment, RemoveSegment, RemovePoint,
       Sum, Count, Send, Doing, Asking, Goes, Done, Sane, Types

\* Steps of tasks leave the counts alone.
LEMMA QuietTallies ==
    ASSUME Tallies, Alone', UNCHANGED <<text, enabled, counted, req>>,
           \A x \in Segs : /\ point'[x].text = point[x].text
                           /\ point'[x].on = point[x].on
    PROVE  Tallies'
<1>1. Untouched(None) BY DEF Untouched
<1>2. ASSUME NEW q \in Reqs, NEW k \in Stages, At(q, k), Edit(q, k),
             Tally(q, k)
      PROVE  At(q, k)' /\ Edit(q, k)' /\ Tally(q, k)'
  <2>1. req'[q] = req[q] OBVIOUS
  <2>2. None \notin Segs BY ConstantsAssumption DEF ConstantsAssumption
  <2>3. At(q, k)' /\ Edit(q, k)' BY <1>1, <1>2, <2>1, <2>2, EditFrame
  <2>4. Tally(q, k)' BY <1>2 DEF Tally
  <2>5. QED BY <2>3, <2>4
<1>3. QED BY <1>2 DEF Tallies, Asking

\* Every step keeps Tallies while one request is worked on at a time.
LEMMA TalliesStep ==
    ASSUME Sane, Edits, Tallies, Alone', [Next]_vars
    PROVE  Tallies'
<1>a. Alone BY DEF Tallies
<1>1. ASSUME NEW r \in Reqs, Ask(r) PROVE Tallies'
  <2>1. PICK k \in Stages : Opens(r, k) BY <1>1, AskOpens
  <2>2. /\ req'[r].todo # <<>> /\ At(r, k)'
        /\ \A q \in Reqs \ {r} : req'[q] = req[q]
        /\ req[r].todo = <<>>
    BY <2>1 DEF Opens
  <2>3. Asking' = {r} BY <2>2 DEF Alone, Asking
  <2>4. Asking = {} BY <2>2, <2>3 DEF Asking
  <2>5. Tally(r, k)' BY <2>1, <2>4, OpensTally DEF Tallies
  <2>6. Apart' BY DEF Alone, Apart
  <2>7. Edit(r, k)' BY <2>1, <2>6, OpensEdit
  <2>8. QED BY <2>2, <2>3, <2>5, <2>7 DEF Tallies
<1>2. ASSUME NEW r \in Reqs, Continue(r) \/ LoseSend(r) PROVE Tallies'
  <2>1. r \in Asking /\ \A q \in Reqs \ {r} : req'[q] = req[q]
    BY <1>2, Continuing
  <2>2. Asking = {r} BY <1>a, <2>1 DEF Alone
  <2>3. PICK k \in Stages : At(r, k) /\ Edit(r, k) /\ Tally(r, k)
    BY <2>1 DEF Tallies
  <2>4. EditMoves(r, k) /\ TallyMoves(r, k)
    BY <1>2, <2>3, EditNext, TallyNext
  <2>5. Asking' \subseteq {r} BY <2>1, <2>2 DEF Asking
  <2>6. CASE After(k) = "done"
    <3>1. req'[r].todo = <<>> /\ counted' = text'
      BY <2>4, <2>6 DEF EditMoves, TallyMoves
    <3>2. Asking' = {} BY <2>5, <3>1 DEF Asking
    <3>3. QED BY <3>1, <3>2 DEF Tallies
  <2>7. CASE After(k) # "done"
    <3>1. /\ After(k) \in Stages /\ At(r, After(k))'
          /\ Edit(r, After(k))' /\ Tally(r, After(k))'
      BY <2>4, <2>7 DEF EditMoves, TallyMoves
    <3>2. req'[r].todo # <<>> BY <3>1, RestShape DEF At
    <3>3. Asking' = {r} BY <2>1, <2>5, <3>2 DEF Asking
    <3>4. QED BY <3>1, <3>3 DEF Tallies
  <2>8. QED BY <2>6, <2>7
<1>3. ASSUME NEW w \in Workers, Work(w) \/ Kill(w) PROVE Tallies'
  <2>1. /\ UNCHANGED <<docEnabled, text, enabled, unused, counted, req>>
        /\ \A x \in Segs : /\ point'[x].text = point[x].text
                           /\ point'[x].on = point[x].on
    BY <1>3, WorkTouches
  <2>2. QED BY <2>1, QuietTallies
<1>4. CASE UNCHANGED vars
  <2>1. UNCHANGED <<text, enabled, counted, point, req>>
    BY <1>4 DEF vars, rows
  <2>2. QED BY <2>1, QuietTallies
<1>5. QED BY <1>1, <1>2, <1>3, <1>4 DEF Next

\* When one request is worked on at a time and has ended, the counts are those
\* of the segments, whatever the tasks are doing.
THEOREM CountsStayCurrent ==
    Spec /\ []Alone => []CountsAreCurrent
<1>1. Spec => []Sane BY InitSane, SaneStep, PTL DEF Spec
<1>2. Init /\ Alone => Tallies
  BY InitEdits DEF Tallies
<1>3. Init => Edits BY InitEdits
<1>4. Sane /\ Edits /\ Tallies /\ Alone' /\ [Next]_vars => Edits' /\ Tallies'
  <2> SUFFICES ASSUME Sane, Edits, Tallies, Alone', [Next]_vars
               PROVE  Edits' /\ Tallies'
    OBVIOUS
  <2>1. Apart /\ Apart' BY DEF Tallies, Alone, Apart
  <2>2. QED BY <2>1, EditsStep, TalliesStep
<1>5. Tallies => CountsAreCurrent BY DEF Tallies, CountsAreCurrent
<1>6. QED BY <1>1, <1>2, <1>3, <1>4, <1>5, PTL DEF Spec

\* With a single requester no condition on behaviours is left: the console's
\* changes show as soon as they have ended, in the vector store and in the
\* counts, whatever workers and messages do.
THEOREM OneRequesterIsShown ==
    (\A q, r \in Reqs : q = r)
        => (Spec => [](EditsShowAtOnce /\ CountsAreCurrent))
<1> SUFFICES ASSUME \A q, r \in Reqs : q = r
             PROVE  Spec => [](EditsShowAtOnce /\ CountsAreCurrent)
  OBVIOUS
<1>1. Alone /\ Apart BY DEF Alone, Apart, Asking
<1>2. QED BY <1>1, EditsAreShown, CountsStayCurrent, PTL

-----------------------------------------------------------------------------
(* The two indexes.                                                        *)

ListedNext(s) == kw'[s] \subseteq (IF enabled'[s] THEN {text'[s]} ELSE {})
FlaggedNext(s) == point'[s].text # None => point'[s].doc = docEnabled'
FullNext(s) == docEnabled' /\ enabled'[s] => text'[s] \in kw'[s]

\* Nothing is written about the segments other than s and no switch is sent.
Aside(s) ==
    /\ UNCHANGED <<docEnabled, queue, lost>>
    /\ \A x \in Segs \ {s} :
        /\ text'[x] = text[x] /\ enabled'[x] = enabled[x] /\ kw'[x] = kw[x]
        /\ point'[x].text = point[x].text /\ point'[x].doc = point[x].doc

\* The indexes are right after the step as far as the others go.
Calm(s) ==
    /\ \A x \in Segs \ {s} : ListedNext(x)
    /\ ~lost' => LastIsCurrent'
    /\ ~lost' /\ queue' = <<>> =>
        \A x \in Segs \ {s} : FlaggedNext(x) /\ FullNext(x)

\* The other segments stay as they were in a step that writes none of them.
LEMMA OthersStay ==
    ASSUME NEW r, NEW k, k # "send", Entries(r, k), Aside(req[r].seg)
    PROVE  Calm(req[r].seg)
<1> DEFINE s == req[r].seg
<1>1. UNCHANGED <<docEnabled, queue, lost>> BY DEF Aside
<1>2. \A x \in Segs \ {s} : ListedNext(x)
  BY DEF Entries, Aside, Listed, ListedNext
<1>3. ~lost' => LastIsCurrent' BY <1>1 DEF Entries, LastIsCurrent
<1>4. ASSUME ~lost', queue' = <<>>, NEW x \in Segs \ {s}
      PROVE  FlaggedNext(x) /\ FullNext(x)
  <2>1. Flagged(x) /\ Full(x) BY <1>1, <1>4 DEF Entries
  <2>2. QED BY <1>4, <2>1 DEF Aside, Flagged, Full, FlaggedNext, FullNext
<1>5. QED BY <1>2, <1>3, <1>4 DEF Calm

\* What is left to show for the segment of a request that goes on.
LEMMA EntriesNext ==
    ASSUME NEW r, NEW j, j # "send", NEW s \in Segs, req'[r].seg = s, Calm(s),
           j \notin SwitchingOff => ListedNext(s),
           j \in {"changeWrite", "sameWrite", "deleteRow"} => kw'[s] = {},
           ~lost' /\ queue' = <<>> => FlaggedNext(s),
           ~lost' /\ queue' = <<>> /\ j \in Filed => FullNext(s)
    PROVE  Entries(r, j)'
<1>1. \A x \in Segs \ {req'[r].seg} : Listed(x)'
  BY DEF Calm, Listed, ListedNext
<1>2. j \notin SwitchingOff \union {"send"} => Listed(req[r].seg)'
  BY DEF Listed, ListedNext
<1>3. ~lost' => LastIsCurrent' BY DEF Calm
<1>4. ASSUME ~lost', queue' = <<>>
      PROVE  /\ \A x \in Segs : Flagged(x)'
             /\ \A x \in Segs \ {req'[r].seg} : Full(x)'
             /\ j \in Filed => Full(req[r].seg)'
  <2>1. ASSUME NEW x \in Segs PROVE Flagged(x)'
    <3>1. FlaggedNext(x) BY <1>4 DEF Calm
    <3>2. QED BY <3>1 DEF Flagged, FlaggedNext
  <2>2. ASSUME NEW x \in Segs \ {s} PROVE Full(x)'
    <3>1. FullNext(x) BY <1>4 DEF Calm
    <3>2. QED BY <3>1 DEF Full, FullNext
  <2>3. j \in Filed => Full(req[r].seg)' BY <1>4 DEF Full, FullNext
  <2>4. QED BY <2>1, <2>2, <2>3
<1>5. QED BY <1>1, <1>2, <1>3, <1>4 DEF Entries

\* And of one that ends.
LEMMA RestedNext ==
    ASSUME NEW s \in Segs, Calm(s), ListedNext(s),
           ~lost' /\ queue' = <<>> => FlaggedNext(s) /\ FullNext(s)
    PROVE  Rested'
<1>1. ASSUME NEW x \in Segs PROVE Listed(x)'
  <2>1. ListedNext(x) BY DEF Calm
  <2>2. QED BY <2>1 DEF Listed, ListedNext
<1>2. ASSUME ~lost', queue' = <<>>, NEW x \in Segs
      PROVE  Flagged(x)' /\ Full(x)'
  <2>1. FlaggedNext(x) /\ FullNext(x) BY <1>2 DEF Calm
  <2>2. QED BY <2>1 DEF Flagged, Full, FlaggedNext, FullNext
<1>3. ~lost' => LastIsCurrent' BY DEF Calm
<1>4. QED BY <1>1, <1>2, <1>3 DEF Rested

\* A request that was at stage k has ended with the indexes at rest, or is at
\* the next stage.
ListMoves(r, k) ==
    /\ After(k) = "done" => Rested'
    /\ After(k) # "done" => Seen(r, After(k))' /\ Entries(r, After(k))'

\* The table is written as computed: the snapshot was up to date.
LEMMA WritesBack ==
    ASSUME NEW new, NEW view, view.kw = kw, WriteBack(new, view)
    PROVE  kw' = new
BY DEF WriteBack

\* A step of a request leaves the keyword entries of its segment as the next
\* stage wants them, and those of the other segments alone.
LEMMA ListNext ==
    ASSUME Sane, NEW r \in Reqs, NEW k \in Stages, At(r, k), Edit(r, k),
           Seen(r, k), Entries(r, k), Continue(r) \/ LoseSend(r)
    PROVE  ListMoves(r, k)
<1>a. /\ TypeOK /\ req \in [Reqs -> ReqType] /\ Rows
      /\ text \in [Segs -> Texts \union {None}]
      /\ enabled \in [Segs -> BOOLEAN] /\ kw \in [Segs -> SUBSET Texts]
      /\ point \in [Segs -> [text : Texts \union {None}, doc : BOOLEAN,
                             on : BOOLEAN]]
  BY DEF Sane, Types, TypeOK
<1>v. /\ NoView \in ViewType /\ View \in ViewType /\ RowsView \in ViewType
      /\ View.text = text /\ View.on = enabled /\ View.kw = kw
      /\ View.doc = docEnabled
  BY <1>a, NoViewTyped, ViewsTyped
<1>w. /\ req[r].view \in ViewType /\ req[r].seg \in Segs \union {None}
      /\ req[r].text \in Texts \union {None} /\ req[r].on \in BOOLEAN
  BY <1>a DEF ReqType
<1> DEFINE s == req[r].seg
           j == After(k)
<1>k. k = "send" \/ s \in Segs BY DEF Edit, Sound
<1>1. ASSUME NEW v \in ViewType, Advanced(r, k, v), j # "done"
      PROVE  j \in Stages /\ req'[r].view = v /\ req'[r].seg = s
  BY <1>1, <1>a, AdvancedTo, RestShape
<1>c. ASSUME Aside(s), k # "send" PROVE Calm(s) BY <1>c, OthersStay
<1>u. UNCHANGED <<docEnabled, text, enabled, kw, point, queue, lost>>
        => Aside(s)
  BY DEF Aside
<1>o. ASSUME UNCHANGED <<docEnabled, text, enabled, kw, point, queue, lost>>,
             k # "send"
      PROVE  /\ k \notin SwitchingOff => ListedNext(s)
             /\ k \in {"changeWrite", "sameWrite", "deleteRow"}
                  => kw'[s] = {}
             /\ ~lost' /\ queue' = <<>> => FlaggedNext(s)
             /\ ~lost' /\ queue' = <<>> /\ k \in Filed => FullNext(s)
  <2>1. s \in Segs BY <1>k, <1>o
  <2>2. k \notin SwitchingOff => ListedNext(s)
    BY <1>o DEF Entries, Listed, ListedNext
  <2>3. ~lost' /\ queue' = <<>> => FlaggedNext(s)
    BY <1>o, <2>1 DEF Entries, Flagged, FlaggedNext
  <2>4. ~lost' /\ queue' = <<>> /\ k \in Filed => FullNext(s)
    BY <1>o, <2>1 DEF Entries, Full, FullNext
  <2>5. k \in {"changeWrite", "sameWrite", "deleteRow"} => kw'[s] = {}
    BY <1>o DEF Entries
  <2>6. QED BY <2>2, <2>3, <2>4, <2>5
<1>2. ASSUME Look(r) PROVE ListMoves(r, k)
  <2>1. k \in {"createLook", "changeLook", "sameLook", "onLook", "offLook"}
    BY <1>2, DoingAt, FrontStages DEF Look
  <2>2. Stored(s) BY <2>1 DEF Edit, Stages, Creating, Changing, Repeating,
                              SwitchingOn, SwitchingOff, Deleting
  <2>3. Advanced(r, k, View) BY <1>2, <2>2, GoesAdvances DEF Look
  <2>4. UNCHANGED <<docEnabled, text, enabled, kw, point, queue, lost>>
    BY <1>2 DEF Look, rows, history
  <2>5. /\ j \in {"createUpsert", "changeAdd", "sameAdd", "onFlag", "offFlag"}
        /\ j = "createUpsert" => k = "createLook"
        /\ j = "changeAdd" => k = "changeLook"
        /\ j = "sameAdd" => k = "sameLook"
        /\ j = "onFlag" => k = "onLook"
        /\ j = "offFlag" => k = "offLook"
    BY <2>1 DEF After
  <2> HIDE DEF j
  <2>6. req'[r].view = View /\ req'[r].seg = s BY <1>1, <1>v, <2>3, <2>5
  <2>7. Seen(r, j)'
    BY <1>v, <2>4, <2>5, <2>6 DEF Seen, SwitchingOn, SwitchingOff
  <2>8. Entries(r, j)'
    <3>1. s \in Segs /\ Calm(s) BY <1>c, <1>k, <1>u, <2>1, <2>4
    <3>2. j \notin SwitchingOff => ListedNext(s)
      BY <1>o, <2>1, <2>4, <2>5 DEF SwitchingOff
    <3>3. j \notin {"changeWrite", "sameWrite", "deleteRow", "send"} BY <2>5
    <3>4. j \in Filed => k \in Filed BY <2>5 DEF Filed
    <3>5. QED BY <1>o, <2>1, <2>4, <2>6, <3>1, <3>2, <3>3, <3>4, EntriesNext
  <2>9. QED BY <2>5, <2>7, <2>8 DEF ListMoves, j
<1>3. ASSUME Relook(r) PROVE ListMoves(r, k)
  <2>1. k \in {"changeRelook", "sameRelook"}
    BY <1>3, DoingAt, FrontStages DEF Relook
  <2>2. Stored(s) BY <2>1 DEF Edit, Stages, Creating, Changing, Repeating
  <2>3. UNCHANGED <<docEnabled, text, enabled, kw, point, queue, lost>>
    BY <1>3 DEF Relook, rows, history
  <2>4. /\ j \in {"changeUpsert", "count"}
        /\ j = "changeUpsert" => k = "changeRelook"
    BY <2>1 DEF After
  <2>5. PICK v \in ViewType : Goes(r, v) /\ (v = View \/ v = req[r].view)
    BY <1>3, <1>v, <1>w, <2>2 DEF Relook
  <2> HIDE DEF j
  <2>6. req'[r].view = v /\ req'[r].seg = s
    BY <1>1, <2>4, <2>5, GoesAdvances
  <2>7. k = "changeRelook" => v.doc = docEnabled BY <1>v, <2>5 DEF Seen
  <2>8. Seen(r, j)'
    BY <2>1, <2>3, <2>4, <2>6, <2>7 DEF Seen, SwitchingOn, SwitchingOff
  <2>9. Entries(r, j)'
    <3>1. s \in Segs /\ Calm(s) BY <1>c, <1>k, <1>u, <2>1, <2>3
    <3>2. k \notin SwitchingOff /\ k \in Filed
      BY <2>1 DEF SwitchingOff, Filed
    <3>3. j \notin {"changeWrite", "sameWrite", "deleteRow", "send"} BY <2>4
    <3>4. QED BY <1>o, <2>1, <2>3, <2>6, <3>1, <3>2, <3>3, EntriesNext
  <2>10. QED BY <2>4, <2>8, <2>9 DEF ListMoves, j
<1>4. ASSUME AddKeywords(r) PROVE ListMoves(r, k)
  <2>1. k \in {"createAdd", "onAdd", "changeAdd", "sameAdd"}
    BY <1>4, DoingAt, FrontStages DEF AddKeywords
  <2> DEFINE v == [req[r].view EXCEPT !.kw = NoView.kw]
             new == [kw EXCEPT ![s] = @ \union {text[s]}]
  <2>2. UNCHANGED <<docEnabled, text, enabled, point, queue, lost>>
        /\ Advanced(r, k, v)
    BY <1>4, GoesAdvances DEF AddKeywords, rows, history
  <2>3. v \in ViewType /\ v.doc = req[r].view.doc
    BY <1>w DEF ViewType, NoView
  <2>4. req[r].view.kw = kw /\ req[r].view.text = text BY <2>1 DEF Seen
  <2>5. s \in Segs BY <1>k, <2>1
  <2>6. kw' = new \/ (kw' = kw /\ ~enabled[s])
    <3>1. CASE Doing(r, "add") \/ req[r].view.on[s]
      <4>1. WriteBack([req[r].view.kw EXCEPT ![s] =
                          @ \union {req[r].view.text[s]}], req[r].view)
        BY <1>4, <3>1 DEF AddKeywords
      <4>2. QED BY <2>4, <4>1, WritesBack
    <3>2. CASE ~(Doing(r, "add") \/ req[r].view.on[s])
      <4>1. kw' = kw BY <1>4, <3>2 DEF AddKeywords
      <4>2. Doing(r, "addIfOn") BY <1>4, <3>2 DEF AddKeywords
      <4>3. k \in {"changeAdd", "sameAdd"} BY <4>2, DoingAt, FrontStages
      <4>4. req[r].view.on[s] = enabled[s] BY <4>3 DEF Edit
      <4>5. QED BY <3>2, <4>1, <4>4
    <3>3. QED BY <3>1, <3>2
  <2>7. kw' = new => enabled[s]
    <3>1. CASE k \in {"createAdd", "onAdd"}
      BY <3>1 DEF Seen, SwitchingOn
    <3>2. CASE k \in {"changeAdd", "sameAdd"} /\ req[r].view.on[s]
      BY <3>2 DEF Edit
    <3>3. CASE k \in {"changeAdd", "sameAdd"} /\ ~req[r].view.on[s]
      <4>1. ~Doing(r, "add") BY <3>3, DoingAt, FrontStages
      <4>2. kw' = kw BY <1>4, <3>3, <4>1 DEF AddKeywords
      <4>3. Listed(s) /\ ~enabled[s] BY <3>3 DEF Entries, Edit, SwitchingOff
      <4>4. kw[s] = {} BY <4>3 DEF Listed
      <4>5. text[s] \in new[s] BY <1>a, <2>5
      <4>6. QED BY <4>2, <4>4, <4>5
    <3>4. QED BY <2>1, <3>1, <3>2, <3>3
  <2>8. \A x \in Segs \ {s} : kw'[x] = kw[x] BY <1>a, <2>6
  <2>9. kw' = new => kw'[s] = kw[s] \union {text[s]} BY <1>a, <2>5
  <2> HIDE DEF new
  <2>10. Calm(s) BY <1>c, <2>1, <2>2, <2>8 DEF Aside
  <2>11. Listed(s) BY <2>1 DEF Entries, SwitchingOff
  <2>12. ListedNext(s)
    BY <2>2, <2>6, <2>7, <2>9, <2>11 DEF Listed, ListedNext
  <2>13. FullNext(s) BY <2>2, <2>6, <2>9 DEF FullNext
  <2>14. ~lost' /\ queue' = <<>> => FlaggedNext(s)
    BY <2>1, <2>2, <2>5 DEF Entries, Flagged, FlaggedNext
  <2>15. CASE k = "onAdd"
    <3>1. j = "done" BY <2>15 DEF After
    <3>2. QED
      BY <2>5, <2>10, <2>12, <2>13, <2>14, <3>1, RestedNext DEF ListMoves
  <2>16. CASE k # "onAdd"
    <3>1. /\ j \in {"sum", "changeRelook", "sameRelook"}
          /\ j = "changeRelook" => k = "changeAdd"
      BY <2>1, <2>16 DEF After
    <3> HIDE DEF j
    <3>2. req'[r].view.doc = req[r].view.doc /\ req'[r].seg = s
      BY <1>1, <2>2, <2>3, <3>1
    <3> HIDE DEF v
    <3>3. Seen(r, j)'
      BY <2>2, <3>1, <3>2 DEF Seen, SwitchingOn, SwitchingOff
    <3>4. Entries(r, j)'
      <4>1. j \notin {"changeWrite", "sameWrite", "deleteRow", "send"}
        BY <3>1
      <4>2. QED
        BY <2>5, <2>10, <2>12, <2>13, <2>14, <3>2, <4>1, EntriesNext
    <3>5. QED BY <3>1, <3>3, <3>4 DEF ListMoves, j
  <2>17. QED BY <2>15, <2>16
<1>5. ASSUME DropKeywords(r) PROVE ListMoves(r, k)
  <2>1. k \in {"changeDrop", "sameDrop", "offDrop", "deleteDrop"}
    BY <1>5, DoingAt, FrontStages DEF DropKeywords
  <2>2. UNCHANGED <<docEnabled, text, enabled, point, queue, lost>>
        /\ Advanced(r, k, NoView)
    BY <1>5, GoesAdvances DEF DropKeywords, Done, rows, history
  <2>3. req[r].view.kw = kw BY <2>1 DEF Seen
  <2>4. s \in Segs BY <1>k, <2>1
  <2>5. kw' = [kw EXCEPT ![s] = {}]
    <3>1. WriteBack([req[r].view.kw EXCEPT ![s] = {}], req[r].view)
      BY <1>5 DEF DropKeywords
    <3>2. QED BY <2>3, <3>1, WritesBack
  <2>6. kw'[s] = {} /\ \A x \in Segs \ {s} : kw'[x] = kw[x]
    BY <1>a, <2>4, <2>5
  <2>7. Calm(s) BY <1>c, <2>1, <2>2, <2>6 DEF Aside
  <2>8. ListedNext(s) BY <2>6 DEF ListedNext
  <2>9. ~lost' /\ queue' = <<>> => FlaggedNext(s)
    BY <2>1, <2>2, <2>4 DEF Entries, Flagged, FlaggedNext
  <2>10. CASE k = "offDrop"
    <3>1. j = "done" BY <2>10 DEF After
    <3>2. FullNext(s) BY <2>2, <2>10 DEF Seen, SwitchingOff, FullNext
    <3>3. QED BY <2>4, <2>7, <2>8, <2>9, <3>1, <3>2, RestedNext DEF ListMoves
  <2>11. CASE k # "offDrop"
    <3>1. j \in {"changeWrite", "sameWrite", "deleteRow"}
      BY <2>1, <2>11 DEF After
    <3> HIDE DEF j
    <3>2. req'[r].seg = s BY <1>1, <1>v, <2>2, <3>1
    <3>3. Seen(r, j)' BY <3>1 DEF Seen, SwitchingOn, SwitchingOff
    <3>4. j # "send" /\ j \notin Filed BY <3>1 DEF Filed
    <3>5. Entries(r, j)'
      BY <2>4, <2>6, <2>7, <2>8, <2>9, <3>2, <3>4, EntriesNext
    <3>6. QED BY <3>1, <3>3, <3>5 DEF ListMoves, j
  <2>12. QED BY <2>10, <2>11

<1>6. ASSUME WriteSegment(r) PROVE ListMoves(r, k)
  <2>1. k \in {"changeWrite", "sameWrite"}
    BY <1>6, DoingAt, FrontStages DEF WriteSegment
  <2>2. Stored(s) BY <2>1 DEF Edit, Stages, Creating, Changing, Repeating
  <2>3. s \in Segs BY <1>k, <2>1
  <2>4. text' = [text EXCEPT ![s] = req[r].text] /\ Advanced(r, k, NoView)
    BY <1>6, <2>2, GoesAdvances DEF WriteSegment, Done
  <2>5. UNCHANGED <<docEnabled, enabled, kw, point, queue, lost>>
    BY <1>6 DEF WriteSegment, history
  <2>6. \A x \in Segs \ {s} : text'[x] = text[x] BY <1>a, <2>4
  <2>7. Calm(s) BY <1>c, <2>1, <2>5, <2>6 DEF Aside
  <2>8. ListedNext(s) BY <2>1, <2>5 DEF Entries, ListedNext
  <2>9. ~lost' /\ queue' = <<>> => FlaggedNext(s)
    BY <2>1, <2>3, <2>5 DEF Entries, Flagged, FlaggedNext
  <2>10. j \in {"changeLook", "sameLook"} BY <2>1 DEF After
  <2> HIDE DEF j
  <2>11. req'[r].seg = s BY <1>1, <1>v, <2>4, <2>10
  <2>12. Seen(r, j)' BY <2>10 DEF Seen, SwitchingOn, SwitchingOff
  <2>13. /\ j \notin Filed
         /\ j \notin {"changeWrite", "sameWrite", "deleteRow", "send"}
    BY <2>10 DEF Filed
  <2>14. Entries(r, j)'
    BY <2>3, <2>7, <2>8, <2>9, <2>11, <2>13, EntriesNext
  <2>15. QED BY <2>10, <2>12, <2>14 DEF ListMoves, j
<1>7. ASSUME UpsertPoint(r) PROVE ListMoves(r, k)
  <2>1. k \in {"createUpsert", "changeUpsert"}
    BY <1>7, DoingAt, FrontStages DEF UpsertPoint
  <2> DEFINE v == [req[r].view EXCEPT !.doc = FALSE]
  <2>2. /\ v \in ViewType /\ v.kw = req[r].view.kw
        /\ v.text = req[r].view.text
    BY <1>w DEF ViewType
  <2>3. s \in Segs BY <1>k, <2>1
  <2>4. UNCHANGED <<docEnabled, text, enabled, kw, queue, lost>>
        /\ Advanced(r, k, v)
    BY <1>7, GoesAdvances DEF UpsertPoint, rows, history
  <2>5. PICK t, on : point' = [point EXCEPT ![s] =
                        [text |-> t, doc |-> req[r].view.doc, on |-> on]]
    BY <1>7 DEF UpsertPoint
  <2>6. point'[s].doc = docEnabled BY <1>a, <2>1, <2>3, <2>5 DEF Seen
  <2>7. \A x \in Segs \ {s} : point'[x] = point[x] BY <1>a, <2>5
  <2>8. Calm(s) BY <1>c, <2>1, <2>4, <2>7 DEF Aside
  <2>9. ListedNext(s)
    BY <2>1, <2>4 DEF Entries, Listed, ListedNext, SwitchingOff
  <2>10. FlaggedNext(s) BY <2>4, <2>6 DEF FlaggedNext
  <2>11. /\ j \in {"createAdd", "count"}
         /\ j = "createAdd" => k = "createUpsert"
         /\ j = "count" => k = "changeUpsert"
    BY <2>1 DEF After
  <2> HIDE DEF j
  <2>12. /\ req'[r].view.kw = req[r].view.kw
         /\ req'[r].view.text = req[r].view.text
         /\ req'[r].seg = s
    BY <1>1, <2>2, <2>4, <2>11
  <2> HIDE DEF v
  <2>13. k = "createUpsert" => enabled[s] BY DEF Edit
  <2>14. Seen(r, j)'
    BY <2>4, <2>11, <2>12, <2>13 DEF Seen, SwitchingOn, SwitchingOff
  <2>15. ~lost' /\ queue' = <<>> /\ j \in Filed => FullNext(s)
    BY <2>4, <2>11 DEF Entries, Full, FullNext, Filed
  <2>16. j \notin {"changeWrite", "sameWrite", "deleteRow", "send"}
    BY <2>11
  <2>17. Entries(r, j)'
    BY <2>3, <2>8, <2>9, <2>10, <2>12, <2>15, <2>16, EntriesNext
  <2>18. QED BY <2>11, <2>14, <2>17 DEF ListMoves, j
<1>8. ASSUME FlagSegment(r) PROVE ListMoves(r, k)
  <2>1. k \in {"onFlag", "offFlag"}
    BY <1>8, DoingAt, FrontStages DEF FlagSegment
  <2>2. s \in Segs BY <1>k, <2>1
  <2>3. UNCHANGED <<docEnabled, text, enabled, kw, queue, lost>>
        /\ Advanced(r, k, req[r].view)
    BY <1>8, GoesAdvances DEF FlagSegment, rows, history
  <2>4. point' = point \/ point' = [point EXCEPT ![s].on = req[r].on]
    BY <1>8 DEF FlagSegment
  <2>5. \A x \in Segs : /\ point'[x].text = point[x].text
                        /\ point'[x].doc = point[x].doc
    BY <1>a, <2>4
  <2>6. Calm(s) BY <1>c, <2>1, <2>3, <2>5 DEF Aside
  <2>7. ~lost' /\ queue' = <<>> => FlaggedNext(s)
    BY <2>1, <2>2, <2>3, <2>5 DEF Entries, Flagged, FlaggedNext
  <2>8. /\ j \in {"onAdd", "offDrop"}
        /\ j = "onAdd" => k = "onFlag"
        /\ j = "offDrop" => k = "offFlag"
    BY <2>1 DEF After
  <2> HIDE DEF j
  <2>9. req'[r].view = req[r].view /\ req'[r].seg = s
    BY <1>1, <1>w, <2>3, <2>8
  <2>10. Seen(r, j)'
    BY <2>3, <2>8, <2>9 DEF Seen, SwitchingOn, SwitchingOff
  <2>11. j \notin SwitchingOff => ListedNext(s)
    BY <2>3, <2>8 DEF Entries, Listed, ListedNext, SwitchingOff
  <2>12. ~lost' /\ queue' = <<>> /\ j \in Filed => FullNext(s)
    BY <2>3, <2>8 DEF Entries, Full, FullNext, Filed
  <2>13. j \notin {"changeWrite", "sameWrite", "deleteRow", "send"}
    BY <2>8
  <2>14. Entries(r, j)'
    BY <2>2, <2>6, <2>7, <2>9, <2>11, <2>12, <2>13, EntriesNext
  <2>15. QED BY <2>8, <2>10, <2>14 DEF ListMoves, j
<1>9. ASSUME RemoveSegment(r) PROVE ListMoves(r, k)
  <2>1. k = "deleteRow" BY <1>9, DoingAt, FrontStages DEF RemoveSegment
  <2>2. s \in Segs BY <1>k, <2>1
  <2>3. /\ text' = [text EXCEPT ![s] = None]
        /\ enabled' = [enabled EXCEPT ![s] = FALSE]
        /\ UNCHANGED <<docEnabled, kw, point, queue, lost>>
        /\ Advanced(r, k, NoView)
    BY <1>9, GoesAdvances DEF RemoveSegment, Done, history
  <2>4. /\ ~enabled'[s]
        /\ \A x \in Segs \ {s} : text'[x] = text[x] /\ enabled'[x] = enabled[x]
    BY <1>a, <2>2, <2>3
  <2>5. Calm(s) BY <1>c, <2>1, <2>3, <2>4 DEF Aside
  <2>6. ListedNext(s) BY <2>1, <2>3 DEF Entries, ListedNext
  <2>7. ~lost' /\ queue' = <<>> => FlaggedNext(s)
    BY <2>1, <2>2, <2>3 DEF Entries, Flagged, FlaggedNext
  <2>8. FullNext(s) BY <2>4 DEF FullNext
  <2>9. j = "deletePoint" BY <2>1 DEF After
  <2> HIDE DEF j
  <2>10. req'[r].seg = s BY <1>1, <1>v, <2>3, <2>9
  <2>11. Seen(r, j)' BY <2>9 DEF Seen, SwitchingOn, SwitchingOff
  <2>12. j \notin {"changeWrite", "sameWrite", "deleteRow", "send"}
    BY <2>9
  <2>13. Entries(r, j)'
    BY <2>2, <2>5, <2>6, <2>7, <2>8, <2>10, <2>12, EntriesNext
  <2>14. QED BY <2>9, <2>11, <2>13 DEF ListMoves, j
<1>10. ASSUME RemovePoint(r) PROVE ListMoves(r, k)
  <2>1. k = "deletePoint" BY <1>10, DoingAt, FrontStages DEF RemovePoint
  <2>2. s \in Segs BY <1>k, <2>1
  <2>3. UNCHANGED <<docEnabled, text, enabled, kw, queue, lost>>
        /\ Advanced(r, k, NoView) /\ point' = [point EXCEPT ![s] = NoPoint]
    BY <1>10, GoesAdvances DEF RemovePoint, Done, rows, history
  <2>4. point'[s] = NoPoint /\ \A x \in Segs \ {s} : point'[x] = point[x]
    BY <1>a, <2>2, <2>3
  <2>5. Calm(s) BY <1>c, <2>1, <2>3, <2>4 DEF Aside
  <2>6. ListedNext(s)
    BY <2>1, <2>3 DEF Entries, Listed, ListedNext, SwitchingOff
  <2>7. FlaggedNext(s) BY <2>4 DEF FlaggedNext, NoPoint
  <2>8. ~lost' /\ queue' = <<>> => FullNext(s)
    BY <2>1, <2>3 DEF Entries, Full, FullNext, Filed
  <2>9. j = "sum" BY <2>1 DEF After
  <2> HIDE DEF j
  <2>10. req'[r].seg = s BY <1>1, <1>v, <2>3, <2>9
  <2>11. Seen(r, j)' BY <2>9 DEF Seen, SwitchingOn, SwitchingOff
  <2>12. j \notin {"changeWrite", "sameWrite", "deleteRow", "send"}
    BY <2>9
  <2>13. Entries(r, j)'
    BY <2>2, <2>5, <2>6, <2>7, <2>8, <2>10, <2>12, EntriesNext
  <2>14. QED BY <2>9, <2>11, <2>13 DEF ListMoves, j
<1>11. ASSUME Sum(r) PROVE ListMoves(r, k)
  <2>1. k = "sum" BY <1>11, DoingAt, FrontStages DEF Sum
  <2>2. UNCHANGED <<docEnabled, text, enabled, kw, point, queue, lost>>
        /\ Advanced(r, k, RowsView)
    BY <1>11, GoesAdvances DEF Sum, rows, history
  <2>3. s \in Segs /\ Calm(s) BY <1>c, <1>k, <1>u, <2>1, <2>2
  <2>4. k \notin SwitchingOff /\ k \in Filed
    BY <2>1 DEF SwitchingOff, Filed
  <2>5. j = "count" BY <2>1 DEF After
  <2> HIDE DEF j
  <2>6. req'[r].seg = s BY <1>1, <1>v, <2>2, <2>5
  <2>7. Seen(r, j)' BY <2>5 DEF Seen, SwitchingOn, SwitchingOff
  <2>8. j \notin {"changeWrite", "sameWrite", "deleteRow", "send"} BY <2>5
  <2>9. Entries(r, j)'
    BY <1>o, <2>1, <2>2, <2>3, <2>4, <2>6, <2>8, EntriesNext
  <2>10. QED BY <2>5, <2>7, <2>9 DEF ListMoves, j
<1>12. ASSUME Count(r) PROVE ListMoves(r, k)
  <2>1. k = "count" BY <1>12, DoingAt, FrontStages DEF Count
  <2>2. UNCHANGED <<docEnabled, text, enabled, kw, point, queue, lost>>
    BY <1>12 DEF Count, rows, history
  <2>3. s \in Segs /\ Calm(s) BY <1>c, <1>k, <1>u, <2>1, <2>2
  <2>4. k \notin SwitchingOff /\ k \in Filed
    BY <2>1 DEF SwitchingOff, Filed
  <2>5. j = "done" BY <2>1 DEF After
  <2>6. Rested' BY <1>o, <2>1, <2>2, <2>3, <2>4, RestedNext
  <2>7. QED BY <2>5, <2>6 DEF ListMoves
<1>13. ASSUME Send(r) \/ LoseSend(r) PROVE ListMoves(r, k)
  <2>1. Doing(r, "send") BY <1>13 DEF Send, LoseSend
  <2>2. k = "send" BY <2>1, DoingAt, FrontStages
  <2>3. UNCHANGED <<docEnabled, text, enabled, kw>>
    BY <1>13 DEF Send, LoseSend, rows
  <2>4. j = "done" BY <2>2 DEF After
  <2>5. s \notin Segs
    BY <2>2, ConstantsAssumption DEF Edit, Sound, ConstantsAssumption
  <2>6. (\A x \in Segs : Listed(x))'
    BY <2>3, <2>5 DEF Entries, Listed
  <2>7. CASE Send(r)
    <3>1. queue' = Append(queue, req[r].on) /\ lost' = lost
      BY <2>7 DEF Send, history
    <3>2. queue \in Seq(BOOLEAN) BY <1>a DEF TypeOK
    <3>3. queue' # <<>> /\ queue'[Len(queue')] = req[r].on
      BY <1>w, <3>1, <3>2
    <3>4. ~lost' => LastIsCurrent'
      BY <2>2, <2>3, <3>1, <3>3 DEF Entries, LastIsCurrent
    <3>5. QED BY <2>4, <2>6, <3>3, <3>4 DEF ListMoves, Rested
  <2>8. CASE LoseSend(r)
    <3>1. lost' = TRUE BY <2>8 DEF LoseSend
    <3>2. QED BY <2>4, <2>6, <3>1 DEF ListMoves, Rested
  <2>9. QED BY <1>13, <2>7, <2>8
<1>14. QED
  BY <1>2, <1>3, <1>4, <1>5, <1>6, <1>7, <1>8, <1>9, <1>10, <1>11, <1>12,
     <1>13
     DEF Continue

\* A request that begins when the indexes are at rest.
LEMMA OpensList ==
    ASSUME Sane, Rested, NEW r \in Reqs, NEW k \in Stages, Opens(r, k)
    PROVE  Seen(r, k)' /\ Entries(r, k)'
<1> DEFINE s == req'[r].seg
<1>a. /\ text \in [Segs -> Texts \union {None}]
      /\ enabled \in [Segs -> BOOLEAN] /\ unused \subseteq Segs /\ Rows
  BY DEF Sane, Types, TypeOK
<1>b. UNCHANGED <<kw, point, queue, lost>> /\ Sound(r, k)' BY DEF Opens
<1>1. ASSUME Aside(s), k # "send" PROVE Calm(s)
  <2>1. \A x \in Segs \ {s} : ListedNext(x)
    BY <1>1 DEF Rested, Aside, Listed, ListedNext
  <2>2. ~lost' => LastIsCurrent'
    BY <1>1 DEF Rested, Aside, LastIsCurrent
  <2>3. ASSUME ~lost', queue' = <<>>, NEW x \in Segs \ {s}
        PROVE  FlaggedNext(x) /\ FullNext(x)
    <3>1. Flagged(x) /\ Full(x) BY <1>1, <2>3 DEF Rested, Aside
    <3>2. QED
      BY <1>1, <3>1 DEF Aside, Flagged, Full, FlaggedNext, FullNext
  <2>4. QED BY <2>1, <2>2, <2>3 DEF Calm
<1>2. ASSUME docEnabled' = docEnabled, s \in Segs
      PROVE  ~lost' /\ queue' = <<>> => FlaggedNext(s)
  <2>1. ~lost /\ queue = <<>> => Flagged(s) BY <1>2 DEF Rested
  <2>2. QED BY <1>2, <1>b, <2>1 DEF Flagged, FlaggedNext
<1>3. CASE k = "createLook"
  <2>1. /\ s \in unused /\ text' = [text EXCEPT ![s] = req'[r].text]
        /\ enabled' = [enabled EXCEPT ![s] = TRUE]
        /\ docEnabled' = docEnabled
    BY <1>3 DEF Opens
  <2>2. /\ s \in Segs /\ enabled'[s]
        /\ \A x \in Segs \ {s} : text'[x] = text[x] /\ enabled'[x] = enabled[x]
    BY <1>a, <2>1
  <2>3. ~enabled[s] BY <1>a, <2>1, <2>2 DEF Rows
  <2>4. Listed(s) BY <2>2 DEF Rested
  <2>5. ListedNext(s) BY <1>b, <2>3, <2>4 DEF Listed, ListedNext
  <2>6. Calm(s) BY <1>1, <1>3, <1>b, <2>1, <2>2 DEF Aside
  <2>7. k \notin {"changeWrite", "sameWrite", "deleteRow", "send"} \union Filed
    BY <1>3 DEF Filed
  <2>8. Entries(r, k)' BY <1>2, <2>1, <2>2, <2>5, <2>6, <2>7, EntriesNext
  <2>9. Seen(r, k)' BY <1>3 DEF Seen, SwitchingOn, SwitchingOff
  <2>10. QED BY <2>8, <2>9
<1>4. CASE k \in {"changeDrop", "sameDrop", "deleteDrop"}
  <2>1. req'[r].view.kw = kw /\ UNCHANGED <<docEnabled, text, enabled>>
    BY <1>4 DEF Opens
  <2>2. s \in Segs BY <1>4, <1>b DEF Sound
  <2>3. Calm(s) BY <1>1, <1>4, <1>b, <2>1 DEF Aside
  <2>4. ListedNext(s) BY <1>b, <2>1, <2>2 DEF Rested, Listed, ListedNext
  <2>5. ~lost' /\ queue' = <<>> => FullNext(s)
    BY <1>b, <2>1, <2>2 DEF Rested, Full, FullNext
  <2>6. k \notin {"changeWrite", "sameWrite", "deleteRow", "send"} BY <1>4
  <2>7. Entries(r, k)'
    BY <1>2, <2>1, <2>2, <2>3, <2>4, <2>5, <2>6, EntriesNext
  <2>8. Seen(r, k)' BY <1>4, <1>b, <2>1 DEF Seen, SwitchingOn, SwitchingOff
  <2>9. QED BY <2>7, <2>8
<1>5. CASE k \in {"onLook", "offLook"}
  <2>1. /\ UNCHANGED <<docEnabled, text>>
        /\ enabled' = [enabled EXCEPT ![s] = req'[r].on]
        /\ req'[r].on = (k = "onLook")
    BY <1>5 DEF Opens
  <2>2. s \in Segs BY <1>5, <1>b DEF Sound
  <2>3. /\ enabled'[s] = (k = "onLook")
        /\ \A x \in Segs \ {s} : enabled'[x] = enabled[x]
    BY <1>a, <2>1, <2>2
  <2>4. Calm(s) BY <1>1, <1>5, <1>b, <2>1, <2>3 DEF Aside
  <2>5. Listed(s) BY <2>2 DEF Rested
  <2>6. k = "onLook" => ListedNext(s)
    BY <1>b, <2>1, <2>3, <2>5 DEF Listed, ListedNext
  <2>7. k = "offLook" => FullNext(s) BY <2>3 DEF FullNext
  <2>8. /\ k \notin {"changeWrite", "sameWrite", "deleteRow", "send"}
        /\ k \notin SwitchingOff => k = "onLook"
        /\ k \in Filed => k = "offLook"
    BY <1>5 DEF SwitchingOff, Filed
  <2>9. Entries(r, k)'
    BY <1>2, <2>1, <2>2, <2>4, <2>6, <2>7, <2>8, EntriesNext
  <2>10. Seen(r, k)' BY <1>5, <2>3 DEF Seen, SwitchingOn, SwitchingOff
  <2>11. QED BY <2>9, <2>10
<1>6. CASE k = "send"
  <2>1. docEnabled' = req'[r].on /\ UNCHANGED <<text, enabled>>
    BY <1>6 DEF Opens
  <2>2. \A x \in Segs : Listed(x)' BY <1>b, <2>1 DEF Rested, Listed
  <2>3. Entries(r, k)' BY <1>6, <2>1, <2>2 DEF Entries
  <2>4. Seen(r, k)' BY <1>6 DEF Seen, SwitchingOn, SwitchingOff
  <2>5. QED BY <2>3, <2>4
<1>7. QED BY <1>3, <1>4, <1>5, <1>6 DEF Opens

\* To begin with the indexes agree and no task is under way.
LEMMA InitRested == Init => Rested /\ Working = {}
<1> SUFFICES ASSUME Init PROVE Rested /\ Working = {} OBVIOUS
<1>1. Working = {} BY NoWorkTyped DEF Init, Working
<1>2. PICK S \in SUBSET Segs, t \in Texts :
        /\ text = [s \in Segs |-> IF s \in S THEN t ELSE None]
        /\ enabled = [s \in Segs |-> s \in S]
        /\ point = [s \in Segs |->
                       IF s \in S
                       THEN [text |-> t, doc |-> TRUE, on |-> TRUE]
                       ELSE NoPoint]
        /\ kw = [s \in Segs |-> IF s \in S THEN {t} ELSE {}]
  BY DEF Init
<1>3. docEnabled = TRUE /\ queue = <<>> BY DEF Init
<1>4. ASSUME NEW s \in Segs PROVE Listed(s) /\ Flagged(s) /\ Full(s)
  <2>1. CASE s \in S
    <3>1. /\ text[s] = t /\ kw[s] = {t} /\ enabled[s]
          /\ point[s] = [text |-> t, doc |-> TRUE, on |-> TRUE]
      BY <1>2, <2>1
    <3>2. point[s].doc = TRUE BY <3>1
    <3>3. QED BY <1>3, <3>1, <3>2 DEF Listed, Flagged, Full
  <2>2. CASE s \notin S
    <3>1. kw[s] = {} /\ point[s] = NoPoint /\ ~enabled[s] BY <1>2, <2>2
    <3>2. NoPoint.text = None BY DEF NoPoint
    <3>3. QED BY <3>1, <3>2 DEF Listed, Flagged, Full
  <2>3. QED BY <2>1, <2>2
<1>5. QED BY <1>1, <1>3, <1>4 DEF Rested, LastIsCurrent

\* The task of a worker that is alone.
LEMMA TaskTaken ==
    ASSUME Sane, Rested, NEW w \in Workers, TakeSwitch(w)
    PROVE  Task(w)'
<1>a. TypeOK /\ work \in [Workers -> WorkType] BY DEF Sane, Types
<1>q. queue \in Seq(BOOLEAN) /\ queue # <<>> BY <1>a DEF TypeOK, TakeSwitch
<1> DEFINE v == [View EXCEPT !.doc = FALSE]
<1>1. v.text = text /\ v.on = enabled /\ v.kw = kw
  BY <1>a, ViewsTyped DEF View
<1> HIDE DEF v
<1>2. /\ queue' = Tail(queue)
      /\ work' = [work EXCEPT ![w] = [pc |-> "flags", on |-> Head(queue),
                                      view |-> v]]
      /\ UNCHANGED <<docEnabled, text, enabled, kw, point, lost>>
  BY DEF TakeSwitch, rows, v
<1>3. work'[w] = [pc |-> "flags", on |-> Head(queue), view |-> v]
  BY <1>a, <1>2
<1>4. /\ work'[w].pc = "flags" /\ work'[w].on = Head(queue)
      /\ work'[w].view = v
  BY <1>3
<1>5. (\A s \in Segs : Listed(s))' BY <1>2 DEF Rested, Listed
<1>6. ASSUME ~lost'
      PROVE  /\ LastIsCurrent'
             /\ queue' = <<>> => Head(queue) = docEnabled'
  <2>1. queue[Len(queue)] = docEnabled
    BY <1>2, <1>6, <1>q DEF Rested, LastIsCurrent
  <2>2. queue' # <<>> => queue'[Len(queue')] = queue[Len(queue)]
    BY <1>2, <1>q
  <2>3. ASSUME queue' = <<>> PROVE Head(queue) = queue[Len(queue)]
    <3>1. PICK n : n = Len(queue) OBVIOUS
    <3>2. PICK m : m = Len(Tail(queue)) OBVIOUS
    <3>3. n \in Nat /\ m = n - 1 BY <1>q, <3>1, <3>2
    <3>4. Tail(queue) = <<>> BY <1>2, <2>3
    <3>5. m = 0 BY <3>2, <3>4, EmptySeq, Zenon
    <3>6. n = 1 BY <3>3, <3>5
    <3>7. QED BY <1>q, <3>1, <3>6
  <2>4. QED BY <1>2, <2>1, <2>2, <2>3 DEF LastIsCurrent
<1>7. QED BY <1>1, <1>2, <1>4, <1>5, <1>6 DEF Task

\* A task that has set the flags still has the rows as they are in its view.
LEMMA TaskFlags ==
    ASSUME Sane, Edits, Asking = {}, NEW w \in Workers, Task(w),
           SwitchPoints(w)
    PROVE  Task(w)'
<1>a. /\ TypeOK /\ work \in [Workers -> WorkType]
      /\ point \in [Segs -> [text : Texts \union {None}, doc : BOOLEAN,
                             on : BOOLEAN]]
  BY DEF Sane, Types, TypeOK
<1>1. /\ UNCHANGED <<docEnabled, text, enabled, kw, queue, lost>>
      /\ work' = [work EXCEPT ![w].pc = "keywords"]
  BY DEF SwitchPoints, rows, history
<1>2. work'[w].view = work[w].view /\ work'[w].on = work[w].on
  BY <1>a, <1>1 DEF WorkType
<1>3. ASSUME ~lost', queue' = <<>>, NEW s \in Segs PROVE Flagged(s)'
  <2>1. Shown(s) BY DEF Edits
  <2>2. work[w].on = docEnabled /\ work[w].view.text = text
    BY <1>1, <1>3 DEF Task
  <2>3. CASE text[s] = None \/ point[s] = NoPoint
    <3>1. point'[s] = point[s] BY <2>2, <2>3 DEF SwitchPoints
    <3>2. NoPoint.text = None BY DEF NoPoint
    <3>3. point'[s].text = None BY <2>1, <2>3, <3>1, <3>2 DEF Shown
    <3>4. QED BY <3>3 DEF Flagged
  <2>4. CASE ~(text[s] = None \/ point[s] = NoPoint)
    <3>1. point'[s] = [point[s] EXCEPT !.doc = work[w].on]
      BY <2>2, <2>4 DEF SwitchPoints
    <3>2. point'[s].doc = work[w].on BY <1>a, <3>1
    <3>3. QED BY <1>1, <2>2, <3>2 DEF Flagged
  <2>5. QED BY <2>3, <2>4
<1>4. (\A s \in Segs : Listed(s))' BY <1>1 DEF Task, Listed
<1>5. ~lost' => LastIsCurrent' BY <1>1 DEF Task, LastIsCurrent
<1>6. QED BY <1>1, <1>2, <1>3, <1>4, <1>5 DEF Task

\* A task that writes its keywords leaves indexes that agree.
LEMMA TaskKeywords ==
    ASSUME Sane, NEW w \in Workers, Task(w), SwitchKeywords(w)
    PROVE  Rested'
<1>1. UNCHANGED <<docEnabled, text, enabled, point, queue, lost>>
  BY DEF SwitchKeywords, rows, history
<1> DEFINE new == [s \in Segs |->
                     IF work[w].on
                     THEN work[w].view.kw[s] \union
                          {t \in {work[w].view.text[s]} : work[w].view.on[s]}
                     ELSE {t \in work[w].view.kw[s] :
                               work[w].view.text[s] = None}]
<1>2. WriteBack(new, work[w].view) BY DEF SwitchKeywords
<1>3. work[w].view.kw = kw /\ work[w].view.text = text
      /\ work[w].view.on = enabled
  BY DEF Task
<1>4. kw' = new BY <1>2, <1>3, WritesBack
<1>5. ASSUME NEW s \in Segs
      PROVE  /\ Listed(s)'
             /\ work[w].on /\ enabled[s] => text[s] \in kw'[s]
  <2>1. kw'[s] = IF work[w].on
                 THEN kw[s] \union {t \in {text[s]} : enabled[s]}
                 ELSE {t \in kw[s] : text[s] = None}
    BY <1>3, <1>4
  <2>2. Listed(s) BY DEF Task
  <2>3. Listed(s)' BY <1>1, <2>1, <2>2 DEF Listed
  <2>4. QED BY <2>1, <2>3
<1>6. work[w].pc = "keywords" BY DEF SwitchKeywords
<1>7. ASSUME ~lost', queue' = <<>>, NEW s \in Segs
      PROVE  Flagged(s)' /\ Full(s)'
  <2>1. work[w].on = docEnabled /\ Flagged(s) BY <1>1, <1>6, <1>7 DEF Task
  <2>2. QED BY <1>1, <1>5, <2>1 DEF Flagged, Full
<1>8. ~lost' => LastIsCurrent' BY <1>1 DEF Task, LastIsCurrent
<1>9. QED BY <1>5, <1>7, <1>8 DEF Rested

\* No two requests or tasks are in progress and the indexes are in step.
LEMMA InStepStep ==
    ASSUME Sane, Edits, InStep, ~overlapped', [Next]_vars
    PROVE  Alone' /\ InStep'
<1>a. Alone /\ \A v, w \in Working : v = w BY DEF InStep, Solo
<1>b. Asking = {} \/ Working = {} BY DEF InStep, Solo
<1>1. ASSUME NEW r \in Reqs, Ask(r) PROVE Alone' /\ InStep'
  <2>1. PICK k \in Stages : Opens(r, k) BY <1>1, AskOpens
  <2>2. /\ req'[r].todo # <<>> /\ At(r, k)'
        /\ \A q \in Reqs \ {r} : req'[q] = req[q]
        /\ Asking = {} /\ Working = {} /\ work' = work
    BY <2>1 DEF Opens
  <2>3. Asking' = {r} /\ Working' = {} BY <2>2 DEF Asking, Working
  <2>4. Alone' BY <2>3 DEF Alone
  <2>5. Apart' BY <2>4 DEF Alone, Apart
  <2>6. Edit(r, k)' BY <2>1, <2>5, OpensEdit
  <2>7. Rested BY <2>2 DEF InStep
  <2>8. Seen(r, k)' /\ Entries(r, k)' BY <2>1, <2>7, OpensList
  <2>9. QED BY <2>2, <2>3, <2>4, <2>6, <2>8 DEF InStep, Solo
<1>2. ASSUME NEW r \in Reqs, Continue(r) \/ LoseSend(r)
      PROVE  Alone' /\ InStep'
  <2>1. r \in Asking /\ \A q \in Reqs \ {r} : req'[q] = req[q]
    BY <1>2, Continuing
  <2>2. Asking = {r} /\ Working = {} BY <1>a, <1>b, <2>1 DEF Alone
  <2>3. PICK k \in Stages :
          At(r, k) /\ Edit(r, k) /\ Seen(r, k) /\ Entries(r, k)
    BY <2>1 DEF InStep
  <2>4. EditMoves(r, k) /\ ListMoves(r, k)
    BY <1>2, <2>1, <2>3, EditNext, ListNext
  <2>5. Asking' \subseteq {r} BY <2>1, <2>2 DEF Asking
  <2>6. work' = work
    BY <1>2
       DEF Continue, LoseSend, Look, Relook, AddKeywords, DropKeywords,
           WriteSegment, UpsertPoint, FlagSegment, RemoveSegment, RemovePoint,
           Sum, Count, Send
  <2>7. Working' = {} BY <2>2, <2>6 DEF Working
  <2>8. Alone' /\ Solo' BY <2>5, <2>7 DEF Alone, Solo
  <2>9. CASE After(k) = "done"
    <3>1. req'[r].todo = <<>> /\ Rested'
      BY <2>4, <2>9 DEF EditMoves, ListMoves
    <3>2. Asking' = {} BY <2>5, <3>1 DEF Asking
    <3>3. QED BY <2>7, <2>8, <3>1, <3>2 DEF InStep
  <2>10. CASE After(k) # "done"
    <3> DEFINE j == After(k)
    <3>1. /\ j \in Stages /\ At(r, j)' /\ Edit(r, j)'
          /\ Seen(r, j)' /\ Entries(r, j)'
      BY <2>4, <2>10 DEF EditMoves, ListMoves
    <3> HIDE DEF j
    <3>2. req'[r].todo # <<>> BY <3>1, RestShape DEF At
    <3>3. Asking' = {r} BY <2>1, <2>5, <3>2 DEF Asking
    <3>4. QED BY <2>7, <2>8, <3>1, <3>3 DEF InStep
  <2>11. QED BY <2>9, <2>10
<1>3. ASSUME NEW w \in Workers, TakeSwitch(w) PROVE Alone' /\ InStep'
  <2>1. /\ Asking = {} /\ Working = {} /\ req' = req
        /\ \A v \in Workers \ {w} : work'[v] = work[v]
    BY <1>3 DEF TakeSwitch, Sane, Types
  <2>2. Asking' = {} /\ Working' \subseteq {w}
    BY <2>1 DEF Asking, Working
  <2>3. Alone' /\ Solo' BY <2>2 DEF Alone, Solo
  <2>4. Rested BY <2>1 DEF InStep
  <2>5. Task(w)' BY <1>3, <2>4, TaskTaken
  <2>6. work'[w].pc # "idle" BY <1>3 DEF TakeSwitch, Sane, Types
  <2>7. w \in Working' BY <2>6 DEF Working
  <2>8. QED BY <2>2, <2>3, <2>5, <2>7 DEF InStep
<1>4. ASSUME NEW w \in Workers, SwitchPoints(w) PROVE Alone' /\ InStep'
  <2>1. /\ w \in Working /\ req' = req
        /\ \A v \in Workers \ {w} : work'[v] = work[v]
    BY <1>4 DEF SwitchPoints, Working, Sane, Types
  <2>2. Working = {w} /\ Asking = {} BY <1>a, <1>b, <2>1
  <2>3. Asking' = {} /\ Working' \subseteq {w}
    BY <2>1, <2>2 DEF Asking, Working
  <2>4. Alone' /\ Solo' BY <2>3 DEF Alone, Solo
  <2>5. Task(w) BY <2>1 DEF InStep
  <2>6. Task(w)' BY <1>4, <2>2, <2>5, TaskFlags
  <2>7. work'[w].pc = "keywords"
    BY <1>4 DEF SwitchPoints, Sane, Types, WorkType
  <2>8. w \in Working' BY <2>7 DEF Working
  <2>9. QED BY <2>3, <2>4, <2>6, <2>8 DEF InStep
<1>5. ASSUME NEW w \in Workers, SwitchKeywords(w) \/ Kill(w)
      PROVE  Alone' /\ InStep'
  <2>1. /\ w \in Working /\ req' = req
        /\ work' = [work EXCEPT ![w] = NoWork]
    BY <1>5 DEF SwitchKeywords, Kill, Working
  <2>2. Working = {w} /\ Asking = {} BY <1>a, <1>b, <2>1
  <2>3. Asking' = {} BY <2>1, <2>2 DEF Asking
  <2>4. Working' = {}
    BY <2>1, <2>2, NoWorkTyped DEF Working, Sane, Types
  <2>5. Alone' /\ Solo' BY <2>3, <2>4 DEF Alone, Solo
  <2>6. Task(w) BY <2>1 DEF InStep
  <2>7. Rested'
    <3>1. CASE SwitchKeywords(w) BY <2>6, <3>1, TaskKeywords
    <3>2. CASE Kill(w)
      <4>1. lost' /\ UNCHANGED <<text, enabled, kw>>
        BY <3>2 DEF Kill, rows
      <4>2. (\A s \in Segs : Listed(s))' BY <2>6, <4>1 DEF Task, Listed
      <4>3. QED BY <4>1, <4>2 DEF Rested
    <3>3. QED BY <1>5, <3>1, <3>2
  <2>8. QED BY <2>3, <2>4, <2>5, <2>7 DEF InStep
<1>6. CASE UNCHANGED vars
  <2>1. UNCHANGED <<docEnabled, text, enabled, unused, counted, point, kw,
                    queue, req, work, overlapped, lost>>
    BY <1>6 DEF vars, rows, history
  <2>2. Solo' BY <2>1 DEF InStep, Solo, Alone, Asking, Working
  <2>3. Alone' BY <2>2 DEF Solo
  <2>4. ASSUME NEW r \in Asking'
        PROVE  \E k \in Stages :
                  At(r, k)' /\ Edit(r, k)' /\ Seen(r, k)' /\ Entries(r, k)'
    <3>1. r \in Asking BY <2>1 DEF Asking
    <3>2. PICK k \in Stages :
            At(r, k) /\ Edit(r, k) /\ Seen(r, k) /\ Entries(r, k)
      BY <3>1 DEF InStep
    <3>3. At(r, k)' BY <2>1, <3>2 DEF At
    <3>4. Edit(r, k)' BY <2>1, <3>2 DEF Edit, Sound, Shown, Stored
    <3>5. Seen(r, k)' BY <2>1, <3>2 DEF Seen
    <3>6. Entries(r, k)'
      BY <2>1, <3>2 DEF Entries, Listed, LastIsCurrent, Flagged, Full
    <3>7. QED BY <3>3, <3>4, <3>5, <3>6
  <2>5. (\A w \in Working : Task(w))'
    BY <2>1 DEF InStep, Working, Task, Listed, LastIsCurrent, Flagged
  <2>6. (Asking = {} /\ Working = {} => Rested)'
    BY <2>1
       DEF InStep, Asking, Working, Rested, Listed, LastIsCurrent, Flagged,
           Full
  <2>7. QED BY <2>2, <2>3, <2>4, <2>5, <2>6 DEF InStep
<1>7. QED BY <1>1, <1>2, <1>3, <1>4, <1>5, <1>6 DEF Next, Work

\* An overlap is remembered.
LEMMA OverlapStays ==
    ASSUME Next, overlapped
    PROVE  overlapped'
BY DEF Next, Ask, CreateSegment, UpdateSegment, SwitchSegment, DeleteSegment,
       SwitchDocument, Begin, Continue, Look, Relook, AddKeywords,
       DropKeywords, WriteSegment, UpsertPoint, FlagSegment, RemoveSegment,
       RemovePoint, Sum, Count, Send, Work, TakeSwitch, SwitchPoints,
       SwitchKeywords, LoseSend, Kill, history

\* Every step keeps the invariant; once something has overlapped it asks for
\* nothing but Sane.
LEMMA IndexStep == IndexInv /\ [Next]_vars => IndexInv'
<1> SUFFICES ASSUME IndexInv, [Next]_vars PROVE IndexInv' OBVIOUS
<1>1. Sane /\ Sane' BY SaneStep DEF IndexInv
<1>2. ASSUME ~overlapped' PROVE Edits' /\ InStep'
  <2>1. ~overlapped
    BY <1>2, OverlapStays DEF vars, history
  <2>2. Edits /\ InStep BY <2>1 DEF IndexInv
  <2>3. Alone' /\ InStep' BY <1>1, <1>2, <2>2, InStepStep
  <2>4. Alone BY <2>2 DEF InStep, Solo
  <2>5. Apart /\ Apart' BY <2>3, <2>4 DEF Alone, Apart
  <2>6. QED BY <1>1, <2>2, <2>3, <2>5, EditsStep
<1>3. QED BY <1>1, <1>2 DEF IndexInv

\* What a search finds when the indexes are at rest.
LEMMA RestedMatches ==
    ASSUME Sane, Edits, Rested, Quiet, ~lost
    PROVE  FullTextMatches
<1>a. /\ text \in [Segs -> Texts \union {None}]
      /\ enabled \in [Segs -> BOOLEAN] /\ docEnabled \in BOOLEAN
      /\ None \notin Texts
      /\ \A s \in Segs : enabled[s] => text[s] # None
  BY ConstantsAssumption
     DEF Sane, Types, TypeOK, Rows, Stored, ConstantsAssumption
<1>1. ASSUME NEW s \in Segs
      PROVE  /\ point[s].on = enabled[s]
             /\ enabled[s] => point[s].doc = docEnabled
             /\ docEnabled /\ enabled[s] => text[s] \in kw[s]
             /\ kw[s] \subseteq (IF enabled[s] THEN {text[s]} ELSE {})
  <2>1. Shown(s) BY DEF Edits, Quiet
  <2>2. Listed(s) /\ Flagged(s) /\ Full(s) BY DEF Rested, Quiet
  <2>3. QED BY <1>a, <2>1, <2>2 DEF Shown, Listed, Flagged, Full
<1>2. SemanticHits = IF docEnabled THEN {s \in Segs : enabled[s]} ELSE {}
  <2>1. \A s \in Segs : PassesFilter(point[s]) <=> (docEnabled /\ enabled[s])
    BY <1>1 DEF PassesFilter
  <2>2. QED BY <2>1 DEF SemanticHits
<1>3. ASSUME NEW t \in Texts
      PROVE  LET on == {s \in Segs : enabled[s]}
                 with == {s \in on : text[s] = t}
             IN /\ HitTest("full_text", t) \subseteq with
                /\ docEnabled => HitTest("full_text", t) = with
                /\ ChatHits(t) = IF docEnabled THEN on ELSE {}
                /\ HitTest("hybrid", t) \subseteq on
  <2> DEFINE on == {s \in Segs : enabled[s]}
             with == {s \in on : text[s] = t}
  <2>1. FullTextHits(t) \subseteq with
    BY <1>1 DEF FullTextHits
  <2>2. docEnabled => with \subseteq FullTextHits(t)
    BY <1>1, <1>a DEF FullTextHits, Stored
  <2>3. HitTest("full_text", t) = FullTextHits(t)
    BY DEF HitTest, Hits, FullTextHits
  <2>4. ChatHits(t) = SemanticHits BY DEF ChatHits, Hits
  <2>5. HitTest("hybrid", t) \subseteq SemanticHits \cup FullTextHits(t)
    BY DEF HitTest, Hits
  <2>6. QED BY <1>2, <2>1, <2>2, <2>3, <2>4, <2>5
<1>4. QED BY <1>3 DEF FullTextMatches

\* Unless requests or tasks have overlapped or a switch was lost, the indexes
\* agree when everything is done: full-text search finds the enabled segments
\* of an enabled document under their present keywords and never a disabled
\* one, and so do conversations.
THEOREM IndexesAgree == Spec => []FullTextMatches
<1>1. Init => IndexInv
  <2> SUFFICES ASSUME Init PROVE IndexInv OBVIOUS
  <2>1. Sane BY InitSane
  <2>2. Edits /\ Asking = {} BY InitEdits
  <2>3. Rested /\ Working = {} BY InitRested
  <2>4. InStep BY <2>2, <2>3 DEF InStep, Solo, Alone
  <2>5. QED BY <2>1, <2>2, <2>4 DEF IndexInv
<1>2. IndexInv => FullTextMatches
  <2> SUFFICES ASSUME IndexInv PROVE FullTextMatches OBVIOUS
  <2>1. CASE Quiet /\ ~overlapped /\ ~lost
    <3>1. Sane /\ Edits /\ InStep BY <2>1 DEF IndexInv
    <3>2. Rested BY <2>1, <3>1 DEF InStep, Quiet
    <3>3. QED BY <2>1, <3>1, <3>2, RestedMatches
  <2>2. CASE ~(Quiet /\ ~overlapped /\ ~lost) BY <2>2 DEF FullTextMatches
  <2>3. QED BY <2>1, <2>2
<1>3. QED BY <1>1, <1>2, IndexStep, PTL DEF Spec

-----------------------------------------------------------------------------
(* The keyword table under it: KeywordTable implements AtomicKeywordTable  *)
(* when no caller reads before it has the lock and no call outlives the    *)
(* lock.  Here the table's own variables stand beside those of the stores. *)
(*                                                                         *)
(* The argument: a call inside the with block owns the lock (Holders), so  *)
(* what it has read is still what is stored, unless the dataset's row was  *)
(* removed by the one step that takes no lock (Reading).                   *)

CONSTANTS Procs, Ops, Isolation, Faults
VARIABLES row, table, existing, dataset, lock, call

Table == INSTANCE KeywordTable WITH rows <- existing

\* What KeywordTable assumes of its constants.
TableConstants ==
    /\ Ops \subseteq Table!OpKinds /\ Faults \subseteq Table!FaultKinds
    /\ Isolation \in {"repeatable read", "read committed"}
    /\ None \notin Procs

\* Nobody reads first: the database runs read committed, or the callers are
\* the clean-ups of deleted documents, the only ones without an early read.
Fresh == Isolation = "read committed" \/ Ops \subseteq {"cleanup"}

Holders == \A p \in Procs : call[p].pc \in Table!Inside => lock = p

\* At most one call is inside the with block.
OneInside ==
    \A p, q \in Procs :
        call[p].pc \in Table!Inside /\ call[q].pc \in Table!Inside => p = q

\* What p read is what is stored, unless the row was removed since.
Current(p) ==
    \/ call[p].seen.row = row /\ call[p].seen.table = table
    \/ row = 0 /\ dataset = "cleaned"

Reading ==
    \A p \in Procs :
        /\ call[p].op \in Ops \union {"cleanup"}
        /\ call[p].pc \in {"lock", "find"} => ~call[p].seen.fixed
        /\ call[p].pc = "create" => row = 0
        /\ call[p].pc = "refresh" => row # 0 \/ dataset = "cleaned"
        /\ call[p].pc = "change" =>
            /\ existing \subseteq call[p].seen.rows
            /\ call[p].seen.row # 0
            /\ Current(p)

EmptyWithoutRow == row = 0 => table = {}

IInv == Table!TypeOK /\ Holders /\ Reading /\ EmptyWithoutRow

\* The places of a call that the proofs mention.
LEMMA Places ==
    {"idle", "lock", "find", "create", "refresh", "change", "release"}
        \subseteq Table!Pcs
BY DEF Table!Pcs

\* A process that makes no call is idle.
LEMMA NoCallTyped ==
    Table!NoCall \in Table!CallType /\ Table!NoCall.pc = "idle"
BY DEF Table!NoCall, Table!Unseen, Table!CallType, Table!SeenType, Table!Pcs,
       Table!OpKinds

\* What a call can see has the type of what it has seen.
LEMMA NowTyped == Table!TypeOK => Table!Now \in Table!SeenType
BY DEF Table!TypeOK, Table!Now, Table!SeenType

\* The invariant of the table holds to begin with.
LEMMA InitInv == Table!Init => IInv
<1> SUFFICES ASSUME Table!Init PROVE IInv OBVIOUS
<1>1. Table!TypeOK BY NoCallTyped DEF Table!Init, Table!TypeOK
<1>2. Holders BY NoCallTyped DEF Table!Init, Holders, Table!Inside
<1>3. Reading BY DEF Table!Init, Reading, Table!NoCall
<1>4. EmptyWithoutRow BY DEF Table!Init, EmptyWithoutRow
<1>5. QED BY <1>1, <1>2, <1>3, <1>4 DEF IInv

\* Every step of the table keeps the types.
LEMMA TypeStep ==
    ASSUME TableConstants, Table!TypeOK, [Table!Next]_(Table!vars)
    PROVE  Table!TypeOK'
<1>a. call \in [Procs -> Table!CallType] BY DEF Table!TypeOK
<1>1. ASSUME NEW p \in Procs, NEW op \in Ops, NEW S \in SUBSET Segs,
             Table!Begin(p, op, S)
      PROVE  Table!TypeOK'
  <2>1. Table!Unseen \in Table!SeenType BY DEF Table!Unseen, Table!SeenType
  <2>2. PICK x \in Table!SeenType :
          call' = [call EXCEPT ![p] = [pc |-> "lock", op |-> op, ids |-> S,
                                       seen |-> x]]
    BY <1>1, <2>1, NowTyped DEF Table!Begin
  <2>3. [pc |-> "lock", op |-> op, ids |-> S, seen |-> x] \in Table!CallType
    BY TableConstants, Places DEF Table!CallType, TableConstants
  <2>4. call' \in [Procs -> Table!CallType] BY <1>a, <2>2, <2>3
  <2>5. QED BY <1>1, <2>4 DEF Table!TypeOK, Table!Begin
<1>2. ASSUME NEW p \in Procs, Table!Acquire(p) PROVE Table!TypeOK'
  <2>1. call' \in [Procs -> Table!CallType]
    BY <1>a, <1>2, Places DEF Table!Acquire, Table!CallType
  <2>2. QED BY <1>2, <2>1 DEF Table!TypeOK, Table!Acquire
<1>3. ASSUME NEW p \in Procs, Table!Find(p) PROVE Table!TypeOK'
  <2>1. call[p].seen \in Table!SeenType BY <1>a DEF Table!CallType
  <2>2. PICK x \in Table!SeenType, pc \in Table!Pcs :
          call' = [call EXCEPT ![p] = [@ EXCEPT !.seen = x, !.pc = pc]]
    BY <1>3, <2>1, NowTyped, Places DEF Table!Find
  <2>3. call' \in [Procs -> Table!CallType] BY <1>a, <2>2 DEF Table!CallType
  <2>4. QED BY <1>3, <2>3 DEF Table!TypeOK, Table!Find
<1>4. ASSUME NEW p \in Procs, Table!Create(p) PROVE Table!TypeOK'
  <2>1. call' \in [Procs -> Table!CallType]
    BY <1>a, <1>4, Places DEF Table!Create, Table!CallType
  <2>2. QED BY <1>4, <2>1 DEF Table!TypeOK, Table!Create
<1>5. ASSUME NEW p \in Procs, Table!Refresh(p) PROVE Table!TypeOK'
  <2>1. PICK pc \in Table!Pcs :
          call' = [call EXCEPT ![p] = [@ EXCEPT !.seen = Table!Now, !.pc = pc]]
    BY <1>5, Places DEF Table!Refresh
  <2>2. call' \in [Procs -> Table!CallType]
    BY <1>a, <2>1, NowTyped DEF Table!CallType
  <2>3. QED BY <1>5, <2>2 DEF Table!TypeOK, Table!Refresh
<1>6. ASSUME NEW p \in Procs, Table!Change(p) PROVE Table!TypeOK'
  <2>1. call' \in [Procs -> Table!CallType]
    BY <1>a, <1>6, Places DEF Table!Change, Table!CallType
  <2>2. Table!Changed(p) \in SUBSET Segs
    BY <1>a DEF Table!Changed, Table!CallType, Table!SeenType
  <2>3. QED BY <1>6, <2>1, <2>2 DEF Table!TypeOK, Table!Change
<1>7. ASSUME NEW p \in Procs, Table!Release(p) \/ Table!Kill(p)
      PROVE  Table!TypeOK'
  <2>1. call' \in [Procs -> Table!CallType]
    BY <1>a, <1>7, NoCallTyped DEF Table!Release, Table!Kill
  <2>2. QED BY <1>7, <2>1 DEF Table!TypeOK, Table!Release, Table!Kill
<1>8. CASE Table!Expire BY <1>8 DEF Table!TypeOK, Table!Expire
<1>9. ASSUME NEW s \in Segs, Table!LoseRow(s) PROVE Table!TypeOK'
  BY <1>9 DEF Table!TypeOK, Table!LoseRow
<1>10. CASE Table!DeleteDataset \/ Table!DropTable
  BY <1>10 DEF Table!TypeOK, Table!DeleteDataset, Table!DropTable
<1>11. CASE UNCHANGED Table!vars BY <1>11 DEF Table!TypeOK, Table!vars
<1>12. QED
  BY <1>1, <1>2, <1>3, <1>4, <1>5, <1>6, <1>7, <1>8, <1>9, <1>10, <1>11
     DEF Table!Next, Table!Step

\* Every variable keeps its type.
THEOREM TableTyped == TableConstants => (Table!Spec => []Table!TypeOK)
<1> SUFFICES ASSUME TableConstants PROVE Table!Spec => []Table!TypeOK
  OBVIOUS
<1>1. Table!Init => Table!TypeOK BY InitInv DEF IInv
<1>2. Table!TypeOK /\ [Table!Next]_(Table!vars) => Table!TypeOK'
  BY TypeStep
<1>3. QED BY <1>1, <1>2, PTL DEF Table!Spec

-----------------------------------------------------------------------------
(* The invariant that makes a call atomic.                                 *)

Assumptions == TableConstants /\ Fresh /\ "expiry" \notin Faults

\* Under Fresh no call reads before it has the lock.
LEMMA NobodyReadsFirst ==
    ASSUME TableConstants, Fresh, NEW op \in Ops \union {"cleanup"}
    PROVE  ~Table!ReadsFirst(op)
BY TableConstants DEF Fresh, Table!ReadsFirst, TableConstants

\* Whoever is inside still holds the lock after every step, under every
\* isolation,
LEMMA HoldersStep ==
    ASSUME TableConstants, "expiry" \notin Faults, Table!TypeOK, Holders,
           [Table!Next]_(Table!vars)
    PROVE  Holders'
<1> USE DEF Table!Inside
<1>a. call \in [Procs -> Table!CallType] BY DEF Table!TypeOK
<1>b. Holders OBVIOUS
<1>c. TableConstants OBVIOUS
<1>1. ASSUME NEW p \in Procs, NEW op \in Ops, NEW S \in SUBSET Segs,
             Table!Begin(p, op, S)
      PROVE  Holders'
  BY <1>1, <1>a, <1>b DEF Table!Begin, Holders
<1>2. ASSUME NEW p \in Procs, Table!Acquire(p) PROVE Holders'
  BY <1>2, <1>a, <1>b, <1>c
     DEF Table!Acquire, Holders, Table!CallType, TableConstants
<1>3. ASSUME NEW p \in Procs,
             \/ Table!Find(p) \/ Table!Create(p)
             \/ Table!Refresh(p) \/ Table!Change(p)
      PROVE  Holders'
  <2>1. /\ lock' = lock /\ call[p].pc \in Table!Inside
        /\ \A q \in Procs \ {p} : call'[q] = call[q]
    BY <1>3, <1>a, Places
       DEF Table!Find, Table!Create, Table!Refresh, Table!Change
  <2>2. QED BY <2>1, <1>b DEF Holders
<1>4. ASSUME NEW p \in Procs, Table!Release(p) PROVE Holders'
  <2>1. \A q \in Procs \ {p} : call'[q] = call[q] /\ lock # q => lock' # q
    BY <1>4, <1>a, <1>c DEF Table!Release, TableConstants
  <2>2. call'[p].pc = "idle" BY <1>4, <1>a, NoCallTyped DEF Table!Release
  <2>3. lock = p BY <1>4, <1>b, Places DEF Table!Release, Holders
  <2>4. QED BY <1>4, <1>a, <1>b, <2>2, <2>3 DEF Table!Release, Holders
<1>5. ASSUME NEW p \in Procs, Table!Kill(p) PROVE Holders'
  BY <1>5, <1>a, <1>b, NoCallTyped DEF Table!Kill, Holders
<1>6. CASE Table!Expire
  BY <1>6, <1>a, <1>b DEF Table!Expire, Table!Abandoned, Holders
<1>7. CASE \/ \E s \in Segs : Table!LoseRow(s)
           \/ Table!DeleteDataset \/ Table!DropTable \/ UNCHANGED Table!vars
  BY <1>7, <1>b
     DEF Table!LoseRow, Table!DeleteDataset, Table!DropTable, Table!vars,
         Holders
<1>8. QED
  BY <1>1, <1>2, <1>3, <1>4, <1>5, <1>6, <1>7 DEF Table!Next, Table!Step

\* so the calls exclude each other, whatever the database's isolation and
\* whoever dies or deletes the dataset: only a call that outlives the lock's
\* time to live lets a second one in.
THEOREM LockExcludes ==
    TableConstants /\ "expiry" \notin Faults => (Table!Spec => []OneInside)
<1> SUFFICES ASSUME TableConstants, "expiry" \notin Faults
             PROVE  Table!Spec => []OneInside
  OBVIOUS
<1>1. Table!Init => Holders BY InitInv DEF IInv
<1>2. Holders /\ Table!TypeOK /\ [Table!Next]_(Table!vars) => Holders'
  BY HoldersStep
<1>3. Holders => OneInside BY DEF Holders, OneInside
<1>4. Table!Spec => []Table!TypeOK BY TableTyped
<1>5. QED BY <1>1, <1>2, <1>3, <1>4, PTL DEF Table!Spec

\* Under Fresh, what a holder has read is still what is stored.
LEMMA ReadingStep ==
    ASSUME Assumptions, IInv, [Table!Next]_(Table!vars)
    PROVE  Reading' /\ EmptyWithoutRow'
<1> USE DEF IInv
<1>a. call \in [Procs -> Table!CallType] /\ row \in 0..2 BY DEF Table!TypeOK
<1>b. Reading /\ EmptyWithoutRow OBVIOUS
<1>1. ASSUME NEW p \in Procs, NEW op \in Ops, NEW S \in SUBSET Segs,
             Table!Begin(p, op, S)
      PROVE  Reading' /\ EmptyWithoutRow'
  <2>1. call' = [call EXCEPT ![p] = [pc |-> "lock", op |-> op, ids |-> S,
                                     seen |-> Table!Unseen]]
    BY <1>1, NobodyReadsFirst DEF Table!Begin, Assumptions
  <2>2. QED
    BY <1>1, <1>a, <1>b, <2>1
       DEF Table!Begin, Reading, Current, EmptyWithoutRow, Table!Unseen
<1>2. ASSUME NEW p \in Procs, Table!Acquire(p)
      PROVE  Reading' /\ EmptyWithoutRow'
  BY <1>2, <1>a, <1>b
     DEF Table!Acquire, Reading, Current, EmptyWithoutRow, Table!CallType
<1>3. ASSUME NEW p \in Procs, Table!Find(p) PROVE Reading' /\ EmptyWithoutRow'
  <2>1. call' = [call EXCEPT ![p] = [@ EXCEPT
                    !.seen = Table!Now,
                    !.pc = IF row = 0 THEN "create" ELSE "change"]]
    BY <1>3, <1>b DEF Table!Find, Reading, Table!Now
  <2>2. /\ \A q \in Procs \ {p} : call'[q] = call[q]
        /\ call'[p].seen = Table!Now /\ call'[p].op = call[p].op
        /\ call'[p].pc = IF row = 0 THEN "create" ELSE "change"
    BY <2>1, <1>a DEF Table!CallType
  <2>3. QED
    BY <1>3, <1>b, <2>2
       DEF Table!Find, Reading, Current, EmptyWithoutRow, Table!Now
<1>4. ASSUME NEW p \in Procs, Table!Create(p)
      PROVE  Reading' /\ EmptyWithoutRow'
  <2>1. row = 0 /\ table = {}
    BY <1>4, <1>b DEF Table!Create, Reading, EmptyWithoutRow
  <2>2. \A q \in Procs \ {p} : call[q].pc \notin Table!Inside
    BY <1>4, Places DEF Table!Create, Holders, Table!Inside
  <2>3. row' # 0 /\ call' = [call EXCEPT ![p].pc = "refresh"]
    BY <1>4, <2>1 DEF Table!Create
  <2>4. QED
    BY <1>4, <1>a, <1>b, <2>2, <2>3
       DEF Table!Create, Reading, Current, EmptyWithoutRow, Table!CallType,
           Table!Inside, Table!Pcs
<1>5. ASSUME NEW p \in Procs, Table!Refresh(p)
      PROVE  Reading' /\ EmptyWithoutRow'
  <2>1. /\ \A q \in Procs \ {p} : call'[q] = call[q]
        /\ call'[p].seen = Table!Now /\ call'[p].op = call[p].op
        /\ call'[p].pc = IF row = 0 THEN "release" ELSE "change"
    BY <1>5, <1>a DEF Table!Refresh, Table!CallType
  <2>2. QED
    BY <1>5, <1>b, <2>1
       DEF Table!Refresh, Reading, Current, EmptyWithoutRow, Table!Now
<1>6. ASSUME NEW p \in Procs, Table!Change(p)
      PROVE  Reading' /\ EmptyWithoutRow'
  <2>1. \A q \in Procs \ {p} : call'[q] = call[q] /\ call[q].pc # "change"
    BY <1>6, <1>a, Places DEF Table!Change, Holders, Table!Inside
  <2>2. call'[p].pc = "release" /\ call'[p].op = call[p].op
    BY <1>6, <1>a DEF Table!Change, Table!CallType
  <2>3. row = 0 => table' = table
    BY <1>6, <1>b DEF Table!Change, Reading
  <2>4. QED
    BY <1>6, <1>b, <2>1, <2>2, <2>3
       DEF Table!Change, Reading, Current, EmptyWithoutRow
<1>7. ASSUME NEW p \in Procs, Table!Release(p) \/ Table!Kill(p)
      PROVE  Reading' /\ EmptyWithoutRow'
  <2>1. /\ call' = [call EXCEPT ![p] = Table!NoCall]
        /\ UNCHANGED <<row, table, existing, dataset>>
    BY <1>7 DEF Table!Release, Table!Kill
  <2>2. QED
    BY <1>a, <1>b, <2>1 DEF Table!NoCall, Reading, Current, EmptyWithoutRow
<1>8. CASE Table!Expire
  BY <1>8, <1>b DEF Table!Expire, Reading, Current, EmptyWithoutRow
<1>9. CASE (\E s \in Segs : Table!LoseRow(s)) \/ Table!DeleteDataset
  BY <1>9, <1>b
     DEF Table!LoseRow, Table!DeleteDataset, Reading, Current, EmptyWithoutRow
<1>10. CASE Table!DropTable
  BY <1>10, <1>b DEF Table!DropTable, Reading, Current, EmptyWithoutRow
<1>11. CASE UNCHANGED Table!vars
  BY <1>11, <1>b DEF Table!vars, Reading, Current, EmptyWithoutRow
<1>12. QED
  BY <1>1, <1>2, <1>3, <1>4, <1>5, <1>6, <1>7, <1>8, <1>9, <1>10, <1>11
     DEF Table!Next, Table!Step

\* So every step keeps the invariant.
LEMMA InvStep == Assumptions /\ IInv /\ [Table!Next]_(Table!vars) => IInv'
BY TypeStep, HoldersStep, ReadingStep DEF IInv, Assumptions

-----------------------------------------------------------------------------
(* Every step is a step of AtomicKeywordTable or changes nothing it sees.  *)

\* What one caller's promise looks like.
LEMMA PromiseOf ==
    ASSUME NEW p \in Procs
    PROVE  Table!Promise[p] = IF call[p].pc = "idle" THEN Table!Abstract!NoCall
                        ELSE [state |-> IF call[p].pc = "release"
                                        THEN "done" ELSE "asked",
                              adds |-> call[p].op = "add",
                              ids |-> call[p].ids]
BY DEF Table!Promise, Table!Abstract!NoCall

\* A step that moves p's call between two places that look the same.
LEMMA SamePromise ==
    ASSUME Table!TypeOK, NEW p \in Procs, NEW pc \in Table!Pcs,
           \A q \in Procs \ {p} : call'[q] = call[q],
           call'[p].pc = pc /\ call'[p].op = call[p].op,
           call'[p].ids = call[p].ids,
           call[p].pc \notin {"idle", "release"},
           pc \notin {"idle", "release"}
    PROVE  Table!Promise' = Table!Promise
BY DEF Table!Promise

\* A step that ends the work of p's call.
LEMMA DonePromise ==
    ASSUME Table!TypeOK, NEW p \in Procs,
           \A q \in Procs \ {p} : call'[q] = call[q],
           call'[p].pc = "release" /\ call'[p].op = call[p].op,
           call'[p].ids = call[p].ids,
           call[p].pc \notin {"idle", "release"}
    PROVE  Table!Promise' = [Table!Promise EXCEPT ![p].state = "done"]
BY DEF Table!Promise

\* The initial states of the table are those of the atomic one,
LEMMA InitRefines == Table!Init => Table!Abstract!Init
BY DEF Table!Init, Table!Abstract!Init, Table!Abstract!NoCall, Table!Promise,
       Table!NoCall

\* and every step is one of its steps or a stutter.
LEMMA StepRefines ==
    ASSUME Assumptions, IInv, [Table!Next]_(Table!vars)
    PROVE  [Table!Abstract!Next]_(Table!Abstract!vars)
<1> USE DEF IInv
<1> DEFINE Goal == [Table!Abstract!Next]_(Table!Abstract!vars)
<1>a. call \in [Procs -> Table!CallType] /\ row \in 0..2 BY DEF Table!TypeOK
<1>b. Reading /\ EmptyWithoutRow OBVIOUS
<1>1. ASSUME NEW p \in Procs, NEW op \in Ops, NEW S \in SUBSET Segs,
             Table!Begin(p, op, S)
      PROVE  Goal
  <2>1. Table!Promise' = [Table!Promise EXCEPT ![p] = [state |-> "asked",
                                           adds |-> op = "add", ids |-> S]]
    BY <1>1, <1>a DEF Table!Begin, Table!Promise
  <2>2. Table!Promise[p].state = "idle" BY <1>1 DEF Table!Begin, Table!Promise
  <2>3. Table!Abstract!Ask(p, op = "add", S)
    BY <1>1, <2>1, <2>2 DEF Table!Begin, Table!Abstract!Ask
  <2>4. (op = "add") \in BOOLEAN OBVIOUS
  <2>5. QED BY <2>3, <2>4 DEF Table!Abstract!Next
<1>2. ASSUME NEW p \in Procs, Table!Acquire(p) \/ Table!Find(p) PROVE Goal
  <2>1. PICK pc \in Table!Pcs \ {"idle", "release"} :
          \/ call' = [call EXCEPT ![p].pc = pc]
          \/ \E x : call' = [call EXCEPT ![p] = [@ EXCEPT !.seen = x,
                                                        !.pc = pc]]
    BY <1>2, Places DEF Table!Acquire, Table!Find
  <2>2. /\ call'[p].op = call[p].op /\ call'[p].ids = call[p].ids
        /\ \A q \in Procs \ {p} : call'[q] = call[q]
        /\ call'[p].pc = pc
    BY <1>a, <2>1 DEF Table!CallType
  <2>3. call[p].pc \notin {"idle", "release"}
    BY <1>2 DEF Table!Acquire, Table!Find
  <2>4. Table!Promise' = Table!Promise BY <2>2, <2>3, SamePromise
  <2>5. QED BY <1>2, <2>4 DEF Table!Acquire, Table!Find, Table!Abstract!vars
<1>3. ASSUME NEW p \in Procs, Table!Create(p) PROVE Goal
  <2>1. row = 0 /\ table = {}
    BY <1>3, <1>b DEF Table!Create, Reading, EmptyWithoutRow
  <2>2. /\ call'[p].op = call[p].op /\ call'[p].ids = call[p].ids
        /\ \A q \in Procs \ {p} : call'[q] = call[q]
        /\ call[p].pc = "create" /\ call'[p].pc = "refresh"
    BY <1>3, <1>a, <2>1 DEF Table!Create, Table!CallType
  <2>3. Table!Promise' = Table!Promise BY <2>2, SamePromise, Places
  <2>4. QED BY <1>3, <2>1, <2>3 DEF Table!Create, Table!Abstract!vars
<1>4. ASSUME NEW p \in Procs, Table!Refresh(p) PROVE Goal
  <2>1. /\ call'[p].op = call[p].op /\ call'[p].ids = call[p].ids
        /\ \A q \in Procs \ {p} : call'[q] = call[q]
        /\ call[p].pc = "refresh"
        /\ call'[p].pc = IF row = 0 THEN "release" ELSE "change"
    BY <1>4, <1>a DEF Table!Refresh, Table!CallType
  <2>2. CASE row # 0
    <3>1. Table!Promise' = Table!Promise BY <2>1, <2>2, SamePromise, Places
    <3>2. QED BY <1>4, <3>1 DEF Table!Refresh, Table!Abstract!vars
  <2>3. CASE row = 0
    <3>1. Table!Promise' = [Table!Promise EXCEPT ![p].state = "done"]
      BY <2>1, <2>3, DonePromise
    <3>2. Table!Promise[p].state = "asked" BY <2>1 DEF Table!Promise
    <3>3. dataset = "cleaned" BY <2>1, <2>3, <1>b DEF Reading
    <3>4. Table!Abstract!Refuse(p)
      BY <1>4, <3>1, <3>2, <3>3 DEF Table!Refresh, Table!Abstract!Refuse
    <3>5. QED BY <3>4 DEF Table!Abstract!Next
  <2>4. QED BY <2>2, <2>3
<1>5. ASSUME NEW p \in Procs, Table!Change(p) PROVE Goal
  <2>1. /\ call'[p].op = call[p].op /\ call'[p].ids = call[p].ids
        /\ \A q \in Procs \ {p} : call'[q] = call[q]
        /\ call[p].pc = "change" /\ call'[p].pc = "release"
    BY <1>5, <1>a DEF Table!Change, Table!CallType
  <2>2. Table!Promise' = [Table!Promise EXCEPT ![p].state = "done"]
    BY <2>1, DonePromise
  <2>3. /\ Table!Promise[p].state = "asked"
        /\ Table!Promise[p].adds = (call[p].op = "add")
        /\ Table!Promise[p].ids = call[p].ids
    BY <2>1 DEF Table!Promise
  <2>4. /\ existing \subseteq call[p].seen.rows /\ call[p].seen.row # 0
        /\ Current(p)
    BY <2>1, <1>b DEF Reading
  <2>5. call[p].ids \subseteq Segs BY <1>a DEF Table!CallType
  <2>6. CASE row # call[p].seen.row
    <3>1. table' = table /\ dataset = "cleaned"
      BY <1>5, <2>4, <2>6 DEF Table!Change, Current
    <3>2. Table!Abstract!Refuse(p)
      BY <1>5, <2>2, <2>3, <3>1 DEF Table!Change, Table!Abstract!Refuse
    <3>3. QED BY <3>2 DEF Table!Abstract!Next
  <2>7. CASE row = call[p].seen.row
    <3>1. table' = Table!Changed(p) /\ call[p].seen.table = table
      BY <1>5, <2>4, <2>7 DEF Table!Change, Current
    <3>2. CASE call[p].op = "add"
      <4>1. PICK V : /\ existing \subseteq V
                     /\ Table!Changed(p)
                          = table \union (call[p].ids \intersect V)
        BY <2>4, <3>1, <3>2 DEF Table!Changed
      <4>2. Table!Abstract!Add(p, call[p].ids \intersect V)
        BY <1>5, <2>2, <2>3, <3>1, <3>2, <4>1
           DEF Table!Change, Table!Abstract!Add
      <4>3. QED BY <2>5, <4>2 DEF Table!Abstract!Next
    <3>3. CASE call[p].op # "add"
      <4>1. Table!Abstract!Remove(p)
        BY <1>5, <2>2, <2>3, <3>1, <3>3
           DEF Table!Change, Table!Changed, Table!Abstract!Remove
      <4>2. QED BY <4>1 DEF Table!Abstract!Next
    <3>4. QED BY <3>2, <3>3
  <2>8. QED BY <2>6, <2>7
<1>6. ASSUME NEW p \in Procs, Table!Release(p) \/ Table!Kill(p) PROVE Goal
  <2>1. Table!Promise' = [Table!Promise EXCEPT ![p] = Table!Abstract!NoCall]
    BY <1>6, <1>a, NoCallTyped
       DEF Table!Release, Table!Kill, Table!Promise, Table!Abstract!NoCall
  <2>2. Table!Abstract!End(p)
    BY <1>6, <2>1 DEF Table!Release, Table!Kill, Table!Abstract!End
  <2>3. QED BY <2>2 DEF Table!Abstract!Next
<1>7. CASE Table!Expire \/ UNCHANGED Table!vars
  BY <1>7 DEF Table!Expire, Table!vars, Table!Promise, Table!Abstract!vars
<1>8. ASSUME NEW s \in Segs, Table!LoseRow(s) PROVE Goal
  <2>1. Table!Abstract!LoseRow(s)
    BY <1>8 DEF Table!LoseRow, Table!Promise, Table!Abstract!LoseRow
  <2>2. QED BY <2>1 DEF Table!Abstract!Next
<1>9. CASE Table!DeleteDataset
  <2>1. Table!Abstract!DeleteDataset
    BY <1>9
       DEF Table!DeleteDataset, Table!Promise, Table!Abstract!DeleteDataset
  <2>2. QED BY <2>1 DEF Table!Abstract!Next
<1>10. CASE Table!DropTable
  <2>1. Table!Abstract!DropTable
    BY <1>10 DEF Table!DropTable, Table!Promise, Table!Abstract!DropTable
  <2>2. QED BY <2>1 DEF Table!Abstract!Next
<1>11. QED
  BY <1>1, <1>2, <1>3, <1>4, <1>5, <1>6, <1>7, <1>8, <1>9, <1>10
     DEF Table!Next, Table!Step

\* A call of the service is atomic, for any number of callers and segments,
\* as long as no caller reads before it has the lock and no call outlives
\* the lock's time to live.
THEOREM CallsAreAtomic == Assumptions => (Table!Spec => Table!Atomic)
<1> SUFFICES ASSUME Assumptions PROVE Table!Spec => Table!Atomic OBVIOUS
<1>1. IInv /\ [Table!Next]_(Table!vars) => IInv' BY InvStep
<1>2. IInv /\ [Table!Next]_(Table!vars)
        => [Table!Abstract!Next]_(Table!Abstract!vars)
  BY StepRefines
<1>3. QED
  BY InitInv, InitRefines, <1>1, <1>2, PTL
     DEF Table!Spec, Table!Atomic, Table!Abstract!Spec

=============================================================================
