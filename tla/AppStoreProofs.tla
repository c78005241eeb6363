--------------------------- MODULE AppStoreProofs ----------------------------
(***************************************************************************)
(* What applications, their versions and the store promise for any number  *)
(* of users, applications, requests, publications and plugin tools: nobody *)
(* holds what belongs to another, the store shows what serves, and the     *)
(* history is numbered in order.                                           *)
(*                                                                         *)
(* The argument for the last two is about a request between its snapshot   *)
(* and its commit: as long as no other has overlapped it on its            *)
(* application, it is still one that could be asked for now.  For the      *)
(* first it is that a row keeps its owner and its number until it goes and *)
(* that neither is given to another.                                       *)
(***************************************************************************)
EXTENDS AppStore, SequenceTheorems, FiniteSetTheorems, WellFoundedInduction,
        TLAPS

People == Users \cup {"nobody"}

\* Everything a reference could be, whichever tools there are.
AnyRef ==
    {Builtin} \cup {Dataset(u) : u \in Users}
        \cup [type : {"api_tool"}, id : Nat, of : People]

RowType ==
    [owner : People, status : {"draft", "published"}, current : Nat,
     token : {"yes", "no"}, draft : SUBSET AnyRef, source : Nat]

VersionType == [version : Nat, config : SUBSET AnyRef]

EntryType == [id : Nat, config : SUBSET AnyRef]

\* Columns a request may write; nothing writes the owner.
SetType(set) ==
    /\ DOMAIN set \subseteq {"status", "current", "token", "draft", "source"}
    /\ "status" \in DOMAIN set => set["status"] \in {"draft", "published"}
    /\ "current" \in DOMAIN set => set["current"] = 0
    /\ "token" \in DOMAIN set => set["token"] \in {"yes", "no"}
    /\ "draft" \in DOMAIN set => set["draft"] \subseteq AnyRef
    /\ "source" \in DOMAIN set => set["source"] \in Nat

MadeType ==
    [apps : 0..MaxApps, saves : 0..MaxSaves,
     versions : 0..MaxVersions, entries : 0..MaxEntries]

Kinds == {"none", "save", "fallback", "mark", "publish", "cancel", "list",
          "relist", "delist"}

ReqType(r) ==
    /\ r.kind \in Kinds /\ r.app \in Ids \cup {0}
    /\ r.version \in Nat /\ r.config \subseteq AnyRef /\ r.entry \in Nat
    /\ SetType(r.set)
    /\ r.app # 0 <=> r.kind # "none"

Typing ==
    /\ apps \in [Ids -> RowType]
    /\ hist \in [Ids -> Seq(VersionType)]
    /\ store \in [Ids -> EntryType]
    /\ made \in MadeType
    /\ met \subseteq Ids
    /\ tools \in Seq(Users)
    /\ plugin \in [Users -> Nat]
    /\ DOMAIN req = Reqs /\ \A q \in Reqs : ReqType(req[q])

-----------------------------------------------------------------------------
(* Whose things are.                                                       *)

\* A tool belongs to whom it was made for, a builtin one to nobody.
Genuine(r) ==
    /\ r.type = "builtin_tool" => r.of = "nobody"
    /\ r.type = "api_tool" => r.id \in DOMAIN tools /\ r.of = tools[r.id]

\* What user u may have in a configuration.
Holds(u, config) ==
    \A r \in config : r.of \in {u, "nobody"} /\ Genuine(r)

\* What a request is about to write, to the row if it is still there.
Honest(r) ==
    /\ r.kind # "none" => r.app \in 1..made.apps
    /\ \A x \in r.config : Genuine(x)
    /\ r.kind # "none" /\ apps[r.app] # Gone =>
        /\ Holds(apps[r.app].owner, r.config)
        /\ "draft" \in DOMAIN r.set => Holds(apps[r.app].owner, r.set["draft"])

OwnRow(a) ==
    /\ apps[a].owner = "nobody" => apps[a] = Gone /\ hist[a] = <<>>
    /\ a > made.apps => apps[a] = Gone
    /\ apps[a].current \in 0..Len(hist[a])
    /\ Holds(apps[a].owner, apps[a].draft)
    /\ \A i \in DOMAIN hist[a] : Holds(apps[a].owner, hist[a][i].config)
    /\ \A r \in store[a].config : r.of = "nobody" /\ Genuine(r)

Owners ==
    /\ \A u \in Users : plugin[u] # 0 =>
          plugin[u] \in DOMAIN tools /\ tools[plugin[u]] = u
    /\ \A a \in Ids : OwnRow(a)
    /\ \A q \in Reqs : Honest(req[q])

-----------------------------------------------------------------------------
(* Requests that have not been overlapped.                                 *)

\* The history and the pointer of an application.
Tells(a) ==
    /\ \A i \in DOMAIN hist[a] : hist[a][i].version = i
    /\ IF apps[a].status = "published"
       THEN /\ apps[a].current = Len(hist[a]) /\ apps[a].current # 0
            /\ apps[a].token = "yes"
       ELSE apps[a].current = 0 /\ apps[a].token = "no"

Shows(a) ==
    /\ store[a] # NoEntry =>
        /\ apps[a].status = "published"
        /\ store[a].config = Sanitize(Serving(a))
    /\ store[a].id = 0 <=> store[a] = NoEntry

\* A request that could be asked for now, or does not write what matters.
Current(r, a) ==
    \/ /\ r.kind \in {"save", "fallback", "mark"}
       /\ DOMAIN r.set \subseteq {"draft", "source"}
    \/ r \in Publish(a) \cup CancelPublish(a) \cup SetPublic(a)
              \cup SetPrivate(a)

Asking(a) == {q \in Reqs : req[q].app = a}

Unmet(a) ==
    /\ Tells(a) /\ Shows(a)
    /\ \A p, q \in Asking(a) : p = q
    /\ \A q \in Asking(a) : Current(req[q], a)

IInv ==
    /\ Typing
    /\ Owners
    /\ \A a \in Ids \ met : Unmet(a)

-----------------------------------------------------------------------------
(* Rows and what is written to them.                                       *)

Columns == {"owner", "status", "current", "token", "draft", "source"}

LEMMA RowFields ==
    ASSUME NEW row \in RowType
    PROVE  /\ DOMAIN row = Columns
           /\ row["owner"] = row.owner /\ row["status"] = row.status
           /\ row["current"] = row.current /\ row["token"] = row.token
           /\ row["draft"] = row.draft /\ row["source"] = row.source
           /\ row.owner \in People /\ row.status \in {"draft", "published"}
           /\ row.current \in Nat /\ row.token \in {"yes", "no"}
           /\ row.draft \subseteq AnyRef /\ row.source \in Nat
  BY DEF RowType, Columns

LEMMA GoneIsRow == Gone \in RowType
  BY DEF Gone, Row, RowType, People

\* A row is flushed column by column, and its owner stays.
LEMMA FlushRow ==
    ASSUME NEW row \in RowType, NEW set, SetType(set)
    PROVE  /\ Flush(row, set) \in RowType
           /\ Flush(row, set).owner = row.owner
           /\ Flush(row, set).status =
                 IF "status" \in DOMAIN set THEN set["status"] ELSE row.status
           /\ Flush(row, set).current =
                 IF "current" \in DOMAIN set THEN 0 ELSE row.current
           /\ Flush(row, set).token =
                 IF "token" \in DOMAIN set THEN set["token"] ELSE row.token
           /\ Flush(row, set).draft =
                 IF "draft" \in DOMAIN set THEN set["draft"] ELSE row.draft
<1> DEFINE f == Flush(row, set)
<1>1. f = [c \in Columns |-> IF c \in DOMAIN set THEN set[c] ELSE row[c]]
  BY RowFields DEF Flush
<1>2. /\ f["owner"] = row.owner
      /\ f["status"] =
            IF "status" \in DOMAIN set THEN set["status"] ELSE row.status
      /\ f["current"] =
            IF "current" \in DOMAIN set THEN 0 ELSE row.current
      /\ f["token"] =
            IF "token" \in DOMAIN set THEN set["token"] ELSE row.token
      /\ f["draft"] =
            IF "draft" \in DOMAIN set THEN set["draft"] ELSE row.draft
      /\ f["source"] =
            IF "source" \in DOMAIN set THEN set["source"] ELSE row.source
  BY <1>1, RowFields DEF SetType, Columns
<1> HIDE DEF f
<1>3. /\ f["owner"] \in People /\ f["status"] \in {"draft", "published"}
      /\ f["current"] \in Nat /\ f["token"] \in {"yes", "no"}
      /\ f["draft"] \subseteq AnyRef /\ f["source"] \in Nat
  BY <1>2, RowFields DEF SetType
<1>4. f \in RowType
  BY <1>1, <1>3 DEF RowType, Columns
<1> QED
  BY <1>2, <1>4, RowFields DEF f

\* What is written turns the row that was read into the new one.
LEMMA ChangesOfRow ==
    ASSUME NEW view \in RowType, NEW new \in RowType,
           new.owner = view.owner, new.current \in {0, view.current}
    PROVE  /\ SetType(Changes(view, new))
           /\ DOMAIN Changes(view, new) = {c \in Columns : new[c] # view[c]}
           /\ \A c \in DOMAIN Changes(view, new) :
                 Changes(view, new)[c] = new[c]
           /\ Flush(view, Changes(view, new)) = new
<1> DEFINE s == Changes(view, new)
<1>1. s = [c \in {x \in Columns : new[x] # view[x]} |-> new[c]]
  BY RowFields DEF Changes
<1>2. /\ DOMAIN s = {c \in Columns : new[c] # view[c]}
      /\ \A c \in DOMAIN s : s[c] = new[c]
  BY <1>1
<1>3. SetType(s)
  BY <1>2, RowFields DEF SetType, Columns
<1>4. Flush(view, s) = [c \in Columns |-> new[c]]
  BY <1>2, RowFields DEF Flush
<1>5. new = [c \in Columns |-> new[c]]
  BY RowFields DEF RowType
<1> QED
  BY <1>2, <1>3, <1>4, <1>5

-----------------------------------------------------------------------------
(* Versions.                                                               *)

\* A finite set of numbers has a greatest: one with the fewest above it.
LEMMA Greatest ==
    ASSUME NEW S \in SUBSET Nat, IsFiniteSet(S), S # {}
    PROVE  Max(S) \in S /\ \A x \in S : Max(S) >= x
<1> DEFINE Above(x) == {y \in S : y >= x}
           T == {Above(x) : x \in S}
<1>1. IsWellFoundedOn(StrictSubsetOrdering(S), SUBSET S)
  BY FS_StrictSubsetOrderingWellFounded, FS_FiniteSubsetsOfFinite
<1>2. T \subseteq SUBSET S /\ T # {}
  OBVIOUS
<1>3. PICK A \in T : \A B \in T : <<B, A>> \notin StrictSubsetOrdering(S)
  <2> HIDE DEF T
  <2> QED
    BY <1>1, <1>2, WFMin
<1>4. PICK x \in S : A = Above(x)
  BY <1>3
<1>5. \A y \in S : x >= y
  <2> SUFFICES ASSUME NEW y \in S, y > x PROVE FALSE
    OBVIOUS
  <2> HIDE DEF T
  <2>1. Above(y) \subseteq Above(x) /\ x \in Above(x) /\ x \notin Above(y)
    <3>1. x \in Nat /\ y \in Nat /\ \A z \in S : z \in Nat
      OBVIOUS
    <3>2. \A z \in S : z >= y => z >= x
      BY <3>1
    <3>3. x >= x /\ ~(x >= y)
      BY <3>1
    <3> QED
      BY <3>2, <3>3, Zenon
  <2>2. <<Above(y), A>> \in StrictSubsetOrdering(S)
    BY <1>4, <2>1 DEF StrictSubsetOrdering
  <2>3. Above(y) \in T
    BY DEF T
  <2> QED
    BY <1>3, <2>2, <2>3
<1> QED
  BY <1>5 DEF Max

LEMMA VersionsFinite ==
    ASSUME NEW h \in Seq(VersionType)
    PROVE  /\ IsFiniteSet({0} \cup {h[i].version : i \in DOMAIN h})
           /\ {0} \cup {h[i].version : i \in DOMAIN h} \subseteq Nat
<1> DEFINE f == [i \in 1 .. Len(h) |-> h[i].version]
           T == {h[i].version : i \in DOMAIN h}
<1>1. /\ Len(h) \in Nat /\ DOMAIN h = 1 .. Len(h)
      /\ \A i \in DOMAIN h : h[i] \in VersionType
  BY LenProperties
<1>2. f \in Surjection(1 .. Len(h), T)
  BY <1>1 DEF Surjection
<1>3. IsFiniteSet(T)
  BY <1>1, <1>2, FS_Interval, FS_Surjection
<1>4. IsFiniteSet({0} \cup T)
  <2>1. {0} \cup T = T \cup {0}
    OBVIOUS
  <2> HIDE DEF T
  <2> QED
    BY <1>3, <2>1, FS_AddElement
<1> QED
  BY <1>1, <1>4 DEF VersionType

\* The next number is one, and the next of a history without gaps its length.
LEMMA NumberOfNext ==
    ASSUME NEW h \in Seq(VersionType)
    PROVE  /\ NextVersion(h) \in Nat
           /\ (\A i \in DOMAIN h : h[i].version = i) =>
                 NextVersion(h) = Len(h) + 1
<1> DEFINE S == {0} \cup {h[i].version : i \in DOMAIN h}
<1>1. S \in SUBSET Nat /\ IsFiniteSet(S) /\ S # {}
  BY VersionsFinite
<1>2. Max(S) \in S /\ \A x \in S : Max(S) >= x
  <2> HIDE DEF S
  <2> QED
    BY <1>1, Greatest
<1>3. NextVersion(h) = Max(S) + 1
  BY DEF NextVersion
<1>4. (\A i \in DOMAIN h : h[i].version = i) => Max(S) = Len(h)
  <2> SUFFICES ASSUME \A i \in DOMAIN h : h[i].version = i
               PROVE  Max(S) = Len(h)
    OBVIOUS
  <2>1. Len(h) \in Nat /\ DOMAIN h = 1 .. Len(h)
    BY LenProperties
  <2>2. S = 0 .. Len(h)
    BY <2>1
  <2> HIDE DEF S
  <2> QED
    BY <1>2, <2>1, <2>2
<1> QED
  BY <1>1, <1>2, <1>3, <1>4

-----------------------------------------------------------------------------
(* References.                                                             *)

LEMMA TypesHold ==
    ASSUME Typing
    PROVE  /\ \A a \in Ids : /\ apps[a] \in RowType
                             /\ hist[a] \in Seq(VersionType)
                             /\ Len(hist[a]) \in Nat
                             /\ DOMAIN hist[a] = 1 .. Len(hist[a])
                             /\ \A i \in DOMAIN hist[a] :
                                   /\ hist[a][i].version \in Nat
                                   /\ hist[a][i].config \subseteq AnyRef
                             /\ store[a].id \in Nat
                             /\ store[a].config \subseteq AnyRef
           /\ Len(tools) \in Nat /\ DOMAIN tools = 1 .. Len(tools)
           /\ \A t \in DOMAIN tools : tools[t] \in Users
           /\ MaxApps \in Nat /\ Ids \subseteq Nat
           /\ made.apps \in Nat /\ made.entries \in Nat
<1>1. \A a \in Ids : /\ apps[a] \in RowType
                     /\ hist[a] \in Seq(VersionType)
                     /\ store[a] \in EntryType
  BY DEF Typing
<1>2. ASSUME NEW a \in Ids
      PROVE  /\ Len(hist[a]) \in Nat
             /\ DOMAIN hist[a] = 1 .. Len(hist[a])
             /\ \A i \in DOMAIN hist[a] : hist[a][i] \in VersionType
  BY <1>1, LenProperties
<1>3. /\ Len(tools) \in Nat /\ DOMAIN tools = 1 .. Len(tools)
      /\ \A t \in DOMAIN tools : tools[t] \in Users
  BY LenProperties DEF Typing
<1>4. MaxApps \in Nat /\ Ids \subseteq Nat
  BY BoundsAssumption DEF Ids
<1>5. made.apps \in Nat /\ made.entries \in Nat
  BY BoundsAssumption DEF Typing, MadeType
<1> QED
  BY <1>1, <1>2, <1>3, <1>4, <1>5 DEF VersionType, EntryType

LEMMA BuiltinRef ==
    /\ Builtin \in AnyRef /\ Genuine(Builtin) /\ Builtin.of = "nobody"
    /\ Builtin.type = "builtin_tool"
  BY DEF Builtin, AnyRef, People, Genuine

\* Whatever a client may send is a reference, and a plugin's tool is whose it
\* says.
LEMMA SentRefs ==
    ASSUME Typing, Owners, NEW r \in Sendable
    PROVE  r \in AnyRef /\ Genuine(r)
<1>1. CASE r = Builtin
  BY <1>1, BuiltinRef
<1>2. ASSUME NEW u \in Users, r = Dataset(u)
      PROVE  r \in AnyRef /\ Genuine(r)
  BY <1>2 DEF Dataset, AnyRef, People, Genuine
<1>3. ASSUME NEW t \in PluginTools, r = ApiTool(t)
      PROVE  r \in AnyRef /\ Genuine(r)
  <2>1. t \in DOMAIN tools
    BY <1>3 DEF PluginTools, Owners
  <2>2. t \in Nat /\ tools[t] \in Users
    BY <2>1, TypesHold
  <2> QED
    BY <1>3, <2>1, <2>2 DEF ApiTool, AnyRef, People, Genuine
<1> QED
  BY <1>1, <1>2, <1>3 DEF Sendable

\* A draft that passes the validation holds only what is the user's own.
LEMMA ValidatedHolds ==
    ASSUME Typing, Owners, NEW u \in Users, NEW config \in Validated(u)
    PROVE  config \subseteq AnyRef /\ Holds(u, config)
<1>1. PICK sent \in SUBSET Sendable :
         config = Cleaned(u, sent) /\ Accepted(u, sent)
  BY DEF Validated
<1>2. \A r \in config : r \in sent /\ (r.type = "dataset" => r.of = u)
  BY <1>1 DEF Cleaned
<1>3. \A r \in config : r.type = "api_tool" => r.of = u
  BY <1>1, <1>2 DEF Accepted, Takes, OwnTool
<1>4. \A r \in config : r \in AnyRef /\ Genuine(r)
  BY <1>2, SentRefs
<1>5. \A r \in config : r.of \in {u, "nobody"}
  BY <1>2, <1>3, <1>4 DEF AnyRef, Genuine, Builtin, Dataset
<1> QED
  BY <1>4, <1>5 DEF Holds

\* What is left for the store belongs to nobody.
LEMMA SanitizedHolds ==
    ASSUME NEW config \in SUBSET AnyRef, \A r \in config : Genuine(r)
    PROVE  /\ Sanitize(config) \subseteq AnyRef
           /\ \A r \in Sanitize(config) : r.of = "nobody" /\ Genuine(r)
           /\ \A u : Holds(u, Sanitize(config))
  BY DEF Sanitize, Genuine, Holds

-----------------------------------------------------------------------------
(* What is asked.                                                          *)

LEMMA Asking1 ==
    ASSUME NEW kind, NEW a, NEW set
    PROVE  /\ Asks(kind, a, set).kind = kind /\ Asks(kind, a, set).app = a
           /\ Asks(kind, a, set).set = set /\ Asks(kind, a, set).version = 0
           /\ Asks(kind, a, set).config = {} /\ Asks(kind, a, set).entry = 0
  BY DEF Asks, NoReq

\* A new draft of the same owner.
LEMMA RedraftFacts ==
    ASSUME Typing, NEW a \in Ids, NEW kind \in {"save", "fallback"},
           NEW config \in SUBSET AnyRef, apps[a] # Gone,
           Holds(apps[a].owner, config), a \in 1 .. made.apps,
           NEW r, r = Redraft(kind, a, config)
    PROVE  ReqType(r) /\ r.app = a /\ Honest(r) /\ Current(r, a)
<1> DEFINE view == apps[a]
           new == [view EXCEPT !.draft = config]
           set == Changes(view, new)
<1>1. view \in RowType
  BY TypesHold
<1>2. /\ new \in RowType /\ new.owner = view.owner
      /\ new.current = view.current /\ new.draft = config
      /\ \A c \in Columns : c # "draft" => new[c] = view[c]
  BY <1>1 DEF RowType, Columns
<1>3. /\ SetType(set) /\ DOMAIN set \subseteq {"draft"}
      /\ "draft" \in DOMAIN set => set["draft"] = config
  <2>1. /\ SetType(set)
        /\ DOMAIN set = {c \in Columns : new[c] # view[c]}
        /\ \A c \in DOMAIN set : set[c] = new[c]
    BY <1>1, <1>2, ChangesOfRow
  <2>2. new["draft"] = config
    BY <1>2, RowFields
  <2> QED
    BY <1>2, <2>1, <2>2
<1>4. /\ r.kind = kind /\ r.app = a /\ r.set = set
      /\ r.version = 0 /\ r.config = {} /\ r.entry = 0
  BY Asking1 DEF Redraft
<1> HIDE DEF set, new
<1>5. ReqType(r)
  BY <1>3, <1>4, TypesHold DEF ReqType, Kinds
<1>6. Honest(r)
  BY <1>3, <1>4 DEF Honest, Holds
<1>7. Current(r, a)
  BY <1>3, <1>4 DEF Current
<1> QED
  BY <1>4, <1>5, <1>6, <1>7

LEMMA RenewedId ==
    ASSUME Typing, NEW a \in Ids, NEW config
    PROVE  Renewed(a, config) \in Nat
  BY TypesHold DEF Renewed

\* The columns of a publication and of a withdrawal.
LEMMA PublishFacts ==
    ASSUME Typing, NEW a \in Ids, NEW r \in Publish(a)
    PROVE  /\ r.kind = "publish" /\ r.app = a /\ SetType(r.set)
           /\ "draft" \notin DOMAIN r.set /\ "current" \notin DOMAIN r.set
           /\ Flush(apps[a], r.set).status = "published"
           /\ Flush(apps[a], r.set).token = "yes"
           /\ r.version = NextVersion(hist[a]) /\ r.config = apps[a].draft
           /\ r.entry = Renewed(a, apps[a].draft)
<1> DEFINE view == apps[a]
           new == [view EXCEPT !.status = "published", !.token = "yes"]
           set == Changes(view, new)
<1>1. view \in RowType
  BY TypesHold
<1>2. /\ new \in RowType /\ new.owner = view.owner
      /\ new.current = view.current
      /\ new.status = "published" /\ new.token = "yes"
      /\ new["draft"] = view["draft"] /\ new["current"] = view["current"]
  BY <1>1 DEF RowType
<1>3. /\ SetType(set) /\ Flush(view, set) = new
      /\ DOMAIN set = {c \in Columns : new[c] # view[c]}
  BY <1>1, <1>2, ChangesOfRow
<1>4. /\ r.kind = "publish" /\ r.app = a /\ r.set = set
      /\ r.version = NextVersion(hist[a]) /\ r.config = view.draft
      /\ r.entry = Renewed(a, view.draft)
  BY DEF Publish, Asks, NoReq
<1> HIDE DEF set, new
<1> QED
  BY <1>2, <1>3, <1>4

LEMMA CancelFacts ==
    ASSUME Typing, NEW a \in Ids, NEW r \in CancelPublish(a)
    PROVE  /\ r.kind = "cancel" /\ r.app = a /\ SetType(r.set)
           /\ "draft" \notin DOMAIN r.set /\ r.set # <<>>
           /\ Flush(apps[a], r.set).status = "draft"
           /\ Flush(apps[a], r.set).token = "no"
           /\ Flush(apps[a], r.set).current = 0
           /\ r.version = 0 /\ r.config = {} /\ r.entry = 0
<1> DEFINE view == apps[a]
           new == [view EXCEPT !.status = "draft", !.current = 0,
                               !.token = "no"]
           set == Changes(view, new)
<1>1. view \in RowType /\ view.status = "published"
  BY TypesHold DEF CancelPublish
<1>2. /\ new \in RowType /\ new.owner = view.owner
      /\ new.current = 0 /\ new.status = "draft" /\ new.token = "no"
      /\ new["draft"] = view["draft"]
  BY <1>1 DEF RowType
<1>3. /\ SetType(set) /\ Flush(view, set) = new
      /\ DOMAIN set = {c \in Columns : new[c] # view[c]}
  BY <1>1, <1>2, ChangesOfRow
<1>4. new["status"] # view["status"]
  BY <1>1, <1>2, RowFields
<1>5. r = Asks("cancel", a, set)
  BY <1>1 DEF CancelPublish
<1>6. /\ r.kind = "cancel" /\ r.app = a /\ r.set = set
      /\ r.version = 0 /\ r.config = {} /\ r.entry = 0
  BY <1>5, Asking1
<1> HIDE DEF set, new
<1>7. "status" \in DOMAIN set
  BY <1>3, <1>4 DEF Columns
<1>8. set # <<>>
  BY <1>7
<1> QED
  BY <1>2, <1>3, <1>6, <1>8

LEMMA ListingFacts ==
    ASSUME Typing, NEW a \in Ids, NEW r \in SetPublic(a)
    PROVE  /\ r.kind = IF store[a] = NoEntry THEN "list" ELSE "relist"
           /\ r.app = a /\ r.set = <<>> /\ r.version = 0
           /\ apps[a].status = "published" /\ apps[a].current # 0
           /\ r.config = Serving(a) /\ r.entry = Renewed(a, Serving(a))
  BY DEF SetPublic, NoReq

LEMMA DelistingFacts ==
    ASSUME Typing, NEW a \in Ids, NEW r \in SetPrivate(a)
    PROVE  /\ r.kind = "delist" /\ r.app = a /\ r.set = <<>>
           /\ r.version = 0 /\ r.config = {} /\ r.entry = store[a].id
  BY DEF SetPrivate, NoReq

LEMMA EmptySet == SetType(<<>>) /\ DOMAIN <<>> = {}
  BY EmptySeq DEF SetType

\* What an owner can ask for is well-formed, his own, and could be asked now.
LEMMA AskedFacts ==
    ASSUME Typing, Owners, NEW u \in Users, NEW a \in Ids,
           NEW r \in Asked(u, a)
    PROVE  ReqType(r) /\ r.app = a /\ Honest(r) /\ Current(r, a)
<1>1. apps[a].owner = u /\ apps[a] # Gone /\ OwnRow(a)
  BY NobodyAssumption DEF Asked, Owns, Gone, Row, Owners
<1>2. a \in 1 .. made.apps /\ a # 0
  BY <1>1, TypesHold DEF OwnRow, Ids
<1>3. /\ Holds(u, apps[a].draft) /\ apps[a].draft \subseteq AnyRef
      /\ \A i \in DOMAIN hist[a] : /\ Holds(u, hist[a][i].config)
                                   /\ hist[a][i].config \subseteq AnyRef
  BY <1>1, TypesHold, RowFields DEF OwnRow
<1>4. CASE r \in SaveDraft(u, a)
  <2>1. PICK config \in Validated(u) : r = Redraft("save", a, config)
    BY <1>4 DEF SaveDraft
  <2> QED
    BY <1>1, <1>2, <2>1, ValidatedHolds, RedraftFacts
<1>5. CASE r \in Fallback(a)
  <2>1. PICK i \in DOMAIN hist[a] :
           r = Redraft("fallback", a, hist[a][i].config)
    BY <1>5 DEF Fallback
  <2> QED
    BY <1>1, <1>2, <1>3, <2>1, RedraftFacts
<1>6. CASE r \in Publish(a)
  <2>1. /\ r.kind = "publish" /\ r.app = a /\ SetType(r.set)
        /\ "draft" \notin DOMAIN r.set
        /\ r.version = NextVersion(hist[a]) /\ r.config = apps[a].draft
        /\ r.entry = Renewed(a, apps[a].draft)
    BY <1>6, PublishFacts
  <2>2. r.version \in Nat /\ r.entry \in Nat
    BY <2>1, TypesHold, NumberOfNext, RenewedId
  <2>3. ReqType(r)
    BY <1>2, <1>3, <2>1, <2>2 DEF ReqType, Kinds
  <2>4. Honest(r)
    BY <1>1, <1>2, <1>3, <2>1 DEF Honest, Holds
  <2> QED
    BY <1>6, <2>1, <2>3, <2>4 DEF Current
<1>7. CASE r \in CancelPublish(a)
  <2>1. /\ r.kind = "cancel" /\ r.app = a /\ SetType(r.set)
        /\ "draft" \notin DOMAIN r.set
        /\ r.version = 0 /\ r.config = {} /\ r.entry = 0
    BY <1>7, CancelFacts
  <2>2. ReqType(r)
    BY <1>2, <2>1 DEF ReqType, Kinds
  <2>3. Honest(r)
    BY <1>2, <2>1 DEF Honest, Holds
  <2> QED
    BY <1>7, <2>1, <2>2, <2>3 DEF Current
<1>8. CASE r \in SetPublic(a)
  <2>1. /\ r.kind \in {"list", "relist"} /\ r.app = a /\ r.set = <<>>
        /\ r.version = 0 /\ r.config = Serving(a)
        /\ r.entry = Renewed(a, Serving(a)) /\ apps[a].current # 0
    BY <1>8, ListingFacts
  <2>2. apps[a].current \in DOMAIN hist[a]
    BY <1>1, <2>1, TypesHold DEF OwnRow
  <2>3. r.config \subseteq AnyRef /\ Holds(u, r.config)
    BY <1>3, <2>1, <2>2 DEF Serving
  <2>4. r.entry \in Nat
    BY <2>1, RenewedId
  <2>5. ReqType(r)
    BY <1>2, <2>1, <2>3, <2>4, EmptySet DEF ReqType, Kinds
  <2>6. Honest(r)
    BY <1>1, <1>2, <2>1, <2>3, EmptySet DEF Honest, Holds
  <2> QED
    BY <1>8, <2>1, <2>5, <2>6 DEF Current
<1>9. CASE r \in SetPrivate(a)
  <2>1. /\ r.kind = "delist" /\ r.app = a /\ r.set = <<>>
        /\ r.version = 0 /\ r.config = {} /\ r.entry = store[a].id
    BY <1>9, DelistingFacts
  <2>2. ReqType(r)
    BY <1>2, <2>1, TypesHold, EmptySet DEF ReqType, Kinds
  <2>3. Honest(r)
    BY <1>2, <2>1, EmptySet DEF Honest, Holds
  <2> QED
    BY <1>9, <2>1, <2>2, <2>3 DEF Current
<1> QED
  BY <1>4, <1>5, <1>6, <1>7, <1>8, <1>9 DEF Asked

-----------------------------------------------------------------------------
(* What a commit leaves.                                                   *)

\* Rows of others are left alone, and every row keeps its owner.
RowStep(a) ==
    /\ apps' \in [Ids -> RowType]
    /\ \A b \in Ids : b # a => apps'[b] = apps[b]
    /\ apps'[a].owner = apps[a].owner
    /\ apps[a] = Gone => apps'[a] = Gone

LEMMA SameRows ==
    ASSUME Typing, UNCHANGED apps, NEW a
    PROVE  RowStep(a)
  BY DEF RowStep, Typing

\* Columns are written to a row that is there.
LEMMA RowWritten ==
    ASSUME Typing, Owners, NEW r, ReqType(r), Honest(r), r.kind # "none",
           Written(r)
    PROVE  /\ RowStep(r.app)
           /\ apps'[r.app].current \in {apps[r.app].current, 0}
           /\ Holds(apps[r.app].owner, apps'[r.app].draft)
<1> DEFINE a == r.app
<1>1. a \in Ids /\ OwnRow(a)
  BY DEF ReqType, Owners
<1>2. /\ apps[a] \in RowType /\ apps \in [Ids -> RowType]
      /\ Holds(apps[a].owner, apps[a].draft)
  BY <1>1, TypesHold DEF Typing, OwnRow
<1>3. CASE r.set = <<>>
  BY <1>2, <1>3, SameRows DEF Written
<1>4. CASE r.set # <<>>
  <2> DEFINE f == Flush(apps[a], r.set)
  <2>1. apps[a] # Gone /\ apps' = [apps EXCEPT ![a] = f]
    BY <1>4 DEF Written
  <2>2. /\ f \in RowType /\ f.owner = apps[a].owner
        /\ f.current \in {apps[a].current, 0}
        /\ f.draft = IF "draft" \in DOMAIN r.set THEN r.set["draft"]
                     ELSE apps[a].draft
    BY <1>2, FlushRow DEF ReqType
  <2>3. Holds(apps[a].owner, f.draft)
    BY <1>2, <2>1, <2>2 DEF Honest
  <2> HIDE DEF f
  <2> QED
    BY <1>1, <1>2, <2>1, <2>2, <2>3 DEF RowStep
<1> QED
  BY <1>3, <1>4

\* Entries of others are left alone.
StoreStep(a) ==
    /\ store' \in [Ids -> EntryType]
    /\ \A b \in Ids : b # a => store'[b] = store[b]
    /\ \A r \in store'[a].config : r.of = "nobody" /\ Genuine(r)

LEMMA SameEntries ==
    ASSUME Typing, Owners, UNCHANGED store, NEW a \in Ids
    PROVE  StoreStep(a)
  BY DEF StoreStep, Typing, Owners, OwnRow

LEMMA EntryRemoved ==
    ASSUME Typing, NEW a \in Ids, store' = [store EXCEPT ![a] = NoEntry]
    PROVE  StoreStep(a)
  BY DEF StoreStep, Typing, EntryType, NoEntry, Entry

LEMMA EntryRefreshed ==
    ASSUME Typing, Owners, NEW r, ReqType(r), Honest(r), r.kind # "none",
           Refreshed(r)
    PROVE  StoreStep(r.app)
<1> DEFINE a == r.app
           s == Sanitize(r.config)
<1>1. a \in Ids /\ OwnRow(a)
  BY DEF ReqType, Owners
<1>2. s \subseteq AnyRef /\ \A x \in s : x.of = "nobody" /\ Genuine(x)
  BY SanitizedHolds DEF Honest, ReqType
<1>3. CASE r.entry = 0
  BY <1>1, <1>3, SameEntries DEF Refreshed
<1>4. CASE r.entry # 0
  <2>1. store' = [store EXCEPT ![a].config = s]
    BY <1>4 DEF Refreshed
  <2> HIDE DEF s
  <2> QED
    BY <1>1, <1>2, <2>1 DEF StoreStep, Typing, EntryType
<1> QED
  BY <1>3, <1>4

LEMMA MadeStep ==
    ASSUME made \in MadeType,
           \/ made.saves < MaxSaves /\ made' = [made EXCEPT !.saves = @ + 1]
           \/ /\ made.versions < MaxVersions
              /\ made' = [made EXCEPT !.versions = @ + 1]
           \/ /\ made.entries < MaxEntries
              /\ made' = [made EXCEPT !.entries = @ + 1]
           \/ made' = made
    PROVE  made' \in MadeType /\ made'.apps = made.apps
  BY BoundsAssumption DEF MadeType

\* Histories of others are left alone, this one may grow by what is its own.
HistStep(a) ==
    /\ hist' \in [Ids -> Seq(VersionType)]
    /\ \A b \in Ids : b # a => hist'[b] = hist[b]
    /\ apps[a] = Gone => hist'[a] = hist[a]
    /\ apps'[a].current \in 0..Len(hist'[a])
    /\ \A i \in DOMAIN hist'[a] : Holds(apps[a].owner, hist'[a][i].config)

LEMMA SameHistory ==
    ASSUME Typing, Owners, NEW a \in Ids, UNCHANGED hist,
           apps'[a].current \in {apps[a].current, 0}
    PROVE  HistStep(a)
<1>1. OwnRow(a) /\ Len(hist[a]) \in Nat
  BY TypesHold DEF Owners
<1> QED
  BY <1>1 DEF HistStep, Typing, OwnRow

\* A publication adds what the draft was, and points to it.
LEMMA PublishedRow ==
    ASSUME Typing, Owners, NEW r, ReqType(r), Honest(r), r.kind # "none",
           Published(r)
    PROVE  /\ RowStep(r.app) /\ HistStep(r.app)
           /\ Holds(apps[r.app].owner, apps'[r.app].draft)
           /\ hist'[r.app] =
                 Append(hist[r.app], Version(r.version, r.config))
           /\ apps'[r.app].status = Flush(apps[r.app], r.set).status
           /\ apps'[r.app].token = Flush(apps[r.app], r.set).token
           /\ apps'[r.app].current = Len(hist[r.app]) + 1
<1> DEFINE a == r.app
           f == Flush(apps[a], r.set)
           g == [f EXCEPT !.current = Len(hist[a]) + 1]
           v == Version(r.version, r.config)
<1>1. a \in Ids /\ OwnRow(a)
  BY DEF ReqType, Owners
<1>2. /\ apps[a] \in RowType /\ apps \in [Ids -> RowType]
      /\ hist[a] \in Seq(VersionType) /\ hist \in [Ids -> Seq(VersionType)]
      /\ Len(hist[a]) \in Nat /\ DOMAIN hist[a] = 1 .. Len(hist[a])
      /\ Holds(apps[a].owner, apps[a].draft)
  BY <1>1, TypesHold DEF Typing, OwnRow
<1>3. /\ apps[a] # Gone
      /\ apps' = [apps EXCEPT ![a] = g]
      /\ hist' = [hist EXCEPT ![a] = Append(@, v)]
  BY DEF Published
<1>4. /\ f \in RowType /\ f.owner = apps[a].owner
      /\ f.draft = IF "draft" \in DOMAIN r.set THEN r.set["draft"]
                   ELSE apps[a].draft
  BY <1>2, FlushRow DEF ReqType
<1> HIDE DEF f
<1>5. /\ g \in RowType /\ g.owner = apps[a].owner /\ g.draft = f.draft
      /\ g.status = f.status /\ g.token = f.token
      /\ g.current = Len(hist[a]) + 1
  <2>1. Len(hist[a]) + 1 \in Nat
    BY <1>2
  <2> DEFINE n == Len(hist[a]) + 1
  <2> HIDE DEF n
  <2>2. n \in Nat /\ g = [f EXCEPT !.current = n]
    BY <2>1 DEF n
  <2>3. /\ g \in RowType /\ g.owner = f.owner /\ g.draft = f.draft
        /\ g.status = f.status /\ g.token = f.token /\ g.current = n
    BY <1>4, <2>2 DEF RowType
  <2> QED
    BY <1>4, <2>3 DEF n
<1> HIDE DEF g
<1>6. v \in VersionType /\ v.config = r.config
  BY DEF Version, VersionType, ReqType
<1> HIDE DEF v
<1>7. /\ Append(hist[a], v) \in Seq(VersionType)
      /\ Len(Append(hist[a], v)) = Len(hist[a]) + 1
      /\ \A i \in 1 .. Len(hist[a]) : Append(hist[a], v)[i] = hist[a][i]
      /\ Append(hist[a], v)[Len(hist[a]) + 1] = v
  BY <1>2, <1>6, AppendProperties
<1>8. DOMAIN Append(hist[a], v) = 1 .. Len(hist[a]) + 1
  BY <1>7, LenProperties
<1>9. RowStep(a) /\ apps'[a] = g
  BY <1>1, <1>2, <1>3, <1>5 DEF RowStep
<1>10. hist'[a] = Append(hist[a], v)
  BY <1>1, <1>2, <1>3
<1>11. Holds(apps[a].owner, f.draft) /\ Holds(apps[a].owner, r.config)
  BY <1>2, <1>3, <1>4 DEF Honest
<1>12. ASSUME NEW i \in DOMAIN hist'[a]
       PROVE  Holds(apps[a].owner, hist'[a][i].config)
  <2>1. CASE i \in DOMAIN hist[a]
    BY <1>1, <1>2, <1>7, <1>10, <2>1 DEF OwnRow
  <2>2. CASE i = Len(hist[a]) + 1
    BY <1>6, <1>7, <1>10, <1>11, <2>2
  <2> QED
    BY <1>2, <1>8, <1>10, <1>12, <2>1, <2>2
<1>13. hist' \in [Ids -> Seq(VersionType)]
  BY <1>2, <1>3, <1>7
<1>14. \A b \in Ids : b # a => hist'[b] = hist[b]
  BY <1>2, <1>3
<1>15. apps'[a].current \in 0 .. Len(hist'[a])
  BY <1>2, <1>5, <1>7, <1>9, <1>10
<1>16. HistStep(a)
  BY <1>3, <1>12, <1>13, <1>14, <1>15 DEF HistStep
<1> QED
  BY <1>5, <1>9, <1>10, <1>11, <1>16 DEF f, v

LEMMA DoneStep ==
    ASSUME Typing, Owners, NEW r, ReqType(r), Honest(r), Done(r)
    PROVE  /\ RowStep(r.app) /\ StoreStep(r.app) /\ HistStep(r.app)
           /\ Holds(apps[r.app].owner, apps'[r.app].draft)
           /\ made' \in MadeType /\ made'.apps = made.apps
<1> DEFINE a == r.app
<1>1. r.kind # "none"
  BY DEF Done
<1>2. a \in Ids /\ OwnRow(a) /\ made \in MadeType
  BY <1>1 DEF ReqType, Owners, Typing
<1>3. Holds(apps[a].owner, apps[a].draft)
  BY <1>2 DEF OwnRow
<1>4. CASE Written(r) /\ UNCHANGED <<hist, store>> /\ made' \in MadeType
           /\ made'.apps = made.apps
  BY <1>1, <1>2, <1>4, RowWritten, SameEntries, SameHistory
<1>5. CASE r.kind = "save" /\ Saved(r)
  <2>1. made' \in MadeType /\ made'.apps = made.apps
    BY <1>2, <1>5, MadeStep DEF Saved
  <2> QED
    BY <1>4, <1>5, <2>1 DEF Saved
<1>6. CASE r.kind \in {"fallback", "mark"} /\ Rewritten(r)
  BY <1>2, <1>4, <1>6, MadeStep DEF Rewritten
<1>7. CASE r.kind = "publish" /\ Published(r)
  <2>1. StoreStep(a)
    BY <1>1, <1>7, EntryRefreshed DEF Published
  <2>2. made' \in MadeType /\ made'.apps = made.apps
    BY <1>2, <1>7, MadeStep DEF Published
  <2> QED
    BY <1>1, <1>7, <2>1, <2>2, PublishedRow
<1>8. CASE r.kind = "cancel" /\ Cancelled(r)
  <2>1. StoreStep(a)
    BY <1>2, <1>8, EntryRemoved DEF Cancelled
  <2>2. HistStep(a) /\ RowStep(a)
        /\ Holds(apps[a].owner, apps'[a].draft)
    BY <1>1, <1>2, <1>8, RowWritten, SameHistory DEF Cancelled
  <2>3. made' \in MadeType /\ made'.apps = made.apps
    BY <1>2, <1>8, MadeStep DEF Cancelled
  <2> QED
    BY <2>1, <2>2, <2>3
<1>9. CASE UNCHANGED <<apps, hist>> /\ StoreStep(a)
           /\ made' \in MadeType /\ made'.apps = made.apps
  BY <1>2, <1>3, <1>9, SameRows, SameHistory
<1>10. CASE r.kind = "list" /\ Listed(r)
  <2> DEFINE s == Sanitize(r.config)
             e == Entry(made.entries + 1, s)
  <2>1. s \subseteq AnyRef /\ \A x \in s : x.of = "nobody" /\ Genuine(x)
    BY SanitizedHolds DEF Honest, ReqType
  <2>2. e \in EntryType /\ e.config = s
    BY <2>1, TypesHold DEF Entry, EntryType
  <2>3. store' = [store EXCEPT ![a] = e]
    BY <1>10 DEF Listed
  <2> HIDE DEF e, s
  <2>4. StoreStep(a)
    BY <1>2, <2>1, <2>2, <2>3 DEF StoreStep, Typing
  <2>5. made' \in MadeType /\ made'.apps = made.apps
    BY <1>2, <1>10, MadeStep DEF Listed
  <2> QED
    BY <1>9, <1>10, <2>4, <2>5 DEF Listed
<1>11. CASE r.kind = "relist" /\ Relisted(r)
  <2>1. StoreStep(a)
    BY <1>1, <1>11, EntryRefreshed DEF Relisted
  <2> QED
    BY <1>2, <1>9, <1>11, <2>1, MadeStep DEF Relisted
<1>12. CASE r.kind = "delist" /\ Delisted(r)
  <2>1. StoreStep(a)
    BY <1>2, <1>12, EntryRemoved, SameEntries DEF Delisted
  <2> QED
    BY <1>2, <1>9, <1>12, <2>1, MadeStep DEF Delisted
<1> QED
  BY <1>5, <1>6, <1>7, <1>8, <1>10, <1>11, <1>12 DEF Done

-----------------------------------------------------------------------------
(* Owners.                                                                 *)

\* What every step leaves: a number that was given names the same row until
\* it is gone, and the same tool.
Keeps ==
    /\ made.apps <= made'.apps
    /\ \A a \in 1..made.apps :
          apps'[a] # Gone =>
             apps[a] # Gone /\ apps'[a].owner = apps[a].owner
    /\ \A t \in DOMAIN tools : t \in DOMAIN tools' /\ tools'[t] = tools[t]

LEMMA HoldsKept ==
    ASSUME Keeps, NEW u, NEW config, Holds(u, config)
    PROVE  \A r \in config : r.of \in {u, "nobody"} /\ Genuine(r)'
  BY DEF Keeps, Holds, Genuine

LEMMA HonestKept ==
    ASSUME Keeps, Typing, made'.apps \in Nat, NEW q, NEW r, req'[q] = r,
           Honest(r)
    PROVE  Honest(req[q])'
<1>1. r.kind # "none" => r.app \in 1 .. made.apps /\ r.app \in 1 .. made'.apps
  BY TypesHold DEF Honest, Keeps
<1>2. \A x \in r.config : Genuine(x)'
  BY DEF Honest, Keeps, Genuine
<1>3. ASSUME r.kind # "none", apps'[r.app] # Gone
      PROVE  /\ Holds(apps[r.app].owner, r.config)'
             /\ "draft" \in DOMAIN r.set =>
                   Holds(apps[r.app].owner, r.set["draft"])'
  <2>1. apps[r.app] # Gone /\ apps'[r.app].owner = apps[r.app].owner
    BY <1>1, <1>3 DEF Keeps
  <2>2. /\ Holds(apps[r.app].owner, r.config)
        /\ "draft" \in DOMAIN r.set =>
              Holds(apps[r.app].owner, r.set["draft"])
    BY <1>3, <2>1 DEF Honest
  <2> QED
    BY <2>1, <2>2, HoldsKept DEF Holds
<1> QED
  BY <1>1, <1>2, <1>3 DEF Honest

LEMMA RowKept ==
    ASSUME Keeps, Typing, made'.apps \in Nat, NEW a \in Ids, OwnRow(a),
           apps'[a] = apps[a], hist'[a] = hist[a], store'[a] = store[a]
    PROVE  OwnRow(a)'
<1>1. a > made'.apps => a > made.apps
  BY TypesHold DEF Keeps
<1>2. \A i \in DOMAIN hist[a] : Holds(apps[a].owner, hist[a][i].config)
  BY DEF OwnRow
<1>3. Holds(apps[a].owner, apps[a].draft)'
  BY HoldsKept DEF OwnRow, Holds
<1>4. \A i \in DOMAIN hist'[a] : Holds(apps[a].owner, hist[a][i].config)'
  BY <1>2, HoldsKept DEF Holds
<1>5. \A r \in store'[a].config : r.of = "nobody" /\ Genuine(r)'
  BY DEF OwnRow, Keeps, Genuine
<1> QED
  BY <1>1, <1>3, <1>4, <1>5 DEF OwnRow

LEMMA DoneOwn ==
    ASSUME Typing, Owners, NEW r, ReqType(r), Honest(r), Done(r),
           UNCHANGED <<tools, plugin>>
    PROVE  Keeps /\ \A b \in Ids : OwnRow(b)'
<1> DEFINE a == r.app
<1>1. /\ RowStep(a) /\ StoreStep(a) /\ HistStep(a)
      /\ Holds(apps[a].owner, apps'[a].draft)
      /\ made'.apps = made.apps
  BY DoneStep
<1>2. a \in Ids /\ OwnRow(a) /\ made.apps \in Nat /\ made.apps <= MaxApps
  BY TypesHold, BoundsAssumption
     DEF Done, ReqType, Owners, Typing, MadeType
<1>3. Keeps
  <2>1. \A b \in 1 .. made.apps : b \in Ids
    BY <1>2, TypesHold DEF Ids
  <2> QED
    BY <1>1, <1>2, <2>1 DEF Keeps, RowStep
<1>4. OwnRow(a)'
  <2>1. \A x : Genuine(x)' <=> Genuine(x)
    BY DEF Genuine
  <2>2. /\ apps'[a].owner = "nobody" =>
              apps'[a] = Gone /\ hist'[a] = <<>>
        /\ a > made'.apps => apps'[a] = Gone
    BY <1>1, <1>2 DEF OwnRow, RowStep, HistStep
  <2>3. Holds(apps[a].owner, apps[a].draft)'
    BY <1>1, <2>1 DEF RowStep, Holds
  <2>4. ASSUME NEW i \in DOMAIN hist'[a]
        PROVE  Holds(apps[a].owner, hist[a][i].config)'
    BY <1>1, <2>1 DEF RowStep, HistStep, Holds
  <2>5. \A x \in store'[a].config : x.of = "nobody" /\ Genuine(x)'
    BY <1>1, <2>1 DEF StoreStep
  <2> QED
    BY <1>1, <2>2, <2>3, <2>4, <2>5 DEF OwnRow, HistStep
<1>5. ASSUME NEW b \in Ids, b # a PROVE OwnRow(b)'
  <2>1. OwnRow(b) /\ apps'[b] = apps[b] /\ hist'[b] = hist[b]
        /\ store'[b] = store[b]
    BY <1>1, <1>5 DEF Owners, RowStep, HistStep, StoreStep
  <2> QED
    BY <1>1, <1>2, <1>3, <2>1, RowKept
<1> QED
  BY <1>3, <1>4, <1>5

-----------------------------------------------------------------------------
(* Histories and entries of applications that nobody has met on.           *)

LEMMA CurrentKept ==
    ASSUME NEW a, NEW r, Current(r, a), apps'[a] = apps[a],
           hist'[a] = hist[a], store'[a] = store[a], NEW q, req'[q] = r
    PROVE  Current(req[q], a)'
<1>1. /\ Publish(a)' = Publish(a) /\ CancelPublish(a)' = CancelPublish(a)
      /\ SetPublic(a)' = SetPublic(a) /\ SetPrivate(a)' = SetPrivate(a)
  BY DEF Publish, CancelPublish, SetPublic, SetPrivate, Renewed, Serving
<1> QED
  BY <1>1 DEF Current

LEMMA GoodKept ==
    ASSUME NEW a, Tells(a), Shows(a), apps'[a] = apps[a],
           hist'[a] = hist[a], store'[a] = store[a]
    PROVE  Tells(a)' /\ Shows(a)'
  BY DEF Tells, Shows, Serving

\* A request whose application has not been met on leaves its history told and
\* its entry current.
LEMMA GoodDone ==
    ASSUME Typing, Owners, NEW r, ReqType(r), Honest(r), Done(r),
           Tells(r.app), Shows(r.app), Current(r, r.app)
    PROVE  Tells(r.app)' /\ Shows(r.app)'
<1> DEFINE a == r.app
<1>1. a \in Ids /\ OwnRow(a) /\ r.kind # "none"
  BY DEF Done, ReqType, Owners
<1>2. /\ apps \in [Ids -> RowType] /\ apps[a] \in RowType
      /\ store \in [Ids -> EntryType] /\ store[a].id \in Nat
      /\ hist[a] \in Seq(VersionType) /\ Len(hist[a]) \in Nat
      /\ DOMAIN hist[a] = 1 .. Len(hist[a]) /\ made.entries \in Nat
  BY <1>1, TypesHold DEF Typing
<1>3. \/ /\ r.kind \in {"save", "fallback", "mark"}
         /\ DOMAIN r.set \subseteq {"draft", "source"}
      \/ r.kind = "publish" /\ r \in Publish(a)
      \/ r.kind = "cancel" /\ r \in CancelPublish(a)
      \/ r.kind \in {"list", "relist"} /\ r \in SetPublic(a)
      \/ r.kind = "delist" /\ r \in SetPrivate(a)
  BY <1>1, PublishFacts, CancelFacts, ListingFacts, DelistingFacts DEF Current
<1>4. CASE /\ r.kind \in {"save", "fallback", "mark"}
           /\ DOMAIN r.set \subseteq {"draft", "source"}
  <2>1. Written(r) /\ UNCHANGED <<hist, store>>
    BY <1>4 DEF Done, Saved, Rewritten
  <2>2. /\ apps'[a].status = apps[a].status
        /\ apps'[a].current = apps[a].current
        /\ apps'[a].token = apps[a].token
    BY <1>1, <1>2, <1>4, <2>1, FlushRow DEF Written, ReqType
  <2> QED
    BY <2>1, <2>2 DEF Tells, Shows, Serving
<1>5. CASE r.kind = "publish" /\ r \in Publish(a)
  <2> DEFINE n == Len(hist[a]) + 1
  <2>1. Published(r)
    BY <1>5 DEF Done
  <2>2. /\ r.config = apps[a].draft /\ r.entry = Renewed(a, r.config)
        /\ r.version = n
    <3>1. /\ r.config = apps[a].draft /\ r.entry = Renewed(a, apps[a].draft)
          /\ r.version = NextVersion(hist[a])
      BY <1>1, <1>5, PublishFacts
    <3>2. NextVersion(hist[a]) = n
      BY <1>2, NumberOfNext DEF Tells
    <3> QED
      BY <3>1, <3>2
  <2>3. /\ apps'[a].status = "published" /\ apps'[a].token = "yes"
        /\ apps'[a].current = n
        /\ hist'[a] = Append(hist[a], Version(n, r.config))
    BY <1>1, <1>5, <2>1, <2>2, PublishedRow, PublishFacts
  <2>4. Version(n, r.config) \in VersionType
        /\ Version(n, r.config).version = n
        /\ Version(n, r.config).config = r.config
    BY <1>2 DEF Version, VersionType, ReqType
  <2>5. /\ Len(hist'[a]) = n /\ DOMAIN hist'[a] = 1 .. n
        /\ hist'[a][n] = Version(n, r.config)
        /\ \A i \in DOMAIN hist[a] : hist'[a][i] = hist[a][i]
    <3>1. /\ hist'[a] \in Seq(VersionType) /\ Len(hist'[a]) = n
          /\ \A i \in 1 .. Len(hist[a]) : hist'[a][i] = hist[a][i]
          /\ hist'[a][n] = Version(n, r.config)
      BY <1>2, <2>3, <2>4, AppendProperties
    <3> QED
      BY <1>2, <3>1, LenProperties
  <2>6. Tells(a)'
    BY <1>2, <2>3, <2>4, <2>5 DEF Tells
  <2>7. Serving(a)' = r.config
    BY <2>3, <2>4, <2>5 DEF Serving
  <2>8. Shows(a)'
    <3>1. CASE r.entry = 0
      <4>1. store' = store
        BY <2>1, <3>1 DEF Published, Refreshed
      <4>2. store[a] # NoEntry => store[a].config = Sanitize(r.config)
        BY <2>2, <3>1 DEF Renewed, Shows
      <4> QED
        BY <2>3, <2>7, <4>1, <4>2 DEF Shows
    <3>2. CASE r.entry # 0
      <4>1. /\ store[a].id = r.entry
            /\ store' = [store EXCEPT ![a].config = Sanitize(r.config)]
        BY <2>1, <3>2 DEF Published, Refreshed
      <4>2. /\ store'[a].config = Sanitize(r.config)
            /\ store'[a].id = r.entry
        BY <1>1, <1>2, <4>1 DEF EntryType
      <4>3. store'[a] # NoEntry
        BY <3>2, <4>2 DEF NoEntry, Entry
      <4> QED
        BY <2>3, <2>7, <3>2, <4>2, <4>3 DEF Shows
    <3> QED
      BY <3>1, <3>2
  <2> QED
    BY <2>6, <2>8
<1>6. CASE r.kind = "cancel" /\ r \in CancelPublish(a)
  <2>1. Cancelled(r) /\ Written(r)
    BY <1>6 DEF Done, Cancelled
  <2>2. apps' = [apps EXCEPT ![a] = Flush(@, r.set)]
    BY <1>1, <1>6, <2>1, CancelFacts DEF Written
  <2>3. /\ apps'[a].status = "draft" /\ apps'[a].token = "no"
        /\ apps'[a].current = 0
    BY <1>1, <1>2, <1>6, <2>2, CancelFacts
  <2>4. store'[a] = NoEntry /\ hist' = hist
    BY <1>1, <1>2, <2>1 DEF Cancelled
  <2> QED
    BY <2>3, <2>4 DEF Tells, Shows, NoEntry, Entry
<1>7. CASE r.kind \in {"list", "relist"} /\ r \in SetPublic(a)
  <2>1. /\ r.config = Serving(a) /\ apps[a].status = "published"
    BY <1>1, <1>7, ListingFacts
  <2>2. apps' = apps /\ hist' = hist
    BY <1>7 DEF Done, Listed, Relisted
  <2>3. \/ store' = store
        \/ /\ store[a].id = r.entry /\ r.entry # 0
           /\ store' = [store EXCEPT ![a].config = Sanitize(r.config)]
        \/ store' = [store EXCEPT ![a] =
                        Entry(made.entries + 1, Sanitize(r.config))]
    BY <1>7 DEF Done, Listed, Relisted, Refreshed
  <2>4. \/ store'[a] = store[a]
        \/ store'[a].config = Sanitize(r.config) /\ store'[a].id # 0
    BY <1>1, <1>2, <2>3 DEF EntryType, Entry
  <2> QED
    BY <2>1, <2>2, <2>4 DEF Tells, Shows, Serving, NoEntry, Entry
<1>8. CASE r.kind = "delist" /\ r \in SetPrivate(a)
  <2>1. apps' = apps /\ hist' = hist
        /\ (store'[a] = store[a] \/ store'[a] = NoEntry)
    BY <1>1, <1>2, <1>8 DEF Done, Delisted
  <2> QED
    BY <2>1 DEF Tells, Shows, Serving, NoEntry, Entry
<1> QED
  BY <1>3, <1>4, <1>5, <1>6, <1>7, <1>8

LEMMA UnmetKept ==
    ASSUME NEW a, Unmet(a), apps'[a] = apps[a],
           hist'[a] = hist[a], store'[a] = store[a],
           \A q \in Reqs : req'[q].app = a => req'[q] = req[q]
    PROVE  Unmet(a)'
<1>1. Tells(a)' /\ Shows(a)'
  BY GoodKept DEF Unmet
<1>2. Asking(a)' \subseteq Asking(a)
      /\ \A q \in Asking(a)' : req'[q] = req[q]
  BY DEF Asking
<1>3. \A q \in Asking(a)' : Current(req[q], a)'
  <2> SUFFICES ASSUME NEW q \in Asking(a)' PROVE Current(req[q], a)'
    OBVIOUS
  <2>1. Current(req[q], a) /\ req'[q] = req[q]
    BY <1>2 DEF Unmet
  <2> QED
    BY <2>1, CurrentKept
<1> QED
  BY <1>1, <1>2, <1>3 DEF Unmet

LEMMA NoReqFacts ==
    ReqType(NoReq) /\ NoReq.app = 0 /\ NoReq.kind = "none" /\ Honest(NoReq)
  BY EmptySet DEF NoReq, ReqType, Kinds, Honest

LEMMA NotBusy ==
    ASSUME NEW a \in Ids, NEW m, m = met \cup ({a} \cap Busy), a \notin m
    PROVE  Asking(a) = {}
  BY BoundsAssumption DEF Asking, Busy, Ids

\* A request of this moment or an earlier one commits.
LEMMA DoneKeeps ==
    ASSUME IInv, NEW r, ReqType(r), Honest(r), Done(r),
           UNCHANGED <<tools, plugin>>, met \subseteq met', met' \subseteq Ids,
           DOMAIN req' = Reqs,
           \A q \in Reqs : req'[q] = req[q] \/ req'[q] = NoReq,
           r.app \notin met' => Asking(r.app)' = {} /\ Current(r, r.app)
    PROVE  IInv'
<1> DEFINE a == r.app
<1>1. Typing /\ Owners /\ a \in Ids
  BY DEF IInv, Done, ReqType
<1>2. /\ RowStep(a) /\ StoreStep(a) /\ HistStep(a)
      /\ made' \in MadeType /\ made'.apps = made.apps
  BY <1>1, DoneStep
<1>3. Keeps /\ \A b \in Ids : OwnRow(b)'
  BY <1>1, DoneOwn
<1>4. \A q \in Reqs : ReqType(req'[q])
  BY <1>1, NoReqFacts DEF Typing
<1>5. Typing'
  <2>1. \A q \in Reqs : ReqType(req[q])'
    BY <1>4 DEF ReqType, SetType
  <2> QED
    BY <1>1, <1>2, <2>1
       DEF Typing, RowStep, StoreStep, HistStep
<1>6. \A q \in Reqs : Honest(req[q])'
  <2> SUFFICES ASSUME NEW q \in Reqs PROVE Honest(req[q])'
    OBVIOUS
  <2>1. made'.apps \in Nat
    BY <1>1, <1>2, TypesHold
  <2>2. CASE req'[q] = req[q]
    <3>1. Honest(req[q])
      BY <1>1 DEF Owners
    <3> QED
      BY <1>1, <1>3, <2>1, <2>2, <3>1, HonestKept
  <2>3. CASE req'[q] = NoReq
    BY <1>1, <1>3, <2>1, <2>3, NoReqFacts, HonestKept
  <2> QED
    BY <2>2, <2>3
<1>7. Owners'
  <2>1. \A u \in Users : plugin'[u] # 0 =>
           plugin'[u] \in DOMAIN tools' /\ tools'[plugin'[u]] = u
    BY <1>1 DEF Owners
  <2> QED
    BY <1>3, <1>6, <2>1 DEF Owners
<1>8. ASSUME NEW b \in Ids \ met' PROVE Unmet(b)'
  <2>1. Unmet(b)
    BY <1>8 DEF IInv
  <2>2. CASE b # a
    <3>1. /\ apps'[b] = apps[b] /\ hist'[b] = hist[b]
          /\ store'[b] = store[b]
      BY <1>2, <2>2 DEF RowStep, HistStep, StoreStep
    <3>2. \A q \in Reqs : req'[q].app = b => req'[q] = req[q]
      BY NoReqFacts DEF Ids
    <3> QED
      BY <2>1, <3>1, <3>2, UnmetKept
  <2>3. CASE b = a
    <3>1. Tells(a)' /\ Shows(a)'
      BY <1>1, <1>8, <2>1, <2>3, GoodDone DEF Unmet
    <3> QED
      BY <1>8, <2>3, <3>1 DEF Unmet
  <2> QED
    BY <2>2, <2>3
<1> QED
  BY <1>5, <1>7, <1>8 DEF IInv

LEMMA CommitStep ==
    ASSUME IInv, NEW q \in Reqs, Commit(q)
    PROVE  IInv'
<1> SUFFICES ASSUME NEW r, r = req[q] PROVE IInv'
  OBVIOUS
<1> DEFINE a == r.app
<1>1. /\ Typing /\ ReqType(r) /\ Honest(r) /\ met \subseteq Ids
      /\ DOMAIN req = Reqs
  BY DEF IInv, Typing, Owners
<1>2. Done(r) /\ a \in Ids
  BY <1>1 DEF Commit, Done, ReqType
<1>3. /\ DOMAIN req' = Reqs /\ req'[q] = NoReq
      /\ \A p \in Reqs : p # q => req'[p] = req[p]
  BY <1>1 DEF Commit
<1>4. a \notin met' => Asking(a)' = {} /\ Current(r, a)
  <2> SUFFICES ASSUME a \notin met PROVE Asking(a)' = {} /\ Current(r, a)
    BY DEF Commit
  <2>1. Unmet(a) /\ q \in Asking(a)
    BY <1>2 DEF IInv, Asking
  <2>2. Current(r, a) /\ \A p \in Asking(a) : p = q
    BY <2>1 DEF Unmet
  <2>3. \A p \in Reqs : req'[p].app # a
    BY <1>2, <1>3, <2>2, NoReqFacts DEF Asking, Ids
  <2>4. Asking(a)' = {}
    BY <2>3 DEF Asking
  <2> QED
    BY <2>2, <2>4
<1> QED
  BY <1>1, <1>2, <1>3, <1>4, DoneKeeps DEF Commit

LEMMA AtOnceStep ==
    ASSUME IInv, NEW u \in Users, NEW a \in Ids, AtOnce(u, a)
    PROVE  IInv'
<1>1. PICK r \in Asked(u, a) : Done(r)
  BY DEF AtOnce
<1>2. Typing /\ Owners /\ met \subseteq Ids /\ DOMAIN req = Reqs
  BY DEF IInv, Typing
<1>3. ReqType(r) /\ r.app = a /\ Honest(r) /\ Current(r, a)
  BY <1>2, AskedFacts
<1>4. /\ met' = met \cup ({a} \cap Busy)
      /\ UNCHANGED <<req, tools, plugin>>
  BY DEF AtOnce
<1>5. a \notin met' => Asking(a)' = {}
  <2>1. a \notin met' => Asking(a) = {}
    BY <1>4, NotBusy
  <2>2. Asking(a)' = Asking(a)
    BY <1>4 DEF Asking
  <2> QED
    BY <2>1, <2>2
<1> QED
  BY <1>1, <1>2, <1>3, <1>4, <1>5, DoneKeeps

\* Only requests or plugins change.
LEMMA FrameStep ==
    ASSUME IInv, UNCHANGED <<apps, hist, store, made>>,
           met \subseteq met', met' \subseteq Ids,
           tools' \in Seq(Users), plugin' \in [Users -> Nat],
           \A t \in DOMAIN tools : t \in DOMAIN tools' /\ tools'[t] = tools[t],
           \A u \in Users : plugin'[u] # 0 =>
              plugin'[u] \in DOMAIN tools' /\ tools'[plugin'[u]] = u,
           DOMAIN req' = Reqs,
           \A q \in Reqs : ReqType(req'[q]) /\ Honest(req'[q]),
           \A a \in Ids \ met' : Unmet(a)'
    PROVE  IInv'
<1>1. Typing /\ Owners /\ made.apps \in Nat
  BY TypesHold DEF IInv
<1>2. Keeps
  BY <1>1 DEF Keeps
<1>3. Typing'
  <2>1. \A q \in Reqs : ReqType(req[q])'
    BY DEF ReqType, SetType
  <2> QED
    BY <1>1, <2>1 DEF Typing
<1>4. \A a \in Ids : OwnRow(a)'
  BY <1>1, <1>2, RowKept DEF Owners
<1>5. \A q \in Reqs : Honest(req[q])'
  <2> SUFFICES ASSUME NEW q \in Reqs, NEW r, r = req'[q]
               PROVE  Honest(req[q])'
    OBVIOUS
  <2> QED
    BY <1>1, <1>2, HonestKept
<1>6. Owners'
  BY <1>4, <1>5 DEF Owners
<1> QED
  BY <1>3, <1>6 DEF IInv

LEMMA BeginStep ==
    ASSUME IInv, NEW q \in Reqs, NEW u \in Users, NEW a \in Ids,
           Begin(q, u, a)
    PROVE  IInv'
<1>1. PICK r \in Asked(u, a) : req' = [req EXCEPT ![q] = r]
  BY DEF Begin
<1>2. /\ Typing /\ Owners /\ met \subseteq Ids /\ DOMAIN req = Reqs
      /\ \A p \in Reqs : ReqType(req[p]) /\ Honest(req[p])
      /\ tools \in Seq(Users) /\ plugin \in [Users -> Nat]
  BY DEF IInv, Typing, Owners
<1>3. ReqType(r) /\ r.app = a /\ Honest(r) /\ Current(r, a)
  BY <1>2, AskedFacts
<1>4. /\ DOMAIN req' = Reqs /\ req'[q] = r
      /\ \A p \in Reqs : p # q => req'[p] = req[p]
      /\ req[q].app = 0
  BY <1>1, <1>2 DEF Begin, ReqType
<1>5. ASSUME NEW b \in Ids \ met' PROVE Unmet(b)'
  <2>1. Unmet(b)
    BY <1>5 DEF IInv, Begin
  <2>2. CASE b # a
    <3>1. \A p \in Reqs : req'[p].app = b => req'[p] = req[p]
      BY <1>3, <1>4, <2>2
    <3> QED
      BY <2>1, <3>1, UnmetKept DEF Begin
  <2>3. CASE b = a
    <3>1. Asking(a) = {}
      BY <1>5, <2>3, NotBusy DEF Begin
    <3>2. Asking(a)' \subseteq {q}
      BY <1>4, <3>1 DEF Asking
    <3>3. Tells(a)' /\ Shows(a)'
      BY <2>1, <2>3, GoodKept DEF Begin, Unmet
    <3>4. Current(req[q], a)'
      BY <1>3, <1>4, CurrentKept DEF Begin
    <3> QED
      BY <2>3, <3>2, <3>3, <3>4 DEF Unmet
  <2> QED
    BY <2>2, <2>3
<1>6. \A p \in Reqs : ReqType(req'[p]) /\ Honest(req'[p])
  BY <1>2, <1>3, <1>4
<1>7. met \subseteq met' /\ met' \subseteq Ids
  BY <1>2 DEF Begin
<1> QED
  BY <1>2, <1>4, <1>5, <1>6, <1>7, FrameStep DEF Begin, Owners

LEMMA RollBackStep ==
    ASSUME IInv, NEW q \in Reqs, RollBack(q)
    PROVE  IInv'
<1>1. /\ Typing /\ Owners /\ met \subseteq Ids /\ DOMAIN req = Reqs
      /\ \A p \in Reqs : ReqType(req[p]) /\ Honest(req[p])
      /\ tools \in Seq(Users) /\ plugin \in [Users -> Nat]
  BY DEF IInv, Typing, Owners
<1>2. /\ DOMAIN req' = Reqs /\ req'[q] = NoReq
      /\ \A p \in Reqs : p # q => req'[p] = req[p]
  BY <1>1 DEF RollBack
<1>3. \A b \in Ids \ met' : Unmet(b)'
  <2> SUFFICES ASSUME NEW b \in Ids \ met' PROVE Unmet(b)'
    OBVIOUS
  <2>1. Unmet(b)
    BY DEF IInv, RollBack
  <2>2. \A p \in Reqs : req'[p].app = b => req'[p] = req[p]
    BY <1>2, NoReqFacts DEF Ids
  <2> QED
    BY <2>1, <2>2, UnmetKept DEF RollBack
<1>4. \A p \in Reqs : ReqType(req'[p]) /\ Honest(req'[p])
  BY <1>1, <1>2, NoReqFacts
<1> QED
  BY <1>1, <1>2, <1>3, <1>4, FrameStep DEF RollBack, Owners

\* Tools are made and deleted; nothing else looks at plugins now.
LEMMA PluginStepKeeps ==
    ASSUME IInv, NEW u \in Users, PluginStep(u)
    PROVE  IInv'
<1>1. /\ Typing /\ Owners /\ met \subseteq Ids /\ DOMAIN req = Reqs
      /\ \A p \in Reqs : ReqType(req[p]) /\ Honest(req[p])
      /\ tools \in Seq(Users) /\ plugin \in [Users -> Nat]
  BY DEF IInv, Typing, Owners
<1>2. /\ UNCHANGED <<apps, hist, store, made, req, met>>
  BY DEF PluginStep, WriteProvider, DeleteProvider
<1>3. /\ tools' \in Seq(Users) /\ plugin' \in [Users -> Nat]
      /\ \A t \in DOMAIN tools : t \in DOMAIN tools' /\ tools'[t] = tools[t]
      /\ \A v \in Users : plugin'[v] # 0 =>
            plugin'[v] \in DOMAIN tools' /\ tools'[plugin'[v]] = v
  <2>1. CASE WriteProvider(u)
    <3>1. /\ Len(tools) \in Nat /\ DOMAIN tools = 1 .. Len(tools)
          /\ tools' = Append(tools, u)
          /\ plugin' = [plugin EXCEPT ![u] = Len(tools) + 1]
      BY <1>1, <2>1, TypesHold DEF WriteProvider
    <3>2. /\ tools' \in Seq(Users) /\ Len(tools') = Len(tools) + 1
          /\ \A t \in 1 .. Len(tools) : tools'[t] = tools[t]
          /\ tools'[Len(tools) + 1] = u
      BY <1>1, <3>1, AppendProperties
    <3>3. DOMAIN tools' = 1 .. Len(tools) + 1
      BY <3>2, LenProperties
    <3>4. ASSUME NEW v \in Users, plugin'[v] # 0
          PROVE  plugin'[v] \in DOMAIN tools' /\ tools'[plugin'[v]] = v
      <4>1. CASE v = u
        BY <1>1, <3>1, <3>2, <3>3, <4>1
      <4>2. CASE v # u
        <5>1. plugin'[v] = plugin[v]
          BY <1>1, <3>1, <4>2
        <5>2. plugin[v] \in DOMAIN tools /\ tools[plugin[v]] = v
          BY <1>1, <3>4, <5>1 DEF Owners
        <5> QED
          BY <3>1, <3>2, <3>3, <5>1, <5>2
      <4> QED
        BY <4>1, <4>2
    <3>5. plugin' \in [Users -> Nat]
      BY <1>1, <3>1
    <3> QED
      BY <3>1, <3>2, <3>3, <3>4, <3>5
  <2>2. CASE DeleteProvider(u)
    BY <1>1, <2>2 DEF DeleteProvider, Owners
  <2> QED
    BY <2>1, <2>2 DEF PluginStep
<1>4. \A b \in Ids \ met' : Unmet(b)'
  BY <1>2, UnmetKept DEF IInv
<1> QED
  BY <1>1, <1>2, <1>3, <1>4, FrameStep

-----------------------------------------------------------------------------
(* New applications.                                                       *)

\* A request that writes where an application comes from, and no more.
Marks(r, n) ==
    /\ ReqType(r) /\ r.kind = "mark" /\ r.app = n
    /\ DOMAIN r.set = {"source"} /\ r.config = {}

\* The next number has no row, no history and no entry, and no request is
\* about it.
LEMMA NextIsFree ==
    ASSUME IInv, made.apps < MaxApps, NEW n, n = made.apps + 1
    PROVE  /\ n \in Ids /\ n > made.apps
           /\ apps[n] = Gone /\ hist[n] = <<>>
           /\ \A q \in Reqs : req[q].app # n
           /\ n \notin met => store[n] = NoEntry
<1>1. Typing /\ Owners /\ made.apps \in Nat /\ MaxApps \in Nat
  BY TypesHold DEF IInv
<1>2. n \in Ids /\ n > made.apps
  BY <1>1 DEF Ids
<1>3. OwnRow(n)
  BY <1>1, <1>2 DEF Owners
<1>4. apps[n] = Gone /\ hist[n] = <<>>
  BY <1>2, <1>3 DEF OwnRow, Gone, Row
<1>5. \A q \in Reqs : req[q].app # n
  <2> SUFFICES ASSUME NEW q \in Reqs, req[q].app = n PROVE FALSE
    OBVIOUS
  <2>1. ReqType(req[q]) /\ Honest(req[q])
    BY <1>1 DEF Typing, Owners
  <2>2. n \in 1 .. made.apps
    BY <1>1, <1>2, <2>1 DEF ReqType, Honest
  <2> QED
    BY <1>1, <1>2, <2>2
<1>6. n \notin met => store[n] = NoEntry
  BY <1>2, <1>4 DEF IInv, Unmet, Shows, Gone, Row
<1> QED
  BY <1>2, <1>4, <1>5, <1>6

LEMMA NewAppKeeps ==
    ASSUME IInv, NEW row \in RowType, row.owner \in Users,
           row.status = "draft", row.current = 0, row.token = "no",
           Holds(row.owner, row.draft), NewApp(row),
           NEW n, n = made.apps + 1, DOMAIN req' = Reqs,
           \A q \in Reqs : req'[q] = req[q] \/ Marks(req'[q], n),
           \A p, q \in Reqs : req'[p].app = n /\ req'[q].app = n => p = q
    PROVE  IInv'
<1>1. /\ Typing /\ Owners /\ made.apps \in Nat /\ MaxApps \in Nat
      /\ made \in MadeType /\ Len(hist[n]) \in Nat
      /\ apps \in [Ids -> RowType]
  <2>1. Typing /\ n \in Ids
    BY NextIsFree DEF IInv, NewApp
  <2> QED
    BY <2>1, TypesHold DEF IInv, Typing
<1>2. /\ n \in Ids /\ n > made.apps
      /\ apps[n] = Gone /\ hist[n] = <<>>
      /\ \A q \in Reqs : req[q].app # n
      /\ n \notin met => store[n] = NoEntry
  BY NextIsFree DEF NewApp
<1>3. /\ made' \in MadeType /\ made'.apps = n
      /\ UNCHANGED <<hist, store, met, tools, plugin>>
  BY <1>1, BoundsAssumption DEF NewApp, MadeType
<1>4. /\ apps'[n] = row /\ apps' \in [Ids -> RowType]
      /\ \A b \in Ids : b # n => apps'[b] = apps[b]
  BY <1>1, <1>2 DEF NewApp
<1>5. Keeps
  <2>1. \A b \in 1 .. made.apps : b \in Ids /\ b # n
    BY <1>1, <1>2 DEF Ids, NewApp
  <2> QED
    BY <1>1, <1>3, <1>4, <2>1 DEF Keeps
<1>6. \A q \in Reqs : ReqType(req'[q])
  BY <1>1 DEF Typing, Marks
<1>7. Typing'
  <2>1. \A q \in Reqs : ReqType(req[q])'
    BY <1>6 DEF ReqType, SetType
  <2> QED
    BY <1>1, <1>3, <1>4, <2>1 DEF Typing
<1>8. \A b \in Ids : OwnRow(b)'
  <2> SUFFICES ASSUME NEW b \in Ids PROVE OwnRow(b)'
    OBVIOUS
  <2>1. OwnRow(b)
    BY <1>1 DEF Owners
  <2>2. CASE b # n
    BY <1>1, <1>3, <1>4, <1>5, <2>1, <2>2, RowKept
  <2>3. CASE b = n
    <3>1. Holds(row.owner, row.draft)'
      BY <1>5, HoldsKept DEF Holds
    <3>2. \A x \in store[n].config : x.of = "nobody" /\ Genuine(x)'
      BY <1>5, <2>1, <2>3 DEF OwnRow, Keeps, Genuine
    <3>3. DOMAIN hist[n] = {} /\ Len(hist[n]) = 0
      BY <1>2, EmptySeq
    <3>4. apps'[n].owner # "nobody" /\ ~(n > made'.apps)
      BY <1>1, <1>3, <1>4, NobodyAssumption
    <3> QED
      BY <1>3, <1>4, <2>3, <3>1, <3>2, <3>3, <3>4 DEF OwnRow
  <2> QED
    BY <2>2, <2>3
<1>9. \A q \in Reqs : Honest(req[q])'
  <2> SUFFICES ASSUME NEW q \in Reqs, NEW r, r = req'[q]
               PROVE  Honest(req[q])'
    OBVIOUS
  <2>1. CASE r = req[q]
    <3>1. Honest(r)
      BY <1>1, <2>1 DEF Owners
    <3> QED
      BY <1>1, <1>3, <1>5, <3>1, HonestKept
  <2>2. CASE Marks(r, n)
    <3>1. r.app \in 1 .. made'.apps
      BY <1>1, <1>3, <2>2 DEF Marks
    <3> QED
      BY <2>2, <3>1 DEF Honest, Marks, Holds
  <2> QED
    BY <2>1, <2>2
<1>10. Owners'
  <2>1. \A u \in Users : plugin'[u] # 0 =>
           plugin'[u] \in DOMAIN tools' /\ tools'[plugin'[u]] = u
    BY <1>1, <1>3 DEF Owners
  <2> QED
    BY <1>8, <1>9, <2>1 DEF Owners
<1>11. ASSUME NEW b \in Ids \ met' PROVE Unmet(b)'
  <2>1. Unmet(b)
    BY <1>3, <1>11 DEF IInv
  <2>2. CASE b # n
    <3>1. \A q \in Reqs : req'[q].app = b => req'[q] = req[q]
      BY <2>2 DEF Marks
    <3> QED
      BY <1>3, <1>4, <2>1, <2>2, <3>1, UnmetKept
  <2>3. CASE b = n
    <3>1. store'[n] = NoEntry /\ hist'[n] = <<>> /\ DOMAIN hist'[n] = {}
      BY <1>2, <1>3, <1>11, <2>3, EmptySeq
    <3>2. Tells(n)' /\ Shows(n)'
      BY <1>4, <3>1 DEF Tells, Shows, NoEntry, Entry
    <3>3. \A p, q \in Asking(n)' : p = q
      BY DEF Asking
    <3>4. \A q \in Asking(n)' : Marks(req'[q], n)
      BY <1>2 DEF Asking
    <3>5. \A q \in Asking(n)' : Current(req[q], n)'
      BY <3>4 DEF Current, Marks
    <3> QED
      BY <2>3, <3>2, <3>3, <3>5 DEF Unmet
  <2> QED
    BY <2>2, <2>3
<1> QED
  BY <1>7, <1>10, <1>11 DEF IInv

LEMMA NewRow ==
    ASSUME NEW u \in Users, NEW draft \in SUBSET AnyRef, NEW row,
           row = Row(u, draft)
    PROVE  /\ row \in RowType /\ row.owner = u /\ row.draft = draft
           /\ row.status = "draft" /\ row.current = 0 /\ row.token = "no"
  BY DEF Row, RowType, People

LEMMA CreateStep ==
    ASSUME IInv, NEW u \in Users, Create(u)
    PROVE  IInv'
<1> SUFFICES ASSUME NEW row, row = Row(u, {Builtin}) PROVE IInv'
  OBVIOUS
<1>1. /\ row \in RowType /\ row.owner = u /\ row.draft = {Builtin}
      /\ row.status = "draft" /\ row.current = 0 /\ row.token = "no"
  <2>1. {Builtin} \in SUBSET AnyRef
    BY BuiltinRef
  <2> QED
    BY <2>1, NewRow
<1>2. Holds(row.owner, row.draft)
  BY <1>1, BuiltinRef DEF Holds
<1>3. NewApp(row) /\ UNCHANGED req /\ DOMAIN req' = Reqs
  BY DEF Create, IInv, Typing
<1>4. \A q \in Reqs : req[q].app # made.apps + 1
  BY <1>3, NextIsFree DEF NewApp
<1> QED
  BY <1>1, <1>2, <1>3, <1>4, NewAppKeeps

LEMMA CopyStep ==
    ASSUME IInv, NEW u \in Users, NEW a \in Ids, Copy(u, a)
    PROVE  IInv'
<1> SUFFICES ASSUME NEW row, row = Row(u, apps[a].draft) PROVE IInv'
  OBVIOUS
<1>1. OwnRow(a) /\ apps[a].owner = u /\ apps[a].draft \subseteq AnyRef
  BY TypesHold, RowFields DEF IInv, Owners, Copy, Owns
<1>2. /\ row \in RowType /\ row.owner = u /\ row.draft = apps[a].draft
      /\ row.status = "draft" /\ row.current = 0 /\ row.token = "no"
  BY <1>1, NewRow
<1>3. Holds(row.owner, row.draft)
  BY <1>1, <1>2 DEF OwnRow
<1>4. NewApp(row) /\ UNCHANGED req /\ DOMAIN req' = Reqs
  BY DEF Copy, IInv, Typing
<1>5. \A q \in Reqs : req[q].app # made.apps + 1
  BY <1>4, NextIsFree DEF NewApp
<1> QED
  BY <1>2, <1>3, <1>4, <1>5, NewAppKeeps

LEMMA AddToMeStep ==
    ASSUME IInv, NEW q \in Reqs, NEW u \in Users, NEW a \in Ids,
           AddToMe(q, u, a)
    PROVE  IInv'
<1> SUFFICES ASSUME NEW row, row = Row(u, Sanitize(store[a].config)),
                    NEW n, n = made.apps + 1
             PROVE  IInv'
  OBVIOUS
<1> DEFINE set == [source |-> store[a].id]
           r == Asks("mark", n, set)
<1>1. /\ OwnRow(a) /\ store[a].config \subseteq AnyRef
      /\ store[a].id \in Nat /\ DOMAIN req = Reqs
  BY TypesHold DEF IInv, Owners, Typing
<1>2. /\ Sanitize(store[a].config) \subseteq AnyRef
      /\ Holds(u, Sanitize(store[a].config))
  BY <1>1, SanitizedHolds DEF OwnRow
<1>3. /\ row \in RowType /\ row.owner = u
      /\ row.draft = Sanitize(store[a].config)
      /\ row.status = "draft" /\ row.current = 0 /\ row.token = "no"
  BY <1>2, NewRow
<1>4. Holds(row.owner, row.draft)
  BY <1>2, <1>3
<1>5. NewApp(row) /\ req' = [req EXCEPT ![q] = r]
  BY DEF AddToMe
<1>6. n \in Ids /\ \A p \in Reqs : req[p].app # n
  BY <1>5, NextIsFree DEF NewApp
<1>7. SetType(set) /\ DOMAIN set = {"source"}
  BY <1>1 DEF SetType
<1> HIDE DEF set
<1>8. /\ r.kind = "mark" /\ r.app = n /\ r.set = set
      /\ r.version = 0 /\ r.config = {} /\ r.entry = 0
  BY Asking1
<1> HIDE DEF r
<1>9. n # 0
  BY <1>6 DEF Ids
<1>10. Marks(r, n)
  BY <1>6, <1>7, <1>8, <1>9 DEF Marks, ReqType, Kinds
<1>11. /\ DOMAIN req' = Reqs /\ req'[q] = r
       /\ \A p \in Reqs : p # q => req'[p] = req[p]
  BY <1>1, <1>5
<1>12. /\ \A p \in Reqs : req'[p] = req[p] \/ Marks(req'[p], n)
       /\ \A p, s \in Reqs : req'[p].app = n /\ req'[s].app = n => p = s
  BY <1>6, <1>10, <1>11
<1> QED
  BY <1>3, <1>4, <1>5, <1>11, <1>12, NewAppKeeps

LEMMA DeleteStep ==
    ASSUME IInv, NEW u \in Users, NEW a \in Ids, Delete(u, a)
    PROVE  IInv'
<1>1. /\ Typing /\ Owners /\ OwnRow(a) /\ met \subseteq Ids
      /\ DOMAIN req = Reqs /\ made.apps \in Nat
      /\ \A p \in Reqs : ReqType(req[p]) /\ Honest(req[p])
  BY TypesHold DEF IInv, Typing, Owners
<1>2. /\ apps' = [apps EXCEPT ![a] = Gone]
      /\ hist' = [hist EXCEPT ![a] = <<>>]
      /\ store' = [store EXCEPT ![a] = NoEntry]
      /\ met' = met \cup ({a} \cap Busy)
      /\ UNCHANGED <<made, req, tools, plugin>>
  BY DEF Delete
<1>3. /\ apps' \in [Ids -> RowType] /\ hist' \in [Ids -> Seq(VersionType)]
      /\ apps'[a] = Gone /\ hist'[a] = <<>> /\ store'[a] = NoEntry
      /\ \A b \in Ids : b # a => /\ apps'[b] = apps[b]
                                 /\ hist'[b] = hist[b]
                                 /\ store'[b] = store[b]
  BY <1>1, <1>2, GoneIsRow, EmptySeq DEF Typing
<1>4. store' \in [Ids -> EntryType]
  BY <1>1, <1>2, EntryRemoved DEF StoreStep
<1>5. Typing'
  <2>1. \A q \in Reqs : ReqType(req[q])'
    BY <1>1, <1>2 DEF ReqType, SetType
  <2>2. met' \subseteq Ids
    BY <1>1, <1>2
  <2> QED
    BY <1>1, <1>2, <1>3, <1>4, <2>1, <2>2 DEF Typing
<1>6. Keeps
  <2>1. \A b \in 1 .. made.apps : b \in Ids
    BY <1>1, BoundsAssumption DEF Typing, MadeType, Ids
  <2> QED
    BY <1>1, <1>2, <1>3, <2>1 DEF Keeps
<1>7. \A b \in Ids : OwnRow(b)'
  <2> SUFFICES ASSUME NEW b \in Ids PROVE OwnRow(b)'
    OBVIOUS
  <2>1. CASE b # a
    BY <1>1, <1>2, <1>3, <1>6, <2>1, RowKept DEF Owners
  <2>2. CASE b = a
    <3>1. /\ DOMAIN hist'[a] = {} /\ Len(hist'[a]) = 0
          /\ apps'[a].current = 0 /\ apps'[a].draft = {}
          /\ store'[a].config = {}
      BY <1>3, EmptySeq DEF Gone, Row, NoEntry, Entry
    <3> QED
      BY <1>3, <2>2, <3>1 DEF OwnRow, Holds
  <2> QED
    BY <2>1, <2>2
<1>8. \A q \in Reqs : Honest(req[q])'
  <2> SUFFICES ASSUME NEW q \in Reqs, NEW r, r = req[q]
               PROVE  Honest(req[q])'
    OBVIOUS
  <2> QED
    BY <1>1, <1>2, <1>6, HonestKept
<1>9. Owners'
  <2>1. \A v \in Users : plugin'[v] # 0 =>
           plugin'[v] \in DOMAIN tools' /\ tools'[plugin'[v]] = v
    BY <1>1, <1>2 DEF Owners
  <2> QED
    BY <1>7, <1>8, <2>1 DEF Owners
<1>10. ASSUME NEW b \in Ids \ met' PROVE Unmet(b)'
  <2>1. Unmet(b)
    BY <1>2, <1>10 DEF IInv
  <2>2. CASE b # a
    BY <1>2, <1>3, <2>1, <2>2, UnmetKept
  <2>3. CASE b = a
    <3>1. Asking(a) = {}
      BY <1>2, <1>10, <2>3, NotBusy
    <3>2. Asking(a)' = {}
      BY <1>2, <3>1 DEF Asking
    <3>3. Tells(a)' /\ Shows(a)'
      BY <1>3, EmptySeq DEF Tells, Shows, Gone, Row, NoEntry, Entry
    <3> QED
      BY <2>3, <3>2, <3>3 DEF Unmet
  <2> QED
    BY <2>2, <2>3
<1> QED
  BY <1>5, <1>9, <1>10 DEF IInv

-----------------------------------------------------------------------------
(* The theorems.                                                           *)

\* At the start there is nothing.
THEOREM InitIInv == Init => IInv
<1> SUFFICES ASSUME Init PROVE IInv
  OBVIOUS
<1> USE DEF Init
<1>1. NoEntry \in EntryType /\ <<>> \in Seq(VersionType)
      /\ <<>> \in Seq(Users) /\ DOMAIN <<>> = {} /\ Len(<<>>) = 0
  BY EmptySeq DEF NoEntry, Entry, EntryType
<1>2. Typing
  BY <1>1, GoneIsRow, NoReqFacts, BoundsAssumption DEF Typing, MadeType
<1>3. \A a \in Ids : OwnRow(a)
  BY <1>1 DEF OwnRow, Holds, Gone, Row, NoEntry, Entry
<1>4. Owners
  BY <1>3, NoReqFacts DEF Owners
<1>5. ASSUME NEW a \in Ids PROVE Unmet(a)
  <2>1. Asking(a) = {}
    BY NoReqFacts DEF Asking, Ids
  <2> QED
    BY <1>1, <2>1 DEF Unmet, Tells, Shows, Gone, Row, NoEntry, Entry
<1> QED
  BY <1>2, <1>4, <1>5 DEF IInv

\* Every request, of whatever kind and at whatever moment, keeps it so.
THEOREM StepIInv == IInv /\ [Next]_vars => IInv'
<1> SUFFICES ASSUME IInv, [Next]_vars PROVE IInv'
  OBVIOUS
<1>1. ASSUME NEW q \in Reqs, Commit(q) \/ RollBack(q) PROVE IInv'
  BY <1>1, CommitStep, RollBackStep
<1>2. ASSUME NEW u \in Users, Create(u) \/ PluginStep(u) PROVE IInv'
  BY <1>2, CreateStep, PluginStepKeeps
<1>3. ASSUME NEW u \in Users, NEW a \in Edited,
             AtOnce(u, a) \/ \E q \in Reqs : Begin(q, u, a)
      PROVE  IInv'
  <2>1. a \in Ids
    BY BoundsAssumption DEF Ids
  <2> QED
    BY <1>3, <2>1, AtOnceStep, BeginStep
<1>4. ASSUME NEW u \in Users, NEW a \in Ids,
             \/ Copy(u, a) \/ Delete(u, a)
             \/ \E q \in Reqs : AddToMe(q, u, a)
      PROVE  IInv'
  BY <1>4, CopyStep, DeleteStep, AddToMeStep
<1>5. CASE UNCHANGED vars
  <2>1. /\ tools \in Seq(Users) /\ plugin \in [Users -> Nat]
        /\ met \subseteq Ids /\ DOMAIN req = Reqs
        /\ \A q \in Reqs : ReqType(req[q]) /\ Honest(req[q])
        /\ \A u \in Users : plugin[u] # 0 =>
              plugin[u] \in DOMAIN tools /\ tools[plugin[u]] = u
    BY DEF IInv, Typing, Owners
  <2>2. \A b \in Ids \ met' : Unmet(b)'
    BY <1>5, UnmetKept DEF IInv, vars
  <2> QED
    BY <1>5, <2>1, <2>2, FrameStep DEF vars
<1> QED
  BY <1>1, <1>2, <1>3, <1>4, <1>5 DEF Next

\* So every reachable state has typed rows that are the owner's own, and an
\* application that nobody has met on is told and shown as it is.
THEOREM InvariantHolds == Spec => []IInv
  BY InitIInv, StepIInv, PTL DEF Spec

\* The rows, entries, requests and counters have their types, and every
\* configuration holds references that could be made of the tools there were.
THEOREM TypeCorrect == Spec => []TypeOK
<1>1. IInv => TypeOK
  <2> SUFFICES ASSUME IInv PROVE TypeOK
    OBVIOUS
  <2>1. Typing /\ Owners
    BY DEF IInv
  <2>2. ASSUME NEW r \in AnyRef, Genuine(r) PROVE r \in Refs
    <3>1. CASE r \in [type : {"api_tool"}, id : Nat, of : People]
      <4>1. r.id \in DOMAIN tools /\ r.of = tools[r.id]
        BY <2>2, <3>1 DEF Genuine
      <4>2. r = ApiTool(r.id)
        BY <3>1, <4>1 DEF ApiTool
      <4> QED
        BY <4>1, <4>2 DEF Refs
    <3> QED
      BY <3>1 DEF AnyRef, Refs
  <2>3. ASSUME NEW a \in Ids
        PROVE  /\ apps[a].owner \in Users \cup {"nobody"}
               /\ apps[a].current \in 0..Len(hist[a])
               /\ apps[a].draft \subseteq Refs
               /\ store[a].config \subseteq Refs
    <3>1. OwnRow(a) /\ apps[a] \in RowType /\ store[a].config \subseteq AnyRef
      BY <2>1, TypesHold DEF Owners
    <3> QED
      BY <2>2, <3>1, RowFields DEF OwnRow, Holds, People
  <2>4. \A q \in Reqs : req[q].app \in 0..MaxApps
    BY <2>1, BoundsAssumption DEF Typing, ReqType, Ids
  <2>5. \A u \in Users : plugin[u] \in 0..Len(tools)
    BY <2>1, TypesHold DEF Owners
  <2> QED
    BY <2>1, <2>3, <2>4, <2>5 DEF TypeOK, Typing, MadeType
<1> QED
  BY <1>1, InvariantHolds, PTL

\* The store shows what serves, of every application on which no two requests
\* have overlapped: publishing refreshes the entry, withdrawing and deleting
\* remove it, whatever else is going on.
THEOREM StoreShowsWhatServes == Spec => []StoreIsCurrent
<1>1. IInv => StoreIsCurrent
  BY DEF IInv, Unmet, Shows, StoreIsCurrent
<1> QED
  BY <1>1, InvariantHolds, PTL

\* No draft, version or entry ever holds, nor can a conversation with one ever
\* resolve, what belongs to another user, with any number of overlapping
\* requests, copies through the store and plugins made anew.
THEOREM NobodyUsesAnothersTools == Spec => []OwnToolsOnly
<1>1. IInv => OwnToolsOnly
  <2> SUFFICES ASSUME IInv, NEW a \in Ids,
                      NEW held,
                      held = apps[a].draft \cup
                             UNION {hist[a][i].config : i \in DOMAIN hist[a]}
               PROVE  /\ \A r \in held : r.of \in {apps[a].owner, "nobody"}
                      /\ \A r \in store[a].config : r.of = "nobody"
                      /\ apps[a].owner # "nobody" =>
                           \A r \in Resolved(apps[a].owner, held) :
                             r.type = "api_tool" =>
                                plugin[apps[a].owner] = r.id
    BY DEF OwnToolsOnly
  <2>1. Typing /\ Owners /\ OwnRow(a) /\ apps[a] \in RowType
    BY TypesHold DEF IInv, Owners
  <2>2. \A r \in held : r.of \in {apps[a].owner, "nobody"} /\ Genuine(r)
    BY <2>1 DEF OwnRow, Holds
  <2>3. ASSUME NEW r \in Resolved(apps[a].owner, held),
               r.type = "api_tool"
        PROVE  plugin[apps[a].owner] = r.id
    <3>1. r \in held /\ r.id \in PluginTools
      BY <2>3 DEF Resolved, ToolFound
    <3>2. PICK u \in Users : plugin[u] = r.id /\ plugin[u] # 0
      BY <3>1 DEF PluginTools
    <3>3. tools[r.id] = u
      BY <2>1, <3>2 DEF Owners
    <3>4. r.of = u /\ r.of \in {apps[a].owner, "nobody"}
      BY <2>2, <2>3, <3>1, <3>3 DEF Genuine
    <3> QED
      BY <3>2, <3>4, NobodyAssumption
  <2> QED
    BY <2>1, <2>2, <2>3 DEF OwnRow
<1> QED
  BY <1>1, InvariantHolds, PTL

\* Versions are numbered from one without gap or repetition and the newest
\* serves, of every application on which no two requests have overlapped.
THEOREM HistoryIsTold == Spec => []HistoryTells
<1>1. IInv => HistoryTells
  BY DEF IInv, Unmet, Tells, HistoryTells
<1> QED
  BY <1>1, InvariantHolds, PTL

=============================================================================
