------------------------------ MODULE AppStore -------------------------------
(***************************************************************************)
(* Applications, their versions and the store of public ones.              *)
(*                                                                         *)
(* An application has a draft, a history of published configurations and   *)
(* a pointer to the one that serves.  Its owner may list it in the store:  *)
(* an entry with a copy of the serving configuration from which private    *)
(* references are removed.  Anyone may add a copy of an entry to his own.  *)
(*                                                                         *)
(* A configuration is abstracted to the references it holds: builtin       *)
(* tools, tools of a user's plugin, a knowledge base (or workflow).        *)
(*                                                                         *)
(* The console's requests on an application read everything in one         *)
(* snapshot and then commit; in between others commit.  SQLAlchemy writes  *)
(* the columns that differ from the snapshot, and rolls the request back   *)
(* when a row it updates is gone; bulk deletes see the current rows.       *)
(***************************************************************************)
EXTENDS Integers, Sequences, FiniteSets, FiniteSetsExt

CONSTANTS
    Users,
    Reqs,         \* requests that can be in progress while others commit
    Edited,       \* the applications that are edited, published and listed
    MaxApps,      \* applications ever created
    MaxSaves,     \* drafts saved
    MaxVersions,  \* publications
    MaxEntries,   \* store entries ever created
    MaxTools,     \* plugin tools ever created
    MaxRefs       \* references of one configuration

ASSUME BoundsAssumption ==
    /\ Edited \subseteq 1..MaxApps
    /\ MaxApps \in Nat /\ MaxSaves \in Nat /\ MaxVersions \in Nat
    /\ MaxEntries \in Nat /\ MaxTools \in Nat
    /\ MaxRefs \in Nat

\* What belongs to nobody belongs to no user.
ASSUME NobodyAssumption == "nobody" \notin Users

VARIABLES
    apps,     \* the rows, numbered in the order of creation
    hist,     \* the published configurations of each, with their versions
    store,    \* the store entry of each, or NoEntry
    made,     \* the applications, versions and entries created so far
    req,      \* requests in progress
    met,      \* applications on which two requests have overlapped
    tools,    \* the owner of each plugin tool ever created
    plugin    \* the current tool of each user's plugin, or 0

vars == <<apps, hist, store, made, req, met, tools, plugin>>

-----------------------------------------------------------------------------
(* References and configurations.                                          *)

Builtin == [type |-> "builtin_tool", id |-> 0, of |-> "nobody"]
ApiTool(t) == [type |-> "api_tool", id |-> t, of |-> tools[t]]
Dataset(u) == [type |-> "dataset", id |-> 0, of |-> u]

\* Mutant: every tool is kept.
KeepTools(config) == {r \in config : r.type # "dataset"}

\* What the store keeps of a configuration, and what a copy takes from it.
Sanitize(config) == {r \in config : r.type = "builtin_tool"}

\* The tools that plugins have now.
PluginTools == {plugin[u] : u \in Users} \ {0}

\* The tools a client may send: those in sight, whoever owns them.
Sendable ==
    {Builtin} \cup {Dataset(u) : u \in Users}
        \cup {ApiTool(t) : t \in PluginTools}

\* A tool that is not the user's own is refused, a knowledge base or workflow
\* that is not is left out.
OwnTool(u, r) == r.of = u
Takes(u, r) == r.type = "api_tool" => OwnTool(u, r)
Accepted(u, sent) == \A r \in sent : Takes(u, r)
Cleaned(u, sent) == {r \in sent : r.type = "dataset" => r.of = u}

\* The drafts a user can save.
Validated(u) ==
    {Cleaned(u, sent) :
        sent \in {x \in SUBSET Sendable : Cardinality(x) <= MaxRefs
                                          /\ Accepted(u, x)}}

\* A plugin's tool is looked up by its number alone.
ToolFound(r) ==
    \/ r.type = "builtin_tool"
    \/ r.type = "api_tool" /\ r.id \in PluginTools

\* What a conversation of u with a configuration can use: knowledge bases are
\* those of the user.
Resolved(u, config) ==
    {r \in config : ToolFound(r) \/ (r.type = "dataset" /\ r.of = u)}

-----------------------------------------------------------------------------
(* Rows.                                                                   *)

Ids == 1..MaxApps

Row(owner, draft) ==
    [owner |-> owner, status |-> "draft", current |-> 0, token |-> "no",
     draft |-> draft, source |-> 0]

Gone == Row("nobody", {})
Version(number, config) == [version |-> number, config |-> config]
Entry(id, config) == [id |-> id, config |-> config]
NoEntry == Entry(0, {})

\* What a request will write: columns of the row, a version, an entry.
NoReq == [kind |-> "none", app |-> 0, set |-> <<>>, version |-> 0,
          config |-> {}, entry |-> 0]

Asks(kind, a, set) == [NoReq EXCEPT !.kind = kind, !.app = a, !.set = set]

\* The unit of work: the columns that differ from the view are written.
Changes(view, new) == [c \in {x \in DOMAIN view : new[x] # view[x]} |-> new[c]]
Flush(row, set) ==
    [c \in DOMAIN row |-> IF c \in DOMAIN set THEN set[c] ELSE row[c]]

Serving(a) == hist[a][apps[a].current].config

Owns(u, a) == apps[a].owner = u

-----------------------------------------------------------------------------
(* What a request of the owner is going to write, by what it reads.        *)

\* The draft is replaced, or set back to what a version held.
Redraft(kind, a, config) ==
    Asks(kind, a, Changes(apps[a], [apps[a] EXCEPT !.draft = config]))

SaveDraft(u, a) == {Redraft("save", a, config) : config \in Validated(u)}

Fallback(a) ==
    {Redraft("fallback", a, hist[a][i].config) : i \in DOMAIN hist[a]}

\* Mutant: the drafts' versions are looked at, which are 0.
AfterDrafts(versions) == 1

\* The version is one more than the greatest of the snapshot.
NextVersion(versions) ==
    Max({0} \cup {versions[i].version : i \in DOMAIN versions}) + 1

\* The entry to be written: that of the snapshot if its content changes.
Renewed(a, config) ==
    IF store[a] # NoEntry /\ store[a].config # Sanitize(config)
    THEN store[a].id ELSE 0

Publish(a) ==
    LET new == [apps[a] EXCEPT !.status = "published", !.token = "yes"]
    IN {[Asks("publish", a, Changes(apps[a], new))
            EXCEPT !.version = NextVersion(hist[a]),
                   !.config = apps[a].draft,
                   !.entry = Renewed(a, apps[a].draft)]}

CancelPublish(a) ==
    LET new == [apps[a] EXCEPT !.status = "draft", !.current = 0,
                               !.token = "no"]
    IN IF apps[a].status # "published" THEN {}
       ELSE {Asks("cancel", a, Changes(apps[a], new))}

\* Listing asks for a serving configuration, delisting for nothing.
SetPublic(a) ==
    IF apps[a].status # "published" \/ apps[a].current = 0 THEN {}
    ELSE {[NoReq EXCEPT !.kind = IF store[a] = NoEntry THEN "list"
                                 ELSE "relist",
                        !.app = a, !.config = Serving(a),
                        !.entry = Renewed(a, Serving(a))]}

SetPrivate(a) ==
    IF store[a] = NoEntry THEN {}
    ELSE {[NoReq EXCEPT !.kind = "delist", !.app = a, !.entry = store[a].id]}

Asked(u, a) ==
    IF ~Owns(u, a) THEN {}
    ELSE SaveDraft(u, a) \cup Fallback(a) \cup Publish(a)
            \cup CancelPublish(a) \cup SetPublic(a) \cup SetPrivate(a)

-----------------------------------------------------------------------------
(* It commits, as a whole or not at all.                                   *)

Written(r) ==
    IF r.set = <<>> THEN UNCHANGED apps
    ELSE /\ apps[r.app] # Gone
         /\ apps' = [apps EXCEPT ![r.app] = Flush(@, r.set)]

\* The entry is updated; an entry that has gone meanwhile rolls all back.
Refreshed(r) ==
    IF r.entry = 0 THEN UNCHANGED store
    ELSE /\ store[r.app].id = r.entry
         /\ store' = [store EXCEPT ![r.app].config = Sanitize(r.config)]

\* Drafts of applications that are gone are gone.
Saved(r) ==
    /\ Written(r) /\ made.saves < MaxSaves
    /\ made' = [made EXCEPT !.saves = @ + 1]
    /\ UNCHANGED <<hist, store>>

\* The same for a version's content, and for where a copy comes from.
Rewritten(r) == Written(r) /\ UNCHANGED <<hist, store, made>>

\* A new configuration and a new version are inserted, and the row points to
\* the new configuration.
Published(r) ==
    LET a == r.app
    IN /\ apps[a] # Gone /\ made.versions < MaxVersions
       /\ apps' = [apps EXCEPT ![a] =
              [Flush(@, r.set) EXCEPT !.current = Len(hist[a]) + 1]]
       /\ hist' = [hist EXCEPT ![a] =
              Append(@, Version(r.version, r.config))]
       /\ Refreshed(r)
       /\ made' = [made EXCEPT !.versions = @ + 1]

\* Mutant: the store is left alone.
CancelledOnly(r) == Written(r) /\ UNCHANGED <<hist, made, store>>

\* Whatever entry there is now is deleted.
Cancelled(r) ==
    /\ Written(r)
    /\ store' = [store EXCEPT ![r.app] = NoEntry]
    /\ UNCHANGED <<hist, made>>

\* An entry is inserted, which fails if there is one by now; the application
\* is not looked at again.
Listed(r) ==
    /\ store[r.app] = NoEntry /\ made.entries < MaxEntries
    /\ store' = [store EXCEPT ![r.app] =
           Entry(made.entries + 1, Sanitize(r.config))]
    /\ made' = [made EXCEPT !.entries = @ + 1]
    /\ UNCHANGED <<apps, hist>>

Relisted(r) == Refreshed(r) /\ UNCHANGED <<apps, hist, made>>

Delisted(r) ==
    /\ store' = IF store[r.app].id = r.entry
                THEN [store EXCEPT ![r.app] = NoEntry] ELSE store
    /\ UNCHANGED <<apps, hist, made>>

Done(r) ==
    \/ r.kind = "save" /\ Saved(r)
    \/ r.kind \in {"fallback", "mark"} /\ Rewritten(r)
    \/ r.kind = "publish" /\ Published(r)
    \/ r.kind = "cancel" /\ Cancelled(r)
    \/ r.kind = "list" /\ Listed(r)
    \/ r.kind = "relist" /\ Relisted(r)
    \/ r.kind = "delist" /\ Delisted(r)

\* Applications with a request in progress.
Busy == {req[q].app : q \in Reqs} \ {0}

Begin(q, u, a) ==
    /\ req[q].kind = "none"
    /\ \E r \in Asked(u, a) : req' = [req EXCEPT ![q] = r]
    /\ met' = met \cup ({a} \cap Busy)
    /\ UNCHANGED <<apps, hist, store, made, tools, plugin>>

Commit(q) ==
    /\ Done(req[q])
    /\ req' = [req EXCEPT ![q] = NoReq]
    /\ UNCHANGED <<met, tools, plugin>>

\* It is rolled back, or its process dies.
RollBack(q) ==
    /\ req[q].kind # "none"
    /\ req' = [req EXCEPT ![q] = NoReq]
    /\ UNCHANGED <<apps, hist, store, made, met, tools, plugin>>

\* A request from its snapshot to its commit, with no other commit between.
AtOnce(u, a) ==
    /\ \E r \in Asked(u, a) : Done(r)
    /\ met' = met \cup ({a} \cap Busy)
    /\ UNCHANGED <<req, tools, plugin>>

-----------------------------------------------------------------------------
(* Creation, copies and deletion.                                          *)

NewApp(row) ==
    /\ made.apps < MaxApps
    /\ made' = [made EXCEPT !.apps = @ + 1]
    /\ apps' = [apps EXCEPT ![made.apps + 1] = row]
    /\ UNCHANGED <<hist, store, met, tools, plugin>>

\* A new one, or the default one of the user, holds one builtin tool.
Create(u) == NewApp(Row(u, {Builtin})) /\ UNCHANGED req

\* The draft goes along, the history does not.
Copy(u, a) ==
    /\ Owns(u, a)
    /\ NewApp(Row(u, apps[a].draft)) /\ UNCHANGED req

\* From the store, once for each entry; where the copy comes from is written
\* by a second commit.
AddToMe(q, u, a) ==
    /\ req[q].kind = "none" /\ store[a] # NoEntry
    /\ \A b \in Ids : Owns(u, b) => apps[b].source # store[a].id
    /\ NewApp(Row(u, Sanitize(store[a].config)))
    /\ req' = [req EXCEPT ![q] =
                  Asks("mark", made.apps + 1, [source |-> store[a].id])]

\* The entry is deleted first, drafts and versions go with the row.
Delete(u, a) ==
    /\ Owns(u, a)
    /\ apps' = [apps EXCEPT ![a] = Gone]
    /\ hist' = [hist EXCEPT ![a] = <<>>]
    /\ store' = [store EXCEPT ![a] = NoEntry]
    /\ met' = met \cup ({a} \cap Busy)
    /\ UNCHANGED <<made, req, tools, plugin>>

-----------------------------------------------------------------------------
(* Plugins, one for each user, of one tool.                                *)

\* Created, or overwritten: the tools are deleted and made anew.
WriteProvider(u) ==
    /\ Len(tools) < MaxTools
    /\ tools' = Append(tools, u)
    /\ plugin' = [plugin EXCEPT ![u] = Len(tools) + 1]
    /\ UNCHANGED <<apps, hist, store, made, req, met>>

DeleteProvider(u) ==
    /\ plugin[u] # 0
    /\ plugin' = [plugin EXCEPT ![u] = 0]
    /\ UNCHANGED <<apps, hist, store, made, req, met, tools>>

PluginStep(u) == WriteProvider(u) \/ DeleteProvider(u)

-----------------------------------------------------------------------------
Init ==
    /\ apps = [a \in Ids |-> Gone]
    /\ hist = [a \in Ids |-> <<>>]
    /\ store = [a \in Ids |-> NoEntry]
    /\ made = [apps |-> 0, saves |-> 0, versions |-> 0, entries |-> 0]
    /\ req = [q \in Reqs |-> NoReq]
    /\ met = {} /\ tools = <<>>
    /\ plugin = [u \in Users |-> 0]

Next ==
    \/ \E q \in Reqs : Commit(q) \/ RollBack(q)
    \/ \E u \in Users :
          \/ Create(u) \/ PluginStep(u)
          \/ \E a \in Edited :
                \/ AtOnce(u, a)
                \/ \E q \in Reqs : Begin(q, u, a)
          \/ \E a \in Ids :
                \/ Copy(u, a) \/ Delete(u, a)
                \/ \E q \in Reqs : AddToMe(q, u, a)

Spec == Init /\ [][Next]_vars

-----------------------------------------------------------------------------
Refs == {Builtin} \cup {Dataset(u) : u \in Users}
            \cup {ApiTool(t) : t \in DOMAIN tools}

TypeOK ==
    /\ \A a \in Ids :
          /\ apps[a].owner \in Users \cup {"nobody"}
          /\ apps[a].current \in 0..Len(hist[a])
          /\ apps[a].draft \subseteq Refs /\ store[a].config \subseteq Refs
    /\ made.apps \in 0..MaxApps /\ made.saves \in 0..MaxSaves
    /\ made.versions \in 0..MaxVersions
    /\ made.entries \in 0..MaxEntries
    /\ met \subseteq Ids
    /\ \A q \in Reqs : req[q].app \in 0..MaxApps
    /\ \A u \in Users : plugin[u] \in 0..Len(tools)

\* An entry of the store belongs to an application that is published, and
\* holds what serves there without its private references: publishing,
\* withdrawing and deleting keep it so, for an application on which no two
\* requests have overlapped.
StoreIsCurrent ==
    \A a \in Ids \ met :
        store[a] # NoEntry =>
            /\ apps[a].status = "published"
            /\ store[a].config = Sanitize(Serving(a))

\* Nothing a user's application holds or has held, and nothing a conversation
\* with it could resolve, belongs to another user; nothing in the store
\* belongs to anyone.  The resolver does not ask who owns a plugin's tool.
OwnToolsOnly ==
    \A a \in Ids :
        LET held == apps[a].draft \cup
                    UNION {hist[a][i].config : i \in DOMAIN hist[a]}
        IN /\ \A r \in held : r.of \in {apps[a].owner, "nobody"}
           /\ \A r \in store[a].config : r.of = "nobody"
           /\ apps[a].owner # "nobody" =>
                \A r \in Resolved(apps[a].owner, held) :
                    r.type = "api_tool" => plugin[apps[a].owner] = r.id

\* Versions are numbered in the order of their publication, without gap or
\* repetition; what serves is the newest, and only while published.
HistoryTells ==
    \A a \in Ids \ met :
        /\ \A i \in DOMAIN hist[a] : hist[a][i].version = i
        /\ IF apps[a].status = "published"
           THEN apps[a].current = Len(hist[a]) /\ apps[a].token = "yes"
           ELSE apps[a].current = 0 /\ apps[a].token = "no"
=============================================================================
