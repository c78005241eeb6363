---------------------------- MODULE ModelCatalog ----------------------------
(***************************************************************************)
(* The catalogue of models: the rows an administrator edits in MySQL, the  *)
(* version number in redis that announces an edit, and the copy every web  *)
(* or worker process keeps and takes its models from.                      *)
(*                                                                         *)
(* What the rows say after the n-th committed edit is Catalogue[n], so the *)
(* state keeps n only.  A request's transaction reads from the snapshot    *)
(* MySQL fixes at its first SELECT: the account's row, as a rule, so that  *)
(* it is older than the version a load is stored under.  The rows of a     *)
(* load are read in one snapshot and are one step.                         *)
(***************************************************************************)
EXTENDS Naturals, FiniteSets

CONSTANTS
    Procs,      \* processes, each with a LanguageModelManager
    Users,      \* threads that serve requests
    Proc,       \* the process of each thread
    Admins,     \* console requests that edit the catalogue
    MaxWrites,  \* most edits
    Catalogue,  \* the rows after each edit
    Providers, Models, Channels,
    Serves,     \* the models each channel is restricted to, {} for none
    Requests,   \* <<provider, model>> pairs that are asked for
    DefProvider, DefModel, \* DEFAULT_LLM_PROVIDER, DEFAULT_LLM_MODEL
    Faults,     \* "read", "bump": a redis command fails; "reload": a load
                \* does; "restart": a process is replaced; "die": an
                \* administrator's process is
    None

CatalogueType ==
    [on : SUBSET Providers,                    \* enabled providers
     models : [Providers -> SUBSET Models],    \* their enabled models
     multi : SUBSET Providers,                 \* multi_channel
     channels : [Providers -> SUBSET Channels]] \* their enabled channels

FaultKinds == {"read", "bump", "reload", "restart", "die"}

ASSUME ConstantsAssumption ==
    /\ Proc \in [Users -> Procs]
    /\ MaxWrites \in Nat
    /\ Catalogue \in [0..MaxWrites -> CatalogueType]
    /\ Serves \in [Channels -> SUBSET Models]
    /\ Requests \subseteq Providers \X Models
    /\ DefProvider \in Providers /\ DefModel \in Models
    /\ IsFiniteSet(Admins)
    /\ Faults \subseteq FaultKinds
    /\ None \notin Users \union Nat

VARIABLES
    config,  \* number of edits committed to MySQL
    version, \* the version in redis
    copy,    \* per process: the edit its _cache was read after, None at first
    held,    \* per process: _version
    recent,  \* per process: _last_check is less than _CACHE_TTL ago
    lock,    \* per process: the thread that holds _lock
    since,   \* per process: what the request that loaded the copy had as since
    user,    \* what each thread is doing
    admin    \* what each console request is doing

stores == <<config, version>>
manager == <<copy, held, recent, lock>>
vars == <<stores, manager, since, user, admin>>

-----------------------------------------------------------------------------
(* Which model a request gets.                                             *)

\* The channels of p that can run m.
Usable(cat, p, m) ==
    {c \in cat.channels[p] : Serves[c] = {} \/ m \in Serves[c]}

\* A deleted or disabled model gives way to the default model, or to any
\* model of the default provider.
Resolve(cat, p, m) ==
    IF p \in cat.on /\ m \in cat.models[p] THEN {<<p, m>>}
    ELSE IF DefProvider \notin cat.on THEN {}
    ELSE IF DefModel \in cat.models[DefProvider]
         THEN {<<DefProvider, DefModel>>}
         ELSE {DefProvider} \X cat.models[DefProvider]

\* Whether the default model can stand in for a provider without channels.
DefaultStandsIn(cat) ==
    /\ DefProvider \in cat.on \ cat.multi
    /\ DefModel \in cat.models[DefProvider]

\* Mutant: a provider that lost its channels is not replaced.
ServedNoFallback(cat, p, m) ==
    \E r \in Resolve(cat, p, m) :
        r[1] \in cat.multi => Usable(cat, r[1], r[2]) # {}

\* instantiate: the model in the end is on one credential, on the channels
\* that can run it, or the default model.
Served(cat, p, m) ==
    \E r \in Resolve(cat, p, m) :
        r[1] \in cat.multi => \/ Usable(cat, r[1], r[2]) # {}
                              \/ DefaultStandsIn(cat)

\* Images and speech take no other provider; the model is not looked up.
Dispatched(cat, p, m) ==
    p \in cat.on /\ (p \in cat.multi => Usable(cat, p, m) # {})

-----------------------------------------------------------------------------
(* Values.                                                                 *)

UserPcs == {"idle", "ensure", "version", "reload", "store", "use"}

Request(pc, result) ==
    [pc |-> pc, snap |-> None, since |-> None, ver |-> 0, used |-> None,
     result |-> result]

Idle == Request("idle", "none")

UserType ==
    [pc : UserPcs,
     snap : 0..MaxWrites \union {None},  \* the snapshot of the transaction
     since : 0..MaxWrites \union {None}, \* the version in redis when it was
                                         \* fixed, None if by the load
     ver : 0..MaxWrites,                 \* the version it read
     used : 0..MaxWrites \union {None},  \* the catalogue it was served from
     result : {"none", "served", "refused", "missing", "error"}]

Loaded(p) == copy[p] # None
Current(p) == Loaded(p) /\ recent[p]

Init ==
    /\ config = 0
    /\ version = 0
    /\ copy = [p \in Procs |-> None]
    /\ held = [p \in Procs |-> None]
    /\ recent = [p \in Procs |-> FALSE]
    /\ lock = [p \in Procs |-> None]
    /\ since = [p \in Procs |-> None]
    /\ user = [u \in Users |-> Idle]
    /\ admin = [a \in Admins |-> "idle"]

\* u goes on at pc, with nothing else of it changed.
Goto(u, pc) == user' = [user EXCEPT ![u].pc = pc]

\* u has its catalogue, and what it read on the way is not used any more.
Found(u) == user' = [user EXCEPT ![u] = Request("use", "none")]

-----------------------------------------------------------------------------
(* A request that needs a model.                                           *)

\* Authentication and the request's own rows are read first, in the same
\* transaction.  Only a node of a workflow in a thread of its own has a
\* transaction that has read nothing.
Begin(u) ==
    /\ user[u].pc = "idle"
    /\ \E early \in BOOLEAN :
        user' = [user EXCEPT ![u] =
                    IF early
                    THEN [Request("ensure", "none") EXCEPT !.snap = config,
                                                           !.since = version]
                    ELSE Request("ensure", "none")]
    /\ UNCHANGED <<stores, manager, since, admin>>

\* _ensure_loaded without the lock.
FindCurrent(u) ==
    /\ user[u].pc = "ensure"
    /\ Current(Proc[u])
    /\ Found(u)
    /\ UNCHANGED <<stores, manager, since, admin>>

\* Mutant: the lock is not waited for.
LockAnyway(u) ==
    /\ user[u].pc = "ensure"
    /\ ~Current(Proc[u])
    /\ lock' = [lock EXCEPT ![Proc[u]] = u]
    /\ Goto(u, "version")
    /\ UNCHANGED <<stores, copy, held, recent, since, admin>>

\* The lock, and the second look under it.
Lock(u) ==
    /\ user[u].pc = "ensure"
    /\ lock[Proc[u]] = None
    /\ ~Current(Proc[u])
    /\ lock' = [lock EXCEPT ![Proc[u]] = u]
    /\ Goto(u, "version")
    /\ UNCHANGED <<stores, copy, held, recent, since, admin>>

\* Mutant: a process that has a copy keeps it.
CompareLoaded(u, v) ==
    /\ IF Loaded(Proc[u])
       THEN /\ recent' = [recent EXCEPT ![Proc[u]] = TRUE]
            /\ lock' = [lock EXCEPT ![Proc[u]] = None]
            /\ Found(u)
       ELSE /\ user' = [user EXCEPT ![u].pc = "reload", ![u].ver = v]
            /\ UNCHANGED <<recent, lock>>
    /\ UNCHANGED <<stores, copy, held, since, admin>>

\* The comparison with the version at hand.
Compare(u, v) ==
    /\ IF Loaded(Proc[u]) /\ v = held[Proc[u]]
       THEN /\ recent' = [recent EXCEPT ![Proc[u]] = TRUE]
            /\ lock' = [lock EXCEPT ![Proc[u]] = None]
            /\ Found(u)
       ELSE /\ user' = [user EXCEPT ![u].pc = "reload", ![u].ver = v]
            /\ UNCHANGED <<recent, lock>>
    /\ UNCHANGED <<stores, copy, held, since, admin>>

ReadVersion(u) == user[u].pc = "version" /\ Compare(u, version)

\* Without an answer from redis the version counts as 0.
MissVersion(u) ==
    /\ "read" \in Faults
    /\ user[u].pc = "version"
    /\ Compare(u, 0)

\* The rows, in the snapshot of the request's transaction.
Reload(u) ==
    /\ user[u].pc = "reload"
    /\ user' = [user EXCEPT ![u].pc = "store",
                            ![u].snap = IF @ = None THEN config ELSE @]
    /\ UNCHANGED <<stores, manager, since, admin>>

\* The database fails, or a row cannot be decrypted or validated: the request
\* fails, also when an older copy is at hand.
FailReload(u) ==
    /\ "reload" \in Faults
    /\ user[u].pc = "reload"
    /\ lock' = [lock EXCEPT ![Proc[u]] = None]
    /\ user' = [user EXCEPT ![u] = Request("idle", "error")]
    /\ UNCHANGED <<stores, copy, held, recent, since, admin>>

\* Mutant: the version is read again after the rows.
StoreLatest(u) ==
    /\ user[u].pc = "store"
    /\ copy' = [copy EXCEPT ![Proc[u]] = user[u].snap]
    /\ held' = [held EXCEPT ![Proc[u]] = version]
    /\ recent' = [recent EXCEPT ![Proc[u]] = TRUE]
    /\ lock' = [lock EXCEPT ![Proc[u]] = None]
    /\ since' = [since EXCEPT ![Proc[u]] = user[u].since]
    /\ Found(u)
    /\ UNCHANGED <<stores, admin>>

\* Readers outside the lock see _cache before _loaded and _last_check.
Store(u) ==
    /\ user[u].pc = "store"
    /\ copy' = [copy EXCEPT ![Proc[u]] = user[u].snap]
    /\ held' = [held EXCEPT ![Proc[u]] = user[u].ver]
    /\ recent' = [recent EXCEPT ![Proc[u]] = TRUE]
    /\ lock' = [lock EXCEPT ![Proc[u]] = None]
    /\ since' = [since EXCEPT ![Proc[u]] = user[u].since]
    /\ Found(u)
    /\ UNCHANGED <<stores, admin>>

\* The request ends with what the copy the process has by then says.
End(u, result) ==
    /\ user' = [user EXCEPT ![u] =
                    [Request("idle", result) EXCEPT !.used = copy[Proc[u]]]]
    /\ UNCHANGED <<stores, manager, since, admin>>

\* Chat, agents and workflow nodes.
Instantiate(u) ==
    /\ user[u].pc = "use"
    /\ \E r \in Requests :
        End(u, IF Served(Catalogue[copy[Proc[u]]], r[1], r[2])
               THEN "served" ELSE "refused")

\* generate_images and synthesize_speech.
Dispatch(u) ==
    /\ user[u].pc = "use"
    /\ \E r \in Requests :
        End(u, IF Dispatched(Catalogue[copy[Proc[u]]], r[1], r[2])
               THEN "served" ELSE "missing")

\* _CACHE_TTL goes by.
Age(p) ==
    /\ recent[p]
    /\ recent' = [recent EXCEPT ![p] = FALSE]
    /\ UNCHANGED <<stores, copy, held, lock, since, user, admin>>

-----------------------------------------------------------------------------
(* An edit.                                                                *)

\* Every create, update and delete of a provider, model or channel commits
\* first and announces itself afterwards.
Commit(a) ==
    /\ admin[a] = "idle"
    /\ config < MaxWrites
    /\ config' = config + 1
    /\ admin' = [admin EXCEPT ![a] = "bump"]
    /\ UNCHANGED <<version, manager, since, user>>

\* bump_version; a failed INCR is swallowed.
Bump(a) ==
    /\ admin[a] = "bump"
    /\ \/ version' = version + 1
       \/ "bump" \in Faults /\ UNCHANGED version
    /\ admin' = [admin EXCEPT ![a] = "idle"]
    /\ UNCHANGED <<config, manager, since, user>>

\* The process of an administrator's request dies between the two.
Die(a) ==
    /\ "die" \in Faults
    /\ admin[a] = "bump"
    /\ admin' = [admin EXCEPT ![a] = "idle"]
    /\ UNCHANGED <<stores, manager, since, user>>

\* A process is replaced by a new one.
Restart(p) ==
    /\ "restart" \in Faults
    /\ copy' = [copy EXCEPT ![p] = None]
    /\ held' = [held EXCEPT ![p] = None]
    /\ recent' = [recent EXCEPT ![p] = FALSE]
    /\ lock' = [lock EXCEPT ![p] = None]
    /\ since' = [since EXCEPT ![p] = None]
    /\ user' = [u \in Users |-> IF Proc[u] = p THEN Idle ELSE user[u]]
    /\ UNCHANGED <<stores, admin>>

Step(u) ==
    \/ FindCurrent(u) \/ Lock(u) \/ ReadVersion(u) \/ MissVersion(u)
    \/ Reload(u) \/ FailReload(u) \/ Store(u)
    \/ Instantiate(u) \/ Dispatch(u)

Next ==
    \/ \E u \in Users : Begin(u) \/ Step(u)
    \/ \E a \in Admins : Commit(a) \/ Bump(a) \/ Die(a)
    \/ \E p \in Procs : Age(p) \/ Restart(p)

Spec == Init /\ [][Next]_vars

\* Threads run, requests keep coming to every process, eight seconds pass,
\* and neither redis nor the database fails for ever.  The lock is free again
\* and again rather than for good, hence the strong fairness.
Fairness ==
    /\ \A u \in Users : /\ WF_vars(Begin(u))
                        /\ SF_vars(Lock(u))
                        /\ SF_vars(ReadVersion(u))
                        /\ SF_vars(Reload(u))
                        /\ WF_vars(Step(u))
    /\ \A p \in Procs : WF_vars(Age(p))

FairSpec == Spec /\ Fairness

-----------------------------------------------------------------------------
(* Properties.                                                             *)

\* Types of all variables.
TypeOK ==
    /\ config \in 0..MaxWrites
    /\ version \in 0..MaxWrites
    /\ copy \in [Procs -> 0..MaxWrites \union {None}]
    /\ held \in [Procs -> 0..MaxWrites \union {None}]
    /\ recent \in [Procs -> BOOLEAN]
    /\ lock \in [Procs -> Users \union {None}]
    /\ since \in [Procs -> 0..MaxWrites \union {None}]
    /\ user \in [Users -> UserType]
    /\ admin \in [Admins -> {"idle", "bump"}]

\* The request had read a row before edit n was announced.
ReadBefore(seen, n) == seen # None /\ seen < n

\* A copy has every edit announced up to the version it carries, unless it was
\* loaded by a request that had read a row before the edit was announced:
\* _reload reads from the snapshot that row has fixed.
CopyHasItsVersion ==
    \A p \in Procs : Loaded(p) =>
        \A n \in 1..held[p] : copy[p] >= n \/ ReadBefore(since[p], n)

\* With several threads of a process loading in turn, what it serves goes back
\* to an older catalogue only by a request that had read a row before the
\* edits that are lost were announced.
NeverGoesBack ==
    [][\A p \in Procs :
        Loaded(p) /\ Loaded(p)' =>
            copy'[p] >= copy[p] \/ ReadBefore(since'[p], copy[p])]_vars

\* An announced edit reaches every running process that is asked for models,
\* or the process has reloaded for it by a request that had read a row before.
EditsArrive ==
    \A p \in Procs, n \in 1..MaxWrites :
        version >= n ~> \/ ~Loaded(p)
                        \/ copy[p] >= n
                        \/ held[p] >= n /\ ReadBefore(since[p], n)

\* While the default provider is there, on one credential and with the
\* default model, a chat gets some model, whatever was taken out of the
\* catalogue that the chat was set up for.
DefaultServes ==
    \A u \in Users :
        user[u].result = "refused" => ~DefaultStandsIn(Catalogue[user[u].used])

=============================================================================
