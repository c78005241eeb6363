------------------------- MODULE ModelCatalogProofs -------------------------
(***************************************************************************)
(* What ModelCatalog promises for any number of processes, threads and     *)
(* administrators, and any catalogues: a copy falls behind the version it  *)
(* carries, or behind the copy before it, only by a request that had read  *)
(* a row before the missing edit was announced, and a chat is always       *)
(* served while the default model can stand in.                            *)
(*                                                                         *)
(* The argument orders the numbers a load passes through: the version in   *)
(* redis when the snapshot was fixed, the snapshot, the copy, and the      *)
(* edits committed, which are always ahead of those announced.  Where the  *)
(* load itself fixes the snapshot, that comes after the version was read,  *)
(* and the lock keeps a second load of the process away from the copy.     *)
(***************************************************************************)
EXTENDS ModelCatalog, FiniteSetTheorems, TLAPS

\* Edits committed and not yet announced.
Pending == {a \in Admins : admin[a] = "bump"}

Stores ==
    /\ config \in 0..MaxWrites
    /\ version \in Nat
    /\ admin \in [Admins -> {"idle", "bump"}]
    /\ version + Cardinality(Pending) <= config

Types ==
    /\ copy \in [Procs -> 0..MaxWrites \union {None}]
    /\ held \in [Procs -> 0..MaxWrites \union {None}]
    /\ recent \in [Procs -> BOOLEAN]
    /\ lock \in [Procs -> Users \union {None}]
    /\ since \in [Procs -> 0..MaxWrites \union {None}]
    /\ user \in [Users -> UserType]

\* A copy, its version and the edits.
ProcInv(p) ==
    Loaded(p) => /\ copy[p] <= config
                 /\ held[p] # None
                 /\ IF since[p] = None THEN held[p] <= copy[p]
                    ELSE since[p] <= copy[p]

Loading == {"version", "reload", "store"}

\* Who holds the lock.
LockInv(u) == user[u].pc \in Loading <=> lock[Proc[u]] = u

\* The snapshot, the version and the copy of a thread on its way.
LoadInv(u) ==
    /\ user[u].snap # None => user[u].snap <= config
    /\ user[u].since # None =>
        user[u].snap # None /\ user[u].since <= user[u].snap
    /\ user[u].pc \in {"ensure", "version", "reload"} /\ user[u].since = None
            => user[u].snap = None
    /\ user[u].ver <= config
    /\ user[u].pc = "store" =>
        /\ user[u].snap # None
        /\ user[u].since = None =>
            /\ user[u].ver <= user[u].snap
            /\ Loaded(Proc[u]) => copy[Proc[u]] <= user[u].snap
    /\ user[u].pc = "use" => Loaded(Proc[u])

\* How a request ended.
ResultInv(u) ==
    user[u].result = "refused" =>
        /\ user[u].used \in 0..MaxWrites
        /\ ~DefaultStandsIn(Catalogue[user[u].used])

Inv ==
    /\ Stores
    /\ Types
    /\ \A p \in Procs : ProcInv(p)
    /\ \A u \in Users : LockInv(u) /\ LoadInv(u) /\ ResultInv(u)

-----------------------------------------------------------------------------

\* A chat that finds nothing finds the default model unable to stand in.
LEMMA ServedByDefault ==
    ASSUME NEW cat \in CatalogueType, NEW p, NEW m, DefaultStandsIn(cat)
    PROVE  Served(cat, p, m)
<1>1. Resolve(cat, p, m) # {}
  BY DEF Resolve, DefaultStandsIn
<1> QED
  BY <1>1 DEF Served

\* None is no number, so a copy or a snapshot that is there is one.
LEMMA Numbers ==
    ASSUME NEW x \in 0..MaxWrites \union {None}, x # None
    PROVE  x \in 0..MaxWrites /\ x \in Nat
BY ConstantsAssumption

LEMMA PendingFinite == IsFiniteSet(Pending) /\ Cardinality(Pending) \in Nat
<1>1. IsFiniteSet(Pending)
  BY ConstantsAssumption, FS_Subset DEF Pending
<1> QED
  BY <1>1, FS_CardinalityType

\* What is announced has been committed.
LEMMA VersionBehind ==
    ASSUME Inv
    PROVE  version \in 0..MaxWrites /\ version <= config /\ 0 <= config
<1>1. /\ Cardinality(Pending) \in Nat /\ MaxWrites \in Nat
      /\ config \in 0..MaxWrites /\ version \in Nat
      /\ version + Cardinality(Pending) <= config
  BY PendingFinite, ConstantsAssumption DEF Inv, Stores
<1> QED
  BY <1>1

LEMMA InitInv == Init => Inv
<1> SUFFICES ASSUME Init PROVE Inv
  OBVIOUS
<1>1. Pending = {} /\ Cardinality(Pending) = 0
  <2>1. Pending = {}
    BY DEF Init, Pending
  <2> QED
    BY <2>1, FS_EmptySet
<1>2. Stores
  BY <1>1, ConstantsAssumption DEF Init, Stores
<1>3. Idle \in UserType
  BY ConstantsAssumption DEF Idle, Request, UserType, UserPcs
<1>4. Types
  BY <1>3 DEF Init, Types
<1>5. \A p \in Procs : ProcInv(p)
  BY DEF Init, ProcInv, Loaded
<1>6. \A u \in Users : LockInv(u) /\ LoadInv(u) /\ ResultInv(u)
  <2>1. \A u \in Users : Proc[u] \in Procs /\ u # None
    BY ConstantsAssumption
  <2> QED
    BY <2>1, ConstantsAssumption
    DEF Init, Idle, Request, LockInv, LoadInv, ResultInv, Loading, Loaded
<1> QED
  BY <1>2, <1>4, <1>5, <1>6 DEF Inv

-----------------------------------------------------------------------------

\* What a step of one thread may do to its record: the other facts follow.
LEMMA UserChange ==
    ASSUME Types, NEW u \in Users, NEW r \in UserType,
           user' = [user EXCEPT ![u] = r]
    PROVE  /\ user' \in [Users -> UserType]
           /\ user'[u] = r
           /\ \A v \in Users : v # u => user'[v] = user[v]
BY DEF Types

\* The edits are untouched by the threads.
LEMMA StoresKept ==
    ASSUME Stores, UNCHANGED <<stores, admin>>
    PROVE  Stores' /\ config' = config
<1>1. config' = config /\ version' = version /\ admin' = admin
  BY DEF stores
<1>2. Pending' = Pending
  BY <1>1 DEF Pending
<1> QED
  BY <1>1, <1>2 DEF Stores

\* A thread that takes a step outside the loading part of a request.
LEMMA FreeStep ==
    ASSUME Inv, NEW u \in Users, NEW r \in UserType,
           user' = [user EXCEPT ![u] = r],
           UNCHANGED <<stores, manager, since, admin>>,
           user[u].pc \notin Loading, r.pc \notin Loading,
           r.snap # None => r.snap <= config,
           r.since # None => r.snap # None /\ r.since <= r.snap,
           r.since = None /\ r.pc = "ensure" => r.snap = None,
           r.ver <= config,
           r.pc = "use" => Loaded(Proc[u]),
           r.result = "refused" =>
               /\ r.used \in 0..MaxWrites
               /\ ~DefaultStandsIn(Catalogue[r.used])
    PROVE  Inv'
<1>1. /\ user' \in [Users -> UserType]
      /\ user'[u] = r
      /\ \A v \in Users : v # u => user'[v] = user[v]
  BY UserChange DEF Inv
<1>2. Stores' /\ config' = config
  BY StoresKept DEF Inv
<1>3. /\ copy' = copy /\ held' = held /\ recent' = recent /\ lock' = lock
      /\ since' = since
  BY DEF manager
<1>4. Types'
  BY <1>1, <1>3 DEF Inv, Types
<1>5. \A p \in Procs : ProcInv(p)'
  BY <1>2, <1>3 DEF Inv, ProcInv, Loaded
<1>6. LockInv(u)' /\ LoadInv(u)' /\ ResultInv(u)'
  BY <1>1, <1>2, <1>3 DEF Inv, LockInv, LoadInv, ResultInv, Loaded, Loading
<1>7. ASSUME NEW v \in Users, v # u
      PROVE  LockInv(v)' /\ LoadInv(v)' /\ ResultInv(v)'
  BY <1>1, <1>2, <1>3, <1>7
  DEF Inv, LockInv, LoadInv, ResultInv, Loaded
<1> QED
  BY <1>2, <1>4, <1>5, <1>6, <1>7 DEF Inv

LEMMA BeginInv ==
    ASSUME Inv, NEW u \in Users, Begin(u)
    PROVE  Inv'
<1>1. version \in 0..MaxWrites /\ version <= config /\ 0 <= config
  BY VersionBehind
<1>2. config \in 0..MaxWrites /\ config # None /\ version # None
  BY <1>1, ConstantsAssumption DEF Inv, Stores
<1> DEFINE fresh == Request("ensure", "none")
           early == [fresh EXCEPT !.snap = config, !.since = version]
<1>3. /\ user[u].pc = "idle" /\ UNCHANGED <<stores, manager, since, admin>>
      /\ \/ user' = [user EXCEPT ![u] = fresh]
         \/ user' = [user EXCEPT ![u] = early]
  BY DEF Begin
<1>4. /\ fresh \in UserType /\ fresh.pc = "ensure" /\ fresh.snap = None
      /\ fresh.since = None /\ fresh.ver = 0 /\ fresh.result = "none"
  BY ConstantsAssumption DEF UserType, UserPcs, Request
<1> HIDE DEF fresh
<1>5. /\ early \in UserType /\ early.pc = "ensure" /\ early.snap = config
      /\ early.since = version /\ early.ver = 0 /\ early.result = "none"
  BY <1>1, <1>2, <1>4 DEF UserType
<1> HIDE DEF early
<1>6. CASE user' = [user EXCEPT ![u] = fresh]
  BY <1>1, <1>3, <1>4, <1>6, FreeStep DEF Loading
<1>7. CASE user' = [user EXCEPT ![u] = early]
  <2>1. /\ early.snap # None => early.snap <= config
        /\ early.since # None =>
              early.snap # None /\ early.since <= early.snap
        /\ early.since = None /\ early.pc = "ensure" => early.snap = None
        /\ early.ver <= config
    BY <1>1, <1>2, <1>5
  <2>2. user[u].pc \notin Loading /\ early.pc \notin Loading
    BY <1>3, <1>5 DEF Loading
  <2> QED
    BY <1>3, <1>5, <1>7, <2>1, <2>2, FreeStep
<1> QED
  BY <1>3, <1>6, <1>7

\* A request that has its catalogue.
LEMMA FoundRecord ==
    ASSUME Inv
    PROVE  /\ Request("use", "none") \in UserType
           /\ Request("use", "none").pc = "use"
           /\ Request("use", "none").snap = None
           /\ Request("use", "none").since = None
           /\ Request("use", "none").ver = 0
           /\ Request("use", "none").result = "none"
           /\ config \in Nat /\ 0 <= config
BY ConstantsAssumption DEF Request, UserType, UserPcs, Inv, Stores

LEMMA FindInv ==
    ASSUME Inv, NEW u \in Users, FindCurrent(u)
    PROVE  Inv'
<1> DEFINE r == Request("use", "none")
<1>1. /\ user' = [user EXCEPT ![u] = r] /\ user[u].pc = "ensure"
      /\ UNCHANGED <<stores, manager, since, admin>> /\ Loaded(Proc[u])
  BY DEF FindCurrent, Found, Current
<1>2. /\ r \in UserType /\ r.pc = "use" /\ r.snap = None /\ r.since = None
      /\ r.ver = 0 /\ r.result = "none" /\ config \in Nat /\ 0 <= config
  BY FoundRecord
<1> HIDE DEF r
<1> QED
  BY <1>1, <1>2, FreeStep DEF Loading

LEMMA UseInv ==
    ASSUME Inv, NEW u \in Users, Instantiate(u) \/ Dispatch(u)
    PROVE  Inv'
<1> DEFINE n == copy[Proc[u]]
<1>1. /\ user[u].pc = "use" /\ Loaded(Proc[u])
      /\ n \in 0..MaxWrites
  <2>1. Proc[u] \in Procs
    BY ConstantsAssumption
  <2>2. user[u].pc = "use" /\ Loaded(Proc[u])
    BY DEF Instantiate, Dispatch, Inv, LoadInv
  <2>3. copy[Proc[u]] \in 0..MaxWrites \union {None}
    BY <2>1 DEF Inv, Types
  <2> QED
    BY <2>2, <2>3 DEF Loaded
<1>2. ASSUME NEW result \in {"served", "refused", "missing"},
             End(u, result),
             result = "refused" => ~DefaultStandsIn(Catalogue[n])
      PROVE  Inv'
  <2> DEFINE r == [Request("idle", result) EXCEPT !.used = n]
  <2>1. r \in UserType
    BY <1>1, ConstantsAssumption DEF UserType, UserPcs, Request
  <2>2. /\ user' = [user EXCEPT ![u] = r]
        /\ r.pc = "idle" /\ r.snap = None /\ r.since = None /\ r.ver = 0
        /\ r.used = n /\ r.result = result
    BY <1>2 DEF End, Request
  <2>3. config \in Nat /\ 0 <= config
    BY ConstantsAssumption DEF Inv, Stores
  <2> HIDE DEF n, r
  <2> QED
    BY <1>1, <1>2, <2>1, <2>2, <2>3, FreeStep DEF End, Loading
<1>3. CASE Instantiate(u)
  <2>1. PICK q \in Requests :
            End(u, IF Served(Catalogue[n], q[1], q[2]) THEN "served"
                                                       ELSE "refused")
    BY <1>3 DEF Instantiate
  <2>2. Catalogue[n] \in CatalogueType
    BY <1>1, ConstantsAssumption
  <2>3. DefaultStandsIn(Catalogue[n]) => Served(Catalogue[n], q[1], q[2])
    BY <2>2, ServedByDefault
  <2>4. CASE Served(Catalogue[n], q[1], q[2])
    BY <1>2, <2>1, <2>4
  <2>5. CASE ~Served(Catalogue[n], q[1], q[2])
    BY <1>2, <2>1, <2>3, <2>5
  <2> QED
    BY <2>4, <2>5
<1>4. CASE Dispatch(u)
  <2>1. PICK q \in Requests :
            End(u, IF Dispatched(Catalogue[n], q[1], q[2]) THEN "served"
                                                           ELSE "missing")
    BY <1>4 DEF Dispatch
  <2>2. CASE Dispatched(Catalogue[n], q[1], q[2])
    BY <1>2, <2>1, <2>2
  <2>3. CASE ~Dispatched(Catalogue[n], q[1], q[2])
    BY <1>2, <2>1, <2>3
  <2> QED
    BY <2>2, <2>3
<1> QED
  BY <1>3, <1>4

-----------------------------------------------------------------------------

\* The other threads, while u takes or holds the lock of its process and
\* leaves the copy alone.
LEMMA OthersKept ==
    ASSUME Inv, NEW u \in Users, NEW v \in Users, v # u,
           user'[v] = user[v], config' = config, copy' = copy,
           lock' = lock \/ \E x \in {u, None} :
               lock[Proc[u]] \in {u, None} /\
               lock' = [lock EXCEPT ![Proc[u]] = x]
    PROVE  LockInv(v)' /\ LoadInv(v)' /\ ResultInv(v)'
<1>1. Proc[u] \in Procs /\ Proc[v] \in Procs /\ v # None
  BY ConstantsAssumption
<1>2. lock \in [Procs -> Users \union {None}]
  BY DEF Inv, Types
<1>3. lock'[Proc[v]] = v <=> lock[Proc[v]] = v
  BY <1>1, <1>2
<1>4. LockInv(v)'
  BY <1>3 DEF Inv, LockInv
<1> QED
  BY <1>4 DEF Inv, LoadInv, ResultInv, Loaded

LEMMA LockStep ==
    ASSUME Inv, NEW u \in Users, Lock(u)
    PROVE  Inv'
<1> DEFINE r == [user[u] EXCEPT !.pc = "version"]
<1>1. user[u] \in UserType
  BY DEF Inv, Types
<1>2. r \in UserType
  BY <1>1 DEF UserType, UserPcs
<1>3. /\ r.pc = "version" /\ r.snap = user[u].snap
      /\ r.since = user[u].since /\ r.ver = user[u].ver
      /\ r.used = user[u].used /\ r.result = user[u].result
  BY <1>1 DEF UserType
<1>4. user' = [user EXCEPT ![u] = r]
  BY DEF Lock, Goto, Inv, Types
<1> HIDE DEF r
<1>5. /\ user' \in [Users -> UserType]
      /\ user'[u] = r
      /\ \A v \in Users : v # u => user'[v] = user[v]
  BY <1>2, <1>4, UserChange DEF Inv
<1>6. Stores' /\ config' = config
  BY StoresKept DEF Inv, Lock
<1>7. copy' = copy /\ held' = held /\ recent' = recent /\ since' = since
  BY DEF Lock
<1>8. /\ lock[Proc[u]] = None /\ lock' = [lock EXCEPT ![Proc[u]] = u]
      /\ Proc[u] \in Procs
  BY ConstantsAssumption DEF Lock
<1>9. Types'
  BY <1>5, <1>7, <1>8 DEF Inv, Types
<1>10. \A p \in Procs : ProcInv(p)'
  BY <1>6, <1>7 DEF Inv, ProcInv, Loaded
<1>11. lock'[Proc[u]] = u
  BY <1>8 DEF Inv, Types
<1>12. LockInv(u)' /\ LoadInv(u)' /\ ResultInv(u)'
  <2>1. LoadInv(u) /\ ResultInv(u) /\ user[u].pc = "ensure"
    BY DEF Inv, Lock
  <2> QED
    BY <2>1, <1>3, <1>5, <1>6, <1>7, <1>11
    DEF LockInv, LoadInv, ResultInv, Loaded, Loading
<1>13. ASSUME NEW v \in Users, v # u
       PROVE  LockInv(v)' /\ LoadInv(v)' /\ ResultInv(v)'
  BY <1>5, <1>6, <1>7, <1>8, <1>13, OthersKept
<1> QED
  BY <1>6, <1>9, <1>10, <1>12, <1>13 DEF Inv

\* The version is one of an edit committed by now.
LEMMA CompareStep ==
    ASSUME Inv, NEW u \in Users, user[u].pc = "version",
           NEW v \in 0..MaxWrites, v <= config, Compare(u, v)
    PROVE  Inv'
<1>1. user[u] \in UserType /\ lock[Proc[u]] = u /\ Proc[u] \in Procs
      /\ user[u].pc = "version" /\ LoadInv(u) /\ ResultInv(u)
  BY ConstantsAssumption DEF Inv, Types, LockInv, Loading
<1>2. Stores' /\ config' = config
  BY StoresKept DEF Inv, Compare
<1>3. copy' = copy /\ held' = held /\ since' = since
  BY DEF Compare
<1>4. \A p \in Procs : ProcInv(p)'
  BY <1>2, <1>3 DEF Inv, ProcInv, Loaded
<1>5. CASE Loaded(Proc[u]) /\ v = held[Proc[u]]
  <2> DEFINE r == Request("use", "none")
  <2>2. /\ r \in UserType /\ r.pc = "use" /\ r.snap = None /\ r.since = None
        /\ r.ver = 0 /\ r.result = "none" /\ config \in Nat /\ 0 <= config
    BY FoundRecord
  <2>3. /\ user' = [user EXCEPT ![u] = r]
        /\ recent' = [recent EXCEPT ![Proc[u]] = TRUE]
        /\ lock' = [lock EXCEPT ![Proc[u]] = None]
    BY <1>5 DEF Compare, Found
  <2> HIDE DEF r
  <2>4. /\ user' \in [Users -> UserType]
        /\ user'[u] = r
        /\ \A w \in Users : w # u => user'[w] = user[w]
    BY <2>2, <2>3, UserChange DEF Inv
  <2>5. Types'
    BY <1>1, <1>3, <2>3, <2>4 DEF Inv, Types
  <2>6. lock'[Proc[u]] # u
    BY <1>1, <2>3, ConstantsAssumption DEF Inv, Types
  <2>7. LockInv(u)' /\ LoadInv(u)' /\ ResultInv(u)'
    BY <1>1, <1>2, <1>3, <1>5, <2>2, <2>4, <2>6
    DEF LockInv, LoadInv, ResultInv, Loaded, Loading
  <2>8. ASSUME NEW w \in Users, w # u
        PROVE  LockInv(w)' /\ LoadInv(w)' /\ ResultInv(w)'
    BY <1>1, <1>2, <1>3, <2>3, <2>4, <2>8, OthersKept
  <2> QED
    BY <1>2, <1>4, <2>5, <2>7, <2>8 DEF Inv
<1>6. CASE ~(Loaded(Proc[u]) /\ v = held[Proc[u]])
  <2> DEFINE r == [user[u] EXCEPT !.pc = "reload", !.ver = v]
  <2>1. r \in UserType
    BY <1>1 DEF UserType, UserPcs
  <2>2. /\ r.pc = "reload" /\ r.snap = user[u].snap
      /\ r.since = user[u].since /\ r.ver = v
        /\ r.used = user[u].used /\ r.result = user[u].result
    BY <1>1 DEF UserType
  <2>3. /\ user' = [user EXCEPT ![u] = r]
        /\ recent' = recent
        /\ lock' = lock
    BY <1>6 DEF Compare, Inv, Types
  <2> HIDE DEF r
  <2>4. /\ user' \in [Users -> UserType]
        /\ user'[u] = r
        /\ \A w \in Users : w # u => user'[w] = user[w]
    BY <2>1, <2>3, UserChange DEF Inv
  <2>5. Types'
    BY <1>1, <1>3, <2>3, <2>4 DEF Inv, Types
  <2>6. LockInv(u)' /\ LoadInv(u)' /\ ResultInv(u)'
    BY <1>1, <1>2, <1>3, <2>2, <2>3, <2>4
    DEF LockInv, LoadInv, ResultInv, Loaded, Loading
  <2>7. ASSUME NEW w \in Users, w # u
        PROVE  LockInv(w)' /\ LoadInv(w)' /\ ResultInv(w)'
    BY <1>2, <1>3, <2>3, <2>4, <2>7, OthersKept
  <2> QED
    BY <1>2, <1>4, <2>5, <2>6, <2>7 DEF Inv
<1> QED
  BY <1>5, <1>6

\* The snapshot is taken after the version was read, and after every load
\* that the copy of the process stems from.
LEMMA ReloadStep ==
    ASSUME Inv, NEW u \in Users, Reload(u)
    PROVE  Inv'
<1> DEFINE s == IF user[u].snap = None THEN config ELSE user[u].snap
           r == [user[u] EXCEPT !.pc = "store", !.snap = s]
<1>1. /\ user[u] \in UserType /\ user[u].pc = "reload"
      /\ LockInv(u) /\ LoadInv(u) /\ ResultInv(u)
      /\ ProcInv(Proc[u]) /\ Proc[u] \in Procs
  BY ConstantsAssumption DEF Inv, Types, Reload
<1>2. config \in 0..MaxWrites /\ config # None
  BY ConstantsAssumption DEF Inv, Stores
<1>3. s \in 0..MaxWrites /\ s <= config /\ s # None
      /\ IF user[u].since = None THEN s = config ELSE s = user[u].snap
  <2>1. user[u].snap \in 0..MaxWrites \union {None}
    BY <1>1 DEF UserType
  <2> QED
    BY <1>1, <1>2, <2>1, ConstantsAssumption DEF LoadInv
<1>4. r \in UserType
  BY <1>1, <1>3 DEF UserType, UserPcs
<1>5. /\ r.pc = "store" /\ r.snap = s /\ r.ver = user[u].ver
      /\ r.since = user[u].since
      /\ r.used = user[u].used /\ r.result = user[u].result
  BY <1>1 DEF UserType
<1>6. user' = [user EXCEPT ![u] = r]
  BY DEF Reload, Inv, Types
<1> HIDE DEF r, s
<1>7. /\ user' \in [Users -> UserType]
      /\ user'[u] = r
      /\ \A v \in Users : v # u => user'[v] = user[v]
  BY <1>4, <1>6, UserChange DEF Inv
<1>8. /\ Stores' /\ config' = config
      /\ copy' = copy /\ held' = held /\ recent' = recent /\ lock' = lock
      /\ since' = since
  BY StoresKept DEF Inv, Reload, manager
<1>9. Types'
  BY <1>7, <1>8 DEF Inv, Types
<1>10. \A p \in Procs : ProcInv(p)'
  BY <1>8 DEF Inv, ProcInv, Loaded
<1>11. LockInv(u)' /\ LoadInv(u)' /\ ResultInv(u)'
  <2>1. LockInv(u)' /\ ResultInv(u)'
    BY <1>1, <1>5, <1>7, <1>8 DEF LockInv, ResultInv, Loading
  <2>2. LoadInv(u)'
    BY <1>1, <1>3, <1>5, <1>7, <1>8 DEF LoadInv, ProcInv, Loaded
  <2> QED
    BY <2>1, <2>2
<1>12. ASSUME NEW v \in Users, v # u
       PROVE  LockInv(v)' /\ LoadInv(v)' /\ ResultInv(v)'
  BY <1>7, <1>8, <1>12, OthersKept
<1> QED
  BY <1>8, <1>9, <1>10, <1>11, <1>12 DEF Inv

LEMMA FailStep ==
    ASSUME Inv, NEW u \in Users, FailReload(u)
    PROVE  Inv'
<1> DEFINE r == Request("idle", "error")
<1>1. /\ user[u] \in UserType /\ user[u].pc = "reload"
      /\ lock[Proc[u]] = u /\ LoadInv(u) /\ Proc[u] \in Procs
  BY ConstantsAssumption DEF Inv, Types, FailReload, LockInv, Loading
<1>2. r \in UserType
  BY ConstantsAssumption DEF Request, UserType, UserPcs
<1>3. /\ r.pc = "idle" /\ r.snap = None /\ r.since = None /\ r.ver = 0
      /\ r.result = "error" /\ config \in Nat /\ 0 <= config
  BY ConstantsAssumption DEF Request, Inv, Stores
<1>4. /\ user' = [user EXCEPT ![u] = r]
      /\ lock' = [lock EXCEPT ![Proc[u]] = None]
  BY DEF FailReload
<1> HIDE DEF r
<1>5. /\ user' \in [Users -> UserType]
      /\ user'[u] = r
      /\ \A v \in Users : v # u => user'[v] = user[v]
  BY <1>2, <1>4, UserChange DEF Inv
<1>6. /\ Stores' /\ config' = config
      /\ copy' = copy /\ held' = held /\ recent' = recent /\ since' = since
  BY StoresKept DEF Inv, FailReload
<1>7. Types'
  BY <1>1, <1>4, <1>5, <1>6 DEF Inv, Types
<1>8. \A p \in Procs : ProcInv(p)'
  BY <1>6 DEF Inv, ProcInv, Loaded
<1>9. lock'[Proc[u]] # u
  BY <1>1, <1>4, ConstantsAssumption DEF Inv, Types
<1>10. LockInv(u)' /\ LoadInv(u)' /\ ResultInv(u)'
  BY <1>1, <1>3, <1>5, <1>6, <1>9
  DEF LockInv, LoadInv, ResultInv, Loaded, Loading
<1>11. ASSUME NEW v \in Users, v # u
       PROVE  LockInv(v)' /\ LoadInv(v)' /\ ResultInv(v)'
  BY <1>1, <1>4, <1>5, <1>6, <1>11, OthersKept
<1> QED
  BY <1>6, <1>7, <1>8, <1>10, <1>11 DEF Inv

\* The copy is replaced by one that is at least as new, as the lock keeps
\* every other load of the process away, or is as old as the snapshot the
\* request has brought.
LEMMA StoreStep ==
    ASSUME Inv, NEW u \in Users, Store(u)
    PROVE  /\ Inv'
           /\ \A p \in Procs : Loaded(p) =>
                  copy'[p] >= copy[p] \/ ReadBefore(since'[p], copy[p])
<1> DEFINE r == Request("use", "none")
           q == Proc[u]
           s == user[u].snap
<1>1. /\ user[u] \in UserType /\ user[u].pc = "store"
      /\ lock[q] = u /\ LoadInv(u) /\ ResultInv(u) /\ q \in Procs
  BY ConstantsAssumption DEF Inv, Types, Store, LockInv, Loading
<1>2. /\ s \in 0..MaxWrites /\ s # None /\ s <= config
      /\ user[u].ver \in 0..MaxWrites /\ user[u].ver # None
      /\ user[u].since \in 0..MaxWrites \union {None}
      /\ IF user[u].since = None
         THEN user[u].ver <= s /\ (Loaded(q) => copy[q] <= s)
         ELSE user[u].since <= s
  BY <1>1, ConstantsAssumption DEF LoadInv, UserType
<1>3. r \in UserType
  BY FoundRecord
<1>4. /\ r.pc = "use" /\ r.snap = None /\ r.since = None /\ r.ver = 0
      /\ r.result = "none" /\ config \in Nat /\ 0 <= config
  BY FoundRecord
<1>5. /\ user' = [user EXCEPT ![u] = r]
      /\ copy' = [copy EXCEPT ![q] = s]
      /\ held' = [held EXCEPT ![q] = user[u].ver]
      /\ recent' = [recent EXCEPT ![q] = TRUE]
      /\ lock' = [lock EXCEPT ![q] = None]
      /\ since' = [since EXCEPT ![q] = user[u].since]
  BY DEF Store, Found
<1> HIDE DEF r, s
<1>6. /\ user' \in [Users -> UserType]
      /\ user'[u] = r
      /\ \A v \in Users : v # u => user'[v] = user[v]
  BY <1>3, <1>5, UserChange DEF Inv
<1>7. Stores' /\ config' = config
  BY StoresKept DEF Inv, Store
<1>8. Types'
  BY <1>1, <1>2, <1>5, <1>6 DEF Inv, Types
<1>9. /\ copy'[q] = s /\ held'[q] = user[u].ver /\ since'[q] = user[u].since
      /\ \A p \in Procs : p # q => /\ copy'[p] = copy[p]
                                   /\ held'[p] = held[p]
                                   /\ since'[p] = since[p]
  BY <1>1, <1>5 DEF Inv, Types
<1>10. \A p \in Procs : ProcInv(p)'
  BY <1>2, <1>7, <1>9 DEF Inv, ProcInv, Loaded
<1>11. lock'[q] = None
  BY <1>1, <1>5 DEF Inv, Types
<1>12. LockInv(u)' /\ LoadInv(u)' /\ ResultInv(u)'
  <2>1. LockInv(u)'
    BY <1>4, <1>6, <1>11, ConstantsAssumption DEF LockInv, Loading
  <2>2. LoadInv(u)' /\ ResultInv(u)'
    BY <1>1, <1>2, <1>4, <1>6, <1>7, <1>9
    DEF LoadInv, ResultInv, Loaded
  <2> QED
    BY <2>1, <2>2
<1>13. ASSUME NEW v \in Users, v # u
       PROVE  LockInv(v)' /\ LoadInv(v)' /\ ResultInv(v)'
  <2>1. LockInv(v) /\ LoadInv(v) /\ ResultInv(v) /\ Proc[v] \in Procs
    BY ConstantsAssumption DEF Inv
  <2>2. CASE Proc[v] = q
    <3>1. user[v].pc \notin Loading
      BY <1>1, <1>13, <2>1, <2>2 DEF LockInv
    <3>2. LockInv(v)'
      BY <1>6, <1>11, <1>13, <2>2, <3>1, ConstantsAssumption DEF LockInv
    <3>3. LoadInv(v)' /\ ResultInv(v)'
      BY <1>2, <1>6, <1>7, <1>9, <1>13, <2>1, <2>2, <3>1
      DEF LoadInv, ResultInv, Loaded, Loading
    <3> QED
      BY <3>2, <3>3
  <2>3. CASE Proc[v] # q
    <3>1. lock'[Proc[v]] = lock[Proc[v]]
      BY <1>1, <1>5, <2>1, <2>3 DEF Inv, Types
    <3> QED
      BY <1>6, <1>7, <1>9, <1>13, <2>1, <2>3, <3>1
      DEF LockInv, LoadInv, ResultInv, Loaded
  <2> QED
    BY <2>2, <2>3
<1>14. Inv'
  BY <1>7, <1>8, <1>10, <1>12, <1>13 DEF Inv
<1>15. ASSUME NEW p \in Procs, Loaded(p)
       PROVE  copy'[p] >= copy[p] \/ ReadBefore(since'[p], copy[p])
  <2>1. copy[p] \in Nat
    BY <1>15, Numbers DEF Inv, Types, Loaded
  <2>2. CASE p = q /\ user[u].since # None
    <3>1. user[u].since \in Nat
      BY <1>2, <2>2, Numbers
    <3> QED
      BY <1>2, <1>9, <2>1, <2>2, <3>1 DEF ReadBefore
  <2>3. CASE p # q \/ user[u].since = None
    BY <1>2, <1>9, <1>15, <2>1, <2>3
  <2> QED
    BY <2>2, <2>3
<1> QED
  BY <1>14, <1>15

-----------------------------------------------------------------------------

LEMMA AgeStep ==
    ASSUME Inv, NEW p \in Procs, Age(p)
    PROVE  Inv'
<1>1. Stores' /\ config' = config
  BY StoresKept DEF Inv, Age
<1>2. /\ copy' = copy /\ held' = held /\ lock' = lock /\ user' = user
      /\ since' = since
      /\ recent' = [recent EXCEPT ![p] = FALSE]
  BY DEF Age
<1>3. Types'
  BY <1>2 DEF Inv, Types
<1>4. \A q \in Procs : ProcInv(q)'
  BY <1>1, <1>2 DEF Inv, ProcInv, Loaded
<1>5. \A u \in Users : LockInv(u)' /\ LoadInv(u)' /\ ResultInv(u)'
  BY <1>1, <1>2 DEF Inv, LockInv, LoadInv, ResultInv, Loaded
<1> QED
  BY <1>1, <1>3, <1>4, <1>5 DEF Inv

\* An edit only makes the catalogue newer than everything else.
LEMMA EditStep ==
    ASSUME Inv, Stores', config' >= config,
           UNCHANGED <<manager, since, user>>
    PROVE  Inv'
<1>1. /\ copy' = copy /\ held' = held /\ lock' = lock /\ recent' = recent
      /\ user' = user /\ since' = since
  BY DEF manager
<1>2. config \in Nat /\ config' \in Nat
  BY ConstantsAssumption DEF Inv, Stores
<1>3. Types'
  BY <1>1 DEF Inv, Types
<1>4. \A p \in Procs : ProcInv(p)'
  <2> SUFFICES ASSUME NEW p \in Procs PROVE ProcInv(p)'
    OBVIOUS
  <2>1. Loaded(p) => copy[p] \in Nat
    BY Numbers DEF Inv, Types, Loaded
  <2> QED
    BY <1>1, <1>2, <2>1 DEF Inv, ProcInv, Loaded
<1>5. \A u \in Users : LockInv(u)' /\ LoadInv(u)' /\ ResultInv(u)'
  <2> SUFFICES ASSUME NEW u \in Users
               PROVE  LockInv(u)' /\ LoadInv(u)' /\ ResultInv(u)'
    OBVIOUS
  <2>1. user[u].ver \in Nat /\ user[u].snap \in 0..MaxWrites \union {None}
    BY ConstantsAssumption DEF Inv, Types, UserType
  <2>2. user[u].snap # None => user[u].snap \in Nat
    BY <2>1, Numbers
  <2> QED
    BY <1>1, <1>2, <2>1, <2>2
    DEF Inv, LockInv, LoadInv, ResultInv, Loaded
<1> QED
  BY <1>3, <1>4, <1>5 DEF Inv

LEMMA AdminStep ==
    ASSUME Inv, NEW a \in Admins, Commit(a) \/ Bump(a) \/ Die(a)
    PROVE  Inv'
<1>1. /\ IsFiniteSet(Pending) /\ Cardinality(Pending) \in Nat
      /\ MaxWrites \in Nat /\ config \in 0..MaxWrites /\ version \in Nat
      /\ admin \in [Admins -> {"idle", "bump"}]
      /\ version + Cardinality(Pending) <= config
  BY PendingFinite, ConstantsAssumption DEF Inv, Stores
<1>2. CASE Commit(a)
  <2>1. /\ admin' = [admin EXCEPT ![a] = "bump"] /\ admin[a] = "idle"
        /\ config' = config + 1 /\ version' = version /\ config < MaxWrites
    BY <1>2 DEF Commit
  <2>2. Pending' = Pending \union {a} /\ a \notin Pending
    BY <1>1, <2>1 DEF Pending
  <2>3. Cardinality(Pending') = Cardinality(Pending) + 1
    BY <1>1, <2>2, FS_AddElement
  <2>4. Stores'
    BY <1>1, <2>1, <2>3 DEF Stores
  <2>5. config' >= config
    BY <1>1, <2>1
  <2> QED
    BY <1>2, <2>4, <2>5, EditStep DEF Commit
<1>3. CASE Bump(a) \/ Die(a)
  <2>1. /\ admin' = [admin EXCEPT ![a] = "idle"] /\ admin[a] = "bump"
        /\ config' = config /\ version' \in {version, version + 1}
    BY <1>3 DEF Bump, Die, stores
  <2>2. Pending' = Pending \ {a} /\ a \in Pending
    BY <1>1, <2>1 DEF Pending
  <2>3. Cardinality(Pending') = Cardinality(Pending) - 1
    BY <1>1, <2>2, FS_RemoveElement
  <2>4. Stores'
    BY <1>1, <2>1, <2>3 DEF Stores
  <2>5. config' >= config
    BY <1>1, <2>1
  <2> QED
    BY <1>3, <2>4, <2>5, EditStep DEF Bump, Die
<1> QED
  BY <1>2, <1>3

LEMMA RestartStep ==
    ASSUME Inv, NEW p \in Procs, Restart(p)
    PROVE  Inv'
<1>1. Stores' /\ config' = config /\ config \in Nat /\ 0 <= config
  BY StoresKept, ConstantsAssumption DEF Inv, Stores, Restart
<1>2. /\ copy' = [copy EXCEPT ![p] = None]
      /\ held' = [held EXCEPT ![p] = None]
      /\ recent' = [recent EXCEPT ![p] = FALSE]
      /\ lock' = [lock EXCEPT ![p] = None]
      /\ since' = [since EXCEPT ![p] = None]
      /\ user' = [u \in Users |-> IF Proc[u] = p THEN Idle ELSE user[u]]
  BY DEF Restart
<1>3. Idle \in UserType
  BY ConstantsAssumption DEF Idle, Request, UserType, UserPcs
<1>4. Types'
  BY <1>2, <1>3 DEF Inv, Types
<1>5. \A q \in Procs : ProcInv(q)'
  BY <1>1, <1>2 DEF Inv, Types, ProcInv, Loaded
<1>6. ASSUME NEW u \in Users
      PROVE  LockInv(u)' /\ LoadInv(u)' /\ ResultInv(u)'
  <2>1. Proc[u] \in Procs /\ u # None
    BY ConstantsAssumption
  <2>2. CASE Proc[u] = p
    <3>1. user'[u] = Idle /\ lock'[Proc[u]] = None
      BY <1>2, <2>2 DEF Inv, Types
    <3> QED
      BY <1>1, <2>1, <3>1
      DEF Idle, Request, LockInv, LoadInv, ResultInv, Loading
  <2>3. CASE Proc[u] # p
    <3>1. /\ user'[u] = user[u] /\ lock'[Proc[u]] = lock[Proc[u]]
          /\ copy'[Proc[u]] = copy[Proc[u]]
      BY <1>2, <2>1, <2>3 DEF Inv, Types
    <3> QED
      BY <1>1, <3>1 DEF Inv, LockInv, LoadInv, ResultInv, Loaded
  <2> QED
    BY <2>2, <2>3
<1> QED
  BY <1>1, <1>4, <1>5, <1>6 DEF Inv

-----------------------------------------------------------------------------

\* Every step keeps the invariant, and takes no copy back but in this way.
LEMMA NextStep ==
    ASSUME Inv, [Next]_vars
    PROVE  /\ Inv'
           /\ \A p \in Procs :
                  Loaded(p) /\ Loaded(p)' =>
                      copy'[p] >= copy[p] \/ ReadBefore(since'[p], copy[p])
<1> DEFINE NotBack ==
        \A p \in Procs :
            Loaded(p) /\ Loaded(p)' =>
                copy'[p] >= copy[p] \/ ReadBefore(since'[p], copy[p])
<1>1. ASSUME copy' = copy PROVE NotBack
  <2>1. \A p \in Procs : Loaded(p) => copy[p] \in Nat
    BY Numbers DEF Inv, Types, Loaded
  <2> QED
    BY <1>1, <2>1
<1>2. ASSUME NEW u \in Users, Begin(u) \/ Step(u)
      PROVE  Inv' /\ NotBack
  <2>1. CASE Begin(u)
    <3>1. copy' = copy
      BY <2>1 DEF Begin, manager
    <3> QED
      BY <1>1, <2>1, <3>1, BeginInv
  <2>2. CASE FindCurrent(u)
    <3>1. copy' = copy
      BY <2>2 DEF FindCurrent, manager
    <3> QED
      BY <1>1, <2>2, <3>1, FindInv
  <2>3. CASE Lock(u)
    <3>1. copy' = copy
      BY <2>3 DEF Lock
    <3> QED
      BY <1>1, <2>3, <3>1, LockStep
  <2>4. CASE ReadVersion(u)
    <3>1. user[u].pc = "version" /\ Compare(u, version)
      BY <2>4 DEF ReadVersion
    <3>2. copy' = copy
      BY <3>1 DEF Compare
    <3> QED
      BY <1>1, <3>1, <3>2, VersionBehind, CompareStep
  <2>5. CASE MissVersion(u)
    <3>1. user[u].pc = "version" /\ Compare(u, 0)
      BY <2>5 DEF MissVersion
    <3>2. copy' = copy
      BY <3>1 DEF Compare
    <3>3. 0 \in 0..MaxWrites
      BY ConstantsAssumption
    <3> QED
      BY <1>1, <3>1, <3>2, <3>3, VersionBehind, CompareStep
  <2>6. CASE Reload(u)
    <3>1. copy' = copy
      BY <2>6 DEF Reload, manager
    <3> QED
      BY <1>1, <2>6, <3>1, ReloadStep
  <2>7. CASE FailReload(u)
    <3>1. copy' = copy
      BY <2>7 DEF FailReload
    <3> QED
      BY <1>1, <2>7, <3>1, FailStep
  <2>8. CASE Store(u)
    BY <2>8, StoreStep
  <2>9. CASE Instantiate(u) \/ Dispatch(u)
    <3>1. copy' = copy
      BY <2>9 DEF Instantiate, Dispatch, End, manager
    <3> QED
      BY <1>1, <2>9, <3>1, UseInv
  <2> QED
    BY <1>2, <2>1, <2>2, <2>3, <2>4, <2>5, <2>6, <2>7, <2>8, <2>9 DEF Step
<1>3. ASSUME NEW a \in Admins, Commit(a) \/ Bump(a) \/ Die(a)
      PROVE  Inv' /\ NotBack
  <2>1. copy' = copy
    BY <1>3 DEF Commit, Bump, Die, manager
  <2> QED
    BY <1>1, <1>3, <2>1, AdminStep
<1>4. ASSUME NEW p \in Procs, Age(p)
      PROVE  Inv' /\ NotBack
  <2>1. copy' = copy
    BY <1>4 DEF Age
  <2> QED
    BY <1>1, <1>4, <2>1, AgeStep
<1>5. ASSUME NEW p \in Procs, Restart(p)
      PROVE  Inv' /\ NotBack
  <2>1. copy' = [copy EXCEPT ![p] = None]
    BY <1>5 DEF Restart
  <2>2. copy'[p] = None /\ \A q \in Procs : q # p => copy'[q] = copy[q]
    BY <2>1 DEF Inv, Types
  <2>3. \A q \in Procs : Loaded(q) => copy[q] \in Nat
    BY Numbers DEF Inv, Types, Loaded
  <2>4. NotBack
    BY <2>2, <2>3 DEF Loaded
  <2> QED
    BY <1>5, <2>4, RestartStep
<1>6. CASE UNCHANGED vars
  <2>1. UNCHANGED <<stores, admin>> /\ UNCHANGED <<manager, since, user>>
        /\ copy' = copy /\ config' = config
    BY <1>6 DEF vars, manager, stores
  <2>2. Stores' /\ config' >= config
    <3>1. config \in Nat
      BY ConstantsAssumption DEF Inv, Stores
    <3> QED
      BY <2>1, <3>1, StoresKept DEF Inv
  <2> QED
    BY <1>1, <2>1, <2>2, EditStep
<1> QED
  BY <1>2, <1>3, <1>4, <1>5, <1>6 DEF Next

LEMMA Invariance == Spec => []Inv
<1>1. Inv /\ [Next]_vars => Inv'
  BY NextStep
<1> QED
  BY InitInv, <1>1, PTL DEF Spec

-----------------------------------------------------------------------------

\* Every variable keeps its type; in particular the version never gets ahead
\* of the edits.
THEOREM Typing == Spec => []TypeOK
<1>1. Inv => TypeOK
  BY VersionBehind DEF Inv, Stores, Types, TypeOK
<1> QED
  BY Invariance, <1>1, PTL

\* A copy that lacks an edit announced up to the version it carries was
\* loaded by a request that had read a row before that announcement.
THEOREM CopiesHaveTheirVersion == Spec => []CopyHasItsVersion
<1>1. Inv => CopyHasItsVersion
  <2> SUFFICES ASSUME Inv, NEW p \in Procs, Loaded(p), NEW n \in 1..held[p]
               PROVE  copy[p] >= n \/ ReadBefore(since[p], n)
    BY DEF CopyHasItsVersion
  <2>1. /\ held[p] # None
        /\ IF since[p] = None THEN held[p] <= copy[p]
           ELSE since[p] <= copy[p]
    BY DEF Inv, ProcInv
  <2>2. held[p] \in Nat /\ copy[p] \in Nat /\ n \in Nat
    BY <2>1, Numbers DEF Inv, Types, Loaded
  <2>3. since[p] # None => since[p] \in Nat
    BY Numbers DEF Inv, Types
  <2> QED
    BY <2>1, <2>2, <2>3 DEF ReadBefore
<1> QED
  BY Invariance, <1>1, PTL

\* The copy of a running process goes back only by a request that had read a
\* row before the edits that are lost were announced.
THEOREM CopiesNeverGoBack == Spec => NeverGoesBack
<1>1. Inv /\ [Next]_vars =>
          [\A p \in Procs :
              Loaded(p) /\ Loaded(p)' =>
                  copy'[p] >= copy[p] \/ ReadBefore(since'[p], copy[p])]_vars
  BY NextStep
<1> QED
  BY Invariance, <1>1, PTL DEF Spec, NeverGoesBack

\* A chat is refused only when the default model could not stand in.
THEOREM DefaultAlwaysServes == Spec => []DefaultServes
<1>1. Inv => DefaultServes
  BY DEF Inv, ResultInv, DefaultServes
<1> QED
  BY Invariance, <1>1, PTL

=============================================================================
