---------------------------- MODULE KeywordTable ----------------------------
(***************************************************************************)
(* KeywordTableService: the keyword table of one dataset is one JSON row   *)
(* that every caller reads, changes and writes back whole, inside a redis  *)
(* lock with a time to live.                                               *)
(*                                                                         *)
(* MySQL runs with its default isolation level: the first SELECT of a      *)
(* transaction fixes what the later ones see.  Every caller but the        *)
(* delete_document task evaluates an expired attribute (document.          *)
(* dataset_id, seg.id, seg.enabled) for the arguments of the call, and so  *)
(* opens its transaction before it asks for the lock.                      *)
(*                                                                         *)
(* An entry is a segment id; the keywords it is listed under are left out. *)
(***************************************************************************)
EXTENDS FiniteSets, Naturals

CONSTANTS
    Procs,      \* pool children and web threads that call the service
    Segs,       \* ids of the dataset's segments
    Ops,        \* the calls made, a subset of OpKinds
    Isolation,  \* transaction isolation of the database
    Faults,     \* what the environment may do, a subset of FaultKinds
    None        \* nobody holds the lock

(***************************************************************************)
(* add      _index_keywords, create/update/enable of a segment, enable of  *)
(*          a document                                                     *)
(* remove   _purge_partial, update/disable/delete of a segment, disable of *)
(*          a document                                                     *)
(* cleanup  the delete_document task                                       *)
(***************************************************************************)
OpKinds == {"add", "remove", "cleanup"}

(***************************************************************************)
(* kill     a process dies at any point of a call                          *)
(* expiry   a call holds the lock for longer than its time to live         *)
(* dataset  the dataset is deleted                                         *)
(***************************************************************************)
FaultKinds == {"kill", "expiry", "dataset"}

ASSUME ConstantsAssumption ==
    /\ Ops \subseteq OpKinds
    /\ Isolation \in {"repeatable read", "read committed"}
    /\ Faults \subseteq FaultKinds
    /\ None \notin Procs

VARIABLES
    row,     \* the ai_keyword_table row: 0 none, 1 and then 2 its identity
    table,   \* its keyword_table
    rows,    \* segment rows that exist
    dataset, \* "present", "deleted" by a request, "cleaned" by its task
    lock,    \* lock:keyword_table:{dataset_id}
    call     \* what each process is doing

vars == <<row, table, rows, dataset, lock, call>>

-----------------------------------------------------------------------------
Pcs == {"idle", "lock", "find", "create", "refresh", "change", "release"}

\* The places inside the with block.
Inside == Pcs \ {"idle", "lock"}

Unseen == [row |-> 0, table |-> {}, rows |-> {}, fixed |-> FALSE]

NoCall == [pc |-> "idle", op |-> "cleanup", ids |-> {}, seen |-> Unseen]

SeenType == [row : 0..2, table : SUBSET Segs, rows : SUBSET Segs,
             fixed : BOOLEAN]
CallType == [pc : Pcs, op : OpKinds, ids : SUBSET Segs, seen : SeenType]

\* What a SELECT without a snapshot returns.
Now == [row |-> row, table |-> table, rows |-> rows, fixed |-> TRUE]

ReadsFirst(op) == Isolation = "repeatable read" /\ op # "cleanup"

Init ==
    /\ \/ row = 0 /\ table = {}
       \/ row = 1 /\ table \in SUBSET Segs
    /\ rows = Segs
    /\ dataset = "present"
    /\ lock = None
    /\ call = [p \in Procs |-> NoCall]

\* The caller evaluates its arguments; without segment ids it returns.
Begin(p, op, S) ==
    /\ call[p].pc = "idle"
    /\ S # {}
    /\ call' = [call EXCEPT ![p] =
                    [pc |-> "lock", op |-> op, ids |-> S,
                     seen |-> IF ReadsFirst(op) THEN Now ELSE Unseen]]
    /\ UNCHANGED <<row, table, rows, dataset, lock>>

\* Mutant: the call does not wait until the lock is free.
AcquireAnyway(p) ==
    /\ call[p].pc = "lock"
    /\ lock' = p
    /\ call' = [call EXCEPT ![p].pc = "find"]
    /\ UNCHANGED <<row, table, rows, dataset>>

Acquire(p) ==
    /\ call[p].pc = "lock"
    /\ lock = None
    /\ lock' = p
    /\ call' = [call EXCEPT ![p].pc = "find"]
    /\ UNCHANGED <<row, table, rows, dataset>>

\* get_or_create: the row as the transaction sees it.
Find(p) ==
    /\ call[p].pc = "find"
    /\ LET seen == IF call[p].seen.fixed THEN call[p].seen ELSE Now IN
       call' = [call EXCEPT ![p] = [@ EXCEPT
                    !.seen = seen,
                    !.pc = IF seen.row = 0 THEN "create" ELSE "change"]]
    /\ UNCHANGED <<row, table, rows, dataset, lock>>

\* get_or_create: the unique index refuses a second row.
Create(p) ==
    /\ call[p].pc = "create"
    /\ IF row = 0
       THEN /\ row' = IF dataset = "cleaned" THEN 2 ELSE 1
            /\ table' = {}
            /\ call' = [call EXCEPT ![p].pc = "refresh"]
       ELSE /\ call' = [call EXCEPT ![p].pc = "release"]
            /\ UNCHANGED <<row, table>>
    /\ UNCHANGED <<rows, dataset, lock>>

\* get_or_create: the first SELECT of the transaction after the INSERT; it
\* raises if the row is gone again.
Refresh(p) ==
    /\ call[p].pc = "refresh"
    /\ call' = [call EXCEPT ![p] = [@ EXCEPT
                    !.seen = Now,
                    !.pc = IF row = 0 THEN "release" ELSE "change"]]
    /\ UNCHANGED <<row, table, rows, dataset, lock>>

\* The new table is computed from the one that was read.
Changed(p) ==
    IF call[p].op = "add"
    THEN LET visible == IF Isolation = "repeatable read"
                        THEN call[p].seen.rows ELSE rows
         IN  call[p].seen.table \union (call[p].ids \intersect visible)
    ELSE call[p].seen.table \ call[p].ids

\* A value equal to the one loaded sends no UPDATE; an UPDATE that finds no
\* row raises.
Change(p) ==
    /\ call[p].pc = "change"
    /\ LET same == Changed(p) = call[p].seen.table
           found == row = call[p].seen.row
       IN table' = IF same \/ ~found THEN table ELSE Changed(p)
    /\ call' = [call EXCEPT ![p].pc = "release"]
    /\ UNCHANGED <<row, rows, dataset, lock>>

\* The end of the with block; a lock that is no longer owned is not freed.
Release(p) ==
    /\ call[p].pc = "release"
    /\ lock' = IF lock = p THEN None ELSE lock
    /\ call' = [call EXCEPT ![p] = NoCall]
    /\ UNCHANGED <<row, table, rows, dataset>>

-----------------------------------------------------------------------------
(* The environment.                                                        *)

\* A killed process leaves the lock to its time to live.
Kill(p) ==
    /\ "kill" \in Faults
    /\ call[p].pc # "idle"
    /\ call' = [call EXCEPT ![p] = NoCall]
    /\ UNCHANGED <<row, table, rows, dataset, lock>>

Abandoned == lock # None /\ call[lock].pc \notin Inside

\* Mutant: the lock has no time to live.
ExpireNever ==
    /\ "expiry" \in Faults
    /\ lock # None
    /\ ~Abandoned
    /\ lock' = None
    /\ UNCHANGED <<row, table, rows, dataset, call>>

Expire ==
    /\ lock # None
    /\ Abandoned \/ "expiry" \in Faults
    /\ lock' = None
    /\ UNCHANGED <<row, table, rows, dataset, call>>

\* Segment rows are deleted outside the lock.
LoseRow(s) ==
    /\ s \in rows
    /\ rows' = rows \ {s}
    /\ UNCHANGED <<row, table, dataset, lock, call>>

DeleteDataset ==
    /\ "dataset" \in Faults
    /\ dataset = "present"
    /\ dataset' = "deleted"
    /\ rows' = {}
    /\ UNCHANGED <<row, table, lock, call>>

\* The delete_dataset task removes the row without taking the lock.
DropTable ==
    /\ dataset = "deleted"
    /\ dataset' = "cleaned"
    /\ row' = 0
    /\ table' = {}
    /\ UNCHANGED <<rows, lock, call>>

Step(p) == Acquire(p) \/ Find(p) \/ Create(p) \/ Refresh(p) \/ Change(p)
           \/ Release(p)

Next ==
    \/ \E p \in Procs :
        \/ \E op \in Ops, S \in SUBSET Segs : Begin(p, op, S)
        \/ Step(p) \/ Kill(p)
    \/ Expire
    \/ \E s \in Segs : LoseRow(s)
    \/ DeleteDataset \/ DropTable

Spec == Init /\ [][Next]_vars

(***************************************************************************)
(* A living caller goes on, and redis removes a key whose time has passed. *)
(* Waiters poll for the lock, so each of them is served in the end unless  *)
(* others take it at every single poll: strong fairness.                   *)
(***************************************************************************)
Fairness ==
    /\ \A p \in Procs : WF_vars(Step(p)) /\ SF_vars(Acquire(p))
    /\ WF_vars(Expire)

FairSpec == Spec /\ Fairness

-----------------------------------------------------------------------------
(* Properties.                                                             *)

\* The shape of every variable.
TypeOK ==
    /\ row \in 0..2
    /\ table \in SUBSET Segs
    /\ rows \in SUBSET Segs
    /\ dataset \in {"present", "deleted", "cleaned"}
    /\ lock \in Procs \union {None}
    /\ call \in [Procs -> CallType]

\* What the calls look like from outside.
Promise ==
    [p \in Procs |->
        IF call[p].pc = "idle"
        THEN [state |-> "idle", adds |-> FALSE, ids |-> {}]
        ELSE [state |-> IF call[p].pc = "release" THEN "done" ELSE "asked",
              adds |-> call[p].op = "add", ids |-> call[p].ids]]

Abstract == INSTANCE AtomicKeywordTable WITH
    entries <- table, gone <- dataset # "present", call <- Promise

\* Every call is atomic and none but a call on a deleted dataset is refused:
\* the service implements AtomicKeywordTable.
Atomic == Abstract!Spec

\* Whoever waits for the lock gets it, though its holder may have died.
CallersAreServed ==
    \A p \in Procs : call[p].pc = "lock" ~> call[p].pc # "lock"

=============================================================================
