------------------------- MODULE AtomicKeywordTable -------------------------
(***************************************************************************)
(* What the keyword table of one dataset promises to its callers: a call   *)
(* adds or removes its own segments at one instant between its start and   *)
(* its return, on the table the calls before it left, or it is refused and *)
(* changes nothing.  Every other entry keeps its place.                    *)
(***************************************************************************)

CONSTANTS Procs, Segs

VARIABLES
    entries,  \* the segments the table names
    rows,     \* the segments that exist; ids are never used again
    gone,     \* the dataset was deleted
    call      \* what each caller has asked for

vars == <<entries, rows, gone, call>>

NoCall == [state |-> "idle", adds |-> FALSE, ids |-> {}]

Init ==
    /\ entries \in SUBSET Segs
    /\ rows = Segs
    /\ gone = FALSE
    /\ call = [p \in Procs |-> NoCall]

Ask(p, adds, S) ==
    /\ call[p].state = "idle"
    /\ call' = [call EXCEPT ![p] = [state |-> "asked", adds |-> adds,
                                    ids |-> S]]
    /\ UNCHANGED <<entries, rows, gone>>

\* Segments that vanish while the call runs may or may not be added.
Add(p, S) ==
    /\ call[p].state = "asked" /\ call[p].adds
    /\ S \subseteq call[p].ids /\ call[p].ids \intersect rows \subseteq S
    /\ entries' = entries \union S
    /\ call' = [call EXCEPT ![p].state = "done"]
    /\ UNCHANGED <<rows, gone>>

Remove(p) ==
    /\ call[p].state = "asked" /\ ~call[p].adds
    /\ entries' = entries \ call[p].ids
    /\ call' = [call EXCEPT ![p].state = "done"]
    /\ UNCHANGED <<rows, gone>>

\* A deleted dataset, and nothing else, makes the table refuse a call.
Refuse(p) ==
    /\ gone
    /\ call[p].state = "asked"
    /\ call' = [call EXCEPT ![p].state = "done"]
    /\ UNCHANGED <<entries, rows, gone>>

\* The call returns, or its process dies in the middle of it.
End(p) ==
    /\ call' = [call EXCEPT ![p] = NoCall]
    /\ UNCHANGED <<entries, rows, gone>>

LoseRow(s) == rows' = rows \ {s} /\ UNCHANGED <<entries, gone, call>>

DeleteDataset == rows' = {} /\ gone' = TRUE /\ UNCHANGED <<entries, call>>

DropTable == gone /\ entries' = {} /\ UNCHANGED <<rows, gone, call>>

Next ==
    \/ \E p \in Procs :
        \/ \E adds \in BOOLEAN, S \in SUBSET Segs : Ask(p, adds, S)
        \/ \E S \in SUBSET Segs : Add(p, S)
        \/ Remove(p) \/ Refuse(p) \/ End(p)
    \/ \E s \in Segs : LoseRow(s)
    \/ DeleteDataset \/ DropTable

Spec == Init /\ [][Next]_vars

=============================================================================
