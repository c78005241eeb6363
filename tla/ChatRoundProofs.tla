-------------------------- MODULE ChatRoundProofs --------------------------
(***************************************************************************)
(* What the rounds of a conversation promise for any number of rounds and  *)
(* accounts, any length of answer and any faults: what the client was told *)
(* is stored, the row says why its round ended, history is settled when it *)
(* is read, and the generators implement Round.                            *)
(*                                                                         *)
(* The argument is about one round at a time: where its generator is says  *)
(* whether its row is open, what its status may be and what has been sent; *)
(* the steps of a round leave the others as they are.                      *)
(***************************************************************************)
EXTENDS ChatRound, FiniteSetTheorems, TLAPS

Early == {"none", "asked"}
Body == {"open", "ping", "loop", "yield", "halt", "final"}
Late == {"thoughts", "enqueue", "clear", "end", "done"}

\* Where the generator is, and whether its row is there and closed.
RowFacts(r) ==
    /\ gen[r].pc \in Early => row[r].status = "none"
    /\ gen[r].pc \in Body \union Late => row[r].status # "none"
    /\ row[r].status = "none" => ~row[r].closed /\ gen[r].said = 0
    /\ gen[r].pc \in Early \union Body => ~row[r].closed
    /\ gen[r].pc \in Late => row[r].closed
    /\ ~row[r].closed =>
        row[r].answer = 0 /\ out[r].end = "none" /\ r \notin sent
    /\ row[r].closed =>
        row[r].status = gen[r].status /\ row[r].answer = gen[r].said
    /\ gen[r].pc \in {"thoughts", "enqueue"} => r \notin sent

\* What has been said and sent, and why the round ends.
EndFacts(r) ==
    /\ gen[r].pc \in {"none", "asked", "open", "ping", "loop", "yield"} =>
        gen[r].status = "normal" /\ out[r].mark = "none"
    /\ gen[r].pc \in {"none", "asked", "open", "ping"} => gen[r].said = 0
    /\ gen[r].pc = "loop" /\ gen[r].kind = "sync" => gen[r].said = 0
    /\ gen[r].pc = "yield" => gen[r].kind # "sync"
    /\ gen[r].pc = "halt" => gen[r].status # "normal"
    /\ gen[r].pc \in {"final"} \union Late /\ gen[r].status = "normal" =>
        gen[r].whole \/ gen[r].left
    /\ row[r].closed /\ gen[r].status = "normal" =>
        gen[r].whole \/ gen[r].left
    /\ out[r].mark # "none" => gen[r].status = out[r].mark
    /\ out[r].end # "none" => row[r].closed /\ gen[r].status = out[r].end

\* A stop comes from a request of the owner.
StopFacts(r) ==
    /\ gen[r].status = "stop" => <<Owner[r], r>> \in asked
    /\ r \in stopped => <<Owner[r], r>> \in asked
    /\ \A u \in Users : <<u, r>> \in found => Owner[r] = u /\ <<u, r>> \in asked

\* A turn that has been read as history.
Settled(q, answer) ==
    /\ row[q].closed
    /\ row[q].answer = answer
    /\ gen[q].whole \/ gen[q].left

Turns == \A r \in Rounds : \A turn \in hist[r] : Settled(turn[1], turn[2])

IInv ==
    /\ TypeOK
    /\ \A r \in Rounds : RowFacts(r) /\ EndFacts(r) /\ StopFacts(r)
    /\ Turns

Step(r) == Advance(r) \/ Hurt(r) \/ Outside(r)

-----------------------------------------------------------------------------

\* A step of one round leaves what the others are about.
LEMMA Frame ==
    ASSUME TypeOK, NEW r \in Rounds, Step(r), NEW q \in Rounds, q # r
    PROVE  /\ gen'[q] = gen[q] /\ row'[q] = row[q] /\ out'[q] = out[q]
           /\ q \in sent' <=> q \in sent
           /\ q \in stopped' <=> q \in stopped
           /\ \A u \in Users : /\ <<u, q>> \in found' <=> <<u, q>> \in found
                               /\ <<u, q>> \in asked' <=> <<u, q>> \in asked
<1>1. CASE Append(r)
  BY <1>1 DEF Append, At, Goto, TypeOK
<1>2. CASE SetUp(r)
  BY <1>2 DEF SetUp, At, Goto, TypeOK
<1>3. CASE Register(r)
  BY <1>3 DEF Register, At, Goto, TypeOK
<1>4. CASE Say(r)
  BY <1>4 DEF Say, At, TypeOK
<1>5. CASE Act(r)
  BY <1>5 DEF Act, At, TypeOK
<1>6. CASE Resume(r)
  BY <1>6 DEF Resume, At, Goto, TypeOK
<1>7. CASE Halt(r)
  BY <1>7 DEF Halt, At, Announce, TypeOK
<1>8. CASE Finish(r)
  BY <1>8 DEF Finish, At, TypeOK
<1>9. CASE Halted(r)
  BY <1>9 DEF Halted, At, Goto, TypeOK
<1>10. CASE Answer(r)
  BY <1>10 DEF Answer, At, TypeOK
<1>11. CASE Exit(r)
  BY <1>11 DEF Exit, TypeOK
<1>12. CASE Final(r)
  BY <1>12 DEF Final, At, Goto, TypeOK
<1>13. CASE Persist(r)
  BY <1>13 DEF Persist, At, Goto, TypeOK
<1>14. CASE Enqueue(r)
  BY <1>14 DEF Enqueue, At, Goto, TypeOK
<1>15. CASE Clear(r)
  BY <1>15 DEF Clear, At, Goto, TypeOK
<1>16. CASE End(r)
  BY <1>16 DEF End, At, Goto, TypeOK
<1>17. CASE SetUpFails(r)
  BY <1>17 DEF SetUpFails, At, Goto, TypeOK
<1>18. CASE NotStarted(r)
  BY <1>18 DEF NotStarted, At, Goto, TypeOK
<1>19. CASE Fail(r)
  BY <1>19 DEF Fail, At, Announce, TypeOK
<1>20. CASE FinalFails(r)
  BY <1>20 DEF FinalFails, At, Goto, TypeOK
<1>21. CASE ClearFails(r)
  BY <1>21 DEF ClearFails, At, Goto, TypeOK
<1>22. CASE Expire(r)
  BY <1>22 DEF Expire, TypeOK
<1>23. CASE Crash(r)
  BY <1>23 DEF Crash, Goto, Running, TypeOK
<1>24. CASE Leave(r)
  BY <1>24 DEF Leave, TypeOK
<1>25. CASE Delete(r)
  BY <1>25 DEF Delete, TypeOK
<1>26. CASE \E kind \in Kinds[r] : Ask(r, kind)
  BY <1>26 DEF Ask, At, TypeOK
<1>27. CASE \E u \in Users : Find(u, r) \/ SetStop(u, r)
  BY <1>27 DEF Find, SetStop, TypeOK
<1> QED
  BY <1>1, <1>2, <1>3, <1>4, <1>5, <1>6, <1>7, <1>8, <1>9, <1>10, <1>11, <1>12,
     <1>13, <1>14, <1>15, <1>16, <1>17, <1>18, <1>19, <1>20, <1>21, <1>22,
     <1>23, <1>24, <1>25, <1>26, <1>27 DEF Step, Advance, Hurt, Outside

\* Going on to another step keeps the type of the generators.
LEMMA GotoType ==
    ASSUME gen \in [Rounds -> GenType], NEW r \in Rounds, NEW pc \in PCs,
           Goto(r, pc)
    PROVE  gen' \in [Rounds -> GenType]
<1> DEFINE g == [gen[r] EXCEPT !.pc = pc]
<1>1. g \in GenType
  BY DEF GenType
<1>2. gen' = [gen EXCEPT ![r] = g]
  BY DEF Goto
<1> QED
  BY <1>1, <1>2

\* So does announcing how the round ends.
LEMMA AnnounceType ==
    ASSUME TypeOK, NEW r \in Rounds, NEW status \in {"stop", "error"},
           Announce(r, status)
    PROVE  gen' \in [Rounds -> GenType] /\ out' \in [Rounds -> OutType]
<1> DEFINE g == [gen[r] EXCEPT !.status = status, !.pc = "halt"]
           o == [out[r] EXCEPT !.mark = status]
<1>0. gen[r] \in GenType /\ out[r] \in OutType
  BY DEF TypeOK
<1>1. g \in GenType
  BY <1>0 DEF GenType, PCs, Statuses
<1>3. o \in OutType
  BY <1>0 DEF OutType
<1>2. gen' = [gen EXCEPT ![r] = g] /\ out' = [out EXCEPT ![r] = o]
  BY DEF TypeOK, Announce
<1> QED
  BY <1>1, <1>2, <1>3 DEF TypeOK

\* The history is a set of turns.
LEMMA HistoryType ==
    ASSUME TypeOK
    PROVE  History \in SUBSET (Rounds \X (0..MaxSaid))
<1>1. \A q \in Rounds : row[q].answer \in 0..MaxSaid
  BY DEF TypeOK, RowType
<1>2. PICK turns \in SUBSET Rounds :
        History = {<<q, row[q].answer>> : q \in turns}
  BY DEF History
<1> QED
  BY <1>1, <1>2

\* The variables keep to their types.
LEMMA StepType ==
    ASSUME TypeOK, NEW r \in Rounds, Step(r)
    PROVE  TypeOK'
<1> USE DEF TypeOK
<1>0. gen[r] \in GenType /\ row[r] \in RowType /\ out[r] \in OutType
  OBVIOUS
<1>1. CASE Append(r)
  <2>5. Cardinality(Opened) \in Nat
    BY RoundsAssumption, FS_Subset, FS_CardinalityType DEF Opened
  <2>1. PICK n \in Nat : n = Cardinality(Opened) + 1
    BY <2>5
  <2> DEFINE w == [row[r] EXCEPT !.status = "normal",
                                 !.at = n]
  <2>2. w \in RowType
    BY <1>0 DEF RowType, Statuses
  <2>3. row' = [row EXCEPT ![r] = w]
    BY <1>1, <2>1 DEF Append
  <2>4. gen' \in [Rounds -> GenType]
    BY <1>1, GotoType DEF Append, PCs
  <2> QED
    BY <1>1, <2>2, <2>3, <2>4 DEF Append
<1>2. CASE SetUp(r)
  BY <1>2, GotoType DEF SetUp, PCs
<1>3. CASE Register(r)
  BY <1>3, GotoType DEF Register, PCs
<1>4. CASE Resume(r)
  BY <1>4, GotoType DEF Resume, PCs
<1>5. CASE Halted(r)
  BY <1>5, GotoType DEF Halted, PCs
<1>6. CASE SetUpFails(r)
  BY <1>6, GotoType DEF SetUpFails, PCs
<1>7. CASE NotStarted(r)
  BY <1>7, GotoType DEF NotStarted, PCs
<1>8. CASE FinalFails(r)
  BY <1>8, GotoType DEF FinalFails, PCs
<1>9. CASE ClearFails(r)
  BY <1>9, GotoType DEF ClearFails, PCs
<1>10. CASE Persist(r)
  BY <1>10, GotoType DEF Persist, PCs
<1>11. CASE Enqueue(r)
  BY <1>11, GotoType DEF Enqueue, PCs
<1>12. CASE Clear(r)
  BY <1>12, GotoType DEF Clear, PCs
<1>13. CASE Crash(r)
  BY <1>13, GotoType DEF Crash, PCs
<1>14. CASE Halt(r)
  BY <1>14, AnnounceType DEF Halt
<1>15. CASE Fail(r)
  BY <1>15, AnnounceType DEF Fail
<1>16. CASE Final(r)
  <2> DEFINE w == [row[r] EXCEPT !.answer = gen[r].said,
                                 !.status = gen[r].status,
                                 !.closed = TRUE]
  <2>1. w \in RowType
    BY <1>0 DEF RowType, GenType
  <2>2. row' = [row EXCEPT ![r] = w]
    BY <1>16 DEF Final
  <2>3. gen' \in [Rounds -> GenType]
    BY <1>16, GotoType DEF Final, PCs
  <2> HIDE DEF w
  <2> QED
    BY <1>16, <2>1, <2>2, <2>3 DEF Final
<1>17. CASE End(r)
  <2> DEFINE o == [out[r] EXCEPT !.end = IF gen[r].left THEN out[r].end
                                         ELSE gen[r].status]
  <2>1. o \in OutType
    BY <1>0 DEF OutType, GenType
  <2>2. out' = [out EXCEPT ![r] = o]
    BY <1>17 DEF End
  <2>3. gen' \in [Rounds -> GenType]
    BY <1>17, GotoType DEF End, PCs
  <2> QED
    BY <1>17, <2>1, <2>2, <2>3 DEF End
<1>18. CASE \E kind \in Kinds[r] : Ask(r, kind)
  <2>1. PICK kind \in Kinds[r] : Ask(r, kind)
    BY <1>18
  <2>2. kind \in {"agent", "plain", "sync"}
    BY RoundsAssumption
  <2> DEFINE g == [gen[r] EXCEPT !.pc = "asked", !.kind = kind]
  <2>3. g \in GenType
    BY <1>0, <2>2 DEF GenType, PCs
  <2>4. gen' = [gen EXCEPT ![r] = g]
    BY <2>1 DEF Ask
  <2> QED
    BY <2>1, <2>3, <2>4, HistoryType DEF Ask
<1>19. CASE Say(r)
  BY RoundsAssumption, <1>19 DEF Say, At, GenType, PCs, Statuses
<1>20. CASE Act(r)
  BY RoundsAssumption, <1>20 DEF Act, At, GenType, PCs, Statuses
<1>21. CASE Finish(r)
  BY RoundsAssumption, <1>21 DEF Finish, At, GenType, PCs, Statuses
<1>22. CASE Answer(r)
  BY RoundsAssumption, <1>22 DEF Answer, At, GenType, PCs, Statuses
<1>23. CASE Exit(r)
  BY RoundsAssumption, <1>23 DEF Exit, At, GenType, PCs, Statuses
<1>24. CASE Expire(r)
  BY RoundsAssumption, <1>24 DEF Expire, At, GenType, PCs, Statuses
<1>25. CASE Leave(r)
  BY RoundsAssumption, <1>25 DEF Leave, At, GenType, PCs, Statuses
<1>26. CASE Delete(r)
  BY RoundsAssumption, <1>26 DEF Delete, At, GenType, PCs, Statuses
<1>27. CASE \E u \in Users : Find(u, r) \/ SetStop(u, r)
  BY <1>27 DEF Find, SetStop
<1> QED
  BY <1>1, <1>2, <1>3, <1>4, <1>5, <1>6, <1>7, <1>8, <1>9, <1>10, <1>11, <1>12,
     <1>13, <1>14, <1>15, <1>16, <1>17, <1>18, <1>19, <1>20, <1>21, <1>22,
     <1>23, <1>24, <1>25, <1>26, <1>27 DEF Step, Advance, Hurt, Outside

\* Where the row is.
LEMMA StepRow ==
    ASSUME TypeOK, TypeOK', NEW r \in Rounds, Step(r), RowFacts(r),
           EndFacts(r)
    PROVE  RowFacts(r)'
<1>1. CASE Append(r)
  BY <1>1 DEF Append, At, Goto, TypeOK, GenType, RowType, OutType, PCs,
     RowFacts, EndFacts, Early, Body, Late
<1>2. CASE SetUp(r)
  BY <1>2 DEF SetUp, At, Goto, TypeOK, GenType, RowType, OutType, PCs,
     RowFacts, EndFacts, Early, Body, Late
<1>3. CASE Register(r)
  BY <1>3 DEF Register, At, Goto, TypeOK, GenType, RowType, OutType, PCs,
     RowFacts, EndFacts, Early, Body, Late
<1>4. CASE Say(r)
  BY <1>4 DEF Say, At, TypeOK, GenType, RowType, OutType, PCs, RowFacts,
     EndFacts, Early, Body, Late
<1>5. CASE Act(r)
  BY <1>5 DEF Act, At, TypeOK, GenType, RowType, OutType, PCs, RowFacts,
     EndFacts, Early, Body, Late
<1>6. CASE Resume(r)
  BY <1>6 DEF Resume, At, Goto, TypeOK, GenType, RowType, OutType, PCs,
     RowFacts, EndFacts, Early, Body, Late
<1>7. CASE Halt(r)
  BY <1>7 DEF Halt, At, Announce, TypeOK, GenType, RowType, OutType, PCs,
     RowFacts, EndFacts, Early, Body, Late
<1>8. CASE Finish(r)
  BY <1>8 DEF Finish, At, TypeOK, GenType, RowType, OutType, PCs, RowFacts,
     EndFacts, Early, Body, Late
<1>9. CASE Halted(r)
  BY <1>9 DEF Halted, At, Goto, TypeOK, GenType, RowType, OutType, PCs,
     RowFacts, EndFacts, Early, Body, Late
<1>10. CASE Answer(r)
  BY <1>10 DEF Answer, At, TypeOK, GenType, RowType, OutType, PCs, RowFacts,
     EndFacts, Early, Body, Late
<1>11. CASE Exit(r)
  BY <1>11 DEF Exit, TypeOK, GenType, RowType, OutType, PCs, RowFacts,
     EndFacts, Early, Body, Late
<1>12. CASE Final(r)
  BY <1>12 DEF Final, At, Goto, TypeOK, GenType, RowType, OutType, PCs,
     RowFacts, EndFacts, Early, Body, Late
<1>13. CASE Persist(r)
  BY <1>13 DEF Persist, At, Goto, TypeOK, GenType, RowType, OutType, PCs,
     RowFacts, EndFacts, Early, Body, Late
<1>14. CASE Enqueue(r)
  BY <1>14 DEF Enqueue, At, Goto, TypeOK, GenType, RowType, OutType, PCs,
     RowFacts, EndFacts, Early, Body, Late
<1>15. CASE Clear(r)
  BY <1>15 DEF Clear, At, Goto, TypeOK, GenType, RowType, OutType, PCs,
     RowFacts, EndFacts, Early, Body, Late
<1>16. CASE End(r)
  BY <1>16 DEF End, At, Goto, TypeOK, GenType, RowType, OutType, PCs, RowFacts,
     EndFacts, Early, Body, Late
<1>17. CASE SetUpFails(r)
  BY <1>17 DEF SetUpFails, At, Goto, TypeOK, GenType, RowType, OutType, PCs,
     RowFacts, EndFacts, Early, Body, Late
<1>18. CASE NotStarted(r)
  BY <1>18 DEF NotStarted, At, Goto, TypeOK, GenType, RowType, OutType, PCs,
     RowFacts, EndFacts, Early, Body, Late
<1>19. CASE Fail(r)
  BY <1>19 DEF Fail, At, Announce, TypeOK, GenType, RowType, OutType, PCs,
     RowFacts, EndFacts, Early, Body, Late
<1>20. CASE FinalFails(r)
  BY <1>20 DEF FinalFails, At, Goto, TypeOK, GenType, RowType, OutType, PCs,
     RowFacts, EndFacts, Early, Body, Late
<1>21. CASE ClearFails(r)
  BY <1>21 DEF ClearFails, At, Goto, TypeOK, GenType, RowType, OutType, PCs,
     RowFacts, EndFacts, Early, Body, Late
<1>22. CASE Expire(r)
  BY <1>22 DEF Expire, TypeOK, GenType, RowType, OutType, PCs, RowFacts,
     EndFacts, Early, Body, Late
<1>23. CASE Crash(r)
  BY <1>23 DEF Crash, Goto, Running, TypeOK, GenType, RowType, OutType, PCs,
     RowFacts, EndFacts, Early, Body, Late
<1>24. CASE Leave(r)
  BY <1>24 DEF Leave, TypeOK, GenType, RowType, OutType, PCs, RowFacts,
     EndFacts, Early, Body, Late
<1>25. CASE Delete(r)
  BY <1>25 DEF Delete, TypeOK, GenType, RowType, OutType, PCs, RowFacts,
     EndFacts, Early, Body, Late
<1>26. CASE \E kind \in Kinds[r] : Ask(r, kind)
  BY <1>26 DEF Ask, At, TypeOK, GenType, RowType, OutType, PCs, RowFacts,
     EndFacts, Early, Body, Late
<1>27. CASE \E u \in Users : Find(u, r) \/ SetStop(u, r)
  BY <1>27 DEF Find, SetStop, TypeOK, GenType, RowType, OutType, PCs, RowFacts,
     EndFacts, Early, Body, Late
<1> QED
  BY <1>1, <1>2, <1>3, <1>4, <1>5, <1>6, <1>7, <1>8, <1>9, <1>10, <1>11, <1>12,
     <1>13, <1>14, <1>15, <1>16, <1>17, <1>18, <1>19, <1>20, <1>21, <1>22,
     <1>23, <1>24, <1>25, <1>26, <1>27 DEF Step, Advance, Hurt, Outside

\* Why the round ends.
LEMMA StepEnd ==
    ASSUME TypeOK, TypeOK', NEW r \in Rounds, Step(r), RowFacts(r),
           EndFacts(r)
    PROVE  EndFacts(r)'
<1>1. CASE Append(r)
  BY <1>1 DEF Append, At, Goto, TypeOK, GenType, RowType, OutType, PCs,
     RowFacts, EndFacts, Early, Body, Late
<1>2. CASE SetUp(r)
  BY <1>2 DEF SetUp, At, Goto, TypeOK, GenType, RowType, OutType, PCs,
     RowFacts, EndFacts, Early, Body, Late
<1>3. CASE Register(r)
  BY <1>3 DEF Register, At, Goto, TypeOK, GenType, RowType, OutType, PCs,
     RowFacts, EndFacts, Early, Body, Late
<1>4. CASE Say(r)
  BY <1>4 DEF Say, At, TypeOK, GenType, RowType, OutType, PCs, RowFacts,
     EndFacts, Early, Body, Late
<1>5. CASE Act(r)
  BY <1>5 DEF Act, At, TypeOK, GenType, RowType, OutType, PCs, RowFacts,
     EndFacts, Early, Body, Late
<1>6. CASE Resume(r)
  BY <1>6 DEF Resume, At, Goto, TypeOK, GenType, RowType, OutType, PCs,
     RowFacts, EndFacts, Early, Body, Late
<1>7. CASE Halt(r)
  BY <1>7 DEF Halt, At, Announce, TypeOK, GenType, RowType, OutType, PCs,
     RowFacts, EndFacts, Early, Body, Late
<1>8. CASE Finish(r)
  BY <1>8 DEF Finish, At, TypeOK, GenType, RowType, OutType, PCs, RowFacts,
     EndFacts, Early, Body, Late
<1>9. CASE Halted(r)
  BY <1>9 DEF Halted, At, Goto, TypeOK, GenType, RowType, OutType, PCs,
     RowFacts, EndFacts, Early, Body, Late
<1>10. CASE Answer(r)
  BY <1>10 DEF Answer, At, TypeOK, GenType, RowType, OutType, PCs, RowFacts,
     EndFacts, Early, Body, Late
<1>11. CASE Exit(r)
  BY <1>11 DEF Exit, TypeOK, GenType, RowType, OutType, PCs, RowFacts,
     EndFacts, Early, Body, Late
<1>12. CASE Final(r)
  BY <1>12 DEF Final, At, Goto, TypeOK, GenType, RowType, OutType, PCs,
     RowFacts, EndFacts, Early, Body, Late
<1>13. CASE Persist(r)
  BY <1>13 DEF Persist, At, Goto, TypeOK, GenType, RowType, OutType, PCs,
     RowFacts, EndFacts, Early, Body, Late
<1>14. CASE Enqueue(r)
  BY <1>14 DEF Enqueue, At, Goto, TypeOK, GenType, RowType, OutType, PCs,
     RowFacts, EndFacts, Early, Body, Late
<1>15. CASE Clear(r)
  BY <1>15 DEF Clear, At, Goto, TypeOK, GenType, RowType, OutType, PCs,
     RowFacts, EndFacts, Early, Body, Late
<1>16. CASE End(r)
  BY <1>16 DEF End, At, Goto, TypeOK, GenType, RowType, OutType, PCs, RowFacts,
     EndFacts, Early, Body, Late
<1>17. CASE SetUpFails(r)
  BY <1>17 DEF SetUpFails, At, Goto, TypeOK, GenType, RowType, OutType, PCs,
     RowFacts, EndFacts, Early, Body, Late
<1>18. CASE NotStarted(r)
  BY <1>18 DEF NotStarted, At, Goto, TypeOK, GenType, RowType, OutType, PCs,
     RowFacts, EndFacts, Early, Body, Late
<1>19. CASE Fail(r)
  BY <1>19 DEF Fail, At, Announce, TypeOK, GenType, RowType, OutType, PCs,
     RowFacts, EndFacts, Early, Body, Late
<1>20. CASE FinalFails(r)
  BY <1>20 DEF FinalFails, At, Goto, TypeOK, GenType, RowType, OutType, PCs,
     RowFacts, EndFacts, Early, Body, Late
<1>21. CASE ClearFails(r)
  BY <1>21 DEF ClearFails, At, Goto, TypeOK, GenType, RowType, OutType, PCs,
     RowFacts, EndFacts, Early, Body, Late
<1>22. CASE Expire(r)
  BY <1>22 DEF Expire, TypeOK, GenType, RowType, OutType, PCs, RowFacts,
     EndFacts, Early, Body, Late
<1>23. CASE Crash(r)
  BY <1>23 DEF Crash, Goto, Running, TypeOK, GenType, RowType, OutType, PCs,
     RowFacts, EndFacts, Early, Body, Late
<1>24. CASE Leave(r)
  BY <1>24 DEF Leave, TypeOK, GenType, RowType, OutType, PCs, RowFacts,
     EndFacts, Early, Body, Late
<1>25. CASE Delete(r)
  BY <1>25 DEF Delete, TypeOK, GenType, RowType, OutType, PCs, RowFacts,
     EndFacts, Early, Body, Late
<1>26. CASE \E kind \in Kinds[r] : Ask(r, kind)
  BY <1>26 DEF Ask, At, TypeOK, GenType, RowType, OutType, PCs, RowFacts,
     EndFacts, Early, Body, Late
<1>27. CASE \E u \in Users : Find(u, r) \/ SetStop(u, r)
  BY <1>27 DEF Find, SetStop, TypeOK, GenType, RowType, OutType, PCs, RowFacts,
     EndFacts, Early, Body, Late
<1> QED
  BY <1>1, <1>2, <1>3, <1>4, <1>5, <1>6, <1>7, <1>8, <1>9, <1>10, <1>11, <1>12,
     <1>13, <1>14, <1>15, <1>16, <1>17, <1>18, <1>19, <1>20, <1>21, <1>22,
     <1>23, <1>24, <1>25, <1>26, <1>27 DEF Step, Advance, Hurt, Outside

\* Who asked for a stop.
LEMMA StepStop ==
    ASSUME TypeOK, NEW r \in Rounds, Step(r), StopFacts(r)
    PROVE  StopFacts(r)'
<1>1. CASE Append(r)
  BY <1>1 DEF Append, At, Goto, TypeOK, GenType, StopFacts
<1>2. CASE SetUp(r)
  BY <1>2 DEF SetUp, At, Goto, TypeOK, GenType, StopFacts
<1>3. CASE Register(r)
  BY <1>3 DEF Register, At, Goto, TypeOK, GenType, StopFacts
<1>4. CASE Say(r)
  BY <1>4 DEF Say, At, TypeOK, GenType, StopFacts
<1>5. CASE Act(r)
  BY <1>5 DEF Act, At, TypeOK, GenType, StopFacts
<1>6. CASE Resume(r)
  BY <1>6 DEF Resume, At, Goto, TypeOK, GenType, StopFacts
<1>7. CASE Halt(r)
  BY <1>7 DEF Halt, At, Announce, TypeOK, GenType, StopFacts
<1>8. CASE Finish(r)
  BY <1>8 DEF Finish, At, TypeOK, GenType, StopFacts
<1>9. CASE Halted(r)
  BY <1>9 DEF Halted, At, Goto, TypeOK, GenType, StopFacts
<1>10. CASE Answer(r)
  BY <1>10 DEF Answer, At, TypeOK, GenType, StopFacts
<1>11. CASE Exit(r)
  BY <1>11 DEF Exit, TypeOK, GenType, StopFacts
<1>12. CASE Final(r)
  BY <1>12 DEF Final, At, Goto, TypeOK, GenType, StopFacts
<1>13. CASE Persist(r)
  BY <1>13 DEF Persist, At, Goto, TypeOK, GenType, StopFacts
<1>14. CASE Enqueue(r)
  BY <1>14 DEF Enqueue, At, Goto, TypeOK, GenType, StopFacts
<1>15. CASE Clear(r)
  BY <1>15 DEF Clear, At, Goto, TypeOK, GenType, StopFacts
<1>16. CASE End(r)
  BY <1>16 DEF End, At, Goto, TypeOK, GenType, StopFacts
<1>17. CASE SetUpFails(r)
  BY <1>17 DEF SetUpFails, At, Goto, TypeOK, GenType, StopFacts
<1>18. CASE NotStarted(r)
  BY <1>18 DEF NotStarted, At, Goto, TypeOK, GenType, StopFacts
<1>19. CASE Fail(r)
  BY <1>19 DEF Fail, At, Announce, TypeOK, GenType, StopFacts
<1>20. CASE FinalFails(r)
  BY <1>20 DEF FinalFails, At, Goto, TypeOK, GenType, StopFacts
<1>21. CASE ClearFails(r)
  BY <1>21 DEF ClearFails, At, Goto, TypeOK, GenType, StopFacts
<1>22. CASE Expire(r)
  BY <1>22 DEF Expire, TypeOK, GenType, StopFacts
<1>23. CASE Crash(r)
  BY <1>23 DEF Crash, Goto, Running, TypeOK, GenType, StopFacts
<1>24. CASE Leave(r)
  BY <1>24 DEF Leave, TypeOK, GenType, StopFacts
<1>25. CASE Delete(r)
  BY <1>25 DEF Delete, TypeOK, GenType, StopFacts
<1>26. CASE \E kind \in Kinds[r] : Ask(r, kind)
  BY <1>26 DEF Ask, At, TypeOK, GenType, StopFacts
<1>27. CASE \E u \in Users : Find(u, r) \/ SetStop(u, r)
  BY <1>27 DEF Find, SetStop, TypeOK, GenType, StopFacts
<1> QED
  BY <1>1, <1>2, <1>3, <1>4, <1>5, <1>6, <1>7, <1>8, <1>9, <1>10, <1>11, <1>12,
     <1>13, <1>14, <1>15, <1>16, <1>17, <1>18, <1>19, <1>20, <1>21, <1>22,
     <1>23, <1>24, <1>25, <1>26, <1>27 DEF Step, Advance, Hurt, Outside

\* A settled turn stays as it was read.
LEMMA StepSettled ==
    ASSUME TypeOK, NEW r \in Rounds, Step(r), RowFacts(r),
           NEW answer, Settled(r, answer)
    PROVE  Settled(r, answer)'
<1>1. CASE Append(r)
  BY <1>1 DEF Append, At, Goto, TypeOK, GenType, RowType, RowFacts, Settled,
     Early, Body
<1>2. CASE SetUp(r)
  BY <1>2 DEF SetUp, At, Goto, TypeOK, GenType, RowType, RowFacts, Settled,
     Early, Body
<1>3. CASE Register(r)
  BY <1>3 DEF Register, At, Goto, TypeOK, GenType, RowType, RowFacts, Settled,
     Early, Body
<1>4. CASE Say(r)
  BY <1>4 DEF Say, At, TypeOK, GenType, RowType, RowFacts, Settled, Early, Body
<1>5. CASE Act(r)
  BY <1>5 DEF Act, At, TypeOK, GenType, RowType, RowFacts, Settled, Early, Body
<1>6. CASE Resume(r)
  BY <1>6 DEF Resume, At, Goto, TypeOK, GenType, RowType, RowFacts, Settled,
     Early, Body
<1>7. CASE Halt(r)
  BY <1>7 DEF Halt, At, Announce, TypeOK, GenType, RowType, RowFacts, Settled,
     Early, Body
<1>8. CASE Finish(r)
  BY <1>8 DEF Finish, At, TypeOK, GenType, RowType, RowFacts, Settled, Early,
     Body
<1>9. CASE Halted(r)
  BY <1>9 DEF Halted, At, Goto, TypeOK, GenType, RowType, RowFacts, Settled,
     Early, Body
<1>10. CASE Answer(r)
  BY <1>10 DEF Answer, At, TypeOK, GenType, RowType, RowFacts, Settled, Early,
     Body
<1>11. CASE Exit(r)
  BY <1>11 DEF Exit, TypeOK, GenType, RowType, RowFacts, Settled, Early, Body
<1>12. CASE Final(r)
  BY <1>12 DEF Final, At, Goto, TypeOK, GenType, RowType, RowFacts, Settled,
     Early, Body
<1>13. CASE Persist(r)
  BY <1>13 DEF Persist, At, Goto, TypeOK, GenType, RowType, RowFacts, Settled,
     Early, Body
<1>14. CASE Enqueue(r)
  BY <1>14 DEF Enqueue, At, Goto, TypeOK, GenType, RowType, RowFacts, Settled,
     Early, Body
<1>15. CASE Clear(r)
  BY <1>15 DEF Clear, At, Goto, TypeOK, GenType, RowType, RowFacts, Settled,
     Early, Body
<1>16. CASE End(r)
  BY <1>16 DEF End, At, Goto, TypeOK, GenType, RowType, RowFacts, Settled,
     Early, Body
<1>17. CASE SetUpFails(r)
  BY <1>17 DEF SetUpFails, At, Goto, TypeOK, GenType, RowType, RowFacts,
     Settled, Early, Body
<1>18. CASE NotStarted(r)
  BY <1>18 DEF NotStarted, At, Goto, TypeOK, GenType, RowType, RowFacts,
     Settled, Early, Body
<1>19. CASE Fail(r)
  BY <1>19 DEF Fail, At, Announce, TypeOK, GenType, RowType, RowFacts, Settled,
     Early, Body
<1>20. CASE FinalFails(r)
  BY <1>20 DEF FinalFails, At, Goto, TypeOK, GenType, RowType, RowFacts,
     Settled, Early, Body
<1>21. CASE ClearFails(r)
  BY <1>21 DEF ClearFails, At, Goto, TypeOK, GenType, RowType, RowFacts,
     Settled, Early, Body
<1>22. CASE Expire(r)
  BY <1>22 DEF Expire, TypeOK, GenType, RowType, RowFacts, Settled, Early, Body
<1>23. CASE Crash(r)
  BY <1>23 DEF Crash, Goto, Running, TypeOK, GenType, RowType, RowFacts,
     Settled, Early, Body
<1>24. CASE Leave(r)
  BY <1>24 DEF Leave, TypeOK, GenType, RowType, RowFacts, Settled, Early, Body
<1>25. CASE Delete(r)
  BY <1>25 DEF Delete, TypeOK, GenType, RowType, RowFacts, Settled, Early, Body
<1>26. CASE \E kind \in Kinds[r] : Ask(r, kind)
  BY <1>26 DEF Ask, At, TypeOK, GenType, RowType, RowFacts, Settled, Early,
     Body
<1>27. CASE \E u \in Users : Find(u, r) \/ SetStop(u, r)
  BY <1>27 DEF Find, SetStop, TypeOK, GenType, RowType, RowFacts, Settled,
     Early, Body
<1> QED
  BY <1>1, <1>2, <1>3, <1>4, <1>5, <1>6, <1>7, <1>8, <1>9, <1>10, <1>11, <1>12,
     <1>13, <1>14, <1>15, <1>16, <1>17, <1>18, <1>19, <1>20, <1>21, <1>22,
     <1>23, <1>24, <1>25, <1>26, <1>27 DEF Step, Advance, Hurt, Outside

\* What a history takes is settled when it is taken.
LEMMA HistoryTaken ==
    ASSUME IInv
    PROVE  \A turn \in History : Settled(turn[1], turn[2])
<1> SUFFICES ASSUME NEW turn \in History
             PROVE  Settled(turn[1], turn[2])
  OBVIOUS
<1>0. PICK q \in Rounds : Readable(q) /\ turn = <<q, row[q].answer>>
  BY DEF History
<1>1. RowFacts(q) /\ EndFacts(q)
  BY DEF IInv
<1>2. row[q].closed
  BY <1>0, <1>1 DEF RowFacts, Readable
<1> QED
  BY <1>0, <1>1, <1>2 DEF RowFacts, EndFacts, Readable, Settled

LEMMA InitIInv == Init => IInv
<1> SUFFICES ASSUME Init PROVE IInv
  OBVIOUS
<1>1. TypeOK
  BY RoundsAssumption
  DEF Init, TypeOK, GenType, RowType, OutType, PCs, Statuses
<1>2. \A r \in Rounds : RowFacts(r) /\ EndFacts(r) /\ StopFacts(r)
  BY DEF Init, RowFacts, EndFacts, StopFacts, Early, Body, Late
<1>3. Turns
  BY DEF Init, Turns
<1> QED
  BY <1>1, <1>2, <1>3 DEF IInv

\* A step of a round keeps what is known of it and of the others.
LEMMA StepIInv ==
    ASSUME IInv, NEW r \in Rounds, Step(r)
    PROVE  IInv'
<1>1. TypeOK /\ RowFacts(r) /\ EndFacts(r) /\ StopFacts(r)
  BY DEF IInv
<1>2. TypeOK'
  BY <1>1, StepType
<1>3. RowFacts(r)' /\ EndFacts(r)' /\ StopFacts(r)'
  BY <1>1, <1>2, StepRow, StepEnd, StepStop
<1>4. ASSUME NEW q \in Rounds, q # r
      PROVE  RowFacts(q)' /\ EndFacts(q)' /\ StopFacts(q)'
  <2>1. /\ gen'[q] = gen[q] /\ row'[q] = row[q] /\ out'[q] = out[q]
        /\ q \in sent' <=> q \in sent
        /\ q \in stopped' <=> q \in stopped
        /\ \A u \in Users : /\ <<u, q>> \in found' <=> <<u, q>> \in found
                            /\ <<u, q>> \in asked' <=> <<u, q>> \in asked
    BY <1>1, <1>4, Frame
  <2>2. RowFacts(q) /\ EndFacts(q) /\ StopFacts(q)
    BY DEF IInv
  <2>3. RowFacts(q)'
    BY <2>1, <2>2 DEF RowFacts
  <2>4. EndFacts(q)'
    BY <2>1, <2>2 DEF EndFacts
  <2>5. StopFacts(q)'
    BY <2>1, <2>2, RoundsAssumption DEF StopFacts
  <2> QED
    BY <2>3, <2>4, <2>5
<1>5. ASSUME NEW q \in Rounds, NEW answer, Settled(q, answer)
      PROVE  Settled(q, answer)'
  <2>1. CASE q = r
    BY <1>1, <1>5, <2>1, StepSettled
  <2>2. CASE q # r
    <3>1. gen'[q] = gen[q] /\ row'[q] = row[q]
      BY <1>1, <2>2, Frame
    <3> QED
      BY <1>5, <3>1 DEF Settled
  <2> QED
    BY <2>1, <2>2
<1>6. \A p \in Rounds : \A turn \in hist'[p] :
        turn \in hist[p] \/ turn \in History
  <2>1. CASE hist' = hist
    BY <2>1
  <2>2. CASE \E kind \in Kinds[r] : Ask(r, kind)
    BY <1>1, <2>2 DEF Ask, TypeOK
  <2>3. hist' = hist \/ \E kind \in Kinds[r] : Ask(r, kind)
    BY DEF Step, Advance, Hurt, Outside, Append, SetUp, Register, Say, Act,
       Resume, Halt, Finish, Halted, Answer, Exit, Final, Persist, Enqueue,
       Clear, End, SetUpFails, NotStarted, Fail, FinalFails, ClearFails,
       Expire, Crash, Leave, Delete, Find, SetStop
  <2> QED
    BY <2>1, <2>2, <2>3
<1>7. Turns'
  <2> SUFFICES ASSUME NEW p \in Rounds, NEW turn \in hist'[p]
               PROVE  Settled(turn[1], turn[2])'
    BY DEF Turns
  <2>1. turn \in Rounds \X (0..MaxSaid)
    BY <1>2 DEF TypeOK
  <2>2. Settled(turn[1], turn[2])
    BY <1>6, HistoryTaken DEF IInv, Turns
  <2> QED
    BY <1>5, <2>1, <2>2
<1> QED
  BY <1>2, <1>3, <1>4, <1>7 DEF IInv

LEMMA NextIInv == IInv /\ [Next]_vars => IInv'
<1> SUFFICES ASSUME IInv, [Next]_vars PROVE IInv'
  OBVIOUS
<1>1. CASE Next
  <2>1. PICK r \in Rounds : Step(r)
    BY <1>1 DEF Next, Step
  <2> QED
    BY <2>1, StepIInv
<1>2. CASE UNCHANGED vars
  BY <1>2 DEF IInv, vars, TypeOK, RowFacts, EndFacts, StopFacts, Turns,
     Settled
<1> QED
  BY <1>1, <1>2

\* The invariant from which the others follow: where each generator is, and
\* what its row, its frames and the histories may say meanwhile.
THEOREM IInvHolds == Spec => []IInv
BY InitIInv, NextIInv, PTL DEF Spec

\* Every variable keeps to its type, for any rounds, accounts and faults.
THEOREM TypeCorrect == Spec => []TypeOK
BY IInvHolds, PTL DEF IInv

\* What a client is told of the end of its round is what the row says
\* (finalize_round comes before agent_end in the finally).
THEOREM ShownAreStored == Spec => []ShownIsStored
<1>1. IInv => ShownIsStored
  BY DEF IInv, ShownIsStored, RowFacts, EndFacts
<1> QED
  BY <1>1, IInvHolds, PTL

\* A closed row says why its round ended: no "normal" without the model's end
\* or the client's leaving, no "stop" without the owner's request.
THEOREM RowsAreHonest == Spec => []RowIsHonest
<1>1. IInv => RowIsHonest
  BY DEF IInv, RowIsHonest, RowFacts, EndFacts, StopFacts
<1> QED
  BY <1>1, IInvHolds, PTL

\* The history a prompt was built from is never overtaken by the rounds that
\* were running when it was read.
THEOREM HistoriesAreSettled == Spec => []HistoryIsSettled
<1>1. IInv => HistoryIsSettled
  BY DEF IInv, HistoryIsSettled, Turns, Settled
<1> QED
  BY <1>1, IInvHolds, PTL

-----------------------------------------------------------------------------

\* The steps that only the round of the row sees.
LEMMA StepImages ==
    ASSUME TypeOK, NEW r \in Rounds, Step(r)
    PROVE  /\ \A q \in Rounds \ {r} : Image(q)' = Image(q)
           /\ Images' = [Images EXCEPT ![r] = Image(r)']
<1>1. \A q \in Rounds \ {r} : Image(q)' = Image(q)
  BY Frame DEF Image, RoundState
<1> QED
  BY <1>1 DEF Images

\* What a round that is open, or closed, looks like from Round.
LEMMA ImageState ==
    ASSUME IInv, NEW r \in Rounds
    PROVE  /\ gen[r].pc \in Early => Image(r) = Abstract!New
           /\ gen[r].pc \in Body => Image(r).state = "open"
           /\ gen[r].pc \in Late =>
                Image(r).state \in {"normal", "stop", "error"}
<1>1. RowFacts(r) /\ row[r] \in RowType /\ gen[r] \in GenType
  BY DEF IInv, TypeOK
<1>2. RowFacts(r)
  BY <1>1
<1>3. gen[r].status \in {"normal", "stop", "error"}
  BY <1>1 DEF GenType, Statuses
<1>4. CASE gen[r].pc \in Early
  <2>1. row[r].status = "none" /\ gen[r].said = 0 /\ row[r].answer = 0
    BY <1>2, <1>4 DEF RowFacts
  <2>2. RoundState(r) = "none"
    BY <1>2, <2>1 DEF RowFacts, RoundState
  <2> QED
    BY <1>4, <2>1, <2>2 DEF Image, Abstract!New, Early, Body, Late
<1>5. CASE gen[r].pc \in Body
  BY <1>2, <1>5 DEF RowFacts, Image, RoundState, Early, Body
<1>6. CASE gen[r].pc \in Late
  BY <1>2, <1>3, <1>6 DEF RowFacts, Image, RoundState, Early, Body, Late
<1> QED
  BY <1>4, <1>5, <1>6 DEF Early, Body, Late

\* Every step of a round is a step of its image, or leaves it.
LEMMA StepImage ==
    ASSUME IInv, IInv', NEW r \in Rounds, Step(r)
    PROVE  Abstract!Next \/ UNCHANGED <<Images, sent>>
<1>0. TypeOK /\ TypeOK' /\ RowFacts(r) /\ RowFacts(r)' /\ EndFacts(r)
  BY DEF IInv
<1>1. Images' = [Images EXCEPT ![r] = Image(r)']
  BY <1>0, StepImages
<1>2. gen[r] \in GenType /\ row[r] \in RowType
  BY <1>0 DEF TypeOK
<1>3. Images[r] = Image(r) /\ Images \in [Rounds -> {Image(q) : q \in Rounds}]
  BY DEF Images
<1>4. Image(r)' = Image(r) => Images' = Images
  BY <1>1, <1>3
<1>5. /\ Image(r).said = gen[r].said /\ Image(r).stored = row[r].answer
      /\ Image(r).state = RoundState(r)
  BY DEF Image
<1>6. CASE Append(r)
  <2>1. Image(r) = Abstract!New
    BY <1>6, ImageState DEF Append, At, Early
  <2>2. /\ gen'[r].said = gen[r].said /\ row'[r].answer = row[r].answer
        /\ RoundState(r)' = "open"
    BY <1>0, <1>6
    DEF Append, At, Goto, TypeOK, GenType, RowType, RowFacts, Early,
        RoundState
  <2>3. Image(r)' = [Image(r) EXCEPT !.state = "open"]
    BY <2>2 DEF Image
  <2>4. Images' = [Images EXCEPT ![r].state = "open"] /\ sent' = sent
    BY <1>1, <1>3, <1>6, <2>3 DEF Append
  <2> QED
    BY <1>3, <2>1, <2>4 DEF Abstract!Next, Abstract!Open
<1>7. CASE Say(r) \/ Answer(r)
  <2>1. Image(r).state = "open" /\ sent' = sent
    BY <1>7, ImageState DEF Say, Answer, At, Body
  <2>2. /\ row' = row
        /\ \/ gen'[r].said = gen[r].said + 1 /\ gen[r].said < MaxSaid
           \/ gen'[r].said = gen[r].said
    BY <1>0, <1>7, RoundsAssumption
    DEF Say, Answer, At, TypeOK, GenType, EndFacts
  <2>3. CASE gen'[r].said = gen[r].said
    BY <1>4, <2>1, <2>2, <2>3 DEF Image, RoundState
  <2>4. CASE gen'[r].said = gen[r].said + 1 /\ gen[r].said < MaxSaid
    <3>1. Image(r)' = [Image(r) EXCEPT !.said = gen[r].said + 1]
      BY <2>2, <2>4 DEF Image, RoundState
    <3>2. Images' = [Images EXCEPT ![r].said = @ + 1]
      BY <1>1, <1>3, <1>5, <3>1
    <3> QED
      BY <1>3, <1>5, <2>1, <2>4, <3>2 DEF Abstract!Next, Abstract!Say
  <2> QED
    BY <2>2, <2>3, <2>4
<1>8. CASE Final(r)
  <2>1. Image(r).state = "open" /\ sent' = sent
    BY <1>8, ImageState DEF Final, At, Body
  <2>2. PICK status \in {"normal", "stop", "error"} : status = gen[r].status
    BY <1>2 DEF GenType, Statuses
  <2>3. /\ gen'[r].said = gen[r].said /\ row'[r].answer = gen[r].said
        /\ row'[r].closed /\ row'[r].status = status
    BY <1>0, <1>8, <2>2 DEF Final, Goto, TypeOK, GenType, RowType
  <2>4. RoundState(r)' = status
    BY <2>2, <2>3 DEF RoundState
  <2>5. Image(r)' = [state |-> status, said |-> Images[r].said,
                     stored |-> Images[r].said]
    BY <1>3, <1>5, <2>3, <2>4 DEF Image
  <2> QED
    BY <1>1, <1>3, <2>1, <2>2, <2>5
    DEF Abstract!Next, Abstract!Close, Abstract!Ended
<1>9. CASE Enqueue(r)
  <2>1. Image(r).state \in {"normal", "stop", "error"} /\ r \notin sent
    BY <1>0, <1>9, ImageState DEF Enqueue, At, Late, RowFacts
  <2>2. gen'[r].said = gen[r].said /\ row' = row
    BY <1>0, <1>9 DEF Enqueue, Goto, TypeOK, GenType
  <2>3. Images' = Images
    BY <1>4, <2>2 DEF Image, RoundState
  <2>4. sent' = sent \/ sent' = sent \union {r}
    BY <1>9 DEF Enqueue
  <2> QED
    BY <1>3, <2>1, <2>3, <2>4
    DEF Abstract!Next, Abstract!Tell, Abstract!Ended
<1>10. CASE \/ SetUp(r) \/ Register(r) \/ Act(r) \/ Resume(r) \/ Halt(r)
            \/ Finish(r) \/ Halted(r) \/ Exit(r) \/ Persist(r) \/ Clear(r)
            \/ End(r)
  <2>1. gen'[r].said = gen[r].said /\ row' = row /\ sent' = sent
    BY <1>0, <1>10
    DEF SetUp, Register, Act, Resume, Halt, Finish, Halted, Exit, Persist,
        Clear, End, Goto, Announce, TypeOK, GenType
  <2> QED
    BY <1>4, <2>1 DEF Image, RoundState
<1>11. CASE Hurt(r)
  <2>1. gen'[r].said = gen[r].said /\ row' = row /\ sent' = sent
    BY <1>0, <1>11
    DEF Hurt, SetUpFails, NotStarted, Fail, FinalFails, ClearFails, Expire,
        Crash, Goto, Announce, TypeOK, GenType
  <2> QED
    BY <1>4, <2>1 DEF Image, RoundState
<1>12. CASE Outside(r)
  <2>1. gen'[r].said = gen[r].said /\ row' = row /\ sent' = sent
    <3>1. CASE \E kind \in Kinds[r] : Ask(r, kind)
      BY <1>0, <3>1 DEF Ask, TypeOK, GenType
    <3>2. CASE \E u \in Users : Find(u, r) \/ SetStop(u, r)
      BY <3>2 DEF Find, SetStop
    <3>3. CASE Leave(r) \/ Delete(r)
      BY <3>3 DEF Leave, Delete
    <3> QED
      BY <1>12, <3>1, <3>2, <3>3 DEF Outside
  <2> QED
    BY <1>4, <2>1 DEF Image, RoundState
<1> QED
  BY <1>6, <1>7, <1>8, <1>9, <1>10, <1>11, <1>12 DEF Step, Advance

\* The generators implement Round: however they are interleaved and whatever
\* fails, a row is opened once and closed at most once, with all that was
\* said by then, and only then announced (append_round, finalize_round and
\* enqueue_after_round around the stream).
THEOREM RoundsKeepPromise == Spec => Promise
<1>1. Init => Abstract!Init
  BY DEF Init, Abstract!Init, Abstract!New, Images, Image, RoundState
<1>2. IInv /\ IInv' /\ [Next]_vars => [Abstract!Next]_<<Images, sent>>
  <2> SUFFICES ASSUME IInv, IInv', [Next]_vars
               PROVE  Abstract!Next \/ UNCHANGED <<Images, sent>>
    OBVIOUS
  <2>1. CASE Next
    <3>1. PICK r \in Rounds : Step(r)
      BY <2>1 DEF Next, Step
    <3> QED
      BY <3>1, StepImage
  <2>2. CASE UNCHANGED vars
    BY <2>2 DEF vars, Images, Image, RoundState
  <2> QED
    BY <2>1, <2>2
<1> QED
  BY <1>1, <1>2, IInvHolds, PTL DEF Spec, Promise, Abstract!Spec, Abstract!vars

=============================================================================
