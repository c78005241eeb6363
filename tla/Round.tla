-------------------------------- MODULE Round --------------------------------
(***************************************************************************)
(* What a round of a chat promises to whoever reads its row afterwards: it *)
(* is opened once and closed at most once, with everything that was said   *)
(* by then, and only a closed round is announced to the tasks that name    *)
(* and summarise the conversation, once.                                   *)
(***************************************************************************)
EXTENDS Naturals

CONSTANTS
    Rounds,  \* rounds, one row of ai_message each
    MaxSaid  \* most pieces of an answer

VARIABLES
    round,   \* each round: its state, what was said, what the row holds
    told     \* rounds announced to the tasks that follow a round

vars == <<round, told>>

Ended == {"normal", "stop", "error"}

RoundType ==
    [state : {"none", "open"} \union Ended, said : 0..MaxSaid,
     stored : 0..MaxSaid]

New == [state |-> "none", said |-> 0, stored |-> 0]

Init ==
    /\ round = [r \in Rounds |-> New]
    /\ told = {}

Open(r) ==
    /\ round[r] = New
    /\ round' = [round EXCEPT ![r].state = "open"]
    /\ UNCHANGED told

Say(r) ==
    /\ round[r].state = "open"
    /\ round[r].said < MaxSaid
    /\ round' = [round EXCEPT ![r].said = @ + 1]
    /\ UNCHANGED told

Close(r) ==
    /\ round[r].state = "open"
    /\ \E status \in Ended :
        round' = [round EXCEPT ![r] = [state |-> status,
                                       said |-> round[r].said,
                                       stored |-> round[r].said]]
    /\ UNCHANGED told

Tell(r) ==
    /\ round[r].state \in Ended
    /\ r \notin told
    /\ told' = told \union {r}
    /\ UNCHANGED round

Next == \E r \in Rounds : Open(r) \/ Say(r) \/ Close(r) \/ Tell(r)

Spec == Init /\ [][Next]_vars

=============================================================================
