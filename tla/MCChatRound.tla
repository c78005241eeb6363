----------------------------- MODULE MCChatRound -----------------------------
(* Instances of ChatRound for TLC.                                         *)
EXTENDS ChatRound, TLC

CONSTANTS u1, u2, r1, r2

\* A streamed round beside a synchronous one.
Mixed == r1 :> {"agent", "plain"} @@ r2 :> {"sync"}

\* One account holds the conversation, another one only calls stop.
OneOwner == [r \in Rounds |-> u1]

=============================================================================
