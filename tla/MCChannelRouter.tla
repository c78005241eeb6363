-------------------------- MODULE MCChannelRouter --------------------------
(* Instances of ChannelRouter for TLC.                                     *)
EXTENDS ChannelRouter, TLC

CONSTANTS c1, c2, c3

\* The unreliable channels come first, so that every call has to get past
\* them.
Rank2 == c1 :> 0 @@ c2 :> 1
Rank3 == c1 :> 0 @@ c2 :> 1 @@ c3 :> 2

=============================================================================
