--------------------------- MODULE MCModelCatalog ---------------------------
(* Instances of ModelCatalog for TLC.                                      *)
EXTENDS ModelCatalog, TLC

CONSTANTS p1, p2, u1, u2, u3, home, other, m1, m2, c1

\* Two threads of one process and one of another.
TwoProcs == u1 :> p1 @@ u2 :> p1 @@ u3 :> p2
OneProc == u1 :> p1 @@ u2 :> p1

OneModel == c1 :> {m2}

Wants == {<<other, m1>>, <<other, m2>>}

\* First the other provider runs m2 on a channel; then the channel goes; then
\* the provider does, and the default model with it.
Edits ==
    LET before == [on |-> {home, other},
                   models |-> home :> {m1, m2} @@ other :> {m1, m2},
                   multi |-> {other},
                   channels |-> home :> {} @@ other :> {c1}]
        channel == [before EXCEPT !.channels[other] = {}]
        provider == [channel EXCEPT !.on = {home}, !.models[home] = {m2}]
    IN  0 :> before @@ 1 :> channel @@ 2 :> provider

=============================================================================
