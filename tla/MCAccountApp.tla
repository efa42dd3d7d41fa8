---------------------------- MODULE MCAccountApp ----------------------------
(* Instances of AccountApp for TLC. *)
EXTENDS AccountApp, TLC

\* Telegram's validator tolerates a messenger's clock one tick ahead.
Tolerances == ("telegram" :> 1) @@ ("max" :> 0)

\* A development build is given fewer acts: it has a run more.
ActsOfBuilds == (FALSE :> 3) @@ (TRUE :> 1)

FastOrSlow == {-1, 1}
=============================================================================
