------------------------------ MODULE MCEvals ------------------------------
(* An instance of Evals for TLC: three cases of two causes, of which two are  *)
(* picked.                                                                     *)
EXTENDS Evals, TLC

CONSTANTS c1, c2, c3

Found == {<<c1, c2, c3>>}
Causes == c1 :> 1 @@ c2 :> 1 @@ c3 :> 2
=============================================================================
