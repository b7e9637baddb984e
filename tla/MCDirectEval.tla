---------------------------- MODULE MCDirectEval ----------------------------
(***************************************************************************)
(* Instances of DirectEval for TLC: three instances of two repositories    *)
(* with one environment each.                                              *)
(***************************************************************************)
EXTENDS DirectEval, TLC

CONSTANTS i1, i2, i3, r1, r2, e1, e2

ThreeIds == <<i1, i2, i3>>
TwoRepos == i1 :> r1 @@ i2 :> r1 @@ i3 :> r2
TwoEnvs  == i1 :> e1 @@ i2 :> e1 @@ i3 :> e2
=============================================================================
