----------------------------- MODULE MCBatchRun -----------------------------
(***************************************************************************)
(* Instances of BatchRun for TLC: the first of three instances may be      *)
(* given the environment of the second or that of the third.               *)
(***************************************************************************)
EXTENDS BatchRun

CONSTANTS i1, i2, i3, e1, e2

ThreeInQueue == <<i1, i3, i2>>

SharedInTurn ==
    [i \in Instances |-> CASE i = i1 -> {e1, e2} [] i = i2 -> {e1} [] OTHER -> {e2}]

TwoInQueue == <<i1, i2>>

Shared == [i \in Instances |-> {e1}]
=============================================================================
