---------------------------- MODULE MCNodeTree -----------------------------
(***************************************************************************)
(* Two variables in half units: the first has no upper bound, the second   *)
(* lies between 0.5 and 2.5.                                               *)
(***************************************************************************)
EXTENDS NodeTree

MCVar == {1, 2}
Half == 1
MCRoot == [v \in MCVar |-> IF v = 1 THEN [lo |-> Finite(0), hi |-> Infinite]
                           ELSE [lo |-> Finite(Half), hi |-> Finite(5 * Half)]]
MCLpVector == {<<1, 1>>, <<1, 3>>, <<2, 1>>, <<2, 3>>, <<3, 4>>, <<3, 5>>, <<5, 2>>, <<5, 3>>}
MCFeasible == {<<2, 2>>, <<4, 2>>, <<4, 4>>, <<8, 4>>}
=============================================================================
