------------------------- MODULE MCParallelSearch --------------------------
(***************************************************************************)
(* Two threads on the small integer programs.  The nodes, families and     *)
(* cutoffs the queue may meet are only needed to state its own             *)
(* specification; the search passes it its own.                            *)
(***************************************************************************)
EXTENDS ParallelSearch, GridProblems

MCNode == [sub : MCSub, lb : -24..4, depth : 1..9]
=============================================================================
