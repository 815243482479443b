------------------------- MODULE MCClusteringReader -------------------------
(* Instances of ClusteringReader for TLC: holding registers in an address     *)
(* space of eight.                                                            *)
EXTENDS ClusteringReader

CONSTANTS r1, r2

P(k, a, q) == [key |-> k, addr |-> a, qty |-> q]

MCKeyOrder == <<"coil", "holding_register">>

MCMaxPerRead == [coil |-> 2, holding_register |-> 4]

(* The points of the readers' runs: two registers that never share a window. *)
MCPoint == {P("holding_register", 1, 1), P("holding_register", 5, 2)}

(* What the theorem about reads takes of the planner, whose folds only TLC can *)
(* evaluate.                                                                   *)
ASSUME PlansHold == PlansAreBlocks
=============================================================================
