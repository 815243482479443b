---------------------------- MODULE MCEIPExplicit ----------------------------
(* An instance of EIPExplicit for TLC: two bit writes, or one and ListTags. *)
EXTENDS EIPExplicit

CONSTANTS t1, t2, m, o1

MCTasks == [t \in Thread |-> IF t = t1 THEN {"bit", "tags"} ELSE {"bit"}]
=============================================================================
