---------------------------- MODULE MCIOExchange ----------------------------
(* Instance of IOExchange for TLC: two scanners, one of them shared by two    *)
(* goroutines.                                                                *)
EXTENDS IOExchange

CONSTANTS s1, s2, g1, g2, g3

MCOf == [g \in App |-> IF g = g3 THEN s2 ELSE s1]
MCCalls == [g \in App |-> CASE g = g1 -> {"open", "close"} [] g = g2 -> {"shutdown"} [] g = g3 -> {"open"}]
MCOriginatorSN == [s \in {s1, s2} |-> IF s = s1 THEN 1 ELSE 2]
=============================================================================
