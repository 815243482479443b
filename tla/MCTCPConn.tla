------------------------------ MODULE MCTCPConn ------------------------------
(* Instances of TCPConn for TLC. *)
EXTENDS TCPConn, TLC

CONSTANTS s1, s2

SenderSymmetry == Permutations(Sender)
=============================================================================
