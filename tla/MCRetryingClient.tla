-------------------------- MODULE MCRetryingClient --------------------------
(* Instances of RetryingClient for TLC. *)
EXTENDS RetryingClient

CONSTANTS c1, c2
=============================================================================
