---------------------------- MODULE SingleSession ----------------------------
(***************************************************************************)
(* What a transport.Transport promises its callers, independent of how the *)
(* connection is obtained: at most one protocol session is alive, a session *)
(* that ended never comes back, and after Close nothing is opened again.    *)
(***************************************************************************)
EXTENDS Naturals

CONSTANT Session        \* identities of the sessions a Connector may create

VARIABLES
    live,               \* sessions that are established and not yet closed
    used,               \* sessions ever established
    shut                \* Close was called

slot == <<live, used, shut>>

SlotInit ==
    /\ live = {}
    /\ used = {}
    /\ shut = FALSE

OpenSession ==
    /\ ~shut
    /\ live = {}
    /\ \E s \in Session \ used :
          /\ live' = {s}
          /\ used' = used \cup {s}
    /\ UNCHANGED shut

EndSession ==
    /\ live # {}
    /\ live' = {}
    /\ UNCHANGED <<used, shut>>

ShutDown ==
    /\ ~shut
    /\ shut' = TRUE
    /\ live' = {}
    /\ UNCHANGED used

SlotNext == OpenSession \/ EndSession \/ ShutDown

SlotSpec == SlotInit /\ [][SlotNext]_slot
=============================================================================
