--------------------------- MODULE DirectTransport ---------------------------
(***************************************************************************)
(* transport/direct.go: the constructor connects once; after Reset or Close *)
(* the transport never yields a connection again.  Every method runs under  *)
(* one mutex, so each is a single step.  The only connection is 1, and 0 is *)
(* the zero value of C.                                                     *)
(***************************************************************************)
EXTENDS Integers

CONSTANT Caller         \* goroutines sharing the transport

VARIABLES
    phase,      \* "new" before the constructor returns, then "built" or "failed"
    conn,       \* d.conn
    active,     \* d.active
    closed,     \* d.closed
    live,       \* connections on which closer.Close has not been called
    told,       \* connection OnConnect announced, 0 once OnDisconnect fired
    got         \* last connection Conn returned to the goroutine, 0 for an error

vars == <<phase, conn, active, closed, live, told, got>>

(* The variables have their types, and active says whether conn is set: the  *)
(* two fields Reset and Close must update together.                          *)
TypeOK ==
    /\ phase \in {"new", "built", "failed"}
    /\ conn \in {0, 1} /\ told \in {0, 1}
    /\ active \in BOOLEAN /\ closed \in BOOLEAN
    /\ live \subseteq {1}
    /\ got \in [Caller -> {0, 1}]
    /\ active <=> conn = 1

Init ==
    /\ phase = "new"
    /\ conn = 0 /\ told = 0
    /\ active = FALSE /\ closed = FALSE
    /\ live = {}
    /\ got = [c \in Caller |-> 0]

(* NewDirectTransport: connect, fire OnConnect, build the struct; or fail. *)
NewDirectTransport ==
    /\ phase = "new"
    /\ \/ /\ phase' = "built"
          /\ conn' = 1 /\ active' = TRUE /\ live' = {1} /\ told' = 1
       \/ phase' = "failed" /\ UNCHANGED <<conn, active, live, told>>
    /\ UNCHANGED <<closed, got>>

Conn(c) ==
    /\ phase = "built"
    /\ got' = [got EXCEPT ![c] = IF closed \/ ~active THEN 0 ELSE conn]
    /\ UNCHANGED <<phase, conn, active, closed, live, told>>

(* closer.Close, fireOnDisconnect and clearing the fields, in Reset and Close. *)
DropConn ==
    /\ live' = live \ {conn}
    /\ conn' = 0
    /\ active' = FALSE
    /\ told' = 0

Reset(c) ==
    /\ phase = "built"
    /\ got[c] # 0
    /\ active /\ conn = got[c]
    /\ DropConn
    /\ UNCHANGED <<phase, closed, got>>

(* Mutant of Close: it only marks the transport closed. *)
CloseFlagOnly ==
    /\ phase = "built" /\ ~closed
    /\ closed' = TRUE
    /\ UNCHANGED <<phase, conn, active, live, told, got>>

Close ==
    /\ phase = "built"
    /\ ~closed
    /\ closed' = TRUE
    /\ IF active THEN DropConn ELSE UNCHANGED <<conn, active, live, told>>
    /\ UNCHANGED <<phase, got>>

Next == NewDirectTransport \/ Close \/ \E c \in Caller : Conn(c) \/ Reset(c)

Spec == Init /\ [][Next]_vars

-----------------------------------------------------------------------------
(* Whatever Reset and Close are called, in whatever order, the session is    *)
(* open exactly while it is cached and announced, and not after Close.       *)
SessionTracked == live = (IF active THEN {conn} ELSE {}) /\ told = conn /\ (closed => live = {})

(* The direct transport implements the single-session slot with one session: *)
(* it never reconnects, and nothing is opened after Close.                   *)
Slot == INSTANCE SingleSession
          WITH Session <- {1}, live <- live, shut <- closed,
               used <- IF phase = "built" THEN {1} ELSE {}

ImplementsSlot == Slot!SlotSpec

=============================================================================
