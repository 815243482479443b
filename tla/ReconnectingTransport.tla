------------------------ MODULE ReconnectingTransport ------------------------
(***************************************************************************)
(* transport/reconnecting.go: a lazily dialled connection shared by several *)
(* goroutines.  Conn tests the cached connection under the read lock and,   *)
(* when there is none, takes the write lock, tests again and dials with the *)
(* lock held; Reset drops the connection only when it is the one the caller *)
(* saw fail; Close is permanent.  The k-th connection the Connector returns *)
(* is the number k, and 0 is the zero value of C.                           *)
(***************************************************************************)
EXTENDS Integers, FiniteSets

CONSTANTS
    Caller,     \* goroutines sharing the transport
    MaxDial     \* bound: connections the Connector ever returns

ASSUME CallerAssumption == 0 \notin Caller
ASSUME MaxDialAssumption == MaxDial \in Nat

VARIABLES
    conn,       \* r.conn
    closed,     \* r.closed
    writer,     \* goroutine inside Conn's write-locked dial, 0 if none
    pc,         \* where a goroutine is: outside, "slow" (past the read lock), "dial"
    got,        \* last connection Conn returned to the goroutine, 0 for an error
    dialled,    \* connections returned by the Connector so far
    live,       \* connections on which closer.Close has not been called
    told        \* connection OnConnect announced, 0 once OnDisconnect fired

tvars == <<conn, closed, writer, pc, got, dialled, live, told>>

(* The variables have their types, and the write lock is held across steps   *)
(* exactly by the goroutine that is dialling in Conn.                        *)
TypeOK ==
    /\ conn \in 0..MaxDial
    /\ closed \in BOOLEAN
    /\ writer \in Caller \cup {0}
    /\ pc \in [Caller -> {"out", "slow", "dial"}]
    /\ got \in [Caller -> 0..MaxDial]
    /\ dialled \in 0..MaxDial
    /\ live \subseteq 1..MaxDial
    /\ told \in 0..MaxDial
    /\ \A c \in Caller : pc[c] = "dial" <=> writer = c

Init ==
    /\ conn = 0
    /\ closed = FALSE
    /\ writer = 0
    /\ pc = [c \in Caller |-> "out"]
    /\ got = [c \in Caller |-> 0]
    /\ dialled = 0
    /\ live = {}
    /\ told = 0

Unlocked == writer = 0

Return(c, result) ==
    /\ pc' = [pc EXCEPT ![c] = "out"]
    /\ got' = [got EXCEPT ![c] = result]

(* Conn, read-locked part: fail when closed, return the cached connection,  *)
(* or go on to the write lock.                                              *)
ConnFast(c) ==
    /\ pc[c] = "out"
    /\ Unlocked
    /\ \/ closed /\ Return(c, 0)
       \/ ~closed /\ conn # 0 /\ Return(c, conn)
       \/ ~closed /\ conn = 0 /\ pc' = [pc EXCEPT ![c] = "slow"] /\ UNCHANGED got
    /\ UNCHANGED <<conn, closed, writer, dialled, live, told>>

(* Mutant of ConnSlow: the cached connection is not tested again. *)
ConnSlowNoRecheck(c) ==
    /\ pc[c] = "slow"
    /\ Unlocked
    /\ \/ closed /\ Return(c, 0) /\ UNCHANGED writer
       \/ ~closed /\ writer' = c /\ pc' = [pc EXCEPT ![c] = "dial"] /\ UNCHANGED got
    /\ UNCHANGED <<conn, closed, dialled, live, told>>

(* Conn, write lock acquired: both tests are repeated, because another      *)
(* goroutine may have dialled or closed in between; then dial.              *)
ConnSlow(c) ==
    /\ pc[c] = "slow"
    /\ Unlocked
    /\ \/ closed /\ Return(c, 0) /\ UNCHANGED writer
       \/ ~closed /\ conn # 0 /\ Return(c, conn) /\ UNCHANGED writer
       \/ /\ ~closed /\ conn = 0
          /\ writer' = c
          /\ pc' = [pc EXCEPT ![c] = "dial"]
          /\ UNCHANGED got
    /\ UNCHANGED <<conn, closed, dialled, live, told>>

(* connector.Connect returned a connection: cache it, fire OnConnect, unlock. *)
DialOK(c) ==
    /\ pc[c] = "dial"
    /\ dialled < MaxDial
    /\ dialled' = dialled + 1
    /\ conn' = dialled'
    /\ live' = live \cup {dialled'}
    /\ told' = conn'
    /\ writer' = 0
    /\ Return(c, dialled')
    /\ UNCHANGED closed

(* connector.Connect failed: nothing is cached and no callback fires. *)
DialFail(c) ==
    /\ pc[c] = "dial"
    /\ writer' = 0
    /\ Return(c, 0)
    /\ UNCHANGED <<conn, closed, dialled, live, told>>

Conn(c) == ConnFast(c) \/ ConnSlow(c) \/ DialOK(c) \/ DialFail(c)

(* Mutant of DropConn: the session is not closed. *)
DropConnLeaks == conn' = 0 /\ told' = 0 /\ UNCHANGED live

(* closer.Close(conn), conn = zero, fireOnDisconnect: the tail of Reset and Close. *)
DropConn ==
    /\ live' = live \ {conn}
    /\ conn' = 0
    /\ told' = 0

(* Mutants of Reset: stale is not compared with the cached connection; the    *)
(* stale connection stays cached.                                             *)
ResetAny(c) ==
    /\ pc[c] = "out" /\ got[c] # 0 /\ Unlocked
    /\ IF conn = 0 THEN UNCHANGED <<conn, live, told>> ELSE DropConn
    /\ UNCHANGED <<closed, writer, pc, got, dialled>>

ResetNothing(c) == pc[c] = "out" /\ got[c] # 0 /\ Unlocked /\ UNCHANGED tvars

(* Reset(stale) by a goroutine that was given stale. *)
Reset(c) ==
    /\ pc[c] = "out"
    /\ got[c] # 0
    /\ Unlocked
    /\ IF conn = 0 \/ conn # got[c]
         THEN UNCHANGED <<conn, live, told>>
         ELSE DropConn
    /\ UNCHANGED <<closed, writer, pc, got, dialled>>

Close(c) ==
    /\ pc[c] = "out"
    /\ Unlocked
    /\ ~closed
    /\ closed' = TRUE
    /\ IF conn = 0 THEN UNCHANGED <<conn, live, told>> ELSE DropConn
    /\ UNCHANGED <<writer, pc, got, dialled>>

Next == \E c \in Caller : Conn(c) \/ Reset(c) \/ Close(c)

Spec == Init /\ [][Next]_tvars

-----------------------------------------------------------------------------
(* The cached connection is the only session that is open: two goroutines   *)
(* that both found the cache empty never leave a second session behind, and *)
(* no session is dropped from the cache without being closed (the re-check  *)
(* after the write lock in Conn, closer.Close in Reset and Close).          *)
OneLiveSession == live = IF conn = 0 THEN {} ELSE {conn}

(* OnConnect and OnDisconnect listeners are told the truth: the last        *)
(* callback was OnConnect for the cached connection, or OnDisconnect when   *)
(* none is cached.                                                          *)
CallbacksTrackConn == told = conn

(* After Close no session is open and no goroutine is dialling one: a dial  *)
(* in progress when Close is called has finished before it marks the        *)
(* transport closed.                                                        *)
ClosedIsFinal == closed => conn = 0 /\ live = {} /\ \A c \in Caller : pc[c] # "dial"

(* The transport implements the single-session slot. *)
Slot == INSTANCE SingleSession
          WITH Session <- 1..MaxDial, live <- live, used <- 1..dialled, shut <- closed

ImplementsSlot == Slot!SlotSpec
=============================================================================
