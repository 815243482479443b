------------------------ MODULE RetryingClientProofs ------------------------
(***************************************************************************)
(* Proofs about the retry loops over a shared ReconnectingTransport.  The   *)
(* transport's invariants carry over because every step of the composition  *)
(* is a step of the transport or leaves it alone.                           *)
(***************************************************************************)
EXTENDS RetryingClient, FiniteSetTheorems, TLAPS

-----------------------------------------------------------------------------
(* The transport, for any set of goroutines and any number of dials.         *)

(* The strengthening that makes the invariants inductive: the cached         *)
(* connection is one that was dialled, and while a goroutine holds the write *)
(* lock to dial, the transport is open and caches nothing.                   *)
IInv ==
    /\ TypeOK
    /\ OneLiveSession
    /\ CallbacksTrackConn
    /\ ClosedIsFinal
    /\ conn <= dialled
    /\ writer # 0 => ~closed /\ conn = 0

(* The initial state satisfies the inductive invariant. *)
LEMMA InitIInv == Init => IInv
<1> SUFFICES ASSUME Init PROVE IInv
  OBVIOUS
<1>1. closed \in BOOLEAN /\ ~closed
  BY Zenon DEF Init
<1> QED
  BY <1>1, CallerAssumption, MaxDialAssumption
  DEF Init, IInv, TypeOK, OneLiveSession, CallbacksTrackConn, ClosedIsFinal

(* Each operation of the transport preserves the inductive invariant. *)
LEMMA NextIInv == IInv /\ [Next]_tvars => IInv'
<1> SUFFICES ASSUME IInv, [Next]_tvars PROVE IInv'
  OBVIOUS
<1> USE CallerAssumption, MaxDialAssumption
<1> USE DEF IInv, TypeOK, OneLiveSession, CallbacksTrackConn, ClosedIsFinal, Unlocked
<1>1. ASSUME NEW c \in Caller, ConnFast(c) PROVE IInv'
  BY <1>1 DEF ConnFast, Return
<1>2. ASSUME NEW c \in Caller, ConnSlow(c) PROVE IInv'
  BY <1>2 DEF ConnSlow, Return
<1>3. ASSUME NEW c \in Caller, DialOK(c) PROVE IInv'
  BY <1>3 DEF DialOK, Return
<1>4. ASSUME NEW c \in Caller, DialFail(c) PROVE IInv'
  BY <1>4 DEF DialFail, Return
<1>5. ASSUME NEW c \in Caller, Reset(c) PROVE IInv'
  <2>1. CASE conn = 0 \/ conn # got[c]
    BY <1>5, <2>1 DEF Reset
  <2>2. CASE ~(conn = 0 \/ conn # got[c])
    BY <1>5, <2>2 DEF Reset, DropConn
  <2> QED
    BY <2>1, <2>2
<1>6. ASSUME NEW c \in Caller, Close(c) PROVE IInv'
  <2>1. CASE conn = 0
    BY <1>6, <2>1 DEF Close
  <2>2. CASE conn # 0
    BY <1>6, <2>2 DEF Close, DropConn
  <2> QED
    BY <2>1, <2>2
<1>7. CASE UNCHANGED tvars
  BY <1>7 DEF tvars
<1> QED
  BY <1>1, <1>2, <1>3, <1>4, <1>5, <1>6, <1>7 DEF Next, Conn

(* The inductive invariant always holds. *)
THEOREM TransportInvariant == Spec => []IInv
<1> QED
  BY InitIInv, NextIInv, PTL DEF Spec

(* The state of the transport is always well typed, and the write lock is    *)
(* held exactly by the dialling goroutine.                                   *)
THEOREM TypeCorrect == Spec => []TypeOK
<1>1. IInv => TypeOK
  BY DEF IInv
<1> QED
  BY <1>1, TransportInvariant, PTL

(* Conn, Reset and Close never leave more than the cached session open, for  *)
(* any number of goroutines.                                                 *)
THEOREM SessionIsUnique == Spec => []OneLiveSession
<1>1. IInv => OneLiveSession
  BY DEF IInv
<1> QED
  BY <1>1, TransportInvariant, PTL

(* After Close nothing is open and nobody is dialling. *)
THEOREM CloseIsFinal == Spec => []ClosedIsFinal
<1>1. IInv => ClosedIsFinal
  BY DEF IInv
<1> QED
  BY <1>1, TransportInvariant, PTL

(* The last lifecycle callback tells whether a connection is cached. *)
THEOREM CallbacksAreTruthful == Spec => []CallbacksTrackConn
<1>1. IInv => CallbacksTrackConn
  BY DEF IInv
<1> QED
  BY <1>1, TransportInvariant, PTL

(* ReconnectingTransport implements the abstract single-session slot: a      *)
(* successful dial opens a new session, Reset by its holder ends it, Close   *)
(* shuts the slot, and every other step leaves the slot alone.               *)
THEOREM RefinesSlot == Spec => ImplementsSlot
<1>1. Init => Slot!SlotInit
  BY DEF Init, Slot!SlotInit
<1>2. IInv /\ [Next]_tvars => [Slot!SlotNext]_Slot!slot
  <2> SUFFICES ASSUME IInv, Next PROVE Slot!SlotNext \/ UNCHANGED Slot!slot
    BY DEF tvars, Slot!slot
  <2> USE CallerAssumption, MaxDialAssumption
  <2> USE DEF IInv, TypeOK, OneLiveSession, ClosedIsFinal, Slot!slot, Slot!SlotNext
  <2>1. ASSUME NEW c \in Caller, ConnFast(c) PROVE UNCHANGED Slot!slot
    BY <2>1 DEF ConnFast
  <2>2. ASSUME NEW c \in Caller, ConnSlow(c) PROVE UNCHANGED Slot!slot
    BY <2>2 DEF ConnSlow
  <2>3. ASSUME NEW c \in Caller, DialOK(c) PROVE Slot!OpenSession
    <3>1. dialled' \in (1..MaxDial) \ (1..dialled)
      BY <2>3 DEF DialOK
    <3>2. 1..dialled' = (1..dialled) \cup {dialled'}
      BY <2>3 DEF DialOK
    <3>3. live' = {dialled'} /\ live = {} /\ ~closed /\ UNCHANGED closed
      BY <2>3 DEF DialOK
    <3> QED
      BY <3>1, <3>2, <3>3 DEF Slot!OpenSession
  <2>4. ASSUME NEW c \in Caller, DialFail(c) PROVE UNCHANGED Slot!slot
    BY <2>4 DEF DialFail
  <2>5. ASSUME NEW c \in Caller, Reset(c) PROVE Slot!EndSession \/ UNCHANGED Slot!slot
    BY <2>5 DEF Reset, DropConn, Slot!EndSession
  <2>6. ASSUME NEW c \in Caller, Close(c) PROVE Slot!ShutDown
    BY <2>6 DEF Close, DropConn, Slot!ShutDown
  <2> QED
    BY <2>1, <2>2, <2>3, <2>4, <2>5, <2>6 DEF Next, Conn
<1> QED
  BY <1>1, <1>2, TransportInvariant, PTL DEF Spec, ImplementsSlot, Slot!SlotSpec

-----------------------------------------------------------------------------
(* The retry loops over it.                                                  *)

(* Where a goroutine stands in its loop against what the transport gave it. *)
LoopInv ==
    /\ at \in [Caller -> {"idle", "loop", "conn", "op", "reset"}]
    /\ failed \subseteq 1..MaxDial
    /\ \A c \in Caller :
          /\ at[c] # "conn" => pc[c] = "out"
          /\ at[c] \in {"op", "reset"} => got[c] # 0
          /\ at[c] = "reset" => got[c] \in failed

(* Every step of the composition is a step of the transport, or a stutter. *)
LEMMA TransportStep == [ClientNext]_vars => [Next]_tvars
  BY DEF ClientNext, vars, tvars, StartOp, Work, LoopHead, GetConn, OpAnswered, OpFails,
         ResetConn, CloseClient, DropSession, Next

(* The retrying client drives the transport only through Conn, Reset and     *)
(* Close, so it is one of the behaviours of ReconnectingTransport.           *)
THEOREM ClientUsesTransport == ClientSpec => Spec
<1>1. ClientInit => Init
  BY DEF ClientInit
<1> QED
  BY <1>1, TransportStep, PTL DEF ClientSpec, Spec

(* The invariant of the retry loop always holds. *)
LEMMA LoopInvHolds == ClientSpec => []LoopInv
<1>1. ClientInit => LoopInv
  BY DEF ClientInit, Init, LoopInv
<1>2. TypeOK /\ LoopInv /\ [ClientNext]_vars => LoopInv'
  <2> SUFFICES ASSUME TypeOK, LoopInv, [ClientNext]_vars PROVE LoopInv'
    OBVIOUS
  <2> USE DEF LoopInv, TypeOK
  <2>1. ASSUME NEW c \in Caller, StartOp(c) PROVE LoopInv'
    BY <2>1 DEF StartOp, tvars
  <2>2. ASSUME NEW c \in Caller, LoopHead(c) PROVE LoopInv'
    BY <2>2 DEF LoopHead, Finish, tvars
  <2>3. ASSUME NEW c \in Caller, GetConn(c) PROVE LoopInv'
    <3>1. \A d \in Caller \ {c} : pc'[d] = pc[d] /\ got'[d] = got[d]
      BY <2>3 DEF GetConn, Conn, ConnFast, ConnSlow, DialOK, DialFail, Return
    <3>2. at' \in [Caller -> {"idle", "loop", "conn", "op", "reset"}]
      BY <2>3 DEF GetConn
    <3>3. \A d \in Caller \ {c} : at'[d] = at[d]
      BY <2>3 DEF GetConn
    <3>4. /\ at'[c] # "conn" => pc'[c] = "out"
          /\ at'[c] = "op" => got'[c] # 0
          /\ at'[c] # "reset"
      BY <2>3 DEF GetConn
    <3> QED
      BY <2>3, <3>1, <3>2, <3>3, <3>4 DEF GetConn
  <2>4. ASSUME NEW c \in Caller, OpAnswered(c) PROVE LoopInv'
    BY <2>4 DEF OpAnswered, Finish, tvars
  <2>5. ASSUME NEW c \in Caller, OpFails(c) PROVE LoopInv'
    <3>1. got[c] \in 1..MaxDial
      BY <2>5, MaxDialAssumption DEF OpFails
    <3>2. failed' \subseteq 1..MaxDial /\ got[c] \in failed'
      BY <2>5, <3>1 DEF OpFails
    <3> QED
      BY <2>5, <3>2 DEF OpFails, tvars
  <2>6. ASSUME NEW c \in Caller, ResetConn(c) PROVE LoopInv'
    BY <2>6 DEF ResetConn, Reset
  <2>7. ASSUME NEW c \in Caller, CloseClient(c) PROVE LoopInv'
    BY <2>7 DEF CloseClient, Close, cvars
  <2>8. ASSUME NEW s \in live, DropSession(s) PROVE LoopInv'
    BY <2>8 DEF DropSession, tvars
  <2>9. CASE UNCHANGED vars
    BY <2>9 DEF vars, tvars, cvars
  <2> QED
    BY <2>1, <2>2, <2>3, <2>4, <2>5, <2>6, <2>7, <2>8, <2>9 DEF ClientNext, Work
<1> QED
  BY <1>1, <1>2, ClientUsesTransport, TypeCorrect, PTL DEF ClientSpec

(* A session is ended only by Close or by a goroutine that met a transport   *)
(* error on that very session, for any number of goroutines, dials, retries  *)
(* and operations.                                                           *)
THEOREM HealthySessionsAreKept == ClientSpec => HealthySessionsKept
<1> DEFINE Kept == \A s \in live : s \notin live' => s \in failed \/ (closed' /\ ~closed)
<1>1. IInv /\ LoopInv /\ [ClientNext]_vars => [Kept]_vars
  <2> SUFFICES ASSUME IInv, LoopInv, ClientNext PROVE Kept
    OBVIOUS
  <2>1. ASSUME NEW c \in Caller, GetConn(c) PROVE Kept
    BY <2>1 DEF GetConn, Conn, ConnFast, ConnSlow, DialOK, DialFail
  <2>2. ASSUME NEW c \in Caller, ResetConn(c) PROVE Kept
    <3>1. CASE conn = 0 \/ conn # got[c]
      BY <2>2, <3>1 DEF ResetConn, Reset
    <3>2. CASE ~(conn = 0 \/ conn # got[c])
      <4>1. live = {got[c]} /\ got[c] \in failed
        BY <2>2, <3>2 DEF ResetConn, LoopInv, IInv, OneLiveSession
      <4> QED
        BY <4>1
    <3> QED
      BY <3>1, <3>2
  <2>3. ASSUME NEW c \in Caller, CloseClient(c) PROVE Kept
    BY <2>3 DEF CloseClient, Close
  <2>4. CASE UNCHANGED live
    BY <2>4
  <2> QED
    BY <2>1, <2>2, <2>3, <2>4
    DEF ClientNext, Work, StartOp, LoopHead, OpAnswered, OpFails, DropSession, tvars
<1> QED
  BY <1>1, LoopInvHolds, ClientUsesTransport, TransportInvariant, PTL
  DEF ClientSpec, HealthySessionsKept

-----------------------------------------------------------------------------
Tally(c) == tries[c] + (IF at[c] = "reset" THEN 1 ELSE 0) = Cardinality(saw[c]) + refused[c]

(* The strengthening behind AttemptsAreDistinctFaults: a goroutine that runs *)
(* an operation holds a session it has not seen fail, and the cached         *)
(* connection is one it saw fail only while it is about to reset it.         *)
FaultInv ==
    /\ tries \in [Caller -> Nat] /\ refused \in [Caller -> Nat]
    /\ saw \in [Caller -> SUBSET (1..dialled)]
    /\ \A c \in Caller :
          /\ got[c] <= dialled
          /\ at[c] = "op" => got[c] \notin saw[c]
          /\ conn \in saw[c] => at[c] = "reset" /\ got[c] = conn
          /\ ~Endless => Tally(c)

(* Counting nothing. *)
LEMMA EmptyTally == Cardinality({}) = 0
  BY FS_EmptySet

(* A set of session numbers can be counted. *)
LEMMA TallyType ==
  ASSUME NEW n \in Nat, NEW S \in SUBSET (1..n)
  PROVE  IsFiniteSet(S) /\ Cardinality(S) \in Nat
<1>1. IsFiniteSet(1..n)
  BY FS_Interval
<1> QED
  BY <1>1, FS_Subset, FS_CardinalityType

(* Counting one failed session more. *)
LEMMA AddTally ==
  ASSUME NEW n \in Nat, NEW S \in SUBSET (1..n), NEW x, x \notin S
  PROVE  Cardinality(S \cup {x}) = Cardinality(S) + 1
  BY TallyType, FS_AddElement

(* The operations of the loop preserve the attempt accounting. *)
LEMMA FaultStep ==
  ASSUME IInv, LoopInv, FaultInv, [ClientNext]_vars
  PROVE  FaultInv'
<1> USE DEF FaultInv, LoopInv, IInv, TypeOK
<1>a. dialled \in Nat /\ \A c \in Caller : saw[c] \in SUBSET (1..dialled)
  BY MaxDialAssumption
<1>b. \A c \in Caller : Cardinality(saw[c]) \in Nat
  BY <1>a, TallyType
<1>1. ASSUME NEW c \in Caller, StartOp(c) PROVE FaultInv'
  BY <1>1, EmptyTally DEF StartOp, tvars, Tally
<1>2. ASSUME NEW c \in Caller, LoopHead(c) PROVE FaultInv'
  BY <1>2 DEF LoopHead, Finish, tvars, Tally
<1>3. ASSUME NEW c \in Caller, GetConn(c) PROVE FaultInv'
  <2>1. /\ dialled' \in Nat /\ dialled <= dialled'
        /\ conn' = conn \/ (conn' = dialled + 1 /\ dialled' = dialled + 1)
        /\ \A d \in Caller : got'[d] = got[d] \/ got'[d] = 0 \/ got'[d] = conn'
        /\ \A d \in Caller \ {c} : got'[d] = got[d] /\ pc'[d] = pc[d]
        /\ conn' <= dialled'
        /\ conn' \in Nat
    BY <1>3, MaxDialAssumption DEF GetConn, Conn, ConnFast, ConnSlow, DialOK, DialFail, Return
  <2>2. got'[c] # 0 /\ pc'[c] = "out" => got'[c] = conn'
    BY <1>3 DEF GetConn, Conn, ConnFast, ConnSlow, DialOK, DialFail, Return
  <2>3. saw' = saw /\ saw' \in [Caller -> SUBSET (1..dialled')]
    BY <1>3, <2>1 DEF GetConn
  <2>4. tries' \in [Caller -> Nat] /\ refused' \in [Caller -> Nat]
    BY <1>3 DEF GetConn, SpendAttempt
  <2>5. \A d \in Caller : conn' \in saw[d] => conn' = conn /\ d # c
    BY <1>3, <2>1 DEF GetConn
  <2>6. \A d \in Caller \ {c} : at'[d] = at[d]
    BY <1>3 DEF GetConn
  <2>7. at'[c] = "op" => got'[c] = conn'
    BY <1>3, <2>2 DEF GetConn
  <2>8. ASSUME ~Endless, NEW d \in Caller PROVE Tally(d)'
    <3>1. Cardinality(saw[d]) \in Nat
      BY <1>b, <2>8
    <3>2. CASE d # c
      BY <1>3, <2>3, <2>6, <2>8, <3>1, <3>2 DEF GetConn, SpendAttempt, Tally
    <3>3. CASE d = c
      BY <1>3, <2>3, <2>8, <3>1, <3>3 DEF GetConn, SpendAttempt, Tally
    <3> QED
      BY <3>2, <3>3
  <2>9. \A d \in Caller : got'[d] <= dialled'
    BY <2>1, MaxDialAssumption
  <2>10. \A d \in Caller : at'[d] = "op" => got'[d] \notin saw'[d]
    BY <2>1, <2>3, <2>5, <2>6, <2>7
  <2>11. \A d \in Caller : conn' \in saw'[d] => at'[d] = "reset" /\ got'[d] = conn'
    BY <2>1, <2>3, <2>5, <2>6
  <2> QED
    BY <2>3, <2>4, <2>8, <2>9, <2>10, <2>11 DEF Endless
<1>4. ASSUME NEW c \in Caller, OpAnswered(c) PROVE FaultInv'
  BY <1>4 DEF OpAnswered, Finish, tvars, Tally
<1>5. ASSUME NEW c \in Caller, OpFails(c) PROVE FaultInv'
  <2>1. Cardinality(saw[c] \cup {got[c]}) = Cardinality(saw[c]) + 1 /\ Cardinality(saw[c]) \in Nat
    <3>1. got[c] \notin saw[c]
      BY <1>5 DEF OpFails
    <3> QED
      BY <1>a, <1>b, <3>1, AddTally
  <2>2. got[c] \in 1..dialled
    BY <1>5, MaxDialAssumption DEF OpFails
  <2>3. saw' \in [Caller -> SUBSET (1..dialled')]
    BY <1>5, <2>2 DEF OpFails, tvars
  <2>4. \A d \in Caller : at'[d] = "op" => got'[d] \notin saw'[d]
    BY <1>5 DEF OpFails, tvars
  <2>5. \A d \in Caller : conn' \in saw'[d] => at'[d] = "reset" /\ got'[d] = conn'
    BY <1>5 DEF OpFails, tvars
  <2>6. ASSUME ~Endless, NEW d \in Caller PROVE Tally(d)'
    BY <1>5, <2>1, <2>6 DEF OpFails, tvars, Tally
  <2> QED
    BY <1>5, <2>3, <2>4, <2>5, <2>6 DEF OpFails, tvars, Endless
<1>6. ASSUME NEW c \in Caller, ResetConn(c) PROVE FaultInv'
  <2>1. /\ UNCHANGED <<saw, got, dialled, refused>>
        /\ conn' = 0 \/ (conn' = conn /\ conn # got[c])
        /\ \A d \in Caller \ {c} : at'[d] = at[d] /\ tries'[d] = tries[d]
        /\ at'[c] = "loop"
        /\ tries' \in [Caller -> Nat]
    BY <1>6 DEF ResetConn, Reset, DropConn, SpendAttempt
  <2>2. \A d \in Caller : 0 \notin saw[d]
    OBVIOUS
  <2>3. ASSUME ~Endless, NEW d \in Caller PROVE Tally(d)'
    <3>1. Cardinality(saw[d]) \in Nat
      BY <1>b, <2>3
    <3>2. CASE d = c
      BY <1>6, <2>1, <2>3, <3>1, <3>2 DEF ResetConn, SpendAttempt, Tally
    <3>3. CASE d # c
      BY <2>1, <2>3, <3>3 DEF Tally
    <3> QED
      BY <3>2, <3>3
  <2>4. \A d \in Caller : conn' \in saw'[d] => at'[d] = "reset" /\ got'[d] = conn'
    BY <2>1, <2>2
  <2> QED
    BY <1>6, <2>1, <2>3, <2>4 DEF Endless
<1>7. ASSUME NEW c \in Caller, CloseClient(c) PROVE FaultInv'
  <2>1. conn' = 0 /\ \A d \in Caller : 0 \notin saw[d]
    BY <1>7 DEF CloseClient, Close, DropConn
  <2> QED
    BY <1>7, <2>1 DEF CloseClient, Close, cvars, Tally
<1>8. ASSUME NEW s \in live, DropSession(s) PROVE FaultInv'
  BY <1>8 DEF DropSession, tvars, Tally
<1>9. CASE UNCHANGED vars
  BY <1>9 DEF vars, tvars, cvars, Tally
<1> QED
  BY <1>1, <1>2, <1>3, <1>4, <1>5, <1>6, <1>7, <1>8, <1>9 DEF ClientNext, Work

(* An operation with n retries fails only after n + 1 different faults: each *)
(* attempt it spends is a Conn error or a session that had not failed for it *)
(* before, however Reset, Conn and the other goroutines interleave.          *)
THEOREM AttemptsAreDistinct == ClientSpec => []AttemptsAreDistinctFaults
<1>1. ClientInit => FaultInv
  BY EmptyTally DEF ClientInit, Init, FaultInv, Tally
<1>2. IInv /\ LoopInv /\ FaultInv /\ [ClientNext]_vars => FaultInv'
  BY FaultStep
<1>3. FaultInv => AttemptsAreDistinctFaults
  BY DEF FaultInv, Tally, AttemptsAreDistinctFaults
<1> QED
  BY <1>1, <1>2, <1>3, LoopInvHolds, ClientUsesTransport, TransportInvariant, PTL DEF ClientSpec
=============================================================================
