---------------------------- MODULE TCPConnProofs ----------------------------
(***************************************************************************)
(* For any number of callers, generations, pools and transaction IDs: the   *)
(* teardown of a connection is complete, only a connection's own faults     *)
(* tear it down, no caller is left without an answer, and responses reach   *)
(* the calls they answer, once, as long as IDs are not reused too early.    *)
(***************************************************************************)
EXTENDS TCPTrafficProofs, WellFoundedInduction, FiniteSetTheorems


(* A nonempty set of natural numbers has a least element. *)
LEMMA LeastNat ==
    ASSUME NEW S \in SUBSET Nat, S # {}
    PROVE  \E k \in S : \A j \in S : k <= j
<1>1. PICK k \in S : \A j \in S : <<j, k>> \notin OpToRel(<, Nat)
    BY NatLessThanWellFounded, WFMin, Zenon
<1>2. \A j \in S : ~(j < k)
    BY <1>1, Zenon DEF OpToRel
<1> QED
    BY <1>2

(* Place enters its transaction under a free ID: no transaction in flight is  *)
(* overwritten, so its waiter is never cut off (transaction.go, Place).       *)
LEMMA PlaceIsFresh ==
    ASSUME NEW p \in Pool, FreeAttempts(p) # {}, NEW t \in Tx
    PROVE  /\ PlaceID(p) \in ID
           /\ p.txs[PlaceID(p)] = 0
           /\ InFlight(PlaceOK(p, t)) = InFlight(p) \cup {t}
<1>1. FreeAttempts(p) \in SUBSET Nat
    BY PoolAssumption DEF FreeAttempts
<1>2. FirstFree(p) \in FreeAttempts(p)
    BY <1>1, LeastNat, Zenon DEF FirstFree
<1>3. p.txs[PlaceID(p)] = 0 /\ FirstFree(p) \in Nat
    BY <1>1, <1>2, Zenon DEF FreeAttempts, PlaceID
<1>4. p.nextID \in ID /\ p.txs \in [ID -> Tx \cup {0}]
    BY Zenon DEF Pool
<1>5. PlaceID(p) \in ID
    BY <1>3, <1>4, PoolAssumption DEF PlaceID, Candidate, ID
<1>6. PlaceOK(p, t).txs = [p.txs EXCEPT ![PlaceID(p)] = t]
    BY Zenon DEF PlaceOK, Pool
<1>7. 0 \notin Tx
    BY PoolAssumption DEF Tx
<1>8. InFlight(PlaceOK(p, t)) = InFlight(p) \cup {t}
    BY <1>3, <1>4, <1>5, <1>6, <1>7 DEF InFlight
<1> QED
    BY <1>3, <1>5, <1>8, Zenon

(* NewTCPConn establishes the invariant. *)
LEMMA InitConnInv == Init => ConnInv
<1> SUFFICES ASSUME Init PROVE ConnInv
    BY Zenon
<1> USE PoolAssumption, ConnAssumption DEF Init
<1>1. NewTransactionPool \in Pool
    BY DEF NewTransactionPool, NoTxs, Pool, ID
<1>2. Shape
    BY <1>1 DEF Shape, Gen, Tx
<1>3. Blame
    BY Zenon DEF Blame, Gen
<1>4. Lifecycle
    BY DEF Lifecycle, NewTransactionPool, Gen
<1> QED
    BY <1>2, <1>3, <1>4, Zenon DEF ConnInv

-----------------------------------------------------------------------------
(* Every operation on a pool yields a pool; all but Close leave it open or    *)
(* closed as it was, and a closed and empty one empty.                        *)
LEMMA PoolOps ==
    ASSUME NEW p \in Pool
    PROVE  /\ \A i : Release(p, i) \in Pool /\ Release(p, i).closed = p.closed
           /\ \A i : p.txs = NoTxs => Release(p, i).txs = NoTxs
           /\ \A S : ReleaseAll(p, S) \in Pool /\ ReleaseAll(p, S).closed = p.closed
           /\ \A S : p.txs = NoTxs => ReleaseAll(p, S).txs = NoTxs
           /\ UnsafeReset(p) \in Pool /\ UnsafeReset(p).closed = p.closed
           /\ UnsafeReset(p).txs = NoTxs
           /\ ClosePool(p) \in Pool /\ ClosePool(p).closed /\ ClosePool(p).txs = NoTxs
           /\ PlaceFull(p) \in Pool /\ PlaceFull(p).closed = p.closed
           /\ PlaceFull(p).txs = p.txs
           /\ \A t \in Tx : FreeAttempts(p) # {} =>
                PlaceOK(p, t) \in Pool /\ PlaceOK(p, t).closed = p.closed
<1> USE PoolAssumption DEF Pool
<1>1. NoTxs \in [ID -> Tx \cup {0}] /\ \A i \in ID : NoTxs[i] = 0
    BY Zenon DEF NoTxs
<1>2. \A i : Release(p, i) \in Pool /\ Release(p, i).closed = p.closed
    BY Zenon DEF Release
<1>3. ASSUME NEW i, p.txs = NoTxs PROVE Release(p, i).txs = NoTxs
    BY <1>1, <1>3, Zenon DEF Release
<1>4. \A S : ReleaseAll(p, S) \in Pool /\ ReleaseAll(p, S).closed = p.closed
    BY Zenon DEF ReleaseAll
<1>5. ASSUME NEW S, p.txs = NoTxs PROVE ReleaseAll(p, S).txs = NoTxs
    BY <1>1, <1>5, Zenon DEF ReleaseAll
<1>6. /\ UnsafeReset(p) \in Pool /\ UnsafeReset(p).closed = p.closed
      /\ UnsafeReset(p).txs = NoTxs
    BY <1>1, Zenon DEF UnsafeReset
<1>7. ClosePool(p) \in Pool /\ ClosePool(p).closed /\ ClosePool(p).txs = NoTxs
    BY <1>1, Zenon DEF ClosePool
<1>8. PlaceFull(p) \in Pool /\ PlaceFull(p).closed = p.closed /\ PlaceFull(p).txs = p.txs
  <2>1. Candidate(p, MaxIDAttempts) \in ID
    BY DEF Candidate, ID
  <2> QED
    BY <2>1, Zenon DEF PlaceFull
<1>9. ASSUME NEW t \in Tx, FreeAttempts(p) # {}
      PROVE  PlaceOK(p, t) \in Pool /\ PlaceOK(p, t).closed = p.closed
  <2>1. FreeAttempts(p) \in SUBSET Nat
    BY DEF FreeAttempts
  <2>2. FirstFree(p) \in Nat
    BY <1>9, <2>1, LeastNat, Zenon DEF FirstFree
  <2>3. Candidate(p, FirstFree(p) + 1) \in ID
    BY <2>2 DEF Candidate, ID
  <2> QED
    BY <2>3, Zenon DEF PlaceOK
<1> QED
    BY <1>2, <1>3, <1>4, <1>5, <1>6, <1>7, <1>8, <1>9, Zenon

(* The part of PoolOps about a Place that finds an ID. *)
LEMMA PlaceOp ==
    ASSUME NEW p \in Pool, NEW t \in Tx, FreeAttempts(p) # {}
    PROVE  PlaceOK(p, t) \in Pool /\ PlaceOK(p, t).closed = p.closed
    BY PoolOps, Zenon

(* The part of PoolOps about Release. *)
LEMMA ReleaseOp ==
    ASSUME NEW p \in Pool, NEW i
    PROVE  /\ Release(p, i) \in Pool /\ Release(p, i).closed = p.closed
           /\ p.txs = NoTxs => Release(p, i).txs = NoTxs
    BY PoolOps

(* What all steps but ConnectFail and TeardownPool do to the pools. *)
PoolsKept ==
    /\ pool' \in [1..MaxPool -> Pool]
    /\ \A p \in 1..MaxPool :
        /\ pool'[p].closed = pool[p].closed
        /\ pool[p].txs = NoTxs /\ pool[p].closed => pool'[p].txs = NoTxs

(* One pool is changed by one of these operations. *)
LEMMA OnePool ==
    ASSUME Shape, NEW p \in 1..MaxPool, NEW q \in Pool,
           pool' = [pool EXCEPT ![p] = q], q.closed = pool[p].closed,
           pool[p].txs = NoTxs /\ pool[p].closed => q.txs = NoTxs
    PROVE  PoolsKept
    BY Zenon DEF Shape, PoolsKept

(* A step that touches neither the connection state nor the sockets, and      *)
(* closes no pool, keeps the life cycle part of the invariant.                *)
LEMMA LifecycleStable ==
    ASSUME Shape, Lifecycle, PoolsKept, UNCHANGED <<connVars, poolOf, done, sock>>
    PROVE  Lifecycle'
<1>1. \A p \in 1..MaxPool : pool'[p].closed = pool[p].closed
    BY Zenon DEF PoolsKept
<1>2. UNCHANGED <<connected, gen, cur, tear, poolOf, done, sock>>
    BY Zenon DEF connVars
<1>3. \A p \in 1..MaxPool : pool'[p].closed => pool'[p].txs = NoTxs
    BY Zenon DEF PoolsKept, Lifecycle
<1>4. /\ \A p \in 1..MaxPool : p > cur' => ~pool'[p].closed
      /\ tear' = "sock" => pool'[cur'].closed
    BY <1>1, <1>2, Zenon DEF Shape, Lifecycle
<1>5. /\ tear' # "no" => done'[gen'] /\ ~connected'
      /\ connected' => gen' # 0 /\ ~done'[gen']
  <2>1. /\ tear # "no" => done[gen] /\ ~connected
        /\ connected => gen # 0 /\ ~done[gen]
    BY Zenon DEF Lifecycle
  <2> QED
    BY <1>2, <2>1, Zenon
<1>6. /\ tear' # "no" /\ gen' # 0 => poolOf'[gen'] = cur' /\ sock'[gen'] = "open"
      /\ \A g \in 1..gen' : g # gen' => done'[g]
      /\ \A g \in Gen : g > gen' => ~done'[g]
    BY <1>2 DEF Lifecycle
<1>7. gen' # 0 /\ ~done'[gen'] =>
        connected' /\ poolOf'[gen'] = cur' /\ ~pool'[cur'].closed /\ sock'[gen'] = "open"
  <2>1. ~pool[cur].closed => ~pool'[cur'].closed
    BY <1>1, <1>2, Zenon DEF Shape
  <2> QED
    BY <1>2, <2>1, Zenon DEF Lifecycle
<1>8. \A g \in 1..gen' : done'[g] =>
        \/ g = gen' /\ tear' # "no"
        \/ pool'[poolOf'[g]].closed /\ sock'[g] = "closed"
  <2> SUFFICES ASSUME NEW g \in 1..gen, done[g], ~(g = gen /\ tear # "no")
               PROVE  pool'[poolOf[g]].closed /\ sock[g] = "closed"
    BY <1>2, Zenon
  <2>1. poolOf[g] \in 1..MaxPool
    BY ConnAssumption DEF Shape, Gen
  <2>2. pool[poolOf[g]].closed /\ sock[g] = "closed"
    BY Zenon DEF Lifecycle
  <2> QED
    BY <1>1, <2>1, <2>2, Zenon
<1> QED
    BY <1>3, <1>4, <1>5, <1>6, <1>7, <1>8, Zenon DEF Lifecycle

-----------------------------------------------------------------------------
(* unsafeTeardown may begin whenever the mutex is free: the generation is     *)
(* marked done once, and the rest of its teardown is due.                     *)
LEMMA BeginTeardownKeeps ==
    ASSUME Shape, Lifecycle, MutexFree, BeginTeardown, UNCHANGED <<gen, cur, pool, poolOf, sock>>
    PROVE  /\ Lifecycle'
           /\ done' \in [Gen -> BOOLEAN] /\ tear' \in {"no", "pool", "sock"}
           /\ \A h \in Gen : h # gen => done'[h] = done[h]
<1>1. tear = "no" /\ gen \in Gen /\ done \in [Gen -> BOOLEAN]
    BY Zenon DEF MutexFree, Shape
<1>2. ~connected'
    BY Zenon DEF BeginTeardown
<1>3. CASE done[gen]
  <2>1. UNCHANGED <<done, tear>>
    BY <1>3, Zenon DEF BeginTeardown
  <2>2. ~connected
    BY <1>3, Zenon DEF Lifecycle
  <2>3. Lifecycle'
    BY <1>1, <1>2, <1>3, <2>1, Zenon DEF Lifecycle
  <2> QED
    BY <1>1, <2>1, <2>3, Zenon
<1>4. CASE ~done[gen]
  <2>1. done' = [done EXCEPT ![gen] = TRUE] /\ tear' = "pool"
    BY <1>4, Zenon DEF BeginTeardown
  <2>2. /\ done'[gen]
        /\ \A h \in Gen : h # gen => done'[h] = done[h]
        /\ done' \in [Gen -> BOOLEAN]
    BY <1>1, <2>1, Zenon
  <2>3. 1..gen \subseteq Gen
    BY <1>1, ConnAssumption DEF Gen
  <2>4. /\ \A p \in 1..MaxPool : pool'[p].closed => pool'[p].txs = NoTxs
        /\ \A p \in 1..MaxPool : p > cur' => ~pool'[p].closed
        /\ tear' # "no" /\ gen' # 0 => poolOf'[gen'] = cur' /\ sock'[gen'] = "open"
    BY <1>4, <2>1, Zenon DEF Lifecycle
  <2>5. /\ tear' # "no" => done'[gen'] /\ ~connected'
        /\ tear' = "sock" => pool'[cur'].closed
        /\ connected' => gen' # 0 /\ ~done'[gen']
        /\ gen' # 0 /\ ~done'[gen'] =>
            connected' /\ poolOf'[gen'] = cur' /\ ~pool'[cur'].closed /\ sock'[gen'] = "open"
    BY <1>2, <2>1, <2>2, Zenon
  <2>6. /\ \A g \in 1..gen' : done'[g] =>
            \/ g = gen' /\ tear' # "no"
            \/ pool'[poolOf'[g]].closed /\ sock'[g] = "closed"
        /\ \A g \in 1..gen' : g # gen' => done'[g]
    BY <1>1, <2>1, <2>2, <2>3, Zenon DEF Lifecycle
  <2>7. \A g \in Gen : g > gen' => ~done'[g]
    BY <1>1, <2>2, ConnAssumption DEF Lifecycle, Gen
  <2> QED
    BY <2>1, <2>2, <2>4, <2>5, <2>6, <2>7, Zenon DEF Lifecycle
<1> QED
    BY <1>3, <1>4, Zenon

(* A loop's exit, or Disconnect, begins the teardown of its own generation    *)
(* only, and only once that generation is at fault.                           *)
LEMMA DisconnectKeeps ==
    ASSUME ConnInv, Disconnect PROVE ConnInv'
<1> USE DEF ConnInv
<1>1. /\ MutexFree /\ BeginTeardown /\ fault' = fault \cup {gen}
      /\ UNCHANGED <<gen, cur, pool, poolOf, sock, peerGone, rd, rhold, wr, sendVars>>
    BY Zenon DEF Disconnect, sockVars, loopVars
<1>2. /\ Lifecycle'
      /\ done' \in [Gen -> BOOLEAN] /\ tear' \in {"no", "pool", "sock"}
      /\ \A h \in Gen : h # gen => done'[h] = done[h]
    BY <1>1, BeginTeardownKeeps, Zenon
<1>3. Shape'
    BY <1>1, <1>2, Zenon DEF Shape, sendVars
<1>4. Blame'
    BY <1>1, <1>2, Zenon DEF Shape, Blame
<1> QED
    BY <1>2, <1>3, <1>4, Zenon

(* setDisconnected by a loop of a faulty generation marks no other one done. *)
LEMMA SetDisconnectedKeeps ==
    ASSUME ConnInv, NEW g \in Gen, g \in fault, SetDisconnected(g), UNCHANGED <<gen, cur, pool, poolOf, sock>>
    PROVE  /\ Lifecycle'
           /\ done' \in [Gen -> BOOLEAN] /\ tear' \in {"no", "pool", "sock"}
           /\ \A h \in Gen : h \notin fault => done'[h] = done[h]
<1> USE DEF ConnInv
<1>1. CASE g # gen
  <2>1. UNCHANGED <<connected, done, tear>>
    BY <1>1, Zenon DEF SetDisconnected
  <2>2. PoolsKept
    BY Zenon DEF PoolsKept, Shape
  <2>3. Lifecycle'
    BY <2>1, <2>2, LifecycleStable, Zenon DEF connVars
  <2> QED
    BY <2>1, <2>3, Zenon DEF Shape
<1>2. CASE g = gen
  <2>1. MutexFree /\ BeginTeardown
    BY <1>2, Zenon DEF SetDisconnected
  <2> QED
    BY <1>2, <2>1, BeginTeardownKeeps, Zenon
<1> QED
    BY <1>1, <1>2, Zenon

(* A loop that ended calls setDisconnected on its way out. *)
LEMMA LoopGoneKeeps ==
    ASSUME ConnInv, NEW g \in Gen, ReadGone(g) \/ WriteGone(g) PROVE ConnInv'
<1> USE DEF ConnInv
<1>1. /\ SetDisconnected(g)
      /\ UNCHANGED <<gen, cur, pool, poolOf, sock, peerGone, rhold, sendVars, fault>>
      /\ \/ rd' = [rd EXCEPT ![g] = "gone"] /\ wr' = wr
         \/ wr' = [wr EXCEPT ![g] = "gone"] /\ rd' = rd
    BY Zenon DEF ReadGone, WriteGone, sockVars
<1>2. g \in fault
    BY Zenon DEF Blame, ReadGone, WriteGone
<1>3. /\ Lifecycle'
      /\ done' \in [Gen -> BOOLEAN] /\ tear' \in {"no", "pool", "sock"}
      /\ \A h \in Gen : h \notin fault => done'[h] = done[h]
    BY <1>1, <1>2, SetDisconnectedKeeps, Zenon
<1>4. Shape'
    BY <1>1, <1>3, Zenon DEF Shape, sendVars
<1>5. Blame'
    BY <1>1, <1>2, <1>3, Zenon DEF Shape, Blame
<1> QED
    BY <1>3, <1>4, <1>5, Zenon

-----------------------------------------------------------------------------
(* connect uses an open pool that no earlier generation was given: the        *)
(* current one, unless it is closed; the one after it is always open.         *)
LEMMA PoolForConnectOpen ==
    ASSUME Shape, Lifecycle, PoolForConnect <= MaxPool
    PROVE  /\ PoolForConnect \in 1..MaxPool /\ PoolForConnect >= cur
           /\ ~pool[PoolForConnect].closed
<1>1. cur \in 1..MaxPool /\ cur + 1 > cur
    BY DEF Shape
<1>2. CASE pool[cur].closed
  <2>1. PoolForConnect = cur + 1
    BY <1>2, Zenon DEF PoolForConnect
  <2> QED
    BY <1>1, <2>1, ConnAssumption DEF Lifecycle
<1>3. CASE ~pool[cur].closed
  <2>1. PoolForConnect = cur
    BY <1>3, Zenon DEF PoolForConnect
  <2> QED
    BY <1>1, <1>3, <2>1
<1> QED
    BY <1>2, <1>3, Zenon

(* A successful dial starts a generation with an open pool and socket, and all *)
(* earlier generations are torn down.                                         *)
LEMMA ConnectOKKeeps ==
    ASSUME ConnInv, ConnectOK PROVE ConnInv'
<1> USE DEF ConnInv
<1> DEFINE q == UnsafeReset(pool[PoolForConnect])
<1>1. /\ tear = "no" /\ ~connected /\ gen < MaxGen
      /\ PoolForConnect \in 1..MaxPool /\ PoolForConnect >= cur
      /\ ~pool[PoolForConnect].closed
    BY PoolForConnectOpen, Zenon DEF ConnectOK, MutexFree
<1>2. /\ cur' = PoolForConnect
      /\ pool' = [pool EXCEPT ![PoolForConnect] = q]
      /\ gen' = gen + 1
      /\ poolOf' = [poolOf EXCEPT ![gen'] = cur']
      /\ sock' = [sock EXCEPT ![gen'] = "open"]
      /\ rd' = [rd EXCEPT ![gen'] = "top"]
      /\ wr' = [wr EXCEPT ![gen'] = "select"]
      /\ UNCHANGED <<tear, done, peerGone, rhold, sendVars, fault>>
    BY Zenon DEF ConnectOK
<1>3. connected'
    BY Zenon DEF ConnectOK
<1>4. pool[PoolForConnect] \in Pool
    BY <1>1, Zenon DEF Shape
<1>5. q \in Pool /\ q.closed = pool[PoolForConnect].closed /\ q.txs = NoTxs
    BY <1>4, PoolOps, Zenon
<1> HIDE DEF q
<1>6. PoolsKept
    BY <1>1, <1>2, <1>5, OnePool, Zenon
<1>7. gen \in Gen /\ gen' \in Gen /\ gen' # 0 /\ 1..gen' \subseteq Gen
    BY <1>1, <1>2, ConnAssumption DEF Shape, Gen
<1>8. Shape'
    BY <1>1, <1>2, <1>6, <1>7, Zenon DEF Shape, PoolsKept, sendVars
<1>9. Blame'
    BY <1>2, <1>7, Zenon DEF Shape, Blame
<1>10. Lifecycle'
  <2>a. \A p \in 1..MaxPool : pool'[p].closed => pool'[p].txs = NoTxs
    BY <1>6, Zenon DEF PoolsKept, Lifecycle
  <2>b. \A p \in 1..MaxPool : p > PoolForConnect => p > cur
    BY <1>1 DEF Shape
  <2>c. \A p \in 1..MaxPool : p > cur' => ~pool'[p].closed
    BY <1>2, <1>6, <2>b, Zenon DEF PoolsKept, Lifecycle
  <2>d. ~pool'[cur'].closed
    BY <1>1, <1>2, <1>6, Zenon DEF PoolsKept
  <2>1. /\ \A p \in 1..MaxPool : pool'[p].closed => pool'[p].txs = NoTxs
        /\ \A p \in 1..MaxPool : p > cur' => ~pool'[p].closed
        /\ ~pool'[cur'].closed
    BY <2>a, <2>c, <2>d, Zenon
  <2>2. ~done'[gen'] /\ \A g \in Gen : g > gen' => ~done'[g]
    BY <1>2, <1>7, ConnAssumption DEF Lifecycle, Gen
  <2>3. poolOf'[gen'] = cur' /\ sock'[gen'] = "open" /\ tear' = "no"
    BY <1>1, <1>2, <1>7, Zenon DEF Shape
  <2>4. gen # 0 => done[gen]
    BY <1>1, Zenon DEF Lifecycle
  <2>5. \A g \in 1..gen' : g # gen' => g \in 1..gen /\ done[g]
    BY <1>2, <1>7, <2>4 DEF Gen, Lifecycle
  <2>6. ASSUME NEW g \in 1..gen', done'[g]
        PROVE  pool'[poolOf'[g]].closed /\ sock'[g] = "closed"
    <3>1. g # gen' /\ done[g] /\ g \in 1..gen /\ g \in Gen
      BY <1>2, <1>7, <2>2, <2>5, <2>6, Zenon
    <3>2. pool[poolOf[g]].closed /\ sock[g] = "closed" /\ poolOf[g] \in 1..MaxPool
      BY <1>1, <3>1, Zenon DEF Lifecycle, Shape
    <3>3. poolOf'[g] = poolOf[g] /\ sock'[g] = sock[g]
      BY <1>2, <1>7, <3>1, Zenon DEF Shape
    <3> QED
      BY <1>6, <3>2, <3>3, Zenon DEF PoolsKept
  <2>7. \A g \in 1..gen' : g # gen' => done'[g]
    BY <1>2, <2>5, Zenon
  <2> QED
    BY <1>3, <1>7, <2>1, <2>2, <2>3, <2>6, <2>7, Zenon DEF Lifecycle
<1> QED
    BY <1>8, <1>9, <1>10, Zenon

(* What closing one pool, the current one or the next, does to the pools. *)
LEMMA OnePoolCloses ==
    ASSUME Shape, NEW p \in 1..MaxPool, pool' = [pool EXCEPT ![p] = ClosePool(@)]
    PROVE  /\ pool' \in [1..MaxPool -> Pool]
           /\ pool'[p].closed /\ pool'[p].txs = NoTxs
           /\ \A q \in 1..MaxPool : q # p => pool'[q] = pool[q]
<1>1. pool[p] \in Pool
    BY Zenon DEF Shape
<1>2. ClosePool(pool[p]) \in Pool /\ ClosePool(pool[p]).closed /\ ClosePool(pool[p]).txs = NoTxs
    BY <1>1, PoolOps, Zenon
<1> QED
    BY <1>2, Zenon DEF Shape

(* A failed dial closes the pool it prepared and touches no generation. *)
LEMMA ConnectFailKeeps ==
    ASSUME ConnInv, ConnectFail PROVE ConnInv'
<1> USE DEF ConnInv
<1>1. /\ tear = "no" /\ ~connected
      /\ PoolForConnect \in 1..MaxPool /\ PoolForConnect >= cur
    BY PoolForConnectOpen, Zenon DEF ConnectFail, MutexFree
<1>2. /\ cur' = PoolForConnect
      /\ pool' = [pool EXCEPT ![PoolForConnect] = ClosePool(@)]
      /\ UNCHANGED <<connected, gen, tear, poolOf, done, sock, peerGone, rd, rhold, wr, sendVars, fault>>
    BY Zenon DEF ConnectFail, sockVars, loopVars
<1>3. /\ pool' \in [1..MaxPool -> Pool]
      /\ pool'[cur'].closed /\ pool'[cur'].txs = NoTxs
      /\ \A q \in 1..MaxPool : q # cur' => pool'[q] = pool[q]
    BY <1>1, <1>2, OnePoolCloses, Zenon
<1>4. Shape'
    BY <1>1, <1>2, <1>3, Zenon DEF Shape, sendVars
<1>5. Blame'
    BY <1>2, Zenon DEF Blame
<1>6. Lifecycle'
  <2>1. /\ \A p \in 1..MaxPool : pool'[p].closed => pool'[p].txs = NoTxs
        /\ \A p \in 1..MaxPool : p > cur' => ~pool'[p].closed
    <3>1. \A p \in 1..MaxPool : pool'[p].closed => pool'[p].txs = NoTxs
      BY <1>3 DEF Lifecycle
    <3>2. \A p \in 1..MaxPool : p > cur' => p > cur /\ p # cur'
      BY <1>1, <1>2 DEF Shape
    <3>3. \A p \in 1..MaxPool : p > cur' => ~pool'[p].closed
      BY <1>3, <3>2, Zenon DEF Lifecycle
    <3> QED
      BY <3>1, <3>3, Zenon
  <2>2. gen # 0 => done[gen]
    BY <1>1, Zenon DEF Lifecycle
  <2>3. tear' = "no" /\ ~connected' /\ (gen' # 0 => done'[gen'])
    BY <1>1, <1>2, <2>2, Zenon
  <2>4. ASSUME NEW g \in 1..gen, done[g]
        PROVE  pool'[poolOf[g]].closed /\ sock[g] = "closed"
    <3>1. pool[poolOf[g]].closed /\ sock[g] = "closed"
      BY <1>1, <2>4, Zenon DEF Lifecycle
    <3>2. poolOf[g] \in 1..MaxPool
      BY ConnAssumption DEF Shape, Gen
    <3> QED
      BY <1>3, <3>1, <3>2, Zenon
  <2>5. /\ \A g \in 1..gen' : done'[g] => pool'[poolOf'[g]].closed /\ sock'[g] = "closed"
        /\ \A g \in 1..gen' : g # gen' => done'[g]
        /\ \A g \in Gen : g > gen' => ~done'[g]
    BY <1>2, <2>4, Zenon DEF Lifecycle
  <2> QED
    BY <2>1, <2>3, <2>5, Zenon DEF Lifecycle
<1> QED
    BY <1>4, <1>5, <1>6, Zenon

(* pool.Close, the second effect of unsafeTeardown. *)
LEMMA TeardownPoolKeeps ==
    ASSUME ConnInv, TeardownPool PROVE ConnInv'
<1> USE DEF ConnInv
<1>1. /\ tear = "pool" /\ tear' = "sock" /\ cur \in 1..MaxPool
      /\ pool' = [pool EXCEPT ![cur] = ClosePool(@)]
      /\ UNCHANGED <<connected, gen, cur, poolOf, done, sock, peerGone, rd, rhold, wr, sendVars, fault>>
    BY Zenon DEF TeardownPool, sockVars, loopVars, Shape
<1>2. /\ pool' \in [1..MaxPool -> Pool]
      /\ pool'[cur].closed /\ pool'[cur].txs = NoTxs
      /\ \A q \in 1..MaxPool : q # cur => pool'[q] = pool[q]
    BY <1>1, OnePoolCloses, Zenon
<1>3. Shape'
    BY <1>1, <1>2, Zenon DEF Shape, sendVars
<1>4. Blame'
    BY <1>1, Zenon DEF Blame
<1>5. Lifecycle'
  <2>1. /\ \A p \in 1..MaxPool : pool'[p].closed => pool'[p].txs = NoTxs
        /\ \A p \in 1..MaxPool : p > cur' => ~pool'[p].closed
        /\ pool'[cur'].closed
    <3>1. \A p \in 1..MaxPool : pool'[p].closed => pool'[p].txs = NoTxs
      BY <1>2, Zenon DEF Lifecycle
    <3>2. \A p \in 1..MaxPool : p > cur => p # cur
      BY <1>1
    <3>3. \A p \in 1..MaxPool : p > cur' => ~pool'[p].closed
      BY <1>1, <1>2, <3>2, Zenon DEF Lifecycle
    <3> QED
      BY <1>1, <1>2, <3>1, <3>3, Zenon
  <2>2. done[gen] /\ ~connected
    BY <1>1, Zenon DEF Lifecycle
  <2>3. done'[gen'] /\ ~connected'
    BY <1>1, <2>2, Zenon
  <2>4. gen' # 0 => poolOf'[gen'] = cur' /\ sock'[gen'] = "open"
    BY <1>1, Zenon DEF Lifecycle
  <2>5. \A g \in 1..gen : done[g] =>
            \/ g = gen
            \/ pool'[poolOf[g]].closed /\ sock[g] = "closed"
    <3>1. \A g \in 1..gen : poolOf[g] \in 1..MaxPool
      BY ConnAssumption DEF Shape, Gen
    <3> QED
      BY <1>2, <3>1, Zenon DEF Lifecycle
  <2>6. /\ \A g \in 1..gen' : done'[g] =>
            \/ g = gen' /\ tear' # "no"
            \/ pool'[poolOf'[g]].closed /\ sock'[g] = "closed"
        /\ \A g \in 1..gen' : g # gen' => done'[g]
        /\ \A g \in Gen : g > gen' => ~done'[g]
    BY <1>1, <2>5, Zenon DEF Lifecycle
  <2> QED
    BY <2>1, <2>3, <2>4, <2>6, Zenon DEF Lifecycle
<1> QED
    BY <1>3, <1>4, <1>5, Zenon

(* conn.Close, the last effect of unsafeTeardown. *)
LEMMA TeardownSockKeeps ==
    ASSUME ConnInv, TeardownSock PROVE ConnInv'
<1> USE DEF ConnInv
<1>1. /\ tear = "sock" /\ tear' = "no" /\ gen \in Gen
      /\ sock' = [sock EXCEPT ![gen] = IF @ = "open" THEN "closed" ELSE @]
      /\ UNCHANGED <<connected, gen, cur, pool, poolOf, done, peerGone, rd, rhold, wr, sendVars, fault>>
    BY Zenon DEF TeardownSock, loopVars, Shape
<1>2. done[gen] /\ ~connected /\ pool[cur].closed
    BY <1>1, Zenon DEF Lifecycle
<1>3. Shape'
    BY <1>1, Zenon DEF Shape, sendVars
<1>4. Blame'
    BY <1>1, <1>2, Zenon DEF Blame, Shape
<1>5. Lifecycle'
  <2>1. /\ \A p \in 1..MaxPool : pool'[p].closed => pool'[p].txs = NoTxs
        /\ \A p \in 1..MaxPool : p > cur' => ~pool'[p].closed
    BY <1>1, Zenon DEF Lifecycle
  <2>2. done'[gen'] /\ ~connected' /\ pool'[cur'].closed
    BY <1>1, <1>2, Zenon
  <2>3. gen # 0 => sock'[gen] = "closed" /\ poolOf[gen] = cur
    BY <1>1, Zenon DEF Lifecycle, Shape
  <2>4. ASSUME NEW g \in 1..gen, done[g]
        PROVE  pool[poolOf[g]].closed /\ sock'[g] = "closed"
    <3>1. CASE g = gen
      BY <1>1, <1>2, <2>3, <3>1 DEF Gen
    <3>2. CASE g # gen
      <4>1. g \in Gen
        BY <1>1, ConnAssumption DEF Gen
      <4> QED
        BY <1>1, <2>4, <3>2, <4>1, Zenon DEF Lifecycle, Shape
    <3> QED
      BY <3>1, <3>2, Zenon
  <2>5. /\ \A g \in 1..gen' : done'[g] => pool'[poolOf'[g]].closed /\ sock'[g] = "closed"
        /\ \A g \in 1..gen' : g # gen' => done'[g]
        /\ \A g \in Gen : g > gen' => ~done'[g]
    BY <1>1, <2>4, Zenon DEF Lifecycle
  <2> QED
    BY <1>1, <2>1, <2>2, <2>5, Zenon DEF Lifecycle
<1> QED
    BY <1>3, <1>4, <1>5, Zenon

-----------------------------------------------------------------------------
(* The steps below leave the connection state alone.  ResetTransactions       *)
(* empties the current pool and leaves it open.                               *)
LEMMA ResetKeeps ==
    ASSUME ConnInv, ResetTransactions PROVE ConnInv'
<1> USE DEF ConnInv
<1>1. /\ pool' = [pool EXCEPT ![cur] = UnsafeReset(pool[cur])] /\ cur \in 1..MaxPool
      /\ UNCHANGED <<connVars, poolOf, done, sock, peerGone, rd, rhold, wr, sendVars, fault>>
    BY Zenon DEF ResetTransactions, sockVars, loopVars, Shape
<1>2. pool[cur] \in Pool
    BY <1>1, Zenon DEF Shape
<1>3. /\ UnsafeReset(pool[cur]) \in Pool
      /\ UnsafeReset(pool[cur]).closed = pool[cur].closed /\ UnsafeReset(pool[cur]).txs = NoTxs
    BY <1>2, PoolOps, Zenon
<1>4. PoolsKept
    BY <1>1, <1>3, OnePool, Zenon
<1>5. Shape' /\ Blame'
    BY <1>1, <1>4, Zenon DEF Shape, Blame, PoolsKept, sendVars, connVars
<1> QED
    BY <1>1, <1>4, <1>5, LifecycleStable, Zenon

(* A tick of a pool's timeout monitor. *)
LEMMA TimeoutsKeep ==
    ASSUME ConnInv, NEW p \in 1..MaxPool, NEW S, CheckTimeouts(p, S) PROVE ConnInv'
<1> USE DEF ConnInv
<1>1. /\ pool' = [pool EXCEPT ![p] = ReleaseAll(pool[p], S)]
      /\ UNCHANGED <<connVars, poolOf, done, sock, peerGone, rd, rhold, wr, sendVars, fault>>
    BY Zenon DEF CheckTimeouts, sockVars, loopVars
<1>2. pool[p] \in Pool
    BY Zenon DEF Shape
<1>3. /\ ReleaseAll(pool[p], S) \in Pool /\ ReleaseAll(pool[p], S).closed = pool[p].closed
      /\ pool[p].txs = NoTxs => ReleaseAll(pool[p], S).txs = NoTxs
    BY <1>2, PoolOps
<1>4. PoolsKept
    BY <1>1, <1>3, OnePool, Zenon
<1>5. Shape' /\ Blame'
    BY <1>1, <1>4, Zenon DEF Shape, Blame, PoolsKept, sendVars, connVars
<1> QED
    BY <1>1, <1>4, <1>5, LifecycleStable, Zenon

(* A call that returns keeps the typing of the calls. *)
LEMMA CallEnds ==
    ASSUME Shape, NEW s \in Sender, SendDone(s), UNCHANGED calls
    PROVE  /\ calls' \in 0..MaxTx
           /\ mine' \in [Sender -> Tx \cup {0}] /\ DOMAIN at' = Sender /\ snap' \in [Sender -> Gen]
           /\ \A r \in Sender : at'[r] = "snap" => mine'[r] \in Tx
<1>1. /\ calls \in 0..MaxTx /\ mine \in [Sender -> Tx \cup {0}] /\ DOMAIN at = Sender
      /\ snap \in [Sender -> Gen] /\ \A r \in Sender : at[r] = "snap" => mine[r] \in Tx
    BY Zenon DEF Shape
<1>2. /\ at' = [at EXCEPT ![s] = "idle"]
      /\ mine' = [mine EXCEPT ![s] = 0]
      /\ snap' = [snap EXCEPT ![s] = 0]
    BY Zenon DEF SendDone
<1>3. 0 \in Gen
    BY ConnAssumption DEF ConnAssumption, Gen
<1>4. \A r \in Sender : at'[r] = "snap" => mine'[r] \in Tx
  <2> SUFFICES ASSUME NEW r \in Sender, at'[r] = "snap" PROVE mine'[r] \in Tx
    BY Zenon
  <2>1. r # s
    BY <1>1, <1>2, Zenon
  <2> QED
    BY <1>1, <1>2, <2>1, Zenon
<1>5. DOMAIN at' = Sender /\ calls' \in 0..MaxTx
    BY <1>1, <1>2, Zenon
<1>6. mine' \in [Sender -> Tx \cup {0}]
    BY <1>1, <1>2, Zenon
<1>7. snap' \in [Sender -> Gen]
    BY <1>1, <1>2, <1>3, Zenon
<1> QED
    BY <1>4, <1>5, <1>6, <1>7, Zenon

(* The steps of Send, and the end of its caller's context. *)
LEMMA SendersKeep ==
    ASSUME ConnInv, NEW s \in Sender, SendBegin(s) \/ SendStep(s) \/ ContextDone(s) PROVE ConnInv'
<1> USE DEF ConnInv
<1>1. UNCHANGED <<connVars, poolOf, done, sock, peerGone, rd, rhold, wr, fault>>
    BY Zenon DEF SendBegin, SendStep, SendPlace, SendQueue, SendReturn, ContextDone, sockVars, loopVars
<1>2. UNCHANGED pool => PoolsKept
    BY Zenon DEF PoolsKept, Shape
<1>3. snap[s] \in Gen /\ poolOf[snap[s]] \in 1..MaxPool /\ pool[poolOf[snap[s]]] \in Pool
    BY Zenon DEF Shape
<1> DEFINE p == poolOf[snap[s]]
<1>4. /\ PoolsKept
      /\ calls' \in 0..MaxTx
      /\ mine' \in [Sender -> Tx \cup {0}] /\ DOMAIN at' = Sender /\ snap' \in [Sender -> Gen]
      /\ \A r \in Sender : at'[r] = "snap" => mine'[r] \in Tx
  <2>1. CASE SendBegin(s)
    <3>a. calls \in 0..MaxTx
      BY Zenon DEF Shape
    <3>b. calls < MaxTx /\ calls' = calls + 1
      BY <2>1, Zenon DEF SendBegin
    <3>1. calls' \in 0..MaxTx /\ calls' \in Tx
      <4> HIDE DEF ConnInv
      <4> QED
        BY <3>a, <3>b, PoolAssumption DEF PoolAssumption, Tx
    <3> QED
      BY <1>2, <2>1, <3>1, Zenon DEF SendBegin, Shape
  <2>2. CASE SendPlace(s)
    <3>1. CASE /\ FreeAttempts(pool[p]) # {} /\ ~pool[p].closed
               /\ pool' = [pool EXCEPT ![p] = PlaceOK(pool[p], mine[s])] /\ SendGoes(s, "queue")
      <4>1. mine[s] \in Tx
        BY <2>2, Zenon DEF SendPlace, Shape
      <4>2. /\ PlaceOK(pool[p], mine[s]) \in Pool
            /\ PlaceOK(pool[p], mine[s]).closed = pool[p].closed
        BY <1>3, <3>1, <4>1, PlaceOp, Zenon
      <4>3. PoolsKept
        BY <1>3, <3>1, <4>2, OnePool, Zenon
      <4> QED
        BY <2>2, <3>1, <4>3, Zenon DEF SendPlace, SendGoes, Shape
    <3>2. CASE pool' = [pool EXCEPT ![p] = PlaceFull(pool[p])] /\ SendDone(s)
      <4>1. /\ PlaceFull(pool[p]) \in Pool /\ PlaceFull(pool[p]).closed = pool[p].closed
            /\ PlaceFull(pool[p]).txs = pool[p].txs
        BY <1>3, PoolOps, Zenon
      <4>2. PoolsKept
        BY <1>3, <3>2, <4>1, OnePool, Zenon
      <4> QED
        BY <2>2, <3>2, <4>2, CallEnds, Zenon DEF SendPlace
    <3>3. CASE UNCHANGED pool /\ SendDone(s)
      BY <1>2, <2>2, <3>3, CallEnds, Zenon DEF SendPlace
    <3> QED
      BY <2>2, <3>1, <3>2, <3>3, Zenon DEF SendPlace
  <2>3. CASE SendQueue(s)
    <3>1. CASE UNCHANGED pool /\ SendGoes(s, "await")
      BY <1>2, <2>3, <3>1, Zenon DEF SendQueue, SendGoes, Shape
    <3>2. CASE pool' = [pool EXCEPT ![p] = Release(pool[p], txid[mine[s]])] /\ SendDone(s)
      <4> DEFINE q == Release(pool[p], txid[mine[s]])
      <4>1. q \in Pool /\ q.closed = pool[p].closed /\ (pool[p].txs = NoTxs => q.txs = NoTxs)
        BY <1>3, ReleaseOp, Zenon
      <4>2. PoolsKept
        BY <1>3, <3>2, <4>1, OnePool, Zenon
      <4> QED
        BY <2>3, <3>2, <4>2, CallEnds, Zenon DEF SendQueue
    <3> QED
      BY <2>3, <3>1, <3>2, Zenon DEF SendQueue
  <2>4. CASE SendReturn(s)
    BY <1>2, <2>4, CallEnds, Zenon DEF SendReturn
  <2>5. CASE ContextDone(s)
    BY <1>2, <2>5, Zenon DEF ContextDone, Shape
  <2> QED
    BY <2>1, <2>2, <2>3, <2>4, <2>5, Zenon DEF SendStep
<1>5. Shape' /\ Blame'
    BY <1>1, <1>4, Zenon DEF Shape, Blame, PoolsKept, connVars
<1> QED
    BY <1>1, <1>4, <1>5, LifecycleStable, Zenon

(* Release on the read loop's side: the loop goes on, or holds what it is     *)
(* about to complete.                                                         *)
LEMMA ReleaseKeeps ==
    ASSUME ConnInv, NEW g \in Gen, NEW id, NEW r, NEW then, ReleaseForReader(g, id, r, then)
    PROVE  /\ PoolsKept
           /\ DOMAIN rd' = Gen /\ DOMAIN rhold' = Gen
           /\ \A h \in Gen : h # g => rd'[h] = rd[h] /\ rhold'[h] = rhold[h]
           /\ then = "top" => rd'[g] # "exit" /\ (rd'[g] = "complete" => rhold'[g].then = "top")
<1> USE DEF ConnInv
<1>1. poolOf[g] \in 1..MaxPool /\ pool[poolOf[g]] \in Pool
    BY Zenon DEF Shape
<1> DEFINE q == Release(pool[poolOf[g]], id)
<1>2. /\ q \in Pool /\ q.closed = pool[poolOf[g]].closed
      /\ pool[poolOf[g]].txs = NoTxs => q.txs = NoTxs
    BY <1>1, ReleaseOp, Zenon
<1>3. PoolsKept
    BY <1>1, <1>2, OnePool, Zenon DEF ReleaseForReader
<1>4. CASE rd' = [rd EXCEPT ![g] = then] /\ UNCHANGED rhold
    BY <1>3, <1>4, Zenon DEF Shape
<1>5. CASE \E t : /\ rd' = [rd EXCEPT ![g] = "complete"]
                  /\ rhold' = [rhold EXCEPT ![g] = [tx |-> t, res |-> r, then |-> then]]
  <2>1. PICK t : /\ rd' = [rd EXCEPT ![g] = "complete"]
                 /\ rhold' = [rhold EXCEPT ![g] = [tx |-> t, res |-> r, then |-> then]]
    BY <1>5, Zenon
  <2>2. DOMAIN rd = Gen /\ DOMAIN rhold = Gen
    BY Zenon DEF Shape
  <2>3. /\ DOMAIN rd' = Gen /\ DOMAIN rhold' = Gen
        /\ \A h \in Gen : h # g => rd'[h] = rd[h] /\ rhold'[h] = rhold[h]
    BY <2>1, <2>2, Zenon
  <2>4. rd'[g] = "complete" /\ rhold'[g].then = then
    BY <2>1, <2>2, Zenon
  <2> QED
    BY <1>3, <2>3, <2>4, Zenon
<1> QED
    BY <1>4, <1>5, Zenon DEF ReleaseForReader

(* A read loop that is about to end has a fault to show. *)
LEMMA ReadLoopKeeps ==
    ASSUME ConnInv, NEW g \in Gen,
           \/ ReadFrame(g) \/ ReadMisframed(g) \/ ReadTruncated(g) \/ ReadEnd(g)
           \/ ReadComplete(g) \/ ReadTimeoutInFrame(g)
    PROVE  ConnInv'
<1> USE DEF ConnInv
<1>1. UNCHANGED <<connVars, poolOf, done, sock, peerGone, wr, sendVars>>
    BY Zenon DEF ReadFrame, ReadMisframed, ReadTruncated, ReadEnd, ReadComplete, ReadTimeoutInFrame,
           ReadUnchanged
<1>2. UNCHANGED pool => PoolsKept
    BY Zenon DEF PoolsKept, Shape
<1>3. /\ PoolsKept
      /\ DOMAIN rd' = Gen /\ DOMAIN rhold' = Gen
      /\ fault' = fault \/ fault' = fault \cup {g}
      /\ \A h \in Gen : h # g => rd'[h] = rd[h] /\ rhold'[h] = rhold[h]
      /\ \/ g \in fault'
         \/ rd'[g] # "exit" /\ (rd'[g] = "complete" => rhold'[g].then # "exit")
  <2>1. CASE ReadFrame(g)
    <3>1. CASE \E id, r : ReleaseForReader(g, id, r, "top") /\ UNCHANGED fault
      BY <3>1, ReleaseKeeps, Zenon
    <3>2. CASE \E id, r : ReleaseForReader(g, id, r, "exit") /\ fault' = fault \cup {g}
      BY <3>2, ReleaseKeeps, Zenon
    <3> QED
      BY <2>1, <3>1, <3>2, Zenon DEF ReadFrame
  <2>2. CASE ReadMisframed(g)
    <3>1. CASE \E id, r : ReleaseForReader(g, id, r, "top") /\ UNCHANGED fault
      BY <3>1, ReleaseKeeps, Zenon
    <3>2. CASE \E id, r : ReleaseForReader(g, id, r, "exit") /\ fault' = fault \cup {g}
      BY <3>2, ReleaseKeeps, Zenon
    <3> QED
      BY <2>2, <3>1, <3>2, Zenon DEF ReadMisframed
  <2>3. CASE ReadTruncated(g)
    <3>1. g \in fault /\ UNCHANGED fault
      BY <2>3, Zenon DEF ReadTruncated, Blame
    <3>2. CASE ReadExit(g) /\ UNCHANGED pool
      BY <1>2, <3>1, <3>2, Zenon DEF ReadExit, Shape
    <3>3. CASE \E id, r : ReleaseForReader(g, id, r, "exit")
      BY <3>1, <3>3, ReleaseKeeps, Zenon
    <3> QED
      BY <2>3, <3>2, <3>3, Zenon DEF ReadTruncated
  <2>4. CASE ReadEnd(g)
    <3>1. g \in fault /\ UNCHANGED <<fault, pool>> /\ ReadExit(g)
      BY <2>4, Zenon DEF ReadEnd, Blame
    <3> QED
      BY <1>2, <3>1, Zenon DEF ReadExit, Shape
  <2>5. CASE ReadComplete(g)
    <3>1. /\ rd[g] = "complete" /\ UNCHANGED <<fault, pool>>
          /\ rd' = [rd EXCEPT ![g] = rhold[g].then]
          /\ rhold' = [rhold EXCEPT ![g] = NoHold]
      BY <2>5, Zenon DEF ReadComplete
    <3>2. g \in fault \/ rhold[g].then # "exit"
      BY <3>1, Zenon DEF Blame
    <3>3. NoHold.then # "exit"
      BY Zenon DEF NoHold
    <3> QED
      BY <1>2, <3>1, <3>2, <3>3, Zenon DEF Shape
  <2>6. CASE ReadTimeoutInFrame(g)
    BY <1>2, <2>6, Zenon DEF ReadTimeoutInFrame, Blame, Shape
  <2> QED
    BY <2>1, <2>2, <2>3, <2>4, <2>5, <2>6, Zenon
<1>4. Shape'
    BY <1>1, <1>3, Zenon DEF Shape, PoolsKept, connVars, sendVars
<1>5. Blame'
    BY <1>1, <1>3, Zenon DEF Blame
<1> QED
    BY <1>1, <1>3, <1>4, <1>5, LifecycleStable, Zenon

(* So has a write loop. *)
LEMMA WriteLoopKeeps ==
    ASSUME ConnInv, NEW g \in Gen, WriteTake(g) \/ WriteCheck(g) \/ WriteFail(g) \/ WriteOK(g)
    PROVE  ConnInv'
<1> USE DEF ConnInv
<1>1. UNCHANGED <<connVars, pool, poolOf, done, sock, peerGone, rd, rhold, sendVars, fault>>
    BY Zenon DEF WriteTake, WriteCheck, WriteFail, WriteOK, WriteUnchanged
<1>2. PoolsKept
    BY <1>1, Zenon DEF PoolsKept, Shape
<1>3. /\ DOMAIN wr' = Gen
      /\ \A h \in Gen : h # g => wr'[h] = wr[h]
      /\ g \in fault \/ wr'[g] # "exit"
    BY Zenon DEF WriteTake, WriteCheck, WriteFail, WriteOK, WriteExit, Blame, Shape
<1>4. Shape'
    BY <1>1, <1>2, <1>3, Zenon DEF Shape, PoolsKept, connVars, sendVars
<1>5. Blame'
    BY <1>1, <1>3, Zenon DEF Blame
<1> QED
    BY <1>1, <1>2, <1>4, <1>5, LifecycleStable, Zenon

(* The device answers, or closes the connection and is at fault. *)
LEMMA DeviceKeeps ==
    ASSUME ConnInv, NEW g \in Gen, DeviceCloses(g) \/ \E t \in pending[g] : DeviceAnswers(g, t)
    PROVE  ConnInv'
<1> USE DEF ConnInv
<1>1. /\ UNCHANGED <<connVars, pool, poolOf, done, sock, rd, rhold, wr, sendVars>>
      /\ \/ UNCHANGED <<peerGone, fault>>
         \/ peerGone' = [peerGone EXCEPT ![g] = TRUE] /\ fault' = fault \cup {g}
    BY Zenon DEF DeviceCloses, DeviceAnswers, loopVars
<1>2. PoolsKept
    BY <1>1, Zenon DEF PoolsKept, Shape
<1>3. Shape'
    BY <1>1, <1>2, Zenon DEF Shape, PoolsKept, connVars, sendVars
<1>4. Blame'
    BY <1>1, Zenon DEF Blame, Shape
<1> QED
    BY <1>1, <1>2, <1>3, <1>4, LifecycleStable, Zenon

-----------------------------------------------------------------------------
(* Every step of the connection keeps the invariant. *)
LEMMA NextConnInv == ConnInv /\ [Next]_vars => ConnInv'
<1> SUFFICES ASSUME ConnInv, [Next]_vars PROVE ConnInv'
    BY Zenon
<1>1. ASSUME NEW g \in 1..gen PROVE g \in Gen
    BY <1>1, ConnAssumption DEF ConnInv, Shape, Gen
<1>2. CASE ConnectOK
    BY <1>2, ConnectOKKeeps, Zenon
<1>3. CASE ConnectFail
    BY <1>3, ConnectFailKeeps, Zenon
<1>4. CASE Disconnect
    BY <1>4, DisconnectKeeps, Zenon
<1>5. CASE ResetTransactions
    BY <1>5, ResetKeeps, Zenon
<1>6. CASE TeardownPool
    BY <1>6, TeardownPoolKeeps, Zenon
<1>7. CASE TeardownSock
    BY <1>7, TeardownSockKeeps, Zenon
<1>8. CASE \E p \in 1..MaxPool : \E S \in SUBSET InFlight(pool[p]) \ {{}} : CheckTimeouts(p, S)
    BY <1>8, TimeoutsKeep, Zenon
<1>9. CASE \E s \in Sender : SendBegin(s) \/ SendStep(s) \/ ContextDone(s)
    BY <1>9, SendersKeep, Zenon
<1>10. ASSUME NEW g \in 1..gen, ReadLoop(g) \/ ReadTimeoutInFrame(g) PROVE ConnInv'
    BY <1>1, <1>10, ReadLoopKeeps, LoopGoneKeeps, Zenon DEF ReadLoop
<1>11. ASSUME NEW g \in 1..gen, WriteLoop(g) \/ WriteOK(g) PROVE ConnInv'
    BY <1>1, <1>11, WriteLoopKeeps, LoopGoneKeeps, Zenon DEF WriteLoop
<1>12. ASSUME NEW g \in 1..gen, DeviceCloses(g) \/ \E t \in pending[g] : DeviceAnswers(g, t)
       PROVE  ConnInv'
    BY <1>1, <1>12, DeviceKeeps, Zenon
<1>13. CASE UNCHANGED vars
  <2>1. UNCHANGED <<connVars, pool, poolOf, done, sock, peerGone, rd, rhold, wr, sendVars, fault>>
    BY <1>13, Zenon DEF vars, sockVars, loopVars
  <2>2. PoolsKept
    BY <2>1, Zenon DEF PoolsKept, ConnInv, Shape
  <2>3. Shape' /\ Blame'
    BY <2>1, Zenon DEF ConnInv, Shape, Blame, connVars, sendVars
  <2> QED
    BY <2>1, <2>2, <2>3, LifecycleStable, Zenon DEF ConnInv
<1> QED
    BY <1>2, <1>3, <1>4, <1>5, <1>6, <1>7, <1>8, <1>9, <1>10, <1>11, <1>12, <1>13, Zenon DEF Next

(* ConnInv is an invariant of the connection, whatever the number of callers, *)
(* generations, pools and transaction IDs.                                    *)
THEOREM ConnInvariant == Spec => []ConnInv
<1> QED
    BY InitConnInv, NextConnInv, PTL DEF Spec

(* setDisconnected compares generations, so a loop of an earlier generation   *)
(* that exits late never takes down a newer connection.                       *)
THEOREM FaultsAreOwn == Spec => []OnlyOwnFaults
<1>1. ConnInv => OnlyOwnFaults
    BY Zenon DEF ConnInv, Blame, OnlyOwnFaults
<1> QED
    BY ConnInvariant, <1>1, PTL

(* unsafeTeardown leaves no open pool, no transaction in a pool and no open   *)
(* socket behind, and none of it has begun while the conn says it is          *)
(* connected.                                                                 *)
THEOREM TeardownIsComplete == Spec => []TeardownComplete
<1>1. ConnInv => TeardownComplete
  <2> SUFFICES ASSUME ConnInv, NEW g \in 1..gen
               PROVE  IF done[g]
                        THEN \/ g = gen /\ tear # "no"
                             \/ /\ pool[poolOf[g]].closed
                                /\ InFlight(pool[poolOf[g]]) = {} /\ sock[g] = "closed"
                        ELSE g = gen /\ connected /\ ~pool[cur].closed /\ sock[g] = "open"
    BY Zenon DEF TeardownComplete
  <2>1. g \in Gen /\ poolOf[g] \in 1..MaxPool /\ g # 0
    BY ConnAssumption DEF ConnInv, Shape, Gen
  <2>2. CASE done[g]
    <3>1. CASE pool[poolOf[g]].closed /\ sock[g] = "closed"
      <4>1. pool[poolOf[g]].txs = NoTxs
        BY <2>1, <3>1, Zenon DEF ConnInv, Lifecycle
      <4>2. InFlight(pool[poolOf[g]]) = {}
        BY <4>1, Zenon DEF InFlight, NoTxs
      <4> QED
        BY <2>2, <3>1, <4>2, Zenon
    <3> QED
      BY <2>2, <3>1, Zenon DEF ConnInv, Lifecycle
  <2>3. CASE ~done[g]
    <3>1. g = gen
      BY <2>3, Zenon DEF ConnInv, Lifecycle
    <3> QED
      BY <2>1, <2>3, <3>1, Zenon DEF ConnInv, Lifecycle
  <2> QED
    BY <2>2, <2>3, Zenon
<1> QED
    BY ConnInvariant, <1>1, PTL
(* The steps of the connection itself and of the timeout monitor cancel what   *)
(* they take from a pool, or take nothing.                                     *)
LEMMA ConnKinds ==
    ASSUME ConnInv, FlowInv,
           \/ ConnectOK \/ ConnectFail \/ Disconnect \/ ResetTransactions \/ TeardownPool \/ TeardownSock
           \/ \E p \in 1..MaxPool : \E S \in SUBSET InFlight(pool[p]) \ {{}} : CheckTimeouts(p, S)
    PROVE  FlowStep
<1>s. /\ Shape /\ Lifecycle /\ gen \in Gen /\ cur \in 1..MaxPool /\ poolOf \in [Gen -> 1..MaxPool]
      /\ \A p \in 1..MaxPool : pool[p] \in Pool
  BY Zenon DEF ConnInv, Shape
<1>g. gen \in Nat /\ gen <= gen /\ 1..gen \subseteq Gen /\ gen + 1 \in Nat
  BY <1>s, ConnAssumption DEF Gen
<1>1. CASE ConnectOK
  <2> DEFINE p == PoolForConnect
  <2>1. /\ p \in 1..MaxPool /\ err' = [t \in Tx |-> err[t] \/ t \in InFlight(pool[p])] /\ gen' = gen + 1
        /\ pool' = [pool EXCEPT ![p] = UnsafeReset(pool[p])]
        /\ poolOf' = [poolOf EXCEPT ![gen + 1] = p] /\ UNCHANGED <<flowVars, callVars, txid, resp>>
    BY <1>1, <1>s, PoolForConnectOpen, Zenon DEF ConnectOK, CompleteErr, flowVars, callVars, sendVars
  <2>2. gen <= gen' /\ \A g \in 0..gen : poolOf'[g] = poolOf[g]
    BY <2>1, <1>s, <1>g
  <2> HIDE DEF p
  <2> DEFINE q == UnsafeReset(pool[p])
  <2>q. /\ q.nextID = pool[p].nextID
        /\ \A i \in ID : q.txs[i] = IF pool[p].txs[i] \in InFlight(pool[p]) THEN 0 ELSE pool[p].txs[i]
    BY <2>1, <1>s, ClearingOps
  <2>r. pool' = [pool EXCEPT ![p] = q]
    BY <2>1, Zenon
  <2> HIDE DEF q
  <2>c. Clears(p, q, InFlight(pool[p]))
    BY <2>1, <2>2, <2>q, <2>r, <1>s, <1>g, Zenon DEF Clears
  <2> QED
    BY <2>1, <2>c, <1>s, CancelsKind, Zenon
<1>2. CASE ConnectFail
  <2> DEFINE p == PoolForConnect
  <2>1. /\ p \in 1..MaxPool /\ err' = [t \in Tx |-> err[t] \/ t \in InFlight(pool[p])]
        /\ pool' = [pool EXCEPT ![p] = ClosePool(pool[p])]
        /\ UNCHANGED <<gen, poolOf, flowVars, callVars, txid, resp>>
    BY <1>2, <1>s, PoolForConnectOpen, Zenon DEF ConnectFail, CompleteErr, flowVars, callVars, sendVars, sockVars, loopVars
  <2> HIDE DEF p
  <2> DEFINE q == ClosePool(pool[p])
  <2>q. /\ q.nextID = pool[p].nextID
        /\ \A i \in ID : q.txs[i] = IF pool[p].txs[i] \in InFlight(pool[p]) THEN 0 ELSE pool[p].txs[i]
    BY <2>1, <1>s, ClearingOps
  <2>r. pool' = [pool EXCEPT ![p] = q]
    BY <2>1, Zenon
  <2> HIDE DEF q
  <2>c. Clears(p, q, InFlight(pool[p]))
    BY <2>1, <2>q, <2>r, <1>s, <1>g, Zenon DEF Clears
  <2> QED
    BY <2>1, <2>c, <1>s, CancelsKind, Zenon
<1>3. CASE Disconnect
  <2>1. Quiet
    BY <1>3, Zenon DEF Disconnect, Quiet, flowVars, callVars, outVars, sendVars, sockVars, loopVars, txVars
  <2> QED
    BY <2>1, Zenon DEF FlowStep
<1>4. CASE ResetTransactions
  <2>1. /\ err' = [t \in Tx |-> err[t] \/ t \in InFlight(pool[cur])] /\ pool' = [pool EXCEPT ![cur] = UnsafeReset(pool[cur])]
        /\ UNCHANGED <<gen, poolOf, flowVars, callVars, txid, resp>>
    BY <1>4, Zenon DEF ResetTransactions, CompleteErr, flowVars, callVars, connVars, sendVars, sockVars, loopVars
  <2> DEFINE q == UnsafeReset(pool[cur])
  <2>q. /\ q.nextID = pool[cur].nextID
        /\ \A i \in ID : q.txs[i] = IF pool[cur].txs[i] \in InFlight(pool[cur]) THEN 0 ELSE pool[cur].txs[i]
    BY <2>1, <1>s, ClearingOps
  <2>r. pool' = [pool EXCEPT ![cur] = q]
    BY <2>1, Zenon
  <2> HIDE DEF q
  <2>c. Clears(cur, q, InFlight(pool[cur]))
    BY <2>1, <2>q, <2>r, <1>s, <1>g, Zenon DEF Clears
  <2> QED
    BY <2>1, <2>c, <1>s, CancelsKind, Zenon
<1>5. CASE TeardownPool
  <2>1. /\ err' = [t \in Tx |-> err[t] \/ t \in InFlight(pool[cur])] /\ pool' = [pool EXCEPT ![cur] = ClosePool(pool[cur])]
        /\ UNCHANGED <<gen, poolOf, flowVars, callVars, txid, resp>>
    BY <1>5, Zenon DEF TeardownPool, CompleteErr, flowVars, callVars, sendVars, sockVars, loopVars
  <2> DEFINE q == ClosePool(pool[cur])
  <2>q. /\ q.nextID = pool[cur].nextID
        /\ \A i \in ID : q.txs[i] = IF pool[cur].txs[i] \in InFlight(pool[cur]) THEN 0 ELSE pool[cur].txs[i]
    BY <2>1, <1>s, ClearingOps
  <2>r. pool' = [pool EXCEPT ![cur] = q]
    BY <2>1, Zenon
  <2> HIDE DEF q
  <2>c. Clears(cur, q, InFlight(pool[cur]))
    BY <2>1, <2>q, <2>r, <1>s, <1>g, Zenon DEF Clears
  <2> QED
    BY <2>1, <2>c, <1>s, CancelsKind, Zenon
<1>6. CASE TeardownSock
  <2>1. /\ pending' = [pending EXCEPT ![gen] = {}] /\ stream' = [stream EXCEPT ![gen] = <<>>]
        /\ UNCHANGED <<gen, poolOf, pool, queue, rhold, whold, callVars, outVars>>
    BY <1>6, Zenon DEF TeardownSock, callVars, outVars, sendVars, loopVars, txVars
  <2>2. pending \in [Gen -> SUBSET Tx] /\ stream \in [Gen -> Seq(Frame)]
    BY Zenon DEF FlowInv, FlowTypes
  <2>3. pending' \in [Gen -> SUBSET Tx] /\ stream' \in [Gen -> Seq(Frame)]
    <3>1. {} \in SUBSET Tx /\ <<>> \in Seq(Frame)
      OBVIOUS
    <3> QED
      BY <2>1, <2>2, <3>1, Zenon
  <2>4. \A h \in Gen : pending'[h] \subseteq pending[h]
    BY <2>1, <2>2, Zenon
  <2>5. \A h \in Gen : stream'[h] = stream[h] \/ stream'[h] = <<>>
    BY <2>1, <2>2, Zenon
  <2>6. \A h \in Gen : Items(stream'[h]) \subseteq Items(stream[h])
    BY <2>5 DEF Items
  <2>7. \A h \in Gen : h > gen => stream'[h] = <<>>
    BY <2>5, Zenon DEF FlowInv, FlowTies
  <2>8. Moves
    BY <2>1, <2>3, <2>4, <2>6, <2>7, Zenon DEF Moves
  <2> QED
    BY <2>8, Zenon DEF FlowStep
<1>7. ASSUME NEW p \in 1..MaxPool, NEW S \in SUBSET InFlight(pool[p]) \ {{}}, CheckTimeouts(p, S)
      PROVE  FlowStep
  <2>1. /\ err' = [t \in Tx |-> err[t] \/ t \in S] /\ pool' = [pool EXCEPT ![p] = ReleaseAll(pool[p], S)]
        /\ S \subseteq InFlight(pool[p]) /\ UNCHANGED <<gen, poolOf, flowVars, callVars, txid, resp>>
    BY <1>7, Zenon DEF CheckTimeouts, CompleteErr, flowVars, callVars, connVars, sendVars, sockVars, loopVars
  <2> DEFINE q == ReleaseAll(pool[p], S)
  <2>q. /\ q.nextID = pool[p].nextID
        /\ \A i \in ID : q.txs[i] = IF pool[p].txs[i] \in S THEN 0 ELSE pool[p].txs[i]
    BY <2>1, <1>s, ClearingOps
  <2>r. pool' = [pool EXCEPT ![p] = q]
    BY <2>1, Zenon
  <2> HIDE DEF q
  <2>c. Clears(p, q, S)
    BY <2>1, <2>q, <2>r, <1>s, <1>g, Zenon DEF Clears
  <2> QED
    BY <2>1, <2>c, <1>s, CancelsKind, Zenon
<1> QED
  BY <1>1, <1>2, <1>3, <1>4, <1>5, <1>6, <1>7, Zenon

(* Place takes a free ID and leaves the other entries alone; Release empties   *)
(* one entry.                                                                  *)
LEMMA PlacingOps ==
    ASSUME Shape, NEW p \in 1..MaxPool, NEW t \in Tx, FreeAttempts(pool[p]) # {},
           pool' = [pool EXCEPT ![p] = PlaceOK(pool[p], t)]
    PROVE  LET i == PlaceID(pool[p]) IN
           /\ i \in ID /\ pool[p].txs[i] = 0
           /\ \A q \in 1..MaxPool : \A j \in ID :
                 pool'[q].txs[j] = IF q = p /\ j = i THEN t ELSE pool[q].txs[j]
           /\ \A q \in 1..MaxPool : pool'[q].nextID =
                 IF q = p THEN Candidate(pool[p], FirstFree(pool[p]) + 1) ELSE pool[q].nextID
<1> DEFINE i == PlaceID(pool[p])
<1>1. pool \in [1..MaxPool -> Pool] /\ pool[p] \in Pool /\ pool[p].txs \in [ID -> Tx \cup {0}]
  BY Zenon DEF Shape, Pool
<1>2. i \in ID /\ pool[p].txs[i] = 0
  BY <1>1, PlaceIsFresh, Zenon
<1>3. /\ PlaceOK(pool[p], t).txs = [pool[p].txs EXCEPT ![i] = t]
      /\ PlaceOK(pool[p], t).nextID = Candidate(pool[p], FirstFree(pool[p]) + 1)
  BY <1>1, Zenon DEF PlaceOK, Pool
<1>4. \A q \in 1..MaxPool : pool'[q] = IF q = p THEN PlaceOK(pool[p], t) ELSE pool[q]
  BY <1>1, Zenon
<1> HIDE DEF i
<1>5. \A q \in 1..MaxPool : \A j \in ID :
          pool'[q].txs[j] = IF q = p /\ j = i THEN t ELSE pool[q].txs[j]
  BY <1>1, <1>2, <1>3, <1>4, Zenon
<1>6. \A q \in 1..MaxPool : pool'[q].nextID =
          IF q = p THEN Candidate(pool[p], FirstFree(pool[p]) + 1) ELSE pool[q].nextID
  BY <1>3, <1>4
<1> QED
  BY <1>2, <1>5, <1>6, Zenon DEF i

(* A call of Send. *)
LEMMA CallKinds ==
    ASSUME ConnInv, FlowInv, NEW s \in Sender, SendBegin(s) \/ SendStep(s) \/ ContextDone(s)
    PROVE  FlowStep
<1>s. /\ Shape /\ snap[s] \in Gen /\ poolOf[snap[s]] \in 1..MaxPool
      /\ \A p \in 1..MaxPool : pool[p] \in Pool
      /\ at[s] = "snap" => mine[s] \in Tx
  BY Zenon DEF ConnInv, Shape
<1>d. CallStep(s) \/ Quiet => FlowStep
  BY Zenon DEF FlowStep
<1>1. CASE SendBegin(s)
  <2>1. gen \in 1..gen
    BY <1>1, ConnAssumption DEF SendBegin, ConnInv, Shape, Lifecycle, Gen
  <2>2. Begins(s)
    BY <1>1, <2>1, Zenon DEF SendBegin, Begins, connVars, sockVars, loopVars, txVars, flowVars, outVars
  <2> QED
    BY <2>2, <1>d, Zenon DEF CallStep
<1>2. CASE SendPlace(s)
  <2> DEFINE p == poolOf[snap[s]]
  <2>1. /\ at[s] = "snap" /\ UNCHANGED <<gen, poolOf, flowVars, calls>>
    BY <1>2, Zenon DEF SendPlace, connVars, sockVars, loopVars, flowVars
  <2>2. CASE /\ FreeAttempts(pool[p]) # {} /\ pool' = [pool EXCEPT ![p] = PlaceOK(pool[p], mine[s])]
             /\ txid' = [txid EXCEPT ![mine[s]] = PlaceID(pool[p])] /\ SendGoes(s, "queue")
             /\ UNCHANGED <<resp, err>>
    <3>1. Places(s, p, PlaceID(pool[p]))
      BY <2>1, <2>2, <1>s, PlacingOps, Zenon DEF Places, SendGoes
    <3>2. PlaceID(pool[p]) \in ID
      BY <3>1, Zenon DEF Places
    <3> QED
      BY <3>1, <3>2, <1>s, <1>d, Zenon DEF CallStep
  <2>3. CASE /\ FreeAttempts(pool[p]) = {} /\ pool' = [pool EXCEPT ![p] = PlaceFull(pool[p])]
             /\ SendDone(s) /\ UNCHANGED txVars
    <3>1. PlaceFull(pool[p]).txs = pool[p].txs
      BY <1>s, PoolOps, Zenon
    <3>2. \A q \in 1..MaxPool : pool'[q].txs = pool[q].txs /\ (q # p => pool'[q] = pool[q])
      BY <3>1, <2>3, <1>s, Zenon DEF Shape
    <3>3. Returns(s)
      BY <3>2, <2>1, <2>3, Zenon DEF Returns, txVars, outVars
    <3> QED
      BY <3>3, <1>d, Zenon DEF CallStep
  <2>4. CASE SendDone(s) /\ UNCHANGED <<pool, txVars>>
    <3>1. Returns(s)
      BY <2>1, <2>4, Zenon DEF Returns, txVars, outVars
    <3> QED
      BY <3>1, <1>d, Zenon DEF CallStep
  <2> QED
    BY <1>2, <2>2, <2>3, <2>4, Zenon DEF SendPlace
<1>3. CASE SendQueue(s)
  <2>1. /\ at[s] = "queue" /\ UNCHANGED <<gen, poolOf, pending, stream, rhold, whold, calls, outVars>>
    BY <1>3, Zenon DEF SendQueue, connVars, sockVars, loopVars, txVars, outVars
  <2>2. CASE /\ queue' = [queue EXCEPT ![snap[s]] = Append(queue[snap[s]], mine[s])]
             /\ SendGoes(s, "await") /\ UNCHANGED pool
    <3>1. Queues(s)
      BY <2>1, <2>2, Zenon DEF Queues, SendGoes
    <3> QED
      BY <3>1, <1>d, Zenon DEF CallStep
  <2>3. CASE /\ pool' = [pool EXCEPT ![poolOf[snap[s]]] = Release(pool[poolOf[snap[s]]], txid[mine[s]])]
             /\ SendDone(s) /\ UNCHANGED queue
    <3>1. Frees(poolOf[snap[s]], txid[mine[s]])
      BY <2>3, <1>s, FreesKind, Zenon
    <3>2. GivesUp(s)
      BY <3>1, <2>1, <2>3, Zenon DEF GivesUp, flowVars
    <3> QED
      BY <3>2, <1>d, Zenon DEF CallStep
  <2> QED
    BY <1>3, <2>2, <2>3, Zenon DEF SendQueue
<1>4. CASE SendReturn(s)
  <2>1. Returns(s)
    BY <1>4, Zenon DEF SendReturn, Returns, connVars, sockVars, loopVars, txVars, flowVars, outVars
  <2> QED
    BY <2>1, <1>d, Zenon DEF CallStep
<1>5. CASE ContextDone(s)
  <2>1. Quiet
    BY <1>5, Zenon DEF ContextDone, Quiet, connVars, sockVars, loopVars, flowVars, callVars, outVars
  <2> QED
    BY <2>1, <1>d, Zenon
<1> QED
  BY <1>1, <1>2, <1>3, <1>4, <1>5, Zenon DEF SendStep

(* Every step of the connection is of one of these kinds. *)
LEMMA StepKinds ==
    ASSUME ConnInv, LoopInv, FlowInv, [Next]_vars
    PROVE  FlowStep
<1>1. ASSUME NEW g \in 1..gen PROVE g \in Gen
  BY <1>1, ConnAssumption DEF ConnInv, Shape, Gen
<1>2. CASE \/ ConnectOK \/ ConnectFail \/ Disconnect \/ ResetTransactions \/ TeardownPool \/ TeardownSock
           \/ \E p \in 1..MaxPool : \E S \in SUBSET InFlight(pool[p]) \ {{}} : CheckTimeouts(p, S)
  BY <1>2, ConnKinds, Zenon
<1>3. CASE \E s \in Sender : SendBegin(s) \/ SendStep(s) \/ ContextDone(s)
  BY <1>3, CallKinds, Zenon
<1>4. ASSUME NEW g \in 1..gen, ReadLoop(g) \/ ReadTimeoutInFrame(g) PROVE FlowStep
  BY <1>4, ReadKinds, Zenon
<1>5. ASSUME NEW g \in 1..gen, WriteLoop(g) \/ WriteOK(g) PROVE FlowStep
  BY <1>1, <1>5, WriteKinds, Zenon DEF WriteLoop
<1>6. ASSUME NEW g \in 1..gen, DeviceCloses(g) \/ \E t \in pending[g] : DeviceAnswers(g, t) PROVE FlowStep
  BY <1>6, DeviceKinds, Zenon
<1>7. CASE UNCHANGED vars
  <2>1. Quiet
    BY <1>7, Zenon DEF vars, Quiet, connVars, sockVars, loopVars, sendVars, txVars, callVars, outVars, flowVars
  <2> QED
    BY <2>1, Zenon DEF FlowStep
<1> QED
  BY <1>2, <1>3, <1>4, <1>5, <1>6, <1>7, Zenon DEF Next

(* Whatever is queued, written, answered or held by a loop belongs to a call    *)
(* that was placed, and to a generation that was started (conn.go, Send and     *)
(* the two loops).                                                              *)
THEOREM TrafficInvariant == Spec => []TrafficInv
<1>1. Init => TrafficInv
  BY InitConnInv, InitFlow, Zenon DEF TrafficInv
<1>2. TrafficInv /\ [Next]_vars => TrafficInv'
  BY NextConnInv, LoopStep, StepKinds, FlowKept, Zenon DEF TrafficInv
<1> QED
  BY <1>1, <1>2, PTL DEF Spec

(* Under the condition on IDs, a call that waits in Send has its outcome or is  *)
(* still known to the pool or a read loop, which will bring it one, across       *)
(* teardowns, resets and reconnects (conn.go, Send; transaction.go).             *)
THEOREM NobodyOrphaned == Spec /\ []IdsNotReused => []NoOrphan
<1>1. Init => CallsKnown
  BY Zenon DEF Init, CallsKnown
<1>2. TrafficInv /\ TrafficInv' /\ IdsNotReused /\ CallsKnown /\ [Next]_vars => CallsKnown'
  BY StepKinds, CallsStep, Zenon DEF TrafficInv
<1>3. TrafficInv /\ CallsKnown => NoOrphan
  <2> SUFFICES ASSUME TrafficInv, CallsKnown, NEW s \in Sender, at[s] = "await", ~Answered(mine[s])
               PROVE  \/ mine[s] \in InFlight(pool[poolOf[snap[s]]]) /\ ~pool[poolOf[snap[s]]].closed
                      \/ \E g \in Gen : rd[g] = "complete" /\ rhold[g].tx = mine[s]
    BY Zenon DEF NoOrphan
  <2>1. mine[s] # 0
    BY Zenon DEF TrafficInv, FlowInv, FlowTies
  <2>2. CASE Held(mine[s])
    BY <2>1, <2>2, Zenon DEF Held, TrafficInv, LoopInv
  <2>3. CASE InPool(poolOf[snap[s]], mine[s])
    <3>1. poolOf[snap[s]] \in 1..MaxPool
      BY Zenon DEF TrafficInv, ConnInv, Shape
    <3>2. PICK i \in ID : pool[poolOf[snap[s]]].txs[i] = mine[s]
      BY <2>3, Zenon DEF InPool
    <3>3. ~pool[poolOf[snap[s]]].closed
      BY <3>1, <3>2, <2>1 DEF TrafficInv, ConnInv, Lifecycle, NoTxs
    <3> QED
      BY <3>2, <3>3, <2>1, Zenon DEF InFlight
  <2> QED
    BY <2>2, <2>3, Zenon DEF CallsKnown
<1> QED
  BY <1>1, <1>2, <1>3, TrafficInvariant, PTL DEF Spec

(* Under the condition on IDs and with whole frames, a response reaches the    *)
(* call whose request it answers, however late and in whatever order the       *)
(* device answers (conn.go, readLoop; transaction.go, Release).                *)
THEOREM ResponsesMatch == ~SlowFrames => (Spec /\ []IdsNotReused => []Correlated)
<1> SUFFICES ASSUME ~SlowFrames PROVE Spec /\ []IdsNotReused => []Correlated
  BY Zenon
<1>1. Init => HeldOwn
  <2> SUFFICES ASSUME Init PROVE HeldOwn
    BY Zenon
  <2>1. \A g \in Gen : Items(stream[g]) = {}
    BY DEF Init, Items
  <2>2. \A g \in Gen : rhold[g].tx = 0
    BY Zenon DEF Init, NoHold
  <2>3. \A t \in Tx : resp[t] = 0
    BY Zenon DEF Init
  <2> QED
    BY <2>1, <2>2, <2>3, Zenon DEF HeldOwn, Correlated
<1>2. TrafficInv /\ IdsNotReused /\ HeldOwn /\ [Next]_vars => HeldOwn'
  BY StepKinds, HeldStep, Zenon DEF TrafficInv
<1>3. HeldOwn => Correlated
  BY Zenon DEF HeldOwn
<1> QED
  BY <1>1, <1>2, <1>3, TrafficInvariant, PTL DEF Spec

(* Under the condition on IDs and with whole frames, no transaction gets both  *)
(* a response and an error, although the loops, the timeout monitor, the       *)
(* caller and the teardown all complete transactions (transaction.go,          *)
(* Complete and Cancel).                                                       *)
THEOREM OutcomeIsOne == ~SlowFrames => (Spec /\ []IdsNotReused => []OneOutcome)
<1> SUFFICES ASSUME ~SlowFrames PROVE Spec /\ []IdsNotReused => []OneOutcome
  BY Zenon
<1> DEFINE Inv == TrafficInv /\ CallsKnown /\ HeldOwn /\ PathInv /\ OutcomeInv
<1>1. Init => Inv
  <2> SUFFICES ASSUME Init PROVE Inv
    BY Zenon
  <2>1. TrafficInv /\ CallsKnown
    BY InitConnInv, InitFlow, Zenon DEF TrafficInv, Init, CallsKnown
  <2>2. \A g \in Gen : Items(stream[g]) = {}
    BY DEF Init, Items
  <2>3. \A g \in Gen : rhold[g].tx = 0
    BY Zenon DEF Init, NoHold
  <2>4. \A t \in Tx : resp[t] = 0 /\ err[t] = FALSE
    BY Zenon DEF Init
  <2>5. \A p \in 1..MaxPool : \A i \in ID : pool[p].txs[i] = 0
    BY Zenon DEF Init, NewTransactionPool, NoTxs
  <2>6. \A t \in Tx : t # 0
    BY DEF Tx
  <2>7. PathInv /\ \A t \in Tx : ~Sent(t) /\ ~Unsent(t)
    BY InitPath, Zenon
  <2>8. \A t \in Tx : ~Held(t) /\ \A p \in 1..MaxPool : ~InPool(p, t)
    BY <2>3, <2>5, <2>6, Zenon DEF Held, InPool
  <2>9. HeldOwn
    BY <2>2, <2>3, <2>4, Zenon DEF HeldOwn, Correlated
  <2>11. OutcomeInv
    BY <2>3, <2>4, <2>5, <2>6, <2>7, <2>8, Zenon DEF OutcomeInv
  <2> QED
    BY <2>1, <2>7, <2>9, <2>11, Zenon
<1>2. Inv /\ IdsNotReused /\ [Next]_vars => Inv'
  <2> SUFFICES ASSUME Inv, IdsNotReused, [Next]_vars PROVE Inv'
    BY Zenon
  <2>1. FlowStep
    BY StepKinds, Zenon DEF TrafficInv
  <2>2. TrafficInv'
    BY NextConnInv, LoopStep, StepKinds, FlowKept, Zenon DEF TrafficInv
  <2>3. CallsKnown'
    BY <2>1, <2>2, CallsStep, Zenon
  <2>4. HeldOwn'
    BY <2>1, HeldStep, Zenon
  <2>5. PathInv' /\ Onward
    BY <2>1, PathStep, Zenon
  <2>6. OutcomeInv'
    BY <2>1, <2>5, OutcomeStep, Zenon
  <2> QED
    BY <2>2, <2>3, <2>4, <2>5, <2>6, Zenon
<1>3. Inv => OneOutcome
  BY Zenon DEF OutcomeInv, OneOutcome
<1> QED
  BY <1>1, <1>2, <1>3, PTL DEF Spec

(* A connection that makes no more calls than there are IDs has room left. *)
LEMMA NumbersLeft ==
    ASSUME MaxTx <= NIds, TrafficInv, NumInv
    PROVE  RoomLeft
<1>1. IsFiniteSet(Tx) /\ Cardinality(Tx) = MaxTx
  <2>1. 1 \in Int /\ MaxTx \in Int
    BY PoolAssumption
  <2>2. IsFiniteSet(1..MaxTx) /\ Cardinality(1..MaxTx) = IF 1 > MaxTx THEN 0 ELSE MaxTx - 1 + 1
    BY <2>1, FS_Interval, Zenon
  <2>3. (IF 1 > MaxTx THEN 0 ELSE MaxTx - 1 + 1) = MaxTx
    BY PoolAssumption
  <2> QED
    BY <2>2, <2>3 DEF Tx
<1>2. Placed \subseteq Tx /\ IsFiniteSet(Placed) /\ Cardinality(Placed) \in Nat
  <2>1. Placed \subseteq Tx
    BY Zenon DEF Placed
  <2> QED
    BY <1>1, <2>1, FS_Subset, FS_CardinalityType, Zenon
<1>3. ASSUME NEW t \in Tx \ Placed PROVE Cardinality(Placed \cup {t}) = Cardinality(Placed) + 1
  BY <1>2, FS_AddElement, Zenon
<1>4. ASSUME NEW p \in 1..MaxPool, NEW n \in Nat, NumberedTo(p, n), Placed # Tx
      PROVE  /\ FreeAttempts(pool[p]) # {} /\ PlaceID(pool[p]) = n
             /\ Candidate(pool[p], FirstFree(pool[p]) + 1) = (n + 1) % NIds
  <2>1. PICK t \in Tx : t \notin Placed
    BY <1>2, <1>4, Zenon
  <2>2. IsFiniteSet(Tx \ {t}) /\ Cardinality(Tx \ {t}) = MaxTx - 1
    BY <1>1, FS_RemoveElement, Zenon
  <2>3. Cardinality(Placed) <= MaxTx - 1
    <3>1. Placed \subseteq Tx \ {t}
      BY <1>2, <2>1, Zenon
    <3> QED
      BY <2>2, <3>1, FS_Subset
  <2>4. n < NIds
    BY <1>2, <1>4, <2>3, PoolAssumption DEF NumberedTo
  <2>5. n \in ID /\ n % NIds = n
    BY <2>4, PoolAssumption DEF ID
  <2>6. pool[p].nextID = n
    BY <1>4, <2>5, Zenon DEF NumberedTo
  <2>7. pool[p].txs[n] = 0
    <3>1. ~(n < n)
      OBVIOUS
    <3> QED
      BY <1>4, <3>1, <2>5, Zenon DEF NumberedTo
  <2>8. 0 \in FreeAttempts(pool[p]) /\ FreeAttempts(pool[p]) \subseteq Nat
    <3>1. Candidate(pool[p], 0) = n
      BY <2>5, <2>6 DEF Candidate
    <3> QED
      BY <2>7, <3>1, PoolAssumption DEF FreeAttempts
  <2>9. FirstFree(pool[p]) = 0
    <3> DEFINE F == FreeAttempts(pool[p])
    <3>1. 0 \in F /\ F \subseteq Nat
      BY <2>8, Zenon
    <3> HIDE DEF F
    <3>2. (CHOOSE k \in F : \A j \in F : k <= j) = 0
      <4>1. \A j \in F : 0 <= j
        BY <3>1
      <4>2. \A k \in F : (\A j \in F : k <= j) => k = 0
        BY <3>1
      <4> QED
        BY <3>1, <4>1, <4>2, Zenon
    <3> QED
      BY <3>2, Zenon DEF FirstFree, F
  <2> QED
    BY <2>5, <2>6, <2>8, <2>9 DEF PlaceID, Candidate
<1> QED
  BY <1>2, <1>3, <1>4, Zenon DEF RoomLeft

(* A connection that makes no more calls than there are IDs never gives one    *)
(* out again while it is in use: Place counts upwards (transaction.go).        *)
THEOREM IdsStayApart == MaxTx <= NIds => (Spec => []IdsNotReused)
<1> SUFFICES ASSUME MaxTx <= NIds PROVE Spec => []IdsNotReused
  BY Zenon
<1> DEFINE Inv == TrafficInv /\ CallsKnown /\ PathInv /\ NumInv
<1>1. Init => Inv
  <2> SUFFICES ASSUME Init PROVE Inv
    BY Zenon
  <2>1. TrafficInv /\ CallsKnown
    BY InitConnInv, InitFlow, Zenon DEF TrafficInv, Init, CallsKnown
  <2>2. \A g \in Gen : Items(queue[g]) = {} /\ whold[g] = 0 /\ pending[g] = {} /\ Items(stream[g]) = {}
    BY DEF Init, Items
  <2>3. PathInv
    BY InitPath, Zenon
  <2>4. \A t \in Tx : t # 0 /\ txid[t] = -1
    BY DEF Init, Tx
  <2>5. \A s \in Sender : at[s] # "queue"
    BY Zenon DEF Init
  <2>6. \A g \in Gen : \A t \in Tx : ~OnWay(g, t)
    BY <2>2, <2>4, <2>5, Zenon DEF OnWay
  <2>7. ASSUME NEW p \in 1..MaxPool PROVE NumberedTo(p, 0)
    <3>1. Placed = {}
      BY <2>4, Zenon DEF Placed
    <3>2. Cardinality(Placed) = 0
      BY <3>1, FS_EmptySet, Zenon
    <3>3. pool[p].nextID = 0 /\ \A i \in ID : pool[p].txs[i] = 0
      BY Zenon DEF Init, NewTransactionPool, NoTxs
    <3>4. 0 % NIds = 0
      BY PoolAssumption
    <3> QED
      BY <2>6, <3>2, <3>3, <3>4 DEF NumberedTo
  <2>8. NumInv
    BY <2>4, <2>6, <2>7, Zenon DEF NumInv
  <2> QED
    BY <2>1, <2>3, <2>8, Zenon
<1>2. Inv /\ [Next]_vars => Inv'
  <2> SUFFICES ASSUME Inv, [Next]_vars PROVE Inv'
    BY Zenon
  <2>1. FlowStep
    BY StepKinds, Zenon DEF TrafficInv
  <2>2. TrafficInv'
    BY NextConnInv, LoopStep, StepKinds, FlowKept, Zenon DEF TrafficInv
  <2>3. IdsNotReused
    BY NumIds, Zenon
  <2>4. CallsKnown'
    BY <2>1, <2>2, <2>3, CallsStep, Zenon
  <2>5. PathInv' /\ Onward
    BY <2>1, PathStep, Zenon
  <2>6. NumInv'
    BY <2>1, <2>2, <2>5, NumbersLeft, NumStep, Zenon
  <2> QED
    BY <2>2, <2>4, <2>5, <2>6, Zenon
<1>3. Inv => IdsNotReused
  BY NumIds, Zenon
<1> QED
  BY <1>1, <1>2, <1>3, PTL DEF Spec

(* As long as there are IDs left, therefore, no call is orphaned, and with      *)
(* whole frames every response goes to its call and no call has two outcomes.   *)
THEOREM EnoughIds ==
    MaxTx <= NIds => /\ Spec => []NoOrphan
                     /\ ~SlowFrames => (Spec => [](Correlated /\ OneOutcome))
<1> SUFFICES ASSUME MaxTx <= NIds
             PROVE  /\ Spec => []NoOrphan
                    /\ ~SlowFrames => (Spec => [](Correlated /\ OneOutcome))
  BY Zenon
<1>1. Spec => []IdsNotReused
  BY IdsStayApart, Zenon
<1>2. Spec => []NoOrphan
  BY <1>1, NobodyOrphaned, PTL
<1>3. ASSUME ~SlowFrames PROVE Spec => [](Correlated /\ OneOutcome)
  <2>1. Spec /\ []IdsNotReused => []Correlated
    BY <1>3, ResponsesMatch, Zenon
  <2>2. Spec /\ []IdsNotReused => []OneOutcome
    BY <1>3, OutcomeIsOne, Zenon
  <2> QED
    BY <1>1, <2>1, <2>2, PTL
<1> QED
  BY <1>2, <1>3, Zenon
=============================================================================
