-------------------------- MODULE TCPTrafficProofs --------------------------
(***************************************************************************)
(* Requests and responses of a connection, for any number of callers,        *)
(* generations, pools and transaction IDs: the invariants of the traffic and *)
(* that each kind of step keeps them.  TCPConnProofs shows that every action *)
(* is of one of these kinds, and draws the conclusions.                      *)
(***************************************************************************)
EXTENDS TCPConn, TLAPS

(***************************************************************************)
(* The inductive invariant.  Shape is the part of the type invariant that   *)
(* the argument needs.  Blame says why a generation may be torn down: every *)
(* loop that ends, and every closed socket, already has a fault to show.    *)
(* Lifecycle ties done, connected, tear, the pool and the socket together;  *)
(* a pool that was closed stays closed and empty, and the pool of the live  *)
(* generation is the current one.                                           *)
(***************************************************************************)
Shape ==
    /\ gen \in Gen
    /\ cur \in 1..MaxPool
    /\ tear \in {"no", "pool", "sock"}
    /\ pool \in [1..MaxPool -> Pool]
    /\ poolOf \in [Gen -> 1..MaxPool]
    /\ done \in [Gen -> BOOLEAN]
    /\ sock \in [Gen -> {"none", "open", "closed"}]
    /\ peerGone \in [Gen -> BOOLEAN]
    /\ DOMAIN rd = Gen /\ DOMAIN rhold = Gen /\ DOMAIN wr = Gen
    /\ calls \in 0..MaxTx
    /\ mine \in [Sender -> Tx \cup {0}]
    /\ DOMAIN at = Sender
    /\ snap \in [Sender -> Gen]
    /\ \A s \in Sender : at[s] = "snap" => mine[s] \in Tx

Blame ==
    /\ fault \subseteq Gen
    /\ \A g \in Gen :
        \/ g \in fault
        \/ /\ ~done[g]
           /\ ~peerGone[g]
           /\ sock[g] # "closed"
           /\ rd[g] # "exit" /\ wr[g] # "exit"
           /\ rd[g] = "complete" => rhold[g].then # "exit"

Lifecycle ==
    /\ \A p \in 1..MaxPool : pool[p].closed => pool[p].txs = NoTxs
    /\ \A p \in 1..MaxPool : p > cur => ~pool[p].closed
    /\ tear # "no" => done[gen] /\ ~connected
    /\ tear = "sock" => pool[cur].closed
    /\ tear # "no" /\ gen # 0 => poolOf[gen] = cur /\ sock[gen] = "open"
    /\ connected => gen # 0 /\ ~done[gen]
    /\ gen # 0 /\ ~done[gen] =>
        connected /\ poolOf[gen] = cur /\ ~pool[cur].closed /\ sock[gen] = "open"
    /\ \A g \in 1..gen : done[g] =>
        \/ g = gen /\ tear # "no"
        \/ pool[poolOf[g]].closed /\ sock[g] = "closed"
    /\ \A g \in 1..gen : g # gen => done[g]
    /\ \A g \in Gen : g > gen => ~done[g]

ConnInv == Shape /\ Blame /\ Lifecycle


(***************************************************************************)
(* Requests and responses.  A transaction goes from its caller through the   *)
(* write channel, the write loop and the device to the stream; what holds of *)
(* it on the way rests on IDs: a caller that gives up in the first select,   *)
(* and the read loop, name a transaction to the pool by its ID alone.        *)
(***************************************************************************)
Items(q) == {q[i] : i \in DOMAIN q}

(* The entry a pool has under the ID of t. *)
Entry(g, t) == pool[poolOf[g]].txs[txid[t]]

(* No ID is given out again while a caller in the first select, or an answer  *)
(* on its way, still names an earlier transaction by it.                       *)
IdsNotReused ==
    /\ \A s \in Sender : at[s] = "queue" => Entry(snap[s], mine[s]) \in {0, mine[s]}
    /\ \A g \in Gen : \A f \in Items(stream[g]) : Entry(g, f.tx) \in {0, f.tx}

(* The loops hold a transaction exactly where the code has one in a local      *)
(* variable, and run only once their generation was started.                   *)
LoopInv ==
    /\ rd \in [Gen -> {"none", "top", "complete", "exit", "gone"}]
    /\ wr \in [Gen -> {"none", "select", "have", "ready", "exit", "gone"}]
    /\ rhold \in [Gen -> [tx : Tx \cup {0}, res : Tx \cup {0, Garbage}, then : {"top", "exit"}]]
    /\ whold \in [Gen -> Tx \cup {0}]
    /\ \A g \in Gen : (rhold[g].tx # 0) <=> (rd[g] = "complete")
    /\ \A g \in Gen : (whold[g] # 0) <=> (wr[g] \in {"have", "ready"})
    /\ \A g \in Gen : g > gen => rd[g] = "none" /\ wr[g] = "none"

FlowTypes ==
    /\ at \in [Sender -> {"idle", "snap", "queue", "await"}]
    /\ queue \in [Gen -> Seq(Tx)]
    /\ pending \in [Gen -> SUBSET Tx]
    /\ stream \in [Gen -> Seq(Frame)]
    /\ txid \in [Tx -> ID \cup {-1}]
    /\ resp \in [Tx -> Tx \cup {0, Garbage}]
    /\ err \in [Tx -> BOOLEAN]

(* A call has a transaction from its first step to its last, and a generation *)
(* not yet started has nothing on its way.                                     *)
FlowTies ==
    /\ \A s \in Sender : mine[s] <= calls /\ ((at[s] = "idle") <=> (mine[s] = 0))
    /\ \A s \in Sender : at[s] # "idle" => snap[s] \in 1..gen
    /\ \A g \in Gen : g > gen => queue[g] = <<>> /\ pending[g] = {} /\ stream[g] = <<>>

(* What was queued was placed, and has an ID. *)
Carried ==
    /\ \A s \in Sender : at[s] = "queue" => txid[mine[s]] \in ID
    /\ \A g \in Gen : whold[g] # 0 => txid[whold[g]] \in ID
    /\ \A g \in Gen : \A t \in Items(queue[g]) : txid[t] \in ID
    /\ \A g \in Gen : \A t \in pending[g] : txid[t] \in ID
    /\ \A g \in Gen : \A f \in Items(stream[g]) : txid[f.tx] \in ID

FlowInv == FlowTypes /\ FlowTies /\ Carried

(* A new connection has nothing on its way. *)
LEMMA InitFlow == Init => LoopInv /\ FlowInv
<1> SUFFICES ASSUME Init PROVE LoopInv /\ FlowInv
  BY Zenon
<1>1. FlowTypes
  BY PoolAssumption, ConnAssumption DEF Init, FlowTypes, Tx, ID, Gen
<1>2. FlowTies
  BY PoolAssumption, ConnAssumption DEF Init, FlowTies, Gen
<1>3. Carried
  BY DEF Init, Carried, Items
<1>4. LoopInv
  BY PoolAssumption, ConnAssumption, Zenon DEF Init, LoopInv, NoHold, Tx, Gen
<1> QED
  BY <1>1, <1>2, <1>3, <1>4, Zenon DEF FlowInv

(* What a channel or a stream holds after each operation on it. *)
LEMMA ItemsOf ==
    ASSUME NEW T, NEW q \in Seq(T)
    PROVE  /\ Items(q) \subseteq T
           /\ \A x \in T : Append(q, x) \in Seq(T) /\ Items(Append(q, x)) = Items(q) \cup {x}
           /\ q # <<>> => Head(q) \in Items(q) /\ Tail(q) \in Seq(T) /\ Items(Tail(q)) \subseteq Items(q)
<1>1. Len(q) \in Nat /\ DOMAIN q = 1..Len(q) /\ \A i \in 1..Len(q) : q[i] \in T
  OBVIOUS
<1>2. Items(q) \subseteq T
  BY <1>1, Zenon DEF Items
<1>3. ASSUME NEW x \in T PROVE Append(q, x) \in Seq(T) /\ Items(Append(q, x)) = Items(q) \cup {x}
  <2>1. /\ Append(q, x) \in Seq(T) /\ DOMAIN Append(q, x) = 1..(Len(q) + 1)
        /\ \A i \in 1..Len(q) : Append(q, x)[i] = q[i]
        /\ Append(q, x)[Len(q) + 1] = x
    OBVIOUS
  <2> QED
    BY <2>1, <1>1 DEF Items
<1>4. ASSUME q # <<>>
      PROVE Head(q) \in Items(q) /\ Tail(q) \in Seq(T) /\ Items(Tail(q)) \subseteq Items(q)
  <2>1. Len(q) >= 1 /\ Head(q) = q[1] /\ Tail(q) \in Seq(T)
    BY <1>4
  <2>2. DOMAIN Tail(q) = 1..(Len(q) - 1) /\ \A i \in 1..(Len(q) - 1) : Tail(q)[i] = q[i + 1]
    BY <1>4
  <2> QED
    BY <2>1, <2>2, <1>1 DEF Items
<1> QED
  BY <1>2, <1>3, <1>4, Zenon

(* No two places of a channel hold the same transaction. *)
Once(q) == \A i, j \in DOMAIN q : q[i] = q[j] => i = j

(* Appending something new to a queue, and taking its head, repeats nothing. *)
LEMMA OnceKept ==
    ASSUME NEW T, NEW q \in Seq(T), Once(q)
    PROVE  /\ \A x \in T : x \notin Items(q) => Once(Append(q, x))
           /\ q # <<>> => Once(Tail(q)) /\ Head(q) \notin Items(Tail(q))
<1>1. Len(q) \in Nat /\ DOMAIN q = 1..Len(q)
  OBVIOUS
<1>2. ASSUME NEW x \in T, x \notin Items(q) PROVE Once(Append(q, x))
  <2>1. /\ DOMAIN Append(q, x) = 1..(Len(q) + 1)
        /\ \A i \in 1..Len(q) : Append(q, x)[i] = q[i]
        /\ Append(q, x)[Len(q) + 1] = x
    OBVIOUS
  <2> QED
    BY <2>1, <1>1, <1>2 DEF Items, Once
<1>3. ASSUME q # <<>> PROVE Once(Tail(q)) /\ Head(q) \notin Items(Tail(q))
  <2>1. Len(q) >= 1 /\ Head(q) = q[1]
    BY <1>3
  <2>2. DOMAIN Tail(q) = 1..(Len(q) - 1) /\ \A i \in 1..(Len(q) - 1) : Tail(q)[i] = q[i + 1]
    BY <1>3
  <2>3. ASSUME NEW i \in 1..(Len(q) - 1), NEW j \in 1..(Len(q) - 1), Tail(q)[i] = Tail(q)[j] PROVE i = j
    <3>1. q[i + 1] = q[j + 1] /\ i + 1 \in DOMAIN q /\ j + 1 \in DOMAIN q
      BY <2>2, <2>3, <1>1
    <3>2. i + 1 = j + 1
      BY <3>1, Zenon DEF Once
    <3> QED
      BY <3>2, <1>1
  <2>4. ASSUME NEW i \in 1..(Len(q) - 1) PROVE Tail(q)[i] # Head(q)
    <3>1. i + 1 \in DOMAIN q /\ 1 \in DOMAIN q /\ i + 1 # 1
      BY <2>1, <1>1
    <3> QED
      BY <3>1, <2>1, <2>2, Zenon DEF Once
  <2> QED
    BY <2>2, <2>3, <2>4, Zenon DEF Items, Once
<1> QED
  BY <1>2, <1>3, Zenon

-----------------------------------------------------------------------------
(* What the steps do to the transactions, one operator per kind of step. *)
flowVars == <<queue, pending, stream, rhold, whold>>
callVars == <<at, mine, snap, calls>>
outVars == <<txid, resp, err>>

Quiet == UNCHANGED <<gen, poolOf, pool, flowVars, callVars, outVars>>

(* checkTimeouts, unsafeReset and Close: the transactions S leave the pool p   *)
(* with an error; connect resets a pool and starts the next generation.        *)
Cancels(p, S) ==
    /\ S \subseteq InFlight(pool[p])
    /\ \A q \in 1..MaxPool : pool'[q].nextID = pool[q].nextID
    /\ \A q \in 1..MaxPool : \A i \in ID :
          pool'[q].txs[i] = IF q = p /\ pool[q].txs[i] \in S THEN 0 ELSE pool[q].txs[i]
    /\ err' = [t \in Tx |-> err[t] \/ t \in S]
    /\ gen <= gen' /\ \A g \in 0..gen : poolOf'[g] = poolOf[g]
    /\ UNCHANGED <<flowVars, callVars, txid, resp>>

Begins(s) ==
    /\ at[s] = "idle" /\ calls < MaxTx /\ gen \in 1..gen
    /\ calls' = calls + 1
    /\ mine' = [mine EXCEPT ![s] = calls + 1]
    /\ snap' = [snap EXCEPT ![s] = gen]
    /\ at' = [at EXCEPT ![s] = "snap"]
    /\ UNCHANGED <<gen, poolOf, pool, flowVars, outVars>>

Places(s, p, i) ==
    /\ at[s] = "snap" /\ p = poolOf[snap[s]] /\ i \in ID
    /\ FreeAttempts(pool[p]) # {} /\ i = PlaceID(pool[p]) /\ pool[p].txs[i] = 0
    /\ \A q \in 1..MaxPool : \A j \in ID :
          pool'[q].txs[j] = IF q = p /\ j = i THEN mine[s] ELSE pool[q].txs[j]
    /\ \A q \in 1..MaxPool :
          pool'[q].nextID = IF q = p THEN Candidate(pool[p], FirstFree(pool[p]) + 1) ELSE pool[q].nextID
    /\ txid' = [txid EXCEPT ![mine[s]] = i]
    /\ at' = [at EXCEPT ![s] = "queue"]
    /\ UNCHANGED <<gen, poolOf, flowVars, mine, snap, calls, resp, err>>

(* A call that got no ID, or its outcome, returns. *)
Returns(s) ==
    /\ at[s] \in {"snap", "await"}
    /\ \A q \in 1..MaxPool : pool'[q].txs = pool[q].txs
    /\ \A q \in 1..MaxPool :
          \/ pool'[q].nextID = pool[q].nextID
          \/ at[s] = "snap" /\ q = poolOf[snap[s]] /\ FreeAttempts(pool[q]) = {}
    /\ SendDone(s)
    /\ UNCHANGED <<gen, poolOf, flowVars, calls, outVars>>

(* pool.Release(id). *)
Frees(p, id) ==
    /\ \A q \in 1..MaxPool : pool'[q].nextID = pool[q].nextID
    /\ \A q \in 1..MaxPool : \A j \in ID :
          pool'[q].txs[j] = IF q = p /\ j = id THEN 0 ELSE pool[q].txs[j]

GivesUp(s) ==
    /\ at[s] = "queue"
    /\ Frees(poolOf[snap[s]], txid[mine[s]])
    /\ SendDone(s)
    /\ UNCHANGED <<gen, poolOf, flowVars, calls, outVars>>

Queues(s) ==
    /\ at[s] = "queue"
    /\ queue' = [queue EXCEPT ![snap[s]] = Append(queue[snap[s]], mine[s])]
    /\ at' = [at EXCEPT ![s] = "await"]
    /\ UNCHANGED <<gen, poolOf, pool, pending, stream, rhold, whold, mine, snap, calls, outVars>>

(* The write loop takes a transaction, drops it, perhaps with an error, or     *)
(* writes its request.                                                         *)
Takes(g) ==
    /\ queue[g] # <<>> /\ whold[g] = 0
    /\ whold' = [whold EXCEPT ![g] = Head(queue[g])]
    /\ queue' = [queue EXCEPT ![g] = Tail(queue[g])]
    /\ UNCHANGED <<gen, poolOf, pool, pending, stream, rhold, callVars, outVars>>

Drops(g, S) ==
    /\ S \subseteq {whold[g]} \ {0}
    /\ whold' = [whold EXCEPT ![g] = 0]
    /\ err' = [t \in Tx |-> err[t] \/ t \in S]
    /\ UNCHANGED <<gen, poolOf, pool, queue, pending, stream, rhold, callVars, txid, resp>>

Writes(g) ==
    /\ whold[g] # 0
    /\ whold' = [whold EXCEPT ![g] = 0]
    /\ pending' = pending \/ pending' = [pending EXCEPT ![g] = pending[g] \cup {whold[g]}]
    /\ UNCHANGED <<gen, poolOf, pool, queue, stream, rhold, callVars, outVars>>

(* The device answers a request; a frame is cut in two; the socket is closed. *)
Moves ==
    /\ pending' \in [Gen -> SUBSET Tx] /\ stream' \in [Gen -> Seq(Frame)]
    /\ \A h \in Gen : pending'[h] \subseteq pending[h]
    /\ \A h \in Gen : \A f \in Items(stream'[h]) :
          \/ f \in Items(stream[h])
          \/ f.kind # "tail" /\ f.tx \in pending[h]
          \/ SlowFrames /\ \E e \in Items(stream[h]) : e.tx = f.tx
    /\ \A h \in Gen : h > gen => stream'[h] = <<>>
    /\ UNCHANGED <<gen, poolOf, pool, queue, rhold, whold, callVars, outVars>>

(* The read loop of g releases an ID and holds what it found, for r. *)
Reads(g, id, r, then) ==
    /\ rhold[g].tx = 0
    /\ \/ r = 0
       \/ \E f \in Items(stream[g]) : f.kind = "ok" /\ r = f.tx /\ id = txid[f.tx]
       \/ r = Garbage /\ \E f \in Items(stream[g]) : f.kind = "tail"
    /\ Frees(poolOf[g], id)
    /\ rhold' = IF pool[poolOf[g]].txs[id] = 0
                  THEN rhold
                  ELSE [rhold EXCEPT ![g] = [tx |-> pool[poolOf[g]].txs[id], res |-> r, then |-> then]]
    /\ stream' \in [Gen -> Seq(Frame)]
    /\ \A h \in Gen : Items(stream'[h]) \subseteq Items(stream[h])
    /\ \A h \in Gen : h > gen => stream'[h] = <<>>
    /\ UNCHANGED <<gen, poolOf, queue, pending, whold, callVars, outVars>>

Completes(g) ==
    /\ rhold[g].tx # 0
    /\ rhold' = [rhold EXCEPT ![g] = NoHold]
    /\ IF rhold[g].res = 0
         THEN err' = [t \in Tx |-> err[t] \/ t = rhold[g].tx] /\ resp' = resp
         ELSE /\ err' = err
              /\ resp' = IF resp[rhold[g].tx] = 0
                           THEN [resp EXCEPT ![rhold[g].tx] = rhold[g].res] ELSE resp
    /\ UNCHANGED <<gen, poolOf, pool, queue, pending, stream, whold, callVars, txid>>

CallStep(s) ==
    \/ Begins(s) \/ (\E p \in 1..MaxPool, i \in ID : Places(s, p, i))
    \/ Returns(s) \/ GivesUp(s) \/ Queues(s)

WireStep(g) ==
    \/ Takes(g) \/ (\E S \in SUBSET Tx : Drops(g, S)) \/ Writes(g)
    \/ (\E id \in ID, r \in Tx \cup {0, Garbage}, then \in {"top", "exit"} : Reads(g, id, r, then)) \/ Completes(g)

FlowStep ==
    \/ Quiet \/ Moves
    \/ \E p \in 1..MaxPool, S \in SUBSET Tx : Cancels(p, S)
    \/ \E s \in Sender : CallStep(s)
    \/ \E g \in Gen : WireStep(g)

-----------------------------------------------------------------------------
(* What is cancelled leaves the pool, and nothing else does; numbering goes on. *)
LEMMA ClearingOps ==
    ASSUME NEW P \in Pool
    PROVE  /\ UnsafeReset(P).nextID = P.nextID /\ ClosePool(P).nextID = P.nextID
           /\ \A i \in ID : /\ UnsafeReset(P).txs[i] = IF P.txs[i] \in InFlight(P) THEN 0 ELSE P.txs[i]
                            /\ ClosePool(P).txs[i] = IF P.txs[i] \in InFlight(P) THEN 0 ELSE P.txs[i]
           /\ \A S : /\ ReleaseAll(P, S).nextID = P.nextID
                     /\ \A i \in ID : ReleaseAll(P, S).txs[i] = IF P.txs[i] \in S THEN 0 ELSE P.txs[i]
           /\ InFlight(P) \subseteq Tx
<1>1. P.txs \in [ID -> Tx \cup {0}] /\ P = [closed |-> P.closed, nextID |-> P.nextID, txs |-> P.txs]
  BY Zenon DEF Pool
<1>2. \A i \in ID : NoTxs[i] = 0 /\ P.txs[i] \notin InFlight(P) => P.txs[i] = 0
  BY Zenon DEF NoTxs, InFlight
<1>3. /\ UnsafeReset(P).nextID = P.nextID /\ UnsafeReset(P).txs = NoTxs
      /\ ClosePool(P).nextID = P.nextID /\ ClosePool(P).txs = NoTxs
  BY <1>1, Zenon DEF UnsafeReset, ClosePool
<1>4. ASSUME NEW S
      PROVE  /\ ReleaseAll(P, S).nextID = P.nextID
             /\ \A i \in ID : ReleaseAll(P, S).txs[i] = IF P.txs[i] \in S THEN 0 ELSE P.txs[i]
  BY <1>1, Zenon DEF ReleaseAll
<1>5. \A i \in ID : NoTxs[i] = 0
  BY Zenon DEF NoTxs
<1>6. \A i \in ID : P.txs[i] \in InFlight(P) \/ P.txs[i] = 0
  BY Zenon DEF InFlight
<1>7. InFlight(P) \subseteq Tx
  BY <1>1, Zenon DEF InFlight
<1> QED
  BY <1>3, <1>4, <1>5, <1>6, <1>7, Zenon

(* The pool p becomes q, without the transactions S, which fail. *)
Clears(p, q, S) ==
    /\ S \subseteq InFlight(pool[p])
    /\ pool' = [pool EXCEPT ![p] = q] /\ q.nextID = pool[p].nextID
    /\ \A i \in ID : q.txs[i] = IF pool[p].txs[i] \in S THEN 0 ELSE pool[p].txs[i]
    /\ err' = [t \in Tx |-> err[t] \/ t \in S]
    /\ gen <= gen' /\ \A g \in 0..gen : poolOf'[g] = poolOf[g]
    /\ UNCHANGED <<flowVars, callVars, txid, resp>>

(* Closing or clearing a pool cancels what is in it. *)
LEMMA CancelsKind ==
    ASSUME Shape, NEW p \in 1..MaxPool, NEW q, NEW S, Clears(p, q, S)
    PROVE  FlowStep
<1>1. pool \in [1..MaxPool -> Pool] /\ pool[p] \in Pool
  BY Zenon DEF Shape
<1>2. \A r \in 1..MaxPool : pool'[r] = IF r = p THEN q ELSE pool[r]
  BY <1>1, Zenon DEF Clears
<1>3. \A r \in 1..MaxPool : pool'[r].nextID = pool[r].nextID
  BY <1>2, Zenon DEF Clears
<1>4. \A r \in 1..MaxPool : \A i \in ID :
          pool'[r].txs[i] = IF r = p /\ pool[r].txs[i] \in S THEN 0 ELSE pool[r].txs[i]
  BY <1>2 DEF Clears
<1>6. S \in SUBSET Tx
  BY <1>1, ClearingOps, Zenon DEF Clears
<1>7. Cancels(p, S)
  BY <1>3, <1>4, Zenon DEF Cancels, Clears
<1> QED
  BY <1>6, <1>7, Zenon DEF FlowStep

(* Releasing by ID takes one entry out of the pool. *)
LEMMA FreesKind ==
    ASSUME Shape, NEW p \in 1..MaxPool, NEW i, pool' = [pool EXCEPT ![p] = Release(pool[p], i)]
    PROVE  Frees(p, i)
<1>1. pool \in [1..MaxPool -> Pool] /\ pool[p] \in Pool /\ pool[p].txs \in [ID -> Tx \cup {0}]
  BY Zenon DEF Shape, Pool
<1>2. \A q \in 1..MaxPool : pool'[q] = IF q = p THEN Release(pool[p], i) ELSE pool[q]
  BY <1>1, Zenon
<1>3. Release(pool[p], i).txs = [pool[p].txs EXCEPT ![i] = 0] /\ Release(pool[p], i).nextID = pool[p].nextID
  BY <1>1, Zenon DEF Release, Pool
<1>4. \A j \in ID : Release(pool[p], i).txs[j] = IF j = i THEN 0 ELSE pool[p].txs[j]
  BY <1>1, <1>3, Zenon
<1>5. \A q \in 1..MaxPool : pool'[q].nextID = pool[q].nextID
  BY <1>2, <1>3, Zenon
<1>6. \A q \in 1..MaxPool : \A j \in ID :
          pool'[q].txs[j] = IF q = p /\ j = i THEN 0 ELSE pool[q].txs[j]
  BY <1>2, <1>4
<1> QED
  BY <1>5, <1>6, Zenon DEF Frees

(* The write loop. *)
LEMMA WriteKinds ==
    ASSUME LoopInv, FlowInv, NEW g \in Gen,
           WriteTake(g) \/ WriteCheck(g) \/ WriteOK(g) \/ WriteFail(g) \/ WriteGone(g)
    PROVE  FlowStep
<1>t. whold[g] \in Tx \cup {0} /\ ((whold[g] # 0) <=> (wr[g] \in {"have", "ready"}))
  BY Zenon DEF LoopInv
<1>d. WireStep(g) \/ Quiet => FlowStep
  BY Zenon DEF FlowStep
<1>e. ASSUME CompleteErr({whold[g]}), wr[g] \in {"have", "ready"}, WriteExit(g), WriteUnchanged,
             UNCHANGED <<queue, pending>>
      PROVE  FlowStep
  <2>1. Drops(g, {whold[g]})
    BY <1>e, <1>t, Zenon DEF Drops, CompleteErr, WriteExit, WriteUnchanged, connVars, callVars, sendVars
  <2> QED
    BY <2>1, <1>d, <1>t, <1>e, Zenon DEF WireStep
<1>n. ASSUME whold' = [whold EXCEPT ![g] = 0], WriteUnchanged, UNCHANGED <<queue, pending, txVars>>
      PROVE  FlowStep
  <2>1. err = [t \in Tx |-> err[t] \/ t \in {}]
    BY Zenon DEF FlowInv, FlowTypes
  <2>2. Drops(g, {})
    BY <1>n, <2>1, Zenon DEF Drops, WriteUnchanged, txVars, connVars, callVars, sendVars
  <2> QED
    BY <2>2, <1>d, Zenon DEF WireStep
<1>1. CASE WriteTake(g)
  <2>1. CASE done[g] /\ WriteExit(g) /\ UNCHANGED queue
    BY <1>1, <2>1, <1>n, Zenon DEF WriteTake, WriteExit
  <2>2. CASE queue[g] # <<>> /\ whold' = [whold EXCEPT ![g] = Head(queue[g])]
             /\ queue' = [queue EXCEPT ![g] = Tail(queue[g])]
    <3>1. Takes(g)
      BY <1>1, <2>2, <1>t, Zenon DEF Takes, WriteTake, WriteUnchanged, txVars, outVars, connVars, callVars, sendVars
    <3> QED
      BY <3>1, <1>d, Zenon DEF WireStep
  <2> QED
    BY <1>1, <2>1, <2>2, Zenon DEF WriteTake
<1>2. CASE WriteCheck(g)
  <2>1. wr[g] = "have" /\ WriteUnchanged /\ UNCHANGED <<queue, pending>>
    BY <1>2, Zenon DEF WriteCheck
  <2>2. CASE whold' = [whold EXCEPT ![g] = 0] /\ UNCHANGED txVars
    BY <2>1, <2>2, <1>n, Zenon
  <2>3. CASE CompleteErr({whold[g]}) /\ WriteExit(g)
    BY <2>1, <2>3, <1>e, Zenon
  <2>4. CASE UNCHANGED <<whold, txVars>>
    <3>1. Quiet
      BY <2>1, <2>4, Zenon DEF Quiet, WriteUnchanged, txVars, outVars, connVars, callVars, sendVars, flowVars
    <3> QED
      BY <3>1, <1>d, Zenon
  <2> QED
    BY <1>2, <2>2, <2>3, <2>4, Zenon DEF WriteCheck
<1>3. CASE WriteOK(g)
  <2>1. Writes(g)
    BY <1>3, <1>t, Zenon DEF Writes, WriteOK, WriteUnchanged, txVars, outVars, connVars, callVars, sendVars
  <2> QED
    BY <2>1, <1>d, Zenon DEF WireStep
<1>4. CASE WriteFail(g)
  BY <1>4, <1>e, Zenon DEF WriteFail
<1>5. CASE WriteGone(g)
  <2>1. Quiet
    BY <1>5, Zenon DEF Quiet, WriteGone, sockVars, txVars, outVars, callVars, sendVars, flowVars
  <2> QED
    BY <2>1, <1>d, Zenon
<1> QED
  BY <1>1, <1>2, <1>3, <1>4, <1>5, Zenon

(* The read loop, which only ever names an ID that was given out, or, out of   *)
(* step with the frames, any ID.                                               *)
LEMMA ReadKinds ==
    ASSUME ConnInv, LoopInv, FlowInv, NEW g \in 1..gen, ReadLoop(g) \/ ReadTimeoutInFrame(g)
    PROVE  FlowStep
<1>s. g \in Gen /\ ~(g > gen) /\ Shape /\ gen \in Nat /\ poolOf[g] \in 1..MaxPool
  BY ConnAssumption DEF ConnInv, Shape, Gen
<1>t. /\ stream \in [Gen -> Seq(Frame)] /\ stream[g] \in Seq(Frame)
      /\ \A h \in Gen : h > gen => stream[h] = <<>>
      /\ \A f \in Items(stream[g]) : txid[f.tx] \in ID
      /\ (rhold[g].tx # 0) <=> (rd[g] = "complete")
  BY <1>s, Zenon DEF FlowInv, FlowTypes, FlowTies, Carried, LoopInv
<1>f. \A f \in Items(stream[g]) : f.tx \in Tx
  <2>1. Items(stream[g]) \subseteq Frame
    BY <1>t, ItemsOf, Zenon
  <2> QED
    BY <2>1, Zenon DEF Frame
<1>d. WireStep(g) \/ Quiet \/ Moves => FlowStep
  BY <1>s, Zenon DEF FlowStep
<1>u. ASSUME NEW q \in Seq(Frame), Items(q) \subseteq Items(stream[g]), stream' = [stream EXCEPT ![g] = q]
      PROVE  /\ stream' \in [Gen -> Seq(Frame)]
             /\ \A h \in Gen : Items(stream'[h]) \subseteq Items(stream[h])
             /\ \A h \in Gen : h > gen => stream'[h] = <<>>
  BY <1>u, <1>s, <1>t, Zenon
<1>r. ASSUME rd[g] = "top", NEW id \in ID, NEW r \in Tx \cup {0, Garbage}, NEW then \in {"top", "exit"},
             ReleaseForReader(g, id, r, then), ReadUnchanged, UNCHANGED txVars,
             NEW q \in Seq(Frame), Items(q) \subseteq Items(stream[g]), stream' = [stream EXCEPT ![g] = q],
             \/ r = 0
             \/ \E f \in Items(stream[g]) : f.kind = "ok" /\ r = f.tx /\ id = txid[f.tx]
             \/ r = Garbage /\ \E f \in Items(stream[g]) : f.kind = "tail"
      PROVE  FlowStep
  <2>1. /\ pool' = [pool EXCEPT ![poolOf[g]] = Release(pool[poolOf[g]], id)]
        /\ rhold' = IF pool[poolOf[g]].txs[id] = 0
                      THEN rhold
                      ELSE [rhold EXCEPT ![g] = [tx |-> pool[poolOf[g]].txs[id], res |-> r, then |-> then]]
    BY <1>r, Zenon DEF ReleaseForReader
  <2>2. Frees(poolOf[g], id)
    BY <2>1, <1>s, FreesKind, Zenon
  <2>3. rhold[g].tx = 0
    BY <1>r, <1>t, Zenon
  <2>4. UNCHANGED <<gen, poolOf, queue, pending, whold, callVars, outVars>>
    BY <1>r, Zenon DEF ReadUnchanged, connVars, sendVars, callVars, txVars, outVars
  <2>5. Reads(g, id, r, then)
    BY <2>1, <2>2, <2>3, <2>4, <1>r, <1>u, Zenon DEF Reads
  <2> QED
    BY <2>5, <1>d, Zenon DEF WireStep
<1>h. stream[g] # <<>> => Head(stream[g]) \in Items(stream[g])
  BY <1>t, ItemsOf, Zenon
<1>1. CASE ReadFrame(g)
  <2> DEFINE f == Head(stream[g])
  <2>1. /\ rd[g] = "top" /\ stream[g] # <<>> /\ ReadUnchanged /\ UNCHANGED txVars
        /\ stream' = [stream EXCEPT ![g] = Tail(stream[g])]
    BY <1>1, Zenon DEF ReadFrame
  <2>2. /\ f \in Items(stream[g]) /\ Tail(stream[g]) \in Seq(Frame)
        /\ Items(Tail(stream[g])) \subseteq Items(stream[g])
    BY <2>1, <1>t, ItemsOf, Zenon
  <2>3. txid[f.tx] \in ID /\ f.tx \in Tx
    BY <2>2, <1>t, <1>f, Zenon
  <2>4. \/ f.kind = "ok" /\ ReleaseForReader(g, txid[f.tx], f.tx, "top")
        \/ ReleaseForReader(g, txid[f.tx], 0, "exit")
    BY <1>1, Zenon DEF ReadFrame
  <2> HIDE DEF f
  <2>5. CASE f.kind = "ok" /\ ReleaseForReader(g, txid[f.tx], f.tx, "top")
    BY <2>5, <2>1, <2>2, <2>3, <1>r, Zenon
  <2>6. CASE ReleaseForReader(g, txid[f.tx], 0, "exit")
    BY <2>6, <2>1, <2>2, <2>3, <1>r, Zenon
  <2> QED
    BY <2>4, <2>5, <2>6, Zenon
<1>2. CASE ReadMisframed(g)
  <2>1. /\ rd[g] = "top" /\ stream[g] # <<>> /\ ReadUnchanged /\ UNCHANGED txVars
        /\ Head(stream[g]).kind = "tail"
    BY <1>2, Zenon DEF ReadMisframed
  <2>2. PICK n \in 1..Len(stream[g]) :
           stream' = [stream EXCEPT ![g] = SubSeq(stream[g], n + 1, Len(stream[g]))]
    BY <1>2, Zenon DEF ReadMisframed
  <2> DEFINE q == SubSeq(stream[g], n + 1, Len(stream[g]))
  <2>3. q \in Seq(Frame) /\ Items(q) \subseteq Items(stream[g])
    <3>1. stream[g] \in Seq(Frame) /\ Len(stream[g]) \in Nat /\ DOMAIN stream[g] = 1..Len(stream[g])
      BY <1>t
    <3>2. q \in Seq(Frame) /\ Len(q) = Len(stream[g]) - n /\ DOMAIN q = 1..(Len(stream[g]) - n)
          /\ \A i \in 1..(Len(stream[g]) - n) : q[i] = stream[g][i + n]
      BY <3>1
    <3> HIDE DEF q
    <3>3. \A i \in DOMAIN q : i + n \in DOMAIN stream[g] /\ q[i] = stream[g][i + n]
      BY <3>1, <3>2
    <3>4. Items(q) \subseteq Items(stream[g])
      BY <3>3, Zenon DEF Items
    <3> QED
      BY <3>2, <3>4, Zenon
  <2> HIDE DEF q
  <2>4. PICK id \in ID : ReleaseForReader(g, id, 0, "exit") \/ ReleaseForReader(g, id, Garbage, "top")
    BY <1>2, Zenon DEF ReadMisframed
  <2>5. stream' = [stream EXCEPT ![g] = q]
    BY <2>2, Zenon DEF q
  <2>6. \E f \in Items(stream[g]) : f.kind = "tail"
    BY <2>1, <1>h, Zenon
  <2>7. CASE ReleaseForReader(g, id, 0, "exit")
    BY <2>7, <2>1, <2>3, <2>5, <1>r, Zenon
  <2>8. CASE ReleaseForReader(g, id, Garbage, "top")
    BY <2>8, <2>1, <2>3, <2>5, <2>6, <1>r, Zenon
  <2> QED
    BY <2>4, <2>7, <2>8, Zenon
<1>3. CASE ReadTruncated(g)
  <2>1. /\ rd[g] = "top" /\ Len(stream[g]) = 1 /\ ReadUnchanged /\ UNCHANGED txVars
        /\ stream' = [stream EXCEPT ![g] = <<>>]
    BY <1>3, Zenon DEF ReadTruncated
  <2>2. stream[g] # <<>> /\ <<>> \in Seq(Frame) /\ Items(<<>>) \subseteq Items(stream[g])
    <3>1. Items(<<>>) = {}
      BY DEF Items
    <3>2. stream[g] # <<>>
      <4>1. Len(<<>>) = 0
        BY Zenon
      <4> QED
        BY <2>1, <4>1
    <3> QED
      BY <3>1, <3>2
  <2>3. txid[Head(stream[g]).tx] \in ID
    BY <2>2, <1>t, <1>h, Zenon
  <2>4. CASE ReadExit(g) /\ UNCHANGED pool
    <3>1. Moves
      BY <2>1, <2>2, <2>4, <1>u, Zenon DEF Moves, ReadExit, ReadUnchanged, connVars, sendVars, callVars, txVars,
                                    outVars, FlowInv, FlowTypes
    <3> QED
      BY <3>1, <1>d, Zenon
  <2>5. CASE ReleaseForReader(g, txid[Head(stream[g]).tx], 0, "exit")
    BY <2>5, <2>1, <2>2, <2>3, <1>r, Zenon
  <2> QED
    BY <1>3, <2>4, <2>5, Zenon DEF ReadTruncated
<1>4. CASE ReadEnd(g)
  <2>1. Quiet
    BY <1>4, Zenon DEF ReadEnd, ReadExit, ReadUnchanged, Quiet, connVars, sendVars, callVars, txVars, outVars, flowVars
  <2> QED
    BY <2>1, <1>d, Zenon
<1>5. CASE ReadComplete(g)
  <2>1. /\ rd[g] = "complete" /\ rhold' = [rhold EXCEPT ![g] = NoHold]
        /\ UNCHANGED <<gen, poolOf, pool, queue, pending, stream, whold, callVars>>
        /\ IF rhold[g].res = 0 THEN CompleteErr({rhold[g].tx}) ELSE CompleteResp(rhold[g].tx, rhold[g].res)
    BY <1>5, Zenon DEF ReadComplete, ReadUnchanged, connVars, sendVars, callVars
  <2>2. Completes(g)
    BY <2>1, <1>t, Zenon DEF Completes, CompleteErr, CompleteResp
  <2> QED
    BY <2>2, <1>d, Zenon DEF WireStep
<1>6. CASE ReadGone(g)
  <2>1. Quiet
    BY <1>6, Zenon DEF ReadGone, Quiet, sockVars, sendVars, callVars, txVars, outVars, flowVars
  <2> QED
    BY <2>1, <1>d, Zenon
<1>7. CASE ReadTimeoutInFrame(g)
  <2> DEFINE e == Head(stream[g])
             f == [kind |-> "tail", tx |-> e.tx]
             q == <<f>> \o Tail(stream[g])
  <2>1. /\ SlowFrames /\ stream[g] # <<>> /\ stream' = [stream EXCEPT ![g] = q]
        /\ UNCHANGED <<gen, poolOf, pool, queue, pending, rhold, whold, callVars, outVars>>
    BY <1>7, Zenon DEF ReadTimeoutInFrame, ReadUnchanged, connVars, sendVars, callVars, txVars, outVars
  <2>2. e \in Items(stream[g]) /\ f \in Frame
    BY <2>1, <1>h, <1>f, Zenon DEF Frame
  <2>3. Tail(stream[g]) \in Seq(Frame) /\ Items(Tail(stream[g])) \subseteq Items(stream[g])
    BY <2>1, <1>t, ItemsOf, Zenon
  <2> DEFINE w == Tail(stream[g])
  <2>4. q \in Seq(Frame) /\ Items(q) = {f} \cup Items(w)
    <3> HIDE DEF f, w
    <3>1. Len(w) \in Nat /\ DOMAIN w = 1..Len(w) /\ w \in Seq(Frame)
      BY <2>3 DEF w
    <3>2. <<f>> \o w \in Seq(Frame) /\ DOMAIN (<<f>> \o w) = 1..(Len(w) + 1)
          /\ (<<f>> \o w)[1] = f /\ \A i \in 1..Len(w) : (<<f>> \o w)[i + 1] = w[i]
      BY <3>1, <2>2
    <3>3. Items(<<f>> \o w) = {f} \cup Items(w)
      <4>1. \A i \in 1..(Len(w) + 1) : i = 1 \/ (i - 1 \in 1..Len(w) /\ i = (i - 1) + 1)
        BY <3>1
      <4>2. \A i \in 1..(Len(w) + 1) : (<<f>> \o w)[i] = f \/ (<<f>> \o w)[i] \in Items(w)
        BY <3>1, <3>2, <4>1 DEF Items
      <4>3. 1 \in 1..(Len(w) + 1) /\ \A i \in 1..Len(w) : i + 1 \in 1..(Len(w) + 1)
        BY <3>1
      <4>4. f \in Items(<<f>> \o w) /\ \A i \in 1..Len(w) : w[i] \in Items(<<f>> \o w)
        BY <3>2, <4>3, Zenon DEF Items
      <4>5. Items(<<f>> \o w) \subseteq {f} \cup Items(w)
        BY <3>2, <4>2, Zenon DEF Items
      <4>6. Items(w) \subseteq Items(<<f>> \o w)
        BY <3>1, <4>4, Zenon DEF Items
      <4> QED
        BY <4>4, <4>5, <4>6, Zenon
    <3> QED
      BY <3>2, <3>3, Zenon DEF w
  <2>5. f.tx = e.tx
    BY Zenon
  <2> HIDE DEF q, f, e, w
  <2>6. stream' \in [Gen -> Seq(Frame)] /\ stream'[g] = q /\ \A h \in Gen : h # g => stream'[h] = stream[h]
    BY <2>1, <2>4, <1>s, <1>t, Zenon
  <2>7. \A h \in Gen : \A x \in Items(stream'[h]) :
          x \in Items(stream[h]) \/ \E y \in Items(stream[h]) : y.tx = x.tx
    BY <2>2, <2>3, <2>4, <2>5, <2>6, Zenon DEF w
  <2>8. \A h \in Gen : h > gen => stream'[h] = <<>>
    BY <2>6, <1>s, <1>t, Zenon
  <2>9. Moves
    BY <2>1, <2>6, <2>7, <2>8, Zenon DEF Moves, FlowInv, FlowTypes
  <2> QED
    BY <2>9, <1>d, Zenon
<1> QED
  BY <1>1, <1>2, <1>3, <1>4, <1>5, <1>6, <1>7, Zenon DEF ReadLoop

(* The device. *)
LEMMA DeviceKinds ==
    ASSUME ConnInv, FlowInv, NEW g \in 1..gen, DeviceCloses(g) \/ \E t \in pending[g] : DeviceAnswers(g, t)
    PROVE  FlowStep
<1>s. g \in Gen /\ ~(g > gen) /\ gen \in Nat
  BY ConnAssumption DEF ConnInv, Shape, Gen
<1>t. /\ stream \in [Gen -> Seq(Frame)] /\ pending \in [Gen -> SUBSET Tx]
      /\ \A h \in Gen : h > gen => stream[h] = <<>>
  BY <1>s, Zenon DEF FlowInv, FlowTypes, FlowTies
<1>1. CASE DeviceCloses(g)
  <2>1. Quiet
    BY <1>1, Zenon DEF DeviceCloses, Quiet, connVars, loopVars, sendVars, callVars, txVars, outVars, flowVars
  <2> QED
    BY <2>1, Zenon DEF FlowStep
<1>2. ASSUME NEW t \in pending[g], DeviceAnswers(g, t) PROVE FlowStep
  <2>1. /\ pending' = [pending EXCEPT ![g] = pending[g] \ {t}]
        /\ UNCHANGED <<gen, poolOf, pool, queue, rhold, whold, callVars, outVars>>
    BY <1>2, Zenon DEF DeviceAnswers, connVars, loopVars, sendVars, callVars, txVars, outVars
  <2>2. PICK k \in {"ok", "bad"} : stream' = [stream EXCEPT ![g] = Append(stream[g], [kind |-> k, tx |-> t])]
    BY <1>2, Zenon DEF DeviceAnswers
  <2> DEFINE f == [kind |-> k, tx |-> t]
  <2>3. f \in Frame /\ f.kind # "tail" /\ f.tx = t
    BY <1>2, <1>s, <1>t, Zenon DEF Frame
  <2>4. stream' = [stream EXCEPT ![g] = Append(stream[g], f)]
    BY <2>2, Zenon
  <2> HIDE DEF f
  <2>5. Append(stream[g], f) \in Seq(Frame) /\ Items(Append(stream[g], f)) = Items(stream[g]) \cup {f}
    BY <2>3, <1>s, <1>t, ItemsOf
  <2>6. /\ stream' \in [Gen -> Seq(Frame)] /\ pending' \in [Gen -> SUBSET Tx]
        /\ \A h \in Gen : pending'[h] \subseteq pending[h]
        /\ \A h \in Gen : h # g => stream'[h] = stream[h]
        /\ stream'[g] = Append(stream[g], f)
    BY <2>1, <2>4, <2>5, <1>s, <1>t, Zenon
  <2>7. \A h \in Gen : \A x \in Items(stream'[h]) :
          x \in Items(stream[h]) \/ (x.kind # "tail" /\ x.tx \in pending[h])
    BY <2>3, <2>5, <2>6, <1>2, Zenon
  <2>8. \A h \in Gen : h > gen => stream'[h] = <<>>
    BY <2>6, <1>s, <1>t, Zenon
  <2>9. Moves
    BY <2>1, <2>6, <2>7, <2>8, Zenon DEF Moves
  <2> QED
    BY <2>9, Zenon DEF FlowStep
<1> QED
  BY <1>1, <1>2, Zenon

(* The loops go on holding what they should. *)
LEMMA LoopStep ==
    ASSUME ConnInv, LoopInv, FlowInv, [Next]_vars
    PROVE  LoopInv'
<1> DEFINE Hold == [tx : Tx \cup {0}, res : Tx \cup {0, Garbage}, then : {"top", "exit"}]
           Read == {"none", "top", "complete", "exit", "gone"}
           Write == {"none", "select", "have", "ready", "exit", "gone"}
<1>t. /\ rd \in [Gen -> Read] /\ wr \in [Gen -> Write] /\ rhold \in [Gen -> Hold] /\ whold \in [Gen -> Tx \cup {0}]
      /\ \A g \in Gen : (rhold[g].tx # 0) <=> (rd[g] = "complete")
      /\ \A g \in Gen : (whold[g] # 0) <=> (wr[g] \in {"have", "ready"})
      /\ \A g \in Gen : g > gen => rd[g] = "none" /\ wr[g] = "none"
  BY Zenon DEF LoopInv
<1>0. 0 \notin Tx
  BY PoolAssumption DEF Tx
<1>n. NoHold \in Hold /\ NoHold.tx = 0
  BY Zenon DEF NoHold
<1>s. gen \in Gen /\ gen \in Nat /\ 1..gen \subseteq Gen /\ \A g \in 1..gen : ~(g > gen)
  BY ConnAssumption DEF ConnInv, Shape, Gen
<1>p. \A g \in Gen : \A i \in ID : pool[poolOf[g]].txs[i] \in Tx \cup {0}
  BY Zenon DEF ConnInv, Shape, Pool
<1>q. ASSUME UNCHANGED <<gen, rd, wr, rhold, whold>> PROVE LoopInv'
  BY <1>q, Zenon DEF LoopInv
<1> HIDE DEF Hold, Read, Write
<1>r. ASSUME NEW g \in 1..gen, NEW x \in Read, NEW h \in Hold, (h.tx # 0) <=> (x = "complete"),
             rd' = [rd EXCEPT ![g] = x], rhold' = [rhold EXCEPT ![g] = h], UNCHANGED <<gen, wr, whold>>
      PROVE  LoopInv'
  <2>1. rd' \in [Gen -> Read] /\ rhold' \in [Gen -> Hold]
    BY <1>r, <1>t, <1>s, Zenon
  <2>2. /\ \A k \in Gen : (rhold'[k].tx # 0) <=> (rd'[k] = "complete")
        /\ \A k \in Gen : k > gen => rd'[k] = "none"
    BY <1>r, <1>t, <1>s, Zenon
  <2> QED
    BY <2>1, <2>2, <1>r, <1>t, Zenon DEF LoopInv, Read, Write, Hold
<1>w. ASSUME NEW g \in 1..gen, NEW x \in Write, NEW h \in Tx \cup {0}, (h # 0) <=> (x \in {"have", "ready"}),
             wr' = [wr EXCEPT ![g] = x], whold' = [whold EXCEPT ![g] = h], UNCHANGED <<gen, rd, rhold>>
      PROVE  LoopInv'
  <2>1. wr' \in [Gen -> Write] /\ whold' \in [Gen -> Tx \cup {0}]
    BY <1>w, <1>t, <1>s, Zenon
  <2>2. /\ \A k \in Gen : (whold'[k] # 0) <=> (wr'[k] \in {"have", "ready"})
        /\ \A k \in Gen : k > gen => wr'[k] = "none"
    BY <1>w, <1>t, <1>s, Zenon
  <2> QED
    BY <2>1, <2>2, <1>w, <1>t, Zenon DEF LoopInv, Read, Write, Hold
<1>1. CASE ConnectOK
  <2>1. /\ gen' = gen + 1 /\ rd' = [rd EXCEPT ![gen + 1] = "top"] /\ wr' = [wr EXCEPT ![gen + 1] = "select"]
        /\ gen < MaxGen /\ UNCHANGED <<rhold, whold>>
    BY <1>1, Zenon DEF ConnectOK
  <2>2. gen + 1 \in Gen /\ gen + 1 > gen /\ \A k \in Gen : k > gen + 1 => k > gen /\ k # gen + 1
    BY <2>1, <1>s, ConnAssumption DEF Gen
  <2>3. rd' \in [Gen -> Read] /\ wr' \in [Gen -> Write]
    BY <2>1, <2>2, <1>t, Zenon DEF Read, Write
  <2>4. rd[gen + 1] = "none" /\ wr[gen + 1] = "none"
    BY <2>2, <1>t, Zenon
  <2>5. /\ \A k \in Gen : (rhold'[k].tx # 0) <=> (rd'[k] = "complete")
        /\ \A k \in Gen : (whold'[k] # 0) <=> (wr'[k] \in {"have", "ready"})
        /\ \A k \in Gen : k > gen + 1 => rd'[k] = "none" /\ wr'[k] = "none"
    BY <2>1, <2>2, <2>4, <1>t, Zenon
  <2> QED
    BY <2>1, <2>3, <2>5, <1>t, Zenon DEF LoopInv, Read, Write, Hold
<1>2. CASE \/ ConnectFail \/ Disconnect \/ ResetTransactions \/ TeardownPool \/ TeardownSock
           \/ \E p \in 1..MaxPool : \E S \in SUBSET InFlight(pool[p]) \ {{}} : CheckTimeouts(p, S)
  BY <1>2, <1>q, Zenon DEF ConnectFail, Disconnect, ResetTransactions, TeardownPool, TeardownSock, CheckTimeouts,
                    connVars, loopVars
<1>3. CASE \E s \in Sender : SendBegin(s) \/ SendStep(s) \/ ContextDone(s)
  BY <1>3, <1>q, Zenon DEF SendBegin, SendStep, SendPlace, SendQueue, SendReturn, ContextDone, connVars, loopVars
<1>4. ASSUME NEW g \in 1..gen, ReadLoop(g) \/ ReadTimeoutInFrame(g) PROVE LoopInv'
  <2>g. g \in Gen /\ rhold[g] \in Hold /\ rhold = [rhold EXCEPT ![g] = rhold[g]]
    BY <1>s, <1>t, Zenon
  <2>r. ASSUME rd[g] = "top", NEW id \in ID, NEW r \in Tx \cup {0, Garbage}, NEW then \in {"top", "exit"},
               ReleaseForReader(g, id, r, then), ReadUnchanged
        PROVE  LoopInv'
    <3>1. UNCHANGED <<gen, wr, whold>> /\ rhold[g].tx = 0
      BY <2>r, <2>g, <1>t, Zenon DEF ReadUnchanged, connVars
    <3> DEFINE h == [tx |-> pool[poolOf[g]].txs[id], res |-> r, then |-> then]
    <3>2. CASE rd' = [rd EXCEPT ![g] = then] /\ UNCHANGED rhold
      BY <3>1, <3>2, <2>g, <1>r, Zenon DEF Read
    <3>3. CASE pool[poolOf[g]].txs[id] # 0 /\ rd' = [rd EXCEPT ![g] = "complete"] /\ rhold' = [rhold EXCEPT ![g] = h]
      <4>1. h \in Hold /\ h.tx # 0
        BY <3>3, <2>g, <1>p, Zenon DEF Hold
      <4> HIDE DEF h
      <4> QED
        BY <3>1, <3>3, <4>1, <1>r, Zenon DEF Read
    <3> QED
      BY <2>r, <3>2, <3>3, Zenon DEF ReleaseForReader
  <2>e. ASSUME rd[g] = "top", ReadExit(g), ReadUnchanged PROVE LoopInv'
    <3>1. rhold[g].tx = 0 /\ UNCHANGED <<gen, wr, whold, rhold>> /\ rd' = [rd EXCEPT ![g] = "exit"]
      BY <2>e, <2>g, <1>t, Zenon DEF ReadUnchanged, ReadExit, connVars
    <3> QED
      BY <3>1, <2>g, <1>r, Zenon DEF Read
  <2>f. \A f \in Items(stream[g]) : txid[f.tx] \in ID /\ f.tx \in Tx
    <3>1. stream[g] \in Seq(Frame) /\ \A f \in Items(stream[g]) : txid[f.tx] \in ID
      BY <2>g, Zenon DEF FlowInv, FlowTypes, Carried
    <3>2. Items(stream[g]) \subseteq Frame
      BY <3>1, ItemsOf, Zenon
    <3> QED
      BY <3>1, <3>2, Zenon DEF Frame
  <2>h. stream[g] # <<>> => Head(stream[g]) \in Items(stream[g])
    BY <2>g, ItemsOf, Zenon DEF FlowInv, FlowTypes
  <2>1. CASE ReadFrame(g)
    <3>1. stream[g] # <<>> /\ rd[g] = "top" /\ ReadUnchanged
      BY <2>1, Zenon DEF ReadFrame
    <3>2. txid[Head(stream[g]).tx] \in ID /\ Head(stream[g]).tx \in Tx
      BY <3>1, <2>f, <2>h, Zenon
    <3>3. \/ ReleaseForReader(g, txid[Head(stream[g]).tx], Head(stream[g]).tx, "top")
          \/ ReleaseForReader(g, txid[Head(stream[g]).tx], 0, "exit")
      BY <2>1, Zenon DEF ReadFrame
    <3> QED
      BY <3>1, <3>2, <3>3, <2>r, Zenon
  <2>2. CASE ReadMisframed(g)
    <3>1. rd[g] = "top" /\ ReadUnchanged
      BY <2>2, Zenon DEF ReadMisframed
    <3>2. PICK id \in ID : ReleaseForReader(g, id, 0, "exit") \/ ReleaseForReader(g, id, Garbage, "top")
      BY <2>2, Zenon DEF ReadMisframed
    <3> QED
      BY <3>1, <3>2, <2>r, Zenon
  <2>3. CASE ReadTruncated(g)
    <3>1. Len(stream[g]) = 1 /\ rd[g] = "top" /\ ReadUnchanged
      BY <2>3, Zenon DEF ReadTruncated
    <3>2. stream[g] # <<>>
      <4>1. Len(<<>>) = 0
        BY Zenon
      <4> QED
        BY <3>1, <4>1
    <3>3. txid[Head(stream[g]).tx] \in ID
      BY <3>2, <2>f, <2>h, Zenon
    <3>4. ReadExit(g) \/ ReleaseForReader(g, txid[Head(stream[g]).tx], 0, "exit")
      BY <2>3, Zenon DEF ReadTruncated
    <3> QED
      BY <3>1, <3>3, <3>4, <2>r, <2>e, Zenon
  <2>4. CASE ReadEnd(g)
    BY <2>4, <2>e, Zenon DEF ReadEnd
  <2>5. CASE ReadComplete(g)
    <3>1. /\ rd' = [rd EXCEPT ![g] = rhold[g].then] /\ rhold' = [rhold EXCEPT ![g] = NoHold]
          /\ UNCHANGED <<gen, wr, whold>>
      BY <2>5, Zenon DEF ReadComplete, ReadUnchanged, connVars
    <3>2. rhold[g].then \in {"top", "exit"}
      BY <2>g, Zenon DEF Hold
    <3>3. rhold[g].then \in Read /\ rhold[g].then # "complete"
      BY <3>2, Zenon DEF Read
    <3> QED
      BY <3>1, <3>3, <1>n, <1>r, Zenon
  <2>6. CASE ReadGone(g)
    <3>1. /\ rd[g] = "exit" /\ rd' = [rd EXCEPT ![g] = "gone"] /\ UNCHANGED <<gen, wr, whold, rhold>>
      BY <2>6, Zenon DEF ReadGone
    <3>2. rhold[g].tx = 0
      BY <3>1, <2>g, <1>t, Zenon
    <3> QED
      BY <3>1, <3>2, <2>g, <1>r, Zenon DEF Read
  <2>7. CASE ReadTimeoutInFrame(g)
    BY <2>7, <1>q, Zenon DEF ReadTimeoutInFrame, ReadUnchanged, connVars
  <2> QED
    BY <1>4, <2>1, <2>2, <2>3, <2>4, <2>5, <2>6, <2>7, Zenon DEF ReadLoop
<1>5. ASSUME NEW g \in 1..gen, WriteLoop(g) \/ WriteOK(g) PROVE LoopInv'
  <2>g. g \in Gen /\ whold[g] \in Tx \cup {0} /\ whold = [whold EXCEPT ![g] = whold[g]]
    BY <1>s, <1>t, Zenon
  <2>e. ASSUME NEW x \in {"select", "exit"}, WriteUnchanged, wr' = [wr EXCEPT ![g] = x],
               whold' = [whold EXCEPT ![g] = 0]
        PROVE  LoopInv'
    BY <2>e, <1>w, Zenon DEF WriteUnchanged, connVars, Write
  <2>1. CASE WriteTake(g)
    <3>1. WriteUnchanged
      BY <2>1, Zenon DEF WriteTake
    <3>2. CASE WriteExit(g)
      BY <3>1, <3>2, <2>e, Zenon DEF WriteExit
    <3>3. CASE queue[g] # <<>> /\ whold' = [whold EXCEPT ![g] = Head(queue[g])] /\ wr' = [wr EXCEPT ![g] = "have"]
      <4>1. Head(queue[g]) \in Tx
        BY <3>3, <2>g, ItemsOf, Zenon DEF FlowInv, FlowTypes
      <4>2. Head(queue[g]) # 0 /\ "have" \in Write /\ UNCHANGED <<gen, rd, rhold>>
        BY <4>1, <3>1, <1>0, Zenon DEF Write, WriteUnchanged, connVars
      <4> QED
        BY <4>1, <4>2, <3>3, <1>w, Zenon
    <3> QED
      BY <2>1, <3>2, <3>3, Zenon DEF WriteTake
  <2>2. CASE WriteCheck(g)
    <3>1. WriteUnchanged /\ wr[g] = "have"
      BY <2>2, Zenon DEF WriteCheck
    <3>2. CASE wr' = [wr EXCEPT ![g] = "select"] /\ whold' = [whold EXCEPT ![g] = 0]
      BY <3>1, <3>2, <2>e, Zenon
    <3>3. CASE WriteExit(g)
      BY <3>1, <3>3, <2>e, Zenon DEF WriteExit
    <3>4. CASE wr' = [wr EXCEPT ![g] = "ready"] /\ UNCHANGED whold
      <4>1. whold[g] # 0 /\ UNCHANGED <<gen, rd, rhold>> /\ "ready" \in Write
        BY <3>1, <2>g, <1>t, Zenon DEF WriteUnchanged, connVars, Write
      <4> QED
        BY <4>1, <3>4, <2>g, <1>w, Zenon
    <3> QED
      BY <2>2, <3>2, <3>3, <3>4, Zenon DEF WriteCheck
  <2>3. CASE WriteOK(g)
    BY <2>3, <2>e, Zenon DEF WriteOK
  <2>4. CASE WriteFail(g)
    BY <2>4, <2>e, Zenon DEF WriteFail, WriteExit
  <2>5. CASE WriteGone(g)
    <3>1. wr[g] = "exit" /\ wr' = [wr EXCEPT ![g] = "gone"] /\ UNCHANGED <<gen, rd, rhold, whold>>
      BY <2>5, Zenon DEF WriteGone
    <3>2. whold[g] = 0
      BY <3>1, <2>g, <1>t, Zenon
    <3> QED
      BY <3>1, <3>2, <2>g, <1>w, Zenon DEF Write
  <2> QED
    BY <1>5, <2>1, <2>2, <2>3, <2>4, <2>5, Zenon DEF WriteLoop
<1>6. ASSUME NEW g \in 1..gen, DeviceCloses(g) \/ \E t \in pending[g] : DeviceAnswers(g, t) PROVE LoopInv'
  BY <1>6, <1>q, Zenon DEF DeviceCloses, DeviceAnswers, connVars, loopVars
<1>7. CASE UNCHANGED vars
  BY <1>7, <1>q, Zenon DEF vars, connVars, loopVars
<1> QED
  BY <1>1, <1>2, <1>3, <1>4, <1>5, <1>6, <1>7, Zenon DEF Next

(* Whatever kind a step is of, what is on its way was placed. *)
LEMMA FlowKept ==
    ASSUME ConnInv, ConnInv', LoopInv, FlowInv, FlowStep
    PROVE  FlowInv'
<1>s. /\ gen \in Gen /\ gen' \in Gen /\ calls \in Nat /\ calls' \in Nat
      /\ mine \in [Sender -> Tx \cup {0}] /\ snap \in [Sender -> Gen]
      /\ \A s \in Sender : at[s] = "snap" => mine[s] \in Tx
  BY PoolAssumption DEF ConnInv, Shape
<1>0. 0 \notin Tx /\ Gen \subseteq Nat /\ Tx \subseteq Nat
  BY PoolAssumption, ConnAssumption DEF Tx, Gen
<1>h. whold \in [Gen -> Tx \cup {0}] /\ rhold \in [Gen -> [tx : Tx \cup {0}, res : Tx \cup {0, Garbage}, then : {"top", "exit"}]]
  BY Zenon DEF LoopInv
<1>t. /\ at \in [Sender -> {"idle", "snap", "queue", "await"}]
      /\ queue \in [Gen -> Seq(Tx)] /\ pending \in [Gen -> SUBSET Tx] /\ stream \in [Gen -> Seq(Frame)]
      /\ txid \in [Tx -> ID \cup {-1}] /\ resp \in [Tx -> Tx \cup {0, Garbage}] /\ err \in [Tx -> BOOLEAN]
  BY Zenon DEF FlowInv, FlowTypes
<1>i. /\ \A s \in Sender : mine[s] <= calls /\ ((at[s] = "idle") <=> (mine[s] = 0))
      /\ \A s \in Sender : at[s] # "idle" => snap[s] \in 1..gen
      /\ \A g \in Gen : g > gen => queue[g] = <<>> /\ pending[g] = {} /\ stream[g] = <<>>
  BY Zenon DEF FlowInv, FlowTies
<1>c. /\ \A s \in Sender : at[s] = "queue" => txid[mine[s]] \in ID
      /\ \A g \in Gen : whold[g] # 0 => txid[whold[g]] \in ID
      /\ \A g \in Gen : \A t \in Items(queue[g]) : txid[t] \in ID
      /\ \A g \in Gen : \A t \in pending[g] : txid[t] \in ID
      /\ \A g \in Gen : \A f \in Items(stream[g]) : txid[f.tx] \in ID
  BY Zenon DEF FlowInv, Carried
<1>1. CASE Quiet
  BY <1>1, Zenon DEF Quiet, flowVars, callVars, outVars, FlowInv, FlowTypes, FlowTies, Carried
<1>2. CASE Moves
  <2>1. /\ pending' \in [Gen -> SUBSET Tx] /\ stream' \in [Gen -> Seq(Frame)]
        /\ UNCHANGED <<gen, queue, whold, at, mine, snap, calls, txid, resp, err>>
    BY <1>2, Zenon DEF Moves, callVars, outVars
  <2>2. FlowTypes'
    BY <2>1, <1>t, Zenon DEF FlowTypes
  <2>3. FlowTies'
    BY <1>2, <2>1, <1>i, Zenon DEF FlowTies, Moves
  <2>4. \A h \in Gen : \A f \in Items(stream'[h]) : txid[f.tx] \in ID
    BY <1>2, <1>c DEF Moves
  <2>5. Carried'
    BY <1>2, <2>1, <2>4, <1>c, Zenon DEF Carried, Moves
  <2> QED
    BY <2>2, <2>3, <2>5, Zenon DEF FlowInv
<1>3. ASSUME NEW p \in 1..MaxPool, NEW S \in SUBSET Tx, Cancels(p, S) PROVE FlowInv'
  <2>1. /\ err' = [t \in Tx |-> err[t] \/ t \in S] /\ gen <= gen'
        /\ UNCHANGED <<queue, pending, stream, whold, at, mine, snap, calls, txid, resp>>
    BY <1>3, Zenon DEF Cancels, flowVars, callVars
  <2>2. err' \in [Tx -> BOOLEAN]
    BY <2>1, Zenon
  <2>3. FlowTypes'
    BY <2>1, <2>2, <1>t, Zenon DEF FlowTypes
  <2>4. 1..gen \subseteq 1..gen' /\ \A g \in Gen : g > gen' => g > gen
    BY <2>1, <1>s, <1>0
  <2>5. FlowTies'
    BY <2>1, <2>4, <1>i, Zenon DEF FlowTies
  <2>6. Carried'
    BY <2>1, <1>c, Zenon DEF Carried
  <2> QED
    BY <2>3, <2>5, <2>6, Zenon DEF FlowInv
<1>4. ASSUME NEW s \in Sender, CallStep(s) PROVE FlowInv'
  <2>d. ASSUME SendDone(s), UNCHANGED <<gen, flowVars, calls, outVars>> PROVE FlowInv'
    <3>1. /\ at' = [at EXCEPT ![s] = "idle"] /\ mine' = [mine EXCEPT ![s] = 0] /\ snap' = [snap EXCEPT ![s] = 0]
          /\ UNCHANGED <<gen, queue, pending, stream, whold, calls, txid, resp, err>>
      BY <2>d, Zenon DEF SendDone, flowVars, outVars
    <3>2. FlowTypes'
      BY <3>1, <1>t, Zenon DEF FlowTypes
    <3>3. FlowTies'
      BY <3>1, <1>i, <1>s, <1>t DEF FlowTies
    <3>4. Carried'
      BY <3>1, <1>c, <1>s, <1>t, Zenon DEF Carried
    <3> QED
      BY <3>2, <3>3, <3>4, Zenon DEF FlowInv
  <2>1. CASE Begins(s)
    <3>1. /\ at' = [at EXCEPT ![s] = "snap"] /\ mine' = [mine EXCEPT ![s] = calls + 1]
          /\ snap' = [snap EXCEPT ![s] = gen] /\ calls' = calls + 1 /\ gen \in 1..gen
          /\ UNCHANGED <<gen, queue, pending, stream, whold, txid, resp, err>>
      BY <2>1, Zenon DEF Begins, flowVars, outVars
    <3>2. FlowTypes'
      BY <3>1, <1>t, Zenon DEF FlowTypes
    <3>3. FlowTies'
      <4>1. ASSUME NEW r \in Sender PROVE mine'[r] <= calls' /\ ((at'[r] = "idle") <=> (mine'[r] = 0))
        <5>1. CASE r = s
          <6>1. mine'[r] = calls + 1 /\ at'[r] = "snap"
            BY <3>1, <5>1, <1>s, <1>t, Zenon
          <6> QED
            BY <3>1, <6>1, <1>s
        <5>2. CASE r # s
          <6>1. mine'[r] = mine[r] /\ at'[r] = at[r]
            BY <3>1, <5>2, <1>s, <1>t, Zenon
          <6>2. mine[r] \in Nat
            <7>1. mine[r] \in Tx \/ mine[r] = 0
              BY <1>s, Zenon
            <7> QED
              BY <7>1, PoolAssumption DEF Tx
          <6> QED
            BY <3>1, <6>1, <6>2, <1>i, <1>s
        <5> QED
          BY <5>1, <5>2, Zenon
      <4>2. \A r \in Sender : at'[r] # "idle" => snap'[r] \in 1..gen
        BY <3>1, <1>i, <1>s, <1>t, Zenon
      <4> QED
        BY <3>1, <4>1, <4>2, <1>i, Zenon DEF FlowTies
    <3>4. Carried'
      BY <3>1, <1>c, <1>s, <1>t, Zenon DEF Carried
    <3> QED
      BY <3>2, <3>3, <3>4, Zenon DEF FlowInv
  <2>2. ASSUME NEW p \in 1..MaxPool, NEW i \in ID, Places(s, p, i) PROVE FlowInv'
    <3>1. /\ at[s] = "snap" /\ at' = [at EXCEPT ![s] = "queue"] /\ txid' = [txid EXCEPT ![mine[s]] = i]
          /\ UNCHANGED <<gen, queue, pending, stream, whold, mine, snap, calls, resp, err>>
      BY <2>2, Zenon DEF Places, flowVars
    <3>2. mine[s] \in Tx /\ txid' \in [Tx -> ID \cup {-1}] /\ txid'[mine[s]] = i
      BY <3>1, <1>s, <1>t, Zenon
    <3>3. \A t : txid[t] \in ID => txid'[t] \in ID
      BY <3>1, <3>2, <1>t
    <3>4. FlowTypes'
      BY <3>1, <3>2, <1>t, Zenon DEF FlowTypes
    <3>5. FlowTies'
      BY <3>1, <1>i, <1>t, Zenon DEF FlowTies
    <3>6. Carried'
      BY <3>1, <3>2, <3>3, <1>c, <1>t, Zenon DEF Carried
    <3> QED
      BY <3>4, <3>5, <3>6, Zenon DEF FlowInv
  <2>3. CASE Returns(s)
    BY <2>3, <2>d, Zenon DEF Returns
  <2>4. CASE GivesUp(s)
    BY <2>4, <2>d, Zenon DEF GivesUp
  <2>5. CASE Queues(s)
    <3> DEFINE g == snap[s]
    <3>1. /\ at[s] = "queue" /\ at' = [at EXCEPT ![s] = "await"]
          /\ queue' = [queue EXCEPT ![g] = Append(queue[g], mine[s])]
          /\ UNCHANGED <<gen, pending, stream, whold, mine, snap, calls, txid, resp, err>>
      BY <2>5, Zenon DEF Queues, outVars
    <3>2. g \in Gen /\ mine[s] \in Tx /\ queue[g] \in Seq(Tx) /\ ~(g > gen) /\ txid[mine[s]] \in ID
      BY <3>1, <1>i, <1>s, <1>t, <1>c, <1>0
    <3> HIDE DEF g
    <3>3. Append(queue[g], mine[s]) \in Seq(Tx) /\ Items(Append(queue[g], mine[s])) = Items(queue[g]) \cup {mine[s]}
      BY <3>2, ItemsOf, Zenon
    <3>4. /\ queue' \in [Gen -> Seq(Tx)] /\ \A h \in Gen : h # g => queue'[h] = queue[h]
          /\ queue'[g] = Append(queue[g], mine[s])
      BY <3>1, <3>2, <3>3, <1>t, Zenon
    <3>5. FlowTypes'
      BY <3>1, <3>4, <1>t, Zenon DEF FlowTypes
    <3>6. FlowTies'
      BY <3>1, <3>2, <3>4, <1>i, <1>t, Zenon DEF FlowTies
    <3>7. Carried'
      BY <3>1, <3>2, <3>3, <3>4, <1>c, <1>t, Zenon DEF Carried
    <3> QED
      BY <3>5, <3>6, <3>7, Zenon DEF FlowInv
  <2> QED
    BY <1>4, <2>1, <2>2, <2>3, <2>4, <2>5, Zenon DEF CallStep
<1>5. ASSUME NEW g \in Gen, WireStep(g) PROVE FlowInv'
  <2>1. CASE Takes(g)
    <3>1. /\ queue[g] # <<>> /\ whold' = [whold EXCEPT ![g] = Head(queue[g])]
          /\ queue' = [queue EXCEPT ![g] = Tail(queue[g])]
          /\ UNCHANGED <<gen, pending, stream, at, mine, snap, calls, txid, resp, err>>
      BY <2>1, Zenon DEF Takes, callVars, outVars
    <3>2. /\ Head(queue[g]) \in Items(queue[g]) /\ Tail(queue[g]) \in Seq(Tx)
          /\ Items(Tail(queue[g])) \subseteq Items(queue[g])
      BY <3>1, <1>t, ItemsOf, Zenon
    <3>3. /\ queue' \in [Gen -> Seq(Tx)] /\ \A h \in Gen : h # g => queue'[h] = queue[h] /\ whold'[h] = whold[h]
          /\ queue'[g] = Tail(queue[g]) /\ whold'[g] = Head(queue[g])
      BY <3>1, <3>2, <1>t, <1>h, Zenon
    <3>4. FlowTypes'
      BY <3>1, <3>3, <1>t, Zenon DEF FlowTypes
    <3>5. FlowTies'
      BY <3>1, <3>3, <1>i, Zenon DEF FlowTies
    <3>6. Carried'
      BY <3>1, <3>2, <3>3, <1>c DEF Carried
    <3> QED
      BY <3>4, <3>5, <3>6, Zenon DEF FlowInv
  <2>2. ASSUME NEW S \in SUBSET Tx, Drops(g, S) PROVE FlowInv'
    <3>1. /\ whold' = [whold EXCEPT ![g] = 0] /\ err' = [t \in Tx |-> err[t] \/ t \in S]
          /\ UNCHANGED <<gen, queue, pending, stream, at, mine, snap, calls, txid, resp>>
      BY <2>2, Zenon DEF Drops, callVars
    <3>2. FlowTypes'
      BY <3>1, <1>t, Zenon DEF FlowTypes
    <3>3. FlowTies'
      BY <3>1, <1>i, Zenon DEF FlowTies
    <3>4. Carried'
      BY <3>1, <1>c, <1>h, Zenon DEF Carried
    <3> QED
      BY <3>2, <3>3, <3>4, Zenon DEF FlowInv
  <2>3. CASE Writes(g)
    <3>1. /\ whold[g] # 0 /\ whold' = [whold EXCEPT ![g] = 0]
          /\ pending' = pending \/ pending' = [pending EXCEPT ![g] = pending[g] \cup {whold[g]}]
          /\ UNCHANGED <<gen, queue, stream, at, mine, snap, calls, txid, resp, err>>
      BY <2>3, Zenon DEF Writes, callVars, outVars
    <3>2. whold[g] \in Tx /\ txid[whold[g]] \in ID
      BY <3>1, <1>h, <1>c, Zenon
    <3>3. g > gen => whold[g] = 0
      BY Zenon DEF LoopInv
    <3>4. pending' \in [Gen -> SUBSET Tx] /\ \A h \in Gen : pending'[h] \subseteq pending[h] \cup {whold[g]}
      <4>1. PICK P : P \in SUBSET Tx /\ P \subseteq pending[g] \cup {whold[g]} /\ pending' = [pending EXCEPT ![g] = P]
        <5>1. pending[g] \in SUBSET Tx /\ pending = [pending EXCEPT ![g] = pending[g]]
          BY <1>t, Zenon
        <5> QED
          BY <3>1, <3>2, <5>1, Zenon
      <4> QED
        BY <4>1, <1>t, Zenon
    <3>5. \A h \in Gen : h > gen => pending'[h] = {}
      BY <3>1, <3>3, <1>i, <1>t, Zenon
    <3>6. FlowTypes'
      BY <3>1, <3>4, <1>t, Zenon DEF FlowTypes
    <3>7. FlowTies'
      BY <3>1, <3>5, <1>i, Zenon DEF FlowTies
    <3>8. Carried'
      BY <3>1, <3>2, <3>4, <1>c, <1>h, Zenon DEF Carried
    <3> QED
      BY <3>6, <3>7, <3>8, Zenon DEF FlowInv
  <2>4. ASSUME NEW id \in ID, NEW r \in Tx \cup {0, Garbage}, NEW then \in {"top", "exit"}, Reads(g, id, r, then)
        PROVE  FlowInv'
    <3>1. /\ stream' \in [Gen -> Seq(Frame)]
          /\ \A h \in Gen : Items(stream'[h]) \subseteq Items(stream[h])
          /\ \A h \in Gen : h > gen => stream'[h] = <<>>
          /\ UNCHANGED <<gen, queue, pending, whold, at, mine, snap, calls, txid, resp, err>>
      BY <2>4, Zenon DEF Reads, callVars, outVars
    <3>2. FlowTypes'
      BY <3>1, <1>t, Zenon DEF FlowTypes
    <3>3. FlowTies'
      BY <3>1, <1>i, Zenon DEF FlowTies
    <3>4. Carried'
      BY <3>1, <1>c, Zenon DEF Carried
    <3> QED
      BY <3>2, <3>3, <3>4, Zenon DEF FlowInv
  <2>5. CASE Completes(g)
    <3>1. UNCHANGED <<gen, queue, pending, stream, whold, at, mine, snap, calls, txid>>
      BY <2>5, Zenon DEF Completes, callVars
    <3>2. rhold[g].tx \in Tx /\ rhold[g].res \in Tx \cup {0, Garbage}
      BY <2>5, <1>h, Zenon DEF Completes
    <3>3. err' \in [Tx -> BOOLEAN]
      BY <2>5, <1>t, Zenon DEF Completes
    <3>4. resp' \in [Tx -> Tx \cup {0, Garbage}]
      BY <2>5, <3>2, <1>t, Zenon DEF Completes
    <3>5. FlowTypes'
      BY <3>1, <3>3, <3>4, <1>t, Zenon DEF FlowTypes
    <3>6. FlowTies'
      BY <3>1, <1>i, Zenon DEF FlowTies
    <3>7. Carried'
      BY <3>1, <1>c, Zenon DEF Carried
    <3> QED
      BY <3>5, <3>6, <3>7, Zenon DEF FlowInv
  <2> QED
    BY <1>5, <2>1, <2>2, <2>3, <2>4, <2>5, Zenon DEF WireStep
<1> QED
  BY <1>1, <1>2, <1>3, <1>4, <1>5, Zenon DEF FlowStep

(* What the arguments below build on. *)
TrafficInv == ConnInv /\ LoopInv /\ FlowInv

-----------------------------------------------------------------------------
(* The read loop of some generation is between Release and Complete with t. *)
Held(t) == \E g \in Gen : rhold[g].tx = t

InPool(p, t) == \E i \in ID : pool[p].txs[i] = t

(* No two calls have the same transaction, and one that waits for a place in   *)
(* the write channel or for its outcome has the outcome, or somebody knows it. *)
CallsKnown ==
    /\ \A s, r \in Sender : mine[s] = mine[r] /\ mine[s] # 0 => s = r
    /\ \A s \in Sender : at[s] \in {"queue", "await"} =>
          Answered(mine[s]) \/ InPool(poolOf[snap[s]], mine[s]) \/ Held(mine[s])

(* Every kind of step keeps every waiting call known to somebody. *)
LEMMA CallsStep ==
    ASSUME TrafficInv, TrafficInv', IdsNotReused, CallsKnown, FlowStep
    PROVE  CallsKnown'
<1>s. /\ mine \in [Sender -> Tx \cup {0}] /\ snap \in [Sender -> Gen] /\ poolOf \in [Gen -> 1..MaxPool]
      /\ poolOf' \in [Gen -> 1..MaxPool] /\ gen \in Nat
      /\ \A p \in 1..MaxPool : \A i \in ID : pool[p].txs[i] \in Tx \cup {0}
      /\ \A s \in Sender : at[s] = "snap" => mine[s] \in Tx
  <2>1. /\ mine \in [Sender -> Tx \cup {0}] /\ snap \in [Sender -> Gen] /\ poolOf \in [Gen -> 1..MaxPool]
        /\ poolOf' \in [Gen -> 1..MaxPool] /\ gen \in Gen /\ pool \in [1..MaxPool -> Pool]
        /\ \A s \in Sender : at[s] = "snap" => mine[s] \in Tx
    BY Zenon DEF TrafficInv, ConnInv, Shape
  <2>2. gen \in Nat
    <3>1. gen \in Gen
      BY <2>1, Zenon
    <3> QED
      BY <3>1, ConnAssumption DEF Gen
  <2>3. ASSUME NEW p \in 1..MaxPool, NEW i \in ID PROVE pool[p].txs[i] \in Tx \cup {0}
    <3>1. pool[p] \in Pool
      BY <2>1, Zenon
    <3> QED
      BY <3>1 DEF Pool
  <2> QED
    BY <2>1, <2>2, <2>3, Zenon
<1>0. 0 \notin Tx /\ Tx \subseteq Nat /\ Gen \subseteq Nat /\ Garbage # 0 /\ calls \in Nat
  BY PoolAssumption, ConnAssumption DEF Tx, Gen, Garbage, TrafficInv, ConnInv, Shape
<1>t. /\ at \in [Sender -> {"idle", "snap", "queue", "await"}]
      /\ resp \in [Tx -> Tx \cup {0, Garbage}] /\ err \in [Tx -> BOOLEAN]
      /\ rhold \in [Gen -> [tx : Tx \cup {0}, res : Tx \cup {0, Garbage}, then : {"top", "exit"}]]
  BY Zenon DEF TrafficInv, FlowInv, FlowTypes, LoopInv
<1>i. /\ \A s \in Sender : mine[s] <= calls /\ ((at[s] = "idle") <=> (mine[s] = 0))
      /\ \A s \in Sender : at[s] # "idle" => snap[s] \in 1..gen
  BY Zenon DEF TrafficInv, FlowInv, FlowTies
<1>k. /\ \A s, r \in Sender : mine[s] = mine[r] /\ mine[s] # 0 => s = r
      /\ \A s \in Sender : at[s] \in {"queue", "await"} =>
            Answered(mine[s]) \/ InPool(poolOf[snap[s]], mine[s]) \/ Held(mine[s])
  BY Zenon DEF CallsKnown
<1> DEFINE Had(s) == \/ resp[mine[s]] # 0 \/ err[mine[s]]
                     \/ \E i \in ID : pool[poolOf[snap[s]]].txs[i] = mine[s]
                     \/ \E g \in Gen : rhold[g].tx = mine[s]
           Has(s) == \/ resp'[mine[s]] # 0 \/ err'[mine[s]]
                     \/ \E i \in ID : pool'[poolOf'[snap[s]]].txs[i] = mine[s]
                     \/ \E g \in Gen : rhold'[g].tx = mine[s]
           Waits(s) == at[s] \in {"queue", "await"}
<1>h. ASSUME NEW s \in Sender, Waits(s) PROVE Had(s) /\ mine[s] \in Tx /\ mine[s] # 0 /\ snap[s] \in 1..gen
                                             /\ snap[s] \in Gen /\ poolOf[snap[s]] \in 1..MaxPool
  BY <1>h, <1>k, <1>i, <1>s, <1>0, Zenon DEF Answered, InPool, Held
<1>r. ASSUME \A s \in Sender : at'[s] \in {"queue", "await"} =>
                Has(s) /\ mine'[s] = mine[s] /\ snap'[s] = snap[s],
             \A s, r \in Sender : mine'[s] = mine'[r] /\ mine'[s] # 0 => s = r
      PROVE  CallsKnown'
  BY <1>r DEF CallsKnown, Answered, InPool, Held
<1>u. ASSUME UNCHANGED <<mine, snap>>, \A s \in Sender : at'[s] \in {"queue", "await"} => Has(s)
      PROVE  CallsKnown'
  BY <1>u, <1>r, <1>k, Zenon
<1>1. CASE Quiet \/ Moves
  <2>1. UNCHANGED <<at, mine, snap, poolOf, pool, rhold, resp, err>>
    BY <1>1, Zenon DEF Quiet, Moves, flowVars, callVars, outVars
  <2> QED
    BY <2>1, <1>h, <1>u, Zenon
<1>2. ASSUME NEW p \in 1..MaxPool, NEW S \in SUBSET Tx, Cancels(p, S) PROVE CallsKnown'
  <2>1. /\ \A q \in 1..MaxPool : \A i \in ID :
              pool'[q].txs[i] = IF q = p /\ pool[q].txs[i] \in S THEN 0 ELSE pool[q].txs[i]
        /\ err' = [t \in Tx |-> err[t] \/ t \in S]
        /\ \A g \in 1..gen : poolOf'[g] = poolOf[g]
        /\ UNCHANGED <<at, mine, snap, rhold, resp>>
    BY <1>2 DEF Cancels, flowVars, callVars
  <2>2. ASSUME NEW s \in Sender, Waits(s) PROVE Has(s)
    <3>1. err'[mine[s]] = (err[mine[s]] \/ mine[s] \in S) /\ poolOf'[snap[s]] = poolOf[snap[s]]
      BY <2>1, <2>2, <1>h, Zenon
    <3>2. CASE \E i \in ID : pool[poolOf[snap[s]]].txs[i] = mine[s]
      <4>1. PICK i \in ID : pool[poolOf[snap[s]]].txs[i] = mine[s]
        BY <3>2, Zenon
      <4>2. CASE mine[s] \in S
        BY <3>1, <4>2, Zenon
      <4>3. CASE mine[s] \notin S
        <5>1. pool'[poolOf[snap[s]]].txs[i] = mine[s]
          BY <2>1, <2>2, <4>1, <4>3, <1>h, Zenon
        <5> QED
          BY <3>1, <5>1, Zenon
      <4> QED
        BY <4>2, <4>3, Zenon
    <3>3. CASE resp[mine[s]] # 0 \/ err[mine[s]] \/ \E g \in Gen : rhold[g].tx = mine[s]
      BY <2>1, <3>1, <3>3, Zenon
    <3> QED
      BY <2>2, <3>2, <3>3, <1>h, Zenon
  <2> QED
    BY <2>1, <2>2, <1>u, Zenon
<1>3. ASSUME NEW r \in Sender, CallStep(r) PROVE CallsKnown'
  <2>d. ASSUME SendDone(r), UNCHANGED <<poolOf, rhold, resp, err>>,
               \A s \in Sender : s # r /\ Waits(s) => Has(s)
        PROVE  CallsKnown'
    <3>1. \A s \in Sender : /\ at'[s] = IF s = r THEN "idle" ELSE at[s]
                            /\ mine'[s] = IF s = r THEN 0 ELSE mine[s]
                            /\ snap'[s] = IF s = r THEN 0 ELSE snap[s]
      BY <2>d, <1>s, <1>t, Zenon DEF SendDone
    <3>2. \A s \in Sender : at'[s] \in {"queue", "await"} => s # r /\ Waits(s)
      BY <3>1, Zenon
    <3> HIDE DEF Has, Had, Waits
    <3> QED
      BY <3>1, <3>2, <2>d, <1>k, <1>r, Zenon
  <2>1. CASE Begins(r)
    <3>1. /\ at' = [at EXCEPT ![r] = "snap"] /\ mine' = [mine EXCEPT ![r] = calls + 1]
          /\ snap' = [snap EXCEPT ![r] = gen] /\ UNCHANGED <<poolOf, pool, rhold, resp, err>>
      BY <2>1, Zenon DEF Begins, flowVars, outVars
    <3>2. \A s \in Sender : /\ at'[s] = IF s = r THEN "snap" ELSE at[s]
                            /\ mine'[s] = IF s = r THEN calls + 1 ELSE mine[s]
                            /\ snap'[s] = IF s = r THEN gen ELSE snap[s]
      BY <3>1, <1>s, <1>t, Zenon
    <3>3. \A s \in Sender : mine[s] # calls + 1
      BY <1>i, <1>s, <1>0
    <3>4. \A s \in Sender : Waits(s) => Has(s)
      BY <3>1, <1>h, Zenon
    <3>5. \A s \in Sender : at'[s] \in {"queue", "await"} => s # r /\ Waits(s)
      BY <3>2, Zenon
    <3> HIDE DEF Has, Had, Waits
    <3> QED
      BY <3>2, <3>3, <3>4, <3>5, <1>k, <1>r
  <2>2. ASSUME NEW p \in 1..MaxPool, NEW i \in ID, Places(r, p, i) PROVE CallsKnown'
    <3>1. /\ at[r] = "snap" /\ p = poolOf[snap[r]] /\ pool[p].txs[i] = 0 /\ at' = [at EXCEPT ![r] = "queue"]
          /\ \A q \in 1..MaxPool : \A j \in ID :
                pool'[q].txs[j] = IF q = p /\ j = i THEN mine[r] ELSE pool[q].txs[j]
          /\ UNCHANGED <<mine, snap, poolOf, rhold, resp, err>>
      BY <2>2, Zenon DEF Places, flowVars
    <3>2. Has(r)
      BY <3>1, <2>2, Zenon
    <3>3. ASSUME NEW s \in Sender, Waits(s) PROVE Has(s)
      BY <3>1, <3>3, <2>2, <1>h
    <3>4. \A s \in Sender : at'[s] \in {"queue", "await"} => s = r \/ Waits(s)
      BY <3>1, <1>t, Zenon
    <3> HIDE DEF Has, Had, Waits
    <3> QED
      BY <3>1, <3>2, <3>3, <3>4, <1>u, Zenon
  <2>3. CASE Returns(r)
    <3>1. /\ SendDone(r) /\ UNCHANGED <<poolOf, rhold, resp, err>>
          /\ \A q \in 1..MaxPool : pool'[q].txs = pool[q].txs
      BY <2>3, Zenon DEF Returns, flowVars, outVars
    <3>2. ASSUME NEW s \in Sender, Waits(s) PROVE Has(s)
      BY <3>1, <3>2, <1>h, Zenon
    <3> HIDE DEF Has, Had, Waits
    <3> QED
      BY <3>1, <3>2, <2>d, Zenon
  <2>4. CASE GivesUp(r)
    <3>1. /\ at[r] = "queue" /\ SendDone(r) /\ UNCHANGED <<poolOf, rhold, resp, err>>
          /\ \A q \in 1..MaxPool : \A j \in ID :
                pool'[q].txs[j] = IF q = poolOf[snap[r]] /\ j = txid[mine[r]] THEN 0 ELSE pool[q].txs[j]
      BY <2>4, Zenon DEF GivesUp, Frees, flowVars, outVars
    <3>2. pool[poolOf[snap[r]]].txs[txid[mine[r]]] \in {0, mine[r]}
      BY <3>1, Zenon DEF IdsNotReused, Entry
    <3>3. ASSUME NEW s \in Sender, s # r, Waits(s) PROVE Has(s)
      <4>1. mine[s] # mine[r] /\ mine[s] # 0
        BY <3>3, <1>h, <1>k, Zenon
      <4> QED
        BY <3>1, <3>2, <3>3, <4>1, <1>h
    <3> HIDE DEF Has, Had, Waits
    <3> QED
      BY <3>1, <3>3, <2>d, Zenon
  <2>5. CASE Queues(r)
    <3>1. /\ at[r] = "queue" /\ at' = [at EXCEPT ![r] = "await"]
          /\ UNCHANGED <<mine, snap, pool, poolOf, rhold, resp, err>>
      BY <2>5, Zenon DEF Queues, outVars
    <3>2. \A s \in Sender : at'[s] \in {"queue", "await"} => Waits(s)
      BY <3>1, <1>t, Zenon
    <3> QED
      BY <3>1, <3>2, <1>h, <1>u, Zenon
  <2> QED
    BY <1>3, <2>1, <2>2, <2>3, <2>4, <2>5, Zenon DEF CallStep
<1>4. ASSUME NEW g \in Gen, WireStep(g) PROVE CallsKnown'
  <2>1. CASE Takes(g) \/ Writes(g)
    <3>1. UNCHANGED <<at, mine, snap, poolOf, pool, rhold, resp, err>>
      BY <2>1, Zenon DEF Takes, Writes, callVars, outVars
    <3> QED
      BY <3>1, <1>h, <1>u, Zenon
  <2>2. ASSUME NEW S \in SUBSET Tx, Drops(g, S) PROVE CallsKnown'
    <3>1. /\ err' = [t \in Tx |-> err[t] \/ t \in S]
          /\ UNCHANGED <<at, mine, snap, poolOf, pool, rhold, resp>>
      BY <2>2, Zenon DEF Drops, callVars
    <3>2. ASSUME NEW s \in Sender, Waits(s) PROVE Has(s)
      <4>1. err'[mine[s]] = (err[mine[s]] \/ mine[s] \in S)
        BY <3>1, <3>2, <1>h, Zenon
      <4> QED
        BY <3>1, <3>2, <4>1, <1>h, Zenon
    <3> QED
      BY <3>1, <3>2, <1>u, Zenon
  <2>3. ASSUME NEW id \in ID, NEW x \in Tx \cup {0, Garbage}, NEW then \in {"top", "exit"}, Reads(g, id, x, then)
        PROVE  CallsKnown'
    <3> DEFINE u == pool[poolOf[g]].txs[id]
    <3>1. /\ rhold[g].tx = 0
          /\ \A q \in 1..MaxPool : \A j \in ID :
                pool'[q].txs[j] = IF q = poolOf[g] /\ j = id THEN 0 ELSE pool[q].txs[j]
          /\ rhold' = IF u = 0 THEN rhold ELSE [rhold EXCEPT ![g] = [tx |-> u, res |-> x, then |-> then]]
          /\ UNCHANGED <<at, mine, snap, poolOf, resp, err>>
      BY <2>3, Zenon DEF Reads, Frees, callVars, outVars
    <3>2. /\ u # 0 => rhold'[g].tx = u
          /\ \A h \in Gen : h # g => rhold'[h].tx = rhold[h].tx
      BY <3>1, <1>t, Zenon
    <3>3. ASSUME NEW s \in Sender, Waits(s) PROVE Has(s)
      <4>1. CASE \E h \in Gen : rhold[h].tx = mine[s]
        BY <3>1, <3>2, <3>3, <4>1, <1>h
      <4>2. CASE \E i \in ID : pool[poolOf[snap[s]]].txs[i] = mine[s]
        <5>1. PICK i \in ID : pool[poolOf[snap[s]]].txs[i] = mine[s]
          BY <4>2, Zenon
        <5>2. CASE poolOf[snap[s]] = poolOf[g] /\ i = id
          BY <3>2, <3>3, <5>1, <5>2, <1>h, Zenon
        <5>3. CASE ~(poolOf[snap[s]] = poolOf[g] /\ i = id)
          <6>1. pool'[poolOf[snap[s]]].txs[i] = mine[s]
            BY <3>1, <3>3, <5>1, <5>3, <1>h, Zenon
          <6> QED
            BY <3>1, <6>1, Zenon
        <5> QED
          BY <5>2, <5>3, Zenon
      <4>3. CASE resp[mine[s]] # 0 \/ err[mine[s]]
        BY <3>1, <4>3, Zenon
      <4> QED
        BY <3>3, <4>1, <4>2, <4>3, <1>h, Zenon
    <3> HIDE DEF Has, Had
    <3> QED
      BY <3>1, <3>3, <1>u, Zenon
  <2>4. CASE Completes(g)
    <3>1. /\ rhold[g].tx # 0 /\ rhold' = [rhold EXCEPT ![g] = NoHold]
          /\ UNCHANGED <<at, mine, snap, poolOf, pool>>
      BY <2>4, Zenon DEF Completes, callVars
    <3>2. \A h \in Gen : h # g => rhold'[h] = rhold[h]
      BY <3>1, <1>t, Zenon
    <3>3. \A t \in Tx : (err[t] => err'[t]) /\ (resp[t] # 0 => resp'[t] # 0)
      BY <2>4, <1>t, Zenon DEF Completes
    <3>4. rhold[g].tx \in Tx /\ (resp'[rhold[g].tx] # 0 \/ err'[rhold[g].tx])
      <4>1. rhold[g].tx \in Tx
        BY <3>1, <1>t, Zenon
      <4>2. CASE rhold[g].res = 0
        <5>1. err'[rhold[g].tx]
          BY <2>4, <4>1, <4>2, Zenon DEF Completes
        <5> QED
          BY <4>1, <5>1, Zenon
      <4>3. CASE rhold[g].res # 0
        <5>1. resp'[rhold[g].tx] # 0
          BY <2>4, <4>1, <4>3, <1>t, Zenon DEF Completes
        <5> QED
          BY <4>1, <5>1, Zenon
      <4> QED
        BY <4>2, <4>3, Zenon
    <3>5. ASSUME NEW s \in Sender, Waits(s) PROVE Has(s)
      BY <3>1, <3>2, <3>3, <3>4, <3>5, <1>h
    <3> HIDE DEF Has, Had
    <3> QED
      BY <3>1, <3>5, <1>u, Zenon
  <2> QED
    BY <1>4, <2>1, <2>2, <2>3, <2>4, Zenon DEF WireStep
<1> QED
  BY <1>1, <1>2, <1>3, <1>4, Zenon DEF FlowStep

-----------------------------------------------------------------------------
(* With frames that arrive whole, the read loop completes a transaction with   *)
(* the answer to its own request or with an error.                             *)
HeldOwn ==
    /\ \A g \in Gen : \A f \in Items(stream[g]) : f.kind # "tail"
    /\ \A g \in Gen : rhold[g].tx # 0 => rhold[g].res \in {0, rhold[g].tx}
    /\ Correlated

(* Every kind of step keeps what the read loops hold matched. *)
LEMMA HeldStep ==
    ASSUME TrafficInv, IdsNotReused, HeldOwn, ~SlowFrames, FlowStep
    PROVE  HeldOwn'
<1>0. 0 \notin Tx
  BY DEF Tx
<1>t. /\ resp \in [Tx -> Tx \cup {0, Garbage}]
      /\ rhold \in [Gen -> [tx : Tx \cup {0}, res : Tx \cup {0, Garbage}, then : {"top", "exit"}]]
  BY Zenon DEF TrafficInv, FlowInv, FlowTypes, LoopInv
<1>1. /\ \A g \in Gen : \A f \in Items(stream[g]) : f.kind # "tail"
      /\ \A g \in Gen : rhold[g].tx # 0 => rhold[g].res \in {0, rhold[g].tx}
      /\ \A t \in Tx : resp[t] \in {0, t}
  BY Zenon DEF HeldOwn, Correlated
<1>2. CASE UNCHANGED <<stream, rhold, resp>>
  BY <1>2, <1>1, Zenon DEF HeldOwn, Correlated
<1>3. CASE Moves
  <2>1. UNCHANGED <<rhold, resp>> /\ \A h \in Gen : \A f \in Items(stream'[h]) : f.kind # "tail"
    BY <1>3, <1>1, Zenon DEF Moves, outVars
  <2> QED
    BY <2>1, <1>1, Zenon DEF HeldOwn, Correlated
<1>4. ASSUME NEW g \in Gen, NEW id \in ID, NEW x \in Tx \cup {0, Garbage}, NEW then \in {"top", "exit"},
             Reads(g, id, x, then)
      PROVE  HeldOwn'
  <2> DEFINE u == pool[poolOf[g]].txs[id]
  <2>1. /\ \A h \in Gen : Items(stream'[h]) \subseteq Items(stream[h])
        /\ rhold' = IF u = 0 THEN rhold ELSE [rhold EXCEPT ![g] = [tx |-> u, res |-> x, then |-> then]]
        /\ resp' = resp
    BY <1>4, Zenon DEF Reads, outVars
  <2>2. u # 0 => x \in {0, u}
    <3>1. CASE x = 0
      BY <3>1, Zenon
    <3>2. ASSUME NEW f \in Items(stream[g]), f.kind = "ok", x = f.tx, id = txid[f.tx] PROVE u \in {0, x}
      BY <3>2, Zenon DEF IdsNotReused, Entry
    <3>3. \/ x = 0 \/ \E f \in Items(stream[g]) : f.kind = "ok" /\ x = f.tx /\ id = txid[f.tx]
      BY <1>4, <1>1, Zenon DEF Reads
    <3> HIDE DEF u
    <3> QED
      BY <3>1, <3>2, <3>3, Zenon
  <2> HIDE DEF u
  <2>3. ASSUME NEW h \in Gen, rhold'[h].tx # 0 PROVE rhold'[h].res \in {0, rhold'[h].tx}
    <3>1. CASE u # 0 /\ h = g
      <4>1. rhold'[h].tx = u /\ rhold'[h].res = x
        BY <2>1, <3>1, <1>t, Zenon
      <4> QED
        BY <4>1, <3>1, <2>2, Zenon
    <3>2. CASE ~(u # 0 /\ h = g)
      <4>1. rhold'[h] = rhold[h]
        BY <2>1, <3>2, <1>t, Zenon
      <4> QED
        BY <4>1, <2>3, <1>1, Zenon
    <3> QED
      BY <3>1, <3>2, Zenon
  <2> QED
    BY <2>1, <2>3, <1>1, Zenon DEF HeldOwn, Correlated
<1>5. ASSUME NEW g \in Gen, Completes(g) PROVE HeldOwn'
  <2>1. /\ rhold[g].tx # 0 /\ rhold' = [rhold EXCEPT ![g] = NoHold] /\ stream' = stream
        /\ \/ resp' = resp
           \/ rhold[g].res # 0 /\ resp' = [resp EXCEPT ![rhold[g].tx] = rhold[g].res]
    BY <1>5, Zenon DEF Completes
  <2>2. ASSUME NEW h \in Gen, rhold'[h].tx # 0 PROVE rhold'[h].res \in {0, rhold'[h].tx}
    BY <2>1, <2>2, <1>1, <1>t, Zenon DEF NoHold
  <2>3. ASSUME NEW t \in Tx PROVE resp'[t] \in {0, t}
    BY <2>1, <1>1, <1>t, Zenon
  <2> QED
    BY <2>1, <2>2, <2>3, <1>1, Zenon DEF HeldOwn, Correlated
<1>6. ASSUME NEW p \in 1..MaxPool, NEW S \in SUBSET Tx, Cancels(p, S) PROVE HeldOwn'
  BY <1>6, <1>2, Zenon DEF Cancels, flowVars
<1>7. ASSUME NEW s \in Sender, CallStep(s) PROVE HeldOwn'
  <2>1. UNCHANGED <<stream, rhold, resp>>
    BY <1>7, Zenon DEF CallStep, Begins, Places, Returns, GivesUp, Queues, flowVars, outVars
  <2> QED
    BY <2>1, <1>2, Zenon
<1>8. ASSUME NEW g \in Gen, WireStep(g) PROVE HeldOwn'
  <2>1. CASE Takes(g) \/ Writes(g)
    BY <2>1, <1>2, Zenon DEF Takes, Writes, outVars
  <2>2. ASSUME NEW S \in SUBSET Tx, Drops(g, S) PROVE HeldOwn'
    BY <2>2, <1>2, Zenon DEF Drops
  <2> QED
    BY <1>8, <1>4, <1>5, <2>1, <2>2, Zenon DEF WireStep
<1>9. CASE Quiet
  BY <1>9, <1>2, Zenon DEF Quiet, flowVars, outVars
<1> QED
  BY <1>3, <1>6, <1>7, <1>8, <1>9, Zenon DEF FlowStep

-----------------------------------------------------------------------------
(* Where a transaction is on its way out: not yet placed, with its caller in   *)
(* the first select, in a write channel or with a write loop, or written.      *)
Fresh(t) == t > calls \/ \E s \in Sender : at[s] = "snap" /\ mine[s] = t
AtCaller(t) == \E s \in Sender : at[s] = "queue" /\ mine[s] = t
InLine(t) == \E g \in Gen : t \in Items(queue[g]) \/ t = whold[g]
Unsent(t) == AtCaller(t) \/ InLine(t)
Sent(t) == \E g \in Gen : t \in pending[g] \/ \E f \in Items(stream[g]) : f.tx = t

(* It is in one of these places at a time, and its request is written once. *)
PathInv ==
    /\ \A t \in Tx : Fresh(t) => ~Unsent(t) /\ ~Sent(t)
    /\ \A t \in Tx : AtCaller(t) => ~InLine(t)
    /\ \A t \in Tx : Sent(t) => ~Unsent(t)
    /\ \A g \in Gen : Once(queue[g])
    /\ \A g, h \in Gen : \A t \in Items(queue[g]) : t # whold[h] /\ (t \in Items(queue[h]) => g = h)
    /\ \A g, h \in Gen : whold[g] = whold[h] /\ whold[g] # 0 => g = h

(* It never goes back. *)
Onward ==
    \A t \in Tx :
        /\ Fresh(t)' => Fresh(t)
        /\ ~Fresh(t) => /\ Unsent(t)' => Unsent(t)
                        /\ Unsent(t)' \/ Sent(t)' => Unsent(t) \/ Sent(t)

(* A step that sends nothing on. *)
Shrinks ==
    /\ \A t \in Tx : (Fresh(t)' => Fresh(t)) /\ (AtCaller(t)' => AtCaller(t)) /\ (Sent(t)' => Sent(t))
    /\ queue' = queue
    /\ \A g \in Gen : whold'[g] \in {0, whold[g]}

(* Nothing is on its way at first. *)
LEMMA InitPath == Init => PathInv /\ \A t \in Tx : ~Unsent(t) /\ ~Sent(t)
<1> SUFFICES ASSUME Init PROVE PathInv /\ \A t \in Tx : ~Unsent(t) /\ ~Sent(t)
  BY Zenon
<1>1. \A g \in Gen : Items(queue[g]) = {} /\ whold[g] = 0 /\ pending[g] = {} /\ Items(stream[g]) = {}
  BY DEF Init, Items
<1>2. \A g \in Gen : Once(queue[g])
  BY DEF Init, Once
<1>3. \A t \in Tx : t # 0 /\ ~AtCaller(t)
  BY DEF Init, AtCaller, Tx
<1>4. \A t \in Tx : ~InLine(t) /\ ~Sent(t) /\ ~Unsent(t)
  BY <1>1, <1>3, Zenon DEF InLine, Sent, Unsent
<1> QED
  BY <1>1, <1>2, <1>4, Zenon DEF PathInv

(* A step that sends nothing on keeps the way of every transaction. *)
LEMMA ShrinksPath ==
    ASSUME TrafficInv, PathInv, Shrinks
    PROVE  PathInv' /\ Onward
<1>0. 0 \notin Tx
  BY DEF Tx
<1>q. \A g \in Gen : Items(queue[g]) \subseteq Tx
  BY ItemsOf, Zenon DEF TrafficInv, FlowInv, FlowTypes
<1>1. \A t \in Tx : InLine(t)' => InLine(t)
  BY <1>0, Zenon DEF InLine, Shrinks
<1>2. \A t \in Tx : Unsent(t)' => Unsent(t)
  BY <1>1, Zenon DEF Unsent, Shrinks
<1>3. Onward
  BY <1>2, Zenon DEF Onward, Shrinks
<1>4. \A g \in Gen : Once(queue'[g])
  BY Zenon DEF PathInv, Shrinks
<1>5. \A t \in Tx : /\ Fresh(t)' => ~Unsent(t)' /\ ~Sent(t)'
                    /\ AtCaller(t)' => ~InLine(t)'
                    /\ Sent(t)' => ~Unsent(t)'
  BY <1>1, <1>2, Zenon DEF PathInv, Shrinks
<1>6. \A g, h \in Gen : \A t \in Items(queue'[g]) : t # whold'[h] /\ (t \in Items(queue'[h]) => g = h)
  BY <1>0, <1>q DEF PathInv, Shrinks
<1>7. \A g, h \in Gen : whold'[g] = whold'[h] /\ whold'[g] # 0 => g = h
  BY Zenon DEF PathInv, Shrinks
<1> QED
  BY <1>3, <1>4, <1>5, <1>6, <1>7, Zenon DEF PathInv

(* Every kind of step keeps it, and sends a transaction only onward. *)
LEMMA PathStep ==
    ASSUME TrafficInv, CallsKnown, PathInv, FlowStep
    PROVE  PathInv' /\ Onward
<1>0. 0 \notin Tx /\ Tx \subseteq Nat
  BY PoolAssumption DEF Tx
<1>s. mine \in [Sender -> Tx \cup {0}] /\ snap \in [Sender -> Gen] /\ calls \in Nat
  BY ConnAssumption DEF TrafficInv, ConnInv, Shape
<1>t. /\ at \in [Sender -> {"idle", "snap", "queue", "await"}]
      /\ queue \in [Gen -> Seq(Tx)] /\ pending \in [Gen -> SUBSET Tx] /\ whold \in [Gen -> Tx \cup {0}]
      /\ \A g \in Gen : Items(queue[g]) \subseteq Tx
  BY ItemsOf, Zenon DEF TrafficInv, FlowInv, FlowTypes, LoopInv
<1>i. \A s \in Sender : mine[s] <= calls /\ ((at[s] = "idle") <=> (mine[s] = 0))
  BY Zenon DEF TrafficInv, FlowInv, FlowTies
<1>m. \A s, r \in Sender : mine[s] = mine[r] /\ mine[s] # 0 => s = r
  BY Zenon DEF CallsKnown
<1>p. /\ \A t \in Tx : Fresh(t) => ~Unsent(t) /\ ~Sent(t)
      /\ \A t \in Tx : AtCaller(t) => ~InLine(t)
      /\ \A t \in Tx : Sent(t) => ~Unsent(t)
      /\ \A g \in Gen : Once(queue[g])
      /\ \A g, h \in Gen : \A t \in Items(queue[g]) : t # whold[h] /\ (t \in Items(queue[h]) => g = h)
      /\ \A g, h \in Gen : whold[g] = whold[h] /\ whold[g] # 0 => g = h
  BY Zenon DEF PathInv
<1>1. CASE UNCHANGED <<at, mine, calls, queue, whold, pending, stream>>
  <2>1. Shrinks
    BY <1>1, Zenon DEF Shrinks, Fresh, AtCaller, Sent
  <2> QED
    BY <2>1, ShrinksPath, Zenon
<1>2. CASE /\ UNCHANGED <<at, mine, calls, queue, whold>>
           /\ \A g \in Gen : pending'[g] \subseteq pending[g]
           /\ \A g \in Gen : \A f \in Items(stream'[g]) :
                 f.tx \in pending[g] \/ \E e \in Items(stream[g]) : e.tx = f.tx
  <2>1. \A t \in Tx : (Fresh(t)' => Fresh(t)) /\ (AtCaller(t)' => AtCaller(t))
    BY <1>2, Zenon DEF Fresh, AtCaller
  <2>2. \A t \in Tx : Sent(t)' => Sent(t)
    BY <1>2 DEF Sent
  <2>3. Shrinks
    BY <1>2, <2>1, <2>2, Zenon DEF Shrinks
  <2> QED
    BY <2>3, ShrinksPath, Zenon
<1>3. CASE Quiet
  BY <1>1, <1>3, Zenon DEF Quiet, flowVars, callVars
<1>4. CASE Moves
  BY <1>2, <1>4, Zenon DEF Moves, callVars
<1>5. ASSUME NEW p \in 1..MaxPool, NEW S \in SUBSET Tx, Cancels(p, S) PROVE PathInv' /\ Onward
  BY <1>1, <1>5, Zenon DEF Cancels, flowVars, callVars
<1>6. ASSUME NEW r \in Sender, CallStep(r) PROVE PathInv' /\ Onward
  <2>e. ASSUME UNCHANGED <<queue, whold, pending, stream>>,
               \A t \in Tx : (Fresh(t)' => Fresh(t)) /\ (AtCaller(t)' => AtCaller(t))
        PROVE  PathInv' /\ Onward
    <3>1. \A t \in Tx : Sent(t)' => Sent(t)
      BY <2>e, Zenon DEF Sent
    <3>2. Shrinks
      BY <2>e, <3>1, Zenon DEF Shrinks
    <3> QED
      BY <3>2, ShrinksPath, Zenon
  <2>1. CASE Begins(r)
    <3>1. /\ at[r] = "idle" /\ calls' = calls + 1 /\ UNCHANGED <<queue, whold, pending, stream>>
          /\ at' = [at EXCEPT ![r] = "snap"] /\ mine' = [mine EXCEPT ![r] = calls + 1]
      BY <2>1, Zenon DEF Begins, flowVars
    <3>2. \A s \in Sender : /\ at'[s] = IF s = r THEN "snap" ELSE at[s]
                            /\ mine'[s] = IF s = r THEN calls + 1 ELSE mine[s]
      BY <3>1, <1>s, <1>t, Zenon
    <3>3. \A t \in Tx : (t > calls + 1 => t > calls) /\ (t = calls + 1 => t > calls)
      BY <1>s, <1>0
    <3>4. \A t \in Tx : Fresh(t)' => Fresh(t)
      BY <3>1, <3>2, <3>3 DEF Fresh
    <3>5. \A t \in Tx : AtCaller(t)' => AtCaller(t)
      BY <3>2, Zenon DEF AtCaller
    <3> QED
      BY <3>1, <3>4, <3>5, <2>e, Zenon
  <2>2. CASE Returns(r) \/ GivesUp(r)
    <3>1. SendDone(r) /\ UNCHANGED <<calls, queue, whold, pending, stream>>
      BY <2>2, Zenon DEF Returns, GivesUp, flowVars
    <3>2. \A s \in Sender : /\ at'[s] = IF s = r THEN "idle" ELSE at[s]
                            /\ mine'[s] = IF s = r THEN 0 ELSE mine[s]
      BY <3>1, <1>s, <1>t, Zenon DEF SendDone
    <3>3. \A t \in Tx : (Fresh(t)' => Fresh(t)) /\ (AtCaller(t)' => AtCaller(t))
      BY <3>1, <3>2, Zenon DEF Fresh, AtCaller
    <3> QED
      BY <3>1, <3>3, <2>e, Zenon
  <2>3. ASSUME NEW p \in 1..MaxPool, NEW i \in ID, Places(r, p, i) PROVE PathInv' /\ Onward
    <3>1. /\ at[r] = "snap" /\ at' = [at EXCEPT ![r] = "queue"]
          /\ UNCHANGED <<mine, calls, queue, whold, pending, stream>>
      BY <2>3, Zenon DEF Places, flowVars
    <3>2. PICK t0 \in Tx : t0 = mine[r]
      BY <3>1, <1>s, <1>i, Zenon
    <3>3. \A s \in Sender : at'[s] = IF s = r THEN "queue" ELSE at[s]
      BY <3>1, <1>t, Zenon
    <3>4. Fresh(t0) /\ t0 # 0
      BY <3>1, <3>2, <1>0, Zenon DEF Fresh
    <3>5. \A t \in Tx : Fresh(t)' => Fresh(t) /\ t # t0
      <4>1. ~(t0 > calls)
        <5>1. t0 <= calls /\ t0 \in Nat
          BY <3>2, <1>i, <1>0, Zenon
        <5> QED
          BY <5>1, <1>s
      <4>2. \A s \in Sender : ~(at'[s] = "snap" /\ mine[s] = t0)
        BY <3>2, <3>3, <3>4, <1>m, Zenon
      <4> QED
        BY <3>1, <3>3, <4>1, <4>2, Zenon DEF Fresh
    <3>6. \A t \in Tx : AtCaller(t)' => AtCaller(t) \/ t = t0
      BY <3>1, <3>2, <3>3, Zenon DEF AtCaller
    <3>7. \A t \in Tx : (InLine(t)' <=> InLine(t)) /\ (Sent(t)' <=> Sent(t))
      BY <3>1, Zenon DEF InLine, Sent
    <3>8. \A t \in Tx : Unsent(t)' => Unsent(t) \/ t = t0
      BY <3>6, <3>7, Zenon DEF Unsent
    <3>9. Onward
      BY <3>4, <3>5, <3>7, <3>8, Zenon DEF Onward
    <3>10. \A t \in Tx : /\ Fresh(t)' => ~Unsent(t)' /\ ~Sent(t)'
                         /\ AtCaller(t)' => ~InLine(t)'
                         /\ Sent(t)' => ~Unsent(t)'
      BY <3>4, <3>5, <3>6, <3>7, <3>8, <1>p DEF Unsent
    <3> QED
      BY <3>1, <3>9, <3>10, <1>p, Zenon DEF PathInv
  <2>4. CASE Queues(r)
    <3>1. /\ at[r] = "queue" /\ at' = [at EXCEPT ![r] = "await"]
          /\ queue' = [queue EXCEPT ![snap[r]] = Append(queue[snap[r]], mine[r])]
          /\ UNCHANGED <<mine, calls, whold, pending, stream>>
      BY <2>4, Zenon DEF Queues
    <3>2. PICK t0 \in Tx : t0 = mine[r]
      BY <3>1, <1>s, <1>i, Zenon
    <3>3. PICK h \in Gen : h = snap[r]
      BY <1>s, Zenon
    <3>4. AtCaller(t0) /\ ~InLine(t0) /\ t0 # 0
      BY <3>1, <3>2, <1>0, <1>p, Zenon DEF AtCaller
    <3>5. \A s \in Sender : at'[s] = IF s = r THEN "await" ELSE at[s]
      BY <3>1, <1>t, Zenon
    <3>6. /\ \A g \in Gen : Items(queue'[g]) = IF g = h THEN Items(queue[g]) \cup {t0} ELSE Items(queue[g])
          /\ \A g \in Gen : Once(queue'[g])
      <4>1. \A g \in Gen : queue'[g] = IF g = h THEN Append(queue[h], t0) ELSE queue[g]
        BY <3>1, <3>2, <3>3, <1>t, Zenon
      <4>2. queue[h] \in Seq(Tx) /\ Once(queue[h]) /\ t0 \notin Items(queue[h])
        BY <3>4, <1>t, <1>p, Zenon DEF InLine
      <4>3. Items(Append(queue[h], t0)) = Items(queue[h]) \cup {t0}
        BY <4>2, ItemsOf, Zenon
      <4>4. Once(Append(queue[h], t0))
        BY <4>2, OnceKept, Zenon
      <4> QED
        BY <4>1, <4>3, <4>4, <1>p, Zenon
    <3>15. \A g \in Gen : \A t \in Items(queue'[g]) : t \in Items(queue[g]) \/ (t = t0 /\ g = h)
      BY <3>6, Zenon
    <3>7. \A t \in Tx : (Fresh(t)' => Fresh(t)) /\ (Sent(t)' <=> Sent(t))
      BY <3>1, <3>5 DEF Fresh, Sent
    <3>8. \A t \in Tx : AtCaller(t)' => AtCaller(t) /\ t # t0
      BY <3>1, <3>2, <3>4, <3>5, <1>m DEF AtCaller
    <3>9. \A t \in Tx : InLine(t)' => InLine(t) \/ t = t0
      BY <3>1, <3>15, Zenon DEF InLine
    <3>10. \A t \in Tx : Unsent(t)' => Unsent(t)
      BY <3>4, <3>8, <3>9, Zenon DEF Unsent
    <3>11. Onward
      BY <3>7, <3>10, Zenon DEF Onward
    <3>12. \A t \in Tx : /\ Fresh(t)' => ~Unsent(t)' /\ ~Sent(t)'
                         /\ AtCaller(t)' => ~InLine(t)'
                         /\ Sent(t)' => ~Unsent(t)'
      BY <3>7, <3>8, <3>9, <3>10, <1>p, Zenon
    <3>13. \A g \in Gen : t0 \notin Items(queue[g]) /\ t0 # whold[g]
      BY <3>4, Zenon DEF InLine
    <3>14. \A a, b \in Gen : \A t \in Items(queue'[a]) : t # whold'[b] /\ (t \in Items(queue'[b]) => a = b)
      <4> SUFFICES ASSUME NEW a \in Gen, NEW b \in Gen, NEW t \in Items(queue'[a])
                   PROVE  t # whold[b] /\ (t \in Items(queue'[b]) => a = b)
        BY <3>1, Zenon
      <4>1. CASE t = t0
        BY <4>1, <3>13, <3>15, Zenon
      <4>2. CASE t # t0
        BY <4>2, <3>15, <1>p, Zenon
      <4> QED
        BY <4>1, <4>2, Zenon
    <3> QED
      BY <3>1, <3>6, <3>11, <3>12, <3>14, <1>p, Zenon DEF PathInv
  <2> QED
    BY <1>6, <2>1, <2>2, <2>3, <2>4, Zenon DEF CallStep
<1>7. ASSUME NEW g \in Gen, WireStep(g) PROVE PathInv' /\ Onward
  <2>1. CASE Takes(g)
    <3>1. /\ queue[g] # <<>> /\ whold' = [whold EXCEPT ![g] = Head(queue[g])]
          /\ queue' = [queue EXCEPT ![g] = Tail(queue[g])]
          /\ UNCHANGED <<at, mine, calls, pending, stream>>
      BY <2>1, Zenon DEF Takes, callVars
    <3>2. queue[g] \in Seq(Tx) /\ Once(queue[g])
      BY <1>t, <1>p, Zenon
    <3>3. PICK t0 \in Items(queue[g]) : t0 = Head(queue[g])
      BY <3>1, <3>2, ItemsOf, Zenon
    <3>4. /\ \A h \in Gen : Items(queue'[h]) \subseteq Items(queue[h]) /\ Once(queue'[h])
          /\ t0 \notin Items(queue'[g])
      <4>1. \A h \in Gen : queue'[h] = IF h = g THEN Tail(queue[g]) ELSE queue[h]
        BY <3>1, <1>t, Zenon
      <4>2. Items(Tail(queue[g])) \subseteq Items(queue[g])
        BY <3>1, <3>2, ItemsOf, Zenon
      <4>3. Once(Tail(queue[g])) /\ t0 \notin Items(Tail(queue[g]))
        BY <3>1, <3>2, <3>3, OnceKept, Zenon
      <4> QED
        BY <4>1, <4>2, <4>3, <1>p, Zenon
    <3>5. \A h \in Gen : whold'[h] = IF h = g THEN t0 ELSE whold[h]
      BY <3>1, <3>3, <1>t, Zenon
    <3>6. \A t \in Tx : (Fresh(t)' <=> Fresh(t)) /\ (Sent(t)' <=> Sent(t)) /\ (AtCaller(t)' <=> AtCaller(t))
      BY <3>1, Zenon DEF Fresh, Sent, AtCaller
    <3>7. \A t \in Tx : InLine(t)' => InLine(t)
      BY <3>4, <3>5, Zenon DEF InLine
    <3>8. \A t \in Tx : Unsent(t)' => Unsent(t)
      BY <3>6, <3>7, Zenon DEF Unsent
    <3>9. Onward
      BY <3>6, <3>8, Zenon DEF Onward
    <3>10. \A t \in Tx : /\ Fresh(t)' => ~Unsent(t)' /\ ~Sent(t)'
                         /\ AtCaller(t)' => ~InLine(t)'
                         /\ Sent(t)' => ~Unsent(t)'
      BY <3>6, <3>7, <3>8, <1>p, Zenon
    <3>11. \A a, b \in Gen : \A t \in Items(queue'[a]) : t # whold'[b] /\ (t \in Items(queue'[b]) => a = b)
      BY <3>3, <3>4, <3>5, <1>p
    <3>12. \A a, b \in Gen : whold'[a] = whold'[b] /\ whold'[a] # 0 => a = b
      BY <3>3, <3>5, <1>p
    <3> QED
      BY <3>4, <3>9, <3>10, <3>11, <3>12, Zenon DEF PathInv
  <2>2. ASSUME NEW S \in SUBSET Tx, Drops(g, S) PROVE PathInv' /\ Onward
    <3>1. whold' = [whold EXCEPT ![g] = 0] /\ UNCHANGED <<at, mine, calls, queue, pending, stream>>
      BY <2>2, Zenon DEF Drops, callVars
    <3>2. Shrinks
      BY <3>1, <1>t, Zenon DEF Shrinks, Fresh, AtCaller, Sent
    <3> QED
      BY <3>2, ShrinksPath, Zenon
  <2>3. CASE Writes(g)
    <3>1. /\ whold[g] # 0 /\ whold' = [whold EXCEPT ![g] = 0]
          /\ pending' = pending \/ pending' = [pending EXCEPT ![g] = pending[g] \cup {whold[g]}]
          /\ UNCHANGED <<at, mine, calls, queue, stream>>
      BY <2>3, Zenon DEF Writes, callVars
    <3>2. PICK t0 \in Tx : t0 = whold[g]
      BY <3>1, <1>t, Zenon
    <3>3. InLine(t0) /\ ~AtCaller(t0) /\ t0 # 0 /\ \A h \in Gen : t0 \notin Items(queue[h]) /\ (h # g => whold[h] # t0)
      BY <3>1, <3>2, <1>0, <1>p DEF InLine
    <3>4. \A h \in Gen : whold'[h] = IF h = g THEN 0 ELSE whold[h]
      BY <3>1, <1>t, Zenon
    <3>5. \A t \in Tx : (Fresh(t)' <=> Fresh(t)) /\ (AtCaller(t)' <=> AtCaller(t))
      BY <3>1, Zenon DEF Fresh, AtCaller
    <3>6. \A t \in Tx : InLine(t)' => InLine(t) /\ t # t0
      BY <3>1, <3>2, <3>3, <3>4, <1>0, Zenon DEF InLine
    <3>7. \A t \in Tx : Sent(t)' => Sent(t) \/ t = t0
      <4>1. \A h \in Gen : pending'[h] \subseteq pending[h] \cup {t0}
        BY <3>1, <3>2, <1>t, Zenon
      <4> QED
        BY <3>1, <4>1, Zenon DEF Sent
    <3>8. \A t \in Tx : Unsent(t)' => Unsent(t) /\ t # t0
      BY <3>3, <3>5, <3>6, Zenon DEF Unsent
    <3>9. Unsent(t0)
      BY <3>3, Zenon DEF Unsent
    <3>10. Onward
      BY <3>5, <3>7, <3>8, <3>9, Zenon DEF Onward
    <3>11. \A t \in Tx : /\ Fresh(t)' => ~Unsent(t)' /\ ~Sent(t)'
                         /\ AtCaller(t)' => ~InLine(t)'
                         /\ Sent(t)' => ~Unsent(t)'
      BY <3>5, <3>6, <3>7, <3>8, <3>9, <1>p, Zenon
    <3>12. \A a, b \in Gen : \A t \in Items(queue'[a]) : t # whold'[b] /\ (t \in Items(queue'[b]) => a = b)
      BY <3>1, <3>4, <1>0, <1>p, <1>t
    <3>13. \A a, b \in Gen : whold'[a] = whold'[b] /\ whold'[a] # 0 => a = b
      BY <3>4, <1>p, Zenon
    <3> QED
      BY <3>1, <3>10, <3>11, <3>12, <3>13, <1>p, Zenon DEF PathInv
  <2>4. ASSUME NEW id \in ID, NEW x \in Tx \cup {0, Garbage}, NEW then \in {"top", "exit"}, Reads(g, id, x, then)
        PROVE  PathInv' /\ Onward
    BY <2>4, <1>2, Zenon DEF Reads, callVars
  <2>5. CASE Completes(g)
    BY <2>5, <1>1, Zenon DEF Completes, callVars
  <2> QED
    BY <1>7, <2>1, <2>2, <2>3, <2>4, <2>5, Zenon DEF WireStep
<1> QED
  BY <1>3, <1>4, <1>5, <1>6, <1>7, Zenon DEF FlowStep

(* What the pools, the read loops and the channels of a transaction say of it  *)
(* agree: it is in one pool entry or with one read loop, and then it has no     *)
(* response; an error comes to it only when nothing of it is left that could    *)
(* still bring a response.                                                      *)
OutcomeInv ==
    /\ \A t \in Tx : Fresh(t) => resp[t] = 0 /\ ~err[t] /\ ~Held(t) /\ \A p \in 1..MaxPool : ~InPool(p, t)
    /\ \A p, q \in 1..MaxPool : \A i, j \in ID :
          pool[p].txs[i] = pool[q].txs[j] /\ pool[p].txs[i] # 0 => p = q /\ i = j
    /\ \A p \in 1..MaxPool : \A t \in Tx :
          InPool(p, t) => resp[t] = 0 /\ ~Held(t) /\ (Unsent(t) \/ Sent(t) => ~err[t])
    /\ \A g, h \in Gen : rhold[g].tx # 0 /\ rhold[h].tx = rhold[g].tx => h = g
    /\ \A g \in Gen : \A t \in Tx : rhold[g].tx = t =>
          resp[t] = 0 /\ (rhold[g].res # 0 => ~err[t] /\ ~Unsent(t))
    /\ \A t \in Tx : resp[t] # 0 => ~err[t] /\ ~Unsent(t)

(* Every kind of step keeps the outcomes apart. *)
LEMMA OutcomeStep ==
    ASSUME TrafficInv, IdsNotReused, HeldOwn, CallsKnown, PathInv, PathInv', Onward, OutcomeInv, FlowStep
    PROVE  OutcomeInv'
<1>0. 0 \notin Tx
  BY DEF Tx
<1>t. /\ resp \in [Tx -> Tx \cup {0, Garbage}] /\ err \in [Tx -> BOOLEAN] /\ whold \in [Gen -> Tx \cup {0}]
      /\ rhold \in [Gen -> [tx : Tx \cup {0}, res : Tx \cup {0, Garbage}, then : {"top", "exit"}]]
  BY Zenon DEF TrafficInv, FlowInv, FlowTypes, LoopInv
<1>s. /\ poolOf \in [Gen -> 1..MaxPool] /\ mine \in [Sender -> Tx \cup {0}]
      /\ \A p \in 1..MaxPool : \A i \in ID : pool[p].txs[i] \in Tx \cup {0}
  BY Zenon DEF TrafficInv, ConnInv, Shape, Pool
<1>n. \A t \in Tx : /\ Fresh(t)' => Fresh(t)
                    /\ ~Fresh(t) => /\ Unsent(t)' => Unsent(t)
                                    /\ Unsent(t)' \/ Sent(t)' => Unsent(t) \/ Sent(t)
  BY Zenon DEF Onward
<1>f. \A t \in Tx : Fresh(t) => resp[t] = 0 /\ ~err[t] /\ ~Held(t) /\ \A p \in 1..MaxPool : ~InPool(p, t)
  BY Zenon DEF OutcomeInv
<1>u. \A p, q \in 1..MaxPool : \A i, j \in ID :
          pool[p].txs[i] = pool[q].txs[j] /\ pool[p].txs[i] # 0 => p = q /\ i = j
  BY Zenon DEF OutcomeInv
<1>p. \A p \in 1..MaxPool : \A t \in Tx :
          InPool(p, t) => resp[t] = 0 /\ ~Held(t) /\ (Unsent(t) \/ Sent(t) => ~err[t])
  BY Zenon DEF OutcomeInv
<1>d. \A g, h \in Gen : rhold[g].tx # 0 /\ rhold[h].tx = rhold[g].tx => h = g
  BY Zenon DEF OutcomeInv
<1>h. \A g \in Gen : \A t \in Tx : rhold[g].tx = t =>
          resp[t] = 0 /\ (rhold[g].res # 0 => ~err[t] /\ ~Unsent(t))
  BY Zenon DEF OutcomeInv
<1>r. \A t \in Tx : resp[t] # 0 => ~err[t] /\ ~Unsent(t)
  BY Zenon DEF OutcomeInv
<1>1. CASE /\ UNCHANGED <<rhold, resp, err>>
           /\ \A q \in 1..MaxPool : \A j \in ID : pool'[q].txs[j] \in {0, pool[q].txs[j]}
  <2>1. \A t \in Tx : (Held(t)' <=> Held(t)) /\ \A p \in 1..MaxPool : InPool(p, t)' => InPool(p, t)
    BY <1>0, <1>1, Zenon DEF Held, InPool
  <2>2. \A p, q \in 1..MaxPool : \A i, j \in ID :
          pool'[p].txs[i] = pool'[q].txs[j] /\ pool'[p].txs[i] # 0 => p = q /\ i = j
    BY <1>1, <1>u
  <2>3. \A t \in Tx : Fresh(t)' => resp'[t] = 0 /\ ~err'[t] /\ ~Held(t)' /\ \A p \in 1..MaxPool : ~InPool(p, t)'
    BY <1>1, <2>1, <1>f, <1>n, Zenon
  <2>4. \A p \in 1..MaxPool : \A t \in Tx :
          InPool(p, t)' => resp'[t] = 0 /\ ~Held(t)' /\ (Unsent(t)' \/ Sent(t)' => ~err'[t])
    BY <1>1, <2>1, <1>f, <1>n, <1>p, Zenon
  <2>5. \A g \in Gen : \A t \in Tx : rhold[g].tx = t => ~Fresh(t)
    BY <1>f, Zenon DEF Held
  <2>6. \A g \in Gen : \A t \in Tx : rhold'[g].tx = t =>
          resp'[t] = 0 /\ (rhold'[g].res # 0 => ~err'[t] /\ ~Unsent(t)')
    BY <1>1, <2>5, <1>n, <1>h, Zenon
  <2>7. \A t \in Tx : resp'[t] # 0 => ~err'[t] /\ ~Unsent(t)'
    BY <1>1, <1>f, <1>n, <1>r, Zenon
  <2> QED
    BY <1>1, <2>2, <2>3, <2>4, <2>6, <2>7, <1>d, Zenon DEF OutcomeInv
<1>2. CASE Quiet \/ Moves
  BY <1>1, <1>2, Zenon DEF Quiet, Moves, flowVars, outVars
<1>3. ASSUME NEW p \in 1..MaxPool, NEW S \in SUBSET Tx, Cancels(p, S) PROVE OutcomeInv'
  <2>1. /\ \A q \in 1..MaxPool : \A i \in ID :
              pool'[q].txs[i] = IF q = p /\ pool[q].txs[i] \in S THEN 0 ELSE pool[q].txs[i]
        /\ err' = [t \in Tx |-> err[t] \/ t \in S] /\ S \subseteq InFlight(pool[p])
        /\ UNCHANGED <<rhold, resp>>
    BY <1>3, Zenon DEF Cancels, flowVars
  <2>2. \A t \in Tx : err'[t] = (err[t] \/ t \in S)
    BY <2>1, Zenon
  <2>3. \A t \in S : InPool(p, t)
    BY <2>1, Zenon DEF InFlight, InPool
  <2>4. ASSUME NEW t \in Tx, NEW q \in 1..MaxPool, InPool(q, t)' PROVE InPool(q, t) /\ t \notin S
    <3>1. PICK i \in ID : pool'[q].txs[i] = t
      BY <2>4, Zenon DEF InPool
    <3>2. pool[q].txs[i] = t /\ (q = p => t \notin S)
      BY <2>1, <3>1, <1>0, Zenon
    <3>3. t \in S => q = p
      BY <2>3, <3>2, <1>u, <1>0 DEF InPool
    <3> QED
      BY <3>2, <3>3, Zenon DEF InPool
  <2>5. \A a, q \in 1..MaxPool : \A i, j \in ID :
          pool'[a].txs[i] = pool'[q].txs[j] /\ pool'[a].txs[i] # 0 => a = q /\ i = j
    <3>1. \A q \in 1..MaxPool : \A j \in ID : pool'[q].txs[j] \in {0, pool[q].txs[j]}
      BY <2>1, Zenon
    <3> QED
      BY <3>1, <1>u
  <2>6. \A t \in Tx : Held(t)' <=> Held(t)
    BY <2>1, Zenon DEF Held
  <2>7. \A t \in S : ~Fresh(t) /\ resp[t] = 0 /\ ~Held(t)
    BY <2>3, <1>f, <1>p, Zenon
  <2>8. \A t \in Tx : Fresh(t)' => resp'[t] = 0 /\ ~err'[t] /\ ~Held(t)' /\ \A q \in 1..MaxPool : ~InPool(q, t)'
    BY <2>1, <2>2, <2>4, <2>6, <2>7, <1>f, <1>n, Zenon
  <2>9. \A q \in 1..MaxPool : \A t \in Tx :
          InPool(q, t)' => resp'[t] = 0 /\ ~Held(t)' /\ (Unsent(t)' \/ Sent(t)' => ~err'[t])
    BY <2>1, <2>2, <2>4, <2>6, <1>f, <1>n, <1>p, Zenon
  <2>10. \A h \in Gen : \A t \in Tx : rhold[h].tx = t => Held(t) /\ ~Fresh(t)
    BY <1>f, Zenon DEF Held
  <2>11. \A h \in Gen : \A t \in Tx : rhold'[h].tx = t =>
          resp'[t] = 0 /\ (rhold'[h].res # 0 => ~err'[t] /\ ~Unsent(t)')
    BY <2>1, <2>2, <2>7, <2>10, <1>n, <1>h, Zenon
  <2>12. \A t \in Tx : resp'[t] # 0 => ~err'[t] /\ ~Unsent(t)'
    BY <2>1, <2>2, <2>7, <1>f, <1>n, <1>r, Zenon
  <2> QED
    BY <2>1, <2>5, <2>8, <2>9, <2>11, <2>12, <1>d, Zenon DEF OutcomeInv
<1>4. ASSUME NEW r \in Sender, CallStep(r) PROVE OutcomeInv'
  <2>1. CASE Begins(r) \/ Queues(r)
    BY <2>1, <1>1, Zenon DEF Begins, Queues, flowVars, outVars
  <2>2. CASE Returns(r)
    BY <2>2, <1>1, Zenon DEF Returns, flowVars, outVars
  <2>3. CASE GivesUp(r)
    BY <2>3, <1>1, Zenon DEF GivesUp, Frees, flowVars, outVars
  <2>4. ASSUME NEW p \in 1..MaxPool, NEW i \in ID, Places(r, p, i) PROVE OutcomeInv'
    <3>1. /\ at[r] = "snap" /\ at' = [at EXCEPT ![r] = "queue"]
          /\ \A q \in 1..MaxPool : \A j \in ID :
                pool'[q].txs[j] = IF q = p /\ j = i THEN mine[r] ELSE pool[q].txs[j]
          /\ UNCHANGED <<mine, rhold, resp, err>>
      BY <2>4, Zenon DEF Places, flowVars
    <3>2. PICK t0 \in Tx : t0 = mine[r]
      BY <3>1, Zenon DEF TrafficInv, ConnInv, Shape
    <3>3. Fresh(t0) /\ ~Fresh(t0)'
      <4>1. Fresh(t0)
        BY <3>1, <3>2, Zenon DEF Fresh
      <4>2. at'[r] = "queue" /\ mine'[r] = t0
        BY <3>1, <3>2, Zenon DEF TrafficInv, FlowInv, FlowTypes
      <4>3. Unsent(t0)'
        BY <4>2, Zenon DEF Unsent, AtCaller
      <4> QED
        BY <4>1, <4>3, Zenon DEF PathInv
    <3>4. resp[t0] = 0 /\ ~err[t0] /\ ~Held(t0) /\ \A q \in 1..MaxPool : \A j \in ID : pool[q].txs[j] # t0
      BY <3>3, <1>f, Zenon DEF InPool
    <3>5. \A q \in 1..MaxPool : \A t \in Tx : InPool(q, t)' => InPool(q, t) \/ t = t0
      BY <3>1, <3>2, Zenon DEF InPool
    <3>6. \A a, q \in 1..MaxPool : \A k, j \in ID :
            pool'[a].txs[k] = pool'[q].txs[j] /\ pool'[a].txs[k] # 0 => a = q /\ k = j
      BY <3>1, <3>2, <3>4, <1>u
    <3>7. \A t \in Tx : Held(t)' <=> Held(t)
      BY <3>1, Zenon DEF Held
    <3>8. \A t \in Tx : Fresh(t)' => resp'[t] = 0 /\ ~err'[t] /\ ~Held(t)' /\ \A q \in 1..MaxPool : ~InPool(q, t)'
      BY <3>1, <3>3, <3>5, <3>7, <1>f, <1>n, Zenon
    <3>9. \A q \in 1..MaxPool : \A t \in Tx :
            InPool(q, t)' => resp'[t] = 0 /\ ~Held(t)' /\ (Unsent(t)' \/ Sent(t)' => ~err'[t])
      BY <3>1, <3>4, <3>5, <3>7, <1>f, <1>n, <1>p, Zenon
    <3>10. \A h \in Gen : \A t \in Tx : rhold[h].tx = t => ~Fresh(t)
      BY <1>f, Zenon DEF Held
    <3>11. \A h \in Gen : \A t \in Tx : rhold'[h].tx = t =>
            resp'[t] = 0 /\ (rhold'[h].res # 0 => ~err'[t] /\ ~Unsent(t)')
      BY <3>1, <3>10, <1>n, <1>h, Zenon
    <3>12. \A t \in Tx : resp'[t] # 0 => ~err'[t] /\ ~Unsent(t)'
      BY <3>1, <1>f, <1>n, <1>r, Zenon
    <3> QED
      BY <3>1, <3>6, <3>8, <3>9, <3>11, <3>12, <1>d, Zenon DEF OutcomeInv
  <2> QED
    BY <1>4, <2>1, <2>2, <2>3, <2>4, Zenon DEF CallStep
<1>5. ASSUME NEW g \in Gen, WireStep(g) PROVE OutcomeInv'
  <2>1. CASE Takes(g) \/ Writes(g)
    BY <2>1, <1>1, Zenon DEF Takes, Writes, outVars
  <2>2. ASSUME NEW S \in SUBSET Tx, Drops(g, S) PROVE OutcomeInv'
    <3>1. /\ S \subseteq {whold[g]} \ {0} /\ whold' = [whold EXCEPT ![g] = 0]
          /\ err' = [t \in Tx |-> err[t] \/ t \in S]
          /\ UNCHANGED <<pool, queue, rhold, resp, at, mine, pending, stream>>
      BY <2>2, Zenon DEF Drops, callVars
    <3>2. \A t \in Tx : err'[t] = (err[t] \/ t \in S)
      BY <3>1, Zenon
    <3>3. ASSUME NEW t \in S PROVE Unsent(t) /\ ~Unsent(t)' /\ ~Sent(t)'
      <4>1. t = whold[g] /\ t # 0
        BY <3>1, Zenon
      <4>2. InLine(t)
        BY <4>1, Zenon DEF InLine
      <4>3. ~AtCaller(t) /\ ~Sent(t)
        BY <4>2, Zenon DEF PathInv, Unsent
      <4>4. \A h \in Gen : whold'[h] # t /\ t \notin Items(queue[h])
        BY <3>1, <4>1, <1>t, Zenon DEF PathInv
      <4>5. ~InLine(t)' /\ ~AtCaller(t)' /\ ~Sent(t)'
        BY <3>1, <4>3, <4>4, Zenon DEF InLine, AtCaller, Sent
      <4> QED
        BY <4>2, <4>5, Zenon DEF Unsent
    <3>4. \A t \in S : resp[t] = 0 /\ ~Fresh(t)
      BY <3>3, <1>r, Zenon DEF PathInv
    <3>5. \A t \in Tx : (Held(t)' <=> Held(t)) /\ \A q \in 1..MaxPool : InPool(q, t)' <=> InPool(q, t)
      BY <3>1, Zenon DEF Held, InPool
    <3>6. \A t \in Tx : Fresh(t)' => resp'[t] = 0 /\ ~err'[t] /\ ~Held(t)' /\ \A q \in 1..MaxPool : ~InPool(q, t)'
      BY <3>1, <3>2, <3>4, <3>5, <1>f, <1>n, Zenon
    <3>7. \A q \in 1..MaxPool : \A t \in Tx :
            InPool(q, t)' => resp'[t] = 0 /\ ~Held(t)' /\ (Unsent(t)' \/ Sent(t)' => ~err'[t])
      BY <3>1, <3>2, <3>3, <3>5, <1>f, <1>n, <1>p, Zenon
    <3>8. \A h \in Gen : \A t \in Tx : rhold[h].tx = t => ~Fresh(t)
      BY <1>f, Zenon DEF Held
    <3>9. \A h \in Gen : \A t \in Tx : rhold'[h].tx = t =>
            resp'[t] = 0 /\ (rhold'[h].res # 0 => ~err'[t] /\ ~Unsent(t)')
      BY <3>1, <3>2, <3>3, <3>8, <1>n, <1>h, Zenon
    <3>10. \A t \in Tx : resp'[t] # 0 => ~err'[t] /\ ~Unsent(t)'
      BY <3>1, <3>2, <3>4, <1>f, <1>n, <1>r, Zenon
    <3>11. /\ \A p, q \in 1..MaxPool : \A i, j \in ID :
                pool'[p].txs[i] = pool'[q].txs[j] /\ pool'[p].txs[i] # 0 => p = q /\ i = j
           /\ \A h, k \in Gen : rhold'[h].tx # 0 /\ rhold'[k].tx = rhold'[h].tx => k = h
      BY <3>1, <1>u, <1>d
    <3> QED
      BY <3>6, <3>7, <3>9, <3>10, <3>11, Zenon DEF OutcomeInv
  <2>3. ASSUME NEW id \in ID, NEW x \in Tx \cup {0, Garbage}, NEW then \in {"top", "exit"}, Reads(g, id, x, then)
        PROVE  OutcomeInv'
    <3>1. /\ rhold[g].tx = 0
          /\ \/ x = 0
             \/ \E f \in Items(stream[g]) : f.kind = "ok" /\ x = f.tx /\ id = txid[f.tx]
          /\ \A q \in 1..MaxPool : \A j \in ID :
                pool'[q].txs[j] = IF q = poolOf[g] /\ j = id THEN 0 ELSE pool[q].txs[j]
          /\ UNCHANGED <<resp, err>>
      BY <2>3, Zenon DEF Reads, Frees, outVars, HeldOwn
    <3>2. CASE pool[poolOf[g]].txs[id] = 0
      <4>1. rhold' = rhold
        BY <2>3, <3>2, Zenon DEF Reads
      <4> QED
        BY <3>1, <4>1, <1>1
    <3>3. CASE pool[poolOf[g]].txs[id] # 0
      <4>0. poolOf[g] \in 1..MaxPool
        BY <1>s, Zenon
      <4>1. PICK t0 \in Tx : t0 = pool[poolOf[g]].txs[id]
        BY <3>3, <1>s, Zenon
      <4>2. InPool(poolOf[g], t0) /\ t0 # 0
        BY <4>1, <1>0, Zenon DEF InPool
      <4>3. ~Fresh(t0) /\ resp[t0] = 0 /\ ~Held(t0) /\ (Unsent(t0) \/ Sent(t0) => ~err[t0])
        BY <4>0, <4>2, <1>f, <1>p, Zenon
      <4>4. rhold' = [rhold EXCEPT ![g] = [tx |-> t0, res |-> x, then |-> then]]
        BY <2>3, <3>3, <4>1, Zenon DEF Reads
      <4>5. /\ rhold'[g].tx = t0 /\ rhold'[g].res = x
            /\ \A h \in Gen : h # g => rhold'[h] = rhold[h]
        BY <4>4, <1>t, Zenon
      <4>6. x # 0 => ~err[t0] /\ ~Unsent(t0)
        <5> SUFFICES ASSUME x # 0 PROVE ~err[t0] /\ ~Unsent(t0)
          BY Zenon
        <5>1. PICK f \in Items(stream[g]) : x = f.tx /\ id = txid[f.tx]
          BY <3>1, Zenon
        <5>2. t0 = f.tx
          BY <4>1, <4>2, <5>1, Zenon DEF IdsNotReused, Entry
        <5>3. Sent(t0)
          BY <5>2, Zenon DEF Sent
        <5> QED
          BY <4>3, <5>3, Zenon DEF PathInv
      <4>7. ASSUME NEW q \in 1..MaxPool, NEW t \in Tx, InPool(q, t)' PROVE InPool(q, t) /\ t # t0
        <5>1. PICK j \in ID : pool'[q].txs[j] = t
          BY <4>7, Zenon DEF InPool
        <5>2. pool[q].txs[j] = t /\ ~(q = poolOf[g] /\ j = id)
          BY <3>1, <5>1, <1>0, Zenon
        <5>3. t # t0
          BY <4>0, <4>1, <4>2, <5>2, <1>u
        <5> QED
          BY <5>2, <5>3, Zenon DEF InPool
      <4>8. \A a, q \in 1..MaxPool : \A k, j \in ID :
              pool'[a].txs[k] = pool'[q].txs[j] /\ pool'[a].txs[k] # 0 => a = q /\ k = j
        <5>1. \A q \in 1..MaxPool : \A j \in ID : pool'[q].txs[j] \in {0, pool[q].txs[j]}
          BY <3>1
        <5> QED
          BY <5>1, <1>u
      <4>9. \A t \in Tx : Held(t)' => Held(t) \/ t = t0
        BY <4>5, Zenon DEF Held
      <4>10. \A t \in Tx : Fresh(t)' => resp'[t] = 0 /\ ~err'[t] /\ ~Held(t)' /\ \A q \in 1..MaxPool : ~InPool(q, t)'
        BY <3>1, <4>3, <4>7, <4>9, <1>f, <1>n, Zenon
      <4>11. \A q \in 1..MaxPool : \A t \in Tx :
              InPool(q, t)' => resp'[t] = 0 /\ ~Held(t)' /\ (Unsent(t)' \/ Sent(t)' => ~err'[t])
        BY <3>1, <4>7, <4>9, <1>f, <1>n, <1>p, Zenon
      <4>12. \A h, k \in Gen : rhold'[h].tx # 0 /\ rhold'[k].tx = rhold'[h].tx => k = h
        BY <4>3, <4>5, <1>d DEF Held
      <4>13. ASSUME NEW h \in Gen, NEW t \in Tx, rhold'[h].tx = t
             PROVE  resp'[t] = 0 /\ (rhold'[h].res # 0 => ~err'[t] /\ ~Unsent(t)')
        <5>1. CASE h = g
          BY <3>1, <4>3, <4>5, <4>6, <4>13, <5>1, <1>n, Zenon
        <5>2. CASE h # g
          <6>1. rhold[h].tx = t /\ rhold'[h].res = rhold[h].res
            BY <4>5, <4>13, <5>2, Zenon
          <6>2. ~Fresh(t)
            BY <6>1, <1>f, Zenon DEF Held
          <6> QED
            BY <3>1, <6>1, <6>2, <1>h, <1>n, Zenon
        <5> QED
          BY <5>1, <5>2, Zenon
      <4>14. \A t \in Tx : resp'[t] # 0 => ~err'[t] /\ ~Unsent(t)'
        BY <3>1, <1>f, <1>n, <1>r, Zenon
      <4> QED
        BY <4>8, <4>10, <4>11, <4>12, <4>13, <4>14, Zenon DEF OutcomeInv
    <3> QED
      BY <3>2, <3>3, Zenon
  <2>4. CASE Completes(g)
    <3>1. /\ rhold[g].tx # 0 /\ rhold' = [rhold EXCEPT ![g] = NoHold] /\ pool' = pool
      BY <2>4, Zenon DEF Completes
    <3>2. PICK t0 \in Tx : t0 = rhold[g].tx
      BY <3>1, <1>t, Zenon
    <3>3. Held(t0) /\ resp[t0] = 0 /\ ~Fresh(t0) /\ \A q \in 1..MaxPool : ~InPool(q, t0)
      BY <3>2, <1>f, <1>h, <1>p, Zenon DEF Held
    <3>4. \A h \in Gen : rhold'[h] = IF h = g THEN NoHold ELSE rhold[h]
      BY <3>1, <1>t, Zenon
    <3>5. \A t \in Tx : t # t0 => err'[t] = err[t] /\ resp'[t] = resp[t]
      BY <2>4, <3>2, <1>t DEF Completes
    <3>6. \A t \in Tx : Held(t)' => Held(t) /\ t # t0
      <4>1. \A h \in Gen : \A t \in Tx : rhold'[h].tx = t => h # g /\ rhold[h].tx = t
        BY <3>4, <1>0 DEF NoHold
      <4>2. \A h \in Gen : h # g => rhold[h].tx # t0
        BY <3>1, <3>2, <1>d, Zenon
      <4> QED
        BY <4>1, <4>2, Zenon DEF Held
    <3>7. \A t \in Tx : \A q \in 1..MaxPool : InPool(q, t)' <=> InPool(q, t)
      BY <3>1, Zenon DEF InPool
    <3>8. \A t \in Tx : Fresh(t)' => resp'[t] = 0 /\ ~err'[t] /\ ~Held(t)' /\ \A q \in 1..MaxPool : ~InPool(q, t)'
      BY <3>3, <3>5, <3>6, <3>7, <1>f, <1>n
    <3>9. \A q \in 1..MaxPool : \A t \in Tx :
            InPool(q, t)' => resp'[t] = 0 /\ ~Held(t)' /\ (Unsent(t)' \/ Sent(t)' => ~err'[t])
      BY <3>3, <3>5, <3>6, <3>7, <1>f, <1>n, <1>p, Zenon
    <3>10. /\ \A p, q \in 1..MaxPool : \A i, j \in ID :
                pool'[p].txs[i] = pool'[q].txs[j] /\ pool'[p].txs[i] # 0 => p = q /\ i = j
           /\ \A h, k \in Gen : rhold'[h].tx # 0 /\ rhold'[k].tx = rhold'[h].tx => k = h
      BY <3>1, <3>4, <1>u, <1>d DEF NoHold
    <3>11. ASSUME NEW h \in Gen, NEW t \in Tx, rhold'[h].tx = t
           PROVE  resp'[t] = 0 /\ (rhold'[h].res # 0 => ~err'[t] /\ ~Unsent(t)')
      <4>1. rhold'[h] = rhold[h]
        BY <3>4, <3>11, <1>0 DEF NoHold
      <4>2. t # t0
        BY <3>6, <3>11, Zenon DEF Held
      <4>3. ~Fresh(t)
        BY <4>1, <3>11, <1>f, Zenon DEF Held
      <4> QED
        BY <3>5, <3>11, <4>1, <4>2, <4>3, <1>h, <1>n
    <3>12. ASSUME NEW t \in Tx, resp'[t] # 0 PROVE ~err'[t] /\ ~Unsent(t)'
      <4>1. CASE t # t0
        BY <3>5, <3>12, <4>1, <1>f, <1>n, <1>r, Zenon
      <4>2. CASE t = t0
        <5>1. rhold[g].res # 0 /\ err' = err
          BY <2>4, <3>2, <3>3, <3>12, <4>2, Zenon DEF Completes
        <5> QED
          BY <5>1, <3>2, <3>3, <4>2, <1>h, <1>n, Zenon
      <4> QED
        BY <4>1, <4>2, Zenon
    <3> QED
      BY <3>8, <3>9, <3>10, <3>11, <3>12, Zenon DEF OutcomeInv
  <2> QED
    BY <1>5, <2>1, <2>2, <2>3, <2>4, Zenon DEF WireStep
<1> QED
  BY <1>2, <1>3, <1>4, <1>5, Zenon DEF FlowStep

-----------------------------------------------------------------------------
(* The condition on IDs holds of a connection that makes no more calls than    *)
(* there are IDs: every pool numbers its transactions upwards and what is in it *)
(* or on its way under it has a number given out before.                        *)
Placed == {t \in Tx : txid[t] # -1}

OnWay(g, t) ==
    \/ t \in Items(queue[g]) \/ t = whold[g] \/ t \in pending[g]
    \/ \E f \in Items(stream[g]) : f.tx = t
    \/ \E s \in Sender : at[s] = "queue" /\ mine[s] = t /\ snap[s] = g

NumberedTo(p, n) ==
    /\ n <= Cardinality(Placed) /\ pool[p].nextID = n % NIds
    /\ \A i \in ID : pool[p].txs[i] # 0 => i < n
    /\ \A g \in Gen : \A t \in Tx : poolOf[g] = p /\ OnWay(g, t) => txid[t] < n

NumInv ==
    /\ \A t \in Tx : Fresh(t) => txid[t] = -1
    /\ \A p \in 1..MaxPool : \E n \in Nat : NumberedTo(p, n)
    /\ \A g \in Gen : \A t \in Tx : OnWay(g, t) => Entry(g, t) \in {0, t}

(* What is on its way has an ID, in a generation that was started. *)
LEMMA OnWayIds ==
    ASSUME TrafficInv, NEW g \in Gen, NEW t \in Tx, OnWay(g, t)
    PROVE  txid[t] \in ID /\ g \in 0..gen
<1>0. t # 0
  BY DEF Tx
<1>1. txid[t] \in ID
  BY <1>0, Zenon DEF TrafficInv, FlowInv, Carried, OnWay
<1>2. ~(g > gen)
  <2> SUFFICES ASSUME g > gen PROVE FALSE
    BY Zenon
  <2>1. queue[g] = <<>> /\ pending[g] = {} /\ stream[g] = <<>> /\ whold[g] = 0
    BY Zenon DEF TrafficInv, FlowInv, FlowTies, LoopInv
  <2>2. Items(queue[g]) = {} /\ Items(stream[g]) = {}
    BY <2>1 DEF Items
  <2>3. PICK s \in Sender : at[s] = "queue" /\ snap[s] = g
    BY <2>1, <2>2, <1>0, Zenon DEF OnWay
  <2>4. g \in 1..gen
    BY <2>3, Zenon DEF TrafficInv, FlowInv, FlowTies
  <2> QED
    BY <2>4 DEF TrafficInv, ConnInv, Shape
<1>3. g \in Nat /\ gen \in Nat
  BY ConnAssumption DEF TrafficInv, ConnInv, Shape, Gen
<1> QED
  BY <1>1, <1>2, <1>3

(* With numbers given upwards, no ID in use is given out again. *)
LEMMA NumIds ==
    ASSUME TrafficInv, NumInv
    PROVE  IdsNotReused
<1>1. ASSUME NEW s \in Sender, at[s] = "queue" PROVE Entry(snap[s], mine[s]) \in {0, mine[s]}
  <2>1. mine[s] \in Tx /\ snap[s] \in Gen
    BY <1>1, Zenon DEF TrafficInv, ConnInv, Shape, FlowInv, FlowTies
  <2>2. OnWay(snap[s], mine[s])
    BY <1>1, Zenon DEF OnWay
  <2> QED
    BY <2>1, <2>2, Zenon DEF NumInv
<1>2. ASSUME NEW g \in Gen, NEW f \in Items(stream[g]) PROVE Entry(g, f.tx) \in {0, f.tx}
  <2>1. f \in Frame
    BY ItemsOf, Zenon DEF TrafficInv, FlowInv, FlowTypes
  <2>2. f.tx \in Tx /\ OnWay(g, f.tx)
    BY <2>1, Zenon DEF Frame, OnWay
  <2> QED
    BY <2>2, Zenon DEF NumInv
<1> QED
  BY <1>1, <1>2, Zenon DEF IdsNotReused

(* A step that gives out no number. *)
NoNumber ==
    /\ txid' = txid
    /\ \A g \in Gen : \A t \in Tx : OnWay(g, t)' => OnWay(g, t) /\ poolOf'[g] = poolOf[g]
    /\ \A q \in 1..MaxPool : pool'[q].nextID = pool[q].nextID
    /\ \A q \in 1..MaxPool : \A j \in ID : pool'[q].txs[j] \in {0, pool[q].txs[j]}

(* A step that gives out no number keeps the numbering. *)
LEMMA NoNumberKept ==
    ASSUME TrafficInv, NumInv, Onward, NoNumber
    PROVE  NumInv'
<1>t. txid \in [Tx -> ID \cup {-1}] /\ poolOf \in [Gen -> 1..MaxPool]
  BY Zenon DEF TrafficInv, FlowInv, FlowTypes, ConnInv, Shape
<1>1. \A t \in Tx : Fresh(t)' => txid'[t] = -1
  BY Zenon DEF NumInv, Onward, NoNumber
<1>2. ASSUME NEW p \in 1..MaxPool PROVE \E n \in Nat : NumberedTo(p, n)'
  <2>1. PICK n \in Nat : NumberedTo(p, n)
    BY Zenon DEF NumInv
  <2>2. Placed' = Placed
    BY Zenon DEF NoNumber, Placed
  <2>3. NumberedTo(p, n)'
    BY <2>1, <2>2, Zenon DEF NumberedTo, NoNumber
  <2> QED
    BY <2>3, Zenon
<1>3. ASSUME NEW g \in Gen, NEW t \in Tx, OnWay(g, t)' PROVE Entry(g, t)' \in {0, t}
  <2>1. OnWay(g, t) /\ poolOf'[g] = poolOf[g] /\ txid'[t] = txid[t]
    BY <1>3, Zenon DEF NoNumber
  <2>2. pool[poolOf[g]].txs[txid[t]] \in {0, t}
    BY <2>1, Zenon DEF NumInv, Entry
  <2>3. txid[t] \in ID
    BY <2>1, OnWayIds, Zenon
  <2>4. pool'[poolOf[g]].txs[txid[t]] \in {0, pool[poolOf[g]].txs[txid[t]]}
    BY <2>3, <1>t, Zenon DEF NoNumber
  <2> QED
    BY <2>1, <2>2, <2>4, Zenon DEF Entry
<1> QED
  BY <1>1, <1>2, <1>3, Zenon DEF NumInv

(* Placing takes the next number as long as there is one. *)
RoomLeft ==
    /\ Cardinality(Placed) \in Nat
    /\ \A t \in Tx \ Placed : Cardinality(Placed \cup {t}) = Cardinality(Placed) + 1
    /\ \A p \in 1..MaxPool : \A n \in Nat : NumberedTo(p, n) /\ Placed # Tx =>
        /\ FreeAttempts(pool[p]) # {} /\ PlaceID(pool[p]) = n
        /\ Candidate(pool[p], FirstFree(pool[p]) + 1) = (n + 1) % NIds

(* What happens on a connection with numbers left keeps the numbering. *)
LEMMA NumStep ==
    ASSUME RoomLeft, TrafficInv, TrafficInv', CallsKnown, PathInv, PathInv', Onward, NumInv, FlowStep
    PROVE  NumInv'
<1>0. 0 \notin Tx
  BY DEF Tx
<1>s. /\ mine \in [Sender -> Tx \cup {0}] /\ snap \in [Sender -> Gen] /\ poolOf \in [Gen -> 1..MaxPool]
      /\ gen \in Gen
  BY Zenon DEF TrafficInv, ConnInv, Shape
<1>t. /\ at \in [Sender -> {"idle", "snap", "queue", "await"}]
      /\ queue \in [Gen -> Seq(Tx)] /\ pending \in [Gen -> SUBSET Tx] /\ whold \in [Gen -> Tx \cup {0}]
      /\ txid \in [Tx -> ID \cup {-1}]
  BY Zenon DEF TrafficInv, FlowInv, FlowTypes, LoopInv
<1>1. ASSUME txid' = txid, poolOf' = poolOf,
             \A q \in 1..MaxPool : pool'[q].nextID = pool[q].nextID,
             \A q \in 1..MaxPool : \A j \in ID : pool'[q].txs[j] \in {0, pool[q].txs[j]},
             \A g \in Gen : \A t \in Tx : OnWay(g, t)' => OnWay(g, t)
      PROVE  NumInv'
  <2>1. NoNumber
    BY <1>1, Zenon DEF NoNumber
  <2> QED
    BY <2>1, NoNumberKept, Zenon
<1>2. CASE Quiet
  BY <1>1, <1>2, Zenon DEF Quiet, flowVars, callVars, outVars, OnWay
<1>3. CASE Moves
  <2>1. \A g \in Gen : \A t \in Tx : OnWay(g, t)' => OnWay(g, t)
    BY <1>3 DEF Moves, callVars, OnWay
  <2> QED
    BY <1>1, <1>3, <2>1, Zenon DEF Moves, outVars
<1>4. ASSUME NEW p \in 1..MaxPool, NEW S \in SUBSET Tx, Cancels(p, S) PROVE NumInv'
  <2>1. ASSUME NEW g \in Gen, NEW t \in Tx, OnWay(g, t)' PROVE OnWay(g, t) /\ poolOf'[g] = poolOf[g]
    <3>1. OnWay(g, t)
      BY <1>4, <2>1, Zenon DEF Cancels, flowVars, callVars, OnWay
    <3> QED
      BY <3>1, <1>4, OnWayIds, Zenon DEF Cancels
  <2>2. NoNumber
    BY <1>4, <2>1, Zenon DEF Cancels, NoNumber
  <2> QED
    BY <2>2, NoNumberKept, Zenon
<1>5. ASSUME NEW r \in Sender, CallStep(r) PROVE NumInv'
  <2>1. CASE Begins(r)
    <3>1. \A g \in Gen : \A t \in Tx : OnWay(g, t)' => OnWay(g, t)
      BY <2>1, <1>s, <1>t, Zenon DEF Begins, flowVars, OnWay
    <3> QED
      BY <1>1, <2>1, <3>1, Zenon DEF Begins, outVars
  <2>2. CASE Returns(r)
    <3>1. \A g \in Gen : \A t \in Tx : OnWay(g, t)' => OnWay(g, t)
      BY <2>2, <1>s, <1>t, Zenon DEF Returns, SendDone, flowVars, OnWay
    <3>2. ASSUME NEW q \in 1..MaxPool PROVE pool'[q].nextID = pool[q].nextID
      <4>1. PICK n \in Nat : NumberedTo(q, n)
        BY Zenon DEF NumInv
      <4>2. ASSUME at[r] = "snap" PROVE FreeAttempts(pool[q]) # {}
        <5>1. PICK t \in Tx : t = mine[r]
          BY <4>2, Zenon DEF TrafficInv, ConnInv, Shape
        <5>2. txid[t] = -1
          BY <4>2, <5>1, Zenon DEF NumInv, Fresh
        <5>3. Placed # Tx
          BY <5>2, Zenon DEF Placed
        <5> QED
          BY <4>1, <5>3, Zenon DEF RoomLeft
      <4> QED
        BY <2>2, <4>2, Zenon DEF Returns
    <3> QED
      BY <1>1, <2>2, <3>1, <3>2, Zenon DEF Returns, outVars
  <2>3. CASE GivesUp(r)
    <3>1. \A g \in Gen : \A t \in Tx : OnWay(g, t)' => OnWay(g, t)
      BY <2>3, <1>s, <1>t, Zenon DEF GivesUp, SendDone, flowVars, OnWay
    <3> QED
      BY <1>1, <2>3, <3>1, Zenon DEF GivesUp, Frees, outVars
  <2>4. CASE Queues(r)
    <3>1. ASSUME NEW g \in Gen, NEW t \in Tx, OnWay(g, t)' PROVE OnWay(g, t)
      <4>1. /\ at[r] = "queue" /\ at' = [at EXCEPT ![r] = "await"]
            /\ queue' = [queue EXCEPT ![snap[r]] = Append(queue[snap[r]], mine[r])]
            /\ UNCHANGED <<mine, snap, whold, pending, stream>>
        BY <2>4, Zenon DEF Queues
      <4>2. mine[r] \in Tx
        BY <4>1, <1>s, Zenon DEF TrafficInv, FlowInv, FlowTies
      <4>3. t \in Items(queue'[g]) => t \in Items(queue[g]) \/ (g = snap[r] /\ t = mine[r])
        <5>1. queue'[g] = IF g = snap[r] THEN Append(queue[g], mine[r]) ELSE queue[g]
          BY <4>1, <1>s, <1>t, Zenon
        <5>2. Items(Append(queue[g], mine[r])) = Items(queue[g]) \cup {mine[r]}
          BY <4>2, <1>t, ItemsOf, Zenon
        <5> QED
          BY <5>1, <5>2, Zenon
      <4>4. g = snap[r] /\ t = mine[r] => OnWay(g, t)
        BY <4>1, Zenon DEF OnWay
      <4> QED
        BY <3>1, <4>1, <4>3, <4>4, <1>t, Zenon DEF OnWay
    <3> QED
      BY <1>1, <2>4, <3>1, Zenon DEF Queues, outVars
  <2>5. ASSUME NEW p \in 1..MaxPool, NEW i \in ID, Places(r, p, i) PROVE NumInv'
    <3>1. /\ at[r] = "snap" /\ p = poolOf[snap[r]] /\ i = PlaceID(pool[p])
          /\ \A q \in 1..MaxPool : \A j \in ID :
                pool'[q].txs[j] = IF q = p /\ j = i THEN mine[r] ELSE pool[q].txs[j]
          /\ \A q \in 1..MaxPool :
                pool'[q].nextID = IF q = p THEN Candidate(pool[p], FirstFree(pool[p]) + 1) ELSE pool[q].nextID
          /\ txid' = [txid EXCEPT ![mine[r]] = i] /\ at' = [at EXCEPT ![r] = "queue"]
          /\ UNCHANGED <<poolOf, mine, snap, queue, whold, pending, stream>>
      BY <2>5, Zenon DEF Places, flowVars
    <3>2. PICK t0 \in Tx : t0 = mine[r]
      BY <3>1, Zenon DEF TrafficInv, ConnInv, Shape
    <3>3. Fresh(t0) /\ txid[t0] = -1
      BY <3>1, <3>2, Zenon DEF Fresh, NumInv
    <3>4. ~Fresh(t0)'
      <4>1. at'[r] = "queue" /\ mine'[r] = t0
        BY <3>1, <3>2, <1>t, Zenon
      <4>2. Unsent(t0)'
        BY <4>1, Zenon DEF Unsent, AtCaller
      <4> QED
        BY <4>2, Zenon DEF PathInv
    <3>5. \A g \in Gen : ~OnWay(g, t0)
      <4>1. ~Unsent(t0) /\ ~Sent(t0)
        BY <3>3, Zenon DEF PathInv
      <4> QED
        BY <4>1, Zenon DEF OnWay, Unsent, AtCaller, InLine, Sent
    <3>6. \A t \in Tx : txid'[t] = IF t = t0 THEN i ELSE txid[t]
      BY <3>1, <3>2, <1>t, Zenon
    <3>7. ASSUME NEW g \in Gen, NEW t \in Tx, OnWay(g, t)'
          PROVE  \/ OnWay(g, t) /\ t # t0 /\ txid'[t] = txid[t]
                 \/ g = snap[r] /\ t = t0 /\ txid'[t] = i
      <4>1. OnWay(g, t) \/ (g = snap[r] /\ t = t0)
        BY <3>1, <3>2, <3>7, <1>t, Zenon DEF OnWay
      <4> QED
        BY <4>1, <3>5, <3>6, Zenon
    <3>8. PICK n \in Nat : NumberedTo(p, n)
      BY Zenon DEF NumInv
    <3>9. i = n /\ pool'[p].nextID = (n + 1) % NIds
      <4>1. Placed # Tx
        BY <3>3, Zenon DEF Placed
      <4>2. PlaceID(pool[p]) = n /\ Candidate(pool[p], FirstFree(pool[p]) + 1) = (n + 1) % NIds
        BY <3>8, <4>1, Zenon DEF RoomLeft
      <4> QED
        BY <3>1, <4>2, Zenon
    <3>10. Cardinality(Placed') = Cardinality(Placed) + 1 /\ Cardinality(Placed) \in Nat
      <4>1. i # -1
        BY PoolAssumption DEF ID
      <4>2. Placed' = Placed \cup {t0} /\ t0 \notin Placed
        BY <3>3, <3>6, <4>1, Zenon DEF Placed
      <4> QED
        BY <4>2, Zenon DEF RoomLeft
    <3>11. \A t \in Tx : Fresh(t)' => txid'[t] = -1
      BY <3>4, <3>6, Zenon DEF NumInv, Onward
    <3>12. NumberedTo(p, n + 1)'
      <4>1. n + 1 <= Cardinality(Placed')
        BY <3>8, <3>10 DEF NumberedTo
      <4>2. \A j \in ID : pool'[p].txs[j] # 0 => j < n + 1
        <5>1. \A j \in ID : pool'[p].txs[j] # 0 => j = n \/ j < n
          BY <3>1, <3>8, <3>9, Zenon DEF NumberedTo
        <5> QED
          BY <5>1 DEF ID
      <4>3. ASSUME NEW g \in Gen, NEW t \in Tx, poolOf'[g] = p, OnWay(g, t)' PROVE txid'[t] < n + 1
        <5>1. txid'[t] = n \/ (txid'[t] = txid[t] /\ OnWay(g, t))
          BY <4>3, <3>7, <3>9, Zenon
        <5>2. OnWay(g, t) => txid[t] < n /\ txid[t] \in ID
          BY <4>3, <3>1, <3>8, OnWayIds, Zenon DEF NumberedTo
        <5> QED
          BY <5>1, <5>2, PoolAssumption DEF ID
      <4> QED
        BY <3>9, <4>1, <4>2, <4>3, Zenon DEF NumberedTo
    <3>13. ASSUME NEW q \in 1..MaxPool, q # p PROVE \E m \in Nat : NumberedTo(q, m)'
      <4>1. PICK m \in Nat : NumberedTo(q, m)
        BY Zenon DEF NumInv
      <4>2. m <= Cardinality(Placed') /\ pool'[q].nextID = m % NIds
        BY <3>1, <3>10, <3>13, <4>1 DEF NumberedTo
      <4>3. \A j \in ID : pool'[q].txs[j] # 0 => j < m
        BY <3>1, <3>13, <4>1, Zenon DEF NumberedTo
      <4>4. \A g \in Gen : \A t \in Tx : poolOf'[g] = q /\ OnWay(g, t)' => txid'[t] < m
        BY <3>1, <3>7, <3>13, <4>1, Zenon DEF NumberedTo
      <4> QED
        BY <4>2, <4>3, <4>4, Zenon DEF NumberedTo
    <3>14. ASSUME NEW g \in Gen, NEW t \in Tx, OnWay(g, t)' PROVE Entry(g, t)' \in {0, t}
      <4>1. CASE OnWay(g, t) /\ t # t0 /\ txid'[t] = txid[t]
        <5>1. txid[t] \in ID /\ pool[poolOf[g]].txs[txid[t]] \in {0, t}
          BY <4>1, OnWayIds, Zenon DEF NumInv, Entry
        <5>2. poolOf[g] = p => txid[t] # i
          <6>1. poolOf[g] = p => txid[t] < n
            BY <4>1, <3>8, Zenon DEF NumberedTo
          <6> QED
            BY <6>1, <3>9
        <5>3. pool'[poolOf[g]].txs[txid[t]] = pool[poolOf[g]].txs[txid[t]]
          BY <3>1, <5>1, <5>2, <1>s
        <5> QED
          BY <3>1, <4>1, <5>1, <5>3, Zenon DEF Entry
      <4>2. CASE g = snap[r] /\ t = t0 /\ txid'[t] = i
        <5>1. pool'[p].txs[i] = t0
          BY <3>1, <3>2, Zenon
        <5> QED
          BY <3>1, <4>2, <5>1, Zenon DEF Entry
      <4> QED
        BY <3>7, <3>14, <4>1, <4>2, Zenon
    <3>15. \A q \in 1..MaxPool : \E m \in Nat : NumberedTo(q, m)'
      <4>1. n + 1 \in Nat
        OBVIOUS
      <4> QED
        BY <3>12, <3>13, <4>1, Zenon
    <3> QED
      BY <3>11, <3>14, <3>15, Zenon DEF NumInv
  <2> QED
    BY <1>5, <2>1, <2>2, <2>3, <2>4, <2>5, Zenon DEF CallStep
<1>6. ASSUME NEW g \in Gen, WireStep(g) PROVE NumInv'
  <2>1. CASE Takes(g)
    <3>1. ASSUME NEW h \in Gen, NEW t \in Tx, OnWay(h, t)' PROVE OnWay(h, t)
      <4>1. /\ queue[g] # <<>> /\ whold' = [whold EXCEPT ![g] = Head(queue[g])]
            /\ queue' = [queue EXCEPT ![g] = Tail(queue[g])]
            /\ UNCHANGED <<at, mine, snap, pending, stream>>
        BY <2>1, Zenon DEF Takes, callVars
      <4>2. Head(queue[g]) \in Items(queue[g]) /\ Items(Tail(queue[g])) \subseteq Items(queue[g])
        BY <4>1, <1>t, ItemsOf, Zenon
      <4>3. /\ Items(queue'[h]) \subseteq Items(queue[h])
            /\ whold'[h] \in {whold[h]} \cup Items(queue[h])
        BY <4>1, <4>2, <1>t, Zenon
      <4> QED
        BY <3>1, <4>1, <4>3, Zenon DEF OnWay
    <3> QED
      BY <1>1, <2>1, <3>1, Zenon DEF Takes, outVars
  <2>2. ASSUME NEW S \in SUBSET Tx, Drops(g, S) PROVE NumInv'
    <3>1. \A h \in Gen : \A t \in Tx : OnWay(h, t)' => OnWay(h, t)
      BY <2>2, <1>t, <1>0, Zenon DEF Drops, callVars, OnWay
    <3> QED
      BY <1>1, <2>2, <3>1, Zenon DEF Drops
  <2>3. CASE Writes(g)
    <3>1. ASSUME NEW h \in Gen, NEW t \in Tx, OnWay(h, t)' PROVE OnWay(h, t)
      <4>1. /\ whold' = [whold EXCEPT ![g] = 0] /\ UNCHANGED <<at, mine, snap, queue, stream>>
            /\ pending' = pending \/ pending' = [pending EXCEPT ![g] = pending[g] \cup {whold[g]}]
        BY <2>3, Zenon DEF Writes, callVars
      <4>2. whold'[h] \in {0, whold[h]} /\ pending'[h] \subseteq pending[h] \cup {whold[h]}
        BY <4>1, <1>t, Zenon
      <4> QED
        BY <3>1, <4>1, <4>2, <1>0, Zenon DEF OnWay
    <3> QED
      BY <1>1, <2>3, <3>1, Zenon DEF Writes, outVars
  <2>4. ASSUME NEW id \in ID, NEW x \in Tx \cup {0, Garbage}, NEW then \in {"top", "exit"}, Reads(g, id, x, then)
        PROVE  NumInv'
    <3>1. \A h \in Gen : \A t \in Tx : OnWay(h, t)' => OnWay(h, t)
      BY <2>4, Zenon DEF Reads, callVars, OnWay
    <3> QED
      BY <1>1, <2>4, <3>1 DEF Reads, Frees, outVars
  <2>5. CASE Completes(g)
    BY <1>1, <2>5, Zenon DEF Completes, callVars, OnWay
  <2> QED
    BY <1>6, <2>1, <2>2, <2>3, <2>4, <2>5, Zenon DEF WireStep
<1> QED
  BY <1>2, <1>3, <1>4, <1>5, <1>6, Zenon DEF FlowStep
=============================================================================
