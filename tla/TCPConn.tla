------------------------------- MODULE TCPConn -------------------------------
(***************************************************************************)
(* modbus/conn.go: a pipelined Modbus TCP connection.  Goroutines call Send; *)
(* each connection generation has a read loop, a write loop, a done channel, *)
(* a bounded write channel and a transaction pool with a timeout monitor.    *)
(* Teardown runs under c.mutex, but its three effects (close(done),          *)
(* pool.Close, conn.Close) are seen one after the other by goroutines that   *)
(* do not take the mutex.  The device answers in any order, late or never.   *)
(***************************************************************************)
EXTENDS TransactionPool, Sequences, FiniteSets

CONSTANTS
    Sender,         \* goroutines calling Send
    MaxGen,         \* bound: successful Connects
    MaxPool,        \* bound: transaction pools created
    WriteChanCap,   \* capacity of writeChan (100 in the code)
    SlowFrames      \* may a frame arrive in pieces more than the read deadline apart?

ASSUME ConnAssumption ==
    /\ MaxGen \in Nat /\ MaxPool \in Nat \ {0}
    /\ WriteChanCap \in Nat \ {0}
    /\ SlowFrames \in BOOLEAN

Gen == 0..MaxGen        \* 0: the state NewTCPConn builds, before any Connect

Garbage == -1           \* a response parsed from an arbitrary offset

VARIABLES
    connected, gen, cur,    \* c.connected, c.gen, index of c.transactionPool
    tear,                   \* progress of unsafeTeardown; c.mutex is held unless "no"
    pool,                   \* the pools created, by index
    poolOf,                 \* pool handed to a generation's loops and senders
    done,                   \* done channel closed (and closeOnce fired)
    queue,                  \* writeChan
    sock,                   \* local end of the socket: "none", "open", "closed"
    peerGone,               \* the device closed the connection
    pending,                \* requests at the device, not answered
    stream,                 \* bytes from the device, as frames
    rd, rhold,              \* read loop: position, and what it is about to Complete
    wr, whold,              \* write loop: position, and the transaction it took
    at, mine, snap, expired,\* Send: position, call number, generation, ctx done
    calls,                  \* calls of Send so far; the n-th creates transaction n
    txid, resp, err, txdone,\* Transaction: ID, ResponseCh, ErrCh, ctx done
    fault                   \* generations given a reason to be torn down

connVars == <<connected, gen, cur, tear>>
sockVars == <<sock, peerGone, pending, stream>>
loopVars == <<rd, rhold, wr, whold>>
sendVars == <<at, mine, snap, expired, calls>>
txVars == <<txid, resp, err, txdone>>
vars == <<connVars, pool, poolOf, done, queue, sockVars, loopVars, sendVars, txVars, fault>>

Frame == [kind : {"ok", "bad", "tail"}, tx : Tx]
NoHold == [tx |-> 0, res |-> 0, then |-> "top"]

TypeOK ==
    /\ connected \in BOOLEAN /\ gen \in Gen /\ cur \in 1..MaxPool
    /\ tear \in {"no", "pool", "sock"}
    /\ pool \in [1..MaxPool -> Pool]
    /\ poolOf \in [Gen -> 1..MaxPool]
    /\ done \in [Gen -> BOOLEAN]
    /\ \A g \in Gen : queue[g] \in Seq(Tx) /\ Len(queue[g]) <= WriteChanCap
    /\ sock \in [Gen -> {"none", "open", "closed"}]
    /\ peerGone \in [Gen -> BOOLEAN]
    /\ pending \in [Gen -> SUBSET Tx]
    /\ \A g \in Gen : stream[g] \in Seq(Frame)
    /\ rd \in [Gen -> {"none", "top", "complete", "exit", "gone"}]
    /\ rhold \in [Gen -> [tx : Tx \cup {0}, res : Tx \cup {0, Garbage}, then : {"top", "exit"}]]
    /\ wr \in [Gen -> {"none", "select", "have", "ready", "exit", "gone"}]
    /\ whold \in [Gen -> Tx \cup {0}]
    /\ at \in [Sender -> {"idle", "snap", "queue", "await"}]
    /\ mine \in [Sender -> Tx \cup {0}] /\ snap \in [Sender -> Gen]
    /\ expired \in [Sender -> BOOLEAN] /\ calls \in 0..MaxTx
    /\ txid \in [Tx -> ID \cup {-1}]
    /\ resp \in [Tx -> Tx \cup {0, Garbage}]
    /\ err \in [Tx -> BOOLEAN] /\ txdone \in [Tx -> BOOLEAN]
    /\ fault \subseteq Gen

Init ==
    /\ connected = FALSE /\ gen = 0 /\ cur = 1 /\ tear = "no"
    /\ pool = [p \in 1..MaxPool |-> NewTransactionPool]
    /\ poolOf = [g \in Gen |-> 1]
    /\ done = [g \in Gen |-> FALSE]
    /\ queue = [g \in Gen |-> <<>>]
    /\ sock = [g \in Gen |-> "none"]
    /\ peerGone = [g \in Gen |-> FALSE]
    /\ pending = [g \in Gen |-> {}]
    /\ stream = [g \in Gen |-> <<>>]
    /\ rd = [g \in Gen |-> "none"] /\ rhold = [g \in Gen |-> NoHold]
    /\ wr = [g \in Gen |-> "none"] /\ whold = [g \in Gen |-> 0]
    /\ at = [s \in Sender |-> "idle"] /\ mine = [s \in Sender |-> 0]
    /\ snap = [s \in Sender |-> 0] /\ expired = [s \in Sender |-> FALSE]
    /\ calls = 0
    /\ txid = [t \in Tx |-> -1]
    /\ resp = [t \in Tx |-> 0]
    /\ err = [t \in Tx |-> FALSE] /\ txdone = [t \in Tx |-> FALSE]
    /\ fault = {}

-----------------------------------------------------------------------------
(* Transaction.Complete: a non-blocking send on a channel of capacity 1, then *)
(* the transaction's context is cancelled.                                    *)
CompleteErr(S) ==
    /\ err' = [t \in Tx |-> err[t] \/ t \in S]
    /\ txdone' = [t \in Tx |-> txdone[t] \/ t \in S]
    /\ UNCHANGED <<txid, resp>>

CompleteResp(t, r) ==
    /\ resp' = IF resp[t] = 0 THEN [resp EXCEPT ![t] = r] ELSE resp
    /\ txdone' = [txdone EXCEPT ![t] = TRUE]
    /\ UNCHANGED <<txid, err>>

MutexFree == tear = "no"

-----------------------------------------------------------------------------
(* connect: a closed pool is replaced, the constructor's is reset; then the   *)
(* dial, with the mutex held, succeeds or fails.                              *)
PoolForConnect == IF pool[cur].closed THEN cur + 1 ELSE cur

ConnectOK ==
    /\ MutexFree /\ ~connected
    /\ gen < MaxGen /\ PoolForConnect <= MaxPool
    /\ CompleteErr(InFlight(pool[PoolForConnect]))
    /\ cur' = PoolForConnect
    /\ pool' = [pool EXCEPT ![cur'] = UnsafeReset(@)]
    /\ gen' = gen + 1
    /\ connected' = TRUE
    /\ poolOf' = [poolOf EXCEPT ![gen'] = cur']
    /\ sock' = [sock EXCEPT ![gen'] = "open"]
    /\ rd' = [rd EXCEPT ![gen'] = "top"]
    /\ wr' = [wr EXCEPT ![gen'] = "select"]
    /\ UNCHANGED <<tear, done, queue, peerGone, pending, stream, rhold, whold, sendVars, fault>>

ConnectFail ==
    /\ MutexFree /\ ~connected
    /\ PoolForConnect <= MaxPool
    /\ CompleteErr(InFlight(pool[PoolForConnect]))
    /\ cur' = PoolForConnect
    /\ pool' = [pool EXCEPT ![cur'] = ClosePool(@)]
    /\ UNCHANGED <<connected, gen, tear, poolOf, done, queue, sockVars, loopVars, sendVars, fault>>

(* unsafeTeardown, first effect: closeOnce fires and done is closed. *)
BeginTeardown ==
    /\ connected' = FALSE
    /\ IF done[gen]
         THEN UNCHANGED <<done, tear>>
         ELSE done' = [done EXCEPT ![gen] = TRUE] /\ tear' = "pool"

(* Mutant of TeardownPool: the pool is emptied without cancelling its transactions. *)
TeardownPoolSilent ==
    /\ tear = "pool"
    /\ tear' = "sock"
    /\ pool' = [pool EXCEPT ![cur] = ClosePool(@)]
    /\ UNCHANGED <<connected, gen, cur, poolOf, done, queue, sockVars, loopVars, sendVars, txVars, fault>>

TeardownPool ==
    /\ tear = "pool"
    /\ tear' = "sock"
    /\ pool' = [pool EXCEPT ![cur] = ClosePool(@)]
    /\ CompleteErr(InFlight(pool[cur]))
    /\ UNCHANGED <<connected, gen, cur, poolOf, done, queue, sockVars, loopVars, sendVars, fault>>

(* conn.Close: what was still to be read, and to be answered, is lost. *)
TeardownSock ==
    /\ tear = "sock"
    /\ tear' = "no"
    /\ sock' = [sock EXCEPT ![gen] = IF @ = "open" THEN "closed" ELSE @]
    /\ pending' = [pending EXCEPT ![gen] = {}]
    /\ stream' = [stream EXCEPT ![gen] = <<>>]
    /\ UNCHANGED <<connected, gen, cur, pool, poolOf, done, queue, peerGone, loopVars, sendVars,
                   txVars, fault>>

Disconnect ==
    /\ MutexFree
    /\ BeginTeardown
    /\ fault' = fault \cup {gen}
    /\ UNCHANGED <<gen, cur, pool, poolOf, queue, sockVars, loopVars, sendVars, txVars>>

(* Mutants of SetDisconnected: only the flag is cleared; the generation of    *)
(* the caller is not compared.                                                *)
SetDisconnectedFlagOnly(g) ==
    /\ MutexFree
    /\ connected' = IF g # gen THEN connected ELSE FALSE
    /\ UNCHANGED <<done, tear>>

SetDisconnectedAnyGen(g) == MutexFree /\ BeginTeardown

(* setDisconnected(g), called by a loop of generation g on its way out.  The  *)
(* loops call it a second time from their defer; by then it changes nothing.  *)
SetDisconnected(g) ==
    /\ MutexFree
    /\ IF g # gen THEN UNCHANGED <<connected, done, tear>> ELSE BeginTeardown

ResetTransactions ==
    /\ MutexFree
    /\ CompleteErr(InFlight(pool[cur]))
    /\ pool' = [pool EXCEPT ![cur] = UnsafeReset(@)]
    /\ UNCHANGED <<connVars, poolOf, done, queue, sockVars, loopVars, sendVars, fault>>

(* Mutant of CheckTimeouts: expired transactions are released but not cancelled. *)
CheckTimeoutsSilent(p, S) ==
    /\ ~pool[p].closed
    /\ S \subseteq InFlight(pool[p])
    /\ pool' = [pool EXCEPT ![p] = ReleaseAll(@, S)]
    /\ UNCHANGED <<connVars, poolOf, done, queue, sockVars, loopVars, sendVars, txVars, fault>>

(* A tick of the timeout monitor of pool p that finds S older than the timeout. *)
CheckTimeouts(p, S) ==
    /\ ~pool[p].closed
    /\ S \subseteq InFlight(pool[p])
    /\ pool' = [pool EXCEPT ![p] = ReleaseAll(@, S)]
    /\ CompleteErr(S)
    /\ UNCHANGED <<connVars, poolOf, done, queue, sockVars, loopVars, sendVars, fault>>

-----------------------------------------------------------------------------
(* Send returns, and its local variables go away. *)
SendDone(s) ==
    /\ at' = [at EXCEPT ![s] = "idle"]
    /\ mine' = [mine EXCEPT ![s] = 0]
    /\ snap' = [snap EXCEPT ![s] = 0]
    /\ expired' = [expired EXCEPT ![s] = FALSE]

SendGoes(s, where) == at' = [at EXCEPT ![s] = where] /\ UNCHANGED <<mine, snap, expired>>

(* Send, first part: snapshot the generation under the mutex.  The call that  *)
(* finds no connection returns ErrNotConnected at once.                       *)
SendBegin(s) ==
    /\ at[s] = "idle"
    /\ MutexFree
    /\ calls < MaxTx
    /\ connected
    /\ calls' = calls + 1
    /\ mine' = [mine EXCEPT ![s] = calls']
    /\ snap' = [snap EXCEPT ![s] = gen]
    /\ at' = [at EXCEPT ![s] = "snap"]
    /\ UNCHANGED <<expired, connVars, pool, poolOf, done, queue, sockVars, loopVars, txVars, fault>>

(* pool.Place: refused by a closed pool and by a full one. *)
SendPlace(s) ==
    LET p == poolOf[snap[s]]
        t == mine[s]
    IN
    /\ at[s] = "snap"
    /\ \/ /\ ~pool[p].closed /\ FreeAttempts(pool[p]) # {}
          /\ pool' = [pool EXCEPT ![p] = PlaceOK(@, t)]
          /\ txid' = [txid EXCEPT ![t] = PlaceID(pool[p])]
          /\ SendGoes(s, "queue")
          /\ UNCHANGED <<resp, err, txdone>>
       \/ /\ ~pool[p].closed /\ FreeAttempts(pool[p]) = {}
          /\ pool' = [pool EXCEPT ![p] = PlaceFull(@)]
          /\ SendDone(s)
          /\ UNCHANGED txVars
       \/ /\ pool[p].closed
          /\ SendDone(s)
          /\ UNCHANGED <<pool, txVars>>
    /\ UNCHANGED <<connVars, poolOf, done, queue, sockVars, loopVars, calls, fault>>

(* First select: queue the transaction, or give up and release its ID. *)
SendQueue(s) ==
    LET g == snap[s] IN
    /\ at[s] = "queue"
    /\ \/ /\ Len(queue[g]) < WriteChanCap
          /\ queue' = [queue EXCEPT ![g] = Append(@, mine[s])]
          /\ SendGoes(s, "await")
          /\ UNCHANGED pool
       \/ /\ expired[s] \/ done[g]
          /\ pool' = [pool EXCEPT ![poolOf[g]] = Release(@, txid[mine[s]])]
          /\ SendDone(s)
          /\ UNCHANGED queue
    /\ UNCHANGED <<connVars, poolOf, done, sockVars, loopVars, calls, txVars, fault>>

(* Second select: a response, an error, or the caller's context; in the last  *)
(* case the transaction stays in the pool.                                    *)
SendReturn(s) ==
    /\ at[s] = "await"
    /\ resp[mine[s]] # 0 \/ err[mine[s]] \/ expired[s]
    /\ SendDone(s)
    /\ UNCHANGED <<connVars, pool, poolOf, done, queue, sockVars, loopVars, calls, txVars, fault>>

(* The caller's deadline passes, or the caller cancels; the transaction's     *)
(* context is a child of the caller's.  Before Place nothing looks at it.     *)
ContextDone(s) ==
    /\ at[s] \in {"queue", "await"}
    /\ ~expired[s]
    /\ expired' = [expired EXCEPT ![s] = TRUE]
    /\ txdone' = [txdone EXCEPT ![mine[s]] = TRUE]
    /\ UNCHANGED <<connVars, pool, poolOf, done, queue, sockVars, loopVars, at, mine, snap, calls,
                   txid, resp, err, fault>>

-----------------------------------------------------------------------------
ReadUnchanged == UNCHANGED <<connVars, poolOf, done, queue, sock, peerGone, pending, wr, whold, sendVars>>

ReadExit(g) == rd' = [rd EXCEPT ![g] = "exit"] /\ UNCHANGED rhold

(* Mutant of ReleaseForReader: the transaction is looked up and not removed. *)
GetForReader(g, id, r, then) ==
    LET t == pool[poolOf[g]].txs[id] IN
    /\ UNCHANGED pool
    /\ IF t = 0
         THEN rd' = [rd EXCEPT ![g] = then] /\ UNCHANGED rhold
         ELSE /\ rd' = [rd EXCEPT ![g] = "complete"]
              /\ rhold' = [rhold EXCEPT ![g] = [tx |-> t, res |-> r, then |-> then]]

(* pool.Release(id) by the read loop, which completes the transaction with r  *)
(* in its next step and then goes on at "then"; an unknown ID is skipped.     *)
ReleaseForReader(g, id, r, then) ==
    LET p == poolOf[g]
        t == pool[p].txs[id]
    IN
    /\ pool' = [pool EXCEPT ![p] = Release(@, id)]
    /\ IF t = 0
         THEN rd' = [rd EXCEPT ![g] = then] /\ UNCHANGED rhold
         ELSE /\ rd' = [rd EXCEPT ![g] = "complete"]
              /\ rhold' = [rhold EXCEPT ![g] = [tx |-> t, res |-> r, then |-> then]]

(* A frame read from its beginning: a valid one is a response, an invalid     *)
(* protocol ID or length fails its transaction and ends the loop.             *)
ReadFrame(g) ==
    /\ rd[g] = "top" /\ sock[g] = "open" /\ stream[g] # <<>>
    /\ LET f == Head(stream[g]) IN
         \/ f.kind = "ok" /\ ReleaseForReader(g, txid[f.tx], f.tx, "top") /\ UNCHANGED fault
         \/ f.kind = "bad" /\ ReleaseForReader(g, txid[f.tx], 0, "exit") /\ fault' = fault \cup {g}
    /\ stream' = [stream EXCEPT ![g] = Tail(@)]
    /\ ReadUnchanged /\ UNCHANGED txVars

(* The read deadline passes inside a frame: what was read of it is dropped    *)
(* and the loop starts over in the middle of the frame.                       *)
ReadTimeoutInFrame(g) ==
    /\ SlowFrames
    /\ rd[g] = "top" /\ sock[g] = "open" /\ stream[g] # <<>> /\ ~done[g]
    /\ Head(stream[g]).kind # "tail"
    /\ stream' = [stream EXCEPT ![g] = <<[kind |-> "tail", tx |-> Head(@).tx]>> \o Tail(@)]
    /\ ReadUnchanged /\ UNCHANGED <<pool, rd, rhold, txVars, fault>>

(* A header parsed from an arbitrary offset: it is rejected, or it looks      *)
(* valid, carries any ID, and its body swallows some of what follows.         *)
ReadMisframed(g) ==
    /\ rd[g] = "top" /\ sock[g] = "open" /\ stream[g] # <<>>
    /\ Head(stream[g]).kind = "tail"
    /\ \E id \in ID :
         \/ ReleaseForReader(g, id, 0, "exit") /\ fault' = fault \cup {g}
         \/ ReleaseForReader(g, id, Garbage, "top") /\ UNCHANGED fault
    /\ \E n \in 1..Len(stream[g]) : stream' = [stream EXCEPT ![g] = SubSeq(@, n + 1, Len(@))]
    /\ ReadUnchanged /\ UNCHANGED txVars

(* EOF inside a frame: in the header the loop just ends; in the body it fails *)
(* the transaction the header named first.                                    *)
ReadTruncated(g) ==
    /\ rd[g] = "top" /\ sock[g] = "open" /\ peerGone[g] /\ Len(stream[g]) = 1 /\ ~done[g]
    /\ \/ ReadExit(g) /\ UNCHANGED pool
       \/ ReleaseForReader(g, txid[Head(stream[g]).tx], 0, "exit")
    /\ stream' = [stream EXCEPT ![g] = <<>>]
    /\ ReadUnchanged /\ UNCHANGED <<txVars, fault>>

(* done is closed, or the read fails: end of stream, or a closed socket. *)
ReadEnd(g) ==
    /\ rd[g] = "top"
    /\ done[g] \/ sock[g] = "closed" \/ (peerGone[g] /\ stream[g] = <<>>)
    /\ ReadExit(g)
    /\ ReadUnchanged /\ UNCHANGED <<pool, stream, txVars, fault>>

ReadComplete(g) ==
    /\ rd[g] = "complete"
    /\ IF rhold[g].res = 0 THEN CompleteErr({rhold[g].tx}) ELSE CompleteResp(rhold[g].tx, rhold[g].res)
    /\ rd' = [rd EXCEPT ![g] = rhold[g].then]
    /\ rhold' = [rhold EXCEPT ![g] = NoHold]
    /\ ReadUnchanged /\ UNCHANGED <<pool, stream, fault>>

ReadGone(g) ==
    /\ rd[g] = "exit"
    /\ SetDisconnected(g)
    /\ rd' = [rd EXCEPT ![g] = "gone"]
    /\ UNCHANGED <<gen, cur, pool, poolOf, queue, sockVars, rhold, wr, whold, sendVars, txVars, fault>>

-----------------------------------------------------------------------------
WriteUnchanged == UNCHANGED <<connVars, pool, poolOf, done, sock, peerGone, stream, rd, rhold, sendVars, fault>>

WriteExit(g) == wr' = [wr EXCEPT ![g] = "exit"] /\ whold' = [whold EXCEPT ![g] = 0]

(* Mutant of WriteTake: the select does not listen on done. *)
WriteTakeOnly(g) ==
    /\ wr[g] = "select"
    /\ queue[g] # <<>>
    /\ whold' = [whold EXCEPT ![g] = Head(queue[g])]
    /\ queue' = [queue EXCEPT ![g] = Tail(@)]
    /\ wr' = [wr EXCEPT ![g] = "have"]
    /\ WriteUnchanged /\ UNCHANGED <<pending, txVars>>

(* The loop's select: the done channel, or the next queued transaction. *)
WriteTake(g) ==
    /\ wr[g] = "select"
    /\ \/ done[g] /\ WriteExit(g) /\ UNCHANGED queue
       \/ /\ queue[g] # <<>>
          /\ whold' = [whold EXCEPT ![g] = Head(queue[g])]
          /\ queue' = [queue EXCEPT ![g] = Tail(@)]
          /\ wr' = [wr EXCEPT ![g] = "have"]
    /\ WriteUnchanged /\ UNCHANGED <<pending, txVars>>

(* A cancelled transaction is skipped; a closed done channel fails it. *)
WriteCheck(g) ==
    LET t == whold[g] IN
    /\ wr[g] = "have"
    /\ \/ /\ txdone[t]
          /\ wr' = [wr EXCEPT ![g] = "select"]
          /\ whold' = [whold EXCEPT ![g] = 0]
          /\ UNCHANGED txVars
       \/ done[g] /\ CompleteErr({t}) /\ WriteExit(g)
       \/ ~txdone[t] /\ ~done[g] /\ wr' = [wr EXCEPT ![g] = "ready"] /\ UNCHANGED <<whold, txVars>>
    /\ WriteUnchanged /\ UNCHANGED <<queue, pending>>

(* writer.Write succeeded.  Bytes written to a connection the device has      *)
(* closed are lost.  Request.Encode, just before, cannot fail.                *)
WriteOK(g) ==
    /\ wr[g] = "ready" /\ sock[g] = "open"
    /\ pending' = IF peerGone[g] THEN pending ELSE [pending EXCEPT ![g] = @ \cup {whold[g]}]
    /\ wr' = [wr EXCEPT ![g] = "select"]
    /\ whold' = [whold EXCEPT ![g] = 0]
    /\ WriteUnchanged /\ UNCHANGED <<queue, txVars>>

(* done was seen closed before the write, or the write failed. *)
WriteFail(g) ==
    /\ wr[g] = "ready"
    /\ done[g] \/ peerGone[g] \/ sock[g] = "closed"
    /\ CompleteErr({whold[g]})
    /\ WriteExit(g)
    /\ WriteUnchanged /\ UNCHANGED <<queue, pending>>

WriteGone(g) ==
    /\ wr[g] = "exit"
    /\ SetDisconnected(g)
    /\ wr' = [wr EXCEPT ![g] = "gone"]
    /\ UNCHANGED <<gen, cur, pool, poolOf, queue, sockVars, rd, rhold, whold, sendVars, txVars, fault>>

-----------------------------------------------------------------------------
(* The device: answers a request, possibly with an invalid frame, or closes   *)
(* the connection.                                                            *)
DeviceAnswers(g, t) ==
    /\ sock[g] = "open" /\ ~peerGone[g] /\ t \in pending[g]
    /\ pending' = [pending EXCEPT ![g] = @ \ {t}]
    /\ \E k \in {"ok", "bad"} : stream' = [stream EXCEPT ![g] = Append(@, [kind |-> k, tx |-> t])]
    /\ UNCHANGED <<connVars, pool, poolOf, done, queue, sock, peerGone, loopVars, sendVars, txVars, fault>>

DeviceCloses(g) ==
    /\ sock[g] = "open" /\ ~peerGone[g]
    /\ peerGone' = [peerGone EXCEPT ![g] = TRUE]
    /\ fault' = fault \cup {g}
    /\ UNCHANGED <<connVars, pool, poolOf, done, queue, sock, pending, stream, loopVars, sendVars, txVars>>

-----------------------------------------------------------------------------
ReadLoop(g) ==
    \/ ReadFrame(g) \/ ReadMisframed(g) \/ ReadTruncated(g) \/ ReadEnd(g)
    \/ ReadComplete(g) \/ ReadGone(g)

WriteLoop(g) == WriteTake(g) \/ WriteCheck(g) \/ WriteFail(g) \/ WriteGone(g)

SendStep(s) == SendPlace(s) \/ SendQueue(s) \/ SendReturn(s)

Next ==
    \/ ConnectOK \/ ConnectFail \/ Disconnect \/ ResetTransactions
    \/ TeardownPool \/ TeardownSock
    \/ \E p \in 1..MaxPool : \E S \in SUBSET InFlight(pool[p]) \ {{}} : CheckTimeouts(p, S)
    \/ \E s \in Sender : SendBegin(s) \/ SendStep(s) \/ ContextDone(s)
    \/ \E g \in 1..gen : \/ ReadLoop(g) \/ ReadTimeoutInFrame(g)
                         \/ WriteLoop(g) \/ WriteOK(g)
                         \/ DeviceCloses(g)
                         \/ \E t \in pending[g] : DeviceAnswers(g, t)

Spec == Init /\ [][Next]_vars

(* The scheduler runs every goroutine that can run, the mutexes are           *)
(* starvation-free and the timeout monitor ticks.  Nothing is assumed of the  *)
(* device, of writer.Write (it has no deadline) or of the caller's context.   *)
Fairness ==
    /\ WF_vars(TeardownPool) /\ WF_vars(TeardownSock)
    /\ \A p \in 1..MaxPool, t \in Tx :
          WF_vars(\E S \in SUBSET InFlight(pool[p]) : t \in S /\ CheckTimeouts(p, S))
    /\ \A s \in Sender : SF_vars(SendStep(s))
    /\ \A g \in 1..MaxGen : SF_vars(ReadLoop(g)) /\ SF_vars(WriteLoop(g))

FairSpec == Spec /\ Fairness

-----------------------------------------------------------------------------
Answered(t) == resp[t] # 0 \/ err[t]

(* No Send waits in vain: a caller in the second select whose transaction has *)
(* no outcome yet is still known to somebody who will give it one, the open   *)
(* pool (response, timeout, reset, close) or the read loop between Release    *)
(* and Complete, whatever teardown, reset and reconnect are doing, as long as *)
(* the ID space has not wrapped around under a call still in the first select *)
(* (which releases its ID by number when it gives up).                        *)
NoOrphan ==
    \A s \in Sender : at[s] = "await" /\ ~Answered(mine[s]) =>
        \/ mine[s] \in InFlight(pool[poolOf[snap[s]]]) /\ ~pool[poolOf[snap[s]]].closed
        \/ \E g \in Gen : rd[g] = "complete" /\ rhold[g].tx = mine[s]

(* A response is delivered to the call whose request it answers, across       *)
(* abandoned calls, timeouts, ResetTransactions and reconnects, as long as    *)
(* the ID space has not wrapped around and frames arrive whole.               *)
Correlated == \A t \in Tx : resp[t] \in {0, t}

(* "Exactly one of response or err": the two channels of a transaction are    *)
(* never both filled, so the select in Send has one outcome to report.        *)
OneOutcome == \A t \in Tx : ~(resp[t] # 0 /\ err[t])

(* Teardown leaves nothing behind: once unsafeTeardown has finished for a     *)
(* generation, its pool is closed and empty and its socket is closed; and as  *)
(* long as the conn says it is connected none of it has begun.                *)
TeardownComplete ==
    \A g \in 1..gen :
        IF done[g]
          THEN (g = gen /\ tear # "no") \/
               (pool[poolOf[g]].closed /\ InFlight(pool[poolOf[g]]) = {} /\ sock[g] = "closed")
          ELSE g = gen /\ connected /\ ~pool[cur].closed /\ sock[g] = "open"

(* A connection is torn down only for a reason of its own (its peer closed    *)
(* it, it delivered an invalid frame, Disconnect was called on it): loops of  *)
(* an earlier generation that exit late never take down a newer connection.   *)
OnlyOwnFaults == \A g \in Gen : done[g] => g \in fault

(* Every Send that was queued returns, even if the device never answers and   *)
(* the caller's context has no deadline.                                      *)
AwaitEnds == \A s \in Sender : at[s] = "await" ~> at[s] = "idle"

(* Once a generation's done channel is closed, both of its loops end: no      *)
(* goroutine outlives its connection.                                         *)
LoopsExit == \A g \in 1..MaxGen : done[g] ~> (rd[g] = "gone" /\ wr[g] = "gone")
=============================================================================
