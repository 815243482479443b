--------------------------- MODULE TransactionPool ---------------------------
(***************************************************************************)
(* modbus/transaction.go: the in-flight map of one Modbus TCP connection,   *)
(* as operators on a pool value.  Every method runs under transactionsMu,   *)
(* so a method is one step of the module that uses it.  Transactions are    *)
(* positive numbers; 0 stands for "no entry".                               *)
(***************************************************************************)
EXTENDS Integers

CONSTANTS
    NIds,           \* size of the transaction ID space (65536 in the code)
    MaxIDAttempts,  \* IDs Place tries before it reports a full pool (16)
    MaxTx           \* bound: transactions ever created

ASSUME PoolAssumption ==
    /\ NIds \in Nat \ {0}
    /\ MaxIDAttempts \in Nat \ {0}
    /\ MaxTx \in Nat

ID == 0..(NIds - 1)
Tx == 1..MaxTx

Pool == [closed : BOOLEAN, nextID : ID, txs : [ID -> Tx \cup {0}]]

NoTxs == [i \in ID |-> 0]

NewTransactionPool == [closed |-> FALSE, nextID |-> 0, txs |-> NoTxs]

InFlight(p) == {p.txs[i] : i \in ID} \ {0}

(* The k-th candidate of Place: uint16(nextID + k); 2^16 divides 2^32, so the *)
(* wrap of the uint32 counter does not show.                                  *)
Candidate(p, k) == (p.nextID + k) % NIds

FreeAttempts(p) == {k \in 0..(MaxIDAttempts - 1) : p.txs[Candidate(p, k)] = 0}

FirstFree(p) == CHOOSE k \in FreeAttempts(p) : \A j \in FreeAttempts(p) : k <= j

PlaceID(p) == Candidate(p, FirstFree(p))

(* Place found a free ID: the transaction t is entered under it. *)
PlaceOK(p, t) ==
    [p EXCEPT !.nextID = Candidate(p, FirstFree(p) + 1), !.txs[PlaceID(p)] = t]

(* Place gave up; the candidates it tried are used up all the same. *)
PlaceFull(p) == [p EXCEPT !.nextID = Candidate(p, MaxIDAttempts)]

Release(p, i) == [p EXCEPT !.txs[i] = 0]

(* checkTimeouts removes the expired transactions S. *)
ReleaseAll(p, S) == [p EXCEPT !.txs = [i \in ID |-> IF @[i] \in S THEN 0 ELSE @[i]]]

(* Mutant of UnsafeReset: numbering starts over. *)
ResetNumbering(p) == [p EXCEPT !.txs = NoTxs, !.nextID = 0]

(* unsafeReset forgets every transaction and goes on numbering. *)
UnsafeReset(p) == [p EXCEPT !.txs = NoTxs]

ClosePool(p) == [p EXCEPT !.closed = TRUE, !.txs = NoTxs]
=============================================================================
