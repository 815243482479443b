----------------------------- MODULE ClusterPlan -----------------------------
(***************************************************************************)
(* monitor/cluster_plan.go: how registered points become block reads        *)
(* ("windows"), and how a point finds the window that serves it, with the   *)
(* uint16 arithmetic of the code; and the extraction of a point from a      *)
(* block (ClusterExtract of modbus/datapoint.go).                           *)
(*                                                                         *)
(* A point is [key, addr, qty].  What a read returns is abstracted to the   *)
(* addresses the data comes from, so a value has the shape of a point.      *)
(***************************************************************************)
EXTENDS Integers, SequencesExt

CONSTANTS
    AddrSpace,     \* number of addresses, 2^16 in the code
    KeyOrder,      \* the area keys in the order of sort.Strings
    GapThreshold,  \* ClusterConfig.GapThreshold
    MaxPerRead     \* MaxRegistersPerRead or MaxCoilsPerRead, by area key

ASSUME PlanAssumption ==
    /\ AddrSpace \in Nat \ {0}
    /\ GapThreshold \in 0..(AddrSpace - 1)
    /\ \A i \in DOMAIN KeyOrder : MaxPerRead[KeyOrder[i]] \in 1..(AddrSpace - 1)

Wrap(n) == n % AddrSpace

(* The exclusive end of a point or of a window, as a uint16. *)
End(p) == Wrap(p.addr + p.qty)

(* ClusterMerge: the block from start up to end. *)
Block(key, start, end) == [key |-> key, addr |-> start, qty |-> Wrap(end - start)]

(***************************************************************************)
(* One round of the merge pass.  acc.cur is the open window, with its end   *)
(* kept beside it; acc.closed the windows already flushed.                  *)
(***************************************************************************)
OpenWindow(p) == [key |-> p.key, start |-> p.addr, end |-> End(p)]

Flush(w) == Block(w.key, w.start, w.end)

Gap(w, p) == IF p.addr > w.end THEN p.addr - w.end ELSE 0

MergedCount(w, p) ==
    IF End(p) < w.start THEN Wrap(w.end - w.start) ELSE Wrap(End(p) - w.start)

CanMerge(w, p) ==
    /\ Gap(w, p) <= GapThreshold
    /\ MergedCount(w, p) <= MaxPerRead[w.key]

(* Mutant of MergePoint: the window's end becomes the end of the last point. *)
MergePointShrinks(acc, p) ==
    IF CanMerge(acc.cur, p)
    THEN [acc EXCEPT !.cur.end = End(p)]
    ELSE [closed |-> Append(acc.closed, Flush(acc.cur)), cur |-> OpenWindow(p)]

MergePoint(acc, p) ==
    IF CanMerge(acc.cur, p)
    THEN [acc EXCEPT !.cur.end = IF End(p) > @ THEN End(p) ELSE @]
    ELSE [closed |-> Append(acc.closed, Flush(acc.cur)), cur |-> OpenWindow(p)]

(* The windows of one area, its points given in ascending order of address. *)
AreaWindows(pts) ==
    IF pts = <<>> THEN <<>>
    ELSE LET acc == FoldLeft(MergePoint, [closed |-> <<>>, cur |-> OpenWindow(pts[1])],
                             Tail(pts))
         IN  Append(acc.closed, Flush(acc.cur))

Windows(pts) ==
    FoldLeft(LAMBDA ws, key : ws \o AreaWindows(SelectSeq(pts, LAMBDA p : p.key = key)),
             <<>>, KeyOrder)

(* sort.Slice is not stable: points with equal addresses come in any order. *)
AddressOrders(pts) ==
    LET n == Len(pts)
        Perms == {f \in [1..n -> 1..n] : \A i, j \in 1..n : f[i] = f[j] => i = j}
    IN  {s \in {[i \in 1..n |-> pts[f[i]]] : f \in Perms} :
            \A i \in 1..(n - 1) : s[i].addr <= s[i + 1].addr}

(* The plans buildWindows may return. *)
buildWindows(pts) == {Windows(s) : s \in AddressOrders(pts)}

(* The first window that covers p, or 0. *)
findWindow(windows, p) ==
    LET Covering == {i \in DOMAIN windows :
                        /\ windows[i].key = p.key
                        /\ p.addr >= windows[i].addr
                        /\ End(p) <= End(windows[i])}
    IN  IF Covering = {} THEN 0
        ELSE CHOOSE i \in Covering : \A j \in Covering : i <= j

OutOfRange == [panic |-> "index out of range"]

(* ClusterExtract: the part of the block val that lies where p lies in a      *)
(* block starting at clusterStart; outside the block the slice index panics.  *)
ClusterExtract(val, p, clusterStart) ==
    LET offset == Wrap(p.addr - clusterStart)
    IN  IF offset + p.qty > val.qty THEN OutOfRange
        ELSE [key |-> val.key, addr |-> Wrap(val.addr + offset), qty |-> p.qty]

(* The addresses of a point that does not run past the top. *)
Addresses(p) == p.addr .. (p.addr + p.qty - 1)

EndsBelowTop(p) == p.addr + p.qty < AddrSpace
=============================================================================
