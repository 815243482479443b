----------------------- MODULE ClusteringReaderProofs -----------------------
(***************************************************************************)
(* For any number of goroutines, points and replans: a Read that met no      *)
(* cache entry of another plan returns each point's own data.  A plan is     *)
(* made by a fold, about which nothing can be proved here: that it consists  *)
(* of blocks is a hypothesis, PlansAreBlocks, which TLC evaluates.           *)
(***************************************************************************)
EXTENDS ClusteringReader, WellFoundedInduction, TLAPS

(* Arithmetic modulo the address space. *)
LEMMA WrapInRange ==
    \A n \in Nat : Wrap(n) \in Nat /\ Wrap(n) <= n /\ (n < AddrSpace => Wrap(n) = n)
BY PlanAssumption DEF Wrap

(* A nonempty set of numbers has a least element. *)
LEMMA LeastIndex ==
    ASSUME NEW S \in SUBSET Nat, S # {}
    PROVE  \E k \in S : \A j \in S : k <= j
<1>1. PICK k \in S : \A j \in S : <<j, k>> \notin OpToRel(<, Nat)
  BY NatLessThanWellFounded, WFMin, Zenon
<1>2. \A j \in S : ~(j < k)
  BY <1>1, Zenon DEF OpToRel
<1> QED
  BY <1>2

(* findWindow returns 0 or a window that covers the point. *)
LEMMA FoundCovers ==
    ASSUME NEW ws, IsPlan(ws), NEW p, findWindow(ws, p) # 0
    PROVE  LET i == findWindow(ws, p)
           IN  /\ i \in DOMAIN ws /\ ws[i].key = p.key
               /\ p.addr >= ws[i].addr /\ End(p) <= End(ws[i])
<1> DEFINE Covering == {i \in DOMAIN ws : /\ ws[i].key = p.key
                                          /\ p.addr >= ws[i].addr
                                          /\ End(p) <= End(ws[i])}
<1>1. Covering \in SUBSET Nat
  BY Zenon DEF IsPlan
<1>2. Covering # {} /\ findWindow(ws, p) = CHOOSE i \in Covering : \A j \in Covering : i <= j
  BY Zenon DEF findWindow
<1> HIDE DEF Covering
<1>3. findWindow(ws, p) \in Covering
  BY <1>1, <1>2, LeastIndex, Zenon
<1> QED
  BY <1>3, Zenon DEF Covering

(* Cutting a covered point out of its window gives the point, provided its end *)
(* does not wrap around: the offset and the bound are computed in 16 bits.      *)
LEMMA ExtractIsOwn ==
    ASSUME NEW ws, IsPlan(ws), NEW p \in Point, findWindow(ws, p) # 0, EndsBelowTop(p)
    PROVE  LET i == findWindow(ws, p)
           IN  ClusterExtract(ws[i], p, ws[i].addr) = p
<1> DEFINE i == findWindow(ws, p)
           w == ws[i]
<1>1. i \in DOMAIN ws /\ w.key = p.key /\ p.addr >= w.addr /\ End(p) <= End(w)
  BY FoundCovers, Zenon
<1>2. w.addr \in Nat /\ w.qty \in Nat
  BY <1>1, Zenon DEF IsPlan
<1>3. /\ p = [key |-> p.key, addr |-> p.addr, qty |-> p.qty] /\ p.addr \in Nat /\ p.qty \in Nat
      /\ p.addr + p.qty < AddrSpace /\ AddrSpace \in Nat
  BY ReaderAssumption, PlanAssumption DEF EndsBelowTop
<1> HIDE DEF i, w
<1>4. End(p) = p.addr + p.qty /\ End(w) <= w.addr + w.qty /\ End(w) \in Nat
  BY <1>2, <1>3, WrapInRange DEF End
<1>5. Wrap(p.addr - w.addr) = p.addr - w.addr
  <2>1. p.addr - w.addr \in Nat /\ p.addr - w.addr < AddrSpace
    BY <1>1, <1>2, <1>3
  <2> QED
    BY <2>1, WrapInRange, Zenon
<1>6. (p.addr - w.addr) + p.qty <= w.qty
  BY <1>1, <1>2, <1>3, <1>4
<1>7. Wrap(w.addr + (p.addr - w.addr)) = p.addr
  <2>1. w.addr + (p.addr - w.addr) = p.addr /\ p.addr < AddrSpace
    BY <1>2, <1>3
  <2> QED
    BY <2>1, <1>3, WrapInRange, Zenon
<1>8. ClusterExtract(w, p, w.addr) = [key |-> w.key, addr |-> p.addr, qty |-> p.qty]
  <2>1. ~((p.addr - w.addr) + p.qty > w.qty)
    BY <1>6, <1>2, <1>3
  <2> QED
    BY <1>5, <1>7, <2>1, Zenon DEF ClusterExtract
<1> QED
  BY <1>1, <1>3, <1>8, Zenon DEF i, w

-----------------------------------------------------------------------------
(* The invariant.  H gives the plan of every generation so far; readers,     *)
(* flights and cache entries of a generation hold that plan and its windows.  *)

Outcomes(b) == {Pending, Failed, Answered(b)}

Fields == {"pc", "req", "direct", "plan", "gen", "needed", "cur", "got", "out", "foreign"}

(* A Read on its way, in a system whose plan has generation g. *)
InRead(q, H, g) ==
    /\ Fields \subseteq DOMAIN q
    /\ q.gen \in 0..g /\ q.plan = H[q.gen]
    /\ q.req \subseteq Point
    /\ \A p \in q.req \ q.direct : /\ findWindow(q.plan, p) # 0
                                   /\ findWindow(q.plan, p) \in q.needed \cup DOMAIN q.got
    /\ q.foreign \/ \A i \in DOMAIN q.got : q.got[i] = q.plan[i]
    /\ q.pc = "wait" => q.out \in Outcomes(q.plan[q.cur])
    /\ q.pc = "forget" => q.out \in {Failed, Answered(q.plan[q.cur])}

(* A Read that returned. *)
Returned(q) == q.foreign \/ \A p \in q.misread : ~EndsBelowTop(p)

ReadOK(q, H, g) == "pc" \in DOMAIN q /\ IF q.pc = "idle" THEN Returned(q) ELSE InRead(q, H, g)

Consistent(H) ==
    /\ DOMAIN H = Nat /\ \A n \in Nat : IsPlan(H[n])
    /\ H[gen] = windows
    /\ \A r \in Reader : ReadOK(rd[r], H, gen)
    /\ \A i \in DOMAIN cache : cache[i].gen \in 0..gen /\ cache[i].val = H[cache[i].gen][i]
    /\ \A k \in DOMAIN flights : k[1] \in 0..gen /\ flights[k] \in Outcomes(H[k[1]][k[2]])

Typed ==
    /\ points \in Seq(Point) /\ Len(points) <= MaxPoints
    /\ gen \in Nat
    /\ rd = [r \in Reader |-> rd[r]]

ReadInv == Typed /\ \E H : Consistent(H)

(* The outcomes of a flight are told apart. *)
LEMMA OutcomesDiffer ==
    /\ Pending # Failed
    /\ \A b : Answered(b) # Pending /\ Answered(b) # Failed /\ Answered(b).val = b
<1>1. Pending.state = "pending" /\ Failed.state = "failed" /\ \A b : Answered(b).state = "answered" /\ Answered(b).val = b
  BY Zenon DEF Pending, Failed, Answered
<1> QED
  BY <1>1, Zenon

(* A new reader has no plan, no flight and no cache entry. *)
LEMMA ReadInit == Init => ReadInv
<1> SUFFICES ASSUME Init PROVE ReadInv
  BY Zenon
<1>1. Typed
  BY ReaderAssumption DEF Init, Typed
<1> DEFINE H == [n \in Nat |-> <<>>]
<1>2. ReadOK(Idle({}, FALSE), H, 0)
  BY Zenon DEF ReadOK, Returned, Idle
<1>3. DOMAIN H = Nat /\ H[0] = <<>> /\ \A n \in Nat : IsPlan(H[n])
  BY DEF IsPlan
<1>4. gen = 0 /\ windows = <<>> /\ DOMAIN cache = {} /\ DOMAIN flights = {} /\ \A r \in Reader : rd[r] = Idle({}, FALSE)
  BY DEF Init
<1> HIDE DEF H
<1>5. Consistent(H)
  BY <1>2, <1>3, <1>4, Zenon DEF Consistent
<1> QED
  BY <1>1, <1>5, Zenon DEF ReadInv

(* Register and Unregister: the new plan is the next generation's. *)
LEMMA ReplanKeeps ==
    ASSUME PlansAreBlocks, ReadInv, NEW pts \in Seq(Point), Len(pts) <= MaxPoints, Replan(pts)
    PROVE  ReadInv'
<1>1. PICK H : Consistent(H)
  BY Zenon DEF ReadInv
<1>k. gen \in Nat /\ gen' = gen + 1 /\ cache' = <<>> /\ UNCHANGED <<flights, rd>> /\ points' = pts
  BY Zenon DEF ReadInv, Typed, Replan
<1>2. IsPlan(windows')
  <2>1. Len(pts) \in 0..MaxPoints /\ pts \in [1..Len(pts) -> Point]
    BY ReaderAssumption
  <2>2. windows' \in buildWindows(pts)
    BY Zenon DEF Replan
  <2> QED
    BY <2>1, <2>2, Zenon DEF PlansAreBlocks
<1>g. PICK G : G = [n \in Nat |-> IF n = gen + 1 THEN windows' ELSE H[n]]
  BY Zenon
<1>3. DOMAIN G = Nat /\ G[gen'] = windows' /\ (\A n \in Nat : IsPlan(G[n])) /\ \A n \in 0..gen : G[n] = H[n]
  <2>1. DOMAIN G = Nat /\ G[gen'] = windows' /\ \A n \in 0..gen : G[n] = H[n]
    BY <1>k, <1>g
  <2>2. ASSUME NEW n \in Nat PROVE IsPlan(G[n])
    <3>1. CASE n = gen + 1
      BY <3>1, <1>2, <1>g, Zenon
    <3>2. CASE n # gen + 1
      BY <3>2, <1>1, <1>g, Zenon DEF Consistent
    <3> QED
      BY <3>1, <3>2, Zenon
  <2> QED
    BY <2>1, <2>2, Zenon
<1>4. ASSUME NEW r \in Reader PROVE ReadOK(rd'[r], G, gen')
  <2> DEFINE q == rd[r]
  <2>1. ReadOK(q, H, gen) /\ rd'[r] = q
    BY <1>1, <1>k, Zenon DEF Consistent
  <2> HIDE DEF q
  <2>2. CASE q.pc = "idle"
    BY <2>1, <2>2, Zenon DEF ReadOK
  <2>3. CASE q.pc # "idle"
    <3>1. InRead(q, H, gen) /\ "pc" \in DOMAIN q
      BY <2>1, <2>3, Zenon DEF ReadOK
    <3>2. q.gen \in 0..(gen + 1) /\ q.plan = G[q.gen]
      BY <3>1, <1>3, <1>k DEF InRead
    <3>3. InRead(q, G, gen + 1)
      BY <3>1, <3>2, Zenon DEF InRead
    <3> QED
      BY <3>1, <3>3, <2>1, <2>3, <1>k, Zenon DEF ReadOK
  <2> QED
    BY <2>2, <2>3, Zenon
<1>5. \A k \in DOMAIN flights' : k[1] \in 0..gen' /\ flights'[k] \in Outcomes(G[k[1]][k[2]])
  BY <1>1, <1>3, <1>k DEF Consistent
<1>6. Consistent(G)'
  BY <1>3, <1>4, <1>5, <1>k DEF Consistent
<1>7. Typed'
  BY <1>k DEF ReadInv, Typed
<1> QED
  BY <1>6, <1>7, Zenon DEF ReadInv

(* Unregister leaves a list of points that is no longer. *)
LEMMA UnregisterShortens ==
    ASSUME NEW s \in Seq(Point), NEW i \in DOMAIN s
    PROVE  RemoveAt(s, i) \in Seq(Point) /\ Len(RemoveAt(s, i)) <= Len(s)
<1>1. i \in 1..Len(s) /\ Len(s) \in Nat
  OBVIOUS
<1>2. SubSeq(s, 1, i - 1) \in Seq(Point) /\ Len(SubSeq(s, 1, i - 1)) = i - 1
  BY <1>1
<1>3. SubSeq(s, i + 1, Len(s)) \in Seq(Point) /\ Len(SubSeq(s, i + 1, Len(s))) = Len(s) - i
  BY <1>1
<1> QED
  BY <1>1, <1>2, <1>3 DEF RemoveAt

-----------------------------------------------------------------------------
(* One Read moves.                                                           *)

CacheOK(c, H, g) == \A i \in DOMAIN c : c[i].gen \in 0..g /\ c[i].val = H[c[i].gen][i]

FlightsOK(f, H, g) == \A k \in DOMAIN f : k[1] \in 0..g /\ f[k] \in Outcomes(H[k[1]][k[2]])

(* Setting and deleting a key of a Go map. *)
LEMMA MapOps ==
    ASSUME NEW f, NEW x, NEW v
    PROVE  /\ DOMAIN With(f, x, v) = DOMAIN f \cup {x} /\ With(f, x, v)[x] = v
           /\ \A y \in DOMAIN f : y # x => With(f, x, v)[y] = f[y]
           /\ DOMAIN Without(f, x) \subseteq DOMAIN f
           /\ \A y \in DOMAIN Without(f, x) : Without(f, x)[y] = f[y]
BY Zenon DEF With, Without, Restrict

(* Moving a Read on to another position keeps what it knows. *)
LEMMA ReadMoves ==
    ASSUME Typed, NEW H, Consistent(H), NEW r \in Reader, NEW q, rd' = [rd EXCEPT ![r] = q],
           ReadOK(q, H, gen), UNCHANGED <<points, windows, gen>>,
           CacheOK(cache', H, gen), FlightsOK(flights', H, gen)
    PROVE  ReadInv'
<1>1. \A s \in Reader : rd'[s] = IF s = r THEN q ELSE rd[s]
  BY Zenon DEF Typed
<1>2. Typed'
  BY Zenon DEF Typed
<1>3. \A s \in Reader : ReadOK(rd'[s], H, gen')
  BY <1>1, Zenon DEF Consistent
<1>4. Consistent(H)'
  BY <1>3, Zenon DEF Consistent, CacheOK, FlightsOK
<1> QED
  BY <1>2, <1>4, Zenon DEF ReadInv

(* What an action may take for granted about its Read. *)
LEMMA Facts ==
    ASSUME NEW H, Consistent(H)
    PROVE  /\ CacheOK(cache, H, gen) /\ FlightsOK(flights, H, gen)
           /\ \A r \in Reader : rd[r].pc # "idle" => InRead(rd[r], H, gen)
           /\ \A n \in Nat : IsPlan(H[n])
BY Zenon DEF Consistent, CacheOK, FlightsOK, ReadOK

(* A Read that returned an error returned no point. *)
LEMMA FailedReadIsOK == \A H, g : ReadOK(Idle({}, FALSE), H, g)
BY Zenon DEF ReadOK, Returned, Idle

(* Only the place in readWindow changes. *)
LEMMA Advances ==
    ASSUME NEW q, NEW H, NEW g, InRead(q, H, g), NEW l \in {"next", "flight", "lead"}, NEW i
    PROVE  /\ ReadOK([q EXCEPT !.pc = l], H, g)
           /\ ReadOK([q EXCEPT !.pc = l, !.cur = i], H, g)
<1>1. ReadOK([q EXCEPT !.pc = l], H, g)
  <2> DEFINE m == [q EXCEPT !.pc = l]
  <2>1. /\ DOMAIN m = DOMAIN q /\ m.pc = l /\ m.gen = q.gen /\ m.plan = q.plan /\ m.req = q.req
        /\ m.direct = q.direct /\ m.needed = q.needed /\ m.got = q.got /\ m.foreign = q.foreign
    BY Zenon DEF InRead, Fields
  <2> HIDE DEF m
  <2>2. InRead(m, H, g)
    BY <2>1, Zenon DEF InRead
  <2> QED
    BY <2>1, <2>2, Zenon DEF ReadOK, InRead, Fields, m
<1>2. ReadOK([q EXCEPT !.pc = l, !.cur = i], H, g)
  <2> DEFINE m == [q EXCEPT !.pc = l, !.cur = i]
  <2>1. /\ DOMAIN m = DOMAIN q /\ m.pc = l /\ m.gen = q.gen /\ m.plan = q.plan /\ m.req = q.req
        /\ m.direct = q.direct /\ m.needed = q.needed /\ m.got = q.got /\ m.foreign = q.foreign
    BY Zenon DEF InRead, Fields
  <2> HIDE DEF m
  <2>2. InRead(m, H, g)
    BY <2>1, Zenon DEF InRead
  <2> QED
    BY <2>1, <2>2, Zenon DEF ReadOK, InRead, Fields, m
<1> QED
  BY <1>1, <1>2, Zenon

(* The Read learns the outcome of its flight. *)
LEMMA Learns ==
    ASSUME NEW q, NEW H, NEW g, InRead(q, H, g), NEW out \in Outcomes(q.plan[q.cur]), NEW l \in {"wait", "forget"},
           l = "forget" => out # Pending
    PROVE  ReadOK([q EXCEPT !.pc = l, !.out = out], H, g)
<1> DEFINE m == [q EXCEPT !.pc = l, !.out = out]
<1>1. /\ DOMAIN m = DOMAIN q /\ m.pc = l /\ m.gen = q.gen /\ m.plan = q.plan /\ m.req = q.req /\ m.out = out
      /\ m.direct = q.direct /\ m.needed = q.needed /\ m.got = q.got /\ m.foreign = q.foreign /\ m.cur = q.cur
  BY Zenon DEF InRead, Fields
<1> HIDE DEF m
<1>2. l = "forget" => out \in {Failed, Answered(q.plan[q.cur])}
  BY Zenon DEF Outcomes
<1>3. InRead(m, H, g)
  BY <1>1, <1>2, Zenon DEF InRead
<1> QED
  BY <1>1, <1>3, Zenon DEF ReadOK, InRead, Fields, m

(* A window's block v arrives, from the cache or from a flight. *)
LEMMA Gains ==
    ASSUME NEW q, NEW H, NEW g, InRead(q, H, g), NEW i, NEW v, NEW m,
           DOMAIN m = DOMAIN q, m.pc = "next", m.gen = q.gen, m.plan = q.plan, m.req = q.req, m.direct = q.direct,
           m.needed = q.needed \ {i}, m.got = With(q.got, i, v), q.foreign => m.foreign,
           m.foreign \/ v = q.plan[i]
    PROVE  ReadOK(m, H, g)
<1>0. /\ DOMAIN m.got = DOMAIN q.got \cup {i} /\ m.got[i] = v
      /\ \A y \in DOMAIN q.got : y # i => m.got[y] = q.got[y]
  BY Zenon DEF With
<1>1. \A p \in m.req \ m.direct : findWindow(m.plan, p) # 0 /\ findWindow(m.plan, p) \in m.needed \cup DOMAIN m.got
  BY <1>0, Zenon DEF InRead
<1>2. m.foreign \/ \A j \in DOMAIN m.got : m.got[j] = m.plan[j]
  BY <1>0, Zenon DEF InRead
<1>3. InRead(m, H, g)
  BY <1>1, <1>2, Zenon DEF InRead
<1> QED
  BY <1>3, Zenon DEF ReadOK, InRead, Fields

(* readWindow returns to its Read: with an error, or with the window's block. *)
LEMMA DeliverKeeps ==
    ASSUME Typed, NEW H, Consistent(H), NEW r \in Reader, rd[r].pc # "idle",
           rd[r].out \in {Failed, Answered(rd[r].plan[rd[r].cur])}, Deliver(r),
           UNCHANGED <<points, windows, gen, cache>>, FlightsOK(flights', H, gen)
    PROVE  ReadInv'
<1>0. CacheOK(cache', H, gen) /\ InRead(rd[r], H, gen)
  BY Facts, Zenon
<1>1. CASE rd[r].out = Failed
  <2>1. rd' = [rd EXCEPT ![r] = Idle({}, FALSE)]
    BY <1>1, Zenon DEF Deliver, ReadFails
  <2> QED
    BY <2>1, <1>0, FailedReadIsOK, ReadMoves, Zenon
<1>2. CASE rd[r].out # Failed
  <2> DEFINE q == rd[r]
             v == q.plan[q.cur]
             m == Take(r, q.out.val)
  <2>1. rd' = [rd EXCEPT ![r] = m] /\ q.out.val = v
    BY <1>2, OutcomesDiffer, Zenon DEF Deliver
  <2>2. /\ DOMAIN m = DOMAIN q /\ m.pc = "next" /\ m.gen = q.gen /\ m.plan = q.plan /\ m.req = q.req
        /\ m.direct = q.direct /\ m.needed = q.needed \ {q.cur} /\ m.got = With(q.got, q.cur, v)
        /\ m.foreign = q.foreign
    BY <1>0, <2>1, Zenon DEF Take, InRead, Fields
  <2> HIDE DEF m
  <2>3. ReadOK(m, H, gen)
    BY <2>2, <1>0, Gains, Zenon
  <2> QED
    BY <2>1, <2>3, <1>0, ReadMoves, Zenon
<1> QED
  BY <1>1, <1>2, Zenon

(* The leader publishes; followers of the same flight are of its generation, so *)
(* the block is the one their own plan asks for.                                 *)
LEMMA PublishKeeps ==
    ASSUME Typed, NEW H, Consistent(H), NEW r \in Reader, rd[r].pc = "lead",
           NEW out \in {Failed, Answered(rd[r].plan[rd[r].cur])}, Publish(r, out),
           UNCHANGED <<points, windows, gen>>, CacheOK(cache', H, gen)
    PROVE  ReadInv'
<1>0. InRead(rd[r], H, gen) /\ FlightsOK(flights, H, gen) /\ Key(r)[1] = rd[r].gen /\ Key(r)[2] = rd[r].cur
  BY Facts, Zenon DEF Key
<1>1. rd[r].gen \in 0..gen /\ rd[r].plan = H[rd[r].gen]
  BY <1>0, Zenon DEF InRead
<1>2. FlightsOK(flights', H, gen)
  <2>1. flights' = [flights EXCEPT ![Key(r)] = out] /\ DOMAIN flights' = DOMAIN flights
    BY Zenon DEF Publish
  <2>2. ASSUME NEW k \in DOMAIN flights PROVE k[1] \in 0..gen /\ flights'[k] \in Outcomes(H[k[1]][k[2]])
    <3>1. CASE k = Key(r)
      BY <3>1, <2>1, <1>0, <1>1, Zenon DEF Outcomes
    <3>2. CASE k # Key(r)
      BY <3>2, <2>1, <1>0, Zenon DEF FlightsOK
    <3> QED
      BY <3>1, <3>2, Zenon
  <2> QED
    BY <2>1, <2>2, Zenon DEF FlightsOK
<1>3. ASSUME NEW s \in Reader PROVE ReadOK(rd'[s], H, gen)
  <2>1. CASE s = r
    <3>1. rd'[s] = [rd[r] EXCEPT !.pc = "forget", !.out = out]
      BY <2>1, Zenon DEF Publish
    <3>2. out \in Outcomes(rd[r].plan[rd[r].cur]) /\ out # Pending
      BY OutcomesDiffer, Zenon DEF Outcomes
    <3>3. ReadOK([rd[r] EXCEPT !.pc = "forget", !.out = out], H, gen)
      BY <3>2, <1>0, Learns, Zenon
    <3> QED
      BY <3>1, <3>3, Zenon
  <2>2. CASE s # r /\ rd[s].pc = "wait" /\ Key(s) = Key(r) /\ rd[s].out = Pending
    <3> DEFINE q == rd[s]
               m == [q EXCEPT !.out = out]
    <3>1. rd'[s] = m
      BY <2>2, Zenon DEF Publish
    <3>2. InRead(q, H, gen)
      BY <2>2, Facts, Zenon
    <3>3. q.gen = rd[r].gen /\ q.cur = rd[r].cur
      BY <2>2, Zenon DEF Key
    <3>4. out \in Outcomes(q.plan[q.cur])
      BY <3>2, <3>3, <1>1, Zenon DEF InRead, Outcomes
    <3>5. /\ DOMAIN m = DOMAIN q /\ m.pc = "wait" /\ m.gen = q.gen /\ m.plan = q.plan /\ m.req = q.req /\ m.out = out
          /\ m.direct = q.direct /\ m.needed = q.needed /\ m.got = q.got /\ m.foreign = q.foreign /\ m.cur = q.cur
      BY <2>2, <3>2, Zenon DEF InRead, Fields
    <3> HIDE DEF m, q
    <3>6. InRead(m, H, gen)
      BY <3>2, <3>4, <3>5, Zenon DEF InRead
    <3> QED
      BY <3>1, <3>5, <3>6, Zenon DEF ReadOK, InRead, Fields
  <2>3. CASE s # r /\ ~(rd[s].pc = "wait" /\ Key(s) = Key(r) /\ rd[s].out = Pending)
    BY <2>3, Zenon DEF Publish, Consistent
  <2> QED
    BY <2>1, <2>2, <2>3, Zenon
<1>4. Typed'
  BY Zenon DEF Typed, Publish
<1>5. Consistent(H)'
  BY <1>2, <1>3, Zenon DEF Consistent, CacheOK, FlightsOK
<1> QED
  BY <1>4, <1>5, Zenon DEF ReadInv

(* Every step of a Read keeps the invariant. *)
LEMMA ReadKeeps ==
    ASSUME ReadInv, NEW r \in Reader, ReadBegin(r) \/ ReadStep(r) \/ FollowerGivesUp(r)
    PROVE  ReadInv'
<1>1. PICK H : Consistent(H)
  BY Zenon DEF ReadInv
<1>2. Typed /\ gen \in Nat /\ H[gen] = windows
  BY <1>1, Zenon DEF ReadInv, Typed, Consistent
<1>3. CacheOK(cache, H, gen) /\ FlightsOK(flights, H, gen)
  BY <1>1, Facts, Zenon
<1>4. rd[r].pc # "idle" => InRead(rd[r], H, gen)
  BY <1>1, Facts, Zenon
<1> DEFINE q == rd[r]
<1>5. CASE ReadBegin(r)
  <2>1. PICK req \in SUBSET Point : rd' = [rd EXCEPT ![r] =
           LET direct == {p \in req : ~Enabled \/ findWindow(windows, p) = 0}
           IN  [pc |-> IF direct = {} THEN "next" ELSE "direct",
                req |-> req, direct |-> direct, plan |-> windows, gen |-> gen,
                needed |-> {findWindow(windows, p) : p \in req \ direct},
                cur |-> 0, got |-> <<>>, out |-> Pending, foreign |-> FALSE]]
    BY <1>5, Zenon DEF ReadBegin
  <2> DEFINE direct == {p \in req : ~Enabled \/ findWindow(windows, p) = 0}
             m == [pc |-> IF direct = {} THEN "next" ELSE "direct",
                   req |-> req, direct |-> direct, plan |-> windows, gen |-> gen,
                   needed |-> {findWindow(windows, p) : p \in req \ direct},
                   cur |-> 0, got |-> <<>>, out |-> Pending, foreign |-> FALSE]
  <2>2. /\ Fields \subseteq DOMAIN m /\ m.pc \in {"next", "direct"} /\ m.gen = gen /\ m.plan = windows /\ m.req = req
        /\ m.direct = direct /\ m.needed = {findWindow(windows, p) : p \in req \ direct} /\ DOMAIN m.got = {}
    BY DEF Fields
  <2>3. rd' = [rd EXCEPT ![r] = m]
    BY <2>1, Zenon
  <2> HIDE DEF m
  <2>4. InRead(m, H, gen)
    BY <2>1, <2>2, <1>2 DEF InRead
  <2>5. ReadOK(m, H, gen)
    BY <2>2, <2>4, Zenon DEF ReadOK, Fields
  <2>6. UNCHANGED <<points, windows, gen, cache, flights>>
    BY <1>5, Zenon DEF ReadBegin
  <2> QED
    BY <2>3, <2>5, <2>6, <1>1, <1>2, <1>3, ReadMoves, Zenon
<1>6. CASE DirectReads(r)
  <2>1. q.pc # "idle" /\ UNCHANGED <<points, windows, gen, cache, flights>>
    BY <1>6, Zenon DEF DirectReads
  <2>2. CASE ReadFails(r)
    BY <2>1, <2>2, <1>1, <1>2, <1>3, FailedReadIsOK, ReadMoves, Zenon DEF ReadFails
  <2>3. CASE ~ReadFails(r)
    <3>1. rd' = [rd EXCEPT ![r] = [q EXCEPT !.pc = "next"]]
      BY <2>3, <1>6, Zenon DEF DirectReads
    <3>2. ReadOK([q EXCEPT !.pc = "next"], H, gen)
      BY <2>1, <1>4, Advances, Zenon
    <3> QED
      BY <3>1, <3>2, <2>1, <1>1, <1>2, <1>3, ReadMoves, Zenon
  <2> QED
    BY <2>2, <2>3, Zenon
<1>7. CASE CheckCache(r)
  <2>1. q.pc = "next" /\ UNCHANGED <<points, windows, gen, cache, flights>> /\ InRead(q, H, gen)
    BY <1>7, <1>4, Zenon DEF CheckCache
  <2>2. PICK i : IF Caching /\ i \in DOMAIN cache
                 THEN rd' = [rd EXCEPT ![r] = Hit(r, i)]
                 ELSE rd' = [rd EXCEPT ![r].pc = "flight", ![r].cur = i]
    BY <1>7, Zenon DEF CheckCache
  <2>3. CASE Caching /\ i \in DOMAIN cache
    <3> DEFINE needed == q.needed \ {i}
               got == With(q.got, i, cache[i].val)
               foreign == q.foreign \/ cache[i].gen # q.gen
               m == Hit(r, i)
    <3>1. rd' = [rd EXCEPT ![r] = m]
      BY <2>2, <2>3, Zenon
    <3>2. (q.foreign => foreign) /\ (foreign \/ cache[i].val = q.plan[i])
      BY <2>1, <2>3, <1>3, Zenon DEF InRead, CacheOK
    <3>h. m = [q EXCEPT !.needed = needed, !.got = got, !.foreign = foreign]
      BY Zenon DEF Hit
    <3> HIDE DEF m, needed, got, foreign
    <3>3. /\ DOMAIN m = DOMAIN q /\ m.pc = "next" /\ m.gen = q.gen /\ m.plan = q.plan /\ m.req = q.req
          /\ m.direct = q.direct /\ m.needed = needed /\ m.got = got /\ m.foreign = foreign
      BY <2>1, <3>h, Zenon DEF InRead, Fields
    <3>4. ReadOK(m, H, gen)
      BY <3>2, <3>3, <2>1, Gains, Zenon DEF needed, got
    <3> QED
      BY <3>1, <3>4, <2>1, <1>1, <1>2, <1>3, ReadMoves, Zenon
  <2>4. CASE ~(Caching /\ i \in DOMAIN cache)
    <3>1. ReadOK([q EXCEPT !.pc = "flight", !.cur = i], H, gen)
      BY <2>1, Advances, Zenon
    <3>2. rd' = [rd EXCEPT ![r] = [q EXCEPT !.pc = "flight", !.cur = i]]
      BY <2>2, <2>4, <1>2, Zenon DEF Typed
    <3> QED
      BY <3>1, <3>2, <2>1, <1>1, <1>2, <1>3, ReadMoves, Zenon
  <2> QED
    BY <2>3, <2>4, Zenon
<1>8. CASE JoinFlight(r)
  <2>1. /\ q.pc # "idle" /\ UNCHANGED <<points, windows, gen, cache, flights>> /\ Key(r) \in DOMAIN flights
        /\ rd' = [rd EXCEPT ![r] = [q EXCEPT !.pc = "wait", !.out = flights[Key(r)]]]
    BY <1>8, Zenon DEF JoinFlight
  <2>2. InRead(q, H, gen) /\ Key(r)[1] = q.gen /\ Key(r)[2] = q.cur
    BY <2>1, <1>4, Zenon DEF Key
  <2>3. flights[Key(r)] \in Outcomes(q.plan[q.cur])
    BY <2>1, <2>2, <1>3, Zenon DEF FlightsOK, InRead
  <2>4. ReadOK([q EXCEPT !.pc = "wait", !.out = flights[Key(r)]], H, gen)
    BY <2>2, <2>3, Learns, Zenon
  <2> QED
    BY <2>1, <2>4, <1>1, <1>2, <1>3, ReadMoves, Zenon
<1>9. CASE LeadFlight(r)
  <2>1. /\ q.pc # "idle" /\ UNCHANGED <<points, windows, gen, cache>> /\ flights' = With(flights, Key(r), Pending)
        /\ rd' = [rd EXCEPT ![r] = [q EXCEPT !.pc = "lead"]]
    BY <1>9, Zenon DEF LeadFlight
  <2>2. ReadOK([q EXCEPT !.pc = "lead"], H, gen)
    BY <2>1, <1>4, Advances, Zenon
  <2>3. Key(r)[1] \in 0..gen
    BY <2>1, <1>4, Zenon DEF Key, InRead
  <2>4. /\ DOMAIN flights' = DOMAIN flights \cup {Key(r)} /\ flights'[Key(r)] = Pending
        /\ \A k \in DOMAIN flights : k # Key(r) => flights'[k] = flights[k]
    BY <2>1, Zenon DEF With
  <2>5. FlightsOK(flights', H, gen)
    BY <2>3, <2>4, <1>3, Zenon DEF FlightsOK, Outcomes
  <2> QED
    BY <2>1, <2>2, <2>5, <1>1, <1>2, <1>3, ReadMoves, Zenon
<1>10. CASE LeaderAnswered(r)
  <2> DEFINE b == q.plan[q.cur]
             e == [val |-> b, gen |-> q.gen]
  <2>1. /\ q.pc = "lead" /\ UNCHANGED <<points, windows, gen>> /\ Publish(r, Answered(b))
        /\ cache' = IF Caching THEN With(cache, q.cur, e) ELSE cache
    BY <1>10, Zenon DEF LeaderAnswered
  <2>2. InRead(q, H, gen) /\ e.val = b /\ e.gen = q.gen
    BY <2>1, <1>4, Zenon
  <2>3. e.gen \in 0..gen /\ e.val = H[e.gen][q.cur]
    BY <2>2, Zenon DEF InRead
  <2> HIDE DEF e
  <2>4. CacheOK(cache', H, gen)
    <3>1. CASE Caching
      <4>1. /\ DOMAIN cache' = DOMAIN cache \cup {q.cur} /\ cache'[q.cur] = e
            /\ \A i \in DOMAIN cache : i # q.cur => cache'[i] = cache[i]
        BY <2>1, <3>1, Zenon DEF With
      <4> QED
        BY <4>1, <2>3, <1>3, Zenon DEF CacheOK
    <3>2. CASE ~Caching
      BY <3>2, <2>1, <1>3, Zenon
    <3> QED
      BY <3>1, <3>2, Zenon
  <2> QED
    BY <2>1, <2>4, <1>1, <1>2, PublishKeeps, Zenon
<1>11. CASE LeaderFailed(r)
  BY <1>11, <1>1, <1>2, <1>3, PublishKeeps, Zenon DEF LeaderFailed
<1>12. CASE ForgetFlight(r)
  <2>1. /\ q.pc = "forget" /\ UNCHANGED <<points, windows, gen, cache>> /\ flights' = Without(flights, Key(r))
        /\ Deliver(r)
    BY <1>12, Zenon DEF ForgetFlight
  <2>2. q.out \in {Failed, Answered(q.plan[q.cur])}
    BY <2>1, <1>4, Zenon DEF InRead
  <2>3. FlightsOK(flights', H, gen)
    <3>1. DOMAIN flights' \subseteq DOMAIN flights /\ \A k \in DOMAIN flights' : flights'[k] = flights[k]
      BY <2>1, Zenon DEF Without, Restrict
    <3> QED
      BY <3>1, <1>3, Zenon DEF FlightsOK
  <2> QED
    BY <2>1, <2>2, <2>3, <1>1, <1>2, DeliverKeeps, Zenon
<1>13. CASE FollowerWakes(r)
  <2>1. q.pc = "wait" /\ q.out # Pending /\ Deliver(r) /\ UNCHANGED <<points, windows, gen, cache, flights>>
    BY <1>13, Zenon DEF FollowerWakes
  <2>2. q.out \in {Failed, Answered(q.plan[q.cur])}
    BY <2>1, <1>4, Zenon DEF InRead, Outcomes
  <2> QED
    BY <2>1, <2>2, <1>1, <1>2, <1>3, DeliverKeeps, Zenon
<1>14. CASE FollowerGivesUp(r)
  <2>1. ReadFails(r) /\ UNCHANGED <<points, windows, gen, cache, flights>>
    BY <1>14, Zenon DEF FollowerGivesUp
  <2> QED
    BY <2>1, <1>1, <1>2, <1>3, FailedReadIsOK, ReadMoves, Zenon DEF ReadFails
<1>15. CASE Extract(r)
  <2> DEFINE value(p) == LET i == findWindow(q.plan, p)
                         IN  ClusterExtract(q.got[i], p, q.plan[i].addr)
             Misread == {p \in q.req \ q.direct : value(p) # p}
             m == Idle(Misread, q.foreign)
  <2>1. /\ q.pc = "next" /\ q.needed = {} /\ UNCHANGED <<points, windows, gen, cache, flights>>
        /\ rd' = [rd EXCEPT ![r] = m]
    BY <1>15, Zenon DEF Extract
  <2>2. InRead(q, H, gen) /\ IsPlan(q.plan)
    BY <2>1, <1>1, <1>4, Facts DEF InRead
  <2>3. ASSUME ~q.foreign, NEW p \in Misread PROVE ~EndsBelowTop(p)
    <3>1. p \in Point /\ findWindow(q.plan, p) # 0 /\ findWindow(q.plan, p) \in DOMAIN q.got
      BY <2>1, <2>2, Zenon DEF InRead
    <3>2. q.got[findWindow(q.plan, p)] = q.plan[findWindow(q.plan, p)]
      BY <2>2, <2>3, <3>1, Zenon DEF InRead
    <3> QED
      BY <2>2, <3>1, <3>2, ExtractIsOwn, Zenon
  <2> HIDE DEF Misread
  <2>4. DOMAIN m = {"pc", "misread", "foreign"} /\ m.pc = "idle" /\ m.misread = Misread /\ m.foreign = (q.foreign /\ Misread # {})
    BY Zenon DEF Idle
  <2> HIDE DEF m
  <2>5. Returned(m)
    BY <2>3, <2>4, Zenon DEF Returned
  <2>6. ReadOK(m, H, gen)
    BY <2>4, <2>5, Zenon DEF ReadOK
  <2> QED
    BY <2>1, <2>6, <1>1, <1>2, <1>3, ReadMoves, Zenon
<1> QED
  BY <1>5, <1>6, <1>7, <1>8, <1>9, <1>10, <1>11, <1>12, <1>13, <1>14, <1>15, Zenon DEF ReadStep

(* So does every step of the reader. *)
LEMMA ReadNext == PlansAreBlocks /\ ReadInv /\ [Next]_vars => ReadInv'
<1> SUFFICES ASSUME PlansAreBlocks, ReadInv, [Next]_vars PROVE ReadInv'
  BY Zenon
<1>k. points \in Seq(Point) /\ Len(points) <= MaxPoints /\ Len(points) \in Nat /\ MaxPoints \in Nat
  BY ReaderAssumption DEF ReadInv, Typed
<1>1. CASE Register
  <2>1. PICK p \in Point : Replan(Append(points, p))
    BY <1>1, Zenon DEF Register
  <2>2. Append(points, p) \in Seq(Point) /\ Len(Append(points, p)) = Len(points) + 1 /\ Len(points) < MaxPoints
    BY <1>1, <1>k DEF Register
  <2>3. Len(Append(points, p)) <= MaxPoints
    BY <2>2, <1>k
  <2> QED
    BY <2>1, <2>2, <2>3, ReplanKeeps, Zenon
<1>2. CASE Unregister
  <2>1. PICK p \in Point : LET Same == {i \in DOMAIN points : points[i] = p}
           IN  Replan(IF Same = {} THEN points
                      ELSE RemoveAt(points, CHOOSE i \in Same : \A j \in Same : i <= j))
    BY <1>2, Zenon DEF Unregister
  <2> DEFINE Same == {i \in DOMAIN points : points[i] = p}
  <2>2. CASE Same = {}
    BY <2>1, <2>2, <1>k, ReplanKeeps, Zenon
  <2>3. CASE Same # {}
    <3> DEFINE n == CHOOSE i \in Same : \A j \in Same : i <= j
    <3>1. n \in DOMAIN points
      <4>1. Same \in SUBSET Nat /\ Same \subseteq DOMAIN points
        BY <2>1, <1>k
      <4>2. n \in Same
        BY <4>1, <2>3, LeastIndex, Zenon
      <4> QED
        BY <4>1, <4>2, Zenon
    <3> HIDE DEF n
    <3>2. Replan(RemoveAt(points, n))
      BY <2>1, <2>3, Zenon DEF n
    <3>3. RemoveAt(points, n) \in Seq(Point) /\ Len(RemoveAt(points, n)) <= Len(points)
      BY <3>1, <1>k, UnregisterShortens, Zenon
    <3>4. Len(RemoveAt(points, n)) <= MaxPoints
      BY <3>3, <1>k
    <3> QED
      BY <3>2, <3>3, <3>4, ReplanKeeps, Zenon
  <2> QED
    BY <2>2, <2>3, Zenon
<1>3. ASSUME NEW r \in Reader, ReadBegin(r) \/ ReadStep(r) \/ FollowerGivesUp(r) PROVE ReadInv'
  BY <1>3, ReadKeeps, Zenon
<1>4. ASSUME NEW i, Expire(i) PROVE ReadInv'
  <2>1. PICK H : Consistent(H)
    BY Zenon DEF ReadInv
  <2>2. UNCHANGED <<points, windows, gen, flights, rd>> /\ cache' = Without(cache, i)
    BY <1>4, Zenon DEF Expire
  <2>3. DOMAIN cache' \subseteq DOMAIN cache /\ \A k \in DOMAIN cache' : cache'[k] = cache[k]
    BY <2>2, Zenon DEF Without, Restrict
  <2>4. Consistent(H)'
    BY <2>1, <2>2, <2>3, Zenon DEF Consistent
  <2>5. Typed'
    BY <2>2, Zenon DEF ReadInv, Typed
  <2> QED
    BY <2>4, <2>5, Zenon DEF ReadInv
<1>5. CASE UNCHANGED vars
  <2>1. PICK H : Consistent(H)
    BY Zenon DEF ReadInv
  <2>2. Consistent(H)'
    BY <2>1, <1>5, Zenon DEF Consistent, vars
  <2>3. Typed'
    BY <1>5, Zenon DEF ReadInv, Typed, vars
  <2> QED
    BY <2>2, <2>3, Zenon DEF ReadInv
<1> QED
  BY <1>1, <1>2, <1>3, <1>4, <1>5, Zenon DEF Next

(* A Read that took no cache entry of another generation returns every point's *)
(* own data, whatever replans, expiries and other Reads interleave with it and  *)
(* whichever flights it led or followed (cluster.go, Read and readWindow).       *)
THEOREM WrongOnlyFromForeign == PlansAreBlocks => (Spec => []WrongOnlyFromForeignCache)
<1> SUFFICES ASSUME PlansAreBlocks PROVE Spec => []WrongOnlyFromForeignCache
  BY Zenon
<1>1. ReadInv => WrongOnlyFromForeignCache
  BY Zenon DEF ReadInv, Consistent, ReadOK, Returned, WrongOnlyFromForeignCache
<1>2. ReadInv /\ [Next]_vars => ReadInv'
  BY ReadNext, Zenon
<1> QED
  BY <1>1, <1>2, ReadInit, PTL DEF Spec
=============================================================================
