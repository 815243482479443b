--------------------------- MODULE ClusteringReader ---------------------------
(***************************************************************************)
(* monitor/cluster.go: Register, Unregister and concurrent calls of Read.   *)
(*                                                                         *)
(* mu, cacheMu and flightMu are each held for one step of this module; the  *)
(* steps of a Read are what lies between its lock operations.  The inner    *)
(* reader may take any time and may fail.  A cache entry older than         *)
(* CacheTTL is never looked at again, so Expire removes it.                 *)
(***************************************************************************)
EXTENDS ClusterPlan, FiniteSets

CONSTANTS
    Reader,      \* goroutines that call Read
    Point,       \* the points of the application
    Enabled,     \* ClusterConfig.Enabled
    Caching,     \* ClusterConfig.CacheTTL > 0
    MaxPoints,   \* bound: registrations held at a time
    MaxReq,      \* bound: points of one Read
    MaxGen       \* bound: replans

ASSUME ReaderAssumption ==
    /\ Caching \in BOOLEAN /\ MaxPoints \in Nat
    /\ \A p \in Point : /\ p = [key |-> p.key, addr |-> p.addr, qty |-> p.qty]
                        /\ p.addr \in 0..(AddrSpace - 1) /\ p.qty \in 0..(AddrSpace - 1)

VARIABLES
    points,   \* registered points, in order of registration
    windows,  \* the plan built from them
    gen,      \* the plan's generation
    cache,    \* window index -> [val, gen]; gen (not in the code) is the
              \* generation of the plan the entry was read under
    flights,  \* <<gen, window index>> -> the flight's outcome, or Pending
    rd        \* the Read each goroutine is in

vars == <<points, windows, gen, cache, flights, rd>>

(* A plan: numbered blocks with an address and a length. *)
IsPlan(ws) == DOMAIN ws \subseteq Nat /\ \A i \in DOMAIN ws : ws[i].addr \in Nat /\ ws[i].qty \in Nat

(* The planner makes plans of whatever is registered. *)
PlansAreBlocks ==
    \A n \in 0..MaxPoints : \A pts \in [1..n -> Point] : \A ws \in buildWindows(pts) : IsPlan(ws)

-----------------------------------------------------------------------------
(* Outcomes of a flight. *)
Pending == [state |-> "pending"]
Failed  == [state |-> "failed"]
Answered(block) == [state |-> "answered", val |-> block]

(* Maps: the entry x set to v, and the entry x deleted. *)
With(f, x, v) == [y \in DOMAIN f \cup {x} |-> IF y = x THEN v ELSE f[y]]

Without(f, x) == Restrict(f, DOMAIN f \ {x})

(* Between calls.  Of the last one's result only misread is kept: the points   *)
(* whose data came from elsewhere; and whether (foreign) it used a cache entry *)
(* of another generation.                                                      *)
Idle(misread, foreign) ==
    [pc |-> "idle", misread |-> misread, foreign |-> foreign /\ misread # {}]

(* Mutant of Key: flights of all generations share one key. *)
KeyNoGeneration(r) == <<0, rd[r].cur>>

(* The flight map's key, "gen:windowIndex". *)
Key(r) == <<rd[r].gen, rd[r].cur>>

Init ==
    /\ points = <<>>
    /\ windows = <<>>
    /\ gen = 0
    /\ cache = <<>>
    /\ flights = <<>>
    /\ rd = [r \in Reader |-> Idle({}, FALSE)]

-----------------------------------------------------------------------------
Replan(pts) ==
    /\ gen < MaxGen
    /\ points' = pts
    /\ windows' \in buildWindows(pts)
    /\ gen' = gen + 1
    /\ cache' = <<>>
    /\ UNCHANGED <<flights, rd>>

Register ==
    /\ Len(points) < MaxPoints
    /\ \E p \in Point : Replan(Append(points, p))

(* Unregister drops the first equal registration; it replans even if none is. *)
Unregister ==
    \E p \in Point :
        LET Same == {i \in DOMAIN points : points[i] = p}
        IN  Replan(IF Same = {} THEN points
                   ELSE RemoveAt(points, CHOOSE i \in Same : \A j \in Same : i <= j))

-----------------------------------------------------------------------------
(* Read takes the plan and its generation together, then sorts its points.   *)
ReadBegin(r) ==
    /\ rd[r].pc = "idle"
    /\ \E req \in SUBSET Point :
        LET direct == {p \in req : ~Enabled \/ findWindow(windows, p) = 0}
        IN  /\ Cardinality(req) \in 1..MaxReq
            /\ rd' = [rd EXCEPT ![r] =
                        [pc |-> IF direct = {} THEN "next" ELSE "direct",
                         req |-> req, direct |-> direct, plan |-> windows, gen |-> gen,
                         needed |-> {findWindow(windows, p) : p \in req \ direct},
                         cur |-> 0, got |-> <<>>, out |-> Pending, foreign |-> FALSE]]
    /\ UNCHANGED <<points, windows, gen, cache, flights>>

ReadFails(r) == rd' = [rd EXCEPT ![r] = Idle({}, FALSE)]

DirectReads(r) ==
    /\ rd[r].pc = "direct"
    /\ \/ rd' = [rd EXCEPT ![r].pc = "next"]
       \/ ReadFails(r)
    /\ UNCHANGED <<points, windows, gen, cache, flights>>

(* readWindow returned val: one window less to read. *)
Take(r, val) == [rd[r] EXCEPT !.pc = "next", !.needed = @ \ {rd[r].cur},
                              !.got = With(@, rd[r].cur, val)]

(* The block was in the cache, of whatever generation. *)
Hit(r, i) == [rd[r] EXCEPT !.needed = @ \ {i}, !.got = With(@, i, cache[i].val),
                           !.foreign = @ \/ cache[i].gen # rd[r].gen]

(* The next window of the map iteration, and the look into the cache. *)
CheckCache(r) ==
    /\ rd[r].pc = "next"
    /\ \E i \in rd[r].needed :
        IF Caching /\ i \in DOMAIN cache
        THEN rd' = [rd EXCEPT ![r] = Hit(r, i)]
        ELSE rd' = [rd EXCEPT ![r].pc = "flight", ![r].cur = i]
    /\ UNCHANGED <<points, windows, gen, cache, flights>>

(* Singleflight: wait for the flight there is. *)
JoinFlight(r) ==
    /\ rd[r].pc = "flight"
    /\ Key(r) \in DOMAIN flights
    /\ rd' = [rd EXCEPT ![r].pc = "wait", ![r].out = flights[Key(r)]]
    /\ UNCHANGED <<points, windows, gen, cache, flights>>

LeadFlight(r) ==
    /\ rd[r].pc = "flight"
    /\ Key(r) \notin DOMAIN flights
    /\ flights' = With(flights, Key(r), Pending)
    /\ rd' = [rd EXCEPT ![r].pc = "lead"]
    /\ UNCHANGED <<points, windows, gen, cache>>

(* A follower keeps the flight's entry, so it learns the outcome even when the *)
(* entry has left the map.                                                      *)
Publish(r, out) ==
    /\ flights' = [flights EXCEPT ![Key(r)] = out]
    /\ rd' = [s \in Reader |->
                IF s = r THEN [rd[s] EXCEPT !.pc = "forget", !.out = out]
                ELSE IF rd[s].pc = "wait" /\ Key(s) = Key(r) /\ rd[s].out = Pending
                     THEN [rd[s] EXCEPT !.out = out]
                     ELSE rd[s]]

(* The inner read answers: the block is cached and the flight ends. *)
LeaderAnswered(r) ==
    /\ rd[r].pc = "lead"
    /\ Publish(r, Answered(rd[r].plan[rd[r].cur]))
    /\ cache' = IF Caching
                THEN With(cache, rd[r].cur, [val |-> rd[r].plan[rd[r].cur], gen |-> rd[r].gen])
                ELSE cache
    /\ UNCHANGED <<points, windows, gen>>

(* Mutant of LeaderFailed: the error path forgets close(f.done). *)
LeaderFailedSilent(r) ==
    /\ rd[r].pc = "lead"
    /\ flights' = Without(flights, Key(r))
    /\ ReadFails(r)
    /\ UNCHANGED <<points, windows, gen, cache>>

(* The inner read fails, or the leader's own context is cancelled. *)
LeaderFailed(r) ==
    /\ rd[r].pc = "lead"
    /\ Publish(r, Failed)
    /\ UNCHANGED <<points, windows, gen, cache>>

(* What readWindow's caller does with its outcome. *)
Deliver(r) ==
    IF rd[r].out = Failed THEN ReadFails(r) ELSE rd' = [rd EXCEPT ![r] = Take(r, rd[r].out.val)]

ForgetFlight(r) ==
    /\ rd[r].pc = "forget"
    /\ flights' = Without(flights, Key(r))
    /\ Deliver(r)
    /\ UNCHANGED <<points, windows, gen, cache>>

FollowerWakes(r) ==
    /\ rd[r].pc = "wait"
    /\ rd[r].out # Pending
    /\ Deliver(r)
    /\ UNCHANGED <<points, windows, gen, cache, flights>>

FollowerGivesUp(r) ==
    /\ rd[r].pc = "wait"
    /\ ReadFails(r)
    /\ UNCHANGED <<points, windows, gen, cache, flights>>

(* All windows are there: cut every point out of its block. *)
Extract(r) ==
    /\ rd[r].pc = "next"
    /\ rd[r].needed = {}
    /\ LET value(p) == LET i == findWindow(rd[r].plan, p)
                       IN  ClusterExtract(rd[r].got[i], p, rd[r].plan[i].addr)
       IN  rd' = [rd EXCEPT ![r] =
                    Idle({p \in rd[r].req \ rd[r].direct : value(p) # p}, rd[r].foreign)]
    /\ UNCHANGED <<points, windows, gen, cache, flights>>

Expire(i) ==
    /\ i \in DOMAIN cache
    /\ cache' = Without(cache, i)
    /\ UNCHANGED <<points, windows, gen, flights, rd>>

-----------------------------------------------------------------------------
ReadStep(r) ==
    \/ DirectReads(r)
    \/ CheckCache(r)
    \/ JoinFlight(r)
    \/ LeadFlight(r)
    \/ LeaderAnswered(r)
    \/ LeaderFailed(r)
    \/ ForgetFlight(r)
    \/ FollowerWakes(r)
    \/ Extract(r)

Next ==
    \/ Register
    \/ Unregister
    \/ \E r \in Reader : ReadBegin(r) \/ ReadStep(r) \/ FollowerGivesUp(r)
    \/ \E i \in 1..MaxPoints : Expire(i)

Spec == Init /\ [][Next]_vars

(* A Read is a running goroutine, and the inner reader answers or fails: each *)
(* of its steps that stays possible is taken.                                 *)
FairSpec == Spec /\ \A r \in Reader : WF_vars(ReadStep(r))

-----------------------------------------------------------------------------
(* A Read returns, for each point, data read from that point's own addresses. *)
(* This is what generations are for: "incremented on each replan to           *)
(* invalidate in-flight reads that used a stale plan".                        *)
ReadsReturnOwnPoint ==
    \A r \in Reader : rd[r].pc = "idle" =>
        \A p \in rd[r].misread : ~EndsBelowTop(p)

(* The one way a Read goes wrong: it took from the cache a block that was     *)
(* read under another plan than its own.  Reads that met no such entry, those *)
(* that followed another goroutine's flight included, return their own points. *)
WrongOnlyFromForeignCache ==
    \A r \in Reader : rd[r].pc = "idle" /\ ~rd[r].foreign =>
        \A p \in rd[r].misread : ~EndsBelowTop(p)

(* Every Read returns, whoever leads the flight it waits for. *)
ReadsReturn == \A r \in Reader : rd[r].pc # "idle" ~> rd[r].pc = "idle"
=============================================================================
