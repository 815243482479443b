----------------------------- MODULE IOExchange -----------------------------
(***************************************************************************)
(* Cyclic I/O of EtherNet/IP.  Scanners (ethernetip/io.go) open connections *)
(* with Forward_Open over their TCP session and then exchange assembly data *)
(* with one adapter over UDP.  The adapter is the connection manager        *)
(* (objects/connmgr), the runtime and the scheduler (runtime), and the      *)
(* callbacks examples/ethernetip/adapter/main.go installs.                  *)
(*                                                                          *)
(* Connection ids: the scanner counts its own O->T ids from 1, the          *)
(* connection manager counts T->O ids upwards from 0x80000000.  They are    *)
(* kept apart here as <<"OT", n>> and <<"TO", n>>.  A connection itself is  *)
(* named by the order in which Forward_Open created it.                     *)
(*                                                                          *)
(* The data of a datagram is abstracted to the connection it was sent for;  *)
(* neither receiver reads the sequence count, so it is left out.  Both ends *)
(* send every RPI while a connection runs, and the network may lose, delay, *)
(* reorder and repeat: a datagram of any connection that ever produced may  *)
(* arrive at any later time.  Time is left out: the watchdog may find the   *)
(* window of any consumer to have passed.                                   *)
(***************************************************************************)
EXTENDS Integers, Sequences, FiniteSets, FiniteSetsExt

CONSTANTS
    Scanner,        \* IOScanner objects, each with its own TCP session
    App,            \* application goroutines
    Of,             \* Of[g] is the scanner the goroutine g uses
    Calls,          \* Calls[g] are the methods the goroutine g calls
    Faulty,         \* scanners whose session may break and whose process may die
    OriginatorSN,   \* OriginatorSN[s] of WithOriginatorSerial
    MaxOpens        \* bound on the calls of Open

ASSUME IOAssumption ==
    /\ Of \in [App -> Scanner]
    /\ Calls \in [App -> SUBSET {"open", "close", "shutdown"}]
    /\ Faulty \subseteq Scanner
    /\ MaxOpens \in Nat

VARIABLES
    nextID,     \* s.nextOTID and s.nextSerial, which advance together
    up,         \* "up", "closing" (in Shutdown), "down" (UDP closed), "crashed"
    receiving,  \* the scanner's receiveLoop runs
    table,      \* s.connections, the connections the scanner receives on
    ioconn,     \* IOConn objects: producer loop, source of the input data
    pc,         \* what the application goroutine is doing
    alive,      \* the scanner's TCP session works
    xch,        \* the exchange in progress on the session (ioMu), or Free
    made,       \* connections created: scanner, O->T id, T->O id
    cm,         \* cm.connections
    rt,         \* r.connections: the connection each id is registered for
    stored,     \* the connection whose data assembly 100 holds, or 0
    expired     \* connections whose consumer the watchdog removed (history)

scannerVars == <<nextID, up, receiving, table, ioconn, pc>>
adapterVars == <<made, cm, rt, stored, expired>>
vars == <<scannerVars, alive, xch, adapterVars>>

Free == [at |-> "free"]
Idle == [at |-> "idle"]

(* A map from ids to entries, without or with one of them. *)
Without(f, id) == [i \in DOMAIN f \ {id} |-> f[i]]
With(f, id, e) == [i \in DOMAIN f \cup {id} |-> IF i = id THEN e ELSE f[i]]

(* The triad that identifies a connection: vendor ids agree, serial and O->T id *)
(* are the same counter.                                                         *)
Triad(s, serial) == <<serial, OriginatorSN[s]>>

Init ==
    /\ nextID = [s \in Scanner |-> 0]
    /\ up = [s \in Scanner |-> "up"]
    /\ receiving = [s \in Scanner |-> TRUE]
    /\ table = [s \in Scanner |-> {}]
    /\ ioconn = <<>>
    /\ pc = [g \in App |-> Idle]
    /\ alive = [s \in Scanner |-> TRUE]
    /\ xch = [s \in Scanner |-> Free]
    /\ made = <<>> /\ cm = {}
    /\ rt = <<>> /\ stored = 0 /\ expired = {}

-----------------------------------------------------------------------------
(* The scanner: IOScanner.Open, Close and Shutdown.                         *)

(* Calls of Open so far: each advances its scanner's counters. *)
Opens == MapThenSumSet(LAMBDA t : nextID[t], Scanner)

Running(g) == up[Of[g]] # "crashed"

(* The goroutine is about to send a request for the serial number. *)
Requests(g, op, serial, then) ==
    pc' = [pc EXCEPT ![g] = [at |-> "request", op |-> op, id |-> serial, then |-> then]]

(* Mutant of OpenStart: the counters are read and not advanced. *)
OpenRepeatsID(g) ==
    /\ Running(g) /\ pc[g] = Idle /\ "open" \in Calls[g]
    /\ Opens < MaxOpens
    /\ nextID' = [nextID EXCEPT ![Of[g]] = @ + 1]
    /\ Requests(g, "open", 1, Idle)
    /\ UNCHANGED <<up, receiving, table, ioconn, alive, xch, adapterVars>>

(* Open allocates the O->T id and the serial number. *)
OpenStart(g) ==
    LET s == Of[g] IN
    /\ Running(g) /\ pc[g] = Idle /\ "open" \in Calls[g]
    /\ Opens < MaxOpens
    /\ nextID' = [nextID EXCEPT ![s] = @ + 1]
    /\ Requests(g, "open", nextID[s] + 1, Idle)
    /\ UNCHANGED <<up, receiving, table, ioconn, alive, xch, adapterVars>>

(* The part of Close before its request: stopCh is closed and the connection *)
(* leaves the scanner's table.                                                *)
CloseLocally(s, c) ==
    /\ ioconn' = [ioconn EXCEPT ![c].loop = IF @ = "running" THEN "stopping" ELSE @,
                                ![c].closed = TRUE]
    /\ table' = [table EXCEPT ![s] = @ \ {c}]

(* Close by the application; Shutdown may be closing the connection as well. *)
CloseStart(g) ==
    /\ Running(g) /\ pc[g] = Idle /\ "close" \in Calls[g]
    /\ \E c \in DOMAIN ioconn :
          /\ made[c].by = Of[g] /\ ~ioconn[c].closed
          /\ CloseLocally(Of[g], c)
          /\ Requests(g, "close", made[c].ot, Idle)
    /\ UNCHANGED <<nextID, up, receiving, alive, xch, adapterVars>>

(* Shutdown takes its snapshot of the table, closes each connection in turn, *)
(* closes done and the UDP socket, and waits for the loops.                   *)
ShutdownStart(g) ==
    LET s == Of[g] IN
    /\ pc[g] = Idle /\ up[s] = "up" /\ "shutdown" \in Calls[g]
    /\ up' = [up EXCEPT ![s] = "closing"]
    /\ pc' = [pc EXCEPT ![g] = [at |-> "shutdown", todo |-> table[s],
                                 table |-> table[s]]]
    /\ UNCHANGED <<nextID, receiving, table, ioconn, alive, xch, adapterVars>>

ShutdownCloses(g) ==
    /\ Running(g) /\ pc[g].at = "shutdown"
    /\ \E c \in pc[g].todo :
          /\ CloseLocally(Of[g], c)
          /\ Requests(g, "close", made[c].ot, [pc[g] EXCEPT !.todo = @ \ {c}])
    /\ UNCHANGED <<nextID, up, receiving, alive, xch, adapterVars>>

(* Mutant of ShutdownEnds: one connection is not closed. *)
ShutdownEndsEarly(g) ==
    /\ Running(g) /\ pc[g].at = "shutdown" /\ Cardinality(pc[g].todo) < 2
    /\ up' = [up EXCEPT ![Of[g]] = "down"]
    /\ pc' = [pc EXCEPT ![g] = [at |-> "wait", table |-> pc[g].table]]
    /\ UNCHANGED <<nextID, receiving, table, ioconn, alive, xch, adapterVars>>

ShutdownEnds(g) ==
    /\ Running(g) /\ pc[g].at = "shutdown" /\ pc[g].todo = {}
    /\ up' = [up EXCEPT ![Of[g]] = "down"]
    /\ pc' = [pc EXCEPT ![g] = [at |-> "wait", table |-> pc[g].table]]
    /\ UNCHANGED <<nextID, receiving, table, ioconn, alive, xch, adapterVars>>

Producing(s) == {c \in DOMAIN ioconn : made[c].by = s /\ ioconn[c].loop # "ended"}

ShutdownReturns(g) ==
    /\ Running(g) /\ pc[g].at = "wait"
    /\ ~receiving[Of[g]] /\ Producing(Of[g]) = {}
    /\ pc' = [pc EXCEPT ![g].at = "returned"]
    /\ UNCHANGED <<nextID, up, receiving, table, ioconn, alive, xch, adapterVars>>

(* SendCIPRequest: the request goes out once ioMu is free, or fails at once. *)
Send(g) ==
    LET s == Of[g] IN
    /\ Running(g) /\ pc[g].at = "request"
    /\ IF alive[s]
       THEN /\ xch[s] = Free
            /\ xch' = [xch EXCEPT ![s] = [at |-> "sent", op |-> pc[g].op, id |-> pc[g].id,
                                           g |-> g, c |-> 0]]
            /\ pc' = [pc EXCEPT ![g].at = "reply"]
       ELSE pc' = [pc EXCEPT ![g] = pc[g].then] /\ UNCHANGED xch
    /\ UNCHANGED <<nextID, up, receiving, table, ioconn, alive, adapterVars>>

(* The response: Open records the connection and starts its producer. *)
Receive(g) ==
    LET s == Of[g]
        x == xch[s]
    IN
    /\ Running(g) /\ pc[g].at = "reply" /\ alive[s]
    /\ x.at \in {"answered", "refused"} /\ x.g = g
    /\ IF x.op = "open" /\ x.at = "answered"
       THEN /\ ioconn' = With(ioconn, x.c, [loop |-> "running", closed |-> FALSE, in |-> 0])
            /\ table' = [table EXCEPT ![s] = {c \in @ : made[c].to # made[x.c].to} \cup {x.c}]
       ELSE UNCHANGED <<ioconn, table>>
    /\ xch' = [xch EXCEPT ![s] = Free]
    /\ pc' = [pc EXCEPT ![g] = pc[g].then]
    /\ UNCHANGED <<nextID, up, receiving, alive, adapterVars>>

(* The session broke while the goroutine waited for the response. *)
ReceiveFails(g) ==
    /\ Running(g) /\ pc[g].at = "reply" /\ ~alive[Of[g]]
    /\ pc' = [pc EXCEPT ![g] = pc[g].then]
    /\ UNCHANGED <<nextID, up, receiving, table, ioconn, alive, xch, adapterVars>>

(* The TCP session breaks: a request in flight is lost or still read by the *)
(* adapter, an answer in flight is lost.                                     *)
SessionBreaks(s) ==
    /\ s \in Faulty /\ alive[s]
    /\ alive' = [alive EXCEPT ![s] = FALSE]
    /\ \/ UNCHANGED xch
       \/ xch[s].at = "sent" /\ xch' = [xch EXCEPT ![s] = Free]
    /\ UNCHANGED <<scannerVars, adapterVars>>

(* The scanner's process dies: nothing is closed at the adapter. *)
Crash(s) ==
    /\ s \in Faulty /\ up[s] \in {"up", "closing"}
    /\ up' = [up EXCEPT ![s] = "crashed"]
    /\ receiving' = [receiving EXCEPT ![s] = FALSE]
    /\ table' = [table EXCEPT ![s] = {}]
    /\ ioconn' = [c \in DOMAIN ioconn |->
                    [ioconn[c] EXCEPT !.loop = IF made[c].by = s THEN "ended" ELSE @]]
    /\ pc' = [g \in App |-> IF Of[g] = s THEN Idle ELSE pc[g]]
    /\ alive' = [alive EXCEPT ![s] = FALSE]
    /\ UNCHANGED <<nextID, xch, adapterVars>>

-----------------------------------------------------------------------------
(* The scanner's loops.                                                      *)

(* Connections the adapter has a producer for, or once had: processTick sent *)
(* their datagrams to the scanner, and each may still arrive.                 *)
ProcessTick == DOMAIN made \ {xch[s].c : s \in {t \in Scanner : xch[t].at \in {"inserted", "half"}}}

(* handleIncomingPacket: the datagram goes to the connection with its id. *)
HandleIncomingPacket(s) ==
    /\ receiving[s] /\ up[s] # "down"
    /\ \E p \in ProcessTick, c \in table[s] :
          /\ made[p].by = s /\ made[p].to = made[c].to
          /\ ioconn' = [ioconn EXCEPT ![c].in = p]
    /\ UNCHANGED <<nextID, up, receiving, table, pc, alive, xch, adapterVars>>

ReceiveLoopEnds(s) ==
    /\ receiving[s] /\ up[s] = "down"
    /\ receiving' = [receiving EXCEPT ![s] = FALSE]
    /\ UNCHANGED <<nextID, up, table, ioconn, pc, alive, xch, adapterVars>>

(* The producer's select sees stopCh or done closed. *)
ProduceLoopEnds(c) ==
    /\ ioconn[c].loop = "stopping" \/ (ioconn[c].loop = "running" /\ up[made[c].by] = "down")
    /\ ioconn' = [ioconn EXCEPT ![c].loop = "ended"]
    /\ UNCHANGED <<nextID, up, receiving, table, pc, alive, xch, adapterVars>>

-----------------------------------------------------------------------------
(* The adapter's connection manager, one server goroutine per session.  The *)
(* callbacks run after cm.mu is released.                                    *)

Step(s, at) == xch' = [xch EXCEPT ![s].at = at]

(* Mutant of NewConnID: the lowest id no table holds is allocated again. *)
ReusedConnID ==
    CHOOSE n \in 1..(Len(made) + 1) :
        /\ <<"TO", n>> \notin DOMAIN rt
        /\ \A c \in cm : made[c].to # n
        /\ \A m \in 1..(n - 1) : <<"TO", m>> \in DOMAIN rt \/ \E c \in cm : made[c].to = m

NewConnID == Len(made) + 1

(* HandleForwardOpen up to the unlock: reject a triad in use, or insert. *)
HandleForwardOpen(s) ==
    LET x == xch[s] IN
    /\ x.at = "sent" /\ x.op = "open"
    /\ IF \E c \in cm : Triad(made[c].by, made[c].ot) = Triad(s, x.id)
       THEN Step(s, "refused") /\ UNCHANGED <<cm, made>>
       ELSE /\ made' = Append(made, [by |-> s, ot |-> x.id, to |-> NewConnID])
            /\ cm' = cm \cup {Len(made')}
            /\ xch' = [xch EXCEPT ![s].at = "inserted", ![s].c = Len(made')]
    /\ UNCHANGED <<scannerVars, alive, rt, stored, expired>>

(* OnOpen, first AddConnection: the consumer of the O->T id. *)
OnOpenConsumer(s) ==
    /\ xch[s].at = "inserted"
    /\ rt' = With(rt, <<"OT", made[xch[s].c].ot>>, xch[s].c)
    /\ Step(s, "half")
    /\ UNCHANGED <<scannerVars, alive, made, cm, stored, expired>>

(* OnOpen, second AddConnection: the producer of the T->O id.  It sends once *)
(* the application has called SetProducerAddr (io_test.go does, the adapter    *)
(* example never does).                                                        *)
OnOpenProducer(s) ==
    /\ xch[s].at = "half"
    /\ rt' = With(rt, <<"TO", made[xch[s].c].to>>, xch[s].c)
    /\ Step(s, "answered")
    /\ UNCHANGED <<scannerVars, alive, made, cm, stored, expired>>

(* HandleForwardClose up to the unlock: the connection with the triad, if any. *)
HandleForwardClose(s) ==
    LET x == xch[s]
        found == {c \in cm : Triad(made[c].by, made[c].ot) = Triad(s, x.id)}
    IN
    /\ x.at = "sent" /\ x.op = "close"
    /\ \/ found = {} /\ Step(s, "answered") /\ UNCHANGED cm
       \/ \E c \in found : /\ cm' = cm \ {c}
                           /\ xch' = [xch EXCEPT ![s].at = "removed", ![s].c = c]
    /\ UNCHANGED <<scannerVars, alive, made, rt, stored, expired>>

(* Mutant of OnCloseConsumer: the consumers of all connections are removed. *)
OnCloseClearsConsumers(s) ==
    /\ xch[s].at = "removed"
    /\ rt' = [id \in {i \in DOMAIN rt : i[1] = "TO"} |-> rt[id]]
    /\ Step(s, "halfRemoved")
    /\ UNCHANGED <<scannerVars, alive, made, cm, stored, expired>>

(* OnClose: RemoveConnection of the O->T id, then of the T->O id. *)
OnCloseConsumer(s) ==
    /\ xch[s].at = "removed"
    /\ rt' = Without(rt, <<"OT", made[xch[s].c].ot>>)
    /\ Step(s, "halfRemoved")
    /\ UNCHANGED <<scannerVars, alive, made, cm, stored, expired>>

(* Mutant of OnCloseProducer: only the consumer is removed. *)
OnCloseKeepsProducer(s) ==
    /\ xch[s].at = "halfRemoved"
    /\ Step(s, "answered")
    /\ UNCHANGED <<scannerVars, alive, adapterVars>>

OnCloseProducer(s) ==
    /\ xch[s].at = "halfRemoved"
    /\ rt' = Without(rt, <<"TO", made[xch[s].c].to>>)
    /\ Step(s, "answered")
    /\ UNCHANGED <<scannerVars, alive, made, cm, stored, expired>>

(* The answer to an exchange nobody waits for any more goes nowhere. *)
AnswerLost(s) ==
    /\ ~alive[s] /\ xch[s].at \in {"answered", "refused"}
    /\ xch' = [xch EXCEPT ![s] = Free]
    /\ UNCHANGED <<scannerVars, alive, adapterVars>>

-----------------------------------------------------------------------------
(* The adapter's runtime.                                                    *)

(* Connections a scanner has produced for: sendPacket sent their datagrams *)
(* under the O->T id.                                                        *)
SendPacket == DOMAIN ioconn

(* handlePacket: what is registered for the datagram's id takes the data. *)
HandlePacket ==
    /\ \E p \in SendPacket :
          <<"OT", made[p].ot>> \in DOMAIN rt /\ stored' = p
    /\ UNCHANGED <<scannerVars, alive, xch, made, cm, rt, expired>>

(* checkTimeouts removes the consumers whose window has passed: any of them, *)
(* since datagrams may be late by any time.                                   *)
CheckTimeouts ==
    \E stale \in SUBSET {id \in DOMAIN rt : id[1] = "OT"} :
        /\ stale # {}
        /\ rt' = [id \in DOMAIN rt \ stale |-> rt[id]]
        /\ expired' = expired \cup {rt[id] : id \in stale}
        /\ UNCHANGED <<scannerVars, alive, xch, made, cm, stored>>

-----------------------------------------------------------------------------
AppStep(g) ==
    \/ OpenStart(g) \/ CloseStart(g)
    \/ ShutdownStart(g) \/ ShutdownCloses(g) \/ ShutdownEnds(g) \/ ShutdownReturns(g)
    \/ Send(g) \/ Receive(g) \/ ReceiveFails(g)

SessionStep(s) ==
    \/ HandleForwardOpen(s) \/ OnOpenConsumer(s) \/ OnOpenProducer(s)
    \/ HandleForwardClose(s) \/ OnCloseConsumer(s) \/ OnCloseProducer(s)
    \/ AnswerLost(s)

ScannerStep(s) ==
    \/ SessionBreaks(s) \/ Crash(s)
    \/ HandleIncomingPacket(s) \/ ReceiveLoopEnds(s)

Next ==
    \/ \E g \in App : AppStep(g)
    \/ \E s \in Scanner : SessionStep(s) \/ ScannerStep(s)
    \/ \E c \in DOMAIN ioconn : ProduceLoopEnds(c)
    \/ HandlePacket \/ CheckTimeouts

Spec == Init /\ [][Next]_vars

-----------------------------------------------------------------------------
(* Properties.                                                               *)

(* The connections a server goroutine is in the middle of opening or closing. *)
Busy == {xch[s].c : s \in {t \in Scanner :
             xch[t].at \in {"inserted", "half", "removed", "halfRemoved"}}}

DistinctOriginators ==
    \A s, t \in Scanner : s # t => OriginatorSN[s] # OriginatorSN[t]

(* connmgr.go releases its lock before OnOpen and OnClose update the runtime.  *)
(* When the originators' serial numbers differ, the two tables still agree     *)
(* whenever no handler is between the two: the runtime produces for exactly    *)
(* the connections the connection manager knows, whatever opens, closes (twice *)
(* or during Shutdown), timeouts, broken sessions and crashes came before.     *)
ProducersTrackConnections ==
    DistinctOriginators =>
        {rt[id] : id \in {i \in DOMAIN rt : i[1] = "TO"}} \ Busy = cm \ Busy

(* The runtime is keyed by an O->T id that each scanner counts from 1.  An open *)
(* connection is without its consumer entry only if the watchdog removed it or  *)
(* if another scanner has used the same id.                                     *)
ConsumerLostOnlyIfShared ==
    DistinctOriginators =>
        \A c \in cm \ (Busy \cup expired) :
            \/ <<"OT", made[c].ot>> \in DOMAIN rt /\ rt[<<"OT", made[c].ot>>] = c
            \/ \E s \in Scanner \ {made[c].by} : nextID[s] >= made[c].ot

(* A connection's Input only ever holds data the adapter produced for that     *)
(* connection: a late datagram of a connection closed before cannot reach one   *)
(* opened after it, since T->O ids are not reused.                              *)
InputFromOwnConnection == \A c \in DOMAIN ioconn : ioconn[c].in \in {0, c}

(* A datagram is stored in the consumed assembly only on behalf of the          *)
(* connection it was sent for, or of one of another scanner with the same id.   *)
CrossTalkOnlyAcrossScanners ==
    [][stored' \notin {0, stored} =>
         LET owner == rt[<<"OT", made[stored'].ot>>] IN
         owner = stored' \/ made[owner].by # made[stored'].by]_vars

(* When Shutdown has returned and the session held, the adapter knows none of *)
(* the connections that were in the scanner's table when Shutdown began, even  *)
(* if the application closed some of them meanwhile.  Connections left behind  *)
(* are those whose Open raced with Shutdown.                                   *)
ShutdownClosesTable ==
    \A g \in App : pc[g].at = "returned" /\ alive[Of[g]] => pc[g].table \cap cm = {}
=============================================================================
