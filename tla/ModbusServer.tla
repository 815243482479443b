----------------------------- MODULE ModbusServer -----------------------------
(***************************************************************************)
(* modbus/server.go: Start and Stop, the accept loop, one goroutine per      *)
(* connection, and the table of clients, keyed by the remote address.  Each  *)
(* Start makes a stop channel and a listener of its own (number n for the    *)
(* n-th Start); Stop runs under s.mutex and is one step.  What the handlers   *)
(* do to the store is the subject of ModbusStore; here a request is a frame  *)
(* that is read, dispatched and answered.                                    *)
(***************************************************************************)
EXTENDS Integers, Sequences, FiniteSets

CONSTANTS
    Conn,           \* connections dialled over the life of the server
    Addr,           \* what conn.RemoteAddr().String() can be
    Injected,       \* the connection WithServerConn may give: at most one
    MaxClients,     \* WithMaxClients; 0 is no limit
    MaxStarts,      \* bound: successful Starts
    MaxFrames       \* bound: frames sent, over all connections

ASSUME ServerAssumption ==
    /\ MaxClients \in Nat /\ MaxStarts \in Nat /\ MaxFrames \in Nat
    /\ Injected \subseteq Conn /\ \A c, d \in Injected : c = d
    /\ 0 \notin Conn /\ Addr # {}

Loop == 1..MaxStarts
None == 0

(* A frame whose header is not taken whole or not taken for Modbus (a foreign  *)
(* protocol ID, a pause beyond the read deadline), one whose length leaves no  *)
(* PDU, and one with the pause in its body.                                    *)
BadFrame == {"misframed", "empty", "slowBody"}

VARIABLES
    running,        \* s.running
    starts,         \* Starts so far: the number of the current s.stopChan
    stopped,        \* stop channels closed
    start,          \* Start between its unlock and go handleConnection; or panicked
    client,         \* its client: the connection whose address it has read
    listener,       \* s.listener, as the number of the Start that made it
    injected,       \* s.injectedConn
    closedLn,       \* listeners closed
    loop, ln, got,  \* accept loop: position, captured listener, accepted conn
    clients,        \* s.clients: from remote address to connection
    backlog,        \* dialled, not accepted, by listener
    addr,           \* remoteAddr, by connection
    sock,           \* server end: "none", "dialled", "open", "closed"
    peer,           \* client end still open
    inbox,          \* frames the server has not read
    sync,           \* the server reads at frame boundaries
    hc,             \* the connection's goroutine
    told,           \* what the callbacks reported: "none", "up", "down"
    frames,         \* frames sent so far
    raced           \* history: on their way to the table when the last Stop ran

life == <<running, starts, stopped, start, client, listener, injected, closedLn>>
accept == <<loop, ln, got, backlog>>
wire == <<addr, peer, inbox, sync, frames>>
vars == <<life, accept, clients, sock, wire, hc, told, raced>>

Served == {c \in Conn : hc[c] # "none"}
Tracked(c) == addr[c] \in DOMAIN clients /\ clients[addr[c]] = c

(* The connections an accept loop, or Start, has in hand and not registered.  *)
Held ==
    {got[n] : n \in {m \in Loop : loop[m] \in {"check", "register"}}}
      \cup (IF start = "register" THEN {client} ELSE {})

Init ==
    /\ running = FALSE /\ starts = 0 /\ stopped = {} /\ start = "idle" /\ client = None /\ listener = None
    /\ injected \in {{}, Injected} /\ closedLn = {}
    /\ loop = [n \in Loop |-> "none"] /\ ln = [n \in Loop |-> None]
    /\ got = [n \in Loop |-> None]
    /\ clients = [a \in {} |-> None]
    /\ backlog = [n \in Loop |-> {}]
    /\ addr = [c \in Conn |-> CHOOSE a \in Addr : TRUE]
    /\ sock = [c \in Conn |-> IF c \in injected THEN "dialled" ELSE "none"]
    /\ peer = [c \in Conn |-> c \in injected]
    /\ inbox = [c \in Conn |-> <<>>] /\ sync = [c \in Conn |-> TRUE]
    /\ hc = [c \in Conn |-> "none"]
    /\ told = [c \in Conn |-> "none"]
    /\ frames = 0 /\ raced = {}

-----------------------------------------------------------------------------
(* s.clients[remoteAddr] = client, the callback, go s.handleConnection *)
Register(c, at) ==
    /\ clients' = [a \in DOMAIN clients \cup {addr[c]} |->
                    IF a = addr[c] THEN c ELSE clients[a]]
    /\ told' = [told EXCEPT ![c] = "up"]
    /\ hc' = [hc EXCEPT ![c] = at]

(* Start with a connection from WithServerConn: the mutex is released before  *)
(* s.injectedConn is read again, once for its address and once for itself,    *)
(* and the client is registered under another mutex.  Stop may run before      *)
(* each of these, and a Start of somebody else's after that Stop.             *)
StartInjected ==
    /\ ~running /\ start = "idle" /\ starts < MaxStarts /\ injected # {}
    /\ running' = TRUE /\ starts' = starts + 1 /\ start' = "inject"
    /\ UNCHANGED <<stopped, client, listener, injected, closedLn, accept, clients, sock, wire, hc,
                   told, raced>>

ReadInjectedAddr ==
    /\ start = "inject" /\ start' = "capture"
    /\ client' \in injected
    /\ UNCHANGED <<running, starts, stopped, listener, injected, closedLn, accept, clients, sock,
                   wire, hc, told, raced>>

(* Stop has set s.injectedConn to nil meanwhile: a method call on nil. *)
InjectedGone ==
    /\ start = "inject" /\ injected = {} /\ start' = "panic"
    /\ UNCHANGED <<running, starts, stopped, client, listener, injected, closedLn, accept, clients,
                   sock, wire, hc, told, raced>>

CaptureInjected ==
    /\ start = "capture" /\ injected # {} /\ start' = "register"
    /\ sock' = [sock EXCEPT ![client] = "open"]
    /\ UNCHANGED <<running, starts, stopped, client, listener, injected, closedLn, accept, clients,
                   wire, hc, told, raced>>

(* The client's address is the connection's, but its conn is nil. *)
CaptureNil ==
    /\ start = "capture" /\ injected = {} /\ start' = "registerNil"
    /\ UNCHANGED <<running, starts, stopped, client, listener, injected, closedLn, accept, clients,
                   sock, wire, hc, told, raced>>

RegisterInjected ==
    /\ start \in {"register", "registerNil"} /\ start' = "idle"
    /\ Register(client, IF start = "register" THEN "read" ELSE "nil")
    /\ UNCHANGED <<running, starts, stopped, client, listener, injected, closedLn, accept, sock, wire,
                   raced>>

StartListening ==
    /\ ~running /\ starts < MaxStarts /\ injected = {}
    /\ running' = TRUE /\ starts' = starts + 1 /\ listener' = starts + 1
    /\ loop' = [loop EXCEPT ![starts + 1] = "begin"]
    /\ UNCHANGED <<stopped, start, client, injected, closedLn, ln, got, clients, backlog, sock, wire,
                   hc, told, raced>>

(* Mutant of Stop: the connections are left to their goroutines. *)
StopKeepsClients ==
    /\ running
    /\ stopped' = stopped \cup {starts}
    /\ closedLn' = closedLn \cup ({listener} \ {None})
    /\ listener' = None
    /\ sock' = [c \in Conn |->
                 IF \E n \in Loop : n = listener /\ c \in backlog[n] THEN "closed" ELSE sock[c]]
    /\ injected' = {} /\ running' = FALSE
    /\ raced' = Held \ {None}
    /\ UNCHANGED <<starts, start, client, accept, clients, wire, hc, told>>

(* Closing the listener also resets the connections in its backlog. *)
Stop ==
    /\ running
    /\ stopped' = stopped \cup {starts}
    /\ closedLn' = closedLn \cup ({listener} \ {None})
    /\ listener' = None
    /\ sock' = [c \in Conn |->
                 IF \/ Tracked(c) /\ sock[c] = "open"
                    \/ \E n \in Loop : n = listener /\ c \in backlog[n]
                 THEN "closed" ELSE sock[c]]
    /\ clients' = [a \in {} |-> None]
    /\ injected' = {} /\ running' = FALSE
    /\ raced' = Held \ {None}
    /\ UNCHANGED <<starts, start, client, accept, wire, hc, told>>

(* Stop closes the conn of every client, and one of them is nil. *)
StopMeetsNil ==
    /\ running /\ \E a \in DOMAIN clients : hc[clients[a]] = "nil"
    /\ start' = "panic"
    /\ UNCHANGED <<running, starts, stopped, client, listener, injected, closedLn, accept, clients,
                   sock, wire, hc, told, raced>>

-----------------------------------------------------------------------------
(* The accept loop of the n-th Start.  It reads s.stopChan, the channel of    *)
(* the latest Start, not the one it was started with.                         *)
StopSeen == starts \in stopped

Goto(n, where) == loop' = [loop EXCEPT ![n] = where]

LoopBegin(n) ==
    /\ loop[n] = "begin"
    /\ ln' = [ln EXCEPT ![n] = listener]
    /\ Goto(n, IF listener = None THEN "exit" ELSE "accept")
    /\ UNCHANGED <<life, got, backlog, clients, sock, wire, hc, told, raced>>

(* Mutant of LoopStops: an error from Accept leads back to it without a look   *)
(* at the stop channel.                                                         *)
LoopIgnoresStop(n) ==
    /\ loop[n] = "accept" /\ StopSeen /\ ln[n] \notin closedLn
    /\ Goto(n, "exit")
    /\ UNCHANGED <<life, ln, got, backlog, clients, sock, wire, hc, told, raced>>

(* One turn of the loop: the poll of s.stopChan before Accept, or after Accept *)
(* has failed, ends it.  Without that a timeout or a closed listener leads     *)
(* back to the top, which changes nothing: the loop of an earlier Start spins  *)
(* on its closed listener until the next Stop.                                 *)
LoopStops(n) ==
    /\ loop[n] = "accept" /\ StopSeen
    /\ Goto(n, "exit")
    /\ UNCHANGED <<life, ln, got, backlog, clients, sock, wire, hc, told, raced>>

AcceptConn(n) ==
    /\ loop[n] = "accept" /\ ~StopSeen /\ ln[n] \notin closedLn
    /\ \E c \in backlog[ln[n]] :
        /\ got' = [got EXCEPT ![n] = c]
        /\ backlog' = [backlog EXCEPT ![ln[n]] = @ \ {c}]
        /\ sock' = [sock EXCEPT ![c] = "open"]
    /\ Goto(n, "check")
    /\ UNCHANGED <<life, ln, clients, wire, hc, told, raced>>

Full == MaxClients > 0 /\ Cardinality(DOMAIN clients) >= MaxClients

(* Mutant of LimitCheck: the limit is off by one. *)
LimitCheckOffByOne(n) ==
    /\ loop[n] = "check"
    /\ IF MaxClients > 0 /\ Cardinality(DOMAIN clients) > MaxClients
       THEN /\ Goto(n, "accept") /\ got' = [got EXCEPT ![n] = None]
            /\ sock' = [sock EXCEPT ![got[n]] = "closed"]
       ELSE Goto(n, "register") /\ UNCHANGED <<got, sock>>
    /\ UNCHANGED <<life, ln, backlog, clients, wire, hc, told, raced>>

LimitCheck(n) ==
    /\ loop[n] = "check"
    /\ IF Full
       THEN /\ Goto(n, "accept") /\ got' = [got EXCEPT ![n] = None]
            /\ sock' = [sock EXCEPT ![got[n]] = "closed"]
       ELSE Goto(n, "register") /\ UNCHANGED <<got, sock>>
    /\ UNCHANGED <<life, ln, backlog, clients, wire, hc, told, raced>>

RegisterClient(n) ==
    /\ loop[n] = "register"
    /\ Register(got[n], "read")
    /\ Goto(n, "accept") /\ got' = [got EXCEPT ![n] = None]
    /\ UNCHANGED <<life, ln, backlog, sock, wire, raced>>

-----------------------------------------------------------------------------
(* handleConnection.  A read from a nil conn panics.  Start's read of          *)
(* s.injectedConn and Stop's write of it are a data race, and one that falls   *)
(* between the two words of the interface leaves a nil *net.TCPConn: reads of  *)
(* that, and its Close, fail without a panic.                                 *)
ReadNil(c) ==
    /\ hc[c] = "nil"
    /\ \/ start' = "panic" /\ UNCHANGED hc
       \/ hc' = [hc EXCEPT ![c] = "defer"] /\ UNCHANGED start
    /\ UNCHANGED <<running, starts, stopped, client, listener, injected, closedLn, accept, clients,
                   sock, wire, told, raced>>

(* A read timeout between two frames changes nothing. *)
ReadEnds(c) ==
    /\ hc[c] = "read"
    /\ sock[c] = "closed" \/ (~peer[c] /\ inbox[c] = <<>>)
    /\ hc' = [hc EXCEPT ![c] = "defer"]
    /\ UNCHANGED <<life, accept, clients, sock, wire, told, raced>>

CanRead(c) == hc[c] = "read" /\ sock[c] = "open" /\ inbox[c] # <<>>

(* The header, or a part of it, is consumed; the rest of the frame is read as *)
(* a header next.  A pause in the body ends the connection.                   *)
BadHeader(c) ==
    /\ CanRead(c) /\ sync[c] /\ Head(inbox[c]) \in BadFrame
    /\ inbox' = [inbox EXCEPT ![c] = IF Head(@) = "misframed"
                                     THEN <<"rest">> \o Tail(@) ELSE Tail(@)]
    /\ sync' = [sync EXCEPT ![c] = Head(inbox[c]) # "misframed"]
    /\ hc' = [hc EXCEPT ![c] = IF Head(inbox[c]) = "slowBody" THEN "defer" ELSE @]
    /\ UNCHANGED <<life, accept, clients, sock, addr, peer, frames, told, raced>>

(* Off the frame boundaries anything may be read: bytes are skipped, or make  *)
(* a request, or announce a body that never comes.                            *)
Misread(c) ==
    /\ CanRead(c) /\ ~sync[c]
    /\ inbox' = [inbox EXCEPT ![c] = Tail(@)]
    /\ \E back \in BOOLEAN : sync' = [sync EXCEPT ![c] = back]
    /\ hc' \in {hc, [hc EXCEPT ![c] = "defer"]}
    /\ UNCHANGED <<life, accept, clients, sock, addr, peer, frames, told, raced>>

(* dispatchRequest, the handler and sendResponse.  That a send fails is only  *)
(* logged; a handler of the application's that returns an error other than a *)
(* ModbusError ends the connection.                                          *)
Dispatch(c) ==
    /\ CanRead(c) /\ sync[c] /\ Head(inbox[c]) = "request"
    /\ inbox' = [inbox EXCEPT ![c] = Tail(@)]
    /\ hc' \in {hc, [hc EXCEPT ![c] = "defer"]}
    /\ UNCHANGED <<life, accept, clients, sock, addr, peer, sync, frames, told, raced>>

(* Mutant of Deferred: the table is cleared before the entry is replaced. *)
DeferredClearsTable(c) ==
    /\ hc[c] = "defer"
    /\ told' = [told EXCEPT ![c] = "down"]
    /\ clients' = [a \in {} |-> None]
    /\ sock' = [sock EXCEPT ![c] = IF @ = "open" THEN "closed" ELSE @]
    /\ hc' = [hc EXCEPT ![c] = "gone"]
    /\ inbox' = [inbox EXCEPT ![c] = <<>>]
    /\ UNCHANGED <<life, accept, addr, peer, sync, frames, raced>>

(* The deferred function: the callback, delete by address, Close. *)
Deferred(c) ==
    /\ hc[c] = "defer"
    /\ told' = [told EXCEPT ![c] = "down"]
    /\ clients' = [a \in DOMAIN clients \ {addr[c]} |-> clients[a]]
    /\ sock' = [sock EXCEPT ![c] = IF @ = "open" THEN "closed" ELSE @]
    /\ hc' = [hc EXCEPT ![c] = "gone"]
    /\ inbox' = [inbox EXCEPT ![c] = <<>>]
    /\ UNCHANGED <<life, accept, addr, peer, sync, frames, raced>>

-----------------------------------------------------------------------------
(* The clients *)
Dial(c) ==
    /\ sock[c] = "none" /\ listener # None
    /\ sock' = [sock EXCEPT ![c] = "dialled"]
    /\ peer' = [peer EXCEPT ![c] = TRUE]
    /\ \E a \in Addr : addr' = [addr EXCEPT ![c] = a]
    /\ backlog' = [backlog EXCEPT ![listener] = @ \cup {c}]
    /\ UNCHANGED <<life, loop, ln, got, clients, inbox, sync, frames, hc, told, raced>>

ClientSends(c) ==
    /\ peer[c] /\ sock[c] # "closed" /\ frames < MaxFrames
    /\ \E f \in {"request"} \cup BadFrame : inbox' = [inbox EXCEPT ![c] = Append(@, f)]
    /\ frames' = frames + 1
    /\ UNCHANGED <<life, accept, clients, sock, addr, peer, sync, hc, told, raced>>

PeerCloses(c) ==
    /\ peer[c]
    /\ peer' = [peer EXCEPT ![c] = FALSE]
    /\ UNCHANGED <<life, accept, clients, sock, addr, inbox, sync, frames, hc, told, raced>>

(* A panic ends the process. *)
Alive == start # "panic"

LoopStep(n) ==
    /\ Alive
    /\ \/ LoopBegin(n) \/ LoopStops(n) \/ AcceptConn(n)
       \/ LimitCheck(n) \/ RegisterClient(n)

ConnStep(c) ==
    /\ Alive
    /\ \/ ReadNil(c) \/ ReadEnds(c) \/ BadHeader(c) \/ Misread(c) \/ Dispatch(c) \/ Deferred(c)

ClientStep(c) == Alive /\ (Dial(c) \/ ClientSends(c) \/ PeerCloses(c))

Next ==
    \/ StartInjected \/ ReadInjectedAddr \/ InjectedGone
    \/ CaptureInjected \/ CaptureNil \/ RegisterInjected
    \/ (Alive /\ (StartListening \/ Stop \/ StopMeetsNil))
    \/ \E n \in Loop : LoopStep(n)
    \/ \E c \in Conn : ConnStep(c) \/ ClientStep(c)

Spec == Init /\ [][Next]_vars

(* Goroutines that can run do run; Accept returns within its deadline. *)
Fairness ==
    /\ \A n \in Loop : WF_vars(LoopStep(n))
    /\ \A c \in Conn : WF_vars(ConnStep(c))

FairSpec == Spec /\ Fairness

-----------------------------------------------------------------------------
Open(c) == hc[c] = "read" /\ sock[c] = "open"

SharesAddress(c) == \E d \in Served \ {c} : addr[d] = addr[c]

(* A connection that is being served is in the client table under its         *)
(* address, where Stop, ConnectedClients and the limit find it, unless        *)
(* another served connection has had the same address (the deferred delete    *)
(* in handleConnection goes by address, server.go:440).                       *)
TrackedUnlessShared == \A c \in Conn : Open(c) /\ ~SharesAddress(c) => Tracked(c)

(* The table outgrows WithMaxClients by at most one entry per restart: each    *)
(* accept loop tests the limit and registers without holding the lock in      *)
(* between, so only loops of different Starts can race (server.go:388-408).   *)
LimitKept ==
    MaxClients > 0 /\ starts > 0 =>
        Cardinality(DOMAIN clients) <= MaxClients + starts - 1

(* What Stop leaves open is only what was on its way to the table when it     *)
(* ran: accepted, and not yet registered, by an accept loop                    *)
(* (server.go:368-408), or captured by Start from WithServerConn and not yet   *)
(* registered (server.go:231-236); or a connection whose table entry a         *)
(* namesake took.  A later Stop closes those too, once they are registered.    *)
OnlyRacedSurvive ==
    \A c \in Conn : ~running /\ Open(c) => c \in raced \/ SharesAddress(c)

(* When the server stays stopped, every accept loop returns, those of earlier *)
(* Starts included: they poll the latest stop channel (server.go:359).        *)
LoopsReturn ==
    <>[](~running) =>
        <>[](~Alive \/ \A n \in Loop : loop[n] \in {"none", "exit"})
=============================================================================
