------------------------- MODULE ModbusServerProofs -------------------------
(***************************************************************************)
(* Proofs about the Modbus server's client table, for any number of          *)
(* connections, addresses and restarts.                                      *)
(***************************************************************************)
EXTENDS ModbusServer, FiniteSetTheorems, TLAPS

Holding(n) == loop[n] \in {"check", "register"}
Registering == {n \in Loop : loop[n] = "register"}

(* Start on its way to serving an injected connection, and with it in hand. *)
InHand == start \in {"capture", "register", "registerNil"}
Injecting == start = "inject" \/ InHand

TypeInv ==
    /\ running \in BOOLEAN /\ starts \in 0..MaxStarts /\ start \in {"idle", "inject", "capture", "register", "registerNil", "panic"}
    /\ client \in Conn \cup {None} /\ (InHand => client \in Conn)
    /\ listener \in 0..MaxStarts /\ injected \subseteq Conn
    /\ loop \in [Loop -> {"none", "begin", "accept", "check", "register", "exit"}]
    /\ ln \in [Loop -> 0..MaxStarts]
    /\ \A n \in Loop : loop[n] = "accept" \/ Holding(n) => ln[n] \in Loop
    /\ got \in [Loop -> Conn \cup {None}]
    /\ backlog \in [Loop -> SUBSET Conn]
    /\ sock \in [Conn -> {"none", "dialled", "open", "closed"}]
    /\ addr \in [Conn -> Addr]
    /\ hc \in [Conn -> {"none", "nil", "read", "defer", "gone"}]

(* Until it is served a connection is in one place: in one backlog, in the    *)
(* hands of one accept loop or of Start, or injected.                         *)
Unserved ==
    /\ \A c \in Conn : hc[c] # "none" => sock[c] # "none"
    /\ \A n \in Loop : Holding(n) => got[n] \in Conn /\ hc[got[n]] = "none" /\ sock[got[n]] = "open"
    /\ \A m, n \in Loop : Holding(m) /\ Holding(n) /\ got[m] = got[n] => m = n
    /\ \A n \in Loop : \A c \in backlog[n] : hc[c] = "none" /\ sock[c] \in {"dialled", "closed"}
    /\ \A m, n \in Loop : backlog[m] \cap backlog[n] # {} => m = n
    /\ InHand =>
         /\ hc[client] = "none" /\ sock[client] = (IF start = "register" THEN "open" ELSE "dialled")
         /\ \A n \in Loop : client \notin backlog[n] /\ (Holding(n) => got[n] # client)
    /\ Injecting /\ injected # {} => running
    /\ (start = "idle" /\ ~running) \/ start = "inject" =>
         \A c \in injected : hc[c] = "none" /\ sock[c] = "dialled" /\ \A n \in Loop : c \notin backlog[n]

(* What is in the table has been served. *)
InTable ==
    /\ clients \in [DOMAIN clients -> Conn]
    /\ \A a \in DOMAIN clients : hc[clients[a]] # "none"

(* A loop or Start can hold a connection while the server is stopped only     *)
(* since Stop.                                                               *)
Stopped ==
    /\ \A n \in Loop : loop[n] # "none" => n <= starts
    /\ ~running => starts = 0 \/ StopSeen
    /\ ~running => \A n \in Loop : Holding(n) => got[n] \in raced
    /\ ~running /\ start = "register" => client \in raced

TableInv == TypeInv /\ Unserved /\ InTable /\ Stopped /\ TrackedUnlessShared /\ OnlyRacedSurvive

(* Every step keeps the types. *)
LEMMA TypeStep == TypeInv /\ [Next]_vars => TypeInv'
<1> SUFFICES ASSUME TypeInv, [Next]_vars PROVE TypeInv'
  BY Zenon
<1> USE ServerAssumption DEF ServerAssumption, TypeInv, Holding, InHand, Loop, None
<1>1. CASE StartInjected
  BY <1>1 DEF StartInjected, accept, wire
<1>2. CASE ReadInjectedAddr
  BY <1>2, Zenon DEF ReadInjectedAddr, accept, wire
<1>3. CASE InjectedGone \/ StopMeetsNil
  BY <1>3, Zenon DEF InjectedGone, StopMeetsNil, accept, wire
<1>a. CASE CaptureInjected
  BY <1>a, Zenon DEF CaptureInjected, accept, wire
<1>b. CASE CaptureNil
  BY <1>b, Zenon DEF CaptureNil, accept, wire
<1>c. CASE RegisterInjected
  <2>1. Register(client, IF start = "register" THEN "read" ELSE "nil")
        /\ start' = "idle" /\ UNCHANGED <<running, starts, client, listener, injected, loop, ln, got, backlog, sock, addr>>
    BY <1>c, Zenon DEF RegisterInjected, accept, wire
  <2>2. (IF start = "register" THEN "read" ELSE "nil") \in {"read", "nil"}
    BY Zenon
  <2>3. hc' \in [Conn -> {"none", "nil", "read", "defer", "gone"}]
    BY <2>1, <2>2, Zenon DEF Register
  <2> QED
    BY <2>1, <2>3, Zenon
<1>4. CASE StartListening
  BY <1>4 DEF StartListening, wire
<1>5. CASE Stop
  <2>1. sock' \in [Conn -> {"none", "dialled", "open", "closed"}]
    BY <1>5, Zenon DEF Stop
  <2>2. /\ running' = FALSE /\ injected' = {} /\ listener' = None
        /\ UNCHANGED <<starts, start, client, loop, ln, got, backlog, addr, hc>>
    BY <1>5, Zenon DEF Stop, accept, wire
  <2>3. running' \in BOOLEAN
    BY <2>2, Zenon
  <2>4. injected' \subseteq Conn
    BY <2>2, Zenon
  <2>5. listener' \in 0..MaxStarts
    BY <2>2
  <2> QED
    BY <2>1, <2>2, <2>3, <2>4, <2>5, Zenon
<1>6. ASSUME NEW n \in Loop, LoopStep(n) PROVE TypeInv'
  <2>1. CASE LoopBegin(n)
    BY <2>1 DEF LoopBegin, Goto, life, wire
  <2>2. CASE LoopStops(n)
    BY <2>2, Zenon DEF LoopStops, Goto, life, wire
  <2>3. CASE AcceptConn(n)
    <3> PICK c \in backlog[ln[n]] :
           /\ got' = [got EXCEPT ![n] = c]
           /\ backlog' = [backlog EXCEPT ![ln[n]] = @ \ {c}]
           /\ sock' = [sock EXCEPT ![c] = "open"]
      BY <2>3, Zenon DEF AcceptConn
    <3>1. loop' = [loop EXCEPT ![n] = "check"]
          /\ UNCHANGED <<running, starts, start, client, listener, injected, ln, addr, hc>>
      BY <2>3, Zenon DEF AcceptConn, Goto, life, wire
    <3>2. ln[n] \in Loop /\ c \in Conn
      BY <2>3, Zenon DEF AcceptConn
    <3> QED
      BY <3>1, <3>2, Zenon
  <2>4. CASE LimitCheck(n)
    BY <2>4, Zenon DEF LimitCheck, Goto, life, wire
  <2>5. CASE RegisterClient(n)
    BY <2>5, Zenon DEF RegisterClient, Register, Goto, life, wire
  <2> QED
    BY <1>6, <2>1, <2>2, <2>3, <2>4, <2>5, Zenon DEF LoopStep
<1>7. ASSUME NEW c \in Conn, ConnStep(c) PROVE TypeInv'
  <2>0. CASE ReadNil(c)
    BY <2>0, Zenon DEF ReadNil, accept, wire
  <2>1. CASE ReadEnds(c) \/ Dispatch(c) \/ Misread(c)
    BY <2>1, Zenon DEF ReadEnds, Dispatch, Misread, life, accept, wire
  <2>2. CASE BadHeader(c)
    BY <2>2, Zenon DEF BadHeader, life, accept
  <2>3. CASE Deferred(c)
    BY <2>3, Zenon DEF Deferred, life, accept
  <2> QED
    BY <1>7, <2>0, <2>1, <2>2, <2>3, Zenon DEF ConnStep
<1>8. ASSUME NEW c \in Conn, ClientStep(c) PROVE TypeInv'
  <2>1. CASE Dial(c)
    BY <2>1 DEF Dial, life
  <2>2. CASE ClientSends(c)
    BY <2>2, Zenon DEF ClientSends, life, accept
  <2>3. CASE PeerCloses(c)
    BY <2>3, Zenon DEF PeerCloses, life, accept
  <2> QED
    BY <1>8, <2>1, <2>2, <2>3, Zenon DEF ClientStep
<1>9. CASE UNCHANGED vars
  BY <1>9, Zenon DEF vars, life, accept, wire
<1> QED
  BY <1>1, <1>2, <1>3, <1>a, <1>b, <1>c, <1>4, <1>5, <1>6, <1>7, <1>8, <1>9, Zenon DEF Next

(* Every step keeps unserved connections out of the table. *)
LEMMA UnservedStep == TypeInv /\ Unserved /\ InTable /\ [Next]_vars => Unserved'
<1> SUFFICES ASSUME TypeInv, Unserved, InTable, [Next]_vars PROVE Unserved'
  BY Zenon
<1> USE DEF TypeInv, Unserved, Holding, InHand, Injecting
<1>1. CASE StartInjected
  BY <1>1 DEF StartInjected, accept, wire
<1>2. CASE ReadInjectedAddr
  <2>1. /\ start = "inject" /\ start' = "capture" /\ client' \in injected
        /\ UNCHANGED <<running, injected, loop, got, backlog, sock, hc>>
    BY <1>2, Zenon DEF ReadInjectedAddr, accept
  <2>2. hc[client'] = "none" /\ sock[client'] = "dialled" /\ \A n \in Loop : client' \notin backlog[n]
    BY <2>1, Zenon
  <2>3. \A n \in Loop : Holding(n) => got[n] # client'
    BY <2>2
  <2> QED
    BY <2>1, <2>2, <2>3
<1>3. CASE InjectedGone \/ StopMeetsNil
  <2>1. start' = "panic" /\ UNCHANGED <<running, injected, loop, got, backlog, sock, hc>>
    BY <1>3, Zenon DEF InjectedGone, StopMeetsNil, accept
  <2> QED
    BY <2>1
<1>a. CASE CaptureInjected
  BY <1>a DEF CaptureInjected, accept
<1>b. CASE CaptureNil
  BY <1>b DEF CaptureNil, accept
<1>c. CASE RegisterInjected
  <2>1. /\ InHand /\ start' = "idle" /\ UNCHANGED <<running, injected, loop, got, backlog, sock>>
        /\ \E at \in {"read", "nil"} : hc' = [hc EXCEPT ![client] = at]
    BY <1>c, Zenon DEF RegisterInjected, Register, accept
  <2> QED
    BY <2>1
<1>4. CASE StartListening
  BY <1>4 DEF StartListening, wire
<1>5. CASE Stop
  <2>1. injected' = {} /\ UNCHANGED <<start, client, loop, got, backlog, hc>>
    BY <1>5, Zenon DEF Stop, accept
  <2>2. ASSUME NEW c \in Conn PROVE sock'[c] = sock[c] \/ sock'[c] = "closed"
    BY <1>5, Zenon DEF Stop
  <2>3. ASSUME NEW n \in Loop, Holding(n) PROVE sock'[got[n]] = "open"
    BY <1>5, <2>3, Zenon DEF Stop, Tracked, InTable
  <2>4. InHand => sock'[client] = sock[client]
    BY <1>5, Zenon DEF Stop, Tracked, InTable
  <2> QED
    BY <2>1, <2>2, <2>3, <2>4
<1>6. ASSUME NEW n \in Loop, LoopStep(n) PROVE Unserved'
  <2>1. CASE LoopBegin(n)
    BY <2>1 DEF LoopBegin, Goto, life, wire
  <2>2. CASE LoopStops(n)
    BY <2>2 DEF LoopStops, Goto, life, wire
  <2>3. CASE AcceptConn(n)
    <3> PICK c \in backlog[ln[n]] :
           /\ got' = [got EXCEPT ![n] = c]
           /\ backlog' = [backlog EXCEPT ![ln[n]] = @ \ {c}]
           /\ sock' = [sock EXCEPT ![c] = "open"]
      BY <2>3, Zenon DEF AcceptConn
    <3>1. loop' = [loop EXCEPT ![n] = "check"]
          /\ UNCHANGED <<running, start, client, injected, hc>>
      BY <2>3, Zenon DEF AcceptConn, Goto, life
    <3>2. ln[n] \in Loop /\ c \in Conn /\ loop[n] = "accept"
      BY <2>3, Zenon DEF AcceptConn
    <3> QED
      BY <3>1, <3>2
  <2>4. CASE LimitCheck(n)
    BY <2>4 DEF LimitCheck, Goto, life
  <2>5. CASE RegisterClient(n)
    BY <2>5 DEF RegisterClient, Register, Goto, life
  <2> QED
    BY <1>6, <2>1, <2>2, <2>3, <2>4, <2>5, Zenon DEF LoopStep
<1>7. ASSUME NEW c \in Conn, ConnStep(c) PROVE Unserved'
  <2>0. CASE ReadNil(c)
    BY <2>0 DEF ReadNil, accept
  <2>1. CASE ReadEnds(c) \/ Dispatch(c) \/ Misread(c)
    BY <2>1 DEF ReadEnds, Dispatch, Misread, CanRead, life, accept
  <2>2. CASE BadHeader(c)
    BY <2>2 DEF BadHeader, CanRead, life, accept
  <2>3. CASE Deferred(c)
    BY <2>3 DEF Deferred, life, accept
  <2> QED
    BY <1>7, <2>0, <2>1, <2>2, <2>3, Zenon DEF ConnStep
<1>8. ASSUME NEW c \in Conn, ClientStep(c) PROVE Unserved'
  <2>1. CASE Dial(c)
    BY <2>1 DEF Dial, life, None, Loop
  <2>2. CASE ClientSends(c)
    BY <2>2, Zenon DEF ClientSends, life, accept
  <2>3. CASE PeerCloses(c)
    BY <2>3, Zenon DEF PeerCloses, life, accept
  <2> QED
    BY <1>8, <2>1, <2>2, <2>3, Zenon DEF ClientStep
<1>9. CASE UNCHANGED vars
  BY <1>9 DEF vars, life, accept
<1> QED
  BY <1>1, <1>2, <1>3, <1>a, <1>b, <1>c, <1>4, <1>5, <1>6, <1>7, <1>8, <1>9, Zenon DEF Next

(* The table, and what survives Stop. *)
LEMMA InTableStep == TypeInv /\ Unserved /\ InTable /\ [Next]_vars => InTable'
<1> SUFFICES ASSUME TypeInv, Unserved, InTable, [Next]_vars PROVE InTable'
  BY Zenon
<1> USE DEF TypeInv, InTable
<1>1. CASE StartInjected
  BY <1>1, Zenon DEF StartInjected
<1>2. CASE ReadInjectedAddr
  BY <1>2, Zenon DEF ReadInjectedAddr
<1>3. CASE InjectedGone \/ StopMeetsNil
  BY <1>3, Zenon DEF InjectedGone, StopMeetsNil
<1>a. CASE CaptureInjected
  BY <1>a, Zenon DEF CaptureInjected
<1>b. CASE CaptureNil
  BY <1>b, Zenon DEF CaptureNil
<1>c. CASE RegisterInjected
  <2>1. client \in Conn /\ \E at \in {"read", "nil"} : Register(client, at)
    BY <1>c, Zenon DEF RegisterInjected, InHand
  <2>2. PICK at \in {"read", "nil"} : Register(client, at)
    BY <2>1, Zenon
  <2>3. at # "none"
    OBVIOUS
  <2> QED
    BY <2>1, <2>2, <2>3, Zenon DEF Register
<1>4. CASE StartListening
  BY <1>4, Zenon DEF StartListening
<1>5. CASE Stop
  BY <1>5, Zenon DEF Stop
<1>6. ASSUME NEW n \in Loop, LoopStep(n) PROVE InTable'
  <2>1. CASE LoopBegin(n) \/ LoopStops(n) \/ AcceptConn(n) \/ LimitCheck(n)
    BY <2>1, Zenon DEF LoopBegin, LoopStops, AcceptConn, LimitCheck
  <2>2. CASE RegisterClient(n)
    <3>1. got[n] \in Conn
      BY <2>2, Zenon DEF RegisterClient, Unserved, Holding
    <3> QED
      BY <2>2, <3>1, Zenon DEF RegisterClient, Register
  <2> QED
    BY <1>6, <2>1, <2>2, Zenon DEF LoopStep
<1>7. ASSUME NEW c \in Conn, ConnStep(c) PROVE InTable'
  BY <1>7 DEF ConnStep, ReadNil, ReadEnds, Dispatch, Misread, BadHeader, Deferred
<1>8. ASSUME NEW c \in Conn, ClientStep(c) PROVE InTable'
  BY <1>8, Zenon DEF ClientStep, Dial, ClientSends, PeerCloses
<1>9. CASE UNCHANGED vars
  BY <1>9, Zenon DEF vars
<1> QED
  BY <1>1, <1>2, <1>3, <1>a, <1>b, <1>c, <1>4, <1>5, <1>6, <1>7, <1>8, <1>9, Zenon DEF Next

(* Every step keeps the entries of a stopped server those that came late. *)
LEMMA StoppedStep == TypeInv /\ Unserved /\ Stopped /\ [Next]_vars => Stopped'
<1> SUFFICES ASSUME TypeInv, Unserved, Stopped, [Next]_vars PROVE Stopped'
  BY Zenon
<1> USE ServerAssumption DEF ServerAssumption, TypeInv, Stopped, StopSeen, Holding, Loop
<1>1. CASE StartInjected
  BY <1>1 DEF StartInjected, accept
<1>2. CASE ReadInjectedAddr
  BY <1>2, Zenon DEF ReadInjectedAddr, accept
<1>3. CASE InjectedGone \/ StopMeetsNil
  BY <1>3, Zenon DEF InjectedGone, StopMeetsNil, accept
<1>a. CASE CaptureInjected
  BY <1>a, Zenon DEF CaptureInjected, Unserved, Injecting, InHand, accept
<1>b. CASE CaptureNil
  BY <1>b, Zenon DEF CaptureNil, accept
<1>c. CASE RegisterInjected
  BY <1>c, Zenon DEF RegisterInjected, accept
<1>4. CASE StartListening
  BY <1>4 DEF StartListening
<1>5. CASE Stop
  <2>1. ASSUME NEW n \in Loop, Holding(n) PROVE got[n] \in raced'
    BY <1>5, <2>1 DEF Stop, Held, Unserved, None
  <2>2. start = "register" => client \in raced'
    BY <1>5 DEF Stop, Held, InHand, None
  <2> QED
    BY <1>5, <2>1, <2>2, Zenon DEF Stop, accept
<1>6. ASSUME NEW n \in Loop, LoopStep(n) PROVE Stopped'
  <2>1. CASE LoopBegin(n)
    BY <2>1, Zenon DEF LoopBegin, Goto, life
  <2>2. CASE LoopStops(n)
    BY <2>2, Zenon DEF LoopStops, Goto, life
  <2>3. CASE AcceptConn(n)
    BY <2>3 DEF AcceptConn, Goto, life
  <2>4. CASE LimitCheck(n)
    BY <2>4, Zenon DEF LimitCheck, Goto, life
  <2>5. CASE RegisterClient(n)
    BY <2>5, Zenon DEF RegisterClient, Goto, life
  <2> QED
    BY <1>6, <2>1, <2>2, <2>3, <2>4, <2>5, Zenon DEF LoopStep
<1>7. ASSUME NEW c \in Conn, ConnStep(c) PROVE Stopped'
  BY <1>7 DEF ConnStep, ReadNil, ReadEnds, Dispatch, Misread, BadHeader, Deferred, life, accept
<1>8. ASSUME NEW c \in Conn, ClientStep(c) PROVE Stopped'
  BY <1>8 DEF ClientStep, Dial, ClientSends, PeerCloses, life, accept
<1>9. CASE UNCHANGED vars
  BY <1>9, Zenon DEF vars, life, accept
<1> QED
  BY <1>1, <1>2, <1>3, <1>a, <1>b, <1>c, <1>4, <1>5, <1>6, <1>7, <1>8, <1>9, Zenon DEF Next

(* Start before the registration of its client, and a Stop that panics. *)
StartStep ==
    \/ StartInjected \/ ReadInjectedAddr \/ InjectedGone \/ CaptureInjected \/ CaptureNil
    \/ StartListening \/ StopMeetsNil

(* A namesake stays one: connections are served for good and keep their address. *)
LEMMA NamesakesStay ==
    ASSUME TypeInv, Unserved, [Next]_vars, NEW c \in Conn, hc[c] # "none", SharesAddress(c)
    PROVE  SharesAddress(c)'
<1>1. ASSUME NEW d \in Conn, hc[d] # "none" PROVE hc'[d] # "none" /\ addr'[d] = addr[d]
  <2> USE <1>1 DEF TypeInv, Unserved
  <2>1. CASE StartStep \/ Stop
    BY <2>1, Zenon DEF StartStep, StartInjected, ReadInjectedAddr, InjectedGone, CaptureInjected, CaptureNil,
                       StartListening, StopMeetsNil, Stop, wire
  <2>2. CASE RegisterInjected
    <3>1. UNCHANGED addr /\ \E at \in {"read", "nil"} : hc' = [hc EXCEPT ![client] = at]
      BY <2>2, Zenon DEF RegisterInjected, Register, wire
    <3> QED
      BY <3>1, Zenon
  <2>3. ASSUME NEW n \in Loop, LoopStep(n) PROVE hc'[d] # "none" /\ addr'[d] = addr[d]
    BY <2>3, Zenon DEF LoopStep, LoopBegin, LoopStops, AcceptConn, LimitCheck, RegisterClient, Register, wire
  <2>4. ASSUME NEW e \in Conn, ConnStep(e) PROVE hc'[d] # "none" /\ addr'[d] = addr[d]
    BY <2>4 DEF ConnStep, ReadNil, ReadEnds, Dispatch, Misread, BadHeader, Deferred, wire
  <2>5. ASSUME NEW e \in Conn, ClientStep(e) PROVE hc'[d] # "none" /\ addr'[d] = addr[d]
    BY <2>5 DEF ClientStep, Dial, ClientSends, PeerCloses
  <2>6. CASE UNCHANGED vars
    BY <2>6, Zenon DEF vars, wire
  <2> QED
    BY <2>1, <2>2, <2>3, <2>4, <2>5, <2>6, Zenon DEF Next, StartStep
<1> QED
  BY <1>1, Zenon DEF SharesAddress, Served

(* Every step keeps the open connections tracked. *)
LEMMA TrackedStep ==
    TypeInv /\ Unserved /\ InTable /\ TrackedUnlessShared /\ [Next]_vars => TrackedUnlessShared'
<1> SUFFICES ASSUME TypeInv, Unserved, InTable, TrackedUnlessShared, [Next]_vars,
                    NEW c \in Conn, Open(c)', ~SharesAddress(c)'
             PROVE  Tracked(c)'
  BY Zenon DEF TrackedUnlessShared
<1> USE DEF TypeInv, Open, Tracked
<1>a. hc[c] # "none" => ~SharesAddress(c)
  BY NamesakesStay, Zenon
<1>b. Open(c) => Tracked(c)
  BY <1>a, Zenon DEF TrackedUnlessShared
<1>1. CASE StartStep
  <2>1. hc' = hc /\ UNCHANGED <<addr, clients>>
    BY <1>1, Zenon DEF StartStep, StartInjected, ReadInjectedAddr, InjectedGone, CaptureInjected, CaptureNil,
                       StartListening, StopMeetsNil, wire
  <2>2. hc[c] # "none" => sock'[c] = sock[c]
    BY <1>1, Zenon DEF StartStep, StartInjected, ReadInjectedAddr, InjectedGone, CaptureInjected, CaptureNil,
                       StartListening, StopMeetsNil, Unserved, InHand
  <2> QED
    BY <2>1, <2>2, <1>b, Zenon
<1>2. CASE RegisterInjected
  <2> PICK at \in {"read", "nil"} : Register(client, at)
    BY <1>2, Zenon DEF RegisterInjected
  <2>1. UNCHANGED <<addr, sock>> /\ client \in Conn
    BY <1>2, Zenon DEF RegisterInjected, InHand, wire
  <2>2. c # client => addr[c] # addr[client]
    BY <2>1, Zenon DEF SharesAddress, Served, Register
  <2> QED
    BY <1>b, <2>1, <2>2, Zenon DEF Register
<1>3. CASE Stop
  <2>1. Open(c) /\ ~Tracked(c)
    BY <1>3, Zenon DEF Stop
  <2> QED
    BY <1>b, <2>1, Zenon
<1>4. ASSUME NEW n \in Loop, LoopStep(n) PROVE Tracked(c)'
  <2>1. CASE LoopBegin(n) \/ LoopStops(n)
    BY <2>1, <1>b, Zenon DEF LoopBegin, LoopStops, wire
  <2>2. CASE AcceptConn(n)
    <3>1. hc[c] # "none" => sock'[c] = sock[c]
      BY <2>2 DEF AcceptConn, Unserved
    <3> QED
      BY <2>2, <3>1, <1>b, Zenon DEF AcceptConn, wire
  <2>3. CASE LimitCheck(n)
    BY <2>3, <1>b, Zenon DEF LimitCheck, wire
  <2>4. CASE RegisterClient(n)
    <3>1. got[n] \in Conn /\ Register(got[n], "read") /\ UNCHANGED <<addr, sock>>
      BY <2>4, Zenon DEF RegisterClient, Unserved, Holding, wire
    <3>2. c # got[n] => addr[c] # addr[got[n]]
      BY <3>1, Zenon DEF SharesAddress, Served, Register
    <3> QED
      BY <1>b, <3>1, <3>2, Zenon DEF Register
  <2> QED
    BY <1>4, <2>1, <2>2, <2>3, <2>4, Zenon DEF LoopStep
<1>5. ASSUME NEW d \in Conn, ConnStep(d) PROVE Tracked(c)'
  <2>1. CASE ReadNil(d) \/ ReadEnds(d) \/ Dispatch(d) \/ Misread(d) \/ BadHeader(d)
    BY <2>1, <1>b, Zenon DEF ReadNil, ReadEnds, Dispatch, Misread, BadHeader, wire
  <2>2. CASE Deferred(d)
    <3>1. c # d /\ UNCHANGED addr /\ hc'[d] = "gone"
      BY <2>2, Zenon DEF Deferred
    <3>2. addr[c] # addr[d]
      BY <3>1, Zenon DEF SharesAddress, Served
    <3> QED
      BY <2>2, <1>b, <3>1, <3>2, Zenon DEF Deferred
  <2> QED
    BY <1>5, <2>1, <2>2, Zenon DEF ConnStep
<1>6. ASSUME NEW d \in Conn, ClientStep(d) PROVE Tracked(c)'
  <2>1. CASE Dial(d)
    BY <2>1, <1>b, Zenon DEF Dial, Unserved
  <2>2. CASE ClientSends(d) \/ PeerCloses(d)
    BY <2>2, <1>b, Zenon DEF ClientSends, PeerCloses
  <2> QED
    BY <1>6, <2>1, <2>2, Zenon DEF ClientStep
<1>7. CASE UNCHANGED vars
  BY <1>7, <1>b, Zenon DEF vars, wire
<1> QED
  BY <1>1, <1>2, <1>3, <1>4, <1>5, <1>6, <1>7, Zenon DEF Next, StartStep

(* Every step keeps the survivors of Stop those that raced with it. *)
LEMMA RacedStep == TableInv /\ [Next]_vars => OnlyRacedSurvive'
<1> SUFFICES ASSUME TableInv, [Next]_vars, NEW c \in Conn, ~running', Open(c)'
             PROVE  (c \in raced \/ SharesAddress(c))'
  BY Zenon DEF OnlyRacedSurvive
<1> USE DEF TableInv, TypeInv, Open
<1>a. hc[c] # "none" /\ SharesAddress(c) => SharesAddress(c)'
  BY NamesakesStay, Zenon
<1>b. ~running /\ Open(c) => c \in raced \/ SharesAddress(c)'
  BY <1>a, Zenon DEF OnlyRacedSurvive
<1>1. CASE StartStep
  <2>1. ~running /\ hc' = hc /\ UNCHANGED raced
    BY <1>1, Zenon DEF StartStep, StartInjected, ReadInjectedAddr, InjectedGone, CaptureInjected, CaptureNil,
                       StartListening, StopMeetsNil
  <2>2. hc[c] # "none" => sock'[c] = sock[c]
    BY <1>1, Zenon DEF StartStep, StartInjected, ReadInjectedAddr, InjectedGone, CaptureInjected, CaptureNil,
                       StartListening, StopMeetsNil, Unserved, InHand
  <2> QED
    BY <2>1, <2>2, <1>b, Zenon
<1>2. CASE RegisterInjected
  <2>1. ~running /\ InHand /\ UNCHANGED <<raced, sock>>
    BY <1>2, Zenon DEF RegisterInjected, InHand
  <2>2. CASE c = client
    <3>1. start = "register"
      BY <1>2, <2>1, <2>2, Zenon DEF RegisterInjected, Unserved
    <3> QED
      BY <2>1, <2>2, <3>1, Zenon DEF Stopped
  <2>3. CASE c # client
    <3>1. hc'[c] = hc[c]
      BY <1>2, <2>3, Zenon DEF RegisterInjected, Register
    <3> QED
      BY <2>1, <3>1, <1>b, Zenon
  <2> QED
    BY <2>2, <2>3, Zenon
<1>3. CASE Stop
  <2>1. Open(c) /\ ~Tracked(c)
    BY <1>3, Zenon DEF Stop
  <2> QED
    BY <1>a, <2>1, Zenon DEF TrackedUnlessShared
<1>4. ASSUME NEW n \in Loop, LoopStep(n) PROVE (c \in raced \/ SharesAddress(c))'
  <2>1. CASE LoopBegin(n) \/ LoopStops(n)
    BY <2>1, <1>b, Zenon DEF LoopBegin, LoopStops, life
  <2>2. CASE AcceptConn(n)
    <3>1. hc[c] # "none" => sock'[c] = sock[c]
      BY <2>2 DEF AcceptConn, Unserved
    <3> QED
      BY <2>2, <3>1, <1>b, Zenon DEF AcceptConn, life
  <2>3. CASE LimitCheck(n)
    BY <2>3, <1>b, Zenon DEF LimitCheck, life
  <2>4. CASE RegisterClient(n)
    <3>1. Holding(n) /\ ~running /\ Register(got[n], "read") /\ UNCHANGED <<raced, sock>>
      BY <2>4, Zenon DEF RegisterClient, Holding, life
    <3>2. got[n] \in raced
      BY <3>1, Zenon DEF Stopped
    <3> QED
      BY <1>b, <3>1, <3>2, Zenon DEF Register
  <2> QED
    BY <1>4, <2>1, <2>2, <2>3, <2>4, Zenon DEF LoopStep
<1>5. ASSUME NEW d \in Conn, ConnStep(d) PROVE (c \in raced \/ SharesAddress(c))'
  BY <1>5, <1>b DEF ConnStep, ReadNil, ReadEnds, Dispatch, Misread, BadHeader, Deferred, life
<1>6. ASSUME NEW d \in Conn, ClientStep(d) PROVE (c \in raced \/ SharesAddress(c))'
  BY <1>6, <1>b DEF ClientStep, Dial, ClientSends, PeerCloses, life
<1>7. CASE UNCHANGED vars
  BY <1>7, <1>b, Zenon DEF vars, life
<1> QED
  BY <1>1, <1>2, <1>3, <1>4, <1>5, <1>6, <1>7, Zenon DEF Next, StartStep

(* The invariant of the table always holds. *)
LEMMA TableInvHolds == Spec => []TableInv
<1>1. Init => TableInv
  <2> SUFFICES ASSUME Init PROVE TableInv
    BY Zenon
  <2> USE ServerAssumption DEF ServerAssumption, Init, None
  <2>1. TypeInv
    <3>1. (CHOOSE a \in Addr : TRUE) \in Addr
      BY Zenon
    <3>2. addr \in [Conn -> Addr]
      BY <3>1, Zenon
    <3>3. injected \subseteq Conn
      BY Zenon
    <3>4. sock \in [Conn -> {"none", "dialled", "open", "closed"}] /\ hc \in [Conn -> {"none", "nil", "read", "defer", "gone"}]
      BY Zenon
    <3>5. /\ loop \in [Loop -> {"none", "begin", "accept", "check", "register", "exit"}]
          /\ ln \in [Loop -> 0..MaxStarts] /\ got \in [Loop -> Conn \cup {None}]
          /\ backlog \in [Loop -> SUBSET Conn] /\ \A n \in Loop : loop[n] = "none"
      OBVIOUS
    <3>6. starts \in 0..MaxStarts /\ start = "idle" /\ client = None /\ listener \in 0..MaxStarts
      OBVIOUS
    <3>7. running \in BOOLEAN
      BY Zenon
    <3> QED
      BY <3>2, <3>3, <3>4, <3>5, <3>6, <3>7, Zenon DEF TypeInv, Holding, InHand
  <2>2. Unserved
    BY Zenon DEF Unserved, Holding, InHand, Injecting
  <2>3. InTable
    BY Zenon DEF InTable
  <2>4. Stopped
    BY Zenon DEF Stopped, Holding
  <2>5. TrackedUnlessShared /\ OnlyRacedSurvive
    BY Zenon DEF TrackedUnlessShared, OnlyRacedSurvive, Open
  <2> QED
    BY <2>1, <2>2, <2>3, <2>4, <2>5, Zenon DEF TableInv
<1>2. TableInv /\ [Next]_vars => TableInv'
  BY TypeStep, UnservedStep, InTableStep, StoppedStep, TrackedStep, RacedStep, Zenon DEF TableInv
<1> QED
  BY <1>1, <1>2, PTL DEF Spec

(* A connection being served is in the client table, where Stop, the limit and *)
(* ConnectedClients find it, unless another one has had its address: for any    *)
(* number of connections, restarts and addresses.                              *)
THEOREM ServedAreTracked == Spec => []TrackedUnlessShared
  BY TableInvHolds, PTL DEF TableInv

(* Stop leaves open only what an accept loop, or Start, had in hand and not yet *)
(* in the table when it ran, or a namesake: for any number of connections,      *)
(* restarts and addresses, and with Stop between any two steps of Start.        *)
THEOREM StopClosesTheRest == Spec => []OnlyRacedSurvive
  BY TableInvHolds, PTL DEF TableInv

-----------------------------------------------------------------------------
(* The limit.  A loop about to register, and Start about to serve an injected  *)
(* connection, hold a place each; every Start brings one such place more.  The  *)
(* Start with the injected connection is the first, and has no accept loop.     *)
Places == Cardinality(Registering) + (IF Injecting THEN 1 ELSE 0)

LimitInv ==
    /\ IsFiniteSet(DOMAIN clients)
    /\ \A n \in Loop : loop[n] # "none" => n <= starts
    /\ Injecting => starts > 0 /\ loop[1] = "none"
    /\ injected # {} => (~running => starts = 0) /\ \A n \in Loop : loop[n] = "none"
    /\ starts = 0 => clients = [a \in {} |-> None]
    /\ MaxClients > 0 /\ starts > 0 =>
         Cardinality(DOMAIN clients) + Places <= MaxClients + starts - 1

(* Counting a set with one element more. *)
LEMMA OneMore ==
    ASSUME NEW S, NEW x, IsFiniteSet(S)
    PROVE  /\ IsFiniteSet(S \cup {x}) /\ Cardinality(S \cup {x}) \in Nat
           /\ Cardinality(S \cup {x}) <= Cardinality(S) + 1
<1>1. IsFiniteSet(S \cup {x}) /\ Cardinality(S) \in Nat
  BY FS_AddElement, FS_CardinalityType, Zenon
<1>2. Cardinality(S \cup {x}) = IF x \in S THEN Cardinality(S) ELSE Cardinality(S) + 1
  BY FS_AddElement, Zenon
<1> QED
  BY <1>1, <1>2

(* Counting a set with one element less. *)
LEMMA OneLess ==
    ASSUME NEW S, NEW x, IsFiniteSet(S)
    PROVE  /\ IsFiniteSet(S \ {x}) /\ Cardinality(S \ {x}) \in Nat
           /\ Cardinality(S \ {x}) <= Cardinality(S)
<1>1. IsFiniteSet(S \ {x}) /\ Cardinality(S) \in Nat
  BY FS_RemoveElement, FS_CardinalityType, Zenon
<1>2. Cardinality(S \ {x}) \in Nat
  BY <1>1, FS_CardinalityType, Zenon
<1>3. Cardinality(S \ {x}) = IF x \in S THEN Cardinality(S) - 1 ELSE Cardinality(S)
  BY FS_RemoveElement, Zenon
<1> QED
  BY <1>1, <1>2, <1>3

(* The entries and the loops about to register, counted. *)
LEMMA PlacesBound ==
    ASSUME TypeInv, LimitInv
    PROVE  IsFiniteSet(Registering) /\ Cardinality(Registering) \in Nat /\ Places \in Nat /\ Places <= starts
<1>0. starts \in Nat
  BY ServerAssumption DEF ServerAssumption, TypeInv
<1>1. IsFiniteSet(1..starts) /\ Cardinality(1..starts) = starts
  BY <1>0, FS_Interval
<1>2. Registering \in SUBSET (1..starts)
  BY <1>0, ServerAssumption DEF ServerAssumption, LimitInv, Registering, Loop
<1>3. IsFiniteSet(Registering) /\ Cardinality(Registering) <= starts
  BY <1>1, <1>2, FS_Subset, Zenon
<1>4. Cardinality(Registering) \in Nat
  BY <1>3, FS_CardinalityType, Zenon
<1>5. CASE ~Injecting
  BY <1>3, <1>4, <1>5 DEF Places
<1>6. CASE Injecting
  <2>1. 1 \in 1..starts /\ 1 \notin Registering
    BY <1>0, <1>6 DEF LimitInv, Registering
  <2>2. Cardinality(Registering) # starts
    BY <1>1, <1>2, <2>1, FS_Subset, Zenon
  <2> QED
    BY <1>0, <1>3, <1>4, <1>6, <2>2 DEF Places
<1> QED
  BY <1>3, <1>4, <1>5, <1>6, Zenon

(* Every step keeps the count within its bound. *)
LEMMA LimitStep == TypeInv /\ Unserved /\ LimitInv /\ [Next]_vars => LimitInv'
<1> SUFFICES ASSUME TypeInv, Unserved, LimitInv, [Next]_vars PROVE LimitInv'
  BY Zenon
<1>n. MaxClients \in Nat /\ MaxStarts \in Nat /\ starts \in Nat
  BY ServerAssumption DEF ServerAssumption, TypeInv
<1>d. IsFiniteSet(DOMAIN clients) /\ Cardinality(DOMAIN clients) \in Nat
  BY FS_CardinalityType, Zenon DEF LimitInv
<1>p. IsFiniteSet(Registering) /\ Cardinality(Registering) \in Nat /\ Places \in Nat /\ Places <= starts
  BY PlacesBound, Zenon
<1>e. Cardinality({}) = 0 /\ IsFiniteSet({})
  BY FS_EmptySet, Zenon
(* One more entry, and one place less. *)
<1>r. ASSUME NEW c \in Conn, NEW at \in {"read", "nil"}, Register(c, at)
      PROVE  /\ IsFiniteSet(DOMAIN clients')
             /\ Cardinality(DOMAIN clients') \in Nat
             /\ Cardinality(DOMAIN clients') <= Cardinality(DOMAIN clients) + 1
  <2>1. DOMAIN clients' = DOMAIN clients \cup {addr[c]}
    BY <1>r, Zenon DEF Register
  <2> QED
    BY <1>d, <2>1, OneMore, Zenon
<1>1. CASE StartInjected
  <2>1. /\ start = "idle" /\ start' = "inject" /\ starts' = starts + 1 /\ running' = TRUE
        /\ ~running /\ injected # {} /\ 1 \in Loop /\ UNCHANGED <<loop, clients, injected>>
    BY <1>1, <1>n DEF StartInjected, accept, Loop
  <2>2. Registering' = Registering
    BY <2>1, Zenon DEF Registering
  <2>3. starts = 0 /\ loop[1] = "none" /\ Cardinality(DOMAIN clients) = 0
    BY <1>e, <2>1, Zenon DEF LimitInv
  <2>4. Places' = Places + 1 /\ Injecting'
    BY <2>1, <2>2, <1>p DEF Places, Injecting, InHand
  <2>5. \A n \in Loop : loop[n] = "none"
    BY <2>1, Zenon DEF LimitInv
  <2> QED
    BY <1>n, <1>d, <1>p, <2>1, <2>2, <2>3, <2>4, <2>5 DEF LimitInv
<1>2. CASE ReadInjectedAddr
  <2>1. Injecting /\ Injecting' /\ UNCHANGED <<running, starts, injected, loop, clients>>
    BY <1>2, Zenon DEF ReadInjectedAddr, Injecting, InHand, accept
  <2> QED
    BY <2>1, Zenon DEF LimitInv, Places, Registering
<1>3. CASE InjectedGone \/ StopMeetsNil
  <2>1. ~Injecting' /\ UNCHANGED <<running, starts, injected, loop, clients>>
    BY <1>3, Zenon DEF InjectedGone, StopMeetsNil, Injecting, InHand, accept
  <2>2. Registering' = Registering
    BY <2>1, Zenon DEF Registering
  <2> QED
    BY <1>n, <1>d, <1>p, <2>1, <2>2 DEF LimitInv, Places
<1>a. CASE CaptureInjected
  <2>1. Injecting /\ Injecting' /\ UNCHANGED <<running, starts, injected, loop, clients>>
    BY <1>a, Zenon DEF CaptureInjected, Injecting, InHand, accept
  <2> QED
    BY <2>1, Zenon DEF LimitInv, Places, Registering
<1>b. CASE CaptureNil
  <2>1. Injecting /\ Injecting' /\ UNCHANGED <<running, starts, injected, loop, clients>>
    BY <1>b, Zenon DEF CaptureNil, Injecting, InHand, accept
  <2> QED
    BY <2>1, Zenon DEF LimitInv, Places, Registering
<1>c. CASE RegisterInjected
  <2>1. /\ Injecting /\ ~Injecting' /\ UNCHANGED <<running, starts, injected, loop>>
        /\ \E at \in {"read", "nil"} : Register(client, at)
    BY <1>c, Zenon DEF RegisterInjected, Injecting, InHand, accept
  <2>2. Registering' = Registering
    BY <2>1, Zenon DEF Registering
  <2>3. client \in Conn
    BY <1>c, Zenon DEF RegisterInjected, TypeInv, InHand
  <2>4. /\ IsFiniteSet(DOMAIN clients') /\ Cardinality(DOMAIN clients') \in Nat
        /\ Cardinality(DOMAIN clients') <= Cardinality(DOMAIN clients) + 1
    BY <1>r, <2>1, <2>3, Zenon
  <2>5. Places' = Places - 1 /\ Places \in Int
    BY <1>p, <2>1, <2>2 DEF Places
  <2>6. starts > 0
    BY <2>1, Zenon DEF LimitInv
  <2> QED
    BY <1>n, <1>d, <2>1, <2>4, <2>5, <2>6 DEF LimitInv
<1>4. CASE StartListening
  <2>1. /\ injected' = {} /\ start' = start /\ starts' = starts + 1 /\ starts + 1 \in Loop
        /\ loop' = [loop EXCEPT ![starts + 1] = "begin"] /\ UNCHANGED clients
    BY <1>4, <1>n DEF StartListening, Loop
  <2>2. loop[starts + 1] = "none"
    BY <2>1, <1>n DEF LimitInv
  <2>3. Registering' = Registering
    BY <2>1, <2>2, Zenon DEF Registering, TypeInv
  <2>4. starts = 0 => Cardinality(DOMAIN clients) = 0
    BY <1>e, Zenon DEF LimitInv
  <2>5. Places' = Places /\ Places \in Int
    BY <1>p, <2>1, <2>3 DEF Places, Injecting, InHand
  <2>7. Injecting' => loop'[1] = "none"
    BY <2>1, <1>n DEF LimitInv, Injecting, InHand, TypeInv, Loop
  <2>6. \A n \in Loop : loop'[n] # "none" => n <= starts'
    BY <2>1, <1>n DEF LimitInv, TypeInv, Loop
  <2> QED
    BY <1>n, <1>d, <1>p, <2>1, <2>4, <2>5, <2>6, <2>7 DEF LimitInv
<1>5. CASE Stop
  <2>1. clients' = [a \in {} |-> None] /\ injected' = {} /\ UNCHANGED <<starts, start, loop>>
    BY <1>5, Zenon DEF Stop, accept
  <2>2. DOMAIN clients' = {}
    BY <2>1, Zenon
  <2>3. Registering' = Registering
    BY <2>1, Zenon DEF Registering
  <2>4. (Injecting' <=> Injecting) /\ Places' = Places
    BY <2>1, <2>3, Zenon DEF Injecting, InHand, Places
  <2> QED
    BY <1>n, <1>d, <1>p, <1>e, <2>1, <2>2, <2>4 DEF LimitInv
<1>6. ASSUME NEW n \in Loop, LoopStep(n) PROVE LimitInv'
  <2>l. loop[n] \in {"begin", "accept", "check", "register"} /\ UNCHANGED life
    BY <1>6, Zenon DEF LoopStep, LoopBegin, LoopStops, AcceptConn, LimitCheck, RegisterClient
  <2>a. starts > 0 /\ n <= starts
    BY <2>l, <1>n DEF LimitInv, Loop
  <2>f. 1 \in Loop
    BY <1>n DEF Loop
  <2>i. 1 \in Loop /\ injected = {} /\ injected' = {} /\ (Injecting' <=> Injecting) /\ (Injecting => loop[1] = "none" /\ n # 1)
    BY <2>f, <2>l, Zenon DEF LimitInv, life, Injecting, InHand
  <2>1. CASE LoopBegin(n) \/ LoopStops(n) \/ AcceptConn(n)
    <3>1. \E w \in {"accept", "exit", "check"} : loop' = [loop EXCEPT ![n] = w]
      BY <2>1, Zenon DEF LoopBegin, LoopStops, AcceptConn, Goto
    <3>2. loop[n] \in {"begin", "accept"} /\ UNCHANGED <<starts, start, clients>>
      BY <2>1, Zenon DEF LoopBegin, LoopStops, AcceptConn, life
    <3>3. Registering' = Registering
      BY <3>1, <3>2, Zenon DEF Registering, TypeInv
    <3> QED
      BY <3>1, <3>2, <3>3, <2>a, <2>i, Zenon DEF LimitInv, Places, TypeInv
  <2>2. CASE LimitCheck(n)
    <3>1. /\ loop[n] = "check" /\ UNCHANGED <<starts, start, clients>>
          /\ \E w \in {"accept", "register"} : loop' = [loop EXCEPT ![n] = w]
      BY <2>2, Zenon DEF LimitCheck, Goto, life
    <3>2. /\ \A m \in Loop : loop'[m] # "none" => m <= starts
          /\ Injecting => loop'[1] = "none"
      BY <3>1, <2>a, <2>i, Zenon DEF LimitInv, TypeInv
    <3>3. CASE Full
      <4>1. Registering' = Registering
        BY <2>2, <3>3, Zenon DEF LimitCheck, Goto, Registering, TypeInv
      <4> QED
        BY <3>1, <3>2, <4>1, <2>i, Zenon DEF LimitInv, Places
    <3>4. CASE ~Full
      <4>1. MaxClients > 0 => Cardinality(DOMAIN clients) <= MaxClients - 1
        BY <3>4, <1>n, <1>d DEF Full
      <4>2. Registering' \subseteq 1..starts
        BY <3>2, <1>n DEF Registering, Loop
      <4>3. IsFiniteSet(1..starts) /\ Cardinality(1..starts) = starts
        BY <1>n, FS_Interval
      <4>4. IsFiniteSet(Registering') /\ Cardinality(Registering') <= starts /\ Cardinality(Registering') \in Nat
        BY <4>2, <4>3, FS_Subset, FS_CardinalityType, Zenon
      <4>5. Injecting => Cardinality(Registering') # starts
        <5> SUFFICES ASSUME Injecting PROVE Cardinality(Registering') # starts
          BY Zenon
        <5>1. 1 \in 1..starts /\ 1 \notin Registering'
          BY <3>2, <2>a, <1>n DEF Registering
        <5> QED
          BY <4>2, <4>3, <5>1, FS_Subset, Zenon
      <4>6. Places' <= starts
        BY <1>n, <2>i, <3>1, <4>4, <4>5 DEF Places
      <4>7. Places' \in Nat
        BY <3>1, <4>4 DEF Places
      <4> QED
        BY <1>n, <1>d, <2>a, <2>i, <3>1, <3>2, <4>1, <4>6, <4>7 DEF LimitInv
    <3> QED
      BY <3>3, <3>4, Zenon
  <2>3. CASE RegisterClient(n)
    <3>1. /\ loop[n] = "register" /\ loop' = [loop EXCEPT ![n] = "accept"]
          /\ Register(got[n], "read") /\ UNCHANGED <<starts, start>>
      BY <2>3, Zenon DEF RegisterClient, Goto, life
    <3>2. got[n] \in Conn
      BY <3>1, Zenon DEF Unserved, Holding
    <3>3. Registering' = Registering \ {n} /\ n \in Registering
      BY <3>1, Zenon DEF Registering, TypeInv
    <3>4. Cardinality(Registering') = Cardinality(Registering) - 1
      BY <1>p, <3>3, FS_RemoveElement, Zenon
    <3>5. Places' = Places - 1 /\ Places \in Int
      BY <1>p, <2>i, <3>4 DEF Places
    <3>6. /\ \A m \in Loop : loop'[m] # "none" => m <= starts
          /\ Injecting => loop'[1] = "none"
      BY <3>1, <2>a, <2>i, Zenon DEF LimitInv, TypeInv
    <3> QED
      BY <1>n, <1>d, <1>r, <2>a, <2>i, <3>1, <3>2, <3>5, <3>6 DEF LimitInv
  <2> QED
    BY <1>6, <2>1, <2>2, <2>3, Zenon DEF LoopStep
<1>7. ASSUME NEW c \in Conn, ConnStep(c) PROVE LimitInv'
  <2>0. CASE ReadNil(c)
    <3>1. (Injecting' => Injecting) /\ UNCHANGED <<running, starts, injected, loop, clients>>
      BY <2>0, Zenon DEF ReadNil, Injecting, InHand, accept
    <3>2. Registering' = Registering
      BY <3>1, Zenon DEF Registering
    <3> QED
      BY <1>n, <1>d, <1>p, <3>1, <3>2 DEF LimitInv, Places
  <2>1. ReadNil(c) \/ UNCHANGED <<running, starts, start, injected, loop>>
    BY <1>7, Zenon DEF ConnStep, ReadEnds, Dispatch, Misread, BadHeader, Deferred, life, accept
  <2>2. ReadNil(c) \/ (Registering' = Registering /\ Places' = Places /\ (Injecting' <=> Injecting))
    BY <2>1, Zenon DEF Registering, Places, Injecting, InHand
  <2>3. CASE UNCHANGED clients
    BY <2>0, <2>1, <2>2, <2>3, Zenon DEF LimitInv
  <2>4. CASE Deferred(c)
    <3>1. DOMAIN clients' = DOMAIN clients \ {addr[c]}
      BY <2>4, Zenon DEF Deferred
    <3>2. /\ IsFiniteSet(DOMAIN clients')
          /\ Cardinality(DOMAIN clients') \in Nat
          /\ Cardinality(DOMAIN clients') <= Cardinality(DOMAIN clients)
      BY <1>d, <3>1, OneLess, Zenon
    <3>3. starts = 0 => clients' = [a \in {} |-> None]
      BY <2>4, Zenon DEF Deferred, LimitInv
    <3>4. Places \in Int
      BY <1>p DEF Places
    <3> QED
      BY <1>n, <1>d, <2>0, <2>1, <2>2, <3>2, <3>3, <3>4 DEF LimitInv
  <2> QED
    BY <1>7, <2>3, <2>4, Zenon DEF ConnStep, ReadNil, ReadEnds, Dispatch, Misread, BadHeader
<1>8. ASSUME NEW c \in Conn, ClientStep(c) PROVE LimitInv'
  <2>1. UNCHANGED <<running, starts, start, injected, loop, clients>>
    BY <1>8, Zenon DEF ClientStep, Dial, ClientSends, PeerCloses, life, accept
  <2> QED
    BY <2>1, Zenon DEF LimitInv, Places, Registering, Injecting, InHand
<1>9. CASE UNCHANGED vars
  BY <1>9, Zenon DEF vars, life, accept, LimitInv, Places, Registering, Injecting, InHand
<1> QED
  BY <1>1, <1>2, <1>3, <1>a, <1>b, <1>c, <1>4, <1>5, <1>6, <1>7, <1>8, <1>9, Zenon DEF Next

(* Restarts are the only way past WithMaxClients, and each of them adds at most *)
(* one entry: the accept loops test the limit and register in two steps, but    *)
(* one loop has only one connection between the two.                            *)
THEOREM LimitIsKept == Spec => []LimitKept
<1>1. Init => LimitInv
  <2> SUFFICES ASSUME Init PROVE LimitInv
    BY Zenon
  <2>1. DOMAIN clients = {} /\ IsFiniteSet({})
    BY FS_EmptySet, Zenon DEF Init
  <2> QED
    BY <2>1 DEF Init, LimitInv, Injecting, InHand
<1>2. TypeInv /\ Unserved /\ LimitInv /\ [Next]_vars => LimitInv'
  BY LimitStep, Zenon
<1>3. TypeInv /\ LimitInv => LimitKept
  <2> SUFFICES ASSUME TypeInv, LimitInv, MaxClients > 0, starts > 0
               PROVE  Cardinality(DOMAIN clients) <= MaxClients + starts - 1
    BY Zenon DEF LimitKept
  <2>1. Cardinality(DOMAIN clients) \in Nat /\ MaxClients \in Nat /\ starts \in Nat
    BY ServerAssumption, FS_CardinalityType DEF ServerAssumption, TypeInv, LimitInv
  <2>2. Places \in Int /\ Places >= 0
    BY PlacesBound DEF Places
  <2> QED
    BY <2>1, <2>2 DEF LimitInv
<1> QED
  BY <1>1, <1>2, <1>3, TableInvHolds, PTL DEF Spec, TableInv
=============================================================================
