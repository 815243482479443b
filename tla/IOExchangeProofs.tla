-------------------------- MODULE IOExchangeProofs --------------------------
(***************************************************************************)
(* Data reaches only the connection it was sent for, for any number of       *)
(* scanners, goroutines and opens, and whatever their serial numbers: both   *)
(* ways of a connection rest on ids that are never given out twice, the      *)
(* scanner's for O->T and the connection manager's for T->O.  And the tables *)
(* of the adapter agree: the connection manager's with the runtime's when the *)
(* originators differ, and with what a scanner's Shutdown has closed.          *)
(***************************************************************************)
EXTENDS IOExchange, TLAPS

(* What Shutdown comes back to after closing a connection, or nothing. *)
Outer == {Idle} \cup [at : {"shutdown"}, todo : SUBSET DOMAIN made, table : SUBSET DOMAIN made]

Place ==
    Outer \cup [at : {"request", "reply"}, op : {"open", "close"}, id : Nat, then : Outer]
          \cup [at : {"wait", "returned"}, table : SUBSET DOMAIN made]

Exchange ==
    {Free} \cup [at : {"sent", "refused", "inserted", "half", "removed", "halfRemoved", "answered"},
                 op : {"open", "close"}, id : Nat, g : App, c : Nat]

IOConn == [loop : {"running", "stopping", "ended"}, closed : BOOLEAN, in : Nat]

(* Every variable the argument uses has its type. *)
TypeInv ==
    /\ nextID \in [Scanner -> Nat]
    /\ made \in Seq([by : Scanner, ot : Nat, to : Nat])
    /\ DOMAIN ioconn \subseteq DOMAIN made
    /\ ioconn \in [DOMAIN ioconn -> IOConn]
    /\ table \in [Scanner -> SUBSET DOMAIN ioconn]
    /\ pc \in [App -> Place]
    /\ xch \in [Scanner -> Exchange]
    /\ rt \in [DOMAIN rt -> DOMAIN made]
    /\ cm \subseteq DOMAIN made

(* The connection an exchange is about exists once it was inserted or found. *)
ExchangeInv ==
    \A s \in Scanner :
        \/ xch[s].at \in {"inserted", "half", "removed", "halfRemoved"}
        \/ xch[s].at = "answered" /\ xch[s].op = "open"
        => xch[s].c \in DOMAIN made

(* NewConnID counts: the T->O id is the connection's number. *)
OwnTO == \A c \in DOMAIN made : made[c].to = c

(* The scanner s has a connection with the O->T id, among those in m. *)
Used(m, s, id) == \E c \in DOMAIN m : m[c].by = s /\ m[c].ot = id

(* A goroutine at q is about to ask for a connection; the request in x is one *)
(* for a connection.                                                           *)
Asking(q) == q.at = "request" /\ q.op = "open"
UnderWay(x) == x.at = "sent" /\ x.op = "open"

(* An O->T id of a scanner is with one goroutine, or in one request, or in one *)
(* connection.                                                                  *)
OneUse ==
    /\ \A c \in DOMAIN made : made[c].ot <= nextID[made[c].by]
    /\ \A c, d \in DOMAIN made : made[c].by = made[d].by /\ made[c].ot = made[d].ot => c = d
    /\ \A s \in Scanner : UnderWay(xch[s]) => xch[s].id <= nextID[s] /\ ~Used(made, s, xch[s].id)
    /\ \A g \in App : Asking(pc[g]) =>
          /\ pc[g].id <= nextID[Of[g]] /\ ~Used(made, Of[g], pc[g].id)
          /\ UnderWay(xch[Of[g]]) => xch[Of[g]].id # pc[g].id
          /\ \A h \in App \ {g} : Asking(pc[h]) /\ Of[h] = Of[g] => pc[h].id # pc[g].id

(* A consumer is registered under the O->T id of its connection. *)
OwnOT == \A n \in Nat : <<"OT", n>> \in DOMAIN rt => made[rt[<<"OT", n>>]].ot = n

IdInv == TypeInv /\ ExchangeInv /\ OwnTO /\ OneUse /\ OwnOT /\ InputFromOwnConnection

-----------------------------------------------------------------------------
(* No connection, request or table entry exists at first. *)
LEMMA InitIds == Init => IdInv
<1> SUFFICES ASSUME Init PROVE IdInv
  BY Zenon
<1> USE DEF Init
<1>1. DOMAIN made = {} /\ DOMAIN ioconn = {} /\ DOMAIN rt = {}
  OBVIOUS
<1>2. TypeInv
  BY <1>1 DEF TypeInv, Place, Outer, Exchange
<1>3. ExchangeInv /\ OwnTO /\ OwnOT /\ InputFromOwnConnection
  BY <1>1, Zenon DEF ExchangeInv, OwnTO, OwnOT, InputFromOwnConnection, Free
<1>4. OneUse
  BY <1>1, Zenon DEF OneUse, UnderWay, Asking, Free, Idle
<1> QED
  BY <1>2, <1>3, <1>4, Zenon DEF IdInv

-----------------------------------------------------------------------------
(* A connection's record, by its number. *)
LEMMA MadeShape ==
    ASSUME TypeInv
    PROVE /\ Len(made) \in Nat /\ DOMAIN made = 1..Len(made)
          /\ \A c \in DOMAIN made : made[c].by \in Scanner /\ made[c].ot \in Nat /\ made[c].to \in Nat
<1> DEFINE Rec == [by : Scanner, ot : Nat, to : Nat]
<1>1. made \in Seq(Rec)
  BY Zenon DEF TypeInv
<1>2. Len(made) \in Nat /\ DOMAIN made = 1..Len(made) /\ \A c \in 1..Len(made) : made[c] \in Rec
  <2> HIDE DEF Rec
  <2> QED
    BY <1>1
<1> QED
  BY <1>2, Zenon

(* Types, and that an exchange names an existing connection, are preserved. *)
LEMMA TypeStep == TypeInv /\ ExchangeInv /\ [Next]_vars => TypeInv' /\ ExchangeInv'
<1> SUFFICES ASSUME TypeInv, ExchangeInv, [Next]_vars PROVE TypeInv' /\ ExchangeInv'
  BY Zenon
<1>t. /\ nextID \in [Scanner -> Nat]
      /\ DOMAIN ioconn \subseteq DOMAIN made /\ ioconn \in [DOMAIN ioconn -> IOConn]
      /\ table \in [Scanner -> SUBSET DOMAIN ioconn]
      /\ pc \in [App -> Place] /\ xch \in [Scanner -> Exchange]
      /\ rt \in [DOMAIN rt -> DOMAIN made] /\ cm \subseteq DOMAIN made
  BY Zenon DEF TypeInv
<1>m. made \in Seq([by : Scanner, ot : Nat, to : Nat])
  BY Zenon DEF TypeInv
<1>1. ASSUME UNCHANGED made, pc' \in [App -> Place] PROVE (pc \in [App -> Place])'
  BY <1>1, <1>t, <1>m, Zenon DEF TypeInv, ExchangeInv, Place, Outer
<1>2. CASE UNCHANGED vars
  BY <1>2, <1>1, <1>t, <1>m, Zenon DEF TypeInv, ExchangeInv, vars, scannerVars, adapterVars
<1>3. ASSUME NEW s \in Scanner, NEW c, CloseLocally(s, c)
      PROVE /\ DOMAIN ioconn' = DOMAIN ioconn
            /\ ioconn' \in [DOMAIN ioconn -> IOConn]
            /\ table' \in [Scanner -> SUBSET DOMAIN ioconn]
  <2>1. DOMAIN ioconn' = DOMAIN ioconn
    BY <1>3, Zenon DEF CloseLocally
  <2>2. ASSUME NEW d \in DOMAIN ioconn PROVE ioconn'[d] \in IOConn
    <3>1. ioconn[d] \in IOConn
      BY <1>t, Zenon
    <3>2. CASE d = c
      <4>1. ioconn'[d] = [ioconn[d] EXCEPT !.loop = IF @ = "running" THEN "stopping" ELSE @,
                                           !.closed = TRUE]
        BY <1>3, <3>2, Zenon DEF CloseLocally
      <4> QED
        BY <3>1, <4>1, Zenon DEF IOConn
    <3>3. CASE d # c
      BY <1>3, <3>1, <3>3, Zenon DEF CloseLocally
    <3> QED
      BY <3>2, <3>3, Zenon
  <2>3. ioconn' \in [DOMAIN ioconn -> IOConn]
    <3>1. ioconn' = [d \in DOMAIN ioconn |-> ioconn'[d]]
      BY <1>3, Zenon DEF CloseLocally
    <3> QED
      BY <3>1, <2>2, Zenon
  <2>4. table' \in [Scanner -> SUBSET DOMAIN ioconn]
    BY <1>3, <1>t, Zenon DEF CloseLocally
  <2> QED
    BY <2>1, <2>3, <2>4, Zenon
<1>4. ASSUME NEW g \in App, AppStep(g) PROVE TypeInv' /\ ExchangeInv'
  <2>1. Of[g] \in Scanner /\ pc[g] \in Place
    BY <1>t, IOAssumption, Zenon
  <2>2. CASE OpenStart(g)
    <3>1. pc' \in [App -> Place]
      BY <2>1, <2>2, <1>t DEF OpenStart, Requests, Place, Outer
    <3> QED
      BY <3>1, <1>1, <2>1, <2>2, <1>t, <1>m DEF TypeInv, ExchangeInv, OpenStart, adapterVars
  <2>3. CASE CloseStart(g)
    <3>1. PICK c \in DOMAIN ioconn : CloseLocally(Of[g], c) /\ Requests(g, "close", made[c].ot, Idle)
      BY <2>3, Zenon DEF CloseStart
    <3>2. made[c].ot \in Nat
      BY <1>t, MadeShape, Zenon
    <3>3. pc' \in [App -> Place]
      BY <3>1, <3>2, <1>t, Zenon DEF Requests, Place, Outer
    <3> QED
      BY <3>1, <3>3, <1>1, <1>3, <2>1, <2>3, <1>t, <1>m, Zenon DEF TypeInv, ExchangeInv, CloseStart, adapterVars
  <2>4. CASE ShutdownStart(g)
    <3>1. table[Of[g]] \in SUBSET DOMAIN made
      BY <2>1, <1>t, Zenon
    <3>2. pc' \in [App -> Place]
      BY <3>1, <2>4, <1>t, Zenon DEF ShutdownStart, Place, Outer
    <3> QED
      BY <3>2, <1>1, <2>4, <1>t, <1>m, Zenon DEF TypeInv, ExchangeInv, ShutdownStart, adapterVars
  <2>5. CASE ShutdownCloses(g)
    <3>1. pc[g] \in [at : {"shutdown"}, todo : SUBSET DOMAIN made, table : SUBSET DOMAIN made]
      <4>1. pc[g].at = "shutdown"
        BY <2>5, Zenon DEF ShutdownCloses
      <4> QED
        BY <4>1, <2>1 DEF Place, Outer, Idle
    <3>2. PICK c \in pc[g].todo :
             CloseLocally(Of[g], c) /\ Requests(g, "close", made[c].ot, [pc[g] EXCEPT !.todo = @ \ {c}])
      BY <2>5, Zenon DEF ShutdownCloses
    <3>3. made[c].ot \in Nat
      BY <3>1, MadeShape, Zenon
    <3>4. [pc[g] EXCEPT !.todo = @ \ {c}] \in Outer
      BY <3>1, Zenon DEF Outer
    <3>5. pc' \in [App -> Place]
      BY <3>2, <3>3, <3>4, <1>t, Zenon DEF Requests, Place
    <3> QED
      BY <3>2, <3>5, <1>1, <1>3, <2>1, <2>5, <1>t, <1>m, Zenon DEF TypeInv, ExchangeInv, ShutdownCloses, adapterVars
  <2>6. CASE ShutdownEnds(g)
    <3>1. pc[g] \in [at : {"shutdown"}, todo : SUBSET DOMAIN made, table : SUBSET DOMAIN made]
      <4>1. pc[g].at = "shutdown"
        BY <2>6, Zenon DEF ShutdownEnds
      <4> QED
        BY <4>1, <2>1 DEF Place, Outer, Idle
    <3>2. pc' \in [App -> Place]
      BY <3>1, <2>6, <1>t, Zenon DEF ShutdownEnds, Place
    <3> QED
      BY <3>2, <1>1, <2>6, <1>t, <1>m, Zenon DEF TypeInv, ExchangeInv, ShutdownEnds, adapterVars
  <2>7. CASE ShutdownReturns(g)
    <3>1. pc[g] \in [at : {"wait", "returned"}, table : SUBSET DOMAIN made]
      BY <2>1, <2>7 DEF ShutdownReturns, Place, Outer, Idle
    <3>2. pc' \in [App -> Place]
      BY <3>1, <2>7, <1>t, Zenon DEF ShutdownReturns, Place
    <3> QED
      BY <3>2, <1>1, <2>7, <1>t, <1>m, Zenon DEF TypeInv, ExchangeInv, ShutdownReturns, adapterVars
  <2>8. CASE Send(g)
    <3>1. pc[g] \in [at : {"request", "reply"}, op : {"open", "close"}, id : Nat, then : Outer]
      BY <2>1, <2>8 DEF Send, Place, Outer, Idle
    <3>a. UNCHANGED <<nextID, table, ioconn, made, cm, rt>>
      BY <2>8, Zenon DEF Send, adapterVars
    <3>2. pc' \in [App -> Place] /\ xch' \in [Scanner -> Exchange] /\ ExchangeInv'
      <4>1. CASE alive[Of[g]]
        <5> DEFINE x == [at |-> "sent", op |-> pc[g].op, id |-> pc[g].id, g |-> g, c |-> 0]
                   q == [pc[g] EXCEPT !.at = "reply"]
        <5>1. xch' = [xch EXCEPT ![Of[g]] = x] /\ pc' = [pc EXCEPT ![g] = q]
          BY <4>1, <2>8, Zenon DEF Send
        <5>2. x \in Exchange /\ x.at = "sent"
          BY <3>1, Zenon DEF Exchange
        <5>3. q \in Place
          BY <3>1, Zenon DEF Place
        <5> HIDE DEF x, q
        <5> QED
          BY <5>1, <5>2, <5>3, <3>a, <2>1, <1>t, Zenon DEF ExchangeInv
      <4>2. CASE ~alive[Of[g]]
        <5>1. pc' = [pc EXCEPT ![g] = pc[g].then] /\ xch' = xch
          BY <4>2, <2>8, Zenon DEF Send
        <5>2. pc[g].then \in Place
          BY <3>1, Zenon DEF Place
        <5> QED
          BY <5>1, <5>2, <3>a, <1>t, Zenon DEF ExchangeInv
      <4> QED
        BY <4>1, <4>2, Zenon
    <3> QED
      BY <3>a, <3>2, <1>1, <1>t, <1>m, Zenon DEF TypeInv, ExchangeInv
  <2>9. CASE Receive(g)
    <3>1. pc[g] \in [at : {"request", "reply"}, op : {"open", "close"}, id : Nat, then : Outer]
      BY <2>1, <2>9 DEF Receive, Place, Outer, Idle
    <3>2. pc' \in [App -> Place]
      BY <3>1, <2>9, <1>t, Zenon DEF Receive, Place
    <3>3. xch' \in [Scanner -> Exchange]
      BY <2>1, <2>9, <1>t, Zenon DEF Receive, Exchange
    <3>4. ExchangeInv'
      BY <2>1, <2>9, <1>t, Zenon DEF ExchangeInv, Receive, adapterVars, Free
    <3>5. /\ DOMAIN ioconn' \subseteq DOMAIN made
          /\ ioconn' \in [DOMAIN ioconn' -> IOConn]
          /\ table' \in [Scanner -> SUBSET DOMAIN ioconn']
      <4>1. CASE xch[Of[g]].op = "open" /\ xch[Of[g]].at = "answered"
        <5> DEFINE x == xch[Of[g]].c
        <5>1. x \in DOMAIN made
          BY <2>1, <4>1, <1>t, Zenon DEF ExchangeInv
        <5>2. ioconn' = With(ioconn, x, [loop |-> "running", closed |-> FALSE, in |-> 0])
          BY <4>1, <2>9, Zenon DEF Receive
        <5>3. table' = [table EXCEPT ![Of[g]] = {c \in @ : made[c].to # made[x].to} \cup {x}]
          BY <4>1, <2>9, Zenon DEF Receive
        <5>4. DOMAIN ioconn' = DOMAIN ioconn \cup {x}
          BY <5>2, Zenon DEF With
        <5>5. ioconn' \in [DOMAIN ioconn \cup {x} -> IOConn]
          BY <5>2, <1>t, Zenon DEF With, IOConn
        <5>6. table' \in [Scanner -> SUBSET (DOMAIN ioconn \cup {x})]
          BY <5>3, <2>1, <1>t, Zenon
        <5> HIDE DEF x
        <5> QED
          BY <5>1, <5>4, <5>5, <5>6, <1>t, Zenon
      <4>2. CASE ~(xch[Of[g]].op = "open" /\ xch[Of[g]].at = "answered")
        BY <4>2, <2>9, <1>t, Zenon DEF Receive
      <4> QED
        BY <4>1, <4>2, Zenon
    <3> QED
      BY <3>2, <3>3, <3>4, <3>5, <1>1, <2>9, <1>t, <1>m, Zenon DEF TypeInv, ExchangeInv, Receive, adapterVars
  <2>10. CASE ReceiveFails(g)
    <3>1. pc[g] \in [at : {"request", "reply"}, op : {"open", "close"}, id : Nat, then : Outer]
      BY <2>1, <2>10 DEF ReceiveFails, Place, Outer, Idle
    <3>2. pc' \in [App -> Place]
      BY <3>1, <2>10, <1>t, Zenon DEF ReceiveFails, Place
    <3> QED
      BY <3>2, <1>1, <2>10, <1>t, <1>m, Zenon DEF TypeInv, ExchangeInv, ReceiveFails, adapterVars
  <2> QED
    BY <1>4, <2>2, <2>3, <2>4, <2>5, <2>6, <2>7, <2>8, <2>9, <2>10, Zenon DEF AppStep
<1>5. ASSUME NEW s \in Scanner, NEW at, UNCHANGED <<nextID, table, ioconn, pc, made>>, cm' \subseteq DOMAIN made,
             xch[s] # Free, at \in {"refused", "half", "halfRemoved", "answered"},
             Step(s, at), xch[s].c \in DOMAIN made \/ at = "refused" \/ (at = "answered" /\ xch[s].op = "close"),
             rt' \in [DOMAIN rt' -> DOMAIN made]
      PROVE TypeInv' /\ ExchangeInv'
  <2>1. xch[s] \in Exchange \ {Free}
    BY <1>5, <1>t, Zenon
  <2> DEFINE x == [xch[s] EXCEPT !.at = at]
  <2>2. xch' = [xch EXCEPT ![s] = x]
    BY <1>5, Zenon DEF Step
  <2>3. x \in Exchange /\ x.at = at /\ x.op = xch[s].op /\ x.c = xch[s].c
    BY <2>1, <1>5, Zenon DEF Exchange
  <2> HIDE DEF x
  <2>4. xch' \in [Scanner -> Exchange] /\ ExchangeInv'
    BY <2>2, <2>3, <1>5, <1>t, Zenon DEF ExchangeInv
  <2>5. pc' \in [App -> Place]
    BY <1>5, <1>t, Zenon
  <2> QED
    BY <2>4, <2>5, <1>1, <1>5, <1>t, <1>m, Zenon DEF TypeInv, ExchangeInv
<1>6. ASSUME NEW s \in Scanner, xch' = [xch EXCEPT ![s] = Free],
             UNCHANGED <<nextID, table, ioconn, pc, made, cm, rt>>
      PROVE TypeInv' /\ ExchangeInv'
  <2>1. xch' \in [Scanner -> Exchange] /\ ExchangeInv'
    BY <1>6, <1>t, Zenon DEF ExchangeInv, Exchange, Free
  <2> QED
    BY <2>1, <1>1, <1>6, <1>t, <1>m, Zenon DEF TypeInv, ExchangeInv
<1>7. ASSUME NEW s \in Scanner, SessionStep(s) PROVE TypeInv' /\ ExchangeInv'
  <2>a. xch[s] \in Exchange
    BY <1>t, Zenon
  <2>1. CASE HandleForwardOpen(s)
    <3>1. xch[s].at = "sent" /\ UNCHANGED <<nextID, table, ioconn, pc, rt>>
      BY <2>1, Zenon DEF HandleForwardOpen, scannerVars
    <3>2. xch[s] # Free
      BY <3>1 DEF Free
    <3>3. CASE Step(s, "refused") /\ UNCHANGED <<cm, made>>
      BY <3>1, <3>2, <3>3, <1>5, <1>t, Zenon
    <3>4. CASE ~(Step(s, "refused") /\ UNCHANGED <<cm, made>>)
      <4> DEFINE new == [by |-> s, ot |-> xch[s].id, to |-> NewConnID]
                 x == [xch[s] EXCEPT !.at = "inserted", !.c = Len(made')]
      <4>1. /\ made' = Append(made, new) /\ xch' = [xch EXCEPT ![s] = x]
            /\ cm' = cm \cup {Len(made')}
        BY <3>4, <2>1, Zenon DEF HandleForwardOpen
      <4>2. xch[s] \in Exchange \ {Free}
        BY <3>2, <1>t, Zenon
      <4>3. new \in [by : Scanner, ot : Nat, to : Nat]
        BY <4>2, MadeShape DEF Exchange, NewConnID
      <4>4. /\ made' \in Seq([by : Scanner, ot : Nat, to : Nat])
            /\ Len(made') = Len(made) + 1
            /\ DOMAIN made' = DOMAIN made \cup {Len(made')}
        <5> HIDE DEF new
        <5>1. made \in Seq([by : Scanner, ot : Nat, to : Nat])
          BY <1>m, Zenon
        <5>2. /\ made' \in Seq([by : Scanner, ot : Nat, to : Nat])
              /\ Len(made') = Len(made) + 1
              /\ DOMAIN made' = 1..(Len(made) + 1)
          BY <4>1, <4>3, <5>1
        <5> QED
          BY <5>2, MadeShape
      <4>5. x \in Exchange /\ x.c \in DOMAIN made'
        <5>1. Len(made') \in Nat
          BY <4>4, MadeShape
        <5>2. x \in Exchange /\ x.c = Len(made')
          BY <4>2, <5>1, Zenon DEF Exchange
        <5> QED
          BY <5>2, <4>4, Zenon
      <4> HIDE DEF new, x
      <4>6. xch' \in [Scanner -> Exchange] /\ ExchangeInv'
        BY <4>1, <4>4, <4>5, <1>t, Zenon DEF ExchangeInv
      <4>7. Place \subseteq Place'
        <5>1. Outer \subseteq Outer'
          BY <4>4, Zenon DEF Outer
        <5> QED
          BY <5>1, <4>4, Zenon DEF Place
      <4>8. (pc \in [App -> Place])'
        <5>1. pc' = pc
          BY <3>1, Zenon
        <5>2. pc \in [App -> Place']
          BY <4>7, <1>t, Zenon
        <5> QED
          BY <5>1, <5>2, Zenon
      <4> QED
        BY <3>1, <4>1, <4>4, <4>6, <4>8, <1>t, <1>m, Zenon DEF TypeInv, ExchangeInv
    <3> QED
      BY <3>3, <3>4, Zenon
  <2>2. CASE OnOpenConsumer(s)
    <3>1. xch[s].at = "inserted" /\ UNCHANGED <<nextID, table, ioconn, pc, made, cm>> /\ Step(s, "half")
      BY <2>2, Zenon DEF OnOpenConsumer, scannerVars
    <3>2. xch[s] # Free /\ xch[s].c \in DOMAIN made
      BY <3>1, <1>t DEF ExchangeInv, Free
    <3>3. rt' \in [DOMAIN rt' -> DOMAIN made]
      BY <2>2, <3>2, <1>t, Zenon DEF OnOpenConsumer, With
    <3> QED
      BY <3>1, <3>2, <3>3, <1>5, <1>t, Zenon
  <2>3. CASE OnOpenProducer(s)
    <3>1. xch[s].at = "half" /\ UNCHANGED <<nextID, table, ioconn, pc, made, cm>> /\ Step(s, "answered")
      BY <2>3, Zenon DEF OnOpenProducer, scannerVars
    <3>2. xch[s] # Free /\ xch[s].c \in DOMAIN made
      BY <3>1, <1>t DEF ExchangeInv, Free
    <3>3. rt' \in [DOMAIN rt' -> DOMAIN made]
      BY <2>3, <3>2, <1>t, Zenon DEF OnOpenProducer, With
    <3> QED
      BY <3>1, <3>2, <3>3, <1>5, <1>t, Zenon
  <2>4. CASE HandleForwardClose(s)
    <3>1. /\ xch[s].at = "sent" /\ xch[s].op = "close" /\ cm' \subseteq cm
          /\ UNCHANGED <<nextID, table, ioconn, pc, made, rt>>
      BY <2>4, Zenon DEF HandleForwardClose, scannerVars
    <3>2. xch[s] # Free
      BY <3>1 DEF Free
    <3>3. CASE Step(s, "answered")
      BY <3>1, <3>2, <3>3, <1>5, <1>t, Zenon
    <3>4. CASE ~Step(s, "answered")
      <4>1. PICK c \in cm : xch' = [xch EXCEPT ![s].at = "removed", ![s].c = c]
        BY <3>4, <2>4, Zenon DEF HandleForwardClose
      <4> DEFINE x == [xch[s] EXCEPT !.at = "removed", !.c = c]
      <4>2. c \in DOMAIN made
        BY <1>t, Zenon
      <4>3. c \in Nat
        BY <4>2, MadeShape
      <4>4. x \in Exchange /\ x.c = c
        BY <2>a, <3>2, <4>3, Zenon DEF Exchange
      <4>5. xch' = [xch EXCEPT ![s] = x]
        BY <4>1, Zenon
      <4> HIDE DEF x
      <4>6. xch' \in [Scanner -> Exchange] /\ ExchangeInv'
        BY <3>1, <4>2, <4>4, <4>5, <1>t, Zenon DEF ExchangeInv
      <4> QED
        BY <4>6, <3>1, <1>1, <1>t, <1>m, Zenon DEF TypeInv, ExchangeInv
    <3> QED
      BY <3>3, <3>4, Zenon
  <2>5. CASE OnCloseConsumer(s)
    <3>1. xch[s].at = "removed" /\ UNCHANGED <<nextID, table, ioconn, pc, made, cm>> /\ Step(s, "halfRemoved")
      BY <2>5, Zenon DEF OnCloseConsumer, scannerVars
    <3>2. xch[s] # Free /\ xch[s].c \in DOMAIN made
      BY <3>1, <1>t DEF ExchangeInv, Free
    <3>3. rt' \in [DOMAIN rt' -> DOMAIN made]
      BY <2>5, <1>t, Zenon DEF OnCloseConsumer, Without
    <3> QED
      BY <3>1, <3>2, <3>3, <1>5, <1>t, Zenon
  <2>6. CASE OnCloseProducer(s)
    <3>1. xch[s].at = "halfRemoved" /\ UNCHANGED <<nextID, table, ioconn, pc, made, cm>> /\ Step(s, "answered")
      BY <2>6, Zenon DEF OnCloseProducer, scannerVars
    <3>2. xch[s] # Free /\ xch[s].c \in DOMAIN made
      BY <3>1, <1>t DEF ExchangeInv, Free
    <3>3. rt' \in [DOMAIN rt' -> DOMAIN made]
      BY <2>6, <1>t, Zenon DEF OnCloseProducer, Without
    <3> QED
      BY <3>1, <3>2, <3>3, <1>5, <1>t, Zenon
  <2>7. CASE AnswerLost(s)
    BY <2>7, <1>6, Zenon DEF AnswerLost, scannerVars, adapterVars
  <2> QED
    BY <1>7, <2>1, <2>2, <2>3, <2>4, <2>5, <2>6, <2>7, Zenon DEF SessionStep
<1>8. ASSUME NEW s \in Scanner, ScannerStep(s) PROVE TypeInv' /\ ExchangeInv'
  <2>1. CASE SessionBreaks(s)
    <3>1. UNCHANGED <<nextID, table, ioconn, pc, made, cm, rt>>
      BY <2>1, Zenon DEF SessionBreaks, scannerVars, adapterVars
    <3>2. xch' = xch \/ xch' = [xch EXCEPT ![s] = Free]
      BY <2>1, Zenon DEF SessionBreaks
    <3> QED
      BY <3>1, <3>2, <1>1, <1>6, <1>t, <1>m, Zenon DEF TypeInv, ExchangeInv
  <2>2. CASE Crash(s)
    <3>1. pc' \in [App -> Place]
      BY <2>2, <1>t, Zenon DEF Crash, Place, Outer
    <3>2. ioconn' \in [DOMAIN ioconn -> IOConn]
      BY <2>2, <1>t DEF Crash, IOConn
    <3>3. table' \in [Scanner -> SUBSET DOMAIN ioconn]
      BY <2>2, <1>t, Zenon DEF Crash
    <3>4. UNCHANGED <<nextID, xch, made, cm, rt>>
      BY <2>2, Zenon DEF Crash, adapterVars
    <3> QED
      BY <3>1, <3>2, <3>3, <3>4, <1>1, <1>t, <1>m, Zenon DEF TypeInv, ExchangeInv
  <2>3. CASE HandleIncomingPacket(s)
    <3>1. PICK p \in DOMAIN made, c \in table[s] : ioconn' = [ioconn EXCEPT ![c].in = p]
      BY <2>3, Zenon DEF HandleIncomingPacket, ProcessTick
    <3>2. p \in Nat /\ c \in DOMAIN ioconn
      BY <1>t, MadeShape
    <3>3. ioconn' \in [DOMAIN ioconn -> IOConn]
      BY <3>1, <3>2, <1>t, Zenon DEF IOConn
    <3>4. UNCHANGED <<nextID, table, pc, xch, made, cm, rt>>
      BY <2>3, Zenon DEF HandleIncomingPacket, adapterVars
    <3> QED
      BY <3>3, <3>4, <1>1, <1>t, <1>m, Zenon DEF TypeInv, ExchangeInv
  <2>4. CASE ReceiveLoopEnds(s)
    BY <2>4, <1>1, <1>t, <1>m, Zenon DEF TypeInv, ExchangeInv, ReceiveLoopEnds, adapterVars
  <2> QED
    BY <1>8, <2>1, <2>2, <2>3, <2>4, Zenon DEF ScannerStep
<1>9. ASSUME NEW c \in DOMAIN ioconn, ProduceLoopEnds(c) PROVE TypeInv' /\ ExchangeInv'
  <2>1. ioconn' \in [DOMAIN ioconn -> IOConn]
    BY <1>9, <1>t, Zenon DEF ProduceLoopEnds, IOConn
  <2> QED
    BY <2>1, <1>1, <1>9, <1>t, <1>m, Zenon DEF TypeInv, ExchangeInv, ProduceLoopEnds, adapterVars
<1>10. CASE HandlePacket
  BY <1>10, <1>1, <1>t, <1>m, Zenon DEF TypeInv, ExchangeInv, HandlePacket, scannerVars
<1>11. CASE CheckTimeouts
  <2>1. rt' \in [DOMAIN rt' -> DOMAIN made]
    BY <1>11, <1>t, Zenon DEF CheckTimeouts
  <2>2. UNCHANGED <<nextID, table, ioconn, pc, xch, made, cm>>
    BY <1>11, Zenon DEF CheckTimeouts, scannerVars
  <2> QED
    BY <2>1, <2>2, <1>1, <1>t, <1>m, Zenon DEF TypeInv, ExchangeInv
<1> QED
  BY <1>2, <1>4, <1>7, <1>8, <1>9, <1>10, <1>11, Zenon DEF Next

-----------------------------------------------------------------------------
(* A step that sends no new id anywhere keeps ids apart. *)
LEMMA QuietUse ==
    ASSUME OneUse, UNCHANGED <<nextID, made>>,
           \A g \in App : Asking(pc'[g]) => Asking(pc[g]) /\ pc'[g].id = pc[g].id,
           \A s \in Scanner : UnderWay(xch'[s]) => UnderWay(xch[s]) /\ xch'[s].id = xch[s].id
    PROVE OneUse'
<1>1. \A s \in Scanner : \A n : Used(made', s, n) <=> Used(made, s, n)
  BY Zenon DEF Used
<1>2. \A g \in App : Of[g] \in Scanner
  BY IOAssumption, Zenon
<1> QED
  BY <1>1, <1>2 DEF OneUse

(* What a goroutine goes back to after its request asks for nothing. *)
LEMMA OuterAsksNothing == \A q \in Outer : q.at # "request"
BY DEF Outer, Idle

(* Ids stay apart: the three steps that move one are OpenStart, Send and *)
(* HandleForwardOpen.                                                     *)
LEMMA UseStep == TypeInv /\ OneUse /\ [Next]_vars => OneUse'
<1> SUFFICES ASSUME TypeInv, OneUse, [Next]_vars PROVE OneUse'
  BY Zenon
<1>t. /\ pc \in [App -> Place] /\ xch \in [Scanner -> Exchange] /\ nextID \in [Scanner -> Nat]
      /\ Of \in [App -> Scanner]
  BY IOAssumption, Zenon DEF TypeInv
<1>q. ASSUME NEW g \in App, NEW q, pc' = [pc EXCEPT ![g] = q], q.at # "request" \/ q.op # "open",
             UNCHANGED <<nextID, made, xch>>
      PROVE OneUse'
  <2>1. \A h \in App : Asking(pc'[h]) => Asking(pc[h]) /\ pc'[h].id = pc[h].id
    BY <1>q, <1>t, Zenon DEF Asking
  <2>2. \A s \in Scanner : UnderWay(xch'[s]) => UnderWay(xch[s]) /\ xch'[s].id = xch[s].id
    BY <1>q, Zenon DEF UnderWay
  <2> QED
    BY <2>1, <2>2, <1>q, QuietUse, Zenon
<1>x. ASSUME NEW s \in Scanner, NEW x, xch' = [xch EXCEPT ![s] = x], x.at # "sent",
             UNCHANGED <<nextID, made, pc>>
      PROVE OneUse'
  <2>1. \A g \in App : Asking(pc'[g]) => Asking(pc[g]) /\ pc'[g].id = pc[g].id
    BY <1>x, Zenon DEF Asking
  <2>2. \A r \in Scanner : UnderWay(xch'[r]) => UnderWay(xch[r]) /\ xch'[r].id = xch[r].id
    BY <1>x, <1>t, Zenon DEF UnderWay
  <2> QED
    BY <2>1, <2>2, <1>x, QuietUse, Zenon
<1>f. Free.at # "sent"
  BY Zenon DEF Free
<1>u. ASSUME UNCHANGED <<nextID, made, pc, xch>> PROVE OneUse'
  BY <1>u, QuietUse, Zenon DEF Asking, UnderWay
<1>1. CASE UNCHANGED vars
  BY <1>1, <1>u, Zenon DEF vars, scannerVars, adapterVars
<1>2. ASSUME NEW g \in App, AppStep(g) PROVE OneUse'
  <2>r. ASSUME pc[g].at \in {"request", "reply"} PROVE
            pc[g] \in [at : {"request", "reply"}, op : {"open", "close"}, id : Nat, then : Outer]
    BY <2>r, <1>t DEF Place, Outer, Idle
  <2>1. CASE OpenStart(g)
    <3> DEFINE s == Of[g]
               n == nextID[s] + 1
    <3>1. /\ pc' = [pc EXCEPT ![g] = [at |-> "request", op |-> "open", id |-> n, then |-> Idle]]
          /\ nextID' = [nextID EXCEPT ![s] = n]
          /\ UNCHANGED <<made, xch>>
      BY <2>1, Zenon DEF OpenStart, Requests, adapterVars
    <3>2. /\ Asking(pc'[g]) /\ pc'[g].id = n
          /\ \A h \in App \ {g} : pc'[h] = pc[h] /\ (Asking(pc'[h]) <=> Asking(pc[h]))
      BY <3>1, <1>t, Zenon DEF Asking
    <3>3. \A r \in Scanner : nextID'[r] \in Nat /\ nextID[r] \in Nat /\ nextID[r] <= nextID'[r]
      BY <3>1, <1>t
    <3>4. nextID'[s] = n /\ nextID[s] < n /\ n \in Nat
      BY <3>1, <1>t
    <3>5. \A r \in Scanner : \A i : (Used(made', r, i) <=> Used(made, r, i)) /\ (UnderWay(xch'[r]) <=> UnderWay(xch[r]))
      BY <3>1, Zenon DEF Used, UnderWay
    <3>6. \A c \in DOMAIN made : made[c].by \in Scanner /\ made[c].ot \in Nat
      BY MadeShape, Zenon
    <3>7. ~Used(made, s, n)
      BY <3>4, <3>6, <1>t DEF Used, OneUse
    <3>8. UnderWay(xch[s]) => xch[s].id # n
      BY <3>4, <1>t DEF OneUse
    <3>9. \A r \in Scanner : UnderWay(xch[r]) => xch[r].id \in Nat
      BY <1>t DEF UnderWay, Exchange, Free
    <3>10. \A h \in App : Asking(pc[h]) => pc[h].id \in Nat
      BY <1>t DEF Asking, Place, Outer, Idle
    <3>11. \A h \in App : Asking(pc[h]) /\ Of[h] = s => pc[h].id # n
      BY <3>4, <3>10, <1>t DEF OneUse
    <3> HIDE DEF n, s
    <3>a. /\ \A c \in DOMAIN made' : made'[c].ot <= nextID'[made'[c].by]
          /\ \A c, d \in DOMAIN made' : made'[c].by = made'[d].by /\ made'[c].ot = made'[d].ot => c = d
      BY <3>1, <3>3, <3>6 DEF OneUse
    <3>b. \A r \in Scanner : UnderWay(xch'[r]) => xch'[r].id <= nextID'[r] /\ ~Used(made', r, xch'[r].id)
      BY <3>1, <3>3, <3>5, <3>9 DEF OneUse
    <3>c. ASSUME NEW h \in App, Asking(pc'[h])
          PROVE /\ pc'[h].id <= nextID'[Of[h]] /\ ~Used(made', Of[h], pc'[h].id)
                /\ UnderWay(xch'[Of[h]]) => xch'[Of[h]].id # pc'[h].id
                /\ \A k \in App \ {h} : Asking(pc'[k]) /\ Of[k] = Of[h] => pc'[k].id # pc'[h].id
      <4>1. CASE h = g
        BY <4>1, <3>1, <3>2, <3>4, <3>5, <3>7, <3>8, <3>11, <1>t DEF s
      <4>2. CASE h # g
        BY <4>2, <3>c, <3>1, <3>2, <3>3, <3>5, <3>10, <3>11, <1>t DEF OneUse, s
      <4> QED
        BY <4>1, <4>2, Zenon
    <3> QED
      BY <3>a, <3>b, <3>c, Zenon DEF OneUse
  <2>2. CASE CloseStart(g)
    BY <2>2, <1>q, Zenon DEF CloseStart, Requests, adapterVars
  <2>3. CASE ShutdownStart(g)
    BY <2>3, <1>q, Zenon DEF ShutdownStart, adapterVars
  <2>4. CASE ShutdownCloses(g)
    BY <2>4, <1>q, Zenon DEF ShutdownCloses, Requests, adapterVars
  <2>5. CASE ShutdownEnds(g)
    BY <2>5, <1>q, Zenon DEF ShutdownEnds, adapterVars
  <2>6. CASE ShutdownReturns(g)
    <3>1. pc[g] \in [at : {"wait", "returned"}, table : SUBSET DOMAIN made]
      BY <2>6, <1>t DEF ShutdownReturns, Place, Outer, Idle
    <3>2. [pc[g] EXCEPT !.at = "returned"].at # "request"
      BY <3>1, Zenon
    <3> QED
      BY <3>2, <2>6, <1>q, Zenon DEF ShutdownReturns, adapterVars
  <2>7. CASE Send(g)
    <3>1. /\ pc[g].at = "request" /\ UNCHANGED <<nextID, made>>
          /\ pc[g] \in [at : {"request", "reply"}, op : {"open", "close"}, id : Nat, then : Outer]
      BY <2>7, <2>r, Zenon DEF Send, adapterVars
    <3>2. CASE alive[Of[g]]
      <4> DEFINE s == Of[g]
      <4>1. /\ xch' = [xch EXCEPT ![s] = [at |-> "sent", op |-> pc[g].op, id |-> pc[g].id, g |-> g, c |-> 0]]
            /\ pc' = [pc EXCEPT ![g] = [pc[g] EXCEPT !.at = "reply"]]
        BY <2>7, <3>2, Zenon DEF Send
      <4>2. /\ ~Asking(pc'[g])
            /\ \A h \in App \ {g} : pc'[h] = pc[h] /\ (Asking(pc'[h]) <=> Asking(pc[h]))
        BY <4>1, <3>1, <1>t, Zenon DEF Asking
      <4>3. /\ UnderWay(xch'[s]) => Asking(pc[g]) /\ xch'[s].id = pc[g].id
            /\ \A r \in Scanner \ {s} : xch'[r] = xch[r] /\ (UnderWay(xch'[r]) <=> UnderWay(xch[r]))
        BY <4>1, <3>1, <1>t, Zenon DEF Asking, UnderWay
      <4>4. \A r \in Scanner : \A i : Used(made', r, i) <=> Used(made, r, i)
        BY <3>1, Zenon DEF Used
      <4>5. \A r \in Scanner : UnderWay(xch'[r]) => xch'[r].id <= nextID'[r] /\ ~Used(made', r, xch'[r].id)
        BY <4>3, <4>4, <3>1, <1>t DEF OneUse
      <4>6. ASSUME NEW h \in App, Asking(pc'[h])
            PROVE /\ pc'[h].id <= nextID'[Of[h]] /\ ~Used(made', Of[h], pc'[h].id)
                  /\ UnderWay(xch'[Of[h]]) => xch'[Of[h]].id # pc'[h].id
                  /\ \A k \in App \ {h} : Asking(pc'[k]) /\ Of[k] = Of[h] => pc'[k].id # pc'[h].id
        BY <4>2, <4>3, <4>4, <4>6, <3>1, <1>t DEF OneUse
      <4> QED
        BY <4>5, <4>6, <3>1, Zenon DEF OneUse
    <3>3. CASE ~alive[Of[g]]
      <4>1. pc' = [pc EXCEPT ![g] = pc[g].then] /\ xch' = xch
        BY <2>7, <3>3, Zenon DEF Send
      <4> QED
        BY <4>1, <3>1, <1>q, OuterAsksNothing, Zenon
    <3> QED
      BY <3>2, <3>3, Zenon
  <2>8. CASE Receive(g)
    <3>1. /\ pc[g].then \in Outer /\ UNCHANGED <<nextID, made>>
          /\ pc' = [pc EXCEPT ![g] = pc[g].then]
          /\ xch' = [xch EXCEPT ![Of[g]] = Free]
      BY <2>8, <2>r, Zenon DEF Receive, adapterVars
    <3>2. \A h \in App : Asking(pc'[h]) => Asking(pc[h]) /\ pc'[h].id = pc[h].id
      BY <3>1, <1>t, OuterAsksNothing, Zenon DEF Asking
    <3>3. \A s \in Scanner : UnderWay(xch'[s]) => UnderWay(xch[s]) /\ xch'[s].id = xch[s].id
      BY <3>1, <1>t, Zenon DEF UnderWay, Free
    <3> QED
      BY <3>1, <3>2, <3>3, QuietUse, Zenon
  <2>9. CASE ReceiveFails(g)
    <3>1. pc[g].then \in Outer
      BY <2>9, <2>r, Zenon DEF ReceiveFails
    <3> QED
      BY <3>1, <2>9, <1>q, OuterAsksNothing, Zenon DEF ReceiveFails, adapterVars
  <2> QED
    BY <1>2, <2>1, <2>2, <2>3, <2>4, <2>5, <2>6, <2>7, <2>8, <2>9, Zenon DEF AppStep
<1>3. ASSUME NEW s \in Scanner, SessionStep(s) PROVE OneUse'
  <2>s. ASSUME NEW at, Step(s, at), xch[s] # Free, at # "sent", UNCHANGED <<nextID, made, pc>> PROVE OneUse'
    <3>1. xch' = [xch EXCEPT ![s] = [xch[s] EXCEPT !.at = at]]
      BY <2>s, Zenon DEF Step
    <3>2. [xch[s] EXCEPT !.at = at].at = at
      BY <2>s, <1>t, Zenon DEF Exchange
    <3> QED
      BY <3>1, <3>2, <2>s, <1>x, Zenon
  <2>1. CASE HandleForwardOpen(s)
    <3>1. xch[s].at = "sent" /\ xch[s].op = "open" /\ UNCHANGED <<nextID, pc>>
      BY <2>1, Zenon DEF HandleForwardOpen, scannerVars
    <3>2. xch[s] \in Exchange \ {Free} /\ UnderWay(xch[s])
      BY <3>1, <1>t DEF Free, UnderWay
    <3>3. CASE Step(s, "refused") /\ UNCHANGED made
      BY <3>1, <3>2, <3>3, <2>s, Zenon
    <3>4. CASE ~(Step(s, "refused") /\ UNCHANGED made)
      <4> DEFINE new == [by |-> s, ot |-> xch[s].id, to |-> NewConnID]
                 k == Len(made) + 1
      <4>1. /\ made' = Append(made, new)
            /\ xch' = [xch EXCEPT ![s] = [xch[s] EXCEPT !.at = "inserted", !.c = Len(made')]]
        BY <3>4, <2>1, Zenon DEF HandleForwardOpen
      <4>2. /\ DOMAIN made' = DOMAIN made \cup {k} /\ k \notin DOMAIN made
            /\ made'[k] = new /\ \A c \in DOMAIN made : made'[c] = made[c]
        <5> HIDE DEF new
        <5>1. made \in Seq([by : Scanner, ot : Nat, to : Nat])
          BY Zenon DEF TypeInv
        <5>2. /\ DOMAIN made' = 1..(Len(made) + 1) /\ made'[Len(made) + 1] = new
              /\ \A c \in 1..Len(made) : made'[c] = made[c]
          BY <4>1, <5>1
        <5> QED
          BY <5>2, MadeShape
      <4>3. new.by = s /\ new.ot = xch[s].id
        BY Zenon
      <4>4. /\ ~UnderWay(xch'[s])
            /\ \A r \in Scanner \ {s} : xch'[r] = xch[r] /\ (UnderWay(xch'[r]) <=> UnderWay(xch[r]))
        BY <4>1, <3>2, <1>t, Zenon DEF UnderWay, Exchange
      <4> HIDE DEF new, k
      <4>5. \A r \in Scanner : \A i : Used(made', r, i) <=> Used(made, r, i) \/ (r = s /\ i = xch[s].id)
        BY <4>2, <4>3, Zenon DEF Used
      <4>6. /\ \A c \in DOMAIN made' : made'[c].ot <= nextID'[made'[c].by]
            /\ \A c, d \in DOMAIN made' : made'[c].by = made'[d].by /\ made'[c].ot = made'[d].ot => c = d
        BY <4>2, <4>3, <3>1, <3>2 DEF OneUse, Used
      <4>7. \A r \in Scanner : UnderWay(xch'[r]) => xch'[r].id <= nextID'[r] /\ ~Used(made', r, xch'[r].id)
        BY <4>4, <4>5, <3>1 DEF OneUse
      <4>8. ASSUME NEW h \in App, Asking(pc'[h])
            PROVE /\ pc'[h].id <= nextID'[Of[h]] /\ ~Used(made', Of[h], pc'[h].id)
                  /\ UnderWay(xch'[Of[h]]) => xch'[Of[h]].id # pc'[h].id
                  /\ \A j \in App \ {h} : Asking(pc'[j]) /\ Of[j] = Of[h] => pc'[j].id # pc'[h].id
        <5>1. \A j \in App : pc'[j] = pc[j] /\ (Asking(pc'[j]) <=> Asking(pc[j]))
          BY <3>1, Zenon DEF Asking
        <5> QED
          BY <5>1, <4>4, <4>5, <4>8, <3>1, <3>2, <1>t DEF OneUse
      <4> QED
        BY <4>6, <4>7, <4>8, Zenon DEF OneUse
    <3> QED
      BY <3>3, <3>4, Zenon
  <2>2. CASE OnOpenConsumer(s)
    BY <2>2, <2>s DEF OnOpenConsumer, scannerVars, Free
  <2>3. CASE OnOpenProducer(s)
    BY <2>3, <2>s DEF OnOpenProducer, scannerVars, Free
  <2>4. CASE HandleForwardClose(s)
    <3>1. xch[s].at = "sent" /\ UNCHANGED <<nextID, pc, made>>
      BY <2>4, Zenon DEF HandleForwardClose, scannerVars
    <3>2. xch[s] # Free
      BY <3>1 DEF Free
    <3>3. CASE Step(s, "answered")
      BY <3>1, <3>2, <3>3, <2>s, Zenon
    <3>4. CASE ~Step(s, "answered")
      <4>1. PICK c \in cm : xch' = [xch EXCEPT ![s] = [xch[s] EXCEPT !.at = "removed", !.c = c]]
        BY <3>4, <2>4, Zenon DEF HandleForwardClose
      <4>2. [xch[s] EXCEPT !.at = "removed", !.c = c].at = "removed"
        BY <3>2, <1>t, Zenon DEF Exchange
      <4> QED
        BY <4>1, <4>2, <3>1, <1>x, Zenon
    <3> QED
      BY <3>3, <3>4, Zenon
  <2>5. CASE OnCloseConsumer(s)
    BY <2>5, <2>s DEF OnCloseConsumer, scannerVars, Free
  <2>6. CASE OnCloseProducer(s)
    BY <2>6, <2>s DEF OnCloseProducer, scannerVars, Free
  <2>7. CASE AnswerLost(s)
    BY <2>7, <1>f, <1>x, Zenon DEF AnswerLost, scannerVars, adapterVars
  <2> QED
    BY <1>3, <2>1, <2>2, <2>3, <2>4, <2>5, <2>6, <2>7, Zenon DEF SessionStep
<1>4. ASSUME NEW s \in Scanner, ScannerStep(s) PROVE OneUse'
  <2>1. CASE SessionBreaks(s)
    <3>1. UNCHANGED <<nextID, pc, made>> /\ (xch' = xch \/ xch' = [xch EXCEPT ![s] = Free])
      BY <2>1, Zenon DEF SessionBreaks, scannerVars, adapterVars
    <3> QED
      BY <3>1, <1>f, <1>u, <1>x, Zenon
  <2>2. CASE Crash(s)
    <3>1. UNCHANGED <<nextID, made, xch>> /\ pc' = [g \in App |-> IF Of[g] = s THEN Idle ELSE pc[g]]
      BY <2>2, Zenon DEF Crash, adapterVars
    <3>2. \A g \in App : Asking(pc'[g]) => Asking(pc[g]) /\ pc'[g].id = pc[g].id
      BY <3>1, Zenon DEF Asking, Idle
    <3>3. \A r \in Scanner : UnderWay(xch'[r]) => UnderWay(xch[r]) /\ xch'[r].id = xch[r].id
      BY <3>1, Zenon DEF UnderWay
    <3> QED
      BY <3>1, <3>2, <3>3, QuietUse, Zenon
  <2>3. CASE HandleIncomingPacket(s) \/ ReceiveLoopEnds(s)
    BY <2>3, <1>u, Zenon DEF HandleIncomingPacket, ReceiveLoopEnds, adapterVars
  <2> QED
    BY <1>4, <2>1, <2>2, <2>3, Zenon DEF ScannerStep
<1>5. CASE HandlePacket \/ CheckTimeouts \/ \E c \in DOMAIN ioconn : ProduceLoopEnds(c)
  BY <1>5, <1>u, Zenon DEF HandlePacket, CheckTimeouts, ProduceLoopEnds, scannerVars, adapterVars
<1> QED
  BY <1>1, <1>2, <1>3, <1>4, <1>5, Zenon DEF Next

-----------------------------------------------------------------------------
(* The list of connections only grows, by one with the next number as its T->O *)
(* id.                                                                          *)
LEMMA MadeStep ==
    ASSUME TypeInv, OwnTO, [Next]_vars
    PROVE OwnTO' /\ \A c \in DOMAIN made : c \in DOMAIN made' /\ made'[c] = made[c]
<1>1. made' = made \/ \E r : r.to = Len(made) + 1 /\ made' = Append(made, r)
  <2> USE DEF scannerVars, adapterVars
  <2>1. CASE UNCHANGED vars
    BY <2>1, Zenon DEF vars
  <2>2. ASSUME NEW g \in App, AppStep(g) PROVE made' = made
    BY <2>2, Zenon DEF AppStep, OpenStart, CloseStart, ShutdownStart, ShutdownCloses, ShutdownEnds,
                ShutdownReturns, Send, Receive, ReceiveFails
  <2>3. ASSUME NEW s \in Scanner, ScannerStep(s) PROVE made' = made
    BY <2>3, Zenon DEF ScannerStep, SessionBreaks, Crash, HandleIncomingPacket, ReceiveLoopEnds
  <2>4. ASSUME NEW s \in Scanner, SessionStep(s)
        PROVE made' = made \/ \E r : r.to = Len(made) + 1 /\ made' = Append(made, r)
    <3>1. CASE HandleForwardOpen(s)
      <4> DEFINE r == [by |-> s, ot |-> xch[s].id, to |-> NewConnID]
      <4>1. made' = made \/ made' = Append(made, r)
        BY <3>1, Zenon DEF HandleForwardOpen
      <4>2. r.to = Len(made) + 1
        BY Zenon DEF NewConnID
      <4> QED
        BY <4>1, <4>2, Zenon
    <3>2. CASE ~HandleForwardOpen(s)
      BY <2>4, <3>2, Zenon DEF SessionStep, OnOpenConsumer, OnOpenProducer, HandleForwardClose,
                        OnCloseConsumer, OnCloseProducer, AnswerLost
    <3> QED
      BY <3>1, <3>2, Zenon
  <2>5. CASE HandlePacket \/ CheckTimeouts \/ \E c \in DOMAIN ioconn : ProduceLoopEnds(c)
    BY <2>5, Zenon DEF HandlePacket, CheckTimeouts, ProduceLoopEnds
  <2> QED
    BY <2>1, <2>2, <2>3, <2>4, <2>5, Zenon DEF Next
<1>2. CASE made' = made
  BY <1>2, Zenon DEF OwnTO
<1>3. ASSUME NEW r, r.to = Len(made) + 1, made' = Append(made, r)
      PROVE OwnTO' /\ \A c \in DOMAIN made : c \in DOMAIN made' /\ made'[c] = made[c]
  <2>1. made \in Seq([by : Scanner, ot : Nat, to : Nat])
    BY Zenon DEF TypeInv
  <2>2. /\ DOMAIN made' = 1..(Len(made) + 1) /\ made'[Len(made) + 1] = r
        /\ \A c \in 1..Len(made) : made'[c] = made[c]
    BY <2>1, <1>3
  <2> QED
    BY <2>2, <1>3, MadeShape DEF OwnTO
<1> QED
  BY <1>1, <1>2, <1>3, Zenon

(* A consumer stays filed under its connection's O->T id. *)
LEMMA ConsumerStep == TypeInv /\ ExchangeInv /\ OwnTO /\ OwnOT /\ [Next]_vars => OwnOT'
<1> SUFFICES ASSUME TypeInv, ExchangeInv, OwnTO, OwnOT, [Next]_vars,
                    NEW n \in Nat, <<"OT", n>> \in DOMAIN rt'
             PROVE made'[rt'[<<"OT", n>>]].ot = n
  BY Zenon DEF OwnOT
<1>1. \A c \in DOMAIN made : made'[c] = made[c]
  BY MadeStep, Zenon
<1>2. ASSUME <<"OT", n>> \in DOMAIN rt, rt'[<<"OT", n>>] = rt[<<"OT", n>>]
      PROVE made'[rt'[<<"OT", n>>]].ot = n
  BY <1>1, <1>2, Zenon DEF OwnOT, TypeInv
<1>3. CASE rt' = rt
  BY <1>2, <1>3, Zenon
<1>4. ASSUME NEW s \in Scanner, OnOpenConsumer(s) PROVE made'[rt'[<<"OT", n>>]].ot = n
  <2> DEFINE c == xch[s].c
  <2>1. c \in DOMAIN made
    BY <1>4, Zenon DEF OnOpenConsumer, ExchangeInv
  <2>2. rt' = With(rt, <<"OT", made[c].ot>>, c)
    BY <1>4, Zenon DEF OnOpenConsumer
  <2> HIDE DEF c
  <2>3. CASE n = made[c].ot
    <3>1. rt'[<<"OT", n>>] = c
      BY <2>2, <2>3, Zenon DEF With
    <3> QED
      BY <3>1, <2>1, <2>3, <1>1, Zenon
  <2>4. CASE n # made[c].ot
    <3>1. <<"OT", n>> # <<"OT", made[c].ot>>
      BY <2>4, Zenon
    <3> QED
      BY <3>1, <2>2, <1>2, Zenon DEF With
  <2> QED
    BY <2>3, <2>4, Zenon
<1>5. ASSUME NEW s \in Scanner, OnOpenProducer(s) PROVE made'[rt'[<<"OT", n>>]].ot = n
  <2>1. <<"OT", n>> # <<"TO", made[xch[s].c].to>>
    BY Zenon
  <2> QED
    BY <2>1, <1>2, <1>5, Zenon DEF OnOpenProducer, With
<1>6. ASSUME NEW s \in Scanner, OnCloseConsumer(s) \/ OnCloseProducer(s)
      PROVE made'[rt'[<<"OT", n>>]].ot = n
  BY <1>2, <1>6, Zenon DEF OnCloseConsumer, OnCloseProducer, Without
<1>7. CASE CheckTimeouts
  BY <1>2, <1>7, Zenon DEF CheckTimeouts
<1> QED
  <2> USE DEF scannerVars, adapterVars
  <2>1. CASE UNCHANGED vars
    BY <2>1, <1>3, Zenon DEF vars
  <2>2. ASSUME NEW g \in App, AppStep(g) PROVE rt' = rt
    BY <2>2, Zenon DEF AppStep, OpenStart, CloseStart, ShutdownStart, ShutdownCloses, ShutdownEnds,
                ShutdownReturns, Send, Receive, ReceiveFails
  <2>3. ASSUME NEW s \in Scanner, ScannerStep(s) PROVE rt' = rt
    BY <2>3, Zenon DEF ScannerStep, SessionBreaks, Crash, HandleIncomingPacket, ReceiveLoopEnds
  <2>4. ASSUME NEW s \in Scanner, HandleForwardOpen(s) \/ HandleForwardClose(s) \/ AnswerLost(s) PROVE rt' = rt
    BY <2>4, Zenon DEF HandleForwardOpen, HandleForwardClose, AnswerLost
  <2>5. CASE HandlePacket \/ \E c \in DOMAIN ioconn : ProduceLoopEnds(c)
    BY <2>5, <1>3, Zenon DEF HandlePacket, ProduceLoopEnds
  <2> QED
    BY <2>1, <2>2, <2>3, <2>4, <2>5, <1>3, <1>4, <1>5, <1>6, <1>7, Zenon DEF Next, SessionStep

(* A connection's input stays its own: two connections with one T->O id are one. *)
LEMMA InputStep ==
    TypeInv /\ ExchangeInv /\ OwnTO /\ InputFromOwnConnection /\ [Next]_vars => InputFromOwnConnection'
<1> SUFFICES ASSUME TypeInv, ExchangeInv, OwnTO, InputFromOwnConnection, [Next]_vars,
                    NEW d \in DOMAIN ioconn'
             PROVE ioconn'[d].in \in {0, d}
  BY Zenon DEF InputFromOwnConnection
<1>t. \A c \in DOMAIN ioconn : ioconn[c] \in IOConn /\ ioconn[c].in \in {0, c}
  BY Zenon DEF TypeInv, InputFromOwnConnection
<1>1. CASE ioconn' = ioconn
  BY <1>1, <1>t, Zenon
<1>2. ASSUME NEW s, NEW c, CloseLocally(s, c) PROVE ioconn'[d].in \in {0, d}
  <2>1. d \in DOMAIN ioconn
    BY <1>2, Zenon DEF CloseLocally
  <2>2. CASE d # c
    BY <1>2, <2>1, <2>2, <1>t, Zenon DEF CloseLocally
  <2>3. CASE d = c
    <3>1. ioconn'[d] = [ioconn[d] EXCEPT !.loop = IF @ = "running" THEN "stopping" ELSE @, !.closed = TRUE]
      BY <1>2, <2>1, <2>3, Zenon DEF CloseLocally
    <3> QED
      BY <3>1, <2>1, <1>t, Zenon DEF IOConn
  <2> QED
    BY <2>2, <2>3, Zenon
<1>3. ASSUME NEW g \in App, AppStep(g) PROVE ioconn'[d].in \in {0, d}
  <2>1. CASE CloseStart(g) \/ ShutdownCloses(g)
    BY <2>1, <1>2, Zenon DEF CloseStart, ShutdownCloses
  <2>2. CASE Receive(g)
    <3>1. CASE ioconn' = With(ioconn, xch[Of[g]].c, [loop |-> "running", closed |-> FALSE, in |-> 0])
      BY <3>1, <1>t, Zenon DEF With
    <3> QED
      BY <3>1, <2>2, <1>1, Zenon DEF Receive
  <2> QED
    BY <1>3, <2>1, <2>2, <1>1, Zenon DEF AppStep, OpenStart, ShutdownStart, ShutdownEnds, ShutdownReturns,
                                  Send, ReceiveFails
<1>4. ASSUME NEW s \in Scanner, HandleIncomingPacket(s) PROVE ioconn'[d].in \in {0, d}
  <2>1. PICK p \in DOMAIN made, c \in table[s] :
           made[p].to = made[c].to /\ ioconn' = [ioconn EXCEPT ![c].in = p]
    BY <1>4, Zenon DEF HandleIncomingPacket, ProcessTick
  <2>2. c \in DOMAIN ioconn /\ c \in DOMAIN made
    BY Zenon DEF TypeInv
  <2>3. p = c
    BY <2>1, <2>2, Zenon DEF OwnTO
  <2> QED
    BY <2>1, <2>2, <2>3, <1>t, Zenon DEF IOConn
<1>5. ASSUME NEW s \in Scanner, Crash(s) PROVE ioconn'[d].in \in {0, d}
  BY <1>5, <1>t, Zenon DEF Crash, IOConn
<1>6. ASSUME NEW c \in DOMAIN ioconn, ProduceLoopEnds(c) PROVE ioconn'[d].in \in {0, d}
  BY <1>6, <1>t, Zenon DEF ProduceLoopEnds, IOConn
<1> QED
  <2> USE DEF scannerVars, adapterVars
  <2>1. CASE UNCHANGED vars
    BY <2>1, <1>1, Zenon DEF vars
  <2>2. ASSUME NEW s \in Scanner, SessionBreaks(s) \/ ReceiveLoopEnds(s) PROVE ioconn' = ioconn
    BY <2>2, Zenon DEF SessionBreaks, ReceiveLoopEnds
  <2>3. ASSUME NEW s \in Scanner, SessionStep(s) PROVE ioconn' = ioconn
    BY <2>3, Zenon DEF SessionStep, HandleForwardOpen, HandleForwardClose, AnswerLost, OnOpenConsumer,
                OnOpenProducer, OnCloseConsumer, OnCloseProducer
  <2>4. CASE HandlePacket \/ CheckTimeouts
    BY <2>4, <1>1, Zenon DEF HandlePacket, CheckTimeouts
  <2> QED
    BY <2>1, <2>2, <2>3, <2>4, <1>1, <1>3, <1>4, <1>5, <1>6, Zenon DEF Next, ScannerStep

(* The ids stay distinct along every behaviour. *)
THEOREM IdsStayDistinct == Spec => []IdInv
<1>1. IdInv /\ [Next]_vars => IdInv'
  BY TypeStep, UseStep, MadeStep, ConsumerStep, InputStep, Zenon DEF IdInv
<1> QED
  BY <1>1, InitIds, PTL DEF Spec

(* InputFromOwnConnection for any number of scanners, goroutines and opens: *)
(* io.go's handleIncomingPacket gives a connection only data that was sent   *)
(* for it, since connmgr.go never gives a T->O id out twice.                 *)
THEOREM InputIsOwn == Spec => []InputFromOwnConnection
BY IdsStayDistinct, PTL DEF IdInv

(* CrossTalkOnlyAcrossScanners for any number of scanners, goroutines and     *)
(* opens: runtime.go's handlePacket looks a datagram's O->T id up, and         *)
(* whatever it finds is the datagram's own connection or another scanner's.    *)
THEOREM CrossTalkIsForeign == Spec => CrossTalkOnlyAcrossScanners
<1> DEFINE Own == stored' \notin {0, stored} =>
                    LET owner == rt[<<"OT", made[stored'].ot>>] IN
                    owner = stored' \/ made[owner].by # made[stored'].by
<1>1. IdInv /\ [Next]_vars => [Own]_vars
  <2> SUFFICES ASSUME IdInv, Next, stored' \notin {0, stored} PROVE Own
    BY Zenon
  <2>1. HandlePacket
    <3> USE DEF scannerVars, adapterVars
    <3>1. ASSUME NEW g \in App, AppStep(g) PROVE stored' = stored
      BY <3>1, Zenon DEF AppStep, OpenStart, CloseStart, ShutdownStart, ShutdownCloses, ShutdownEnds,
                  ShutdownReturns, Send, Receive, ReceiveFails
    <3>2. ASSUME NEW s \in Scanner, ScannerStep(s) PROVE stored' = stored
      BY <3>2, Zenon DEF ScannerStep, SessionBreaks, Crash, HandleIncomingPacket, ReceiveLoopEnds
    <3>3. ASSUME NEW s \in Scanner, SessionStep(s) PROVE stored' = stored
      BY <3>3, Zenon DEF SessionStep, HandleForwardOpen, HandleForwardClose, AnswerLost, OnOpenConsumer,
                  OnOpenProducer, OnCloseConsumer, OnCloseProducer
    <3>4. ASSUME CheckTimeouts \/ \E c \in DOMAIN ioconn : ProduceLoopEnds(c) PROVE stored' = stored
      BY <3>4, Zenon DEF CheckTimeouts, ProduceLoopEnds
    <3> QED
      BY <3>1, <3>2, <3>3, <3>4, Zenon DEF Next
  <2>2. stored' \in DOMAIN made /\ <<"OT", made[stored'].ot>> \in DOMAIN rt
    BY <2>1, Zenon DEF HandlePacket, SendPacket, IdInv, TypeInv
  <2> DEFINE owner == rt[<<"OT", made[stored'].ot>>]
  <2>3. TypeInv /\ made[stored'].ot \in Nat
    BY <2>2, MadeShape, Zenon DEF IdInv
  <2>4. owner \in DOMAIN made /\ made[owner].ot = made[stored'].ot
    BY <2>2, <2>3, Zenon DEF IdInv, TypeInv, OwnOT
  <2> HIDE DEF owner
  <2>5. owner = stored' \/ made[owner].by # made[stored'].by
    BY <2>2, <2>4, Zenon DEF IdInv, OneUse
  <2> QED
    BY <2>5, Zenon DEF owner
<1> QED
  BY <1>1, IdsStayDistinct, PTL DEF Spec, CrossTalkOnlyAcrossScanners

-----------------------------------------------------------------------------
(* The tables of the adapter.  A session works on a connection of its own    *)
(* scanner, so no two handlers are ever busy with one connection.             *)

Opening(x) == x.at \in {"inserted", "half"}
Removing(x) == x.at \in {"removed", "halfRemoved"}

(* A connection being opened is one of the session's own, and so is the one an *)
(* answered Forward_Open reports; the scanner's table holds its own; only a      *)
(* Forward_Close removes.                                                        *)
OwnExchange ==
    /\ \A s \in Scanner : Opening(xch[s]) \/ (xch[s].at = "answered" /\ xch[s].op = "open") =>
          made[xch[s].c].by = s
    /\ \A s \in Scanner : Removing(xch[s]) => xch[s].op = "close"
    /\ \A s \in Scanner : \A c \in table[s] : made[c].by = s

(* A triad names one open connection. *)
OneTriad == \A c, d \in cm : Triad(made[c].by, made[c].ot) = Triad(made[d].by, made[d].ot) => c = d

(* With distinct originators a session closes only its own connections, and a *)
(* connection is in cm from its insertion to its removal.                      *)
BusyOwn ==
    \A s \in Scanner :
        /\ Opening(xch[s]) => xch[s].c \in cm
        /\ Removing(xch[s]) => xch[s].c \notin cm /\ made[xch[s].c].by = s

(* Producers are filed under their connection's number, and outside the        *)
(* handlers exactly the connections in cm have one.                             *)
Produced ==
    /\ \A id \in DOMAIN rt : id[1] = "TO" => id = <<"TO", rt[id]>>
    /\ \A c \in DOMAIN made \ Busy : c \in cm <=> <<"TO", c>> \in DOMAIN rt

(* Some other scanner than c's own has used c's O->T id. *)
SharedId(c) == \E s \in Scanner \ {made[c].by} : nextID[s] >= made[c].ot

Consumed ==
    \A c \in cm \ expired :
        \/ \E s \in Scanner : xch[s].at = "inserted" /\ xch[s].c = c
        \/ <<"OT", made[c].ot>> \in DOMAIN rt /\ rt[<<"OT", made[c].ot>>] = c
        \/ SharedId(c)

(* What Shutdown is at, also while it waits for one of its closes. *)
Frame(q) == IF q.at \in {"request", "reply"} THEN q.then ELSE q

(* The goroutine is closing c, and the adapter has not yet looked for it. *)
Closing(g, c) ==
    /\ pc[g].at \in {"request", "reply"} /\ pc[g].op = "close" /\ pc[g].id = made[c].ot
    /\ pc[g].at = "reply" => /\ xch[Of[g]].at = "sent" /\ xch[Of[g]].op = "close"
                             /\ xch[Of[g]].id = made[c].ot

(* While the session holds, what is left of Shutdown's snapshot is still to be *)
(* closed or being closed.                                                      *)
Held(g) ==
    Frame(pc[g]).at \in {"shutdown", "wait", "returned"} =>
        \A c \in Frame(pc[g]).table :
            /\ made[c].by = Of[g]
            /\ alive[Of[g]] /\ c \in cm =>
                  \/ Frame(pc[g]).at = "shutdown" /\ c \in Frame(pc[g]).todo
                  \/ Closing(g, c)

Snapshot == \A g \in App : Held(g)

TableInv ==
    /\ alive \in [Scanner -> BOOLEAN]
    /\ OwnExchange /\ OneTriad /\ Snapshot
    /\ DistinctOriginators => BusyOwn /\ Produced /\ Consumed

-----------------------------------------------------------------------------
(* The steps as the tables see them. *)

(* The exchange of s, and no other, goes from one place to the next. *)
Moved(s, from, to) ==
    /\ xch[s].at = from /\ xch'[s].at = to /\ xch'[s].op = xch[s].op
    /\ \A t \in Scanner \ {s} : xch'[t] = xch[t]

Settled(x) == x.at \in {"free", "sent", "refused"} \/ (x.at = "answered" /\ x.op = "close")

Quiet ==
    /\ UNCHANGED <<made, cm, rt, expired>>
    /\ \A s \in Scanner : nextID[s] <= nextID'[s]
    /\ \A s \in Scanner : \/ xch'[s] = xch[s]
                          \/ Settled(xch'[s]) /\ ~Opening(xch[s]) /\ ~Removing(xch[s])

Inserts(s) ==
    LET n == Len(made) + 1 IN
    /\ Moved(s, "sent", "inserted") /\ xch'[s].c = n
    /\ cm' = cm \cup {n}
    /\ DOMAIN made' = DOMAIN made \cup {n} /\ n \notin DOMAIN made
    /\ made'[n].by = s
    /\ \A c \in cm : Triad(made[c].by, made[c].ot) # Triad(s, made'[n].ot)
    /\ UNCHANGED <<rt, expired, nextID>>

Removes(s) ==
    /\ Moved(s, "sent", "removed") /\ xch[s].op = "close" /\ xch'[s].c \in cm
    /\ Triad(made[xch'[s].c].by, made[xch'[s].c].ot) = Triad(s, xch[s].id)
    /\ cm' = cm \ {xch'[s].c}
    /\ UNCHANGED <<made, rt, expired, nextID>>

Refiles(s, from, to) ==
    /\ Moved(s, from, to) /\ xch'[s].c = xch[s].c
    /\ UNCHANGED <<made, cm, expired, nextID>>

Expires ==
    /\ DOMAIN rt' \subseteq DOMAIN rt
    /\ \A id \in DOMAIN rt' : rt'[id] = rt[id]
    /\ \A id \in DOMAIN rt \ DOMAIN rt' : id[1] = "OT" /\ rt[id] \in expired'
    /\ expired \subseteq expired'
    /\ UNCHANGED <<made, cm, xch, nextID>>

TableStep ==
    \/ Quiet \/ Expires
    \/ \E s \in Scanner :
          \/ Inserts(s) \/ Removes(s)
          \/ Refiles(s, "inserted", "half") /\ rt' = With(rt, <<"OT", made[xch[s].c].ot>>, xch[s].c)
          \/ Refiles(s, "half", "answered") /\ rt' = With(rt, <<"TO", made[xch[s].c].to>>, xch[s].c)
          \/ Refiles(s, "removed", "halfRemoved") /\ rt' = Without(rt, <<"OT", made[xch[s].c].ot>>)
          \/ Refiles(s, "halfRemoved", "answered") /\ rt' = Without(rt, <<"TO", made[xch[s].c].to>>)

(* Every step is of one of these kinds. *)
LEMMA StepKinds == TypeInv /\ [Next]_vars => TableStep
<1> SUFFICES ASSUME TypeInv, [Next]_vars PROVE TableStep
  BY Zenon
<1>t. /\ xch \in [Scanner -> Exchange] /\ nextID \in [Scanner -> Nat] /\ Of \in [App -> Scanner]
      /\ pc \in [App -> Place]
  BY IOAssumption, Zenon DEF TypeInv
<1>u. ASSUME UNCHANGED <<made, cm, rt, expired, nextID, xch>> PROVE TableStep
  BY <1>u, <1>t DEF TableStep, Quiet
<1>x. ASSUME NEW s \in Scanner, NEW x, xch' = [xch EXCEPT ![s] = x], Settled(x), ~Opening(xch[s]), ~Removing(xch[s]),
             UNCHANGED <<made, cm, rt, expired, nextID>>
      PROVE TableStep
  BY <1>x, <1>t DEF TableStep, Quiet
<1>f. Settled(Free)
  BY Zenon DEF Settled, Free
<1>m. ASSUME NEW s \in Scanner, xch[s] # Free, NEW at, Step(s, at)
      PROVE  /\ Moved(s, xch[s].at, at) /\ xch'[s].c = xch[s].c
             /\ xch' = [xch EXCEPT ![s] = [xch[s] EXCEPT !.at = at]]
             /\ [xch[s] EXCEPT !.at = at].at = at /\ [xch[s] EXCEPT !.at = at].op = xch[s].op
  <2> DEFINE x == [xch[s] EXCEPT !.at = at]
  <2>1. xch' = [xch EXCEPT ![s] = x]
    BY <1>m, Zenon DEF Step
  <2>2. x.at = at /\ x.op = xch[s].op /\ x.c = xch[s].c
    BY <1>m, <1>t, Zenon DEF Exchange
  <2> HIDE DEF x
  <2>3. Moved(s, xch[s].at, at) /\ xch'[s].c = xch[s].c
    BY <2>1, <2>2, <1>t, Zenon DEF Moved
  <2> QED
    BY <2>1, <2>2, <2>3, Zenon DEF x
<1>1. CASE UNCHANGED vars
  BY <1>1, <1>u, Zenon DEF vars, scannerVars, adapterVars
<1>2. ASSUME NEW g \in App, AppStep(g) PROVE TableStep
  <2>1. CASE OpenStart(g)
    <3>1. UNCHANGED <<made, cm, rt, expired, xch>> /\ nextID' = [nextID EXCEPT ![Of[g]] = @ + 1]
      BY <2>1, Zenon DEF OpenStart, adapterVars
    <3>2. \A s \in Scanner : nextID[s] <= nextID'[s]
      BY <3>1, <1>t
    <3> QED
      BY <3>1, <3>2, Zenon DEF TableStep, Quiet
  <2>2. CASE Send(g)
    <3> DEFINE x == [at |-> "sent", op |-> pc[g].op, id |-> pc[g].id, g |-> g, c |-> 0]
    <3>1. UNCHANGED <<made, cm, rt, expired, nextID>>
      BY <2>2, Zenon DEF Send, adapterVars
    <3>2. xch' = xch \/ (xch[Of[g]] = Free /\ xch' = [xch EXCEPT ![Of[g]] = x])
      BY <2>2, Zenon DEF Send
    <3>3. Settled(x) /\ ~Opening(Free) /\ ~Removing(Free)
      BY Zenon DEF Settled, Opening, Removing, Free
    <3> HIDE DEF x
    <3> QED
      BY <3>1, <3>2, <3>3, <1>t, <1>u, <1>x
  <2>3. CASE Receive(g)
    <3>1. /\ UNCHANGED <<made, cm, rt, expired, nextID>> /\ xch' = [xch EXCEPT ![Of[g]] = Free]
          /\ ~Opening(xch[Of[g]]) /\ ~Removing(xch[Of[g]])
      BY <2>3, Zenon DEF Receive, adapterVars, Opening, Removing
    <3> QED
      BY <3>1, <1>f, <1>t, <1>x, Zenon
  <2> QED
    BY <1>2, <2>1, <2>2, <2>3, <1>u, Zenon DEF AppStep, CloseStart, ShutdownStart, ShutdownCloses, ShutdownEnds,
         ShutdownReturns, ReceiveFails, adapterVars
<1>3. ASSUME NEW s \in Scanner, ScannerStep(s) PROVE TableStep
  <2>1. CASE SessionBreaks(s)
    <3>1. /\ UNCHANGED <<made, cm, rt, expired, nextID>>
          /\ xch' = xch \/ (xch[s].at = "sent" /\ xch' = [xch EXCEPT ![s] = Free])
      BY <2>1, Zenon DEF SessionBreaks, scannerVars, adapterVars
    <3>2. xch[s].at = "sent" => ~Opening(xch[s]) /\ ~Removing(xch[s])
      BY Zenon DEF Opening, Removing
    <3> QED
      BY <3>1, <3>2, <1>f, <1>u, <1>x, Zenon
  <2> QED
    BY <1>3, <2>1, <1>u, Zenon DEF ScannerStep, Crash, HandleIncomingPacket, ReceiveLoopEnds, adapterVars
<1>4. ASSUME NEW s \in Scanner, SessionStep(s) PROVE TableStep
  <2>1. CASE HandleForwardOpen(s)
    <3>1. xch[s].at = "sent" /\ xch[s].op = "open" /\ UNCHANGED <<nextID, rt, expired>>
      BY <2>1, Zenon DEF HandleForwardOpen, scannerVars
    <3>2. xch[s] \in Exchange \ {Free} /\ ~Opening(xch[s]) /\ ~Removing(xch[s])
      BY <3>1, <1>t DEF Free, Opening, Removing
    <3>3. CASE Step(s, "refused") /\ UNCHANGED <<cm, made>>
      <4> DEFINE x == [xch[s] EXCEPT !.at = "refused"]
      <4>1. xch' = [xch EXCEPT ![s] = x] /\ x.at = "refused" /\ x.op = xch[s].op
        BY <3>2, <3>3, <1>m, Zenon
      <4>2. Settled(x)
        BY <4>1, <3>1, Zenon DEF Settled
      <4> HIDE DEF x
      <4> QED
        BY <4>1, <4>2, <3>1, <3>2, <3>3, <1>x, Zenon
    <3>4. CASE ~(Step(s, "refused") /\ UNCHANGED <<cm, made>>)
      <4> DEFINE new == [by |-> s, ot |-> xch[s].id, to |-> NewConnID]
                 x == [xch[s] EXCEPT !.at = "inserted", !.c = Len(made')]
                 n == Len(made) + 1
      <4>1. /\ made' = Append(made, new) /\ xch' = [xch EXCEPT ![s] = x]
            /\ cm' = cm \cup {Len(made')}
            /\ \A c \in cm : Triad(made[c].by, made[c].ot) # Triad(s, xch[s].id)
        BY <3>4, <2>1, Zenon DEF HandleForwardOpen
      <4>2. new.by = s /\ new.ot = xch[s].id
        BY Zenon
      <4>3. x.at = "inserted" /\ x.op = xch[s].op /\ x.c = Len(made')
        BY <3>2, Zenon DEF Exchange
      <4> HIDE DEF x, new
      <4>4. made \in Seq([by : Scanner, ot : Nat, to : Nat])
        BY Zenon DEF TypeInv
      <4>5. /\ DOMAIN made' = 1..(Len(made) + 1) /\ Len(made') = Len(made) + 1
            /\ made'[Len(made) + 1] = new
        BY <4>1, <4>4
      <4>6. DOMAIN made' = DOMAIN made \cup {n} /\ n \notin DOMAIN made
        BY <4>5, MadeShape
      <4>7. Moved(s, "sent", "inserted") /\ xch'[s].c = n
        BY <4>1, <4>3, <4>5, <3>1, <1>t, Zenon DEF Moved
      <4> QED
        BY <4>1, <4>2, <4>5, <4>6, <4>7, <3>1, Zenon DEF TableStep, Inserts
    <3> QED
      BY <3>3, <3>4, Zenon
  <2>2. CASE OnOpenConsumer(s)
    <3>1. /\ xch[s].at = "inserted" /\ Step(s, "half") /\ UNCHANGED <<nextID, made, cm, expired>>
          /\ rt' = With(rt, <<"OT", made[xch[s].c].ot>>, xch[s].c)
      BY <2>2, Zenon DEF OnOpenConsumer, scannerVars
    <3>2. xch[s] # Free
      BY <3>1 DEF Free
    <3>3. Refiles(s, "inserted", "half")
      BY <3>1, <3>2, <1>m DEF Refiles
    <3> QED
      BY <3>1, <3>3, Zenon DEF TableStep
  <2>3. CASE OnOpenProducer(s)
    <3>1. /\ xch[s].at = "half" /\ Step(s, "answered") /\ UNCHANGED <<nextID, made, cm, expired>>
          /\ rt' = With(rt, <<"TO", made[xch[s].c].to>>, xch[s].c)
      BY <2>3, Zenon DEF OnOpenProducer, scannerVars
    <3>2. xch[s] # Free
      BY <3>1 DEF Free
    <3>3. Refiles(s, "half", "answered")
      BY <3>1, <3>2, <1>m DEF Refiles
    <3> QED
      BY <3>1, <3>3, Zenon DEF TableStep
  <2>4. CASE HandleForwardClose(s)
    <3>1. xch[s].at = "sent" /\ xch[s].op = "close" /\ UNCHANGED <<nextID, made, rt, expired>>
      BY <2>4, Zenon DEF HandleForwardClose, scannerVars
    <3>2. xch[s] \in Exchange \ {Free} /\ ~Opening(xch[s]) /\ ~Removing(xch[s])
      BY <3>1, <1>t DEF Free, Opening, Removing
    <3>3. CASE Step(s, "answered") /\ UNCHANGED cm
      <4> DEFINE x == [xch[s] EXCEPT !.at = "answered"]
      <4>1. xch' = [xch EXCEPT ![s] = x] /\ x.at = "answered" /\ x.op = xch[s].op
        BY <3>2, <3>3, <1>m, Zenon
      <4>2. Settled(x)
        BY <4>1, <3>1, Zenon DEF Settled
      <4> HIDE DEF x
      <4> QED
        BY <4>1, <4>2, <3>1, <3>2, <3>3, <1>x, Zenon
    <3>4. CASE ~(Step(s, "answered") /\ UNCHANGED cm)
      <4>1. PICK c \in cm : /\ xch' = [xch EXCEPT ![s] = [xch[s] EXCEPT !.at = "removed", !.c = c]]
                            /\ cm' = cm \ {c} /\ Triad(made[c].by, made[c].ot) = Triad(s, xch[s].id)
        BY <3>4, <2>4, Zenon DEF HandleForwardClose
      <4> DEFINE x == [xch[s] EXCEPT !.at = "removed", !.c = c]
      <4>2. x.at = "removed" /\ x.op = xch[s].op /\ x.c = c
        BY <3>2, Zenon DEF Exchange
      <4>3. xch' = [xch EXCEPT ![s] = x]
        BY <4>1, Zenon
      <4> HIDE DEF x
      <4>4. Moved(s, "sent", "removed") /\ xch'[s].c = c
        BY <4>2, <4>3, <3>1, <1>t, Zenon DEF Moved
      <4> QED
        BY <4>1, <4>4, <3>1, Zenon DEF TableStep, Removes
    <3> QED
      BY <3>3, <3>4, Zenon
  <2>5. CASE OnCloseConsumer(s)
    <3>1. /\ xch[s].at = "removed" /\ Step(s, "halfRemoved") /\ UNCHANGED <<nextID, made, cm, expired>>
          /\ rt' = Without(rt, <<"OT", made[xch[s].c].ot>>)
      BY <2>5, Zenon DEF OnCloseConsumer, scannerVars
    <3>2. xch[s] # Free
      BY <3>1 DEF Free
    <3>3. Refiles(s, "removed", "halfRemoved")
      BY <3>1, <3>2, <1>m DEF Refiles
    <3> QED
      BY <3>1, <3>3, Zenon DEF TableStep
  <2>6. CASE OnCloseProducer(s)
    <3>1. /\ xch[s].at = "halfRemoved" /\ Step(s, "answered") /\ UNCHANGED <<nextID, made, cm, expired>>
          /\ rt' = Without(rt, <<"TO", made[xch[s].c].to>>)
      BY <2>6, Zenon DEF OnCloseProducer, scannerVars
    <3>2. xch[s] # Free
      BY <3>1 DEF Free
    <3>3. Refiles(s, "halfRemoved", "answered")
      BY <3>1, <3>2, <1>m DEF Refiles
    <3> QED
      BY <3>1, <3>3, Zenon DEF TableStep
  <2>7. CASE AnswerLost(s)
    BY <2>7, <1>f, <1>x, Zenon DEF AnswerLost, scannerVars, adapterVars, Opening, Removing
  <2> QED
    BY <1>4, <2>1, <2>2, <2>3, <2>4, <2>5, <2>6, <2>7, Zenon DEF SessionStep
<1>5. CASE CheckTimeouts
  <2>1. PICK stale \in SUBSET {id \in DOMAIN rt : id[1] = "OT"} :
           /\ rt' = [id \in DOMAIN rt \ stale |-> rt[id]]
           /\ expired' = expired \cup {rt[id] : id \in stale}
           /\ UNCHANGED <<scannerVars, xch, made, cm>>
    BY <1>5, Zenon DEF CheckTimeouts
  <2>2. DOMAIN rt' = DOMAIN rt \ stale /\ \A id \in DOMAIN rt' : rt'[id] = rt[id]
    BY <2>1, Zenon
  <2>3. \A id \in DOMAIN rt \ DOMAIN rt' : id[1] = "OT" /\ rt[id] \in expired'
    BY <2>1, <2>2, Zenon
  <2> QED
    BY <2>1, <2>2, <2>3, Zenon DEF TableStep, Expires, scannerVars
<1>6. CASE HandlePacket \/ \E c \in DOMAIN ioconn : ProduceLoopEnds(c)
  BY <1>6, <1>u, Zenon DEF HandlePacket, ProduceLoopEnds, scannerVars, adapterVars
<1> QED
  BY <1>1, <1>2, <1>3, <1>4, <1>5, <1>6, Zenon DEF Next

(* The tables are empty at first. *)
LEMMA TablesInit == Init => TableInv
<1> SUFFICES ASSUME Init PROVE TableInv
  BY Zenon
<1> USE DEF Init
<1>1. DOMAIN made = {} /\ DOMAIN rt = {} /\ cm = {}
  OBVIOUS
<1>2. \A s \in Scanner : ~Opening(xch[s]) /\ ~Removing(xch[s]) /\ xch[s].at = "free"
  BY Zenon DEF Free, Opening, Removing
<1>3. OwnExchange /\ OneTriad /\ BusyOwn /\ Consumed
  BY <1>1, <1>2, Zenon DEF OwnExchange, OneTriad, BusyOwn, Consumed
<1>4. Produced
  BY <1>1, Zenon DEF Produced
<1>5. Snapshot
  BY Zenon DEF Snapshot, Held, Frame, Idle
<1> QED
  BY <1>3, <1>4, <1>5, Zenon DEF TableInv

(* The connections handlers are busy with. *)
LEMMA BusyIs == \A c : c \in Busy <=> \E s \in Scanner : (Opening(xch[s]) \/ Removing(xch[s])) /\ xch[s].c = c
BY Zenon DEF Busy, Opening, Removing

(* A connection handlers are not busy with after a step was not before it, *)
(* unless the step finished with it.                                        *)
LEMMA BusyStep ==
    ASSUME NEW c, c \notin Busy',
           \A s \in Scanner : Opening(xch[s]) \/ Removing(xch[s]) =>
               (Opening(xch'[s]) \/ Removing(xch'[s])) /\ xch'[s].c = xch[s].c
    PROVE  c \notin Busy
<1>1. \A s \in Scanner : (Opening(xch'[s]) \/ Removing(xch'[s])) /\ xch'[s].c = c => c \in Busy'
  BY Zenon DEF Busy, Opening, Removing
<1> QED
  BY <1>1, BusyIs, Zenon

(* A session stays with its own scanner's connections, and a triad with one *)
(* open connection.                                                           *)
LEMMA OwnStep ==
    ASSUME IdInv, OwnExchange, OneTriad, [Next]_vars
    PROVE  OwnExchange' /\ OneTriad'
<1>t. /\ TypeInv /\ ExchangeInv /\ OwnTO
  BY Zenon DEF IdInv
<1>m. \A c \in DOMAIN made : c \in DOMAIN made' /\ made'[c] = made[c]
  BY <1>t, MadeStep, Zenon
<1>k. TableStep
  BY <1>t, StepKinds, Zenon
<1>c. cm \subseteq DOMAIN made
  BY <1>t, Zenon DEF TypeInv
<1>1. OneTriad'
  <2>1. ASSUME cm' \subseteq cm PROVE OneTriad'
    BY <2>1, <1>m, <1>c, Zenon DEF OneTriad
  <2>2. ASSUME NEW s \in Scanner, Inserts(s) PROVE OneTriad'
    BY <2>2, <1>m, <1>c DEF OneTriad, Inserts
  <2> QED
    BY <2>1, <2>2, <1>k, Zenon DEF TableStep, Quiet, Expires, Removes, Refiles
<1>2. ASSUME NEW s \in Scanner
      PROVE  /\ Opening(xch'[s]) \/ (xch'[s].at = "answered" /\ xch'[s].op = "open") => made'[xch'[s].c].by = s
             /\ Removing(xch'[s]) => xch'[s].op = "close"
  <2> DEFINE P(x, m) == /\ Opening(x) \/ (x.at = "answered" /\ x.op = "open") => m[x.c].by = s
                        /\ Removing(x) => x.op = "close"
  <2>1. P(xch[s], made)
    BY Zenon DEF OwnExchange
  <2>2. Opening(xch[s]) \/ (xch[s].at = "answered" /\ xch[s].op = "open") => xch[s].c \in DOMAIN made
    BY <1>t, Zenon DEF ExchangeInv, Opening
  <2>3. CASE xch'[s] = xch[s]
    BY <2>1, <2>2, <2>3, <1>m, Zenon
  <2>4. CASE Settled(xch'[s])
    BY <2>4, Zenon DEF Settled, Opening, Removing
  <2>5. CASE Inserts(s)
    BY <2>5, Zenon DEF Inserts, Moved, Opening, Removing
  <2>6. CASE Removes(s)
    BY <2>6, Zenon DEF Removes, Moved, Opening, Removing
  <2>7. CASE Refiles(s, "inserted", "half") \/ Refiles(s, "half", "answered")
    BY <2>1, <2>2, <2>7, <1>m, Zenon DEF Refiles, Moved, Opening, Removing
  <2>8. CASE Refiles(s, "removed", "halfRemoved") \/ Refiles(s, "halfRemoved", "answered")
    BY <2>1, <2>8, Zenon DEF Refiles, Moved, Opening, Removing
  <2>9. ASSUME NEW r \in Scanner \ {s}, Inserts(r) \/ Removes(r) \/ \E a, b : Refiles(r, a, b) PROVE xch'[s] = xch[s]
    BY <2>9, Zenon DEF Inserts, Removes, Refiles, Moved
  <2>10. ASSUME Quiet \/ Expires PROVE xch'[s] = xch[s] \/ Settled(xch'[s])
    BY <2>10, Zenon DEF Quiet, Expires
  <2>11. CASE \E r \in Scanner \ {s} : Inserts(r) \/ Removes(r) \/ \E a, b : Refiles(r, a, b)
    BY <2>3, <2>9, <2>11, Zenon
  <2>12. CASE \/ Inserts(s) \/ Removes(s)
              \/ Refiles(s, "inserted", "half") \/ Refiles(s, "half", "answered")
              \/ Refiles(s, "removed", "halfRemoved") \/ Refiles(s, "halfRemoved", "answered")
    BY <2>5, <2>6, <2>7, <2>8, <2>12, Zenon
  <2> HIDE DEF P
  <2> QED
    BY <2>3, <2>4, <2>10, <2>11, <2>12, <1>k, Zenon DEF TableStep
<1>3. ASSUME NEW s \in Scanner, NEW c \in table'[s] PROVE made'[c].by = s
  <2>a. ASSUME c \in table[s] PROVE made'[c].by = s
    BY <2>a, <1>m, <1>t, Zenon DEF OwnExchange, TypeInv
  <2>t. table \in [Scanner -> SUBSET DOMAIN ioconn] /\ Of \in [App -> Scanner]
    BY <1>t, IOAssumption, Zenon DEF TypeInv
  <2> USE DEF scannerVars, adapterVars
  <2>1. CASE UNCHANGED vars
    BY <2>1, <2>a, Zenon DEF vars
  <2>2. ASSUME NEW r \in Scanner, NEW d, CloseLocally(r, d) PROVE made'[c].by = s
    BY <2>2, <2>a, <2>t, Zenon DEF CloseLocally
  <2>3. ASSUME NEW g \in App, AppStep(g) PROVE made'[c].by = s
    <3>1. CASE CloseStart(g) \/ ShutdownCloses(g)
      BY <3>1, <2>2, <2>t, Zenon DEF CloseStart, ShutdownCloses
    <3>2. CASE Receive(g)
      <4>1. CASE table' = table
        BY <4>1, <2>a, Zenon
      <4>2. CASE table' # table
        <5> DEFINE r == Of[g]
        <5>1. /\ xch[r].op = "open" /\ xch[r].at = "answered"
              /\ table' = [table EXCEPT ![r] = {e \in @ : made[e].to # made[xch[r].c].to} \cup {xch[r].c}]
          BY <3>2, <4>2, Zenon DEF Receive
        <5>2. xch[r].c \in DOMAIN made /\ made[xch[r].c].by = r
          BY <5>1, <2>t, <1>t, Zenon DEF OwnExchange, ExchangeInv
        <5>3. c \in table[s] \/ (s = r /\ c = xch[r].c)
          BY <5>1, <2>t, Zenon
        <5> QED
          BY <5>2, <5>3, <2>a, <1>m, Zenon
      <4> QED
        BY <4>1, <4>2, Zenon
    <3> QED
      BY <2>3, <3>1, <3>2, <2>a, Zenon DEF AppStep, OpenStart, ShutdownStart, ShutdownEnds, ShutdownReturns, Send, ReceiveFails
  <2>4. ASSUME NEW r \in Scanner, ScannerStep(r) PROVE made'[c].by = s
    <3>1. CASE Crash(r)
      BY <3>1, <2>a, <2>t, Zenon DEF Crash
    <3> QED
      BY <2>4, <3>1, <2>a, Zenon DEF ScannerStep, SessionBreaks, HandleIncomingPacket, ReceiveLoopEnds
  <2>5. ASSUME NEW r \in Scanner, SessionStep(r) PROVE made'[c].by = s
    BY <2>5, <2>a, Zenon DEF SessionStep, HandleForwardOpen, HandleForwardClose, AnswerLost, OnOpenConsumer,
                  OnOpenProducer, OnCloseConsumer, OnCloseProducer
  <2>6. CASE HandlePacket \/ CheckTimeouts \/ \E d \in DOMAIN ioconn : ProduceLoopEnds(d)
    BY <2>6, <2>a, Zenon DEF HandlePacket, CheckTimeouts, ProduceLoopEnds
  <2> QED
    BY <2>1, <2>3, <2>4, <2>5, <2>6, Zenon DEF Next
<1> QED
  BY <1>1, <1>2, <1>3, Zenon DEF OwnExchange

(* With distinct originators, the tables of the adapter stay in step. *)
LEMMA TablesStep ==
    ASSUME IdInv, OwnExchange, DistinctOriginators, BusyOwn, Produced, Consumed, [Next]_vars
    PROVE  BusyOwn' /\ Produced' /\ Consumed'
<1>t. /\ TypeInv /\ ExchangeInv /\ OwnTO /\ OneUse
      /\ cm \subseteq DOMAIN made /\ nextID \in [Scanner -> Nat] /\ nextID' \in [Scanner -> Nat]
  BY TypeStep, Zenon DEF IdInv, TypeInv
<1>m. \A c \in DOMAIN made : c \in DOMAIN made' /\ made'[c] = made[c]
  BY <1>t, MadeStep, Zenon
<1>s. \A c \in DOMAIN made : made[c].by \in Scanner /\ made[c].ot \in Nat /\ made[c].to = c
  BY <1>t, MadeShape, Zenon DEF OwnTO
<1>x. \A s \in Scanner : Opening(xch[s]) \/ Removing(xch[s]) => xch[s].c \in DOMAIN made
  BY <1>t, Zenon DEF ExchangeInv, Opening, Removing
<1>y. \A s \in Scanner : Opening(xch[s]) \/ Removing(xch[s]) => made[xch[s].c].by = s
  BY Zenon DEF OwnExchange, BusyOwn
<1>n. \A c \in DOMAIN made : SharedId(c) /\ (\A s \in Scanner : nextID[s] <= nextID'[s]) => SharedId(c)'
  BY <1>m, <1>s, <1>t DEF SharedId
<1>1. CASE Quiet
  <2>1. \A s \in Scanner : /\ Opening(xch'[s]) \/ Removing(xch'[s]) => xch'[s] = xch[s]
                           /\ Opening(xch[s]) \/ Removing(xch[s]) => xch'[s] = xch[s]
    BY <1>1, Zenon DEF Quiet, Settled, Opening, Removing
  <2>2. BusyOwn'
    BY <2>1, <1>1, Zenon DEF BusyOwn, Quiet
  <2>3. \A c : c \notin Busy' => c \notin Busy
    BY <2>1, BusyStep, Zenon
  <2>4. Produced'
    BY <2>3, <1>1, Zenon DEF Produced, Quiet
  <2>5. \A s \in Scanner : xch[s].at = "inserted" => xch'[s] = xch[s]
    BY <2>1, Zenon DEF Opening
  <2>6. Consumed'
    BY <2>5, <1>1, <1>n, <1>t DEF Consumed, Quiet
  <2> QED
    BY <2>2, <2>4, <2>6, Zenon
<1>2. CASE Expires
  <2>1. BusyOwn'
    BY <1>2, Zenon DEF BusyOwn, Expires
  <2>2. \A c : c \notin Busy' => c \notin Busy
    BY <1>2, BusyStep, Zenon DEF Expires
  <2>3. \A c : <<"TO", c>> \in DOMAIN rt' <=> <<"TO", c>> \in DOMAIN rt
    <3>1. \A c : <<"TO", c>>[1] # "OT"
      BY Zenon
    <3> QED
      BY <3>1, <1>2, Zenon DEF Expires
  <2>4. Produced'
    BY <2>2, <2>3, <1>2, Zenon DEF Produced, Expires
  <2>5. \A s \in Scanner : nextID[s] <= nextID'[s]
    BY <1>2, <1>t DEF Expires
  <2>6. ASSUME NEW c \in cm' \ expired' PROVE
            \/ \E s \in Scanner : xch'[s].at = "inserted" /\ xch'[s].c = c
            \/ <<"OT", made'[c].ot>> \in DOMAIN rt' /\ rt'[<<"OT", made'[c].ot>>] = c
            \/ SharedId(c)'
    <3>1. c \in cm \ expired /\ c \in DOMAIN made /\ made'[c] = made[c]
      BY <1>2, <1>m, <1>t, Zenon DEF Expires
    <3> QED
      BY <3>1, <2>5, <1>2, <1>n, Zenon DEF Consumed, Expires
  <2> QED
    BY <2>1, <2>4, <2>6, Zenon DEF Consumed
<1>3. ASSUME NEW s \in Scanner, Inserts(s) PROVE BusyOwn' /\ Produced' /\ Consumed'
  <2> DEFINE n == Len(made) + 1
  <2>1. /\ xch[s].at = "sent" /\ xch'[s].at = "inserted" /\ xch'[s].c = n
        /\ \A r \in Scanner \ {s} : xch'[r] = xch[r]
        /\ cm' = cm \cup {n} /\ n \notin DOMAIN made /\ DOMAIN made' = DOMAIN made \cup {n}
        /\ UNCHANGED <<rt, expired, nextID>>
    BY <1>3, Zenon DEF Inserts, Moved
  <2> HIDE DEF n
  <2>2. ~Opening(xch[s]) /\ ~Removing(xch[s]) /\ Opening(xch'[s]) /\ ~Removing(xch'[s])
    BY <2>1, Zenon DEF Opening, Removing
  <2>3. BusyOwn'
    BY <2>1, <2>2, <1>m, <1>x DEF BusyOwn
  <2>4. n \in Busy' /\ \A c : c \notin Busy' => c \notin Busy
    <3>1. n \in Busy'
      BY <2>1, Zenon DEF Busy
    <3>2. \A r \in Scanner : Opening(xch[r]) \/ Removing(xch[r]) => r # s /\ xch'[r] = xch[r]
      BY <2>1, <2>2, Zenon
    <3> QED
      BY <3>1, <3>2, BusyStep, Zenon
  <2>5. Produced'
    BY <2>1, <2>4, Zenon DEF Produced
  <2>6. \A r \in Scanner : nextID[r] <= nextID'[r]
    BY <2>1, <1>t
  <2>7. ASSUME NEW c \in cm' \ expired' PROVE
            \/ \E r \in Scanner : xch'[r].at = "inserted" /\ xch'[r].c = c
            \/ <<"OT", made'[c].ot>> \in DOMAIN rt' /\ rt'[<<"OT", made'[c].ot>>] = c
            \/ SharedId(c)'
    <3>1. CASE c = n
      BY <3>1, <2>1, Zenon
    <3>2. CASE c # n
      <4>1. c \in cm \ expired /\ c \in DOMAIN made /\ made'[c] = made[c]
        BY <3>2, <2>1, <1>m, <1>t, Zenon
      <4> QED
        BY <4>1, <2>1, <2>6, <1>n, Zenon DEF Consumed
    <3> QED
      BY <3>1, <3>2, Zenon
  <2> QED
    BY <2>3, <2>5, <2>7, Zenon DEF Consumed
<1>4. ASSUME NEW s \in Scanner, Removes(s) PROVE BusyOwn' /\ Produced' /\ Consumed'
  <2> DEFINE d == xch'[s].c
  <2>1. /\ xch[s].at = "sent" /\ xch'[s].at = "removed"
        /\ \A r \in Scanner \ {s} : xch'[r] = xch[r]
        /\ d \in cm /\ cm' = cm \ {d} /\ Triad(made[d].by, made[d].ot) = Triad(s, xch[s].id)
        /\ UNCHANGED <<made, rt, expired, nextID>>
    BY <1>4, Zenon DEF Removes, Moved
  <2>2. ~Opening(xch[s]) /\ ~Removing(xch[s]) /\ ~Opening(xch'[s]) /\ Removing(xch'[s])
    BY <2>1, Zenon DEF Opening, Removing
  <2>3. made[d].by = s
    BY <2>1, <1>s, <1>t, Zenon DEF Triad, DistinctOriginators
  <2>4. BusyOwn'
    BY <2>1, <2>2, <2>3, <1>x, <1>y DEF BusyOwn
  <2>5. d \in Busy' /\ \A c : c \notin Busy' => c \notin Busy
    <3>1. d \in Busy'
      BY <2>1, Zenon DEF Busy
    <3>2. \A r \in Scanner : Opening(xch[r]) \/ Removing(xch[r]) => r # s /\ xch'[r] = xch[r]
      BY <2>1, <2>2, Zenon
    <3> QED
      BY <3>1, <3>2, BusyStep, Zenon
  <2>6. Produced'
    BY <2>1, <2>5, Zenon DEF Produced
  <2>7. Consumed'
    <3>1. \A r \in Scanner : xch[r].at = "inserted" => xch'[r] = xch[r]
      BY <2>1, Zenon
    <3>2. \A r \in Scanner : nextID[r] <= nextID'[r]
      BY <2>1, <1>t
    <3> QED
      BY <3>1, <3>2, <2>1, <1>n, <1>t DEF Consumed
  <2> QED
    BY <2>4, <2>6, <2>7, Zenon
(* The callbacks, which move one entry of the runtime's table. *)
<1>5. ASSUME NEW s \in Scanner, NEW a, NEW b, Refiles(s, a, b),
             <<a, b>> \in {<<"inserted", "half">>, <<"half", "answered">>, <<"removed", "halfRemoved">>,
                           <<"halfRemoved", "answered">>}
      PROVE  /\ BusyOwn' /\ xch[s].c \in DOMAIN made /\ made[xch[s].c].by = s
             /\ \A c : c \notin Busy' => c \notin Busy \/ (b = "answered" /\ c = xch[s].c)
             /\ \A c \in DOMAIN made : SharedId(c) => SharedId(c)'
             /\ \A r \in Scanner : xch[r].at = "inserted" => xch'[r] = xch[r] \/ (a = "inserted" /\ r = s)
             /\ UNCHANGED <<made, cm, expired, nextID>>
  <2>1. /\ xch[s].at = a /\ xch'[s].at = b /\ xch'[s].c = xch[s].c
        /\ \A r \in Scanner \ {s} : xch'[r] = xch[r]
        /\ UNCHANGED <<made, cm, expired, nextID>>
    BY <1>5, Zenon DEF Refiles, Moved
  <2>2. \/ a = "inserted" /\ b = "half"
        \/ a = "half" /\ b = "answered"
        \/ a = "removed" /\ b = "halfRemoved"
        \/ a = "halfRemoved" /\ b = "answered"
    BY <1>5, Zenon
  <2>3. /\ Opening(xch[s]) \/ Removing(xch[s])
        /\ Opening(xch'[s]) => Opening(xch[s])
        /\ Removing(xch'[s]) => Removing(xch[s])
        /\ b # "answered" => Opening(xch'[s]) \/ Removing(xch'[s])
    BY <2>1, <2>2, Zenon DEF Opening, Removing
  <2>4. BusyOwn'
    BY <2>1, <2>3, Zenon DEF BusyOwn
  <2>5. ASSUME NEW c, c \notin Busy', ~(b = "answered" /\ c = xch[s].c) PROVE c \notin Busy
    <3>1. \A r \in Scanner : (Opening(xch'[r]) \/ Removing(xch'[r])) /\ xch'[r].c = c => c \in Busy'
      BY Zenon DEF Busy, Opening, Removing
    <3> QED
      BY <3>1, <2>1, <2>3, <2>5, BusyIs, Zenon
  <2>6. \A r \in Scanner : nextID[r] <= nextID'[r]
    BY <2>1, <1>t
  <2>7. \A r \in Scanner : xch[r].at = "inserted" => xch'[r] = xch[r] \/ (a = "inserted" /\ r = s)
    BY <2>1, Zenon
  <2>8. xch[s].c \in DOMAIN made /\ made[xch[s].c].by = s
    BY <2>3, <1>x, <1>y, Zenon
  <2> QED
    BY <2>1, <2>4, <2>5, <2>6, <2>7, <2>8, <1>n, Zenon
<1>6. ASSUME NEW d \in DOMAIN made, NEW c \in DOMAIN made, c # d, made[c].ot = made[d].ot PROVE SharedId(c)
  <2>1. made[d].by # made[c].by /\ made[d].by \in Scanner
    BY <1>6, <1>s, <1>t, Zenon DEF OneUse
  <2>2. nextID[made[d].by] >= made[c].ot
    BY <1>6, <1>s, <1>t, Zenon DEF OneUse
  <2> QED
    BY <2>1, <2>2, Zenon DEF SharedId
<1>7. ASSUME NEW s \in Scanner, Refiles(s, "inserted", "half"),
             rt' = With(rt, <<"OT", made[xch[s].c].ot>>, xch[s].c)
      PROVE  BusyOwn' /\ Produced' /\ Consumed'
  <2> DEFINE d == xch[s].c
             k == <<"OT", made[d].ot>>
  <2>1. DOMAIN rt' = DOMAIN rt \cup {k} /\ rt'[k] = d /\ \A id \in DOMAIN rt : id # k => rt'[id] = rt[id]
    BY <1>7, Zenon DEF With
  <2>2. k[1] = "OT" /\ \A c : <<"TO", c>> # k
    BY Zenon
  <2>3. \A c : <<"OT", c>> = k => c = made[d].ot
    BY Zenon
  <2>4. BusyOwn' /\ d \in DOMAIN made /\ UNCHANGED <<made, cm, expired, nextID>>
    BY <1>5, <1>7, Zenon
  <2>5. \A c : c \notin Busy' => c \notin Busy
    BY <1>5, <1>7
  <2>6. \A c \in DOMAIN made : SharedId(c) => SharedId(c)'
    BY <1>5, <1>7, Zenon
  <2>7. \A r \in Scanner : xch[r].at = "inserted" => xch'[r] = xch[r] \/ r = s
    BY <1>5, <1>7, Zenon
  <2> HIDE DEF d, k
  <2>8. Produced'
    <3>1. \A id \in DOMAIN rt' : id[1] = "TO" => id = <<"TO", rt'[id]>>
      BY <2>1, <2>2, Zenon DEF Produced
    <3>2. \A c : <<"TO", c>> \in DOMAIN rt' <=> <<"TO", c>> \in DOMAIN rt
      BY <2>1, <2>2, Zenon
    <3> QED
      BY <3>1, <3>2, <2>4, <2>5, Zenon DEF Produced
  <2>9. ASSUME NEW c \in cm \ expired PROVE
            \/ \E r \in Scanner : xch'[r].at = "inserted" /\ xch'[r].c = c
            \/ <<"OT", made[c].ot>> \in DOMAIN rt' /\ rt'[<<"OT", made[c].ot>>] = c
            \/ SharedId(c)'
    <3>1. CASE c = d
      BY <3>1, <2>1, Zenon DEF k
    <3>2. CASE c # d /\ made[c].ot = made[d].ot
      BY <3>2, <2>4, <2>6, <1>6, <1>t, Zenon
    <3>3. CASE c # d /\ made[c].ot # made[d].ot
      <4>1. <<"OT", made[c].ot>> # k
        BY <3>3, <2>3, Zenon
      <4>2. \A r \in Scanner : xch[r].at = "inserted" /\ xch[r].c = c => xch'[r] = xch[r]
        BY <3>3, <2>7, Zenon DEF d
      <4> QED
        BY <4>1, <4>2, <2>1, <2>6, <1>t, Zenon DEF Consumed
    <3> QED
      BY <3>1, <3>2, <3>3, Zenon
  <2> QED
    BY <2>4, <2>8, <2>9, Zenon DEF Consumed
<1>8. ASSUME NEW s \in Scanner, Refiles(s, "half", "answered"),
             rt' = With(rt, <<"TO", made[xch[s].c].to>>, xch[s].c)
      PROVE  BusyOwn' /\ Produced' /\ Consumed'
  <2> DEFINE d == xch[s].c
             k == <<"TO", d>>
  <2>1. BusyOwn' /\ d \in DOMAIN made /\ UNCHANGED <<made, cm, expired, nextID>>
    BY <1>5, <1>8, Zenon
  <2>2. \A c : c \notin Busy' => c \notin Busy \/ c = d
    BY <1>5, <1>8, Zenon
  <2>3. \A c \in DOMAIN made : SharedId(c) => SharedId(c)'
    BY <1>5, <1>8, Zenon
  <2>4. \A r \in Scanner : xch[r].at = "inserted" => xch'[r] = xch[r]
    BY <1>5, <1>8
  <2>5. DOMAIN rt' = DOMAIN rt \cup {k} /\ rt'[k] = d /\ \A id \in DOMAIN rt : id # k => rt'[id] = rt[id]
    BY <1>8, <2>1, <1>s, Zenon DEF With
  <2>6. d \in cm
    BY <1>8, Zenon DEF BusyOwn, Refiles, Moved, Opening
  <2>7. /\ \A c : <<"OT", c>> # k
        /\ \A c : <<"TO", c>> = k <=> c = d
    BY Zenon
  <2>8. Produced'
    <3>1. \A id \in DOMAIN rt' : id[1] = "TO" => id = <<"TO", rt'[id]>>
      <4> HIDE DEF d
      <4> QED
        BY <2>5, Zenon DEF Produced
    <3> HIDE DEF k, d
    <3>2. \A c : <<"TO", c>> \in DOMAIN rt' <=> <<"TO", c>> \in DOMAIN rt \/ c = d
      BY <2>5, <2>7, Zenon
    <3> QED
      BY <3>1, <3>2, <2>1, <2>2, <2>6, Zenon DEF Produced
  <2> HIDE DEF k, d
  <2>9. Consumed'
    BY <2>1, <2>3, <2>4, <2>5, <2>7, <1>t DEF Consumed
  <2> QED
    BY <2>1, <2>8, <2>9, Zenon
<1>9. ASSUME NEW s \in Scanner, Refiles(s, "removed", "halfRemoved"),
             rt' = Without(rt, <<"OT", made[xch[s].c].ot>>)
      PROVE  BusyOwn' /\ Produced' /\ Consumed'
  <2> DEFINE d == xch[s].c
             k == <<"OT", made[d].ot>>
  <2>1. DOMAIN rt' = DOMAIN rt \ {k} /\ \A id \in DOMAIN rt' : rt'[id] = rt[id]
    BY <1>9, Zenon DEF Without
  <2>2. \A c : <<"TO", c>> # k
    BY Zenon
  <2>3. \A c : <<"OT", c>> = k => c = made[d].ot
    BY Zenon
  <2>4. BusyOwn' /\ d \in DOMAIN made /\ UNCHANGED <<made, cm, expired, nextID>>
    BY <1>5, <1>9, Zenon
  <2>5. \A c : c \notin Busy' => c \notin Busy
    BY <1>5, <1>9
  <2>6. \A c \in DOMAIN made : SharedId(c) => SharedId(c)'
    BY <1>5, <1>9, Zenon
  <2>7. \A r \in Scanner : xch[r].at = "inserted" => xch'[r] = xch[r]
    BY <1>5, <1>9
  <2>8. d \notin cm
    BY <1>9, Zenon DEF BusyOwn, Refiles, Moved, Removing
  <2> HIDE DEF d, k
  <2>9. Produced'
    <3>1. \A id \in DOMAIN rt' : id[1] = "TO" => id = <<"TO", rt'[id]>>
      BY <2>1, <2>2, Zenon DEF Produced
    <3>2. \A c : <<"TO", c>> \in DOMAIN rt' <=> <<"TO", c>> \in DOMAIN rt
      BY <2>1, <2>2, Zenon
    <3> QED
      BY <3>1, <3>2, <2>4, <2>5, Zenon DEF Produced
  <2>10. ASSUME NEW c \in cm \ expired PROVE
            \/ \E r \in Scanner : xch'[r].at = "inserted" /\ xch'[r].c = c
            \/ <<"OT", made[c].ot>> \in DOMAIN rt' /\ rt'[<<"OT", made[c].ot>>] = c
            \/ SharedId(c)'
    <3>1. CASE made[c].ot = made[d].ot
      BY <3>1, <2>4, <2>6, <2>8, <1>6, <1>t, Zenon
    <3>2. CASE made[c].ot # made[d].ot
      <4>1. <<"OT", made[c].ot>> # k
        BY <3>2, <2>3, Zenon
      <4> QED
        BY <4>1, <2>1, <2>6, <2>7, <1>t, Zenon DEF Consumed
    <3> QED
      BY <3>1, <3>2, Zenon
  <2> QED
    BY <2>4, <2>9, <2>10, Zenon DEF Consumed
<1>10. ASSUME NEW s \in Scanner, Refiles(s, "halfRemoved", "answered"),
              rt' = Without(rt, <<"TO", made[xch[s].c].to>>)
      PROVE  BusyOwn' /\ Produced' /\ Consumed'
  <2> DEFINE d == xch[s].c
             k == <<"TO", d>>
  <2>1. BusyOwn' /\ d \in DOMAIN made /\ UNCHANGED <<made, cm, expired, nextID>>
    BY <1>5, <1>10, Zenon
  <2>2. \A c : c \notin Busy' => c \notin Busy \/ c = d
    BY <1>5, <1>10, Zenon
  <2>3. \A c \in DOMAIN made : SharedId(c) => SharedId(c)'
    BY <1>5, <1>10, Zenon
  <2>4. \A r \in Scanner : xch[r].at = "inserted" => xch'[r] = xch[r]
    BY <1>5, <1>10
  <2>5. DOMAIN rt' = DOMAIN rt \ {k} /\ \A id \in DOMAIN rt' : rt'[id] = rt[id]
    BY <1>10, <2>1, <1>s, Zenon DEF Without
  <2>6. d \notin cm
    BY <1>10, Zenon DEF BusyOwn, Refiles, Moved, Removing
  <2>7. /\ \A c : <<"OT", c>> # k
        /\ \A c : <<"TO", c>> = k <=> c = d
    BY Zenon
  <2> HIDE DEF k, d
  <2>8. Produced'
    <3>1. \A id \in DOMAIN rt' : id[1] = "TO" => id = <<"TO", rt'[id]>>
      BY <2>5, Zenon DEF Produced
    <3>2. \A c : <<"TO", c>> \in DOMAIN rt' <=> <<"TO", c>> \in DOMAIN rt /\ c # d
      BY <2>5, <2>7, Zenon
    <3> QED
      BY <3>1, <3>2, <2>1, <2>2, <2>6, Zenon DEF Produced
  <2>9. Consumed'
    BY <2>1, <2>3, <2>4, <2>5, <2>7, <1>t DEF Consumed
  <2> QED
    BY <2>1, <2>8, <2>9, Zenon
<1> QED
  BY <1>1, <1>2, <1>3, <1>4, <1>7, <1>8, <1>9, <1>10, <1>t, StepKinds, Zenon DEF TableStep

-----------------------------------------------------------------------------
(* A request for a close that is with the adapter stays there until the       *)
(* adapter has looked for the connection, and then the connection is gone.     *)
Looked(t) ==
    \A c \in cm' \cap DOMAIN made :
        made[c].by = t /\ xch[t].at = "sent" /\ xch[t].op = "close" /\ xch[t].id = made[c].ot
        => xch'[t] = xch[t] \/ ~alive'[t]

(* No session comes back, what it is at follows its exchange, and a connection *)
(* that left cm does not return.                                               *)
LEMMA CloseEffect ==
    ASSUME IdInv, OneTriad, alive \in [Scanner -> BOOLEAN], [Next]_vars
    PROVE  /\ alive' \in [Scanner -> BOOLEAN]
           /\ \A t \in Scanner : (alive'[t] => alive[t]) /\ Looked(t)
           /\ \A c \in cm' \cap DOMAIN made : c \in cm
<1>t. TypeInv /\ xch \in [Scanner -> Exchange] /\ Of \in [App -> Scanner]
  BY IOAssumption, Zenon DEF IdInv, TypeInv
<1>1. \A c \in cm' \cap DOMAIN made : c \in cm
  BY <1>t, StepKinds, Zenon DEF TableStep, Quiet, Expires, Inserts, Removes, Refiles
<1>2. alive' = alive \/ \E s \in Scanner : alive' = [alive EXCEPT ![s] = FALSE]
  <2> USE DEF scannerVars, adapterVars
  <2>1. CASE UNCHANGED vars
    BY <2>1, Zenon DEF vars
  <2>2. ASSUME NEW g \in App, AppStep(g) PROVE alive' = alive
    BY <2>2, Zenon DEF AppStep, OpenStart, CloseStart, ShutdownStart, ShutdownCloses, ShutdownEnds,
                ShutdownReturns, Send, Receive, ReceiveFails
  <2>3. ASSUME NEW s \in Scanner, ScannerStep(s) PROVE alive' = alive \/ alive' = [alive EXCEPT ![s] = FALSE]
    BY <2>3, Zenon DEF ScannerStep, SessionBreaks, Crash, HandleIncomingPacket, ReceiveLoopEnds
  <2>4. ASSUME NEW s \in Scanner, SessionStep(s) PROVE alive' = alive
    BY <2>4, Zenon DEF SessionStep, HandleForwardOpen, HandleForwardClose, AnswerLost, OnOpenConsumer,
                OnOpenProducer, OnCloseConsumer, OnCloseProducer
  <2>5. CASE HandlePacket \/ CheckTimeouts \/ \E c \in DOMAIN ioconn : ProduceLoopEnds(c)
    BY <2>5, Zenon DEF HandlePacket, CheckTimeouts, ProduceLoopEnds
  <2> QED
    BY <2>1, <2>2, <2>3, <2>4, <2>5, Zenon DEF Next
<1>3. alive' \in [Scanner -> BOOLEAN] /\ \A t \in Scanner : alive'[t] => alive[t]
  BY <1>2, Zenon
<1>4. ASSUME NEW t \in Scanner, xch[t].at = "sent", xch[t].op = "close", NEW c \in cm' \cap DOMAIN made,
             made[c].by = t, xch[t].id = made[c].ot
      PROVE  xch'[t] = xch[t] \/ ~alive'[t]
  <2> USE DEF scannerVars, adapterVars
  <2>a. ASSUME NEW s \in Scanner, NEW x, xch' = [xch EXCEPT ![s] = x], xch[s].at # "sent" PROVE xch'[t] = xch[t]
    BY <2>a, <1>4, <1>t, Zenon
  <2>1. CASE UNCHANGED vars
    BY <2>1, Zenon DEF vars
  <2>2. ASSUME NEW g \in App, AppStep(g) PROVE xch'[t] = xch[t]
    <3>1. CASE Send(g)
      <4>1. xch' = xch \/ (xch[Of[g]] = Free /\ \E x : xch' = [xch EXCEPT ![Of[g]] = x])
        BY <3>1, Zenon DEF Send
      <4>2. Free.at # "sent"
        BY Zenon DEF Free
      <4> QED
        BY <4>1, <4>2, <2>a, <1>t, Zenon
    <3>2. CASE Receive(g)
      BY <3>2, <2>a, <1>t, Zenon DEF Receive
    <3> QED
      BY <2>2, <3>1, <3>2, Zenon DEF AppStep, OpenStart, CloseStart, ShutdownStart, ShutdownCloses, ShutdownEnds,
                              ShutdownReturns, ReceiveFails
  <2>3. ASSUME NEW s \in Scanner, ScannerStep(s) PROVE xch'[t] = xch[t] \/ ~alive'[t]
    <3>1. CASE SessionBreaks(s)
      <4>1. /\ xch' = xch \/ xch' = [xch EXCEPT ![s] = Free]
            /\ alive' = [alive EXCEPT ![s] = FALSE]
        BY <3>1, Zenon DEF SessionBreaks
      <4>2. CASE s = t
        <5>1. alive'[t] = FALSE
          BY <4>1, <4>2, Zenon
        <5> QED
          BY <5>1, Zenon
      <4>3. CASE s # t
        BY <4>1, <4>3, <1>t, Zenon
      <4> QED
        BY <4>2, <4>3, Zenon
    <3> QED
      BY <2>3, <3>1, Zenon DEF ScannerStep, Crash, HandleIncomingPacket, ReceiveLoopEnds
  <2>4. ASSUME NEW s \in Scanner, SessionStep(s) PROVE xch'[t] = xch[t]
    <3>1. CASE s = t
      <4>1. HandleForwardClose(t)
        BY <2>4, <3>1, <1>4, Zenon DEF SessionStep, HandleForwardOpen, AnswerLost, OnOpenConsumer,
                 OnOpenProducer, OnCloseConsumer, OnCloseProducer
      <4>2. c \in cm /\ Triad(made[c].by, made[c].ot) = Triad(t, xch[t].id)
        BY <1>1, <1>4, Zenon
      <4>3. PICK d \in cm : cm' = cm \ {d} /\ Triad(made[d].by, made[d].ot) = Triad(t, xch[t].id)
        BY <4>1, <4>2, Zenon DEF HandleForwardClose
      <4>4. d = c
        BY <4>2, <4>3, Zenon DEF OneTriad
      <4> QED
        BY <4>3, <4>4, Zenon
    <3>2. CASE s # t
      <4>1. \E x : xch' = [xch EXCEPT ![s] = x]
        BY <2>4, Zenon DEF SessionStep, HandleForwardOpen, HandleForwardClose, AnswerLost, OnOpenConsumer,
                    OnOpenProducer, OnCloseConsumer, OnCloseProducer, Step
      <4> QED
        BY <4>1, <3>2, <1>t, Zenon
    <3> QED
      BY <3>1, <3>2, Zenon
  <2>5. CASE HandlePacket \/ CheckTimeouts \/ \E d \in DOMAIN ioconn : ProduceLoopEnds(d)
    BY <2>5, Zenon DEF HandlePacket, CheckTimeouts, ProduceLoopEnds
  <2> QED
    BY <2>1, <2>2, <2>3, <2>4, <2>5, Zenon DEF Next
<1> QED
  BY <1>1, <1>3, <1>4, Zenon DEF Looked

(* Shutdown's snapshot is closed in full as long as the session holds. *)
LEMMA SnapshotStep ==
    ASSUME IdInv, alive \in [Scanner -> BOOLEAN], OwnExchange, OneTriad, Snapshot, [Next]_vars
    PROVE  Snapshot'
<1>t. /\ TypeInv /\ pc \in [App -> Place] /\ Of \in [App -> Scanner]
      /\ cm \subseteq DOMAIN made /\ table \in [Scanner -> SUBSET DOMAIN made] /\ alive' \in [Scanner -> BOOLEAN]
  BY IOAssumption, CloseEffect, Zenon DEF IdInv, TypeInv
<1>m. \A c \in DOMAIN made : c \in DOMAIN made' /\ made'[c] = made[c]
  BY <1>t, MadeStep, Zenon DEF IdInv
<1>e. /\ \A t \in Scanner : (alive'[t] => alive[t]) /\ Looked(t)
      /\ \A c \in cm' \cap DOMAIN made : c \in cm
  BY CloseEffect, Zenon
<1>f. \A g \in App : Frame(pc[g]).at \in {"shutdown", "wait", "returned"} => Frame(pc[g]).table \in SUBSET DOMAIN made
  BY <1>t DEF Place, Outer, Idle, Frame
<1>p. ASSUME NEW g \in App, pc[g].at \in {"request", "reply"}
      PROVE pc[g] \in [at : {"request", "reply"}, op : {"open", "close"}, id : Nat, then : Outer]
  BY <1>p, <1>t DEF Place, Outer, Idle
<1>o. \A q \in Outer : Frame(q) = q
  BY DEF Outer, Idle, Frame
<1>i. ASSUME NEW g \in App, Frame(pc'[g]) = Idle PROVE Held(g)'
  BY <1>i DEF Idle, Held
(* A goroutine that does not move. *)
<1>s. ASSUME NEW g \in App, pc'[g] = pc[g] PROVE Held(g)'
  <2> SUFFICES ASSUME Frame(pc[g]).at \in {"shutdown", "wait", "returned"}, NEW c \in Frame(pc[g]).table
               PROVE  /\ made'[c].by = Of[g]
                      /\ alive'[Of[g]] /\ c \in cm' =>
                            \/ Frame(pc[g]).at = "shutdown" /\ c \in Frame(pc[g]).todo
                            \/ Closing(g, c)'
    BY <1>s, Zenon DEF Held
  <2>1. c \in DOMAIN made /\ made[c].by = Of[g] /\ Of[g] \in Scanner
    BY <1>f, <1>t, Zenon DEF Snapshot, Held
  <2>2. ASSUME alive'[Of[g]], c \in cm', Closing(g, c) PROVE Closing(g, c)'
    <3>1. pc[g].at = "reply" => xch'[Of[g]] = xch[Of[g]]
      BY <2>1, <2>2, <1>e, Zenon DEF Closing, Looked
    <3> QED
      BY <3>1, <2>1, <2>2, <1>s, <1>m, Zenon DEF Closing
  <2> QED
    BY <2>1, <2>2, <1>m, <1>e, Zenon DEF Snapshot, Held
<1>h. ASSUME NEW g \in App, NEW q, pc' = [pc EXCEPT ![g] = q], Held(g)' PROVE \A h \in App : Held(h)'
  <2>1. \A h \in App : h # g => pc'[h] = pc[h]
    BY <1>h, <1>t, Zenon
  <2> QED
    BY <2>1, <1>h, <1>s, Zenon
<1>u. ASSUME UNCHANGED pc PROVE \A g \in App : Held(g)'
  BY <1>u, <1>s, Zenon
<1>a. ASSUME NEW g \in App, AppStep(g) PROVE \A h \in App : Held(h)'
  <2>v. g \in DOMAIN pc /\ Of[g] \in Scanner
    BY <1>t, Zenon
  <2>1. CASE OpenStart(g) \/ CloseStart(g)
    <3>1. PICK op, n : pc' = [pc EXCEPT ![g] = [at |-> "request", op |-> op, id |-> n, then |-> Idle]]
      BY <2>1, Zenon DEF OpenStart, CloseStart, Requests
    <3>2. Frame(pc'[g]) = Idle
      BY <3>1, <2>v, Zenon DEF Frame
    <3> QED
      BY <3>1, <3>2, <1>h, <1>i, Zenon
  <2>2. CASE ShutdownStart(g)
    <3> DEFINE q == [at |-> "shutdown", todo |-> table[Of[g]], table |-> table[Of[g]]]
    <3>1. pc' = [pc EXCEPT ![g] = q] /\ made' = made
      BY <2>2, Zenon DEF ShutdownStart, adapterVars
    <3>2. Frame(q).at = "shutdown" /\ Frame(q).todo = table[Of[g]] /\ Frame(q).table = table[Of[g]]
      BY Zenon DEF Frame
    <3>3. pc'[g] = q
      BY <3>1, <2>v, Zenon
    <3> HIDE DEF q
    <3>4. Held(g)'
      BY <3>1, <3>2, <3>3, <2>v, Zenon DEF OwnExchange, Held
    <3> QED
      BY <3>1, <3>4, <1>h, Zenon
  <2>3. CASE ShutdownCloses(g)
    <3>1. pc[g].at = "shutdown" /\ made' = made
      BY <2>3, Zenon DEF ShutdownCloses, adapterVars
    <3>2. pc[g] \in [at : {"shutdown"}, todo : SUBSET DOMAIN made, table : SUBSET DOMAIN made] /\ Frame(pc[g]) = pc[g]
      BY <3>1, <1>t DEF Place, Outer, Idle, Frame
    <3>3. PICK d \in pc[g].todo : Requests(g, "close", made[d].ot, [pc[g] EXCEPT !.todo = @ \ {d}])
      BY <2>3, Zenon DEF ShutdownCloses
    <3> DEFINE then == [pc[g] EXCEPT !.todo = @ \ {d}]
               q == [at |-> "request", op |-> "close", id |-> made[d].ot, then |-> then]
    <3>4. then.at = "shutdown" /\ then.todo = pc[g].todo \ {d} /\ then.table = pc[g].table
      BY <3>2, Zenon
    <3>5. pc' = [pc EXCEPT ![g] = q] /\ pc'[g] = q
      BY <3>3, <2>v, Zenon DEF Requests
    <3> HIDE DEF then
    <3>6. q.at = "request" /\ q.op = "close" /\ q.id = made[d].ot /\ Frame(q) = then
      BY Zenon DEF Frame
    <3> HIDE DEF q
    <3>7. Closing(g, d)'
      BY <3>1, <3>5, <3>6, Zenon DEF Closing
    <3>8. \A c \in pc[g].table : made[c].by = Of[g] /\ (alive[Of[g]] /\ c \in cm => c \in pc[g].todo)
      BY <3>1, <3>2 DEF Snapshot, Held, Closing
    <3>9. \A c \in pc[g].table : c \in cm' => c \in cm
      BY <3>2, <1>e, Zenon
    <3>10. Held(g)'
      BY <3>1, <3>4, <3>5, <3>6, <3>7, <3>8, <3>9, <1>e, <2>v, Zenon DEF Held
    <3> QED
      BY <3>5, <3>10, <1>h, Zenon
  <2>4. CASE ShutdownEnds(g)
    <3>1. pc[g].at = "shutdown" /\ pc[g].todo = {} /\ made' = made
      BY <2>4, Zenon DEF ShutdownEnds, adapterVars
    <3>2. pc[g] \in [at : {"shutdown"}, todo : SUBSET DOMAIN made, table : SUBSET DOMAIN made] /\ Frame(pc[g]) = pc[g]
      BY <3>1, <1>t DEF Place, Outer, Idle, Frame
    <3> DEFINE q == [at |-> "wait", table |-> pc[g].table]
    <3>3. pc' = [pc EXCEPT ![g] = q] /\ pc'[g] = q
      BY <2>4, <2>v, Zenon DEF ShutdownEnds
    <3>4. Frame(q).table = pc[g].table
      BY Zenon DEF Frame
    <3> HIDE DEF q
    <3>5. \A c \in pc[g].table : made[c].by = Of[g] /\ ~(alive[Of[g]] /\ c \in cm)
      BY <3>1, <3>2 DEF Snapshot, Held, Closing
    <3>6. \A c \in pc[g].table : c \in cm' => c \in cm
      BY <3>2, <1>e, Zenon
    <3>7. Held(g)'
      BY <3>1, <3>3, <3>4, <3>5, <3>6, <1>e, <2>v, Zenon DEF Held
    <3> QED
      BY <3>3, <3>7, <1>h, Zenon
  <2>5. CASE ShutdownReturns(g)
    <3>1. pc[g].at = "wait" /\ made' = made
      BY <2>5, Zenon DEF ShutdownReturns, adapterVars
    <3>2. pc[g] \in [at : {"wait", "returned"}, table : SUBSET DOMAIN made] /\ Frame(pc[g]) = pc[g]
      BY <3>1, <1>t DEF Place, Outer, Idle, Frame
    <3> DEFINE q == [pc[g] EXCEPT !.at = "returned"]
    <3>3. pc' = [pc EXCEPT ![g] = q] /\ pc'[g] = q
      BY <2>5, <2>v, Zenon DEF ShutdownReturns
    <3>4. Frame(q).table = pc[g].table
      BY <3>2, Zenon DEF Frame
    <3> HIDE DEF q
    <3>5. \A c \in pc[g].table : made[c].by = Of[g] /\ ~(alive[Of[g]] /\ c \in cm)
      BY <3>1, <3>2 DEF Snapshot, Held, Closing
    <3>6. \A c \in pc[g].table : c \in cm' => c \in cm
      BY <3>2, <1>e, Zenon
    <3>7. Held(g)'
      BY <3>1, <3>3, <3>4, <3>5, <3>6, <1>e, <2>v, Zenon DEF Held
    <3> QED
      BY <3>3, <3>7, <1>h, Zenon
  (* The goroutine goes on after its request. *)
  <2>6. ASSUME pc[g].at \in {"request", "reply"}, pc' = [pc EXCEPT ![g] = pc[g].then], made' = made,
               alive'[Of[g]] => pc[g].at = "reply" /\ xch[Of[g]].at # "sent"
        PROVE  \A h \in App : Held(h)'
    <3>1. pc[g].then \in Outer /\ Frame(pc[g]) = pc[g].then /\ Frame(pc[g].then) = pc[g].then
      BY <2>6, <1>p, <1>o, Zenon DEF Frame
    <3>2. pc'[g] = pc[g].then
      BY <2>6, <2>v, Zenon
    <3> DEFINE f == pc[g].then
    <3>3. ASSUME f.at \in {"shutdown", "wait", "returned"}, NEW c \in f.table
          PROVE  made[c].by = Of[g] /\ (alive'[Of[g]] /\ c \in cm' => f.at = "shutdown" /\ c \in f.todo)
      <4>1. c \in DOMAIN made
        BY <3>1, <3>3, <1>f, Zenon
      <4>2. made[c].by = Of[g] /\ (alive[Of[g]] /\ c \in cm => (f.at = "shutdown" /\ c \in f.todo) \/ Closing(g, c))
        BY <3>1, <3>3, Zenon DEF Snapshot, Held
      <4>3. alive'[Of[g]] => alive[Of[g]] /\ ~Closing(g, c)
        BY <2>6, <2>v, <1>e, Zenon DEF Closing
      <4> QED
        BY <4>1, <4>2, <4>3, <1>e, Zenon
    <3>4. Held(g)'
      BY <3>1, <3>2, <3>3, <2>6, Zenon DEF Held
    <3> QED
      BY <3>4, <2>6, <1>h, Zenon
  <2>7. CASE Send(g)
    <3>1. pc[g].at = "request" /\ made' = made /\ alive' = alive /\ cm' = cm
      BY <2>7, Zenon DEF Send, adapterVars
    <3>2. CASE ~alive[Of[g]]
      BY <3>1, <3>2, <2>6, <2>7, Zenon DEF Send
    <3>3. CASE alive[Of[g]]
      <4> DEFINE x == [at |-> "sent", op |-> pc[g].op, id |-> pc[g].id, g |-> g, c |-> 0]
                 q == [pc[g] EXCEPT !.at = "reply"]
      <4>1. xch' = [xch EXCEPT ![Of[g]] = x] /\ pc' = [pc EXCEPT ![g] = q]
        BY <3>3, <2>7, Zenon DEF Send
      <4>2. q.at = "reply" /\ q.op = pc[g].op /\ q.id = pc[g].id /\ q.then = pc[g].then
        BY <3>1, <1>p, Zenon
      <4>3. x.at = "sent" /\ x.op = pc[g].op /\ x.id = pc[g].id
        BY Zenon
      <4>4. xch'[Of[g]] = x /\ pc'[g] = q
        BY <4>1, <2>v, <1>t, Zenon DEF TypeInv
      <4> HIDE DEF x, q
      <4>5. Frame(pc'[g]) = Frame(pc[g])
        BY <4>2, <4>4, <3>1, Zenon DEF Frame
      <4>6. \A c : Closing(g, c) => Closing(g, c)'
        BY <4>2, <4>3, <4>4, <3>1, Zenon DEF Closing
      <4>7. Held(g)'
        BY <4>5, <4>6, <3>1, Zenon DEF Snapshot, Held
      <4> QED
        BY <4>1, <4>7, <1>h, Zenon
    <3> QED
      BY <3>2, <3>3, Zenon
  <2>8. CASE Receive(g)
    BY <2>6, <2>8, Zenon DEF Receive, adapterVars
  <2>9. CASE ReceiveFails(g)
    BY <2>6, <2>8, <2>9, Zenon DEF ReceiveFails, adapterVars
  <2> QED
    BY <1>a, <2>1, <2>2, <2>3, <2>4, <2>5, <2>7, <2>8, <2>9, Zenon DEF AppStep
<1>c. ASSUME NEW s \in Scanner, Crash(s) PROVE \A g \in App : Held(g)'
  <2>1. \A g \in App : pc'[g] = pc[g] \/ pc'[g] = Idle
    BY <1>c, Zenon DEF Crash
  <2>2. Frame(Idle) = Idle
    BY Zenon DEF Frame, Idle
  <2> QED
    BY <2>1, <2>2, <1>s, <1>i, Zenon
<1> QED
  <2> USE DEF scannerVars, adapterVars
  <2>1. ASSUME UNCHANGED vars PROVE UNCHANGED pc
    BY <2>1, Zenon DEF vars
  <2>2. ASSUME NEW s \in Scanner, SessionBreaks(s) \/ HandleIncomingPacket(s) \/ ReceiveLoopEnds(s) PROVE UNCHANGED pc
    BY <2>2, Zenon DEF SessionBreaks, HandleIncomingPacket, ReceiveLoopEnds
  <2>3. ASSUME NEW s \in Scanner, SessionStep(s) PROVE UNCHANGED pc
    BY <2>3, Zenon DEF SessionStep, HandleForwardOpen, HandleForwardClose, AnswerLost, OnOpenConsumer,
                OnOpenProducer, OnCloseConsumer, OnCloseProducer
  <2>4. ASSUME HandlePacket \/ CheckTimeouts \/ \E c \in DOMAIN ioconn : ProduceLoopEnds(c) PROVE UNCHANGED pc
    BY <2>4, Zenon DEF HandlePacket, CheckTimeouts, ProduceLoopEnds
  <2>5. UNCHANGED pc \/ (\E g \in App : AppStep(g)) \/ (\E s \in Scanner : Crash(s))
    BY <2>1, <2>2, <2>3, <2>4, Zenon DEF Next, ScannerStep
  <2>6. \A g \in App : Held(g)'
    BY <2>5, <1>a, <1>c, <1>u, Zenon
  <2> QED
    BY <2>6, Zenon DEF Snapshot

(* The tables of the connection manager and of the runtime, and Shutdown's    *)
(* snapshot, stay related along every behaviour.                               *)
THEOREM TablesStayRelated == Spec => [](IdInv /\ TableInv)
<1>1. IdInv /\ TableInv /\ [Next]_vars => TableInv'
  <2> SUFFICES ASSUME IdInv, TableInv, [Next]_vars PROVE TableInv'
    BY Zenon
  <2>1. alive \in [Scanner -> BOOLEAN] /\ OwnExchange /\ OneTriad /\ Snapshot
    BY Zenon DEF TableInv
  <2>2. alive' \in [Scanner -> BOOLEAN]
    BY <2>1, CloseEffect, Zenon
  <2>3. OwnExchange' /\ OneTriad'
    BY <2>1, OwnStep, Zenon
  <2>4. Snapshot'
    BY <2>1, SnapshotStep, Zenon
  <2>5. DistinctOriginators => BusyOwn' /\ Produced' /\ Consumed'
    BY <2>1, TablesStep, Zenon DEF TableInv
  <2>6. DistinctOriginators' <=> DistinctOriginators
    BY Zenon DEF DistinctOriginators
  <2> QED
    BY <2>2, <2>3, <2>4, <2>5, <2>6, Zenon DEF TableInv
<1> QED
  BY <1>1, TablesInit, IdsStayDistinct, PTL DEF Spec

(* ProducersTrackConnections for any number of scanners, goroutines and opens: *)
(* connmgr.go calls OnOpen and OnClose without its lock, and still the runtime  *)
(* produces for exactly the connections the connection manager knows whenever   *)
(* no handler is in between.                                                     *)
THEOREM ProducersTrack == Spec => []ProducersTrackConnections
<1>1. IdInv /\ TableInv => ProducersTrackConnections
  <2> SUFFICES ASSUME IdInv, TableInv, DistinctOriginators
               PROVE {rt[id] : id \in {i \in DOMAIN rt : i[1] = "TO"}} \ Busy = cm \ Busy
    BY Zenon DEF ProducersTrackConnections
  <2>1. Produced /\ cm \subseteq DOMAIN made /\ \A id \in DOMAIN rt : rt[id] \in DOMAIN made
    BY Zenon DEF TableInv, IdInv, TypeInv
  <2>2. ASSUME NEW id \in DOMAIN rt, id[1] = "TO", rt[id] \notin Busy PROVE rt[id] \in cm
    BY <2>1, <2>2, Zenon DEF Produced
  <2>3. ASSUME NEW c \in cm \ Busy PROVE <<"TO", c>> \in DOMAIN rt /\ rt[<<"TO", c>>] = c
    <3>1. <<"TO", c>> \in DOMAIN rt
      BY <2>1, Zenon DEF Produced
    <3>2. <<"TO", c>>[1] = "TO"
      BY Zenon
    <3>3. <<"TO", c>> = <<"TO", rt[<<"TO", c>>]>>
      BY <2>1, <3>1, <3>2, Zenon DEF Produced
    <3> QED
      BY <3>1, <3>3, Zenon
  <2>4. \A c : <<"TO", c>>[1] = "TO"
    BY Zenon
  <2> QED
    BY <2>2, <2>3, <2>4, Zenon
<1> QED
  BY <1>1, TablesStayRelated, PTL

(* ConsumerLostOnlyIfShared for any number of scanners, goroutines and opens: *)
(* an open connection is without its consumer in runtime.go's table only after *)
(* a timeout or when another scanner has come to the same O->T id.              *)
THEOREM ConsumersTrack == Spec => []ConsumerLostOnlyIfShared
<1>1. IdInv /\ TableInv => ConsumerLostOnlyIfShared
  <2> SUFFICES ASSUME IdInv, TableInv, DistinctOriginators, NEW c \in cm \ (Busy \cup expired)
               PROVE \/ <<"OT", made[c].ot>> \in DOMAIN rt /\ rt[<<"OT", made[c].ot>>] = c
                     \/ \E s \in Scanner \ {made[c].by} : nextID[s] >= made[c].ot
    BY Zenon DEF ConsumerLostOnlyIfShared
  <2>1. ~\E s \in Scanner : xch[s].at = "inserted" /\ xch[s].c = c
    BY BusyIs, Zenon DEF Opening
  <2> QED
    BY <2>1, Zenon DEF TableInv, Consumed, SharedId
<1> QED
  BY <1>1, TablesStayRelated, PTL

(* ShutdownClosesTable for any number of scanners, goroutines and opens, with *)
(* or without distinct originators: once io.go's Shutdown has returned over a   *)
(* session that held, no connection of its snapshot is open at the adapter.     *)
THEOREM ShutdownIsComplete == Spec => []ShutdownClosesTable
<1>1. IdInv /\ TableInv => ShutdownClosesTable
  <2> SUFFICES ASSUME IdInv, TableInv, NEW g \in App, pc[g].at = "returned", alive[Of[g]], NEW c \in pc[g].table
               PROVE c \notin cm
    BY Zenon DEF ShutdownClosesTable
  <2>1. Frame(pc[g]) = pc[g]
    BY Zenon DEF Frame
  <2> QED
    BY <2>1 DEF TableInv, Snapshot, Held, Closing
<1> QED
  BY <1>1, TablesStayRelated, PTL
=============================================================================
