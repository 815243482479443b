-------------------------- MODULE EIPExplicitProofs --------------------------
(***************************************************************************)
(* For any number of goroutines, other clients, retries and tags: replies    *)
(* reach the goroutine that asked, although nothing in them says whose they  *)
(* are; the client limit is exceeded only by early admissions; the client    *)
(* keeps to the single-session slot; a bit is lost only by overlapping       *)
(* writes; and a tag list is complete if its session lasted.                 *)
(***************************************************************************)
EXTENDS EIPExplicit, FiniteSetTheorems, TLAPS

(* The shape of the state, as far as the argument looks into it. *)
Shape ==
    /\ th = [t \in Thread |-> th[t]] /\ \A t \in Thread : {"pc", "reply"} \subseteq DOMAIN th[t]
    /\ srv = [c \in Conns |-> srv[c]]
    /\ ioMu \in Thread \cup {None}
    /\ boot \in {"dial", "register", "await", "done", "failed"}
    /\ mine \in BOOLEAN

(* ioMu is held exactly by the goroutine that waits for a reply. *)
Holder == \A t \in Thread : th[t].pc = "recv" <=> ioMu = t

(* Goroutines begin once the transport is built; what has been on the wire. *)
Order ==
    /\ phase = "built" => boot = "done"
    /\ \A t \in Thread : th[t].pc # "idle" => boot = "done"
    /\ boot \in {"dial", "register"} => toSrv = <<>> /\ toCli = <<>>
    /\ boot \in {"dial", "failed"} => ~mine
    /\ ~mine => toCli = <<>>

(* A request or reply on the wire is the only one, and once the session is     *)
(* registered the holder of ioMu waits for it.  Requests the server will never  *)
(* read, and the answers to a client that has closed, do not count.             *)
Awaited(f) == boot = "done" => ioMu \in Thread /\ f.for = ioMu

Lone ==
    /\ toCli = <<>> \/ \E r : toCli = <<r>> /\ Awaited(r)
    /\ mine /\ Up(Mine) /\ toSrv # <<>> =>
          toCli = <<>> /\ \E f : toSrv = <<f>> /\ Awaited(f)

MatchInv == Shape /\ Holder /\ Order /\ Lone /\ RepliesMatched

-----------------------------------------------------------------------------
(* What the assumption says of None, and the client's own connection. *)
LEMMA NoneIsNobody == None \notin Thread /\ Mine \in Conns
BY ExplicitAssumption, Zenon DEF None, Conns

(* What the codecs' queues do with at most one element. *)
LEMMA SingleQueue == \A x : Append(<<>>, x) = <<x>> /\ Head(<<x>>) = x /\ Tail(<<x>>) = <<>> /\ <<x>> # <<>>
<1> SUFFICES ASSUME NEW x PROVE Append(<<>>, x) = <<x>> /\ Head(<<x>>) = x /\ Tail(<<x>>) = <<>> /\ <<x>> # <<>>
  BY Zenon
<1> QED
  OBVIOUS

(* Nothing is on the wire at first. *)
LEMMA MatchInit == Init => MatchInv
<1> SUFFICES ASSUME Init PROVE MatchInv
  BY Zenon
<1> USE NoneIsNobody DEF Init, T!Init, Start
<1>1. Shape /\ RepliesMatched
  BY Zenon DEF Shape, RepliesMatched
<1>2. Holder /\ Order
  BY Zenon DEF Holder, Order
<1>3. Lone
  BY Zenon DEF Lone
<1> QED
  BY <1>1, <1>2, <1>3, Zenon DEF MatchInv

(* A step of the server that takes nothing off the wire but what it discards. *)
LEMMA QuietServer ==
    ASSUME MatchInv, UNCHANGED <<tvars, cvars, toCli>>, toSrv' = toSrv \/ toSrv' = <<>>,
           Up(Mine)' => Up(Mine), srv' = [c \in Conns |-> srv'[c]]
    PROVE MatchInv'
<1> USE DEF tvars, cvars
<1>1. Shape' /\ Holder' /\ Order' /\ RepliesMatched'
  BY Zenon DEF MatchInv, Shape, Holder, Order, RepliesMatched
<1>2. Lone'
  BY Zenon DEF MatchInv, Lone, Awaited
<1> QED
  BY <1>1, <1>2, Zenon DEF MatchInv

(* A step of a goroutine, not of one that waits for a reply, that puts nothing *)
(* on the wire.                                                                  *)
LEMMA QuietThread ==
    ASSUME MatchInv, NEW t \in Thread, NEW q, th' = [th EXCEPT ![t] = q],
           {"pc", "reply"} \subseteq DOMAIN q, q.reply = th[t].reply, q.pc # "recv",
           boot = "done", th[t].pc # "recv",
           UNCHANGED <<phase, boot, mine, ioMu, toSrv, toCli, srv>>
    PROVE MatchInv'
<1>1. \A u \in Thread : th'[u] = IF u = t THEN q ELSE th[u]
  BY Zenon DEF MatchInv, Shape
<1>2. Shape' /\ Holder' /\ Order' /\ RepliesMatched'
  BY <1>1, Zenon DEF MatchInv, Shape, Holder, Order, RepliesMatched
<1>3. Lone'
  BY Zenon DEF MatchInv, Lone, Awaited, Up
<1> QED
  BY <1>2, <1>3, Zenon DEF MatchInv

(* The goroutine after an exchange that failed. *)
LEMMA AfterFailure ==
    ASSUME MatchInv, NEW t \in Thread, ExchangeFails(t)
    PROVE \E q : /\ th' = [th EXCEPT ![t] = q]
                 /\ {"pc", "reply"} \subseteq DOMAIN q /\ q.reply = th[t].reply
                 /\ q.pc \in {"send", "done", "reset"}
<1>k. {"pc", "reply"} \subseteq DOMAIN th[t]
  BY Zenon DEF MatchInv, Shape
<1>1. CASE th[t].task = "tags" /\ th[t].step > 0
  <2> DEFINE q == [th[t] EXCEPT !.step = @ + 1, !.pc = IF th[t].step < Tags THEN "send" ELSE "done"]
  <2>1. th' = [th EXCEPT ![t] = q]
    BY <1>1, Zenon DEF ExchangeFails
  <2>2. {"pc", "reply"} \subseteq DOMAIN q /\ q.reply = th[t].reply /\ q.pc \in {"send", "done", "reset"}
    BY <1>k, Zenon
  <2> QED
    BY <2>1, <2>2, Zenon
<1>2. CASE ~(th[t].task = "tags" /\ th[t].step > 0)
  <2> DEFINE q == [th[t] EXCEPT !.pc = "reset"]
  <2>1. th' = [th EXCEPT ![t] = q]
    BY <1>2, Zenon DEF ExchangeFails, Goto
  <2>2. {"pc", "reply"} \subseteq DOMAIN q /\ q.reply = th[t].reply /\ q.pc = "reset"
    BY <1>k, Zenon
  <2> QED
    BY <2>1, <2>2, Zenon
<1> QED
  BY <1>1, <1>2, Zenon

(* The goroutine after an attempt that failed. *)
LEMMA AfterAttempt ==
    ASSUME MatchInv, NEW t \in Thread, NextTry(t)
    PROVE \E q : /\ th' = [th EXCEPT ![t] = q]
                 /\ {"pc", "reply"} \subseteq DOMAIN q /\ q.reply = th[t].reply
                 /\ q.pc \in {"conn", "error"}
<1>k. {"pc", "reply"} \subseteq DOMAIN th[t]
  BY Zenon DEF MatchInv, Shape
<1> DEFINE q == [th[t] EXCEPT !.try = @ + 1, !.pc = IF th[t].try < Retries THEN "conn" ELSE "error"]
<1>1. th' = [th EXCEPT ![t] = q]
  BY Zenon DEF NextTry
<1>2. {"pc", "reply"} \subseteq DOMAIN q /\ q.reply = th[t].reply /\ q.pc \in {"conn", "error"}
  BY <1>k, Zenon
<1> QED
  BY <1>1, <1>2, Zenon

(* The goroutine after a reply. *)
LEMMA AfterReply ==
    ASSUME MatchInv, NEW t \in Thread, NEW r
    PROVE LET q == Proceed(t, r)
          IN  {"pc", "reply"} \subseteq DOMAIN q /\ q.reply = r.for /\ q.pc \in {"conn", "send", "done"}
<1>k. {"pc", "reply"} \subseteq DOMAIN th[t]
  BY Zenon DEF MatchInv, Shape
<1>1. CASE th[t].task = "bit" /\ th[t].step = 0
  BY <1>k, <1>1, Zenon DEF Proceed, ProceedBit
<1>2. CASE th[t].task = "bit" /\ th[t].step # 0
  BY <1>k, <1>2, Zenon DEF Proceed, ProceedBit
<1>3. CASE th[t].task # "bit"
  BY <1>k, <1>3, Zenon DEF Proceed, ProceedTags
<1> QED
  BY <1>1, <1>2, <1>3, Zenon

(* The client's end is closed: what is on the wire no longer counts. *)
LEMMA AfterClose ==
    ASSUME MatchInv, boot = "done", CloseSession, UNCHANGED <<phase, boot, ioMu, srv>>, Shape', Holder', RepliesMatched'
    PROVE MatchInv'
<1>1. CASE active
  <2>1. mine' = FALSE /\ toCli' = <<>>
    BY <1>1, Zenon DEF CloseSession
  <2> QED
    BY <2>1, Zenon DEF MatchInv, Order, Lone
<1>2. CASE ~active
  <2>1. UNCHANGED <<toSrv, mine, toCli>>
    BY <1>2, Zenon DEF CloseSession
  <2> QED
    BY <2>1, Zenon DEF MatchInv, Order, Lone, Awaited, Up
<1> QED
  BY <1>1, <1>2, Zenon

(* The steps of a goroutine keep the order of frames. *)
LEMMA ThreadKeeps ==
    ASSUME MatchInv, NEW t \in Thread, ThreadStep(t) PROVE MatchInv'
<1> USE NoneIsNobody
<1>k. /\ {"pc", "reply"} \subseteq DOMAIN th[t] /\ Shape /\ Holder /\ Order /\ Lone /\ RepliesMatched
      /\ th[t].reply \in {None, t}
  BY Zenon DEF MatchInv, Shape, RepliesMatched
<1>1. CASE Call(t)
  <2>1. PICK k : th' = [th EXCEPT ![t] = [th[t] EXCEPT !.pc = "conn", !.task = k]]
    BY <1>1, Zenon DEF Call
  <2> DEFINE q == [th[t] EXCEPT !.pc = "conn", !.task = k]
  <2>2. {"pc", "reply"} \subseteq DOMAIN q /\ q.reply = th[t].reply /\ q.pc = "conn"
    BY <1>k, Zenon
  <2>3. boot = "done" /\ th[t].pc = "idle" /\ UNCHANGED <<phase, boot, mine, ioMu, toSrv, toCli, srv>>
    BY <1>1, <1>k, Zenon DEF Call, Order, tvars, svars
  <2> HIDE DEF q
  <2> QED
    BY <2>1, <2>2, <2>3, QuietThread, Zenon DEF q
<1>2. CASE GetConn(t)
  <2>1. th[t].pc = "conn" /\ UNCHANGED <<phase, boot, mine, ioMu, toSrv, toCli, srv>>
    BY <1>2, Zenon DEF GetConn, T!Conn, svars
  <2>2. boot = "done"
    BY <2>1, <1>k, Zenon DEF Order
  <2>3. CASE NextTry(t)
    <3>1. PICK q : /\ th' = [th EXCEPT ![t] = q]
                   /\ {"pc", "reply"} \subseteq DOMAIN q /\ q.reply = th[t].reply
                   /\ q.pc \in {"conn", "error"}
      BY <2>3, AfterAttempt, Zenon
    <3> QED
      BY <3>1, <2>1, <2>2, QuietThread, Zenon
  <2>4. CASE ~NextTry(t)
    <3> DEFINE q == [th[t] EXCEPT !.pc = "send", !.step = IF th[t].task = "bit" THEN @ ELSE 0, !.tags = {}]
    <3>1. th' = [th EXCEPT ![t] = q]
      BY <2>4, <1>2, Zenon DEF GetConn
    <3>2. {"pc", "reply"} \subseteq DOMAIN q /\ q.reply = th[t].reply /\ q.pc = "send"
      BY <1>k, Zenon
    <3> HIDE DEF q
    <3> QED
      BY <3>1, <3>2, <2>1, <2>2, QuietThread, Zenon
  <2> QED
    BY <2>3, <2>4, Zenon
<1>3. CASE SendRRData(t)
  <2>1. th[t].pc = "send" /\ ioMu = None /\ UNCHANGED <<phase, boot, mine, toCli, srv>>
    BY <1>3, Zenon DEF SendRRData, tvars, svars
  <2>2. boot = "done"
    BY <2>1, <1>k, Zenon DEF Order
  <2>3. CASE ExchangeFails(t) /\ UNCHANGED <<toSrv, ioMu>>
    <3>1. PICK q : /\ th' = [th EXCEPT ![t] = q]
                   /\ {"pc", "reply"} \subseteq DOMAIN q /\ q.reply = th[t].reply
                   /\ q.pc \in {"send", "done", "reset"}
      BY <2>3, AfterFailure, Zenon
    <3> QED
      BY <3>1, <2>1, <2>2, <2>3, QuietThread, Zenon
  <2>4. CASE ~(ExchangeFails(t) /\ UNCHANGED <<toSrv, ioMu>>)
    <3> DEFINE f == [Frame("RRData", t) EXCEPT !.step = th[t].step, !.word = th[t].word]
               q == [th[t] EXCEPT !.pc = "recv"]
    <3>1. /\ toSrv' = (IF Up(Mine) THEN Append(toSrv, f) ELSE toSrv) /\ ioMu' = t
          /\ th' = [th EXCEPT ![t] = q]
      BY <2>4, <1>3, Zenon DEF SendRRData, Write, Goto
    <3>2. f.for = t
      BY Zenon DEF Frame
    <3>3. {"pc", "reply"} \subseteq DOMAIN q /\ q.reply = th[t].reply /\ q.pc = "recv"
      BY <1>k, Zenon
    <3> HIDE DEF f, q
    <3>4. toCli = <<>> /\ (mine /\ Up(Mine) => toSrv = <<>>)
      BY <2>1, <2>2, <1>k, Zenon DEF Lone, Awaited
    <3>5. \A u \in Thread : th'[u] = IF u = t THEN q ELSE th[u]
      BY <3>1, <1>k, Zenon DEF Shape
    <3>6. Shape' /\ Holder' /\ RepliesMatched'
      BY <3>1, <3>3, <3>5, <2>1, <1>k, Zenon DEF Shape, Holder, RepliesMatched
    <3>7. Order'
      BY <3>3, <3>5, <2>1, <2>2, <1>k, Zenon DEF Order
    <3>8. Lone'
      <4>1. toCli' = <<>>
        BY <3>4, <2>1, Zenon
      <4>2. ASSUME mine', Up(Mine)' PROVE toSrv' = <<f>>
        BY <4>2, <3>1, <3>4, <2>1, SingleQueue, Zenon DEF Up
      <4>4. ioMu' \in Thread /\ f.for = ioMu'
        BY <3>1, <3>2, Zenon
      <4> QED
        BY <4>1, <4>2, <4>4, Zenon DEF Lone, Awaited
    <3> QED
      BY <3>6, <3>7, <3>8, Zenon DEF MatchInv
  <2> QED
    BY <2>3, <2>4, Zenon
<1>4. CASE Receive(t)
  <2>1. th[t].pc = "recv" /\ ioMu' = None /\ UNCHANGED <<phase, boot, mine, toSrv, srv>>
    BY <1>4, Zenon DEF Receive, tvars, svars
  <2>2. boot = "done" /\ ioMu = t
    BY <2>1, <1>k, Zenon DEF Order, Holder
  <2>3. \/ toCli # <<>> /\ toCli' = Tail(toCli)
        \/ toCli' = toCli /\ (~mine \/ (toCli = <<>> /\ ~Up(Mine)))
    BY <1>4, Zenon DEF Receive
  <2>4. toCli' = <<>>
    <3>1. CASE toCli = <<>>
      BY <3>1, <2>3, Zenon
    <3>2. CASE toCli # <<>>
      <4>1. PICK r : toCli = <<r>>
        BY <3>2, <1>k DEF Lone
      <4>2. toCli' = Tail(toCli)
        BY <3>2, <2>3, <1>k, Zenon DEF Order
      <4> QED
        BY <4>1, <4>2, SingleQueue, Zenon
    <3> QED
      BY <3>1, <3>2, Zenon
  <2>5. PICK q : /\ th' = [th EXCEPT ![t] = q]
                 /\ {"pc", "reply"} \subseteq DOMAIN q /\ q.reply \in {None, t}
                 /\ q.pc \in {"conn", "send", "done", "reset"}
    <3>1. CASE ExchangeFails(t)
      BY <3>1, <1>k, AfterFailure, Zenon
    <3>2. CASE ~ExchangeFails(t)
      <4>1. toCli # <<>> /\ th' = [th EXCEPT ![t] = Proceed(t, Head(toCli))]
        BY <3>2, <1>4, Zenon DEF Receive
      <4>2. Head(toCli).for = t
        BY <4>1, <2>2, <1>k, SingleQueue, Zenon DEF Lone, Awaited
      <4> QED
        BY <4>1, <4>2, AfterReply, Zenon
    <3> QED
      BY <3>1, <3>2, Zenon
  <2>6. mine /\ Up(Mine) => toSrv = <<>>
    <3>1. CASE toCli # <<>>
      BY <3>1, <1>k, Zenon DEF Lone
    <3>2. CASE toCli = <<>>
      BY <3>2, <2>3, Zenon
    <3> QED
      BY <3>1, <3>2, Zenon
  <2>7. \A u \in Thread : th'[u] = IF u = t THEN q ELSE th[u]
    BY <2>5, <1>k, Zenon DEF Shape
  <2>8. Shape' /\ Holder' /\ RepliesMatched'
    BY <2>1, <2>2, <2>5, <2>7, <1>k, Zenon DEF Shape, Holder, RepliesMatched
  <2>9. Order'
    BY <2>1, <2>2, <2>4, <2>5, <2>7, <1>k, Zenon DEF Order
  <2>10. Lone'
    BY <2>1, <2>4, <2>6, Zenon DEF Lone, Up
  <2> QED
    BY <2>8, <2>9, <2>10, Zenon DEF MatchInv
<1>5. CASE Reset(t)
  <2>1. th[t].pc = "reset" /\ UNCHANGED <<boot, ioMu, srv>> /\ NextTry(t)
    BY <1>5, Zenon DEF Reset, svars
  <2>2. boot = "done"
    BY <2>1, <1>k, Zenon DEF Order
  <2>3. PICK q : /\ th' = [th EXCEPT ![t] = q]
                 /\ {"pc", "reply"} \subseteq DOMAIN q /\ q.reply = th[t].reply
                 /\ q.pc \in {"conn", "error"}
    BY <2>1, AfterAttempt, Zenon
  <2>4. CASE UNCHANGED <<tvars, toSrv, mine, peer, toCli>>
    BY <2>1, <2>2, <2>3, <2>4, QuietThread, Zenon DEF tvars
  <2>5. CASE ~UNCHANGED <<tvars, toSrv, mine, peer, toCli>>
    <3>1. CloseSession /\ phase' = phase
      BY <2>5, <1>5, Zenon DEF Reset, T!Reset
    <3>2. \A u \in Thread : th'[u] = IF u = t THEN q ELSE th[u]
      BY <2>3, <1>k, Zenon DEF Shape
    <3>3. mine' \in BOOLEAN
      BY <3>1, <1>k, Zenon DEF CloseSession, Shape
    <3>4. Shape' /\ Holder' /\ RepliesMatched'
      BY <3>2, <3>3, <2>1, <2>3, <1>k, Zenon DEF Shape, Holder, RepliesMatched
    <3>5. \A u \in Thread : th'[u].pc # "idle" => boot' = "done"
      BY <2>1, <2>2, Zenon
    <3> QED
      BY <3>1, <3>4, <2>1, <2>2, AfterClose, Zenon
  <2> QED
    BY <2>4, <2>5, Zenon
<1> QED
  BY <1>1, <1>2, <1>3, <1>4, <1>5, Zenon DEF ThreadStep

(* So does opening the session and registering it. *)
LEMMA ConnectKeeps ==
    ASSUME MatchInv, Connecting PROVE MatchInv'
<1> USE NoneIsNobody
<1>k. Shape /\ Holder /\ Order /\ Lone /\ RepliesMatched
  BY Zenon DEF MatchInv
<1>1. CASE Dial
  <2>1. /\ boot = "dial" /\ UNCHANGED <<ioMu, th, toSrv, toCli>>
        /\ boot' \in {"register", "failed"} /\ mine' \in BOOLEAN /\ (boot' = "failed" => mine' = mine)
    BY <1>1, <1>k, Zenon DEF Dial, Shape
  <2>2. srv' = [c \in Conns |-> srv'[c]]
    BY <1>1, <1>k, Zenon DEF Dial, Shape
  <2>3. phase' # "built"
    BY <1>1, <2>1, <1>k, Zenon DEF Dial, tvars, Order
  <2>4. toSrv = <<>> /\ toCli = <<>> /\ ~mine /\ \A t \in Thread : th[t].pc = "idle"
    BY <2>1, <1>k, Zenon DEF Order
  <2>5. Shape' /\ Holder' /\ RepliesMatched'
    BY <2>1, <2>2, <1>k, Zenon DEF Shape, Holder, RepliesMatched
  <2>6. Order' /\ Lone'
    BY <2>1, <2>3, <2>4, Zenon DEF Order, Lone
  <2> QED
    BY <2>5, <2>6, Zenon DEF MatchInv
<1>2. CASE RegisterSend
  <2> DEFINE f == Frame("Register", None)
  <2>1. /\ boot = "register" /\ boot' = "await" /\ UNCHANGED <<phase, mine, ioMu, th, toCli, srv>>
        /\ toSrv' = (IF Up(Mine) THEN Append(toSrv, f) ELSE toSrv)
    BY <1>2, Zenon DEF RegisterSend, Write, tvars, svars
  <2> HIDE DEF f
  <2>2. toSrv = <<>> /\ toCli = <<>> /\ phase # "built" /\ \A t \in Thread : th[t].pc = "idle"
    BY <2>1, <1>k, Zenon DEF Order
  <2>3. Shape' /\ Holder' /\ RepliesMatched'
    BY <2>1, <1>k, Zenon DEF Shape, Holder, RepliesMatched
  <2>4. Order'
    BY <2>1, <2>2, Zenon DEF Order
  <2>5. toSrv' \in {<<>>, <<f>>}
    BY <2>1, <2>2, SingleQueue, Zenon
  <2>6. Lone'
    BY <2>1, <2>2, <2>5, Zenon DEF Lone, Awaited
  <2> QED
    BY <2>3, <2>4, <2>6, Zenon DEF MatchInv
<1>3. CASE RegisterReceive
  <2>1. boot = "await" /\ UNCHANGED <<ioMu, th, toSrv, srv>>
    BY <1>3, Zenon DEF RegisterReceive, svars
  <2>2. \A t \in Thread : th[t].pc = "idle"
    BY <2>1, <1>k, Zenon DEF Order
  <2>3. CASE toCli # <<>>
    <3>1. toCli' = Tail(toCli) /\ boot' = "done" /\ mine' = mine
      BY <2>3, <1>3, Zenon DEF RegisterReceive
    <3>2. PICK r : toCli = <<r>>
      BY <2>3, <1>k DEF Lone
    <3>3. toCli' = <<>>
      BY <3>1, <3>2, SingleQueue, Zenon
    <3>4. mine /\ Up(Mine) => toSrv = <<>>
      BY <2>3, <1>k, Zenon DEF Lone
    <3>5. Shape' /\ Holder' /\ RepliesMatched'
      BY <2>1, <3>1, <1>k, Zenon DEF Shape, Holder, RepliesMatched
    <3>6. Order' /\ Lone'
      BY <2>1, <3>1, <3>3, <3>4, Zenon DEF Order, Lone, Up
    <3> QED
      BY <3>5, <3>6, Zenon DEF MatchInv
  <2>4. CASE toCli = <<>>
    <3>1. toCli' = toCli /\ boot' = "failed" /\ mine' = FALSE /\ phase' = "failed"
      BY <2>4, <1>3, Zenon DEF RegisterReceive
    <3>2. Shape' /\ Holder' /\ RepliesMatched'
      BY <2>1, <3>1, <1>k, Zenon DEF Shape, Holder, RepliesMatched
    <3>3. Order' /\ Lone'
      BY <2>1, <2>2, <2>4, <3>1, Zenon DEF Order, Lone
    <3> QED
      BY <3>2, <3>3, Zenon DEF MatchInv
  <2> QED
    BY <2>3, <2>4, Zenon
<1> QED
  BY <1>1, <1>2, <1>3, Zenon DEF Connecting

(* The server takes the request and its answer takes its place. *)
LEMMA AnswerKeeps ==
    ASSUME MatchInv, HandleFrame PROVE MatchInv'
<1> USE NoneIsNobody
<1>k. Shape /\ Holder /\ Order /\ Lone /\ RepliesMatched
  BY Zenon DEF MatchInv
<1>1. /\ srv[Mine] = "reading" /\ toSrv # <<>> /\ toSrv' = Tail(toSrv)
      /\ srv' = [srv EXCEPT ![Mine] = "polling"]
      /\ UNCHANGED <<phase, boot, mine, ioMu, th>>
  BY Zenon DEF HandleFrame, tvars, cvars
<1>2. \E s, st, w : Reply(Head(toSrv), s, st, w)
  BY Zenon DEF HandleFrame
<1>3. Shape' /\ Holder' /\ RepliesMatched'
  BY <1>1, <1>k, Zenon DEF Shape, Holder, RepliesMatched
<1>4. boot \notin {"dial", "register"}
  BY <1>1, <1>k, Zenon DEF Order
<1>5. CASE ~mine
  <2>1. toCli' = <<>>
    BY <1>5, <1>2, <1>k, Zenon DEF Reply, Order
  <2>2. Order' /\ Lone'
    BY <2>1, <1>5, <1>1, <1>4, <1>k, Zenon DEF Order, Lone
  <2> QED
    BY <1>3, <2>2, Zenon DEF MatchInv
<1>6. CASE mine
  <2>1. Up(Mine)
    BY <1>1, Zenon DEF Up
  <2>2. toCli = <<>>
    BY <2>1, <1>6, <1>1, <1>k, Zenon DEF Lone
  <2>3. PICK f : toSrv = <<f>> /\ Awaited(f)
    BY <2>1, <1>6, <1>1, <1>k, Zenon DEF Lone
  <2>4. Head(toSrv) = f /\ toSrv' = <<>>
    BY <2>3, <1>1, SingleQueue, Zenon
  <2>5. PICK r : toCli' = Append(toCli, r) /\ r.for = f.for
    <3>1. PICK s, st, w : Reply(f, s, st, w)
      BY <1>2, <2>4, Zenon
    <3> DEFINE r == [for |-> f.for, session |-> s, status |-> st, word |-> w]
    <3>2. toCli' = Append(toCli, r)
      BY <3>1, <1>6, Zenon DEF Reply
    <3> QED
      BY <3>2
  <2>6. toCli' = <<r>>
    BY <2>2, <2>5, SingleQueue, Zenon
  <2>7. boot' = "done" => ioMu' \in Thread /\ r.for = ioMu'
    BY <2>3, <2>5, <1>1, Zenon DEF Awaited
  <2>8. Lone'
    BY <2>4, <2>6, <2>7, Zenon DEF Lone, Awaited
  <2>9. Order'
    BY <1>6, <1>1, <1>4, <1>k, Zenon DEF Order
  <2> QED
    BY <1>3, <2>8, <2>9, Zenon DEF MatchInv
<1> QED
  BY <1>5, <1>6, Zenon

(* Every step keeps the order of frames. *)
LEMMA MatchStep == MatchInv /\ [Next]_vars => MatchInv'
<1> SUFFICES ASSUME MatchInv, [Next]_vars PROVE MatchInv'
  BY Zenon
<1> USE NoneIsNobody
<1>k. Shape /\ Holder /\ Order /\ Lone /\ RepliesMatched
  BY Zenon DEF MatchInv
<1>1. CASE Connecting
  BY <1>1, ConnectKeeps, Zenon
<1>2. CASE AppCloses
  <2>1. CloseSession /\ UNCHANGED <<phase, boot, ioMu, th, srv>> /\ phase = "built"
    BY <1>2, Zenon DEF AppCloses, T!Close, svars
  <2>2. boot = "done" /\ mine' \in BOOLEAN
    BY <2>1, <1>k, Zenon DEF Order, Shape, CloseSession
  <2>3. Shape' /\ Holder' /\ RepliesMatched'
    BY <2>1, <2>2, <1>k, Zenon DEF Shape, Holder, RepliesMatched
  <2> QED
    BY <2>1, <2>2, <2>3, AfterClose, Zenon
<1>3. CASE Cut
  BY <1>3, <1>k, QuietServer, Zenon DEF Cut, Up, Shape
<1>4. ASSUME NEW t \in Thread, ThreadStep(t) PROVE MatchInv'
  BY <1>4, ThreadKeeps, Zenon
<1>5. ASSUME NEW c \in Other, OtherDials(c) PROVE MatchInv'
  BY <1>5, <1>k, QuietServer, ExplicitAssumption, Zenon DEF OtherDials, Up, Shape, Conns
<1>6. ASSUME NEW c \in Other, OtherLeaves(c) PROVE MatchInv'
  BY <1>6, <1>k, QuietServer, Zenon DEF OtherLeaves, svars, Up, Shape
<1>7. ASSUME NEW c \in Conns, Accept(c) PROVE MatchInv'
  BY <1>7, <1>k, QuietServer, Zenon DEF Accept, Up, Shape
<1>8. ASSUME NEW c \in Conns, Register(c) PROVE MatchInv'
  BY <1>8, <1>k, QuietServer, Zenon DEF Register, Up, Shape
<1>9. ASSUME NEW c \in Conns, Poll(c) PROVE MatchInv'
  BY <1>9, <1>k, QuietServer, Zenon DEF Poll, Leave, Up, Shape
<1>10. ASSUME NEW c \in Conns, ReadFails(c) PROVE MatchInv'
  BY <1>10, <1>k, QuietServer, Zenon DEF ReadFails, Leave, Up, Shape
<1>11. CASE AcceptEnds
  BY <1>11, <1>k, QuietServer, Zenon DEF AcceptEnds, Up, Shape
<1>12. CASE HandleFrame
  BY <1>12, AnswerKeeps, Zenon
<1>13. CASE HandleUnregister
  BY <1>13, <1>k, QuietServer, Zenon DEF HandleUnregister, Leave, Up, Shape
<1>14. CASE StopBegin
  BY <1>14, <1>k, QuietServer, Zenon DEF StopBegin, Up, Shape
<1>15. CASE StopSweeps
  BY <1>15, <1>k, QuietServer, Zenon DEF StopSweeps, Up, Shape
<1>16. CASE UNCHANGED vars
  BY <1>16, <1>k, QuietServer, Zenon DEF vars, svars, Up, Shape
<1> QED
  BY <1>1, <1>2, <1>3, <1>4, <1>5, <1>6, <1>7, <1>8, <1>9, <1>10, <1>11, <1>12, <1>13, <1>14, <1>15, <1>16, Zenon
     DEF Next, Serve

(* Every reply a goroutine takes answers its own request, although no field of *)
(* the reply is compared with the request: ioMu covers the exchange, and no    *)
(* deadline ends one while its reply may still come, so it leaves nothing on    *)
(* the wire for the next holder of the lock.                                     *)
THEOREM RepliesReachAsker == Spec => []RepliesMatched
<1>1. MatchInv => RepliesMatched
  BY Zenon DEF MatchInv
<1> QED
  BY <1>1, MatchInit, MatchStep, PTL DEF Spec

-----------------------------------------------------------------------------
(* The client limit.                                                         *)

(* The connections the limit accounts for: in the table or on their way there, *)
(* except those admitted while another one was on its way.                      *)
Counted == (clients \cup {c \in Conns : srv[c] = "admitted"}) \ early

LimitInv ==
    /\ srv = [c \in Conns |-> srv[c]]
    /\ clients \subseteq Conns
    /\ MaxClients > 0 => Cardinality(Counted) <= MaxClients

(* The set of connections is finite, and so are its subsets. *)
LEMMA ConnsFinite == \A S : S \subseteq Conns => IsFiniteSet(S) /\ Cardinality(S) \in Nat
<1>1. IsFiniteSet(Conns)
  BY ExplicitAssumption, FS_AddElement, Zenon DEF Conns
<1> QED
  BY <1>1, FS_Subset, FS_CardinalityType, Zenon

(* The table is empty at first. *)
LEMMA LimitInit == Init => LimitInv
<1> SUFFICES ASSUME Init PROVE LimitInv
  BY Zenon
<1>1. Counted = {}
  BY Zenon DEF Init, Counted
<1>2. Cardinality({}) = 0
  BY FS_EmptySet, Zenon
<1> QED
  BY <1>1, <1>2, ExplicitAssumption DEF Init, LimitInv

(* A step that adds nothing to what is counted. *)
LEMMA NothingCounted ==
    ASSUME LimitInv, srv' = [c \in Conns |-> srv'[c]], clients' \subseteq Conns, Counted' \subseteq Counted
    PROVE LimitInv'
<1>1. Counted \subseteq Conns
  BY Zenon DEF Counted, LimitInv
<1>2. IsFiniteSet(Counted) /\ Cardinality(Counted) \in Nat /\ Cardinality(Counted') \in Nat
  BY <1>1, ConnsFinite, Zenon
<1>3. Cardinality(Counted') <= Cardinality(Counted)
  BY <1>2, FS_Subset, Zenon
<1> QED
  BY <1>2, <1>3, ExplicitAssumption DEF LimitInv

(* Accept counts one more only when the table holds all that are counted. *)
LEMMA AcceptKeepsLimit ==
    ASSUME LimitInv, NEW c \in Conns, Accept(c) PROVE LimitInv'
<1>k. srv = [d \in Conns |-> srv[d]] /\ clients \subseteq Conns /\ clients' = clients /\ srv[c] = "backlog"
  BY Zenon DEF LimitInv, Accept
<1>1. CASE Full \/ \E d \in Conns : srv[d] = "admitted"
  <2>1. srv' = [d \in Conns |-> srv'[d]]
    BY <1>k, Zenon DEF Accept
  <2>2. Counted' \subseteq Counted
    BY <1>1, <1>k, Zenon DEF Accept, Counted
  <2> QED
    BY <1>k, <2>1, <2>2, NothingCounted, Zenon
<1>2. CASE ~Full /\ ~\E d \in Conns : srv[d] = "admitted"
  <2>1. srv' = [srv EXCEPT ![c] = "admitted"] /\ early' = early
    BY <1>2, Zenon DEF Accept
  <2>2. Counted' \subseteq clients \cup {c}
    BY <2>1, <1>2, <1>k, Zenon DEF Counted
  <2>3. IsFiniteSet(clients) /\ Cardinality(clients) \in Nat
    BY <1>k, ConnsFinite, Zenon
  <2>4. /\ IsFiniteSet(clients \cup {c}) /\ Cardinality(clients \cup {c}) \in Nat
        /\ Cardinality(clients \cup {c}) <= Cardinality(clients) + 1
    <3>1. IsFiniteSet(clients \cup {c})
      BY <2>3, FS_AddElement, Zenon
    <3>2. Cardinality(clients \cup {c}) = Cardinality(clients) \/ Cardinality(clients \cup {c}) = Cardinality(clients) + 1
      BY <2>3, FS_AddElement, Zenon
    <3> QED
      BY <2>3, <3>1, <3>2
  <2>5. Cardinality(Counted') <= Cardinality(clients \cup {c}) /\ Cardinality(Counted') \in Nat
    BY <2>2, <2>4, FS_Subset, FS_CardinalityType, Zenon
  <2>6. MaxClients > 0 => Cardinality(clients) < MaxClients
    BY <1>2, <2>3, ExplicitAssumption DEF Full
  <2>7. MaxClients > 0 => Cardinality(Counted') <= MaxClients
    BY <2>3, <2>4, <2>5, <2>6, ExplicitAssumption
  <2>8. srv' = [d \in Conns |-> srv'[d]]
    BY <2>1, <1>k, Zenon
  <2> QED
    BY <2>7, <2>8, <1>k, Zenon DEF LimitInv
<1> QED
  BY <1>1, <1>2, Zenon

(* Every step keeps the count of admitted connections. *)
LEMMA LimitStep == LimitInv /\ [Next]_vars => LimitInv'
<1> SUFFICES ASSUME LimitInv, [Next]_vars PROVE LimitInv'
  BY Zenon
<1> USE NoneIsNobody
<1>k. srv = [c \in Conns |-> srv[c]] /\ clients \subseteq Conns
  BY Zenon DEF LimitInv
<1>1. CASE UNCHANGED <<srv, clients, early>>
  BY <1>1, <1>k, NothingCounted, Zenon DEF Counted
<1>2. CASE Connecting
  <2>1. CASE Dial
    BY <2>1, <1>1, <1>k, NothingCounted, Zenon DEF Dial, Counted
  <2>2. CASE RegisterSend \/ RegisterReceive
    BY <2>2, <1>1, Zenon DEF RegisterSend, RegisterReceive, svars
  <2> QED
    BY <1>2, <2>1, <2>2, Zenon DEF Connecting
<1>3. CASE AppCloses
  BY <1>3, <1>1, Zenon DEF AppCloses, svars
<1>4. CASE Cut
  BY <1>4, <1>k, NothingCounted, Zenon DEF Cut, Counted
<1>5. ASSUME NEW t \in Thread, ThreadStep(t) PROVE LimitInv'
  BY <1>5, <1>1, Zenon DEF ThreadStep, Call, GetConn, SendRRData, Receive, Reset, svars
<1>6. ASSUME NEW c \in Other, OtherDials(c) PROVE LimitInv'
  BY <1>6, <1>k, NothingCounted, Zenon DEF OtherDials, Counted, Conns
<1>7. ASSUME NEW c \in Other, OtherLeaves(c) PROVE LimitInv'
  BY <1>7, <1>1, Zenon DEF OtherLeaves, svars
<1>8. ASSUME NEW c \in Conns, Accept(c) PROVE LimitInv'
  BY <1>8, AcceptKeepsLimit, Zenon
<1>9. ASSUME NEW c \in Conns, Register(c) PROVE LimitInv'
  BY <1>9, <1>k, NothingCounted, Zenon DEF Register, Counted
<1>10. ASSUME NEW c \in Conns, Poll(c) PROVE LimitInv'
  BY <1>10, <1>k, NothingCounted, Zenon DEF Poll, Leave, Counted
<1>11. ASSUME NEW c \in Conns, ReadFails(c) PROVE LimitInv'
  BY <1>11, <1>k, NothingCounted, Zenon DEF ReadFails, Leave, Counted
<1>12. CASE AcceptEnds
  BY <1>12, <1>1, Zenon DEF AcceptEnds
<1>13. CASE HandleFrame
  BY <1>13, <1>k, NothingCounted, Zenon DEF HandleFrame, Counted
<1>14. CASE HandleUnregister
  BY <1>14, <1>k, NothingCounted, Zenon DEF HandleUnregister, Leave, Counted
<1>15. CASE StopBegin
  BY <1>15, <1>k, NothingCounted, Zenon DEF StopBegin, Counted
<1>16. CASE StopSweeps
  BY <1>16, <1>k, NothingCounted, Zenon DEF StopSweeps, Counted
<1>17. CASE UNCHANGED vars
  BY <1>17, <1>1, Zenon DEF vars, svars
<1> QED
  BY <1>2, <1>3, <1>4, <1>5, <1>6, <1>7, <1>8, <1>9, <1>10, <1>11, <1>12, <1>13, <1>14, <1>15, <1>16, <1>17, Zenon
     DEF Next, Serve

(* Without the connections that were admitted while another was on its way     *)
(* into s.clients, the table never exceeds MaxClients, whatever leaves, is cut  *)
(* or is closed by Stop in between.                                              *)
THEOREM LimitHolds == Spec => []LimitExceededOnlyEarly
<1>1. LimitInv => LimitExceededOnlyEarly
  <2> SUFFICES ASSUME LimitInv, MaxClients > 0 PROVE Cardinality(clients \ early) <= MaxClients
    BY Zenon DEF LimitExceededOnlyEarly
  <2>1. clients \ early \subseteq Counted /\ Counted \subseteq Conns
    BY Zenon DEF Counted, LimitInv
  <2>2. Cardinality(clients \ early) <= Cardinality(Counted)
    BY <2>1, ConnsFinite, FS_Subset, Zenon
  <2>3. Cardinality(clients \ early) \in Nat /\ Cardinality(Counted) \in Nat
    BY <2>1, ConnsFinite, Zenon
  <2> QED
    BY <2>2, <2>3, ExplicitAssumption DEF LimitInv
<1> QED
  BY <1>1, LimitInit, LimitStep, PTL DEF Spec

-----------------------------------------------------------------------------
(* The transport under the client.                                           *)

(* The inductive invariant of the direct transport: a session is open exactly *)
(* while it is cached and announced.                                           *)
SlotInv == T!TypeOK /\ T!SessionTracked /\ (phase # "built" => ~active /\ ~closed)

(* The transport starts with no connection. *)
LEMMA SlotInvInit == T!Init => SlotInv
<1> SUFFICES ASSUME T!Init PROVE SlotInv
  BY Zenon
<1>1. active \in BOOLEAN /\ ~active /\ closed \in BOOLEAN /\ ~closed
  BY Zenon DEF T!Init
<1> QED
  BY <1>1 DEF T!Init, SlotInv, T!TypeOK, T!SessionTracked

(* Any order of Conn, Reset and Close keeps it. *)
LEMMA SlotInvStep == SlotInv /\ [T!Next]_tvars => SlotInv'
<1> SUFFICES ASSUME SlotInv, [T!Next]_tvars PROVE SlotInv'
  BY Zenon
<1> USE DEF SlotInv, T!TypeOK, T!SessionTracked
<1>1. CASE T!NewDirectTransport
  <2>1. CASE phase' = "built"
    <3>1. active' /\ active' \in BOOLEAN
      BY <1>1, <2>1, Zenon DEF T!NewDirectTransport
    <3> QED
      BY <1>1, <2>1, <3>1, Zenon DEF T!NewDirectTransport
  <2>2. CASE phase' = "failed"
    BY <1>1, <2>2 DEF T!NewDirectTransport
  <2> QED
    BY <1>1, <2>1, <2>2, Zenon DEF T!NewDirectTransport
<1>2. CASE T!Close
  <2>1. CASE active
    <3>1. ~active' /\ active' \in BOOLEAN /\ closed' \in BOOLEAN
      BY <1>2, <2>1, Zenon DEF T!Close, T!DropConn
    <3> QED
      BY <1>2, <2>1, <3>1 DEF T!Close, T!DropConn
  <2>2. CASE ~active
    BY <1>2, <2>2, Zenon DEF T!Close
  <2> QED
    BY <2>1, <2>2, Zenon
<1>3. ASSUME NEW t \in Thread, T!Conn(t) PROVE SlotInv'
  BY <1>3, Zenon DEF T!Conn
<1>4. ASSUME NEW t \in Thread, T!Reset(t) PROVE SlotInv'
  BY <1>4, Zenon DEF T!Reset, T!DropConn
<1>5. CASE UNCHANGED tvars
  BY <1>5, Zenon DEF tvars
<1> QED
  BY <1>1, <1>2, <1>3, <1>4, <1>5, Zenon DEF T!Next

(* Each method of the transport is a step of the slot, or none. *)
LEMMA SlotStep == SlotInv /\ [T!Next]_tvars => [T!Slot!SlotNext]_T!Slot!slot
<1> SUFFICES ASSUME SlotInv, T!Next PROVE T!Slot!SlotNext \/ UNCHANGED T!Slot!slot
  BY Zenon DEF tvars, T!Slot!slot
<1> USE DEF SlotInv, T!TypeOK, T!SessionTracked, T!Slot!slot, T!Slot!SlotNext
<1>1. CASE T!NewDirectTransport
  <2>1. CASE phase' = "built"
    BY <1>1, <2>1, Zenon DEF T!NewDirectTransport, T!Slot!OpenSession
  <2>2. CASE phase' = "failed"
    BY <1>1, <2>2, Zenon DEF T!NewDirectTransport
  <2> QED
    BY <1>1, <2>1, <2>2, Zenon DEF T!NewDirectTransport
<1>2. CASE T!Close
  BY <1>2, Zenon DEF T!Close, T!DropConn, T!Slot!ShutDown
<1>3. ASSUME NEW t \in Thread, T!Conn(t) PROVE UNCHANGED T!Slot!slot
  BY <1>3, Zenon DEF T!Conn
<1>4. ASSUME NEW t \in Thread, T!Reset(t) PROVE T!Slot!EndSession
  BY <1>4, Zenon DEF T!Reset, T!DropConn, T!Slot!EndSession
<1> QED
  BY <1>1, <1>2, <1>3, <1>4, Zenon DEF T!Next

(* For any number of goroutines the direct transport, by itself, refines the  *)
(* single-session slot.                                                        *)
THEOREM DirectRefinesSlot == T!Spec => T!ImplementsSlot
<1>1. T!Init => T!Slot!SlotInit
  BY Zenon DEF T!Init, T!Slot!SlotInit
<1>2. T!vars = tvars
  BY Zenon DEF T!vars, tvars
<1> QED
  BY <1>1, SlotInvInit, SlotInvStep, SlotStep, PTL DEF T!Spec, T!ImplementsSlot, T!Slot!SlotSpec, T!vars, tvars

(* The client, the session and the server drive the transport only through its *)
(* methods: a step of the system is one of them, or leaves it alone.            *)
LEMMA DrivesTransport == [Next]_vars => [T!Next]_tvars
<1> SUFFICES ASSUME [Next]_vars PROVE T!Next \/ UNCHANGED tvars
  BY Zenon
<1>1. CASE Connecting
  BY <1>1, Zenon DEF Connecting, Dial, RegisterSend, RegisterReceive, T!Next
<1>2. CASE AppCloses
  BY <1>2, Zenon DEF AppCloses, T!Next
<1>3. ASSUME NEW t \in Thread, ThreadStep(t) PROVE T!Next \/ UNCHANGED tvars
  BY <1>3, Zenon DEF ThreadStep, Call, GetConn, SendRRData, Receive, Reset, T!Next
<1>4. CASE \/ Cut \/ AcceptEnds \/ HandleFrame \/ HandleUnregister \/ StopBegin \/ StopSweeps
           \/ \E c \in Other : OtherDials(c) \/ OtherLeaves(c)
  BY <1>4, Zenon DEF Cut, AcceptEnds, HandleFrame, HandleUnregister, StopBegin, StopSweeps, OtherDials, OtherLeaves
<1>5. ASSUME NEW c \in Conns, Accept(c) \/ Serve(c) PROVE UNCHANGED tvars
  BY <1>5, Zenon DEF Accept, Serve, Register, Poll, ReadFails
<1>6. CASE UNCHANGED vars
  BY <1>6, Zenon DEF vars
<1> QED
  BY <1>1, <1>2, <1>3, <1>4, <1>5, <1>6, Zenon DEF Next

(* The shared client implements the single-session slot of its transport:      *)
(* whatever the goroutines' failures, Close and the server do, one session at   *)
(* most is open, it never comes back, and none opens after Close.               *)
THEOREM ExplicitRefinesSlot == Spec => ImplementsSlot
<1>1. Init => T!Init
  BY Zenon DEF Init
<1>2. T!Init => T!Slot!SlotInit
  BY Zenon DEF T!Init, T!Slot!SlotInit
<1> QED
  BY <1>1, <1>2, SlotInvInit, SlotInvStep, SlotStep, DrivesTransport, PTL
     DEF Spec, ImplementsSlot, T!ImplementsSlot, T!Slot!SlotSpec

-----------------------------------------------------------------------------
(* What a bit write and a tag list leave behind: frames, replies and calls.  *)
Frames == [cmd : {"Register", "RRData", "Unregister"}, session : Nat, for : Thread \cup {None},
           step : Nat, word : SUBSET Thread]

Replies == [for : Thread \cup {None}, session : Nat, status : {"ok", "invalidSession"}, word : SUBSET Thread]

Calls == [pc : {"idle", "conn", "send", "recv", "reset", "done", "error"}, task : {"bit", "tags"},
          try : Nat, step : Nat, word : SUBSET Thread, tags : SUBSET Nat, reply : Thread \cup {None}]

(* The frames in a queue, whatever their order. *)
Within(q) == {q[i] : i \in DOMAIN q}

Typed ==
    /\ th \in [Thread -> Calls]
    /\ handle \in Nat /\ sess \in Nat /\ handles \in Nat
    /\ toSrv \in Seq(Frames) /\ toCli \in Seq(Replies)
    /\ \A f \in Within(toSrv) : IF f.cmd = "RRData" THEN f.for \in Thread ELSE f.for = None
    /\ word \subseteq Thread /\ fresh \subseteq Thread /\ stale \subseteq Thread
    /\ \A t \in Thread : /\ th[t].task = "bit" => th[t].step \in {0, 1}
                         /\ th[t].pc = "idle" => th[t].step = 0

(* Queues as sets. *)
LEMMA WithinQueue ==
    ASSUME NEW S, NEW q \in Seq(S)
    PROVE  /\ Within(q) \subseteq S
           /\ \A x \in S : Append(q, x) \in Seq(S) /\ Within(Append(q, x)) = Within(q) \cup {x}
           /\ q # <<>> => Head(q) \in Within(q) /\ Tail(q) \in Seq(S) /\ Within(Tail(q)) \subseteq Within(q)
<1>1. Within(q) \subseteq S
  BY DEF Within
<1>2. ASSUME NEW x \in S PROVE Append(q, x) \in Seq(S) /\ Within(Append(q, x)) = Within(q) \cup {x}
  <2>1. Append(q, x) \in Seq(S) /\ Len(Append(q, x)) = Len(q) + 1 /\ Append(q, x)[Len(q) + 1] = x
    OBVIOUS
  <2>2. \A i \in 1..Len(q) : Append(q, x)[i] = q[i]
    OBVIOUS
  <2>3. DOMAIN q = 1..Len(q) /\ DOMAIN Append(q, x) = 1..(Len(q) + 1) /\ Len(q) \in Nat
    BY <2>1
  <2> DEFINE a == Append(q, x)
  <2> HIDE DEF a
  <2>4. ASSUME NEW y \in Within(a) PROVE y \in Within(q) \cup {x}
    <3>1. PICK i \in 1..(Len(q) + 1) : y = a[i]
      BY <2>3, Zenon DEF Within, a
    <3>2. CASE i = Len(q) + 1
      BY <3>1, <3>2, <2>1, Zenon DEF a
    <3>3. CASE i \in 1..Len(q)
      BY <3>1, <3>3, <2>2, <2>3, Zenon DEF a, Within
    <3> QED
      BY <3>2, <3>3, <2>3
  <2>5. x \in Within(a)
    BY <2>1, <2>3 DEF a, Within
  <2>6. ASSUME NEW y \in Within(q) PROVE y \in Within(a)
    <3>1. PICK i \in 1..Len(q) : y = q[i]
      BY <2>3, Zenon DEF Within
    <3>2. i \in 1..(Len(q) + 1) /\ a[i] = y
      BY <3>1, <2>2, <2>3 DEF a
    <3> QED
      BY <3>2, <2>3, Zenon DEF Within, a
  <2> QED
    BY <2>1, <2>4, <2>5, <2>6, Zenon DEF a
<1>3. ASSUME q # <<>> PROVE Head(q) \in Within(q) /\ Tail(q) \in Seq(S) /\ Within(Tail(q)) \subseteq Within(q)
  <2>1. Len(q) \in Nat \ {0} /\ DOMAIN q = 1..Len(q) /\ Head(q) = q[1]
    BY <1>3
  <2>2. Tail(q) \in Seq(S) /\ Len(Tail(q)) = Len(q) - 1 /\ \A i \in 1..(Len(q) - 1) : Tail(q)[i] = q[i + 1]
    BY <1>3
  <2>3. ASSUME NEW y \in Within(Tail(q)) PROVE y \in Within(q)
    <3>1. PICK i \in 1..(Len(q) - 1) : y = Tail(q)[i]
      BY <2>1, <2>2 DEF Within
    <3>2. i + 1 \in DOMAIN q /\ y = q[i + 1]
      BY <3>1, <2>1, <2>2
    <3> QED
      BY <3>2, Zenon DEF Within
  <2> QED
    BY <2>1, <2>2, <2>3 DEF Within
<1> QED
  BY <1>1, <1>2, <1>3, Zenon

(* Queues of no and of one frame. *)
LEMMA WithinEmpty == Within(<<>>) = {} /\ \A x : Within(<<x>>) = {x}
BY DEF Within

-----------------------------------------------------------------------------
Alive == mine /\ Up(Mine)

(* While both ends are open the server knows the session, so that no exchange *)
(* is refused.                                                                 *)
SessionInv ==
    /\ \A r \in Within(toCli) : r.status = "ok" /\ (boot = "await" => r.session = sess /\ sess # 0)
    /\ Alive /\ boot = "done" => handle = sess /\ sess # 0
    /\ Alive => \A f \in Within(toSrv) : /\ boot = "await" => f.cmd = "Register"
                                         /\ boot = "done" => f.cmd = "RRData" /\ f.session = handle

(* A request the server may still read is the one its goroutine is at. *)
Faithful(f) ==
    f.cmd = "RRData" =>
        LET p == th[f.for]
        IN  p.pc # "idle" /\ (p.task = "bit" => f.step = p.step /\ f.word = p.word)

Sent == Up(Mine) => \A f \in Within(toSrv) : Faithful(f)

(* A copy nobody overtook holds every bit of the word but the reader's own. *)
Copies ==
    \A u \in fresh :
        /\ th[u].pc # "idle"
        /\ th[u].task = "bit" =>
              /\ th[u].step = 1 => word \subseteq th[u].word \cup {u}
              /\ th[u].step = 0 => \A r \in Within(toCli) : r.for = u => word \subseteq r.word \cup {u}

(* BitsLostOnlyByOverlap from the moment the device has answered the write. *)
Landed ==
    \A t \in Thread :
        /\ th[t].task = "bit"
        /\ th[t].pc = "done" \/ (th[t].step = 1 /\ \E r \in Within(toCli) : r.for = t)
        => t \in word \/ stale \ {t} # {}

(* ListTags has collected the symbols before the one it is at. *)
Collected(p) ==
    p.task = "tags" =>
        /\ p.pc \in {"send", "recv"} => p.step \in 0..Tags /\ p.tags = 1..(p.step - 1)
        /\ p.pc = "done" => p.tags = 1..Tags

TagsInv == Alive => \A t \in Thread : Collected(th[t])

DataInv == Typed /\ SessionInv /\ Sent /\ Copies /\ Landed /\ TagsInv

(* No goroutine has a copy or a tag at first. *)
LEMMA DataInit == Init => DataInv
<1> SUFFICES ASSUME Init PROVE DataInv
  BY Zenon
<1>1. toSrv = <<>> /\ toCli = <<>> /\ Within(toSrv) = {} /\ Within(toCli) = {}
  BY WithinEmpty, Zenon DEF Init
<1>2. Start \in Calls
  BY Zenon DEF Start, Calls
<1>3. th = [t \in Thread |-> Start] /\ Start.pc = "idle" /\ Start.task = "bit" /\ Start.step = 0
  BY Zenon DEF Init, Start
<1>4. Typed
  BY <1>1, <1>2, <1>3 DEF Typed, Init
<1>5. SessionInv /\ Sent /\ Copies /\ Landed
  BY <1>1, <1>3, Zenon DEF SessionInv, Sent, Copies, Landed, Alive, Init
<1>6. TagsInv
  BY <1>3, Zenon DEF TagsInv, Collected
<1> QED
  BY <1>4, <1>5, <1>6, Zenon DEF DataInv

(* A goroutine's step that keeps its place in a bit write. *)
Steady(t, q) ==
    /\ q.pc # "idle"
    /\ th[t].pc # "idle" => q.task = th[t].task
    /\ q.task = "bit" => q.step = th[t].step /\ q.word = th[t].word /\ q.pc # "done"

(* What another attempt of a call changes in its record. *)
LEMMA AttemptEffect ==
    ASSUME Typed, NEW t \in Thread, NextTry(t), th[t].pc # "idle"
    PROVE \E q \in Calls : th' = [th EXCEPT ![t] = q] /\ Steady(t, q) /\ Collected(q)
<1>1. th[t] \in Calls
  BY Zenon DEF Typed
<1> DEFINE pc == IF th[t].try < Retries THEN "conn" ELSE "error"
           try == th[t].try + 1
           q == [th[t] EXCEPT !.try = try, !.pc = pc]
<1>2. th' = [th EXCEPT ![t] = q]
  BY Zenon DEF NextTry
<1>p. pc \in {"conn", "error"} /\ try \in Nat
  BY <1>1 DEF Calls
<1> HIDE DEF pc, try
<1>3. q \in Calls /\ q.pc \in {"conn", "error"} /\ q.task = th[t].task /\ q.step = th[t].step /\ q.word = th[t].word
  BY <1>1, <1>p, Zenon DEF Calls
<1> HIDE DEF q
<1>4. Steady(t, q) /\ Collected(q)
  BY <1>3, Zenon DEF Steady, Collected
<1> QED
  BY <1>2, <1>3, <1>4, Zenon

(* What a failed exchange changes in it. *)
LEMMA FailureEffect ==
    ASSUME Typed, NEW t \in Thread, ExchangeFails(t), th[t].pc # "idle"
    PROVE \E q \in Calls : th' = [th EXCEPT ![t] = q] /\ Steady(t, q)
<1>1. th[t] \in Calls
  BY Zenon DEF Typed
<1>2. CASE th[t].task = "tags" /\ th[t].step > 0
  <2> DEFINE pc == IF th[t].step < Tags THEN "send" ELSE "done"
             step == th[t].step + 1
             q == [th[t] EXCEPT !.step = step, !.pc = pc]
  <2>1. th' = [th EXCEPT ![t] = q]
    BY <1>2, Zenon DEF ExchangeFails
  <2>p. pc \in {"send", "done"} /\ step \in Nat
    BY <1>1 DEF Calls
  <2> HIDE DEF pc, step
  <2>2. q \in Calls /\ q.pc # "idle" /\ q.task = "tags"
    BY <1>1, <1>2, <2>p, Zenon DEF Calls
  <2> HIDE DEF q
  <2> QED
    BY <2>1, <2>2, <1>2, Zenon DEF Steady
<1>3. CASE ~(th[t].task = "tags" /\ th[t].step > 0)
  <2> DEFINE q == [th[t] EXCEPT !.pc = "reset"]
  <2>1. th' = [th EXCEPT ![t] = q]
    BY <1>3, Zenon DEF ExchangeFails, Goto
  <2>2. q \in Calls /\ q.pc = "reset" /\ q.task = th[t].task /\ q.step = th[t].step /\ q.word = th[t].word
    BY <1>1, Zenon DEF Calls
  <2> HIDE DEF q
  <2> QED
    BY <2>1, <2>2, Zenon DEF Steady
<1> QED
  BY <1>2, <1>3, Zenon

(* The goroutine after a reply: the tag is collected, or the bit write goes on. *)
LEMMA TagsEffect ==
    ASSUME Typed, NEW t \in Thread, NEW r \in Replies, th[t].task = "tags", th[t].pc = "recv"
    PROVE LET q == Proceed(t, r)
          IN  q \in Calls /\ Steady(t, q) /\ q.task = "tags" /\ (Collected(th[t]) => Collected(q))
<1>1. th[t] \in Calls /\ th[t].step \in Nat /\ Tags \in Nat
  BY ExplicitAssumption, Zenon DEF Typed, Calls
<1> DEFINE pc == IF th[t].step < Tags THEN "send" ELSE "done"
           step == th[t].step + 1
           tags == IF th[t].step = 0 THEN th[t].tags ELSE th[t].tags \cup {th[t].step}
           q == [th[t] EXCEPT !.reply = r.for, !.step = step, !.tags = tags, !.pc = pc]
<1>2. q = Proceed(t, r)
  BY Zenon DEF Proceed, ProceedTags
<1>3. pc \in {"send", "done"} /\ step \in Nat /\ r.for \in Thread \cup {None} /\ tags \in SUBSET Nat
  BY <1>1 DEF Calls, Replies
<1>4. ASSUME th[t].step \in 0..Tags, th[t].tags = 1..(th[t].step - 1) PROVE tags = 1..th[t].step
  <2> DEFINE n == th[t].step
             old == th[t].tags
  <2>1. n \in Nat /\ old = 1..(n - 1) /\ tags = IF n = 0 THEN old ELSE old \cup {n}
    BY <1>1, <1>4, Zenon
  <2> HIDE DEF n, old, tags
  <2>2. \A k : k \in tags <=> k \in 1..n
    BY <2>1
  <2> QED
    BY <2>2, Zenon DEF n
<1> HIDE DEF pc, step, tags
<1>5. /\ q \in Calls /\ q.pc = pc /\ q.task = "tags" /\ q.step = step /\ q.tags = tags
  BY <1>1, <1>3, Zenon DEF Calls
<1> HIDE DEF q
<1>6. Steady(t, q)
  BY <1>5, <1>3, Zenon DEF Steady
<1>7. ASSUME Collected(th[t]) PROVE Collected(q)
  <2>1. th[t].step \in 0..Tags /\ tags = 1..th[t].step
    BY <1>7, <1>4, Zenon DEF Collected
  <2>2. CASE th[t].step < Tags
    BY <2>1, <2>2, <1>1, <1>5 DEF Collected, pc, step
  <2>3. CASE ~(th[t].step < Tags)
    BY <2>1, <2>3, <1>1, <1>5 DEF Collected, pc
  <2> QED
    BY <2>2, <2>3, Zenon
<1> QED
  BY <1>2, <1>5, <1>6, <1>7, Zenon

(* What the reply to a bit exchange changes in it. *)
LEMMA BitEffect ==
    ASSUME Typed, NEW t \in Thread, NEW r \in Replies, th[t].task = "bit"
    PROVE LET q == Proceed(t, r)
          IN  /\ q \in Calls /\ q.task = "bit" /\ q.pc \in {"conn", "done"} /\ q.step = 1
              /\ th[t].step = 0 => q.word = r.word /\ q.pc = "conn"
              /\ th[t].step = 1 => q.word = th[t].word
<1>1. th[t] \in Calls /\ th[t].step \in {0, 1} /\ r.for \in Thread \cup {None} /\ r.word \in SUBSET Thread
  BY Zenon DEF Typed, Replies
<1>2. CASE th[t].step = 0
  <2> DEFINE q == [th[t] EXCEPT !.reply = r.for, !.step = 1, !.try = 0, !.word = r.word, !.pc = "conn"]
  <2>1. q = Proceed(t, r)
    BY <1>2, Zenon DEF Proceed, ProceedBit
  <2>2. q \in Calls /\ q.task = "bit" /\ q.pc = "conn" /\ q.step = 1 /\ q.word = r.word
    BY <1>1, Zenon DEF Calls
  <2> HIDE DEF q
  <2> QED
    BY <2>1, <2>2, <1>2
<1>3. CASE th[t].step = 1
  <2> DEFINE q == [th[t] EXCEPT !.reply = r.for, !.pc = "done"]
  <2>1. q = Proceed(t, r)
    BY <1>3 DEF Proceed, ProceedBit
  <2>2. q \in Calls /\ q.task = "bit" /\ q.pc = "done" /\ q.step = 1 /\ q.word = th[t].word
    BY <1>1, <1>3, Zenon DEF Calls
  <2> HIDE DEF q
  <2> QED
    BY <2>1, <2>2, <1>3
<1> QED
  BY <1>1, <1>2, <1>3, Zenon

(* Any step of a goroutine that keeps its place, whatever it takes off the wire *)
(* or puts there for itself.                                                     *)
LEMMA SteadyKeeps ==
    ASSUME DataInv, NEW t \in Thread, NEW q \in Calls, th' = [th EXCEPT ![t] = q], Steady(t, q),
           Alive /\ Alive' => Collected(q),
           UNCHANGED <<boot, handle, srv, sess, handles, word, fresh, stale>>, mine' => mine,
           boot = "done",
           toSrv' \in Seq(Frames), toCli' \in Seq(Replies), Within(toCli') \subseteq Within(toCli),
           \A f \in Within(toSrv') :
              \/ f \in Within(toSrv)
              \/ ~mine' /\ f.cmd = "Unregister" /\ f.for = None
              \/ /\ f.cmd = "RRData" /\ f.for = t /\ f.session = handle
                 /\ q.task = "bit" => f.step = q.step /\ f.word = q.word
    PROVE DataInv'
<1>k. Typed /\ SessionInv /\ Sent /\ Copies /\ Landed /\ TagsInv
  BY Zenon DEF DataInv
<1>1. th' \in [Thread -> Calls] /\ \A u \in Thread : th'[u] = IF u = t THEN q ELSE th[u]
  BY <1>k, Zenon DEF Typed
<1>2. q.task = "bit" => th[t].step \in {0, 1}
  BY <1>k, Zenon DEF Typed, Steady
<1>3. Typed'
  <2>1. \A f \in Within(toSrv') : IF f.cmd = "RRData" THEN f.for \in Thread ELSE f.for = None
    BY <1>k, Zenon DEF Typed
  <2>2. \A u \in Thread : /\ th'[u].task = "bit" => th'[u].step \in {0, 1}
                          /\ th'[u].pc = "idle" => th'[u].step = 0
    BY <1>1, <1>2, <1>k, Zenon DEF Typed, Steady
  <2> QED
    BY <1>1, <2>1, <2>2, <1>k, Zenon DEF Typed
<1>4. Alive' => Alive
  BY Zenon DEF Alive, Up
<1>5. SessionInv'
  <2>1. \A r \in Within(toCli') : r.status = "ok"
    BY <1>k, Zenon DEF SessionInv
  <2>2. ASSUME Alive', NEW f \in Within(toSrv') PROVE f.cmd = "RRData" /\ f.session = handle
    BY <2>2, <1>4, <1>k, Zenon DEF SessionInv, Alive
  <2> QED
    BY <2>1, <2>2, <1>4, <1>k, Zenon DEF SessionInv
<1>6. Sent'
  <2> SUFFICES ASSUME Up(Mine), NEW f \in Within(toSrv'), f.cmd = "RRData"
               PROVE th'[f.for].pc # "idle" /\ (th'[f.for].task = "bit" => f.step = th'[f.for].step /\ f.word = th'[f.for].word)
    BY Zenon DEF Sent, Faithful, Up
  <2>1. CASE f \in Within(toSrv)
    <3>1. Faithful(f) /\ f.for \in Thread
      BY <2>1, <1>k, Zenon DEF Sent, Typed
    <3> QED
      BY <3>1, <1>1, Zenon DEF Faithful, Steady
  <2>2. CASE f.for = t /\ (q.task = "bit" => f.step = q.step /\ f.word = q.word)
    BY <2>2, <1>1, Zenon DEF Steady
  <2> QED
    BY <2>1, <2>2, Zenon
<1>7. Copies'
  <2> SUFFICES ASSUME NEW u \in fresh
               PROVE /\ th'[u].pc # "idle"
                     /\ th'[u].task = "bit" =>
                           /\ th'[u].step = 1 => word \subseteq th'[u].word \cup {u}
                           /\ th'[u].step = 0 => \A r \in Within(toCli') : r.for = u => word \subseteq r.word \cup {u}
    BY Zenon DEF Copies
  <2>1. u \in Thread
    BY <1>k, Zenon DEF Typed
  <2>2. CASE u = t
    BY <2>1, <2>2, <1>1, <1>k, Zenon DEF Copies, Steady
  <2>3. CASE u # t
    BY <2>1, <2>3, <1>1, <1>k, Zenon DEF Copies
  <2> QED
    BY <2>2, <2>3, Zenon
<1>8. Landed'
  <2> SUFFICES ASSUME NEW u \in Thread, th'[u].task = "bit",
                      th'[u].pc = "done" \/ (th'[u].step = 1 /\ \E r \in Within(toCli') : r.for = u)
               PROVE u \in word \/ stale \ {u} # {}
    BY Zenon DEF Landed
  <2>1. CASE u = t
    <3>1. th[t].step = 1 /\ \E r \in Within(toCli) : r.for = t
      BY <2>1, <1>1, Zenon DEF Steady
    <3>2. th[t].pc # "idle"
      <4>1. th[t].pc = "idle" => th[t].step = 0
        BY <1>k, Zenon DEF Typed
      <4> QED
        BY <3>1, <4>1
    <3> QED
      BY <3>1, <3>2, <2>1, <1>1, <1>k, Zenon DEF Landed, Steady
  <2>2. CASE u # t
    BY <2>2, <1>1, <1>k, Zenon DEF Landed
  <2> QED
    BY <2>1, <2>2, Zenon
<1>9. TagsInv'
  BY <1>1, <1>4, <1>k, Zenon DEF TagsInv, Collected
<1> QED
  BY <1>3, <1>5, <1>6, <1>7, <1>8, <1>9, Zenon DEF DataInv

(* The client's end is closed, with a request that nobody answers. *)
LEMMA ClosingWire ==
    ASSUME DataInv, CloseSession
    PROVE /\ toSrv' \in Seq(Frames) /\ toCli' \in Seq(Replies) /\ Within(toCli') \subseteq Within(toCli)
          /\ mine' => mine
          /\ \A f \in Within(toSrv') : \/ f \in Within(toSrv)
                                       \/ ~mine' /\ f.cmd = "Unregister" /\ f.for = None
<1>k. toSrv \in Seq(Frames) /\ toCli \in Seq(Replies) /\ handle \in Nat
  BY Zenon DEF DataInv, Typed
<1>1. CASE active
  <2> DEFINE f == Frame("Unregister", None)
  <2>1. f \in Frames /\ f.cmd = "Unregister" /\ f.for = None
    BY <1>k, Zenon DEF Frame, Frames
  <2>2. mine' = FALSE /\ toCli' = <<>> /\ toSrv' = IF Up(Mine) THEN Append(toSrv, f) ELSE toSrv
    BY <1>1, Zenon DEF CloseSession, Write
  <2> HIDE DEF f
  <2>3. toSrv' \in Seq(Frames) /\ Within(toSrv') \subseteq Within(toSrv) \cup {f}
    BY <2>1, <2>2, <1>k, WithinQueue, Zenon
  <2>4. Within(toCli') = {} /\ toCli' \in Seq(Replies)
    BY <2>2, WithinEmpty
  <2> QED
    BY <2>1, <2>2, <2>3, <2>4, Zenon
<1>2. CASE ~active
  BY <1>2, <1>k, Zenon DEF CloseSession
<1> QED
  BY <1>1, <1>2, Zenon

(* The steps of a goroutine keep copies and tags. *)
LEMMA ThreadData ==
    ASSUME MatchInv, DataInv, NEW t \in Thread, ThreadStep(t) PROVE DataInv'
<1> USE NoneIsNobody
<1>k. /\ Typed /\ SessionInv /\ Shape /\ Holder /\ Order /\ Lone
      /\ toSrv \in Seq(Frames) /\ toCli \in Seq(Replies) /\ handle \in Nat
      /\ th[t] \in Calls /\ (Alive => Collected(th[t]))
  BY Zenon DEF MatchInv, DataInv, Typed, TagsInv
<1>1. CASE Call(t)
  <2>1. PICK k \in Tasks[t] : th' = [th EXCEPT ![t] = [th[t] EXCEPT !.pc = "conn", !.task = k]]
    BY <1>1, Zenon DEF Call
  <2>2. k \in {"bit", "tags"}
    BY <2>1, ExplicitAssumption, Zenon
  <2> DEFINE q == [th[t] EXCEPT !.pc = "conn", !.task = k]
  <2>3. q \in Calls /\ q.pc = "conn" /\ q.step = th[t].step /\ q.word = th[t].word
    BY <2>2, <1>k, Zenon DEF Calls
  <2>4. th[t].pc = "idle" /\ boot = "done"
    BY <1>1, <1>k, Zenon DEF Call, Order
  <2>5. UNCHANGED <<boot, handle, mine, srv, sess, handles, word, fresh, stale, toSrv, toCli>>
    BY <1>1, Zenon DEF Call, svars
  <2> HIDE DEF q
  <2>6. Steady(t, q) /\ Collected(q)
    BY <2>3, <2>4, Zenon DEF Steady, Collected
  <2> QED
    BY <2>1, <2>3, <2>4, <2>5, <2>6, <1>k, SteadyKeeps, Zenon DEF q
<1>2. CASE GetConn(t)
  <2>1. th[t].pc = "conn" /\ UNCHANGED <<boot, handle, mine, srv, sess, handles, word, fresh, stale, toSrv, toCli>>
    BY <1>2, Zenon DEF GetConn, svars
  <2>2. boot = "done"
    BY <2>1, <1>k, Zenon DEF Order
  <2>3. \E q \in Calls : th' = [th EXCEPT ![t] = q] /\ Steady(t, q) /\ Collected(q)
    <3>1. CASE NextTry(t)
      BY <3>1, <2>1, <1>k, AttemptEffect, Zenon
    <3>2. CASE ~NextTry(t)
      <4> DEFINE step == IF th[t].task = "bit" THEN th[t].step ELSE 0
                 q == [th[t] EXCEPT !.pc = "send", !.step = step, !.tags = {}]
      <4>1. th' = [th EXCEPT ![t] = q]
        BY <3>2, <1>2, Zenon DEF GetConn
      <4>2. step \in Nat
        BY <1>k, Zenon DEF Calls
      <4>3. q \in Calls /\ q.pc = "send" /\ q.step = step /\ q.word = th[t].word /\ q.task = th[t].task /\ q.tags = {}
        <5> HIDE DEF step
        <5> QED
          BY <4>2, <1>k, Zenon DEF Calls
      <4>4. {} = 1..(0 - 1) /\ 0 \in 0..Tags
        BY ExplicitAssumption
      <4> HIDE DEF q
      <4>5. Steady(t, q)
        BY <4>3, Zenon DEF Steady
      <4>6. Collected(q)
        BY <4>3, <4>4, Zenon DEF Collected
      <4> QED
        BY <4>1, <4>3, <4>5, <4>6, Zenon
    <3> QED
      BY <3>1, <3>2, Zenon
  <2> QED
    BY <2>1, <2>2, <2>3, <1>k, SteadyKeeps, Zenon
<1>3. CASE SendRRData(t)
  <2>1. th[t].pc = "send" /\ UNCHANGED <<boot, handle, mine, srv, sess, handles, word, fresh, stale, toCli>>
    BY <1>3, Zenon DEF SendRRData, svars
  <2>2. boot = "done"
    BY <2>1, <1>k, Zenon DEF Order
  <2>3. CASE (~mine \/ ~Up(Mine)) /\ ExchangeFails(t) /\ UNCHANGED toSrv
    <3>1. PICK q \in Calls : th' = [th EXCEPT ![t] = q] /\ Steady(t, q)
      BY <2>1, <2>3, <1>k, FailureEffect, Zenon
    <3>2. ~Alive
      BY <2>3, Zenon DEF Alive
    <3> QED
      BY <2>1, <2>2, <2>3, <3>1, <3>2, <1>k, SteadyKeeps, Zenon
  <2>4. CASE ~((~mine \/ ~Up(Mine)) /\ ExchangeFails(t) /\ UNCHANGED toSrv)
    <3> DEFINE f == [Frame("RRData", t) EXCEPT !.step = th[t].step, !.word = th[t].word]
               q == [th[t] EXCEPT !.pc = "recv"]
    <3>1. toSrv' = (IF Up(Mine) THEN Append(toSrv, f) ELSE toSrv) /\ th' = [th EXCEPT ![t] = q]
      BY <2>4, <1>3, Zenon DEF SendRRData, Write, Goto
    <3>2. /\ f \in Frames /\ f.cmd = "RRData" /\ f.for = t /\ f.session = handle
          /\ f.step = th[t].step /\ f.word = th[t].word
      BY <1>k, Zenon DEF Frame, Frames, Calls
    <3>3. /\ q \in Calls /\ q.pc = "recv" /\ q.step = th[t].step /\ q.word = th[t].word
          /\ q.task = th[t].task /\ q.tags = th[t].tags
      BY <1>k, Zenon DEF Calls
    <3> HIDE DEF f, q
    <3>4. toSrv' \in Seq(Frames) /\ Within(toSrv') \subseteq Within(toSrv) \cup {f}
      BY <3>1, <3>2, <1>k, WithinQueue, Zenon
    <3>5. Steady(t, q)
      BY <3>3, Zenon DEF Steady
    <3>6. Collected(th[t]) => Collected(q)
      BY <3>3, <2>1, Zenon DEF Collected
    <3> QED
      BY <2>1, <2>2, <3>1, <3>2, <3>3, <3>4, <3>5, <3>6, <1>k, SteadyKeeps, Zenon
  <2> QED
    BY <2>3, <2>4, Zenon
<1>4. CASE Receive(t)
  <2>1. th[t].pc = "recv" /\ UNCHANGED <<boot, handle, mine, srv, sess, handles, word, fresh, stale, toSrv>>
    BY <1>4, Zenon DEF Receive, svars
  <2>2. boot = "done" /\ ioMu = t
    BY <2>1, <1>k, Zenon DEF Order, Holder
  <2>3. CASE (~mine \/ (toCli = <<>> /\ ~Up(Mine))) /\ ExchangeFails(t) /\ UNCHANGED toCli
    <3>1. PICK q \in Calls : th' = [th EXCEPT ![t] = q] /\ Steady(t, q)
      BY <2>1, <2>3, <1>k, FailureEffect, Zenon
    <3>2. ~Alive
      BY <2>3, Zenon DEF Alive
    <3> QED
      BY <2>1, <2>2, <2>3, <3>1, <3>2, <1>k, SteadyKeeps, Zenon
  <2>4. CASE ~((~mine \/ (toCli = <<>> /\ ~Up(Mine))) /\ ExchangeFails(t) /\ UNCHANGED toCli)
    <3>1. mine /\ toCli # <<>> /\ toCli' = Tail(toCli)
      BY <2>4, <1>4, Zenon DEF Receive
    <3>2. PICK r : toCli = <<r>> /\ Awaited(r)
      BY <3>1, <1>k, Zenon DEF Lone
    <3>3. Head(toCli) = r /\ toCli' = <<>> /\ r.for = t /\ Within(toCli) = {r} /\ Within(toCli') = {}
      BY <3>1, <3>2, <2>2, SingleQueue, WithinEmpty, Zenon DEF Awaited
    <3>4. r \in Replies /\ r.status = "ok"
      BY <3>3, <1>k, WithinQueue, Zenon DEF SessionInv
    <3>5. th' = [th EXCEPT ![t] = Proceed(t, r)]
      BY <3>3, <3>4, <2>4, <1>4, Zenon DEF Receive
    <3> DEFINE q == Proceed(t, r)
    <3>6. CASE th[t].task = "tags"
      <4>1. q \in Calls /\ Steady(t, q) /\ (Collected(th[t]) => Collected(q))
        BY <3>4, <3>6, <2>1, <1>k, TagsEffect, Zenon
      <4>2. th' = [th EXCEPT ![t] = q] /\ toCli' \in Seq(Replies) /\ Within(toCli') \subseteq Within(toCli)
        BY <3>3, <3>5
      <4> HIDE DEF q
      <4> QED
        BY <4>1, <4>2, <2>1, <2>2, <1>k, SteadyKeeps, Zenon
    <3>7. CASE th[t].task = "bit"
      <4>1. /\ q \in Calls /\ q.task = "bit" /\ q.pc \in {"conn", "done"} /\ q.step = 1
            /\ th[t].step = 0 => q.word = r.word /\ q.pc = "conn"
            /\ th[t].step = 1 => q.word = th[t].word
        BY <3>4, <3>7, <1>k, BitEffect, Zenon
      <4>2. th' = [th EXCEPT ![t] = q] /\ th[t].step \in {0, 1}
        BY <3>5, <3>7, <1>k, Zenon DEF Typed
      <4> HIDE DEF q
      <4>3. th' \in [Thread -> Calls] /\ \A u \in Thread : th'[u] = IF u = t THEN q ELSE th[u]
        BY <4>1, <4>2, <1>k, Zenon DEF Typed
      <4>4. Typed'
        <5>1. \A u \in Thread : /\ th'[u].task = "bit" => th'[u].step \in {0, 1}
                                /\ th'[u].pc = "idle" => th'[u].step = 0
          BY <4>1, <4>3, <1>k, Zenon DEF Typed
        <5> QED
          BY <4>3, <5>1, <3>3, <2>1, <1>k DEF Typed
      <4>5. SessionInv'
        BY <3>3, <2>1, <2>2, <1>k, Zenon DEF SessionInv, Alive, Up
      <4>6. Up(Mine) => toSrv = <<>>
        BY <3>1, <1>k, Zenon DEF Lone
      <4>7. Sent'
        BY <4>6, <2>1, WithinEmpty, Zenon DEF Sent, Up
      <4>8. Copies'
        <5>1. ASSUME NEW u \in fresh PROVE th'[u].pc # "idle" /\ (th'[u].task = "bit" /\ th'[u].step = 1 => word \subseteq th'[u].word \cup {u})
          <6>1. u \in Thread
            BY <1>k, Zenon DEF Typed
          <6>2. CASE u = t
            <7>1. CASE th[t].step = 0
              BY <7>1, <6>2, <4>1, <4>3, <3>3, <3>7 DEF DataInv, Copies
            <7>2. CASE th[t].step = 1
              BY <7>2, <6>2, <4>1, <4>3, <3>7, Zenon DEF DataInv, Copies
            <7> QED
              BY <7>1, <7>2, <4>2, Zenon
          <6>3. CASE u # t
            BY <6>1, <6>3, <4>3, Zenon DEF DataInv, Copies
          <6> QED
            BY <6>2, <6>3, Zenon
        <5> QED
          BY <5>1, <3>3, <2>1, Zenon DEF Copies
      <4>9. Landed'
        <5> SUFFICES ASSUME NEW u \in Thread, th'[u].task = "bit", th'[u].pc = "done"
                     PROVE u \in word \/ stale \ {u} # {}
          BY <3>3, <2>1, Zenon DEF Landed
        <5>1. CASE u = t
          <6>1. th[t].step = 1
            BY <5>1, <4>1, <4>2, <4>3, Zenon
          <6> QED
            BY <6>1, <5>1, <3>3, <3>7, Zenon DEF DataInv, Landed
        <5>2. CASE u # t
          BY <5>2, <4>3, Zenon DEF DataInv, Landed
        <5> QED
          BY <5>1, <5>2, Zenon
      <4>10. TagsInv'
        <5>1. Alive' => Alive
          BY <2>1, Zenon DEF Alive, Up
        <5>2. Collected(q)
          BY <4>1, Zenon DEF Collected
        <5> QED
          BY <5>1, <5>2, <4>3, Zenon DEF DataInv, TagsInv, Collected
      <4> QED
        BY <4>4, <4>5, <4>7, <4>8, <4>9, <4>10, Zenon DEF DataInv
    <3> QED
      BY <3>6, <3>7, <1>k, Zenon DEF Calls
  <2> QED
    BY <2>3, <2>4, Zenon
<1>5. CASE Reset(t)
  <2>1. /\ th[t].pc = "reset" /\ NextTry(t)
        /\ UNCHANGED <<boot, handle, srv, sess, handles, word, fresh, stale>>
    BY <1>5, Zenon DEF Reset, svars
  <2>2. boot = "done"
    BY <2>1, <1>k, Zenon DEF Order
  <2>3. PICK q \in Calls : th' = [th EXCEPT ![t] = q] /\ Steady(t, q) /\ Collected(q)
    BY <2>1, <1>k, AttemptEffect, Zenon
  <2>4. CASE UNCHANGED <<tvars, toSrv, mine, peer, toCli>>
    BY <2>1, <2>2, <2>3, <2>4, <1>k, SteadyKeeps, Zenon
  <2>5. CASE CloseSession
    BY <2>1, <2>2, <2>3, <2>5, ClosingWire, SteadyKeeps, Zenon
  <2> QED
    BY <2>4, <2>5, <1>5, Zenon DEF Reset
<1> QED
  BY <1>1, <1>2, <1>3, <1>4, <1>5, Zenon DEF ThreadStep

(* A step that leaves the client, its calls and the device alone. *)
LEMMA QuietData ==
    ASSUME DataInv, UNCHANGED <<th, boot, mine, handle, toCli, sess, handles, word, fresh, stale>>,
           toSrv' = toSrv \/ toSrv' = <<>>, Up(Mine)' => Up(Mine)
    PROVE DataInv'
<1>k. Typed /\ SessionInv /\ Sent /\ Copies /\ Landed /\ TagsInv
  BY Zenon DEF DataInv
<1>1. toSrv' \in Seq(Frames) /\ Within(toSrv') \subseteq Within(toSrv) /\ (Alive' => Alive)
  <2>1. CASE toSrv' = toSrv
    BY <2>1, <1>k, Zenon DEF Typed, Alive
  <2>2. CASE toSrv' = <<>>
    <3>1. toSrv' \in Seq(Frames) /\ Within(toSrv') = {}
      BY <2>2, WithinEmpty
    <3> QED
      BY <3>1, Zenon DEF Alive
  <2> QED
    BY <2>1, <2>2, Zenon
<1>2. Typed'
  BY <1>1, <1>k, Zenon DEF Typed
<1>3. SessionInv'
  BY <1>1, <1>k, Zenon DEF SessionInv
<1>4. Sent'
  BY <1>1, <1>k, Zenon DEF Sent, Faithful
<1>5. Copies' /\ Landed'
  BY <1>k, Zenon DEF Copies, Landed
<1>6. TagsInv'
  BY <1>1, <1>k, Zenon DEF TagsInv, Collected
<1> QED
  BY <1>2, <1>3, <1>4, <1>5, <1>6, Zenon DEF DataInv

(* So does opening the session and registering it. *)
LEMMA ConnectData ==
    ASSUME MatchInv, DataInv, Connecting PROVE DataInv'
<1>k. /\ Typed /\ SessionInv /\ Sent /\ Copies /\ Landed /\ TagsInv /\ Order /\ Lone
      /\ toSrv \in Seq(Frames) /\ toCli \in Seq(Replies) /\ handle \in Nat
  BY Zenon DEF MatchInv, DataInv, Typed
<1>0. boot # "done" /\ UNCHANGED <<th, sess, handles, word, fresh, stale>>
  BY Zenon DEF Connecting, Dial, RegisterSend, RegisterReceive, svars
<1>1. \A t \in Thread : th[t].pc = "idle"
  BY <1>0, <1>k, Zenon DEF Order
<1>2. TagsInv'
  BY <1>0, <1>1, Zenon DEF TagsInv, Collected
<1>3. fresh = {}
  BY <1>1, <1>k, Zenon DEF Copies, Typed
<1>4. Copies'
  BY <1>3, <1>0, Zenon DEF Copies
<1>5. Landed'
  BY <1>0, <1>1, <1>k DEF Landed, Typed
<1>6. CASE Dial
  <2>1. toSrv = <<>> /\ toCli = <<>> /\ UNCHANGED <<toSrv, toCli, handle>> /\ boot' \in {"register", "failed"}
    BY <1>6, <1>k, Zenon DEF Dial, Order
  <2>2. Typed'
    BY <2>1, <1>0, <1>k, Zenon DEF Typed
  <2>3. SessionInv' /\ Sent'
    BY <2>1, WithinEmpty, Zenon DEF SessionInv, Sent
  <2> QED
    BY <2>2, <2>3, <1>2, <1>4, <1>5, Zenon DEF DataInv
<1>7. CASE RegisterSend
  <2> DEFINE f == Frame("Register", None)
  <2>1. /\ boot = "register" /\ boot' = "await" /\ UNCHANGED <<handle, toCli>>
        /\ toSrv' = (IF Up(Mine) THEN Append(toSrv, f) ELSE toSrv)
    BY <1>7, Zenon DEF RegisterSend, Write
  <2>2. f \in Frames /\ f.cmd = "Register" /\ f.for = None
    BY <1>k, Zenon DEF Frame, Frames
  <2> HIDE DEF f
  <2>3. toSrv = <<>> /\ toCli = <<>>
    BY <2>1, <1>k, Zenon DEF Order
  <2>4. toSrv' \in Seq(Frames) /\ Within(toSrv') \subseteq {f} /\ Within(toCli') = {}
    BY <2>1, <2>2, <2>3, SingleQueue, WithinEmpty
  <2>5. Typed'
    BY <2>1, <2>2, <2>4, <1>0, <1>k, Zenon DEF Typed
  <2>6. SessionInv'
    BY <2>1, <2>2, <2>4, Zenon DEF SessionInv
  <2>7. Sent'
    BY <2>2, <2>4, Zenon DEF Sent, Faithful
  <2> QED
    BY <2>5, <2>6, <2>7, <1>2, <1>4, <1>5, Zenon DEF DataInv
<1>8. CASE RegisterReceive
  <2>1. boot = "await" /\ UNCHANGED <<toSrv, srv>>
    BY <1>8, Zenon DEF RegisterReceive, svars
  <2>2. Sent'
    BY <2>1, <1>0, <1>k, Zenon DEF Sent, Faithful, Up
  <2>3. CASE toCli # <<>>
    <3>1. toCli' = Tail(toCli) /\ boot' = "done" /\ mine' = mine /\ handle' = Head(toCli).session
      BY <2>3, <1>8, Zenon DEF RegisterReceive
    <3>2. PICK r : toCli = <<r>>
      BY <2>3, <1>k DEF Lone
    <3>3. Head(toCli) = r /\ toCli' = <<>> /\ Within(toCli) = {r} /\ Within(toCli') = {}
      BY <3>1, <3>2, SingleQueue, WithinEmpty, Zenon
    <3>4. r \in Replies /\ r.session = sess /\ sess # 0
      BY <2>1, <3>3, <1>k, WithinQueue, Zenon DEF SessionInv
    <3>5. Alive => toSrv = <<>>
      BY <2>3, <1>k, Zenon DEF Lone, Alive
    <3>6. Typed'
      <4>1. handle' \in Nat /\ toCli' \in Seq(Replies)
        <5>1. handle' = sess /\ sess \in Nat
          BY <3>1, <3>3, <3>4, <1>k, Zenon DEF Typed
        <5>2. toCli' \in Seq(Replies)
          BY <3>3
        <5> QED
          BY <5>1, <5>2, Zenon
      <4> QED
        BY <4>1, <2>1, <1>0, <1>k, Zenon DEF Typed
    <3>7. SessionInv'
      <4>1. Alive' => Alive
        BY <3>1, <2>1, Zenon DEF Alive, Up
      <4>2. handle' = sess'
        BY <3>1, <3>3, <3>4, <1>0, Zenon
      <4>3. Alive' => Within(toSrv') = {}
        BY <4>1, <3>5, <2>1, WithinEmpty, Zenon
      <4> QED
        BY <4>2, <4>3, <3>1, <3>3, <3>4, <1>0, Zenon DEF SessionInv
    <3> QED
      BY <3>6, <3>7, <2>2, <1>2, <1>4, <1>5, Zenon DEF DataInv
  <2>4. CASE toCli = <<>>
    <3>1. toCli' = toCli /\ boot' = "failed" /\ mine' = FALSE /\ handle' = handle
      BY <2>4, <1>8, Zenon DEF RegisterReceive
    <3>2. Typed'
      BY <3>1, <2>1, <1>0, <1>k, Zenon DEF Typed
    <3>3. SessionInv'
      BY <2>4, <3>1, WithinEmpty, Zenon DEF SessionInv, Alive
    <3> QED
      BY <3>2, <3>3, <2>2, <1>2, <1>4, <1>5, Zenon DEF DataInv
  <2> QED
    BY <2>3, <2>4, Zenon
<1> QED
  BY <1>6, <1>7, <1>8, Zenon DEF Connecting

(* The server answers a request.  A write by a goroutine whose copy is fresh   *)
(* keeps every other bit; one by a goroutine whose copy is not is recorded.     *)
LEMMA AnswerData ==
    ASSUME MatchInv, DataInv, HandleFrame PROVE DataInv'
<1> USE NoneIsNobody
<1>k. /\ Typed /\ SessionInv /\ Sent /\ Copies /\ Landed /\ TagsInv /\ Order /\ Lone /\ Shape
      /\ toSrv \in Seq(Frames) /\ toCli \in Seq(Replies) /\ handle \in Nat
  BY Zenon DEF MatchInv, DataInv, Typed
<1> DEFINE f == Head(toSrv)
<1>1. /\ srv[Mine] = "reading" /\ toSrv # <<>> /\ f.cmd # "Unregister" /\ toSrv' = Tail(toSrv)
      /\ srv' = [srv EXCEPT ![Mine] = "polling"] /\ UNCHANGED <<th, boot, mine, handle>>
  BY Zenon DEF HandleFrame, cvars
<1>2. f \in Within(toSrv) /\ f \in Frames /\ toSrv' \in Seq(Frames) /\ Within(toSrv') \subseteq Within(toSrv)
  BY <1>1, <1>k, WithinQueue, Zenon
<1>3. Up(Mine) /\ (mine <=> Alive) /\ (Alive' => Alive)
  BY <1>1, Zenon DEF Up, Alive
<1>4. mine => toCli = <<>> /\ toSrv = <<f>> /\ toSrv' = <<>> /\ boot \in {"await", "done"}
  <2> SUFFICES ASSUME mine PROVE toCli = <<>> /\ toSrv = <<f>> /\ toSrv' = <<>> /\ boot \in {"await", "done"}
    BY Zenon
  <2>1. toCli = <<>> /\ \E g : toSrv = <<g>>
    BY <1>1, <1>3, <1>k, Zenon DEF Lone
  <2>2. boot \in {"await", "done"}
    BY <1>1, <1>k, Zenon DEF Shape, Order
  <2> QED
    BY <2>1, <2>2, <1>1, SingleQueue, Zenon
<1>5. f.cmd \in {"Register", "RRData"} /\ IF f.cmd = "RRData" THEN f.for \in Thread /\ Faithful(f) ELSE f.for = None
  BY <1>1, <1>2, <1>3, <1>k, Zenon DEF Frames, Typed, Sent
<1>6. /\ mine /\ boot = "await" => f.cmd = "Register"
      /\ mine /\ boot = "done" => f.cmd = "RRData" /\ f.session = sess /\ sess # 0
  <2> HIDE DEF f
  <2>1. ASSUME mine PROVE f \in Within(toSrv) /\ Alive /\ SessionInv
    BY <2>1, <1>2, <1>3, <1>k, Zenon
  <2>2. ASSUME mine, boot = "await" PROVE f.cmd = "Register"
    BY <2>1, <2>2, Zenon DEF SessionInv
  <2>3. ASSUME mine, boot = "done" PROVE f.cmd = "RRData" /\ f.session = sess /\ sess # 0
    BY <2>1, <2>3, Zenon DEF SessionInv
  <2> QED
    BY <2>2, <2>3, Zenon
<1> HIDE DEF f
<1>7. PICK r \in Replies :
         /\ r.for = f.for /\ r.status = (IF f.cmd = "RRData" /\ ~(f.session = sess /\ sess # 0) THEN "invalidSession" ELSE "ok")
         /\ toCli' = IF mine THEN Append(toCli, r) ELSE toCli
         /\ f.cmd = "Register" => r.session = sess'
         /\ f.cmd = "RRData" /\ r.status = "ok" => r.word = word
  <2>1. f.for \in Thread \cup {None} /\ f.session \in Nat /\ sess \in Nat /\ handles \in Nat /\ word \in SUBSET Thread
    BY <1>2, <1>k, Zenon DEF Frames, Typed
  <2>2. CASE f.cmd = "Register"
    <3> DEFINE r == [for |-> f.for, session |-> handles + 1, status |-> "ok", word |-> {}]
    <3>1. toCli' = (IF mine THEN Append(toCli, r) ELSE toCli) /\ sess' = handles + 1
      BY <2>2, Zenon DEF HandleFrame, Reply, f
    <3>2. r \in Replies /\ r.for = f.for /\ r.status = "ok" /\ r.session = handles + 1
      <4>1. handles + 1 \in Nat /\ {} \in SUBSET Thread
        BY <2>1
      <4> QED
        BY <2>1, <4>1, Zenon DEF Replies
    <3> HIDE DEF r
    <3> QED
      BY <3>1, <3>2, <2>2, Zenon
  <2>3. CASE f.cmd = "RRData" /\ f.session = sess /\ sess # 0
    <3> DEFINE r == [for |-> f.for, session |-> sess, status |-> "ok", word |-> word]
    <3>1. toCli' = IF mine THEN Append(toCli, r) ELSE toCli
      BY <2>3, Zenon DEF HandleFrame, Reply, f
    <3>2. r \in Replies /\ r.for = f.for /\ r.status = "ok" /\ r.word = word
      BY <2>1, Zenon DEF Replies
    <3> HIDE DEF r
    <3> QED
      BY <3>1, <3>2, <2>3, Zenon
  <2>4. CASE f.cmd = "RRData" /\ ~(f.session = sess /\ sess # 0)
    <3> DEFINE r == [for |-> f.for, session |-> f.session, status |-> "invalidSession", word |-> {}]
    <3>1. toCli' = IF mine THEN Append(toCli, r) ELSE toCli
      BY <2>4, Zenon DEF HandleFrame, Reply, f
    <3>2. r \in Replies /\ r.for = f.for /\ r.status = "invalidSession"
      BY <2>1, Zenon DEF Replies
    <3> HIDE DEF r
    <3> QED
      BY <3>1, <3>2, <2>4, Zenon
  <2> QED
    BY <2>2, <2>3, <2>4, <1>5, Zenon
<1>8. toCli' \in Seq(Replies) /\ Within(toCli') = IF mine THEN {r} ELSE {}
  <2>1. CASE mine
    <3>1. toCli' = <<r>>
      BY <2>1, <1>4, <1>7, SingleQueue, Zenon
    <3> QED
      BY <3>1, <2>1, WithinEmpty
  <2>2. CASE ~mine
    <3>1. toCli' = <<>>
      BY <2>2, <1>7, <1>k, Zenon DEF Order
    <3> QED
      BY <3>1, <2>2, WithinEmpty
  <2> QED
    BY <2>1, <2>2, Zenon
<1>9. sess' \in Nat /\ handles' \in Nat /\ (f.cmd = "Register" => sess' # 0) /\ (f.cmd # "Register" => sess' = sess)
  BY <1>k DEF HandleFrame, Typed, f
<1>10. SessionInv'
  <2>1. CASE mine
    <3>1. Within(toSrv') = {}
      BY <2>1, <1>4, WithinEmpty, Zenon
    <3> QED
      BY <3>1, <2>1, <1>1, <1>3, <1>4, <1>6, <1>7, <1>8, <1>9, <1>k, Zenon DEF SessionInv
  <2>2. CASE ~mine
    BY <2>2, <1>1, <1>8, Zenon DEF SessionInv, Alive
  <2> QED
    BY <2>1, <2>2, Zenon
<1>11. Sent'
  BY <1>1, <1>2, <1>3, <1>k, Zenon DEF Sent, Faithful
<1>12. TagsInv'
  BY <1>1, <1>3, <1>k, Zenon DEF TagsInv, Collected
<1>13. CASE f.cmd = "RRData" /\ f.session = sess /\ sess # 0
  <2> DEFINE t == f.for
  <2>1. t \in Thread /\ Faithful(f) /\ Device(f) /\ r.word = word /\ r.for = t /\ f.word \in SUBSET Thread
    BY <1>2, <1>5, <1>7, <1>13, Zenon DEF HandleFrame, Frames, f
  <2>2. th[t].pc # "idle" /\ (th[t].task = "bit" => f.step = th[t].step /\ f.word = th[t].word /\ th[t].step \in {0, 1})
    BY <2>1, <1>13, <1>k, Zenon DEF Faithful, Typed
  <2> HIDE DEF t
  <2>3. CASE th[t].task = "bit" /\ f.step = 1
    <3>1. word' = th[t].word \cup {t} /\ fresh' = fresh \cap {t} /\ stale' = stale \cup ({t} \ fresh) /\ th[t].step = 1
      BY <2>1, <2>2, <2>3, Zenon DEF Device, t
    <3>2. Typed'
      BY <3>1, <2>1, <2>2, <2>3, <1>1, <1>2, <1>8, <1>9, <1>k, Zenon DEF Typed
    <3>3. Copies'
      <4>1. ASSUME NEW u \in fresh'
            PROVE u = t /\ th'[u].pc # "idle" /\ th'[u].step # 0 /\ word' \subseteq th'[u].word \cup {u}
        BY <3>1, <2>2, <1>1
      <4> QED
        BY <4>1, Zenon DEF Copies
    <3>4. Landed'
      <4> SUFFICES ASSUME NEW u \in Thread, th[u].task = "bit",
                          th[u].pc = "done" \/ (th[u].step = 1 /\ \E x \in Within(toCli') : x.for = u)
                   PROVE u \in word' \/ stale' \ {u} # {}
        BY <1>1, Zenon DEF Landed
      <4>1. CASE u = t
        BY <4>1, <3>1, Zenon
      <4>2. CASE u # t /\ t \notin fresh
        BY <4>2, <3>1, Zenon
      <4>3. CASE u # t /\ t \in fresh
        <5>1. word \subseteq th[t].word \cup {t}
          BY <4>3, <3>1, <2>3, <1>k, Zenon DEF Copies
        <5>2. th[u].pc = "done"
          BY <4>3, <2>1, <1>8, Zenon
        <5>3. u \in word \/ stale \ {u} # {}
          BY <5>2, <1>k, Zenon DEF Landed
        <5> QED
          BY <5>1, <5>3, <4>3, <3>1, Zenon
      <4> QED
        BY <4>1, <4>2, <4>3, Zenon
    <3> QED
      BY <3>2, <3>3, <3>4, <1>10, <1>11, <1>12, Zenon DEF DataInv
  <2>4. CASE ~(th[t].task = "bit" /\ f.step = 1)
    <3>1. fresh' = fresh \cup {t} /\ UNCHANGED <<word, stale>> /\ (th[t].task = "bit" => th[t].step = 0)
      BY <2>1, <2>2, <2>4, Zenon DEF Device, t
    <3>2. Typed'
      BY <3>1, <2>1, <1>1, <1>2, <1>8, <1>9, <1>k, Zenon DEF Typed
    <3>3. Copies'
      <4> SUFFICES ASSUME NEW u \in fresh \cup {t}
                   PROVE /\ th[u].pc # "idle"
                         /\ th[u].task = "bit" =>
                               /\ th[u].step = 1 => word \subseteq th[u].word \cup {u}
                               /\ th[u].step = 0 => \A x \in Within(toCli') : x.for = u => word \subseteq x.word \cup {u}
        BY <3>1, <1>1, Zenon DEF Copies
      <4>1. CASE u = t
        <5>1. \A x \in Within(toCli') : word \subseteq x.word
          BY <2>1, <1>8, Zenon
        <5>2. th[u].pc # "idle" /\ (th[u].task = "bit" => th[u].step = 0)
          BY <4>1, <3>1, <2>2, Zenon
        <5> QED
          BY <5>1, <5>2
      <4>2. CASE u # t
        <5>1. u \in fresh /\ \A x \in Within(toCli') : x.for # u
          BY <4>2, <2>1, <1>8, Zenon
        <5>2. Copies
          BY <1>k, Zenon
        <5> QED
          BY <5>1, <5>2, Zenon DEF Copies
      <4> QED
        BY <4>1, <4>2, Zenon
    <3>4. Landed'
      <4> SUFFICES ASSUME NEW u \in Thread, th[u].task = "bit",
                          th[u].pc = "done" \/ (th[u].step = 1 /\ \E x \in Within(toCli') : x.for = u)
                   PROVE  u \in word \/ stale \ {u} # {}
        BY <3>1, <1>1, Zenon DEF Landed
      <4>1. th[u].step = 1 => u # t
        BY <3>1
      <4>2. th[u].pc = "done" \/ (th[u].step = 1 /\ \E x \in Within(toCli) : x.for = u)
        BY <4>1, <2>1, <1>8, Zenon
      <4> QED
        BY <4>2, <1>k, Zenon DEF Landed
    <3> QED
      BY <3>2, <3>3, <3>4, <1>10, <1>11, <1>12, Zenon DEF DataInv
  <2> QED
    BY <2>3, <2>4, Zenon
<1>14. CASE ~(f.cmd = "RRData" /\ f.session = sess /\ sess # 0)
  <2>1. UNCHANGED <<word, fresh, stale>>
    BY <1>14, <1>5, Zenon DEF HandleFrame, f
  <2>2. Within(toCli') = {} \/ (Within(toCli') = {r} /\ r.for = None)
    BY <1>4, <1>5, <1>6, <1>7, <1>8, <1>14, Zenon
  <2>3. Typed'
    BY <2>1, <1>1, <1>2, <1>8, <1>9, <1>k, Zenon DEF Typed
  <2>4. Copies'
    <3>1. \A u \in fresh : \A x \in Within(toCli') : x.for # u
      BY <2>2, <1>k, Zenon DEF Typed
    <3>2. Copies
      BY <1>k, Zenon
    <3> QED
      BY <3>1, <3>2, <2>1, <1>1, Zenon DEF Copies
  <2>5. Landed'
    BY <2>1, <2>2, <1>1, <1>k DEF Landed
  <2> QED
    BY <2>3, <2>4, <2>5, <1>10, <1>11, <1>12, Zenon DEF DataInv
<1> QED
  BY <1>13, <1>14, Zenon

(* Every step keeps copies and tags. *)
LEMMA DataStep == MatchInv /\ DataInv /\ [Next]_vars => DataInv'
<1> SUFFICES ASSUME MatchInv, DataInv, [Next]_vars PROVE DataInv'
  BY Zenon
<1> USE NoneIsNobody
<1>k. Shape /\ Order
  BY Zenon DEF MatchInv
<1>1. CASE Connecting
  BY <1>1, ConnectData, Zenon
<1>2. CASE AppCloses
  <2>1. /\ CloseSession /\ phase = "built"
        /\ UNCHANGED <<boot, handle, th, srv, sess, handles, word, fresh, stale>>
    BY <1>2, Zenon DEF AppCloses, T!Close, svars
  <2>2. /\ toSrv' \in Seq(Frames) /\ toCli' \in Seq(Replies) /\ Within(toCli') \subseteq Within(toCli)
        /\ mine' => mine
        /\ \A f \in Within(toSrv') : \/ f \in Within(toSrv)
                                     \/ ~mine' /\ f.cmd = "Unregister" /\ f.for = None
    BY <2>1, ClosingWire, Zenon
  <2>3. Typed' /\ Copies' /\ Landed'
    BY <2>1, <2>2, Zenon DEF DataInv, Typed, Copies, Landed
  <2>4. Alive' => Alive
    BY <2>1, <2>2, Zenon DEF Alive, Up
  <2>5. SessionInv'
    BY <2>1, <2>2, <2>4, Zenon DEF DataInv, SessionInv, Alive
  <2>6. Sent'
    BY <2>1, <2>2, Zenon DEF DataInv, Sent, Faithful, Up
  <2>7. TagsInv'
    BY <2>1, <2>4, Zenon DEF DataInv, TagsInv, Collected
  <2> QED
    BY <2>3, <2>5, <2>6, <2>7, Zenon DEF DataInv
<1>3. CASE Cut
  BY <1>3, <1>k, QuietData, Zenon DEF Cut, cvars, Up, Shape
<1>4. ASSUME NEW t \in Thread, ThreadStep(t) PROVE DataInv'
  BY <1>4, ThreadData, Zenon
<1>5. ASSUME NEW c \in Other, OtherDials(c) PROVE DataInv'
  BY <1>5, <1>k, QuietData, ExplicitAssumption, Zenon DEF OtherDials, cvars, Up, Shape, Conns
<1>6. ASSUME NEW c \in Other, OtherLeaves(c) PROVE DataInv'
  BY <1>6, <1>k, QuietData, Zenon DEF OtherLeaves, cvars, svars, Up, Shape
<1>7. ASSUME NEW c \in Conns, Accept(c) PROVE DataInv'
  BY <1>7, <1>k, QuietData, Zenon DEF Accept, cvars, Up, Shape
<1>8. ASSUME NEW c \in Conns, Register(c) PROVE DataInv'
  BY <1>8, <1>k, QuietData, Zenon DEF Register, cvars, Up, Shape
<1>9. ASSUME NEW c \in Conns, Poll(c) PROVE DataInv'
  BY <1>9, <1>k, QuietData, Zenon DEF Poll, Leave, cvars, Up, Shape
<1>10. ASSUME NEW c \in Conns, ReadFails(c) PROVE DataInv'
  BY <1>10, <1>k, QuietData, Zenon DEF ReadFails, Leave, cvars, Up, Shape
<1>11. CASE AcceptEnds
  BY <1>11, <1>k, QuietData, Zenon DEF AcceptEnds, cvars, Up, Shape
<1>12. CASE HandleFrame
  BY <1>12, AnswerData, Zenon
<1>13. CASE HandleUnregister
  BY <1>13, <1>k, QuietData, Zenon DEF HandleUnregister, Leave, cvars, Up, Shape
<1>14. CASE StopBegin
  BY <1>14, <1>k, QuietData, Zenon DEF StopBegin, cvars, Up, Shape
<1>15. CASE StopSweeps
  BY <1>15, <1>k, QuietData, Zenon DEF StopSweeps, cvars, Up, Shape
<1>16. CASE UNCHANGED vars
  BY <1>16, <1>k, QuietData, Zenon DEF vars, cvars, svars, Up, Shape
<1> QED
  BY <1>1, <1>2, <1>3, <1>4, <1>5, <1>6, <1>7, <1>8, <1>9, <1>10, <1>11, <1>12, <1>13, <1>14, <1>15, <1>16, Zenon
     DEF Next, Serve

(* The two exchanges of a PCCC bit write (pccc/client.go) lose a bit only when *)
(* another goroutine wrote back a word it had read before: a write whose copy   *)
(* is still the device's word keeps every bit that succeeded.                    *)
THEOREM BitsSurvive == Spec => []BitsLostOnlyByOverlap
<1>1. DataInv => BitsLostOnlyByOverlap
  BY Zenon DEF DataInv, Landed, BitsLostOnlyByOverlap
<1> QED
  BY <1>1, MatchInit, MatchStep, DataInit, DataStep, PTL DEF Spec

(* ListTags goes on past a symbol whose request failed, and what it returns is *)
(* still every tag of the device when its session has lasted: while both ends   *)
(* are open no exchange fails.                                                   *)
THEOREM TagsComplete == Spec => []TagsCompleteIfSessionLasted
<1>1. DataInv => TagsCompleteIfSessionLasted
  BY Zenon DEF DataInv, TagsInv, Collected, Alive, TagsCompleteIfSessionLasted
<1> QED
  BY <1>1, MatchInit, MatchStep, DataInit, DataStep, PTL DEF Spec
=============================================================================
