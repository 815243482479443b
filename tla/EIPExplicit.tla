----------------------------- MODULE EIPExplicit -----------------------------
(***************************************************************************)
(* Explicit messaging of EtherNet/IP: goroutines share one Client            *)
(* (ethernetip/client.go) over transport.DirectTransport, whose connection   *)
(* is a Session (session.go) on a TCP connection to a Server (server.go).    *)
(* Other clients only connect and disconnect.  The transport's state and     *)
(* methods are those of DirectTransport.                                     *)
(*                                                                           *)
(* A goroutine runs one operation: "bit", a PCCC bit write, which reads a    *)
(* word and writes it back with its own bit set (pccc/client.go), or "tags", *)
(* ListTags.  The device behind the router answers every request.  A write   *)
(* on a TCP connection the other end has closed may fail or go nowhere.      *)
(***************************************************************************)
EXTENDS Integers, Sequences, FiniteSets

CONSTANTS
    Thread,         \* goroutines using the client
    Tasks,          \* Tasks[t]: what goroutine t may do, of "bit" and "tags"
    Mine,           \* the client's connection
    Other,          \* connections of other clients
    MaxClients,     \* WithMaxClients
    Retries,        \* WithRetries
    Tags            \* number of symbol instances of the device

ASSUME ExplicitAssumption ==
    /\ Tasks \in [Thread -> SUBSET {"bit", "tags"}]
    /\ Mine \notin Other /\ IsFiniteSet(Other) /\ "none" \notin Thread
    /\ MaxClients \in Nat /\ Retries \in Nat /\ Tags \in Nat

Conns == Other \cup {Mine}
None == "none"

VARIABLES
    phase, conn, active, closed, live, told, got,   \* DirectTransport
    boot,           \* Connect: "dial", "register", "await", "done", "failed"
    handle,         \* s.handle of the session, 0 before Register
    mine,           \* the client's end of its connection is open
    ioMu,           \* holder of the session's ioMu, or None
    th,             \* the goroutines
    toSrv, toCli,   \* frames on the client's connection
    peer,           \* client ends that are open
    srv,            \* server's view of a connection
    sess,           \* sessionHandle of HandleConn for the client's connection
    handles,        \* session handles given out
    loop,           \* accept loop: the connection it is deciding on, or a state
    clients,        \* s.clients
    stop,           \* Stop: "no", "begun" (done and listener closed), "swept"
    word,           \* bits set in the device's word
    fresh,          \* goroutines whose copy of the word nobody overtook (history)
    stale,          \* goroutines that wrote back an overtaken copy (history)
    early           \* connections admitted while another was unregistered (history)

tvars == <<phase, conn, active, closed, live, told, got>>
cvars == <<boot, handle, mine, ioMu, th>>
svars == <<srv, sess, handles, loop, clients, stop, word, fresh, stale, early>>
vars == <<tvars, cvars, toSrv, toCli, peer, svars>>

T == INSTANCE DirectTransport WITH Caller <- Thread

Start == [pc |-> "idle", task |-> "bit", try |-> 0, step |-> 0, word |-> {}, tags |-> {}, reply |-> None]

Init ==
    /\ T!Init
    /\ boot = "dial" /\ handle = 0 /\ mine = FALSE /\ ioMu = None
    /\ th = [t \in Thread |-> Start]
    /\ toSrv = <<>> /\ toCli = <<>> /\ peer = {}
    /\ srv = [c \in Conns |-> "none"]
    /\ sess = 0 /\ handles = 0 /\ loop = "accept" /\ clients = {} /\ stop = "no"
    /\ word = {} /\ fresh = {} /\ stale = {} /\ early = {}

(* The server's end is open: waiting for Accept, for its goroutine, at the top *)
(* of HandleConn's loop, or in its read.                                        *)
Up(c) == srv[c] \in {"backlog", "admitted", "polling", "reading"}

-----------------------------------------------------------------------------
(* Connect: dial, RegisterSession, then the transport's constructor.         *)

Dial ==
    /\ boot = "dial"
    /\ \/ /\ stop = "no"
          /\ boot' = "register" /\ mine' = TRUE
          /\ srv' = [srv EXCEPT ![Mine] = "backlog"] /\ peer' = peer \cup {Mine}
          /\ UNCHANGED tvars
       \/ /\ boot' = "failed" /\ T!NewDirectTransport /\ phase' = "failed"
          /\ UNCHANGED <<mine, srv, peer>>
    /\ UNCHANGED <<handle, ioMu, th, toSrv, toCli, sess, handles, loop, clients, stop,
                   word, fresh, stale, early>>

Frame(cmd, t) == [cmd |-> cmd, session |-> handle, for |-> t, step |-> 0, word |-> {}]

(* A frame leaves, reaches the server's buffer if its end is open, or fails. *)
Write(f) == toSrv' = IF Up(Mine) THEN Append(toSrv, f) ELSE toSrv

RegisterSend ==
    /\ boot = "register"
    /\ Write(Frame("Register", None))
    /\ boot' = "await"
    /\ UNCHANGED <<tvars, handle, mine, ioMu, th, toCli, peer, svars>>

(* Register succeeds and the transport is built, or the connection is closed. *)
RegisterReceive ==
    /\ boot = "await"
    /\ \/ /\ toCli # <<>>
          /\ handle' = Head(toCli).session /\ toCli' = Tail(toCli)
          /\ boot' = "done" /\ T!NewDirectTransport /\ phase' = "built"
          /\ UNCHANGED <<mine, peer>>
       \/ /\ toCli = <<>> /\ ~Up(Mine)
          /\ boot' = "failed" /\ mine' = FALSE /\ peer' = peer \ {Mine}
          /\ T!NewDirectTransport /\ phase' = "failed"
          /\ UNCHANGED <<handle, toCli>>
    /\ UNCHANGED <<ioMu, th, toSrv, svars>>

(* SessionCloser.Close: UnRegisterSession, which nobody answers, then Close. *)
CloseSession ==
    IF active
    THEN /\ Write(Frame("Unregister", None))
         /\ mine' = FALSE /\ peer' = peer \ {Mine} /\ toCli' = <<>>
    ELSE UNCHANGED <<toSrv, mine, peer, toCli>>

AppCloses ==
    /\ T!Close
    /\ CloseSession
    /\ UNCHANGED <<boot, handle, ioMu, th, svars>>

-----------------------------------------------------------------------------
(* Client.do and the operations.                                             *)

Goto(t, pc) == th' = [th EXCEPT ![t].pc = pc]

Call(t) ==
    /\ th[t].pc = "idle" /\ phase = "built"
    /\ \E k \in Tasks[t] : th' = [th EXCEPT ![t].pc = "conn", ![t].task = k]
    /\ UNCHANGED <<tvars, boot, handle, mine, ioMu, toSrv, toCli, peer, svars>>

(* The attempt failed: the next one, or the error. *)
NextTry(t) ==
    th' = [th EXCEPT ![t].try = @ + 1, ![t].pc = IF th[t].try < Retries THEN "conn" ELSE "error"]

(* transport.Conn *)
GetConn(t) ==
    /\ th[t].pc = "conn"
    /\ T!Conn(t)
    /\ IF got'[t] = 0
       THEN NextTry(t)
       ELSE th' = [th EXCEPT ![t].pc = "send", ![t].step = IF th[t].task = "bit" THEN @ ELSE 0,
                             ![t].tags = {}]
    /\ UNCHANGED <<boot, handle, mine, ioMu, toSrv, toCli, peer, svars>>

(* What follows an exchange that failed: ListTags goes on with the next symbol, *)
(* everything else is a transport error.                                         *)
ExchangeFails(t) ==
    IF th[t].task = "tags" /\ th[t].step > 0
    THEN th' = [th EXCEPT ![t].step = @ + 1, ![t].pc = IF th[t].step < Tags THEN "send" ELSE "done"]
    ELSE Goto(t, "reset")

(* Mutant of SendRRData: ioMu does not cover the exchange. *)
SendRRDataUnlocked(t) ==
    /\ th[t].pc = "send"
    /\ \/ /\ mine
          /\ Write([Frame("RRData", t) EXCEPT !.step = th[t].step, !.word = th[t].word])
          /\ Goto(t, "recv")
       \/ (~mine \/ ~Up(Mine)) /\ ExchangeFails(t) /\ UNCHANGED toSrv
    /\ UNCHANGED <<tvars, boot, handle, mine, ioMu, toCli, peer, svars>>

(* SendRRData up to the wait: under ioMu the frame is sent. *)
SendRRData(t) ==
    /\ th[t].pc = "send" /\ ioMu = None
    /\ \/ /\ mine
          /\ Write([Frame("RRData", t) EXCEPT !.step = th[t].step, !.word = th[t].word])
          /\ Goto(t, "recv") /\ ioMu' = t
       \/ (~mine \/ ~Up(Mine)) /\ ExchangeFails(t) /\ UNCHANGED <<toSrv, ioMu>>
    /\ UNCHANGED <<tvars, boot, handle, mine, toCli, peer, svars>>

(* Mutant of ProceedBit: the word that was read is not kept. *)
ProceedBitForgets(t, r) ==
    IF th[t].step = 0
    THEN [th[t] EXCEPT !.reply = r.for, !.step = 1, !.try = 0, !.pc = "conn"]
    ELSE [th[t] EXCEPT !.reply = r.for, !.pc = "done"]

(* Mutant of ProceedTags: the enumeration ends one symbol early. *)
ProceedTagsStopsShort(t, r) ==
    [th[t] EXCEPT !.reply = r.for, !.step = @ + 1,
                  !.tags = IF th[t].step = 0 THEN @ ELSE @ \cup {th[t].step},
                  !.pc = IF th[t].step + 1 < Tags THEN "send" ELSE "done"]

(* The reply r of an exchange: the next request of the operation, or its end. *)
(* The two halves of a bit write are calls of do of their own.                 *)
ProceedBit(t, r) ==
    IF th[t].step = 0
    THEN [th[t] EXCEPT !.reply = r.for, !.step = 1, !.try = 0, !.word = r.word, !.pc = "conn"]
    ELSE [th[t] EXCEPT !.reply = r.for, !.pc = "done"]

ProceedTags(t, r) ==
    [th[t] EXCEPT !.reply = r.for, !.step = @ + 1,
                  !.tags = IF th[t].step = 0 THEN @ ELSE @ \cup {th[t].step},
                  !.pc = IF th[t].step < Tags THEN "send" ELSE "done"]

Proceed(t, r) == IF th[t].task = "bit" THEN ProceedBit(t, r) ELSE ProceedTags(t, r)

Receive(t) ==
    /\ th[t].pc = "recv"
    /\ \/ /\ mine /\ toCli # <<>>
          /\ IF Head(toCli).status = "ok"
             THEN th' = [th EXCEPT ![t] = Proceed(t, Head(toCli))]
             ELSE ExchangeFails(t)
          /\ toCli' = Tail(toCli)
       \/ /\ ~mine \/ (toCli = <<>> /\ ~Up(Mine))
          /\ ExchangeFails(t) /\ UNCHANGED toCli
    /\ ioMu' = None
    /\ UNCHANGED <<tvars, boot, handle, mine, toSrv, peer, svars>>

(* transport.Reset of the session that failed; a session dropped meanwhile is *)
(* left alone.                                                                 *)
Reset(t) ==
    /\ th[t].pc = "reset"
    /\ IF active /\ conn = got[t]
       THEN T!Reset(t) /\ CloseSession
       ELSE UNCHANGED <<tvars, toSrv, mine, peer, toCli>>
    /\ NextTry(t)
    /\ UNCHANGED <<boot, handle, ioMu, svars>>

-----------------------------------------------------------------------------
(* The server.                                                               *)

OtherDials(c) ==
    /\ srv[c] = "none" /\ stop = "no"
    /\ srv' = [srv EXCEPT ![c] = "backlog"] /\ peer' = peer \cup {c}
    /\ UNCHANGED <<tvars, cvars, toSrv, toCli, sess, handles, loop, clients, stop, word, fresh, stale, early>>

OtherLeaves(c) ==
    /\ c \in peer
    /\ peer' = peer \ {c}
    /\ UNCHANGED <<tvars, cvars, toSrv, toCli, svars>>

(* The network drops the client's connection. *)
Cut ==
    /\ mine /\ srv[Mine] \in {"backlog", "polling", "reading"}
    /\ srv' = [srv EXCEPT ![Mine] = IF @ = "backlog" THEN "gone" ELSE "closed"]
    /\ toSrv' = <<>>
    /\ UNCHANGED <<tvars, cvars, toCli, peer, sess, handles, loop, clients, stop, word, fresh, stale, early>>

(* Mutant of Full: one client too many. *)
FullOffByOne == MaxClients > 0 /\ Cardinality(clients) > MaxClients

Full == MaxClients > 0 /\ Cardinality(clients) >= MaxClients

(* The accept loop: Accept, the limit, go HandleConn. *)
Accept(c) ==
    /\ loop = "accept" /\ stop = "no" /\ srv[c] = "backlog"
    /\ IF Full
       THEN srv' = [srv EXCEPT ![c] = "gone"] /\ UNCHANGED early
       ELSE /\ srv' = [srv EXCEPT ![c] = "admitted"]
            /\ early' = IF \E d \in Conns : srv[d] = "admitted" THEN early \cup {c} ELSE early
    /\ UNCHANGED <<tvars, cvars, toSrv, toCli, peer, sess, handles, loop, clients, stop, word, fresh, stale>>

AcceptEnds ==
    /\ loop = "accept" /\ stop # "no"
    /\ loop' = "exit"
    /\ UNCHANGED <<tvars, cvars, toSrv, toCli, peer, srv, sess, handles, clients, stop, word, fresh, stale, early>>

(* HandleConn enters the connection in s.clients. *)
Register(c) ==
    /\ srv[c] = "admitted"
    /\ srv' = [srv EXCEPT ![c] = "polling"]
    /\ clients' = clients \cup {c}
    /\ UNCHANGED <<tvars, cvars, toSrv, toCli, peer, sess, handles, loop, stop, word, fresh, stale, early>>

(* HandleConn returns: the deferred calls remove the entry and close. *)
Leave(c) ==
    /\ srv' = [srv EXCEPT ![c] = "gone"]
    /\ clients' = clients \ {c}
    /\ toSrv' = IF c = Mine THEN <<>> ELSE toSrv

(* Mutant of Poll: done is not looked at. *)
PollSkipped(c) ==
    /\ srv[c] = "polling"
    /\ srv' = [srv EXCEPT ![c] = "reading"] /\ UNCHANGED <<clients, toSrv>>
    /\ UNCHANGED <<tvars, cvars, toCli, peer, sess, handles, loop, stop, word, fresh, stale, early>>

(* The top of HandleConn's loop. *)
Poll(c) ==
    /\ srv[c] = "polling"
    /\ IF stop = "no"
       THEN srv' = [srv EXCEPT ![c] = "reading"] /\ UNCHANGED <<clients, toSrv>>
       ELSE Leave(c)
    /\ UNCHANGED <<tvars, cvars, toCli, peer, sess, handles, loop, stop, word, fresh, stale, early>>

(* The read fails: Stop closed the connection, or the client is gone. *)
ReadFails(c) ==
    /\ \/ srv[c] = "closed"
       \/ srv[c] = "reading" /\ c \notin peer /\ (c = Mine => toSrv = <<>>)
    /\ Leave(c)
    /\ UNCHANGED <<tvars, cvars, toCli, peer, sess, handles, loop, stop, word, fresh, stale, early>>

Reply(f, session, status, w) ==
    toCli' = IF mine THEN Append(toCli, [for |-> f.for, session |-> session, status |-> status,
                                         word |-> w])
             ELSE toCli

(* The device's word: a bit write reads it first and writes it back later. *)
Device(f) ==
    IF th[f.for].task = "bit" /\ f.step = 1
    THEN /\ word' = f.word \cup {f.for}
         /\ fresh' = fresh \cap {f.for}
         /\ stale' = stale \cup ({f.for} \ fresh)
    ELSE fresh' = fresh \cup {f.for} /\ UNCHANGED <<word, stale>>

(* One frame: RegisterSession makes a handle, SendRRData needs it, and goes to *)
(* the router and the device.                                                   *)
HandleFrame ==
    LET f == Head(toSrv) IN
    /\ srv[Mine] = "reading" /\ toSrv # <<>> /\ f.cmd # "Unregister"
    /\ toSrv' = Tail(toSrv)
    /\ srv' = [srv EXCEPT ![Mine] = "polling"]
    /\ IF f.cmd = "Register"
       THEN /\ handles' = handles + 1 /\ sess' = handles + 1
            /\ Reply(f, handles + 1, "ok", {})
            /\ UNCHANGED <<word, fresh, stale>>
       ELSE IF f.session = sess /\ sess # 0
       THEN /\ Device(f)
            /\ Reply(f, sess, "ok", word)
            /\ UNCHANGED <<handles, sess>>
       ELSE /\ Reply(f, f.session, "invalidSession", {})
            /\ UNCHANGED <<handles, sess, word, fresh, stale>>
    /\ UNCHANGED <<tvars, cvars, peer, loop, clients, stop, early>>

HandleUnregister ==
    /\ srv[Mine] = "reading" /\ toSrv # <<>> /\ Head(toSrv).cmd = "Unregister"
    /\ Leave(Mine)
    /\ UNCHANGED <<tvars, cvars, toCli, peer, sess, handles, loop, stop, word, fresh, stale, early>>

(* Stop: done and the listener, whose backlog is reset, then the table. *)
StopBegin ==
    /\ stop = "no" /\ stop' = "begun"
    /\ srv' = [c \in Conns |-> IF srv[c] = "backlog" THEN "gone" ELSE srv[c]]
    /\ UNCHANGED <<tvars, cvars, toSrv, toCli, peer, sess, handles, loop, clients, word, fresh, stale, early>>

StopSweeps ==
    /\ stop = "begun" /\ stop' = "swept"
    /\ srv' = [c \in Conns |-> IF c \in clients THEN "closed" ELSE srv[c]]
    /\ UNCHANGED <<tvars, cvars, toSrv, toCli, peer, sess, handles, loop, clients, word, fresh, stale, early>>

-----------------------------------------------------------------------------
Connecting == Dial \/ RegisterSend \/ RegisterReceive

ThreadStep(t) == Call(t) \/ GetConn(t) \/ SendRRData(t) \/ Receive(t) \/ Reset(t)

Serve(c) == Register(c) \/ Poll(c) \/ ReadFails(c)

Next ==
    \/ Connecting \/ AppCloses \/ Cut
    \/ \E t \in Thread : ThreadStep(t)
    \/ \E c \in Other : OtherDials(c) \/ OtherLeaves(c)
    \/ \E c \in Conns : Accept(c) \/ Serve(c)
    \/ AcceptEnds \/ HandleFrame \/ HandleUnregister \/ StopBegin \/ StopSweeps

Spec == Init /\ [][Next]_vars

(* The server's goroutines that can run do run, and Stop once it began. *)
FairSpec == Spec /\ WF_vars(StopSweeps) /\ \A c \in Conns : WF_vars(Serve(c))

-----------------------------------------------------------------------------
(* Properties.                                                               *)

(* The shared client implements the single-session slot of its transport while *)
(* the goroutines' failures, Close and the server's Stop interleave.            *)
ImplementsSlot == T!ImplementsSlot

(* Replies carry no request number that anyone looks at (session.go:97-156):   *)
(* they are matched by order alone.  Every reply a goroutine takes answers the  *)
(* goroutine's own request, whatever failed, was reset or was closed before.    *)
RepliesMatched == \A t \in Thread : th[t].reply \in {None, t}

(* A PCCC bit write reads the word and writes it back in two exchanges          *)
(* (pccc/client.go:341-366).  A bit whose write succeeded is set, unless some   *)
(* goroutine wrote back a word it had read before another's write.              *)
BitsLostOnlyByOverlap ==
    \A t \in Thread : th[t].task = "bit" /\ th[t].pc = "done" => t \in word \/ stale \ {t} # {}

(* The accept loop counts s.clients, where HandleConn enters the connection     *)
(* only later (server.go:221-250).  The limit is exceeded only by connections   *)
(* admitted while another one was on its way into the table.                    *)
LimitExceededOnlyEarly ==
    MaxClients > 0 => Cardinality(clients \ early) <= MaxClients

(* ListTags goes on past a symbol whose request failed (client.go:501-505),      *)
(* also when the session is lost, while its comment promises that "a            *)
(* mid-enumeration connection drop retries from scratch" (client.go:475-477).   *)
(* What it returns is every tag of the device if its session has lasted.        *)
TagsCompleteIfSessionLasted ==
    \A t \in Thread : th[t].task = "tags" /\ th[t].pc = "done" /\ mine /\ Up(Mine) => th[t].tags = 1..Tags

(* After Stop every connection goroutine ends and the client table empties,     *)
(* also for connections on their way into the table when Stop ran.              *)
StopDrains == stop = "swept" ~> (clients = {} /\ \A c \in Conns : srv[c] \in {"none", "gone"})

=============================================================================
