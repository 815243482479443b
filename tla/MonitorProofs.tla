---------------------------- MODULE MonitorProofs ----------------------------
(***************************************************************************)
(* For any number of subscriptions, subscribers and buffer size: emit never *)
(* sends on a closed channel, and nothing of a subscription or of the       *)
(* monitor is left once Stop or Close has returned.                         *)
(***************************************************************************)
EXTENDS Monitor, TLAPS

(***************************************************************************)
(* The inductive invariant.  Beyond the three properties it says when a     *)
(* goroutine can still be on its way into emit (never after wg.Wait), that  *)
(* the map of subscribers is exactly the set of open channels, that Close   *)
(* leaves no subscription in the map, and that Stop unregisters before it   *)
(* waits.                                                                   *)
(***************************************************************************)
IInv ==
    /\ TypeOK
    /\ \A i \in Sub : run[i] = "none" <=> i > nextID
    /\ stopCh \subseteq 1..nextID
    /\ \A w \in Watcher : w \in subscribers <=> chan[w].st = "open"
    /\ events.st = IF closer \in {"drained", "closed"} THEN "closed" ELSE "open"
    /\ closer \in {"drained", "closed"} => \A i \in Sub : run[i] \in {"none", "exited"}
    /\ closer = "closed" => subscribers = {}
    /\ MonitorClosed => subs = {}
    /\ closing # {} => closer = "stopping"
    /\ \A i \in Sub : stopper[i] # "idle" => Spawned(i)
    /\ \A i \in Sub : stopper[i] \in {"signal", "await"} => i \notin registered
    /\ StopIsFinal

ChanState == {"none", "open", "leaving", "closed"}

(* A non-blocking send keeps the channel's type and state. *)
LEMMA OfferKeeps ==
    ASSUME NEW c \in Channel PROVE Offer(c) \in Channel /\ Offer(c).st = c.st
    BY MonitorAssumption DEF Channel, Offer

(* Opening or closing one of the subscribers' channels leaves the others. *)
LEMMA SetState ==
    ASSUME NEW f \in [Watcher -> Channel], NEW w \in Watcher, NEW s \in ChanState
    PROVE  LET g == [f EXCEPT ![w].st = s]
           IN  /\ g \in [Watcher -> Channel]
               /\ g[w].st = s
               /\ \A v \in Watcher \ {w} : g[v] = f[v]
    BY DEF Channel, ChanState

(* Receiving an event keeps the channel's type and state. *)
LEMMA ReceiveKeeps ==
    ASSUME NEW c \in Channel, c.n > 0
    PROVE  [c EXCEPT !.n = @ - 1] \in Channel /\ [c EXCEPT !.n = @ - 1].st = c.st
    BY MonitorAssumption DEF Channel

(* NewMonitor establishes the invariant. *)
LEMMA InitIInv == Init => IInv
    BY MonitorAssumption DEF Init, IInv, TypeOK, Sub, Channel, MonitorClosed, Spawned, StopIsFinal

(* One step of the monitor keeps the invariant: one lemma step per action. *)
LEMMA NextIInv == IInv /\ [Next]_vars => IInv'
<1> SUFFICES ASSUME IInv, [Next]_vars PROVE IInv'
    OBVIOUS
<1> USE MonitorAssumption DEF IInv, TypeOK, Sub, MonitorStopped, MonitorClosed, Spawned, Exited, StopIsFinal, Goto
<1>1. ASSUME Subscribe PROVE IInv'
    BY <1>1 DEF Subscribe
<1>2. ASSUME NEW i \in Sub, SubscribeGo(i) PROVE IInv'
    BY <1>2 DEF SubscribeGo
<1>3. ASSUME NEW i \in Sub, OwnStep(i) PROVE IInv'
  <2>1. /\ run' = [run EXCEPT ![i] = run'[i]]
        /\ run[i] \notin {"none", "new", "exited"}
        /\ run'[i] \in {"gate", "wait", "read", "handler", "inStop", "inClose",
                         "emit", "fanout", "publish", "exited"}
        /\ run'[i] \in {"fanout", "publish"} => run[i] = "emit"
    <3>1. \E pc \in {"gate", "wait", "read", "handler", "inStop", "inClose",
                     "emit", "fanout", "publish", "exited"} :
            /\ run' = [run EXCEPT ![i] = pc]
            /\ run[i] \notin {"none", "new", "exited"}
            /\ pc \in {"fanout", "publish"} => run[i] = "emit"
      <4> HIDE DEF IInv, TypeOK, StopIsFinal
      <4> QED
        BY <1>3 DEF OwnStep, PassGate, TimerFires, RunEnds, ReadEnds, HandlerReturns, EmitSkips, EmitBegins
    <3>2. DOMAIN run = Sub
      OBVIOUS
    <3> HIDE DEF IInv, TypeOK, StopIsFinal
    <3> QED
      BY <3>1, <3>2
  <2>2. UNCHANGED <<nextID, subs, stopCh, stopper, registered, closer, closing,
                    subscribers, chan, events, connected>>
    BY <1>3 DEF OwnStep
  <2> QED
    BY <2>1, <2>2
<1>4. ASSUME NEW i \in Sub, FanOut(i) PROVE IInv'
  <2>1. chan' \in [Watcher -> Channel] /\ \A w \in Watcher : chan'[w].st = chan[w].st
    BY <1>4, OfferKeeps DEF FanOut
  <2>2. /\ run[i] = "fanout" /\ run' = [run EXCEPT ![i] = "publish"]
        /\ UNCHANGED <<nextID, subs, stopCh, stopper, registered, closer, closing,
                       subscribers, events, connected>>
    BY <1>4 DEF FanOut
  <2> QED
    BY <2>1, <2>2
<1>5. ASSUME NEW i \in Sub, PublishEvent(i) PROVE IInv'
  <2>0. events \in Channel
    OBVIOUS
  <2>1. events' \in Channel /\ events'.st = events.st
    BY <1>5, <2>0, OfferKeeps DEF PublishEvent
  <2>2. /\ run[i] = "publish" /\ run' = [run EXCEPT ![i] = "wait"]
        /\ UNCHANGED <<nextID, subs, stopCh, stopper, registered, closer, closing,
                       subscribers, chan, connected>>
    BY <1>5 DEF PublishEvent
  <2> QED
    BY <2>1, <2>2
<1>6. ASSUME NEW i \in Sub, StopUnregister(i) PROVE IInv'
    BY <1>6 DEF StopUnregister
<1>7. ASSUME NEW i \in Sub, StopSignals(i) PROVE IInv'
    BY <1>7 DEF StopSignals
<1>8. ASSUME NEW i \in Sub, StopReturn(i) PROVE IInv'
    BY <1>8 DEF StopReturn
<1>9. ASSUME NEW i \in Sub, Stop(i) PROVE IInv'
    BY <1>9 DEF Stop, StopBegin
<1>10. ASSUME NEW i \in Sub, HandlerStops(i) PROVE IInv'
  <2>1. /\ run[i] = "handler" /\ run' = [run EXCEPT ![i] = "inStop"]
        /\ UNCHANGED <<nextID, stopCh, registered, closer, closing, subscribers, chan, events, connected>>
    BY <1>10 DEF HandlerStops
  <2>2. CASE stopper[i] = "idle"
    <3>1. /\ stopper' = [stopper EXCEPT ![i] = IF i \in subs THEN "unregister" ELSE "overtaken"]
          /\ subs' = subs \ {i}
      BY <1>10, <2>2 DEF HandlerStops, StopBegin
    <3> QED
      BY <2>1, <2>2, <3>1
  <2>3. CASE UNCHANGED <<stopper, subs>>
    BY <2>1, <2>3
  <2> QED
    BY <1>10, <2>2, <2>3 DEF HandlerStops
<1>11. ASSUME NEW i \in Sub, HandlerCloses(i) PROVE IInv'
    BY <1>11 DEF HandlerCloses, CloseBegin
<1>12. ASSUME Close PROVE IInv'
    BY <1>12 DEF Close, CloseBegin
<1>13. ASSUME CloseCollects PROVE IInv'
    BY <1>13 DEF CloseCollects
<1>14. ASSUME NEW i \in Sub, CloseSignals(i) PROVE IInv'
    BY <1>14 DEF CloseSignals
<1>15. ASSUME NEW i \in Sub, CloseAwaits(i) PROVE IInv'
    BY <1>15 DEF CloseAwaits
<1>16. ASSUME CloseEvents PROVE IInv'
  <2>1. events' \in Channel /\ events'.st = "closed"
    BY <1>16 DEF CloseEvents, Channel
  <2>2. /\ closer = "stopping" /\ closing = {} /\ closer' = "drained"
        /\ \A i \in Sub : run[i] = "none" \/ run[i] = "exited"
        /\ UNCHANGED <<nextID, subs, run, stopCh, stopper, registered, closing,
                       subscribers, chan, connected>>
    BY <1>16 DEF CloseEvents
  <2> QED
    BY <2>1, <2>2
<1>17. ASSUME CloseSubscribers PROVE IInv'
  <2>1. /\ chan' \in [Watcher -> Channel]
        /\ \A w \in Watcher : chan'[w].st # "open"
    <3>1. \A c \in Channel : /\ [c EXCEPT !.st = "closed"] \in Channel
                            /\ [c EXCEPT !.st = "closed"].st = "closed"
      BY DEF Channel
    <3> QED
      BY <1>17, <3>1 DEF CloseSubscribers
  <2>2. /\ closer = "drained" /\ closer' = "closed" /\ subscribers' = {}
        /\ UNCHANGED <<nextID, subs, run, stopCh, stopper, registered, closing,
                       events, connected>>
    BY <1>17 DEF CloseSubscribers
  <2> QED
    BY <2>1, <2>2
<1>18. ASSUME Connect PROVE IInv'
    BY <1>18 DEF Connect
<1>19. ASSUME NEW w \in Watcher, NewSubscriber(w) PROVE IInv'
  <2>1. chan \in [Watcher -> Channel] /\ "open" \in ChanState
    BY DEF ChanState
  <2>2. chan' = [chan EXCEPT ![w].st = "open"]
    BY <1>19 DEF NewSubscriber
  <2>3. /\ chan' \in [Watcher -> Channel] /\ chan'[w].st = "open"
        /\ \A v \in Watcher \ {w} : chan'[v] = chan[v]
    BY <2>1, <2>2, SetState
  <2>4. /\ closer = "open" /\ subscribers' = subscribers \cup {w}
        /\ UNCHANGED <<nextID, subs, run, stopCh, stopper, registered, closer, closing,
                       events, connected>>
    BY <1>19 DEF NewSubscriber
  <2> QED
    BY <2>3, <2>4
<1>20. ASSUME NEW w \in Watcher, Done(w) PROVE IInv'
  <2>1. chan \in [Watcher -> Channel] /\ "leaving" \in ChanState
    BY DEF ChanState
  <2>2. chan' = [chan EXCEPT ![w].st = "leaving"]
    BY <1>20 DEF Done
  <2>3. /\ chan' \in [Watcher -> Channel] /\ chan'[w].st = "leaving"
        /\ \A v \in Watcher \ {w} : chan'[v] = chan[v]
    BY <2>1, <2>2, SetState
  <2>4. /\ subscribers' = subscribers \ {w}
        /\ UNCHANGED <<nextID, subs, run, stopCh, stopper, registered, closer, closing,
                       events, connected>>
    BY <1>20 DEF Done
  <2> QED
    BY <2>3, <2>4
<1>21. ASSUME NEW w \in Watcher, DoneCloses(w) PROVE IInv'
  <2>1. chan \in [Watcher -> Channel] /\ "closed" \in ChanState
    BY DEF ChanState
  <2>2. chan' = [chan EXCEPT ![w].st = "closed"]
    BY <1>21 DEF DoneCloses
  <2>3. /\ chan' \in [Watcher -> Channel] /\ chan'[w].st = "closed"
        /\ \A v \in Watcher \ {w} : chan'[v] = chan[v]
    BY <2>1, <2>2, SetState
  <2>4. /\ chan[w].st = "leaving" /\ subscribers' = subscribers
        /\ UNCHANGED <<nextID, subs, run, stopCh, stopper, registered, closer, closing,
                       events, connected>>
    BY <1>21 DEF DoneCloses
  <2> QED
    BY <2>3, <2>4
<1>22. ASSUME Consume PROVE IInv'
  <2>1. /\ chan' \in [Watcher -> Channel] /\ \A w \in Watcher : chan'[w].st = chan[w].st
        /\ events' \in Channel /\ events'.st = events.st
    <3>1. CASE \E w \in Watcher : chan[w].n > 0 /\ chan' = [chan EXCEPT ![w].n = @ - 1] /\ events' = events
      <4>1. PICK w \in Watcher : chan[w].n > 0 /\ chan' = [chan EXCEPT ![w].n = @ - 1] /\ events' = events
        BY <3>1
      <4>2. chan' = [chan EXCEPT ![w] = [chan[w] EXCEPT !.n = @ - 1]]
        BY <4>1
      <4>3. chan[w] \in Channel
        OBVIOUS
      <4>4. [chan[w] EXCEPT !.n = @ - 1] \in Channel /\ [chan[w] EXCEPT !.n = @ - 1].st = chan[w].st
        BY <4>1, <4>3, ReceiveKeeps
      <4> QED
        BY <4>1, <4>2, <4>4
    <3>2. CASE events.n > 0 /\ events' = [events EXCEPT !.n = @ - 1] /\ chan' = chan
      <4>1. events \in Channel
        OBVIOUS
      <4> QED
        BY <3>2, <4>1, ReceiveKeeps
    <3> QED
      BY <1>22, <3>1, <3>2 DEF Consume
  <2>2. UNCHANGED <<nextID, subs, run, stopCh, stopper, registered, closer, closing,
                    subscribers, connected>>
    BY <1>22 DEF Consume
  <2> QED
    BY <2>1, <2>2
<1>23. CASE UNCHANGED vars
    BY <1>23 DEF vars
<1> QED
    BY <1>1, <1>2, <1>3, <1>4, <1>5, <1>6, <1>7, <1>8, <1>9, <1>10, <1>11, <1>12,
       <1>13, <1>14, <1>15, <1>16, <1>17, <1>18, <1>19, <1>20, <1>21, <1>22, <1>23
    DEF Next, Poll, StopStep, CloseStep

(* The invariant holds in every reachable state. *)
THEOREM MonitorInvariant == Spec => []IInv
    BY InitIInv, NextIInv, PTL DEF Spec

(* emit never sends on a closed channel, however Subscribe, Stop, Close,      *)
(* NewSubscriber and Done interleave with it (monitor.go, emit and Close).    *)
THEOREM EmitIsSafe == Spec => []NoSendOnClosed
<1>1. IInv => NoSendOnClosed
    BY DEF IInv, TypeOK, NoSendOnClosed
<1> QED
    BY <1>1, MonitorInvariant, PTL

(* Once Stop has returned, the subscription's goroutine has ended and its     *)
(* point is unregistered (monitor.go, removeSubscription and stop).           *)
THEOREM StoppedIsStopped == Spec => []StopIsFinal
<1>1. IInv => StopIsFinal
    BY DEF IInv
<1> QED
    BY <1>1, MonitorInvariant, PTL

(* Once Close has returned, no polling goroutine is left and every consumer's *)
(* channel is closed or being closed (monitor.go, Close).                     *)
THEOREM ClosedIsClosed == Spec => []CloseIsFinal
<1>1. IInv => CloseIsFinal
    BY DEF IInv, TypeOK, CloseIsFinal
<1> QED
    BY <1>1, MonitorInvariant, PTL
=============================================================================
