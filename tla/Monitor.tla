------------------------------- MODULE Monitor -------------------------------
(***************************************************************************)
(* monitor/monitor.go and subscriber.go: Subscribe, Stop, Close, the        *)
(* polling goroutine of each subscription, and the fan-out of events to     *)
(* subscribers and to the shared event channel.                             *)
(*                                                                         *)
(* Subscriptions are numbered by nextID.  Timers fire at any time, reads    *)
(* take any time and succeed or fail, handlers return unless they wait for  *)
(* Stop or Close themselves.  Of a channel only the number of events in it  *)
(* is kept, and whether it is closed; what an event says is left out.       *)
(***************************************************************************)
EXTENDS Integers

CONSTANTS
    MaxSubs,   \* bound: subscriptions ever made
    Watcher,   \* Subscriber objects an application may create
    Buffer,    \* capacity of every event channel
    Gated      \* whether WithConnected is set

ASSUME MonitorAssumption == MaxSubs \in Nat /\ Buffer \in Nat \ {0} /\ Gated \in BOOLEAN

Sub == 1..MaxSubs

VARIABLES
    nextID,       \* subscriptions made so far
    subs,         \* the map m.subs, as the set of its keys
    run,          \* where the goroutine of each subscription is
    stopCh,       \* subscriptions whose stopCh is closed
    stopper,      \* where Stop of each subscription is
    registered,   \* subscriptions whose point the reader has registered
    closer,       \* where Close is
    closing,      \* the subscriptions Close still has to stop
    subscribers,  \* the map m.subscribers, as a set
    chan,         \* state of each subscriber: [st, n]
    events,       \* the shared event channel: [st, n]
    connected     \* whether connectedCh is closed

vars == <<nextID, subs, run, stopCh, stopper, registered, closer, closing,
          subscribers, chan, events, connected>>

-----------------------------------------------------------------------------
MonitorStopped == closer # "open"     \* m.stopCh is closed, m.ctx cancelled
MonitorClosed  == closer \notin {"open", "cancelled"}     \* m.closed

Spawned(i) == run[i] \notin {"none", "new"}
Exited(i)  == run[i] = "exited"       \* doneCh is closed, wg.Done called

(* The select of run() may end the goroutine. *)
StopSignal(i) == i \in stopCh \/ MonitorStopped

(* A non-blocking send: dropped when the buffer is full. *)
Offer(c) == [c EXCEPT !.n = IF @ < Buffer THEN @ + 1 ELSE @]

Goto(i, pc) == run' = [run EXCEPT ![i] = pc]

Init ==
    /\ nextID = 0
    /\ subs = {}
    /\ run = [i \in Sub |-> "none"]
    /\ stopCh = {}
    /\ stopper = [i \in Sub |-> "idle"]
    /\ registered = {}
    /\ closer = "open"
    /\ closing = {}
    /\ subscribers = {}
    /\ chan = [w \in Watcher |-> [st |-> "none", n |-> 0]]
    /\ events = [st |-> "open", n |-> 0]
    /\ connected = ~Gated

-----------------------------------------------------------------------------
(* Subscribe: under mu the subscription enters the map and the wait group ... *)
Subscribe ==
    /\ nextID < MaxSubs
    /\ ~MonitorClosed
    /\ nextID' = nextID + 1
    /\ subs' = subs \cup {nextID'}
    /\ Goto(nextID', "new")
    /\ UNCHANGED <<stopCh, stopper, registered, closer, closing, subscribers, chan, events, connected>>

(* ... and after it the point is registered and the goroutine started. *)
SubscribeGo(i) ==
    /\ run[i] = "new"
    /\ registered' = registered \cup {i}
    /\ Goto(i, "gate")
    /\ UNCHANGED <<nextID, subs, stopCh, stopper, closer, closing, subscribers, chan, events, connected>>

Connect ==
    /\ ~connected
    /\ connected' = TRUE
    /\ UNCHANGED <<nextID, subs, run, stopCh, stopper, registered, closer, closing, subscribers, chan, events>>

-----------------------------------------------------------------------------
(* run(): the gate, then the first poll at once (initialDelay = 0) or later.  *)
PassGate(i) ==
    /\ run[i] = "gate"
    /\ connected
    /\ \E pc \in {"read", "wait"} : Goto(i, pc)

TimerFires(i) == run[i] = "wait" /\ Goto(i, "read")

RunEnds(i) ==
    /\ run[i] \in {"gate", "wait"}
    /\ StopSignal(i)
    /\ Goto(i, "exited")

(* poll(): a good read goes through the handler, a failed one does not. *)
ReadEnds(i) ==
    /\ run[i] = "read"
    /\ \E pc \in {"handler", "emit"} : Goto(i, pc)

HandlerReturns(i) ==
    /\ \/ run[i] = "handler"
       \/ run[i] = "inStop" /\ stopper[i] \in {"returned", "overtaken"}
       \/ run[i] = "inClose" /\ closer = "closed"
    /\ Goto(i, "emit")

(* emit(): nothing once the monitor is stopped ... *)
EmitSkips(i) == run[i] = "emit" /\ MonitorStopped /\ Goto(i, "wait")

EmitBegins(i) == run[i] = "emit" /\ ~MonitorStopped /\ Goto(i, "fanout")

(* The steps of a polling goroutine that touch nothing but itself. *)
OwnStep(i) ==
    /\ PassGate(i) \/ TimerFires(i) \/ RunEnds(i) \/ ReadEnds(i) \/ HandlerReturns(i)
       \/ EmitSkips(i) \/ EmitBegins(i)
    /\ UNCHANGED <<nextID, subs, stopCh, stopper, registered, closer, closing,
                   subscribers, chan, events, connected>>

(* Mutant of FanOut: a blocking send. *)
FanOutBlocks(i) ==
    /\ run[i] = "fanout"
    /\ \A w \in subscribers : chan[w].n < Buffer
    /\ chan' = [w \in Watcher |-> IF w \in subscribers THEN Offer(chan[w]) ELSE chan[w]]
    /\ Goto(i, "publish")
    /\ UNCHANGED <<nextID, subs, stopCh, stopper, registered, closer, closing, subscribers, events, connected>>

(* ... otherwise to every subscriber, under the read lock of subscriberMu ...  *)
FanOut(i) ==
    /\ run[i] = "fanout"
    /\ chan' = [w \in Watcher |-> IF w \in subscribers THEN Offer(chan[w]) ELSE chan[w]]
    /\ Goto(i, "publish")
    /\ UNCHANGED <<nextID, subs, stopCh, stopper, registered, closer, closing, subscribers, events, connected>>

(* ... and to the shared channel, unless the select prefers stopCh. *)
PublishEvent(i) ==
    /\ run[i] = "publish"
    /\ \/ events' = Offer(events)
       \/ MonitorStopped /\ events' = events
    /\ Goto(i, "wait")
    /\ UNCHANGED <<nextID, subs, stopCh, stopper, registered, closer, closing, subscribers, chan, connected>>

-----------------------------------------------------------------------------

(* Stop: removeSubscription takes the subscription out of the map; when Close *)
(* was faster there is nothing to do.                                          *)
StopBegin(i) ==
    /\ Spawned(i)
    /\ stopper[i] = "idle"
    /\ stopper' = [stopper EXCEPT ![i] = IF i \in subs THEN "unregister" ELSE "overtaken"]
    /\ subs' = subs \ {i}

(* The application calls Stop on its own goroutine. *)
Stop(i) ==
    /\ StopBegin(i)
    /\ UNCHANGED <<nextID, run, stopCh, registered, closer, closing, subscribers, chan, events, connected>>

(* A handler calls Stop of its own subscription, and goes on when it returns. *)
HandlerStops(i) ==
    /\ run[i] = "handler"
    /\ IF stopper[i] = "idle" THEN StopBegin(i) ELSE UNCHANGED <<stopper, subs>>
    /\ Goto(i, "inStop")
    /\ UNCHANGED <<nextID, stopCh, registered, closer, closing, subscribers, chan, events, connected>>

StopUnregister(i) ==
    /\ stopper[i] = "unregister"
    /\ registered' = registered \ {i}
    /\ stopper' = [stopper EXCEPT ![i] = "signal"]
    /\ UNCHANGED <<nextID, subs, run, stopCh, closer, closing, subscribers, chan, events, connected>>

(* Mutant of StopSignals: only the context is cancelled. *)
StopSignalsNothing(i) ==
    /\ stopper[i] = "signal"
    /\ stopper' = [stopper EXCEPT ![i] = "await"]
    /\ UNCHANGED <<nextID, subs, run, stopCh, registered, closer, closing, subscribers, chan, events, connected>>

StopSignals(i) ==
    /\ stopper[i] = "signal"
    /\ stopCh' = stopCh \cup {i}
    /\ stopper' = [stopper EXCEPT ![i] = "await"]
    /\ UNCHANGED <<nextID, subs, run, registered, closer, closing, subscribers, chan, events, connected>>

(* Mutant of StopReturn: stop() does not wait for doneCh. *)
StopReturnEarly(i) ==
    /\ stopper[i] = "await"
    /\ stopper' = [stopper EXCEPT ![i] = "returned"]
    /\ UNCHANGED <<nextID, subs, run, stopCh, registered, closer, closing, subscribers, chan, events, connected>>

StopReturn(i) ==
    /\ stopper[i] = "await"
    /\ Exited(i)
    /\ stopper' = [stopper EXCEPT ![i] = "returned"]
    /\ UNCHANGED <<nextID, subs, run, stopCh, registered, closer, closing, subscribers, chan, events, connected>>

-----------------------------------------------------------------------------
(* Close, inside closeMx.Do: a second caller waits until the first is through. *)
CloseBegin == closer = "open" /\ closer' = "cancelled"

Close ==
    /\ CloseBegin
    /\ UNCHANGED <<nextID, subs, run, stopCh, stopper, registered, closing, subscribers, chan, events, connected>>

(* A handler calls Close. *)
HandlerCloses(i) ==
    /\ run[i] = "handler"
    /\ CloseBegin \/ (closer # "open" /\ closer' = closer)
    /\ Goto(i, "inClose")
    /\ UNCHANGED <<nextID, subs, stopCh, stopper, registered, closing, subscribers, chan, events, connected>>

CloseCollects ==
    /\ closer = "cancelled"
    /\ closer' = "stopping"
    /\ closing' = subs
    /\ subs' = {}
    /\ UNCHANGED <<nextID, run, stopCh, stopper, registered, subscribers, chan, events, connected>>

(* sub.stop() of one subscription after the other. *)
CloseSignals(i) ==
    /\ i \in closing
    /\ closing \cap stopCh = {}
    /\ stopCh' = stopCh \cup {i}
    /\ UNCHANGED <<nextID, subs, run, stopper, registered, closer, closing, subscribers, chan, events, connected>>

CloseAwaits(i) ==
    /\ i \in closing \cap stopCh
    /\ Exited(i)
    /\ closing' = closing \ {i}
    /\ UNCHANGED <<nextID, subs, run, stopCh, stopper, registered, closer, subscribers, chan, events, connected>>

(* wg.Wait, then close(m.events). *)
CloseEvents ==
    /\ closer = "stopping"
    /\ closing = {}
    /\ \A i \in Sub : run[i] = "none" \/ Exited(i)
    /\ closer' = "drained"
    /\ events' = [events EXCEPT !.st = "closed"]
    /\ UNCHANGED <<nextID, subs, run, stopCh, stopper, registered, closing, subscribers, chan, connected>>

CloseSubscribers ==
    /\ closer = "drained"
    /\ closer' = "closed"
    /\ chan' = [w \in Watcher |-> IF w \in subscribers THEN [chan[w] EXCEPT !.st = "closed"] ELSE chan[w]]
    /\ subscribers' = {}
    /\ UNCHANGED <<nextID, subs, run, stopCh, stopper, registered, closing, events, connected>>

-----------------------------------------------------------------------------
(* Mutant of NewSubscriber: stopCh is not looked at. *)
NewSubscriberAlways(w) ==
    /\ chan[w].st = "none"
    /\ chan' = [chan EXCEPT ![w].st = "open"]
    /\ subscribers' = subscribers \cup {w}
    /\ UNCHANGED <<nextID, subs, run, stopCh, stopper, registered, closer, closing, events, connected>>

NewSubscriber(w) ==
    /\ chan[w].st = "none"
    /\ ~MonitorStopped
    /\ chan' = [chan EXCEPT ![w].st = "open"]
    /\ subscribers' = subscribers \cup {w}
    /\ UNCHANGED <<nextID, subs, run, stopCh, stopper, registered, closer, closing, events, connected>>

(* Mutant of Done: the channel is closed before the subscriber is taken out. *)
DoneClosesFirst(w) ==
    /\ chan[w].st = "open"
    /\ chan' = [chan EXCEPT ![w].st = "closed"]
    /\ UNCHANGED <<nextID, subs, run, stopCh, stopper, registered, closer, closing, subscribers, events, connected>>

(* Done: unregisterSubscriber, then closeCh (which closeOnce makes idempotent). *)
Done(w) ==
    /\ chan[w].st = "open"
    /\ subscribers' = subscribers \ {w}
    /\ chan' = [chan EXCEPT ![w].st = "leaving"]
    /\ UNCHANGED <<nextID, subs, run, stopCh, stopper, registered, closer, closing, events, connected>>

DoneCloses(w) ==
    /\ chan[w].st = "leaving"
    /\ chan' = [chan EXCEPT ![w].st = "closed"]
    /\ UNCHANGED <<nextID, subs, run, stopCh, stopper, registered, closer, closing, subscribers, events, connected>>

(* Consumers read their channels whenever they like. *)
Consume ==
    /\ \/ \E w \in Watcher : chan[w].n > 0 /\ chan' = [chan EXCEPT ![w].n = @ - 1] /\ events' = events
       \/ events.n > 0 /\ events' = [events EXCEPT !.n = @ - 1] /\ chan' = chan
    /\ UNCHANGED <<nextID, subs, run, stopCh, stopper, registered, closer, closing, subscribers, connected>>

-----------------------------------------------------------------------------
Poll(i) == OwnStep(i) \/ FanOut(i) \/ PublishEvent(i)

StopStep(i) == StopUnregister(i) \/ StopSignals(i) \/ StopReturn(i)

CloseStep ==
    \/ CloseCollects
    \/ \E i \in Sub : CloseSignals(i) \/ CloseAwaits(i)
    \/ CloseEvents
    \/ CloseSubscribers

Next ==
    \/ Subscribe
    \/ \E i \in Sub : SubscribeGo(i) \/ Poll(i) \/ StopStep(i) \/ Stop(i)
                      \/ HandlerStops(i) \/ HandlerCloses(i)
    \/ Close
    \/ CloseStep
    \/ Connect
    \/ \E w \in Watcher : NewSubscriber(w) \/ Done(w) \/ DoneCloses(w)
    \/ Consume

Spec == Init /\ [][Next]_vars

(* Goroutines are scheduled; a read ends (its context is cancelled at the      *)
(* latest) and a handler returns; and a select with a closed stop channel does *)
(* not prefer its timer for ever.                                              *)
FairSpec ==
    /\ Spec
    /\ \A i \in Sub :
        /\ WF_vars(SubscribeGo(i))
        /\ WF_vars(Poll(i))
        /\ SF_vars(RunEnds(i) /\ OwnStep(i))
        /\ WF_vars(StopStep(i))
    /\ WF_vars(CloseStep)
    /\ \A w \in Watcher : WF_vars(DoneCloses(w))

-----------------------------------------------------------------------------
Channel == [st : {"none", "open", "leaving", "closed"}, n : 0..Buffer]

(* Every variable has its type, and the map m.subs holds started subscriptions *)
(* nobody has stopped.                                                         *)
TypeOK ==
    /\ nextID \in 0..MaxSubs
    /\ subs \subseteq 1..nextID
    /\ run \in [Sub -> {"none", "new", "gate", "wait", "read", "handler", "inStop", "inClose",
                        "emit", "fanout", "publish", "exited"}]
    /\ stopCh \subseteq Sub
    /\ stopper \in [Sub -> {"idle", "unregister", "signal", "await", "returned", "overtaken"}]
    /\ registered \subseteq 1..nextID
    /\ closer \in {"open", "cancelled", "stopping", "drained", "closed"}
    /\ closing \subseteq 1..nextID
    /\ subscribers \subseteq Watcher
    /\ chan \in [Watcher -> Channel]
    /\ events \in Channel
    /\ connected \in BOOLEAN
    /\ \A i \in subs : stopper[i] = "idle" /\ i \notin stopCh

(* emit never sends on a closed channel, which would panic: a subscriber in    *)
(* the map is open, and events is open while any goroutine may be in emit.     *)
NoSendOnClosed ==
    /\ \A w \in subscribers : chan[w].st = "open"
    /\ \A i \in Sub : run[i] \in {"fanout", "publish"} => events.st = "open"

(* When Stop has returned, the subscription's goroutine has ended, so its      *)
(* handler never runs again, and its point is unregistered; unless Close had   *)
(* taken the subscription first, when Stop returns at once.                    *)
StopIsFinal ==
    \A i \in Sub : stopper[i] = "returned" => Exited(i) /\ i \notin registered

(* When Close has returned, no polling goroutine is left, and every consumer's *)
(* channel is closed, or about to be by the Done that is running on it.        *)
CloseIsFinal ==
    closer = "closed" =>
        /\ \A i \in Sub : run[i] \in {"none", "exited"}
        /\ \A w \in Watcher : chan[w].st # "open"
        /\ events.st = "closed"

(* A handler waits for the end of its own goroutine. *)
SelfWait == \E i \in Sub : run[i] \in {"inStop", "inClose"}

(* Stop returns, whatever subscribers, handlers and Close are doing, as long   *)
(* as no handler called Stop of its own subscription or Close.                 *)
StopReturns ==
    \A i \in Sub : stopper[i] # "idle" ~> stopper[i] \in {"returned", "overtaken"} \/ SelfWait

(* So does Close. *)
CloseReturns == MonitorStopped ~> closer = "closed" \/ SelfWait
=============================================================================
