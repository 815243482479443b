# TLA+ specifications of goindustrial

Specifications, model-checking configurations and machine-checked proofs for
`goindustrial`: its transports and retrying clients, the pipelined Modbus TCP
connection, the Modbus and EtherNet/IP servers, cyclic I/O, the codecs with the
operations built on them, and the polling monitor with its clustering reader.
`PROJECT.json` is the index: which definition models which lines, what each run
checks, which mutant each property catches, and which theorem states what.

## The system and its parts

| Part | Source | Modules | How far |
|---|---|---|---|
| Transports (`Conn`, `Reset`, `Close`) | `transport/` | `SingleSession`, `ReconnectingTransport`, `DirectTransport` | checked, proved |
| Retry loops of the clients | `protocol/modbus/client.go`, `protocol/ethernetip/client.go` | `RetryingClient` over `ReconnectingTransport`; `EIPExplicit` over `DirectTransport` | checked, safety proved |
| Modbus TCP connection, transaction pool | `protocol/modbus/conn.go`, `transaction.go` | `TCPConn`, `TransactionPool` | checked, safety proved |
| Modbus server | `protocol/modbus/server.go` | `ModbusServer` | checked, safety proved |
| Modbus codecs, handlers, store, operations | `protocol/modbus/*.go` | `Bytes`, `ModbusPDU`, `ModbusStore`, `ModbusOps` | checked |
| EtherNet/IP client, session, server under concurrency | `protocol/ethernetip/client.go`, `session.go`, `server.go` | `EIPExplicit` | checked, safety proved |
| EtherNet/IP and CIP codecs, objects, operations | `protocol/ethernetip/` with `cip/`, `eip/`, `objects/`, `vendor/rockwell/` | `CIP`, `EIP`, `CIPObjects`, `EIPOps` | checked |
| PCCC addresses, frames, client | `protocol/ethernetip/pccc/`, `pccc.go` | `PCCC`, `PCCCOps` | checked |
| Cyclic I/O: scanner, connection manager, runtime | `protocol/ethernetip/io.go`, `objects/connmgr`, `runtime`, `examples/ethernetip/adapter` | `IOExchange` | checked, safety proved |
| Cluster planner and reader | `monitor/cluster_plan.go`, `cluster.go`, `protocol/modbus/datapoint.go` | `ClusterPlan`, `ClusteringReader` | checked, the reader's safety proved |
| Monitor and subscribers | `monitor/monitor.go`, `subscriber.go`, `options.go` | `Monitor` | checked, safety proved |

How they interact: an application calls a client from several goroutines; the
client's retry loop takes a session from a transport, runs one operation on it
and, on a transport error, resets that session and tries again. For Modbus a
session is a `TCPConn`, whose `Send` pipelines requests through a write loop, a
read loop and a transaction pool; for EtherNet/IP it is a `Session`, which does
one exchange at a time. A request is encoded in layers (Modbus: PDU, MBAP; CIP:
path, message router request, common packet format, encapsulation; PCCC: one
more command inside the CIP request), dispatched by the server to a handler or an
object, and answered. I/O scanners open connections through explicit requests
and then exchange datagrams. A `Monitor` polls data points through a reader,
which may be a `ClusteringReader` that turns many points into few block reads.

There are two kinds of modules. The state machines (`RetryingClient`, `TCPConn`,
`ModbusServer`, `EIPExplicit`, `IOExchange`, `Monitor`, `ClusteringReader`) keep
the goroutines, locks and channels and abstract the data. The operator modules
(`Bytes`, `ModbusPDU`, `ModbusStore`, `ModbusOps`, `CIP`, `EIP`, `CIPObjects`,
`EIPOps`, `PCCC`, `PCCCOps`, `ClusterPlan`) keep the bytes and abstract the
schedule; `MCEndToEnd` drives them.

## Modules

### SingleSession, ReconnectingTransport, DirectTransport

`SingleSession` is what the `Transport` interface promises: at most one session
is alive, an ended one never comes back, nothing is opened after `Close`. Both
transports are shown to implement it (`ImplementsSlot`, an `INSTANCE ... WITH`).

`ReconnectingTransport` keeps `Conn`'s structure: `ConnFast` is the read-locked
part, `ConnSlow` the moment the write lock is taken and both tests are repeated,
`DialOK`/`DialFail` the end of a dial made with the lock held (`writer`). The
lock is held across steps only during a dial, so `Reset` and `Close` are one
step each. `told` records the last lifecycle callback. Sessions are numbered in
the order the `Connector` returns them. `DirectTransport` is the variant around
one connection that was established beforehand.

### RetryingClient

One goroutine per `Caller`, each running `modbus.Client.send` over the shared
transport. A failing operation may or may not have been executed by the device;
`DropSession` lets the network drop a session at any time; any goroutine may
close the client.

### TransactionPool, TCPConn

A pool is a value `[closed, nextID, txs]`; each method of `transaction.go` runs
under one mutex and is an operator on it. IDs live in `0..NIds-1` and wrap, as
the 16-bit ones do.

`TCPConn` has one read loop, one write loop, a done channel, a write channel
and a pool per connection generation. `unsafeTeardown` runs with `c.mutex` held,
but its effects (`close(done)`, `pool.Close`, `conn.Close`) are seen one after
the other by goroutines that do not take the mutex, so they are three steps, and
`tear` says which are left. `Send` is split where it releases the mutex or
blocks: snapshot, `Place`, first select, second select. The device answers in
any order, late, never or with an invalid frame, and may close the connection.
With `SlowFrames` a frame may arrive in pieces further apart than the read
deadline; the loop then starts over inside the frame, and what it parses there
is an arbitrary choice (`ReadMisframed`).

### ModbusServer

Each `Start` has a stop channel, a listener and an accept loop of its own,
numbered by `starts`; loops of earlier starts may still run, and they look at
the latest `stopChan`, as the code does. The accept loop is split between
`Accept`, the test of the limit and the registration, which the code does under
two separate locks. `hc` is a connection's goroutine: reading, or through its
deferred cleanup, which deletes the table entry by address. A frame is good or
one of three kinds of bad ones: misframed, which includes a pause in the header,
without a PDU, and with a pause in its body.

A `Start` with an injected connection unlocks and then goes on in three steps,
between any two of which `Stop`, and the next `Start`, may run: it reads the
address (`ReadInjectedAddr`), reads the connection (`CaptureInjected`) and
registers the client (`RegisterInjected`). `Stop` before the first is a method
call on nil (`InjectedGone`) and the process is gone. `Stop` before the second
leaves a client without a connection (`CaptureNil`), at which its goroutine
(`ReadNil`) or the next `Stop` (`StopMeetsNil`) panics; the racy read of the
two-word interface may also give a nil `*net.TCPConn`, whose methods fail without
a panic. `Stop` before the third closes nothing, and the connection is served by a
stopped server.

### Modbus operations: Bytes, ModbusPDU, ModbusStore, ModbusOps

`ModbusPDU` has the requests, responses and frames, with the limits the code
tests, `ModbusStore` the handlers and the memory store (Go maps as functions on
the addresses written so far), `ModbusOps` the client's operations from
arguments to result, and its data points. `Ok(v)` and `Err(e)` are the two ways
a Go call returns; `Try` is `if err != nil { return err }`.

### EtherNet/IP operations: CIP, EIP, CIPObjects, EIPOps, PCCC, PCCCOps

`CIP` has paths, tag names, message router requests and responses, attribute
lists and the Rockwell structures; `EIP` the encapsulation header, the common
packet format and the discovery replies; `CIPObjects` the router with the
assembly object, the connection manager and the tag database of
`examples/ethernetip/server`; `EIPOps` the server's answer to a frame and the
operations of session, client and I/O scanner on top of it. `PCCC` has the SLC
addresses and the typed commands, `PCCCOps` the PCCC client. The symbol object
and the PCCC data table are those of a controller, outside the repository,
modelled from how the client uses them.

### EIPExplicit

Goroutines share one client over `DirectTransport` (its actions are the ones of
that module). A goroutine sets a bit through PCCC, which is a read and a write
with nothing held between them (`pccc/client.go`), or lists tags. `ioMu` is the
session's lock for one exchange. The server has its accept loop with the client
limit, one goroutine per connection that polls the done channel before it
reads, and `Stop`, which closes the done channel and the listener, then the
connections in the table, and waits for nobody.
Another client only connects and leaves. `fresh`, `stale` and `early` are
history: no step branches on them.

### IOExchange

`pc` is where an application goroutine is in `Open`, `Close` or `Shutdown`;
`xch` is the exchange on a scanner's session, through the connection manager's
two halves: its own table under its lock, then the callbacks of the adapter
example that update the runtime, one `AddConnection` or `RemoveConnection` at a
time. A datagram of any connection that ever produced may arrive at any later
time, so loss, delay, repetition and reordering are covered. The watchdog may
find any consumer late. A session may break with a request or an answer in
flight, and a scanner's process may die.

### ClusterPlan, ClusteringReader

`ClusterPlan` has the planner as pure operators, with the uint16 arithmetic of
the code over `AddrSpace` addresses, and with every order `sort.Slice` may leave
points of equal address in.

`ClusteringReader` has `Register`, `Unregister` and concurrent calls of `Read`:
the plan is taken once, then for each window the cache is tested, a flight is
joined or led, and the points are cut out at the end. Data is abstracted to the
addresses it was read from, so "a read returns the right data" is "it returns
the point it was asked for". `cache[i].gen` records the plan an entry was read
under; no step branches on it.

### Monitor

A subscription's goroutine goes through gate, wait, read, handler and the two
halves of `emit`; `stopper` and `closer` are the positions of `Stop` and
`Close`. Event channels are a count of buffered events and a state. Handlers
may call `Stop` of their own subscription or `Close`. Timers fire at any time,
reads end in any way, and change detection is a free choice.

## Runs

| Run | Instance | What it shows |
|---|---|---|
| `retry_over_reconnecting` | 2 goroutines, 3 dials, 1 retry, 1 operation each | one live session, healthy sessions are not reset, every attempt of an operation is a distinct fault, operations return, the slot is implemented |
| `conn_generations` | 1 caller, 2 calls, 2 generations, 2 pools, 2 IDs | no orphaned caller across teardown, reset and reconnect; complete teardown; faults hit their own generation only |
| `conn_pipeline` | 2 callers, 1 generation | responses reach the right caller, and each call has one outcome |
| `conn_liveness` | 1 caller, 2 calls, 1 ID, slow frames | queued calls return although the device may be silent; the loops of a closed generation end |
| `conn_slow_frames` (violation) | as `conn_pipeline`, slow frames | a frame cut by the read deadline desynchronises the stream and a caller gets a wrong response |
| `cluster_reads` | 2 readers, 2 points, 2 replans | reads return, so singleflight leaves nobody waiting, and only a cache entry of another plan can make one wrong |
| `cluster_stale_plan` (violation) | as `cluster_reads` | such an entry does make one wrong |
| `monitor_lifecycle` | 2 subscriptions, 1 subscriber, buffers of 1, connection gate | no send on a closed channel, `Stop` and `Close` are final, and both return |
| `modbus_server` | 2 connections, 2 addresses, one of the connections injected, 2 starts, limit 1, 1 frame | the client table holds every open connection whose address is its own, the limit is exceeded by at most one per restart, `Stop` leaves open only what an accept loop or `Start` had in hand, accept loops of a stopped server end |
| `eip_explicit` | 2 goroutines (bit writes, `ListTags`), 1 other client, limit 1, 1 retry | a reply reaches the goroutine that asked; a bit is lost only when two read-modify-writes overlap; the limit is exceeded only by connections admitted before an earlier one registered; a tag list is complete if its session lasted; the direct transport implements the slot; `Stop` empties the server |
| `eip_io` | 2 scanners, 3 goroutines, 2 opens, one scanner may lose its session or die | connection manager and runtime agree whenever no handler is between the two; input data comes from its own connection; consumers and stored data are mixed up only across scanners with equal IDs; `Shutdown` closes what it found if the session held |
| `end_to_end` | 2 or 3 operations of one protocol, at the limits of counts and addresses | see below |

`end_to_end` compares the whole chain of client, codecs, server and back with a
description of the device that knows no encoding. `ModbusEndToEnd`: four arrays
of 2^16 cells, written and read at both ends of the address space and at every
quantity limit. `ClusteredReadsAgree`: any three points, in any order, read
through the plan's windows give the bytes of reading each alone.
`TagPathsDecode`: a path built from a tag name is read back as the tag's parts, up
to symbols of exactly 255 bytes and paths of exactly 255 words.
`ExplicitEndToEnd`: tags, assemblies, I/O connections and the lists of one
EtherNet/IP server. `PCCCEndToEnd`: words, floats, timer fields and bits of a
controller, with transaction numbers across their wrap. `AddressesRoundTrip`:
which SLC addresses are accepted, and that `Address.String` inverts
`ParseAddress`.

The bounds are chosen for the cases of interest to happen, and for each property
a plausible bug in one of the mapped definitions is recorded (`mutants` in
`PROJECT.json`) that TLC catches within the same bounds. Two goroutines race for
a dial and can hold different sessions, so that a stale `Reset` meets a
reconnected transport. Two generations let loops of the old one outlive the
connect of the new one. Two calls let a late response meet another caller. A
write channel and event buffers of one fill up. Two starts with two connections
let an accept loop of the first start register under the second, and let the
deferred cleanup of one connection meet the entry of a namesake. Two opens let a
connection meet late datagrams of the one before it, or the equal ID of the other
scanner. With three points a window grows, is closed and is followed by another.
With two replans the plan changes under a `Read` in progress. Two operations
overwrite each other's cells; I/O connections and tags get three. Larger
instances leave the reach of TLC quickly; that is why the connection has a run
for generations and one for pipelining.

Deadlock is not checked: in every instance the system may simply be done (the
bounds are used up, or everything is closed). What must go on is stated as
liveness.

Fairness: goroutines that can run are scheduled, and `sync.Mutex` and
`sync.RWMutex` do not starve a waiter. In `RetryingClient` dials and operations
end, because of their timeouts; where a step competes for a lock or a select
this is strong fairness. In `TCPConn` nothing is assumed of the device, of the
caller's context or of `writer.Write`, which has no deadline; the timeout
monitor ticks. In `Monitor` reads and handlers end, and a select does not ignore
a closed stop channel for ever. In `ClusteringReader` the inner reader answers
or fails. In `ModbusServer` accept loops and connection goroutines run, and
`Accept` and reads return within their deadlines; clients may stay silent. In
`EIPExplicit` the server's goroutines and the goroutine in `Stop` run. The
properties of `IOExchange` and of `end_to_end` are safety properties.

The two violations are disagreements of the code with its own comments.

- `conn_slow_frames`: the read deadline is set once per frame (`conn.go:286`); if
  it passes after part of a frame was consumed, the loop continues
  (`conn.go:351`) and parses the rest as a header, which the comment at
  `conn.go:322-327` says must not happen.
- `cluster_stale_plan`: with a cache TTL, a block is stored and looked up by the
  window's index alone (`cluster.go:326`, `cluster.go:362`), so after a replan a
  `Read` may take a block of other addresses; the comment at
  `cluster.go:147-148` says the generation counter invalidates such reads.

Exceptions the properties make, because the code does not promise more:

- `StopReturns` and `CloseReturns` except a handler that calls `Stop` of its own
  subscription, or `Close`: it waits for itself (`monitor.go:412`).
- `StopIsFinal` is about a `Stop` that took the subscription; one overtaken by
  `Close` returns at once.
- `ClusteredReadsAgree` and the properties of what a `Read` returns except points
  that end at the last address: their uint16 end is 0 (`cluster_plan.go:73`).
- `NoOrphan`, `Correlated` and `OneOutcome` hold as long as the ID space does not
  wrap around under a call in progress (2 IDs, 2 calls), and the last two as long
  as frames arrive whole.
- `TrackedUnlessShared` and `OnlyRacedSurvive` except connections that share
  their remote address with another one: the table is keyed by it.
- `OnlyRacedSurvive` also excepts the connections in hand when `Stop` ran: one an
  accept loop has accepted and not registered (`server.go:368-408`), and the
  injected one between its capture and its registration (`server.go:231-236`).
  `Stop`'s comment (`server.go:278-279`) says it closes all active connections;
  these stay open until a later `Stop`, which finds them in the table.
- `TagPathsDecode` leaves open whether a tag may begin with a bare index, `[0]`:
  `ParseTagPath` accepts it (`tag.go:44-66`), while the comment of its helper
  allows it only as a follow-on segment (`tag.go:104-105`). It states the limits of
  the two length bytes as they are: a longer symbol (`path.go:153`) or path
  (`path.go:207`) is encoded with its length modulo 256, and no error.
- `ProducersTrackConnections` and `ConsumerLostOnlyIfShared` are about scanners
  with distinct originator serial numbers. O->T IDs are chosen by each scanner
  from 1 upwards and the runtime is keyed by them, so two scanners may share one.
- `TagsCompleteIfSessionLasted` is about a list whose session is still there:
  once it is lost `ListTags` skips the remaining instances and returns what it
  has (`client.go:501-505`), although its comment (`client.go:475-477`) promises
  a retry from scratch.
- `ReadWords` admits 127 words (`pccc/client.go`), the read below it 120;
  `PCCCEndToEnd` states the smaller limit.
- `OpenIO` is exercised with sizes below 512: a larger one spills into the other
  bits of the connection parameters (`io.go:198`), from which the server takes the
  size modulo 512.

## Proofs

All proofs are for every value of the constants, under the named assumptions
(`CallerAssumption`, `MaxDialAssumption`, `RetryAssumption`, `PoolAssumption`,
`ConnAssumption`, `MonitorAssumption`, `ServerAssumption`, `IOAssumption`,
`ExplicitAssumption`, `PlanAssumption`, `ReaderAssumption`): the bounds are
natural numbers, buffers and the ID space are not empty, the other clients of a
server are finitely many, points have addresses and lengths inside the address
space, and the value a module uses for "nobody" is not one of its goroutines or
connections. Two theorems have a hypothesis beyond these; both are discussed
below.

`RetryingClientProofs`, first the transport alone: type correctness,
`OneLiveSession`, `ClosedIsFinal`, `CallbacksTrackConn` and the refinement of
`SingleSession`. The inductive invariant adds to these that nothing is cached and
the transport is not closed while somebody dials, and that the cached session was
dialled: without the first a dial could overwrite a session, without the second
it could reuse one. Then the client: it drives the transport only through its
three methods, so the transport's theorems hold of the composition; sessions end
only by `Close` or after a fault on that session (`HealthySessionsKept`), because
a goroutine that resets holds a session it saw fail; and the attempt accounting
(`AttemptsAreDistinctFaults`), from the invariant that the cached session is in a
goroutine's set of failed ones only while that goroutine is about to reset it.

`TCPConnProofs`, the connection: `OnlyOwnFaults` and `TeardownComplete`. The
invariant `ConnInv` has three parts. `Shape` is the typing the argument needs.
`Blame` says a generation without a fault is not done, its peer is there, its
socket is not closed and none of its loops is ending, including the read loop that
will end after it has completed a transaction; so whichever loop calls
`setDisconnected` has a fault to show. `Lifecycle` ties together the done flags,
`connected`, the progress of the teardown, the pools and the sockets: a closed
pool is empty, pools after the current one are open, and the current generation
uses the current pool. The second is needed because `connect` takes the next pool
when the current one is closed. `PlaceIsFresh` shows that `Place` overwrites no
transaction in flight.

`TCPTrafficProofs` and `TCPConnProofs`, the requests and responses: `NoOrphan`,
`Correlated` and `OneOutcome`. The actions fall into a few kinds (`FlowStep`): a
call begins, places its transaction, hands it to the write loop, gives up or
returns; the write loop takes, drops or writes one; the read loop takes a frame
or completes a transaction; a pool is cleared. `TCPTrafficProofs` shows that each
kind keeps each invariant, `TCPConnProofs` that every action is of a kind
(`StepKinds`). The invariants are:

- `TrafficInv`: `ConnInv`, where a transaction can be, that whatever is on its way
  was given an ID, and that nothing is on its way in a generation not yet started;
- `CallsKnown`, for `NoOrphan`: no two calls share a transaction, and a call that
  waits has its outcome, or its transaction is in its generation's pool or with a
  read loop between `Release` and `Complete`;
- `HeldOwn`, for `Correlated`: what a read loop holds for a transaction is an error
  or that transaction's own answer;
- `PathInv` and `OutcomeInv`, for `OneOutcome`: a transaction is in one place on
  its way out and its request is written once; it is in one pool entry or with one
  read loop, and then has no response; and once it has an error nothing is left
  that could still bring it a response.

All three are false when an ID comes round again while an older transaction is
still named by it: the caller that gives up in the first select and the read loop
both say `Release(id)`, and would release the newer one. The theorems
`NobodyOrphaned`, `ResponsesMatch` and `OutcomeIsOne` therefore assume
`[]IdsNotReused`, which says exactly that this does not happen, and nothing about
how many calls there are. `IdsStayApart` proves it of a connection that makes at
most as many calls as there are IDs (`MaxTx <= NIds`; the code has 65536): every
pool numbers its transactions upwards, so what is in it or on its way under it
has a number given out before (`NumInv`). `EnoughIds` puts the two together, and
its condition is that of the runs. `Correlated` and `OneOutcome` need frames that
arrive whole as well; `conn_slow_frames` shows why.

`MonitorProofs`: `NoSendOnClosed`, `StopIsFinal` and `CloseIsFinal`. The
invariant relates the event channel to the position of `Close`, the subscriber
map to the channels' states, and the set `Close` is waiting for to the
goroutines that may still run; `Close` closes `events` only after every spawned
goroutine has ended.

`ModbusServerProofs`: `TrackedUnlessShared`, `OnlyRacedSurvive` and `LimitKept`.
`TableInv` adds to the first two that a connection no goroutine serves yet is in
one place only (a backlog, the hands of one accept loop or of `Start`, or still
injected), that the table has only served connections, and that what a loop or
`Start` has in hand while the server is stopped it had when `Stop` ran. The
deferred delete then removes a foreign entry only if two served connections share
an address. For the limit, `LimitInv` counts the entries together with the accept
loops that have passed the test and not yet registered, and with a `Start` on its
way to registering the injected connection: each is of another `Start`, and all
but one of them can be beyond the limit.

`IOExchangeProofs`: all safety properties of `eip_io`, for any number of scanners,
goroutines and opens. `IdInv` says that a T->O ID is the number of the connection
it was given to, that an O->T ID of a scanner is at any time with one goroutine
that asks, one request under way or one connection (`OneUse`), and that the
runtime files a consumer under the O->T ID of its own connection. Two connections
under the same O->T ID are then of different scanners, and a datagram's T->O ID
leads to one connection only: `InputFromOwnConnection` and
`CrossTalkOnlyAcrossScanners`. `TableInv` is about the two halves of a handler:
with distinct originators no two sessions work on the same connection, a
connection is in the connection manager's table from its insertion to its removal
(`BusyOwn`), and outside the handlers it has a producer exactly then (`Produced`)
and its consumer unless it timed out or its ID is shared (`Consumed`):
`ProducersTrackConnections` and `ConsumerLostOnlyIfShared`. `Snapshot` follows
`Shutdown` through its closes: what is left of its snapshot is still to be closed
or is being closed, with the request not yet looked up: `ShutdownClosesTable`.

`EIPExplicitProofs`, for any number of goroutines, other clients, retries and tags.
`RepliesMatched`: `MatchInv` says that a frame on the client's connection is the
only one and that the holder of `ioMu` waits for it, except requests the server
will never read; nothing but the order relates a reply to its request, so without
it a failed exchange could leave a reply to the next one. `LimitExceededOnlyEarly`:
`LimitInv` counts the table together with the connections on their way into it.
`ImplementsSlot`: every step of the composition is one of `DirectTransport`, which
by itself refines the slot. `BitsLostOnlyByOverlap`: a copy of the word that no
other write overtook holds every bit but its reader's own, in the goroutine or in
the reply (`Copies`), and a request the server may still read carries its
goroutine's copy (`Sent`). `TagsCompleteIfSessionLasted`: while both ends are open
the server knows the session, so that no exchange is refused (`SessionInv`), and
`ListTags` has every symbol before the one it is at (`TagsInv`).

`ClusteringReaderProofs`: `WrongOnlyFromForeignCache`, for any number of
goroutines, points and replans. `ReadInv` says that for some plan of each past
generation a block a `Read` holds, that a
flight carries, or that the cache has under the generation it was read for, is the
block of that plan's window; `ExtractIsOwn` shows that the 16-bit arithmetic of
the extraction then yields the point. The plan is made by a fold, of which nothing
can be proved here, so that a plan is a list of blocks with an address and a
length is the hypothesis `PlansAreBlocks`; TLC evaluates it for every list of
points of the run (`PlansHold` in `MCClusteringReader`).

Only model-checked: all liveness properties (their proof needs `ENABLED`), and
`ClusterPlan` with the operations of `end_to_end`, which compute with folds and
recursive functions over sequences, whose results cannot be proved without
induction.

## Not modelled

- `plc` (interfaces and value types), `logging`, `hexdump`, `lua` (argument
  conversion) and the test helpers hold no protocol state.
- Strings and some other widths in `Marshal`/`Unmarshal`, the registry of
  Rockwell types and the formatting of errors and values: tables and layouts.
- `Runtime.Stop` and `Scheduler.Stop`, and the bytes of assembly data inside I/O
  datagrams: `IOExchange` follows which connection data belongs to. The adapter
  example never calls `SetProducerAddr`, only `io_test.go:319` does; the model's
  adapter produces as if it had been called. (The comment at
  `examples/ethernetip/adapter/main.go:120-121` expects the address to be set by
  the first datagram, which no code does.)
- An injected connection of the EtherNet/IP server, which is served like an
  accepted one; that of the Modbus server is in `ModbusServer`.
- The UDP broadcast of the discovery; the frames are in `EIP`.
- Real time: a timeout may fire whenever the code allows it, and no property is
  about how long something takes. Context deadlines inside the transports are
  failed dials.
- The composition of `Monitor` with `ClusteringReader`: the monitor sees a reader
  that returns or fails, and `ReadsReturn` shows that the reader does.
- The examples other than the EtherNet/IP server and adapter, which only wire
  the library to a command line.
