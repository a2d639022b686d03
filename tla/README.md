# A TLA+ verification of ext-quiche

ext-quiche is a PHP extension in Rust that gives a PHP server QUIC streams. The
PHP thread creates a `QuicheServerSocket` and calls `tick()`; tokio worker
threads run one `StreamQuicDriver` per connection; the two sides meet in a few
bounded channels. What is hard about it is what happens between those threads,
and that is what these modules are about.

Paths below are relative to `src/` of the repository checkout, so `src/quiche/driver.rs`
is the file PROJECT.json calls `src/src/quiche/driver.rs`.

## 1. The system

| Component | Source | State | Operations |
|---|---|---|---|
| Driver, read side | `src/quiche/driver.rs` 20-129, 175-197 | `established`, `seen_streams` | `on_conn_established`, `process_reads`, `on_conn_close` |
| Driver, write side | `src/quiche/driver.rs` 68-71, 131-173 | `pending_writes`, its end of the write channel, `write_notify` | `wait_for_data`, `process_writes` |
| Channels | `src/quiche/socket.rs` 24-57, `src/quiche/conn.rs` 153-160 | event channel (8192), close channel (1024), a write channel per connection (256) | `try_reserve`/`send`, `try_send`, `recv`, `try_recv` |
| Server loop | `src/quiche/socket.rs` 107-370 | `connections`, `id_counter`, `listener_stream` | `tick`, `dispatch_driver_event`, `fire_on_close`, `close` |
| Connection record, callback slots | `src/quiche/conn.rs` | `php_stream_callbacks`, slot mutexes | `build`, `prepare_bidi_stream`, `prepare_uni_stream`, `make_slot_pair` |
| PHP stream objects | `src/stream.rs` | their two slots, write handle, `conn_handle` | `setOnData`, `setOnClose`, `write`, `close`, `openBidiStream`, `openUniStream` |
| Server socket object | `src/conn.rs` | `inner`, `event_fd` | `__construct`, `tick`, `close` |
| bind | `src/quiche/socket.rs` 60-105 | the sockets of the addresses | `bind` |
| eventfd functions, shutdown | `src/timer.rs`, `test-script.php` | the process's descriptor table, the `shutdown` flag | create, signal, close |
| Runtime singleton | `src/quiche/runtime.rs` | `RUNTIME` | `get_runtime`, `worker_thread_count` |
| Config | `src/config.rs` | `inner`, the two paths | getters, setters |
| SocketAddress, errors, registration | `src/conn.rs` 122-162, `src/quiche/error.rs`, `src/lib.rs` | plain fields | getters, setters |

How they interact. A driver sends `NewBidi`/`NewUni`/`Data` events, tagged with
its connection, into the one event channel, and its close into the one close
channel; neither send ever waits. `tick` takes them in its biased `select!` and
calls PHP closures from the handlers. PHP closures call back into the objects they
hold: they register closures, open streams, write, and may call `close()` on the
server under whose `tick` they run. A write goes through the
connection's write channel and a `Notify` to the driver. Another PHP thread ends
`tick` through an eventfd.

What is hard: the order of events that travel on two channels; channels that are
full; the biased order of the arms; three ways in which one stream can be told of
its close; PHP code that runs while a mutex is held, or closes the server in the
middle of a `tick`; a wakeup between `try_send`
and `notify_one`; partial writes and blocked streams; the ownership of a
descriptor shared by two threads, and what becomes of them when `dup` fails; threads that race to build the one runtime; a
`bind` that fails half way. PROJECT.json lists each at its line, with the
properties that cover it.

What makes the components correct:

* driver, read side: data is announced first, never announced twice, never lost,
  repeated or reordered; what is buffered is delivered; closes that are lost are no
  more than the connections held beyond the places of their channel;
* server loop and slots: `on_close` runs at most once per pair of slots, at least
  once for those that registered in time, with the right flag both ways; data finds
  its slots; a closure can open streams; closed connections are pruned; the signal
  ends `tick`; a closed server is silent, whenever `close()` came;
* write side: no lost wakeup, no starvation between streams, the stream is a pipe;
* shutdown: the waiting thread's descriptor is its own and stays what it is, nothing
  leaks, a thread that has its eventfd stops;
* setup: all threads share one runtime; a server has all its addresses or none is
  taken; a `Config` reads back what it was given.

## 2. The modules

    Channels ── QuicDriver ─┐
        └─── PhpStreams ── ServerLoop ── QuicheServer ── DocClaims ── MCQuicheServer
                                              ├── QuicheServerProofs ── DeliveryProofs
                                              │                           └── ContractProofs
                                              └── StreamContract (abstract)
    WritePath ── MCWritePath                     EventFdShutdown ── EventFdProofs
        ├── WritePathProofs ── PipeProofs
        └── StreamPipe (abstract)
    Config ── ServerSetup ── MCServerSetup
        └── ConfigProofs ──── ServerSetupProofs

* **Channels**: the names of connections, streams and events, and the two shared
  channels. A chunk of data is a range of numbered units: all that the properties
  tell apart.
* **QuicDriver**: the read side of a driver as a state machine per connection.
  `drv[c]` is the place in the code: waiting, packets received, at the head of the
  outer loop of `process_reads`, at the head of its inner loop, holding a permit.
  Each access to a shared channel is an action. A permit counts against the
  channel's capacity (`CanReserve`). External and marked so: quiche's receive
  state of a stream (`rx`), its list of readable streams (`readable`), and that
  tokio-quiche calls `process_reads` after packets and not otherwise. The list is
  as driver.rs depends on it: `stream_readable_next` takes a stream off; a read
  that does not empty the stream puts it back; a frame adds the stream only if it
  was not readable before.
* **PhpStreams**: slots. The pairs of slots of a stream id are numbered; the map
  holds the number of the current pair, the objects in PHP's hands keep theirs.
* **ServerLoop**: the PHP thread. `pc` names the arm the poll looks at next (the
  drivers send between two arms), or that a callable runs, a map is being drained,
  script code runs, or the thread waits for a mutex it holds itself (`stuck`). A
  handler runs up to the callable it invokes; the rest of it is a later action.
  Script code runs between two ticks and in every callable, and `Close` has no other
  condition: in a callable it drains the connections on top of what is under way.
  `caller` is the frame it returns to: the callable's own resumption, the mutexes
  held, and the drain it was called from. (One frame is enough: after `close()` there
  are no connections, so a second one drains nothing.) What the interrupted `tick`
  still refers to may be gone then. `stale_efd` says that it refers to a dropped
  eventfd; reading that may fail, which ends `tick`, or stay pending, or do anything
  (`TimerStale`, `pc = "undefined"`, after which the model says nothing more). Likewise
  the second half of a data event whose record `close()` dropped (`FinishStale`).
  Two histories serve the properties: `late`, the closures registered where nobody
  looks any more, and `peak`, the most connections that have been held at a time.
* **QuicheServer**: the composition, the fairness and the properties.
* **StreamContract**: what PHP may rely on when it is given a stream: at most one
  pair of slots is open on it, data comes only while one is, and a pair is ended
  once, never after it was replaced. `QuicheServer!ImplementsContract` maps a line
  to a stream of a connection, `open` and `used` to the slot map and its counters,
  `got` to the history of dispatched data and `told` to the log of `on_close`.
* **MCQuicheServer**, **MCWritePath**, **MCServerSetup**: values of the constants
  for TLC.
* **DocClaims**: what comments claim and the program does not do (section 5); those
  about descriptors are at the end of EventFdShutdown, that about writes in WritePath.
* **WritePath**: the write side of one connection, from `write()` to
  `stream_send`. External: how much window a stream has, when the peer raises its
  stream limit or stops a stream, and when quiche refuses a send. It is a module of
  its own because it shares no variable with the read side.
* **StreamPipe**: the abstract contract of a written stream: units come out in
  order, once each, without a gap, none behind the FIN. `WritePath!ImplementsPipe`
  is that WritePath implements it, for the streams within the peer's limit.
* **EventFdShutdown**: `__construct`, `tick` and `close` of the socket object and
  the main thread of `test-script.php`, over an explicit table of descriptors with
  the lowest-free-number rule. The table may be full. `eventfd` and `dup` may fail at
  any time and for any reason, and construction goes on with `None`. Main may close
  its descriptor at any time, once; `closedEarly` remembers that it did so before the
  `dup`. The script passes three of `__construct`'s four
  arguments (test-script.php:17); the model takes the fourth as given.
* **ServerSetup**: `__construct` on several threads up to the server it returns.
  `at[t]` is the place in the code; each access to `RUNTIME` is an action, and so is
  the binding of each address, in any order, as `try_join_all` polls them. A runtime
  is a record of its builder and its workers; `alive` holds those not dropped. Each
  thread may construct again after an exception, and other threads hold addresses it
  wants. External: who has a socket on an address (`owner`).
* **Config**: one field that stands for all that are stored as they come (about
  thirty pairs of accessors of one line each; the map names the pair it was
  translated from), one timeout, one reset token, and the conversions the last two go through:
  milliseconds to seconds and a rest, and hexadecimal text to a bounded number. A
  text is a sequence of digits; one further value stands for any character that is
  none. (`from_str_radix` also takes a leading `+`, which no text here has.)

Definitions named `X_Y` beside a definition `X` (`Remainder_KeepWhole`,
`Woken_NoTimer`, ...) are wrong versions of it, of the kind a careless change
would make. Nothing uses them; for each property of each passing run, one of them
put in X's place makes that property fail, which shows that the property speaks
about the code.

## 3. Bounds

| Constant | In the code | In the runs | Why it is enough |
|---|---|---|---|
| `MaxConns` | unbounded | 1, or 2 where drivers compete | properties are per connection, or about two competing for a channel |
| `Streams` | unbounded | one or two, out of 0 (client bidi), 1 (server bidi), 2 (client uni) | each kind of stream, and two streams of a connection |
| `EventCap` | 8192 | 1-3 so that it fills; 6 in Liveness so that it cannot | full and not full are the only cases `try_reserve` knows |
| `CloseCap` | 1024 | 1: with two connections (Delivery) it fills and signals are dropped | the same |
| `MaxUnits` | unbounded | 1 unit of data per stream | a chunk and a FIN, together or apart, or a reset: two events of a stream are the least that can be swapped |
| `MaxPairs` | unbounded | 1 | a stream id used once (again: end of section 5) |
| `WriteCap`, `Sizes`, `MaxWritten`, `MaxWrites`, `MaxWindow` | 256, unbounded | 2, chunks of 2 units (1 in Doc_WriteGap), up to 2 units | one chunk accepted whole, in parts, not at all; empty FINs; in Write one chunk on the limited stream, two on the other |
| `Threads`, `Addrs`, `AddrLists` | unbounded | 2, 2, all of one or two addresses in conflict, the empty list, an address twice | a race has two sides; the theorems are for any number |
| `EnvWorkers`, `Cores` | any number | unset, 0, 1; unknown, 1 | each branch of `worker_thread_count`, at its edge |
| `MsPerSec`, `Radix`, `TokenMax` | 1000, 16, 2^128 - 1 | 2, 2, 3 | a second and a half, texts without, with too many and with leading zero digits, and the largest number |
| `Fds`, `MaxOthers` | the process | 3, 3 | main's, the thread's, and others that take a freed number or fill the table |

`NumberUnits = FALSE` makes a peer's traffic endless with a finite state space:
units lose their numbers and `MaxUnits` is the receive window.

All runs set `CHECK_DEADLOCK FALSE`: the traffic, the arrivals and the writes of
a run are bounded, so every model may come to rest.

## 4. Fairness

* `LoopGoesOn`: weak fairness of what the PHP thread does by itself. The script
  calls `tick` in a loop (test-script.php:18) and its closures return. Nothing is
  assumed of what the script chooses to do (`ScriptStep`).
* `DriverGoesOn`: weak fairness of a driver's own steps: tokio schedules a task
  that can run. Nothing is assumed of peers, timers or the main thread.
* `PeerGoesOn` (only in Doc_Backpressure): the peer keeps sending at least
  acknowledgements. It makes that counterexample stronger: the data stays even so.
* `FairWriteSpec`: `write()` runs on to `notify_one`, the worker is scheduled, and
  the peer keeps granting window (without which nobody could promise a send).
* `FairSetupSpec`: a thread inside `__construct` goes on. That is all: binding may
  fail instead of succeeding, and nothing is assumed of which of the two it does.
* `FairFdSpec`: both threads are scheduled; main need not close its descriptor. That
  the thread's `tick` returns when its eventfd has fired is `SignalEndsTick`, checked
  in Liveness for finite traffic: under endless traffic it is false
  (Doc_TimerStarved), and `ShutdownStopsThread` with it.

Strong fairness is used nowhere.

## 5. Runs

Passing:

* **Lifecycle**: a stream the client opened and one the server opened, with FIN,
  reset, close signal and `close()` in any order, and a script that registers late,
  opens streams in its closures, closes the server in them and re-enters its locks.
  `OnCloseAtMostOnce`, `PeerFlagTruthful` and `ToldOfClose` are about the three ways
  to `fire_on_close`. The flag is checked both ways: true only after a FIN or a
  CONNECTION_CLOSE of the peer, false only when the peer did not close the connection
  or `close()` did; that a timeout is false is what the code means
  (`driver.rs:183-185`) and not what PHP is told (Doc_TimeoutIsPeer).
  `OpenNeverBlocks` says that the map mutex is free again when a closure for data, a
  FIN or a new stream runs; `ImplementsContract` that, among the rest, no chunk is
  handed out for a stream without slots; `ClosedIsSilent` that after `close()` no
  connection is taken and no data reaches PHP, though drivers and channels live on,
  and that the last calls of `on_close` are those of its own drain and of the drain
  or FIN it was called in. `ToldOfClose` is about
  stream ids that are opened once (a reopened id is the last entry of the list at
  the end of this section) and closures registered in time: not in `late`.
* **Delivery**: two drivers, with a chunk and a FIN each, an event channel of two
  places and a close channel of one; both fill. `AnnouncedBeforeData`,
  `NeverReannounced`, `InOrder`, and `FewClosesLost`: a record whose close signal was
  dropped is `Forgotten`, for nobody else removes it; at any time there are no more of
  these than the server has held at a time (`peak`) beyond the places of the channel.
* **Liveness**: with finite traffic and an event channel that never fills,
  `ClosedIsPruned`, `SignalEndsTick`, `BufferedIsDelivered`, whatever the script
  opens, closes and signals, inside `tick` too. With one connection the close channel
  has its place: `ClosedIsPruned` is about the wakeup of a parked loop, not about a
  full channel. The full event channel is Doc_Backpressure's.
* **Write**: a stream the peer may stop and one beyond the peer's limit at first,
  written by PHP while the worker drains and flushes. `NoLostWakeup`,
  `NoStarvation` for both; `ImplementsPipe` and, under fairness, `WrittenIsSent`
  for the allowed one, whatever becomes of the other.
* **Shutdown**: the script's two threads and other users of the descriptor table.
  `TickOwnsEventFd`: what `tick` waits on is the thread's own, and the eventfd, unless
  main closed that before the `dup`. `OwnedFdIsStable`: what it refers to never changes
  under the thread. `NoLeakedFd`. `ShutdownStopsThread`: a thread that is told to stop,
  with a signal that got through, stops or is in a `tick` without an eventfd of main's
  (`Deaf`: `dup` failed, or main closed too early; end of this section).
* **Setup**: two threads that construct servers, again after a failure, on lists of
  addresses that overlap, are empty or name an address twice. `OneRuntime`: whoever
  wins, all servers are on the runtime in `RUNTIME`, and no other runtime stays.
  `AllOrNothing`: all addresses or none. `ConstructEnds`: also for the loser.
  `SetupTypeOK` includes that a runtime has at least one worker, whatever
  `QUICHE_WORKER_THREADS` says. `CopiesOver`: what the getters of one `Config` give,
  the setters of another take.

Expected violations: what a comment says and the code does otherwise. The shortest
counterexamples, in words:

* **Doc_Backpressure** (`driver.rs:94-96`). The channel is full when
  `process_reads` has announced a stream and wants to read it. It breaks out, but
  `stream_readable_next` has already taken the stream off quiche's list; it is not
  taken up again, however much the peer sends on the connection or acknowledges,
  and the data stays.
* **Doc_TimerStarved** (`socket.rs:131`). A peer that keeps the event channel from
  being empty keeps the biased `select!` from its last arm. (tokio's cooperative
  budget does not help: when it is used up every arm is pending, and the next poll
  begins with the events again.)
* **Doc_EveryChunk** (`stream.rs:45`). The poll finds no event and moves to the
  close arm; the driver sends a chunk and then its close; the close is taken first
  and the chunk is a late event.
* **Doc_ResetReported** (`stream.rs:162-163`). The peer resets a unidirectional
  stream; nothing is sent to the server.
* **Doc_WriteGap** (`driver.rs:40`). PHP writes a stream beyond the peer's limit;
  the first chunk is refused and popped, the limit rises, the second is sent.
* **Doc_TimeoutIsPeer** (`stream.rs:56-58`). The connection of a stream with an
  `on_close` runs into its idle timeout; `peer_error()` is none and `on_close` gets
  `false`, which is documented as "the local server initiated the close".

Other divergences met while modelling, which have no run of their own. The modules
define what the comment claims; TLC violates it in the setting named:

* `socket.rs:52-53`, the close signal is fired "so the server prunes its handle"
  (`CloseNeverLost`, setting of Delivery). Two connections close before the server
  takes the first signal from a close channel of one place: the second signal is
  dropped with a log line and the record stays for ever. `FewClosesLost` says how many
  can stay so.
* `conn.rs:89`, `tick` "returns when the timer fires" (`SignalReturns`, setting of
  Liveness). The eventfd is signalled; before the poll gets to it a callable closes
  the server, which drops the eventfd under the running `tick`, and `tick` waits for
  what never comes (or uses what was dropped).
* `conn.rs:51-53` and `57-59`, main "can close that fd at any time"
  (`DuplicateIsEventFd`, setting of Shutdown). Main closes its descriptor before the
  thread has duplicated it, somebody opens another under that number, and `dup`
  succeeds on the wrong one.
* `conn.rs:88-90` again, where `dup` fails (`SignalStopsThread`, setting of Shutdown).
  Others fill the descriptor table, construction goes on without an eventfd; main
  raises the flag and signals, with its descriptor open all along, and the thread stays
  in `tick`.
* `socket.rs:344-345`: an `on_data` closure that calls `setOnData` on its own
  stream waits for the mutex `dispatch_driver_event` holds: `pc = "stuck"`,
  reached in Lifecycle.
* `conn.rs:89-90`: without an eventfd, after `close()` the listener arm is
  exhausted and `tick` waits for ever (`WithEventFd = FALSE`).
* `stream.rs:52-53`: the script opens the id of a stream it has been given; the
  entry is replaced (`quiche/conn.rs:92-98`) and the first object's `on_close` is
  never invoked. (`PhpOps = {"open"}`, `OpenIds = {0}`, `MaxPairs = 2` makes TLC
  find it against `ToldOfClose`.)

## 6. Proofs

TLAPS checks, for every value of the constants (from the named assumptions
`ChannelsAssumption`, `DriverAssumption`, `PhpStreamsAssumption`,
`ServerLoopAssumption`, `WritePathAssumption`, `EventFdAssumption`,
`ConfigAssumption`, `SetupAssumption`, which TLC evaluates in every run of the modules that state
them):

* `TypeCorrect` (QuicheServerProofs): one lemma per group of actions (`AcceptType`,
  `DriverType`, `ConnType`, `DispatchType`, `FinishType`, `LoopType`, `ScriptType`).
* `OnCloseOnce`: `OnCloseAtMostOnce` alone is not inductive: a second call could
  come for a pair already told. `ToldPairsAreGone` says why it does not: a pair that
  was told is not in the map, and pairs are numbered upwards. `SlotSteps` reduces
  `Next` to what matters: a step leaves slots, pairs and log alone, inserts a pair,
  or fires.
* `OpenIsSafe`: `OpenNeverBlocks`, from `DrainInv`: a map is locked only for a
  connection that is being drained, by the current drain or by the one a `close()` put
  by (`caller.drain`); that one has left `connections`; and while any
  is, the thread does nothing but drain and run the closures of the drain. Without
  the last part an accept or a dispatch in the middle of a drain could not be
  excluded. That the frame of a `close()` is empty unless its drain returns to a
  callable shows that one frame is enough.
* `SilentOnceClosed`: the action property `ClosedIsSilent`, from `ClosedInv`: a
  closed server has no record. No condition on when `close()` comes is needed: what
  it interrupts is named by `draining` and `finish`, and nothing fills these again.
* `FewAreForgotten` (DeliveryProofs): `FewClosesLost`, for any capacity, also of a full
  channel, and any number of connections over the life of the server. `KeptInv` adds
  that the signals in the channel are of different connections, all closed, and that
  until `close()` each of those still has its record: a record goes with its signal. So
  when a signal is dropped, the records in the channel and the forgotten ones, the new
  one among them, are different records, and by the pigeonhole principle no more than
  there are (`Outnumbered`). Every other step makes none forgotten (`FewerLost`).
* `DataIsAnnounced` (DeliveryProofs): a look at the channel does not show why a chunk
  that is about to be pushed has its announcement before it. `AnnounceInv` says that
  the streams in `seen_streams`, and the one `process_reads` is at, are announced.
  Here and below a step is first reduced to what it does to the streams (`StepKinds`):
  most are `Calm`; the others push one event, take one, or open a stream.
* `AnnouncedOnce`: from `OnceAnnouncedInv`: a stream that has left `seen_streams` has
  had its FIN read and never turns readable again; every other one that is not in it
  was not announced. It assumes that the script opens streams under the server's own
  ids: `quiche/conn.rs:92` takes any id, and a script that uses one of the peer's does
  break the property.
* `ChunksInOrder`: `InOrder` speaks of neighbours in the channel. `Chain` says that the
  chunks of a stream there are links that lead from what PHP has to what the driver has
  read; a push adds the last link, a receive takes the first. (It assumes
  `NumberUnits`, without which the units of the model have no positions.)
* `PeerFlagIsTrue` (ContractProofs): `CauseInv` follows the reason of a close, for
  both values of the flag (`SaysOf`), from `on_conn_close` through the signal to the
  drain, also a drain that a `close()` put by and that is taken up again
  (`DrainsKeepFlag`); `FinInv` follows that of a FIN: it is the
  last chunk of its stream, and a pair that is gone from the map of a live connection
  was ended by it.
* `EveryCloseIsTold`: from `ToldInv`: a pair with an `on_close` that was not registered
  late has been told, or is the one in the map of a connection that is live or being
  drained, by `close()` or by what `close()` interrupted. It assumes
  `OpensOnce`, that the script opens an id once and none of the peer's; otherwise the
  entry is replaced and its `on_close` lost (end of section 5).
* `ServerKeepsContract`: the refinement of `StreamContract`. `GiveInv` joins the
  invariants above; from them the pair of a chunk is still in the map when the chunk is
  dispatched (`HeadHasPair`). Then a dispatch is `Give`, the insertion of a pair `Open`,
  each `fire_on_close` `End`, and everything else a stutter.
* `WritesArePipes` (PipeProofs): the refinement of `StreamPipe`, for the streams within
  the peer's limit. `PipeInv` joins `pending_writes` and the write channel into one line
  per stream (`LineOf`), which is `Whole`: its chunks follow one another from what quiche
  has accepted to what PHP has written, the first FIN where `finAt` says. Lemmas about
  lines (`LinePush`, `LineMove`, `LineTake`, `LinePart`) say that pushing at the end,
  moving the first chunk of the channel to the queue, sending one whole or in part keep
  it so. A stream that was refused keeps what was accepted before. `NoGapWithinLimit` is
  the corollary for `Limited = {}`.
* `RuntimeIsOne` (ServerSetupProofs): `OneRuntime` is not inductive, for a thread
  could have built two runtimes, or be about to set the one that is set.
  `RuntimeInv` adds that a thread has at most one unset runtime, and that the
  builder of the set one is past building.
* `BindIsAllOrNothing`: `AllOrNothing`, from `BindInv`: in `bind`, what is bound and
  what is left make up what was given. `TakenOff` is the lemma about the list.
* `ConfigCopiesOver`, `SetupTypeCorrect`: the conversions recurse over digits, so the
  lemmas of ConfigProofs go by induction. The induction theorems of the library take an
  operator, which the provers cannot instantiate; `WFMin` takes a set, and gives
  induction as a lemma about sets of numbers (`Smallest`, `Induction`). With it: the
  functions that `FoldLeft` and `Hex` define exist (`FoldExists`, `HexExists`), reading
  goes character by character (`ReadAppend`) and stays in range (`ReadInRange`), and
  what was written is read back (`FromHex`); for timeouts, `FromAsMillis`.
* `WriteTypeCorrect` (WritePathProofs): in particular that the remainder of a
  partial write is a chunk again.
* `Rung`: `NoLostWakeup`, from `RungFor`: outside the drain, a chunk in the channel
  has a permit or a notify about to come. A drain ends with an empty channel.
* `NoneStarved`: `NoStarvation`, from `LeftBlocked`: during the flush, a stream that
  is neither still to be visited nor being visited has no chunks or no window.
* `TickOwns`, `FdIsStable`, `NoneLeaked`, `FdTypeCorrect` (EventFdProofs): from
  `FdOwners`, which says where the two threads can be and who owns which number. Main's
  number stays taken until main closes it, so a `dup` before that is of the eventfd and
  gets another number; a close before the `dup` is what `closedEarly` remembers, and
  what is duplicated then may be anything. Nobody but the server object closes a number
  it owns, for main's is a different one (`FreeIsNotOwned`). And every number of the
  eventfd is main's or the thread's. The only assumption is that descriptors are
  natural numbers: a full table and a failing `dup` are included, and then `event_fd` is
  `None` and the theorems say nothing of `tick` (`Deaf`).

So each invariant, action property and refinement that a passing run checks is also
a theorem. Only model-checked are the liveness properties (`ClosedIsPruned`,
`SignalEndsTick`, `BufferedIsDelivered`, `WrittenIsSent`, `ShutdownStopsThread`,
`ConstructEnds`): fairness and ENABLED are out of the prover's reach.

## 7. Not modelled

* What `listen` makes of the sockets, and several listeners at one server: the
  model has one source of arrivals.
* `tick` calls `get_runtime` again; by `OneRuntime` it is the runtime the server was
  bound on, so ServerLoop leaves it out. Calling `tick` or `__construct` inside a
  closure panics in tokio's `block_on`, and is left out too.
* `bind` takes a copy of the settings. What the script sets on its Config later is
  not looked at, so ServerSetup lets the Config change at any time and the two parts
  share nothing.
* What happens after undefined behaviour. A `close()` inside `tick` also makes a
  second `&mut` of an object that is borrowed already; the model lets the two run as
  the machine code would, step by step, up to the use of something dropped
  (`pc = "undefined"`).
* A main thread that closes one number twice, and so closes somebody else's: the
  functions of `timer.rs` take any number, and the script closes its own once at most.
* What a slot holds when a closure replaces another: which of the two is called makes
  no difference to the properties.
* `SocketAddress`, errors, module registration: one field each, nothing to get wrong
  between them.
* quiche, tokio-quiche, tokio: external, from how the code uses them. In
  particular whether the worker calls `on_conn_close` after a failed handshake is
  theirs; the model follows `should_act` and says no, and no property depends on it.
* The argument passing of the PHP binding, UTF-8, the size of the read buffer.
* A bound on `pending_writes`: the code has none.

## 8. Plan

Done: Channels, QuicDriver, PhpStreams, ServerLoop, QuicheServer, StreamContract;
WritePath and StreamPipe; EventFdShutdown; Config and ServerSetup; the theorems of
section 6.

Extensions that remain:

1. The two sides of a bidirectional stream together: `write()` inside `on_data`.
2. Several addresses: `SelectAll` over listeners.
