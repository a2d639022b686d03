----------------------------- MODULE WritePath -----------------------------
(***************************************************************************)
(* The write side of one connection: write() and close() of the PHP stream *)
(* objects (src/stream.rs) push chunks into the connection's write channel *)
(* and ring write_notify; the driver (src/quiche/driver.rs) moves them     *)
(* into a queue per stream and offers them to quiche.                      *)
(*                                                                         *)
(* The PHP thread and the driver's worker run concurrently: try_send,      *)
(* notify_one, each try_recv and each stream_send are steps of their own.  *)
(* What quiche's stream_send answers is external: it has room for window   *)
(* units of a stream, or refuses the stream.                               *)
(*                                                                         *)
(* Definitions named X_Y are wrong versions of X: each run has to find the *)
(* property it checks violated when one of them takes the place of X.      *)
(***************************************************************************)
EXTENDS Integers, Sequences

CONSTANTS
  WriteStreams,  \* the streams PHP writes to
  WriteCap,      \* capacity of the write channel, 256 in ConnState::build
  Sizes,         \* sizes of the chunks PHP writes, in units
  MaxWritten,    \* bound: units PHP writes to one stream
  MaxWrites,     \* bound: chunks PHP writes to one stream
  MaxWindow,     \* bound: units the peer grants a stream in a run
  Limited,       \* streams beyond the peer's stream limit at first
  CanStop        \* streams the peer may send STOP_SENDING for

ASSUME WritePathAssumption ==
  /\ WriteCap \in Nat \ {0}
  /\ Sizes \subseteq Nat
  /\ MaxWritten \in Nat /\ MaxWindow \in Nat
  /\ MaxWrites \in [WriteStreams -> Nat]
  /\ Limited \subseteq WriteStreams /\ CanStop \subseteq WriteStreams \ Limited

VARIABLES
  php,        \* "run", or "notify" between try_send and notify_one
  written,    \* units handed to write() so far, per stream
  writes,     \* calls of write() and close() so far, per stream
  finAt,      \* units written when the first FIN was, -1 before it
  queue,      \* the write channel
  permit,     \* write_notify holds a permit
  worker,     \* where the driver's task is
  pending,    \* pending_writes, <<>> for a stream without an entry
  todo,       \* streams process_writes has yet to visit
  at,         \* the stream it is visiting, as a set
  window,     \* external: units quiche has room for
  granted,    \* external: units the peer has granted in all
  refused,    \* external: streams for which stream_send is an error
  sent,       \* external: the units quiche has accepted, in their order
  finSent     \* external: streams whose FIN quiche has accepted

phpSide == <<php, written, writes, finAt>>
quicheSide == <<window, granted, refused, sent, finSent>>
writeVars == <<phpSide, queue, permit, worker, pending, todo, at, quicheSide>>

\* A chunk is units off + 1 .. off + n of its stream.
Chunk == [off: Nat, n: Nat, fin: BOOLEAN]
StreamWriter == [stream: WriteStreams, chunk: Chunk]

\* "wait" in wait_for_data, "drain" in the try_recv loop of process_writes,
\* "flush" in its retain, "closed" when the driver is dropped.
WorkerStates == {"wait", "drain", "flush", "closed"}

\* Every variable has its type.
WriteTypeOK ==
  /\ php \in {"run", "notify"}
  /\ written \in [WriteStreams -> Nat] /\ writes \in [WriteStreams -> Nat]
  /\ finAt \in [WriteStreams -> Nat \cup {-1}]
  /\ queue \in Seq(StreamWriter)
  /\ permit \in BOOLEAN
  /\ worker \in WorkerStates
  /\ pending \in [WriteStreams -> Seq(Chunk)]
  /\ todo \in SUBSET WriteStreams /\ at \in SUBSET WriteStreams
  /\ window \in [WriteStreams -> Nat] /\ granted \in [WriteStreams -> Nat]
  /\ refused \in SUBSET WriteStreams
  /\ sent \in [WriteStreams -> Seq(Nat)]
  /\ finSent \in SUBSET WriteStreams

WriteInit ==
  /\ php = "run"
  /\ written = [s \in WriteStreams |-> 0] /\ writes = [s \in WriteStreams |-> 0]
  /\ finAt = [s \in WriteStreams |-> -1]
  /\ queue = <<>> /\ permit = FALSE
  /\ worker = "wait"
  /\ pending = [s \in WriteStreams |-> <<>>]
  /\ todo = {} /\ at = {}
  /\ window = [s \in WriteStreams |-> 0] /\ granted = [s \in WriteStreams |-> 0]
  /\ refused = Limited
  /\ sent = [s \in WriteStreams |-> <<>>] /\ finSent = {}

-----------------------------------------------------------------------------
(***************************************************************************)
(* The PHP thread.  When the channel is full, or closed with the driver,   *)
(* try_send fails, PHP gets an exception and nothing changes.              *)
(***************************************************************************)
TrySend(s, n, fin) ==
  /\ php = "run" /\ worker # "closed" /\ Len(queue) < WriteCap
  /\ queue' = Append(queue,
       [stream |-> s, chunk |-> [off |-> written[s], n |-> n, fin |-> fin]])
  /\ written' = [written EXCEPT ![s] = @ + n]
  /\ writes' = [writes EXCEPT ![s] = @ + 1]
  /\ finAt' = IF fin /\ finAt[s] = -1
                THEN [finAt EXCEPT ![s] = written[s] + n] ELSE finAt
  /\ php' = "notify"
  /\ UNCHANGED <<permit, worker, pending, todo, at, quicheSide>>

Write(s) ==
  /\ writes[s] < MaxWrites[s]
  /\ \E n \in Sizes, fin \in BOOLEAN :
       written[s] + n <= MaxWritten /\ TrySend(s, n, fin)

\* close() writes an empty chunk with the FIN.
CloseStream(s) == writes[s] < MaxWrites[s] /\ TrySend(s, 0, TRUE)

NotifyOne_WaitersOnly ==
  /\ php = "notify"
  /\ php' = "run" /\ permit' = (worker = "wait")
  /\ UNCHANGED <<written, writes, finAt, queue, worker, pending, todo, at,
                 quicheSide>>

\* Notify keeps one permit at most; it wakes the worker or waits for it.
NotifyOne ==
  /\ php = "notify"
  /\ php' = "run" /\ permit' = TRUE
  /\ UNCHANGED <<written, writes, finAt, queue, worker, pending, todo, at,
                 quicheSide>>

-----------------------------------------------------------------------------
(***************************************************************************)
(* What leads to process_writes: the notification, or a packet.            *)
(***************************************************************************)
BeginWrites ==
  /\ worker = "wait" /\ worker' = "drain"
  /\ UNCHANGED <<phpSide, queue, pending, todo, at, sent, finSent>>

WaitForData ==
  /\ permit /\ permit' = FALSE
  /\ BeginWrites
  /\ UNCHANGED <<window, granted, refused>>

\* External: MAX_STREAM_DATA, MAX_DATA or acknowledgements make room.
WindowGrows(s) ==
  /\ granted[s] < MaxWindow
  /\ BeginWrites
  /\ granted' = [granted EXCEPT ![s] = @ + 1]
  /\ window' = [window EXCEPT ![s] = @ + 1]
  /\ UNCHANGED <<permit, refused>>

\* External: MAX_STREAMS.
LimitRises(s) ==
  /\ s \in Limited \cap refused
  /\ BeginWrites
  /\ refused' = refused \ {s}
  /\ UNCHANGED <<permit, window, granted>>

\* External: STOP_SENDING.
StopSending(s) ==
  /\ s \in CanStop \ refused
  /\ BeginWrites
  /\ refused' = refused \cup {s}
  /\ UNCHANGED <<permit, window, granted>>

-----------------------------------------------------------------------------
(***************************************************************************)
(* process_writes, first loop: try_recv until the channel is empty.        *)
(***************************************************************************)
DrainOne ==
  /\ worker = "drain" /\ queue # <<>>
  /\ LET m == Head(queue) IN
     pending' = [pending EXCEPT ![m.stream] = Append(@, m.chunk)]
  /\ queue' = Tail(queue)
  /\ UNCHANGED <<phpSide, permit, worker, todo, at, quicheSide>>

DrainEnds_VisitNone ==
  /\ worker = "drain" /\ queue = <<>>
  /\ worker' = "flush"
  /\ UNCHANGED <<phpSide, queue, permit, pending, todo, at, quicheSide>>

DrainEnds ==
  /\ worker = "drain" /\ queue = <<>>
  /\ worker' = "flush"
  /\ todo' = {s \in WriteStreams : pending[s] # <<>>}
  /\ UNCHANGED <<phpSide, queue, permit, pending, at, quicheSide>>

-----------------------------------------------------------------------------
(***************************************************************************)
(* process_writes, second loop: retain visits the streams one by one.      *)
(***************************************************************************)
VisitStream(s) ==
  /\ worker = "flush" /\ at = {} /\ s \in todo
  /\ at' = {s} /\ todo' = todo \ {s}
  /\ UNCHANGED <<phpSide, queue, permit, worker, pending, quicheSide>>

Visiting(s) == worker = "flush" /\ s \in at /\ pending[s] # <<>>

\* stream_send takes k units of the chunk at the head.
Accepted(s, k, fin) ==
  LET off == pending[s][1].off IN
  /\ sent' = [sent EXCEPT ![s] = @ \o [i \in 1 .. k |-> off + i]]
  /\ window' = [window EXCEPT ![s] = @ - k]
  /\ finSent' = IF fin THEN finSent \cup {s} ELSE finSent

\* Err(FinalSize): the stream's FIN is sent and the chunk would undo it.
AfterFin(s) ==
  s \in finSent /\ ~(pending[s][1].n = 0 /\ pending[s][1].fin)

Refuses(s) == s \in refused \/ AfterFin(s)

SendAll(s) ==
  /\ Visiting(s) /\ ~Refuses(s) /\ pending[s][1].n <= window[s]
  /\ Accepted(s, pending[s][1].n, pending[s][1].fin)
  /\ pending' = [pending EXCEPT ![s] = Tail(@)]
  /\ UNCHANGED <<phpSide, queue, permit, worker, todo, at, granted, refused>>

Remainder_Negative(chunk, k) == [chunk EXCEPT !.off = @ + k, !.n = k - @]
Remainder_KeepWhole(chunk, k) == chunk
Remainder(chunk, k) == [chunk EXCEPT !.off = @ + k, !.n = @ - k]

SendPart(s) ==
  /\ Visiting(s) /\ ~Refuses(s)
  /\ 0 < window[s] /\ window[s] < pending[s][1].n
  /\ Accepted(s, window[s], FALSE)
  /\ pending' = [pending EXCEPT ![s][1] = Remainder(@, window[s])]
  /\ at' = {}
  /\ UNCHANGED <<phpSide, queue, permit, worker, todo, granted, refused>>

SendBlocked_EndFlush(s) ==
  /\ Visiting(s) /\ ~Refuses(s)
  /\ window[s] = 0 /\ pending[s][1].n > 0
  /\ at' = {} /\ todo' = {}
  /\ UNCHANGED <<phpSide, queue, permit, worker, pending, quicheSide>>

\* Err(Done): no window right now.
SendBlocked(s) ==
  /\ Visiting(s) /\ ~Refuses(s)
  /\ window[s] = 0 /\ pending[s][1].n > 0
  /\ at' = {}
  /\ UNCHANGED <<phpSide, queue, permit, worker, pending, todo, quicheSide>>

SendError(s) ==
  /\ Visiting(s) /\ Refuses(s)
  /\ pending' = [pending EXCEPT ![s] = Tail(@)]
  /\ UNCHANGED <<phpSide, queue, permit, worker, todo, at, quicheSide>>

\* The stream's queue is empty and retain drops its entry.
StreamFlushed(s) ==
  /\ worker = "flush" /\ s \in at /\ pending[s] = <<>>
  /\ at' = {}
  /\ UNCHANGED <<phpSide, queue, permit, worker, pending, todo, quicheSide>>

FlushEnds ==
  /\ worker = "flush" /\ at = {} /\ todo = {}
  /\ worker' = "wait"
  /\ UNCHANGED <<phpSide, queue, permit, pending, todo, at, quicheSide>>

\* The connection ends: the driver is dropped, the channel closes.
DriverDropped ==
  /\ worker = "wait"
  /\ worker' = "closed"
  /\ queue' = <<>> /\ pending' = [s \in WriteStreams |-> <<>>]
  /\ UNCHANGED <<phpSide, permit, todo, at, quicheSide>>
-----------------------------------------------------------------------------
PhpStep == NotifyOne \/ \E s \in WriteStreams : Write(s) \/ CloseStream(s)

PacketStep(s) == WindowGrows(s) \/ LimitRises(s) \/ StopSending(s)

WorkerStep ==
  \/ WaitForData \/ DrainOne \/ DrainEnds \/ FlushEnds
  \/ \E s \in WriteStreams :
       \/ VisitStream(s) \/ StreamFlushed(s)
       \/ SendAll(s) \/ SendPart(s) \/ SendBlocked(s) \/ SendError(s)

WriteNext ==
  \/ PhpStep \/ WorkerStep \/ DriverDropped
  \/ \E s \in WriteStreams : PacketStep(s)

WriteSpec == WriteInit /\ [][WriteNext]_writeVars

\* write() runs on to its notify_one, the worker task is scheduled, and the
\* peer goes on granting room.
FairWriteSpec ==
  /\ WriteSpec
  /\ WF_writeVars(NotifyOne) /\ WF_writeVars(WorkerStep)
  /\ \A s \in WriteStreams : WF_writeVars(WindowGrows(s))

-----------------------------------------------------------------------------
\* A chunk is never left in the channel with the worker asleep: it was rung
\* for, or the PHP thread is about to ring (try_send and notify_one are two
\* steps, and the worker may be anywhere in between).
NoLostWakeup ==
  worker = "wait" /\ queue # <<>> => permit \/ php = "notify"

\* driver.rs:40-42: a blocked stream does not starve the others.  When
\* process_writes is done, what is still queued has no window to go to.
NoStarvation ==
  worker = "wait" =>
    \A s \in WriteStreams : pending[s] # <<>> => window[s] = 0

\* Why nothing is left behind.  The permit is only taken on the way to a
\* drain, and a drain ends with an empty channel.
RungFor == worker # "drain" /\ queue # <<>> => permit \/ php = "notify"

\* The flush leaves a stream with chunks behind only without window.
LeftBlocked ==
  /\ \A s, t \in at : s = t
  /\ worker # "flush" => at = {} /\ todo = {}
  /\ worker \in {"flush", "wait"} =>
       \A s \in WriteStreams \ (todo \cup at) : pending[s] # <<>> => window[s] = 0

\* quiche accepts the units PHP wrote to a stream in order and without a gap.
NoGap ==
  \A s \in WriteStreams : sent[s] = [i \in 1 .. Len(sent[s]) |-> i]

\* The write path implements a pipe per stream, of those the peer's limit
\* allows; one beyond it may lose a chunk (see NoGap), and must not disturb
\* the others.
Allowed == WriteStreams \ Limited
OfAllowed(f) == [s \in Allowed |-> f[s]]

Pipe == INSTANCE StreamPipe
          WITH Pipes <- Allowed, in <- OfAllowed(written),
               finAt <- OfAllowed(finAt), out <- OfAllowed(sent),
               finOut <- finSent \cap Allowed

ImplementsPipe == Pipe!PipeSpec

\* What is written to an allowed stream is sent, while the connection lives
\* and the stream is not stopped or ended.
WrittenIsSent ==
  \A s \in Allowed : \A n \in 1 .. MaxWritten :
    written[s] >= n ~> \/ Len(sent[s]) >= n
                       \/ finAt[s] \in 0 .. n - 1
                       \/ s \in refused \/ worker = "closed"
=============================================================================
