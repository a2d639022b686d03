----------------------------- MODULE QuicDriver -----------------------------
(***************************************************************************)
(* StreamQuicDriver (src/quiche/driver.rs), the read side: one driver per  *)
(* connection, run by a tokio worker task.  process_reads takes readable   *)
(* streams from quiche, announces the ones it has not seen, and moves      *)
(* their data into the shared event channel; on_conn_close sends the close *)
(* signal.  Every access to a shared channel is a step of its own, because *)
(* the other drivers and the PHP thread run in between.                    *)
(*                                                                         *)
(* The part of quiche and of tokio-quiche's worker loop the driver relies  *)
(* on is external and kept to what driver.rs uses of it: which stream      *)
(* stream_readable_next returns, what stream_recv returns, and when the    *)
(* worker calls the driver's methods.                                      *)
(*                                                                         *)
(* Definitions named X_Y are wrong versions of X: each run has to find the *)
(* property it checks violated when one of them takes the place of X.      *)
(***************************************************************************)
EXTENDS Channels

CONSTANTS
  MaxUnits,     \* bound: units of data a peer sends on one stream
  NumberUnits   \* TRUE: units are numbered, and a peer stops after MaxUnits;
                \* FALSE: traffic is endless, MaxUnits is the receive window

ASSUME DriverAssumption == MaxUnits \in Nat /\ NumberUnits \in BOOLEAN

VARIABLES
  drv,          \* where the task of each connection is
  established,  \* StreamQuicDriver::established
  cur,          \* the stream_id process_reads is at, {} outside its loop
  seen,         \* seen_streams
  rx,           \* external: quiche's receive state of each stream
  readable,     \* external: streams stream_readable_next may still return
  cause         \* external: why an established connection ended, or "none"

driverVars == <<drv, established, cur, seen, rx, readable, cause>>

\* "idle"       not accepted yet           "handshake"  started, not established
\* "wait"       parked in wait_for_data    "packets"    packets fed to quiche
\* "outer"      at the 'outer loop head    "drain"      at the inner loop head
\* "recv"       holds a permit             "closed"     on_conn_close has run
DriverStates == {"idle", "handshake", "wait", "packets", "outer", "drain",
                 "recv", "closed"}

\* "peer": CONNECTION_CLOSE came in.  "timeout": the peer fell silent and the
\* idle timeout ran out.  "local": an error on our side.  peer_error() is None
\* for the last two.
Causes == {"peer", "timeout", "local"}

\* st: FIN or RESET_STREAM received ("fin", "reset"), then read by the driver.
RxStates == {"open", "fin", "finRead", "reset", "resetRead"}
RxState == [buf: Nat, off: Nat, st: RxStates]

DriverTypeOK ==
  /\ drv \in [Conns -> DriverStates]
  /\ established \in [Conns -> BOOLEAN]
  /\ cur \in [Conns -> SUBSET Streams]
  /\ seen \in [Conns -> SUBSET Streams]
  /\ rx \in [Conns -> [Streams -> RxState]]
  /\ readable \in [Conns -> SUBSET Streams]
  /\ cause \in [Conns -> Causes \cup {"none"}]

DriverInit ==
  /\ drv = [c \in Conns |-> "idle"]
  /\ established = [c \in Conns |-> FALSE]
  /\ cur = [c \in Conns |-> {}]
  /\ seen = [c \in Conns |-> {}]
  /\ rx = [c \in Conns |-> [s \in Streams |-> [buf |-> 0, off |-> 0, st |-> "open"]]]
  /\ readable = [c \in Conns |-> {}]
  /\ cause = [c \in Conns |-> "none"]

-----------------------------------------------------------------------------
(***************************************************************************)
(* External: quiche's receive side.                                        *)
(***************************************************************************)
IsReadable(r) == r.buf > 0 \/ r.st \in {"fin", "reset"}

\* A frame arms its stream only when the stream turns readable by it: what
\* stream_readable_next has returned comes back after it was read dry.
Arm(c, s, r) ==
  /\ rx' = [rx EXCEPT ![c][s] = r]
  /\ readable' = [readable EXCEPT ![c] =
                    IF ~IsReadable(rx[c][s]) /\ IsReadable(r) THEN @ \cup {s} ELSE @]

\* Packets reach quiche between two runs of the driver's methods only.
FeedPacket(c, s, r) ==
  /\ drv[c] \in {"wait", "packets"}
  /\ Arm(c, s, r)
  /\ drv' = [drv EXCEPT ![c] = "packets"]
  /\ UNCHANGED <<events, closes, established, cur, seen, cause>>

PacketData(c, s) ==
  LET r == rx[c][s] IN
  /\ r.st = "open" /\ r.off + r.buf < MaxUnits
  /\ FeedPacket(c, s, [r EXCEPT !.buf = @ + 1])

PacketFin(c, s) ==
  LET r == rx[c][s] IN
  /\ r.st = "open"
  /\ FeedPacket(c, s, [r EXCEPT !.st = "fin"])

\* RESET_STREAM throws away what the driver has not read.
PacketReset(c, s) ==
  LET r == rx[c][s] IN
  /\ r.st \in {"open", "fin"}
  /\ FeedPacket(c, s, [buf |-> 0, off |-> r.off, st |-> "reset"])

\* Acknowledgements and the like: nothing for a stream, but packets came in.
PacketOther(c) ==
  /\ drv[c] = "wait"
  /\ drv' = [drv EXCEPT ![c] = "packets"]
  /\ UNCHANGED <<events, closes, established, cur, seen, rx, readable, cause>>

-----------------------------------------------------------------------------
(***************************************************************************)
(* The event channel.  try_reserve takes a permit, permit.send uses it and *)
(* dropping the permit gives it back: what is reserved is as good as full. *)
(***************************************************************************)
Holding == {c \in Conns : drv[c] = "recv"}

CanReserve == Len(events) + Cardinality(Holding) < EventCap

PushEvent_Lossy(e) ==
  events' = IF Len(events) + 1 < EventCap THEN Append(events, e) ELSE events

PushEvent(e) == events' = Append(events, e)

-----------------------------------------------------------------------------
(***************************************************************************)
(* The driver's life: conn.start(driver), on_conn_established, and the     *)
(* handshake that fails.  should_act is established, so the worker calls   *)
(* no method of a driver whose handshake did not complete.                 *)
(***************************************************************************)
StartDriver(c) ==
  /\ drv[c] = "idle"
  /\ drv' = [drv EXCEPT ![c] = "handshake"]
  /\ UNCHANGED <<established, cur, seen, rx, readable, cause>>

OnConnEstablished(c) ==
  /\ drv[c] = "handshake"
  /\ drv' = [drv EXCEPT ![c] = "wait"]
  /\ established' = [established EXCEPT ![c] = TRUE]
  /\ UNCHANGED <<events, closes, cur, seen, rx, readable, cause>>

HandshakeFails(c) ==
  /\ drv[c] = "handshake"
  /\ drv' = [drv EXCEPT ![c] = "closed"]
  /\ UNCHANGED <<events, closes, established, cur, seen, rx, readable, cause>>

-----------------------------------------------------------------------------
(***************************************************************************)
(* process_reads, called after a run of the worker that received packets.  *)
(***************************************************************************)
ProcessReads(c) ==
  /\ drv[c] = "packets"
  /\ drv' = [drv EXCEPT ![c] = "outer"]
  /\ UNCHANGED <<events, closes, established, cur, seen, rx, readable, cause>>

\* stream_readable_next() == None.
ReadsDone(c) ==
  /\ drv[c] = "outer" /\ readable[c] = {}
  /\ drv' = [drv EXCEPT ![c] = "wait"]
  /\ UNCHANGED <<events, closes, established, cur, seen, rx, readable, cause>>

NeedsAnnounce_Inverted(c, s) == ~ClientInitiated(s) /\ s \notin seen[c]
NeedsAnnounce_Always(c, s) == ClientInitiated(s)
NeedsAnnounce(c, s) == ClientInitiated(s) /\ s \notin seen[c]

\* What stream_readable_next() returns leaves quiche's readable list.
TakeReadable(c, s) ==
  /\ drv[c] = "outer" /\ s \in readable[c]
  /\ readable' = [readable EXCEPT ![c] = @ \ {s}]
  /\ UNCHANGED <<closes, established, rx, cause>>

EnterDrain(c, s) ==
  /\ drv' = [drv EXCEPT ![c] = "drain"]
  /\ cur' = [cur EXCEPT ![c] = {s}]

\* break 'outer: process_reads returns with the stream half done.
BreakOuter(c) ==
  /\ drv' = [drv EXCEPT ![c] = "wait"]
  /\ cur' = [cur EXCEPT ![c] = {}]

KnownStream(c, s) ==
  /\ TakeReadable(c, s)
  /\ ~NeedsAnnounce(c, s)
  /\ EnterDrain(c, s)
  /\ UNCHANGED <<events, seen>>

AnnounceStream_Continue(c, s) ==
  /\ TakeReadable(c, s)
  /\ NeedsAnnounce(c, s) /\ CanReserve
  /\ PushEvent(NewEvent(c, s))
  /\ seen' = [seen EXCEPT ![c] = @ \cup {s}]
  /\ UNCHANGED <<drv, cur>>

AnnounceStream(c, s) ==
  /\ TakeReadable(c, s)
  /\ NeedsAnnounce(c, s) /\ CanReserve
  /\ PushEvent(NewEvent(c, s))
  /\ seen' = [seen EXCEPT ![c] = @ \cup {s}]
  /\ EnterDrain(c, s)

AnnounceBlocked(c, s) ==
  /\ TakeReadable(c, s)
  /\ NeedsAnnounce(c, s) /\ ~CanReserve
  /\ BreakOuter(c)
  /\ UNCHANGED <<events, seen>>

ReserveData(c) ==
  /\ drv[c] = "drain" /\ CanReserve
  /\ drv' = [drv EXCEPT ![c] = "recv"]
  /\ UNCHANGED <<events, closes, established, cur, seen, rx, readable, cause>>

ReserveBlocked(c) ==
  /\ drv[c] = "drain" /\ ~CanReserve
  /\ BreakOuter(c)
  /\ UNCHANGED <<events, closes, established, seen, rx, readable, cause>>

\* stream_recv == Ok((n, fin)): any part of what is buffered, the FIN with
\* the last of it or alone.  quiche puts a stream it did not read dry back
\* at the end of its readable list.
RecvOk(c, s) ==
  LET r == rx[c][s] IN
  /\ drv[c] = "recv" /\ s \in cur[c]
  /\ r.buf > 0 \/ r.st = "fin"
  /\ \E n \in 0 .. r.buf :
       /\ n = 0 => r.buf = 0
       /\ LET fin == r.st = "fin" /\ n = r.buf
              left == [buf |-> r.buf - n,
                       off |-> IF NumberUnits THEN r.off + n ELSE r.off,
                       st |-> IF fin THEN "finRead" ELSE r.st]
          IN
          /\ rx' = [rx EXCEPT ![c][s] = left]
          /\ readable' = [readable EXCEPT ![c] =
                            IF IsReadable(left) THEN @ \cup {s} ELSE @ \ {s}]
          /\ PushEvent(DataEvent(c, s, r.off, n, fin))
          /\ seen' = IF fin THEN [seen EXCEPT ![c] = @ \ {s}] ELSE seen
  /\ drv' = [drv EXCEPT ![c] = "drain"]
  /\ UNCHANGED <<closes, established, cur, cause>>

\* stream_recv == Err(Done) or Err(StreamReset): the permit is dropped.
RecvErr(c, s) ==
  LET r == rx[c][s] IN
  /\ drv[c] = "recv" /\ s \in cur[c]
  /\ r.buf = 0 /\ r.st # "fin"
  /\ rx' = [rx EXCEPT ![c][s] =
              IF r.st = "reset" THEN [r EXCEPT !.st = "resetRead"] ELSE r]
  /\ readable' = [readable EXCEPT ![c] = @ \ {s}]
  /\ drv' = [drv EXCEPT ![c] = "outer"]
  /\ cur' = [cur EXCEPT ![c] = {}]
  /\ UNCHANGED <<events, closes, established, seen, cause>>

-----------------------------------------------------------------------------
(***************************************************************************)
(* on_conn_close: peer_error() is some exactly when the peer sent          *)
(* CONNECTION_CLOSE.  A full close channel drops the signal.               *)
(***************************************************************************)
PeerInitiated_Never(why) == FALSE
PeerInitiated(why) == why = "peer"

SendClose_OffByOne(m) ==
  closes' = IF Len(closes) + 1 < CloseCap THEN Append(closes, m) ELSE closes

SendClose(m) ==
  closes' = IF Len(closes) < CloseCap THEN Append(closes, m) ELSE closes

OnConnClose(c) ==
  /\ drv[c] \in {"wait", "packets"}
  /\ \E why \in Causes :
       /\ cause' = [cause EXCEPT ![c] = why]
       /\ SendClose([conn |-> c, peer |-> PeerInitiated(why)])
  /\ drv' = [drv EXCEPT ![c] = "closed"]
  /\ UNCHANGED <<events, established, cur, seen, rx, readable>>

-----------------------------------------------------------------------------
\* The steps a running task takes on its own.
DriverStep(c) ==
  \/ ProcessReads(c)
  \/ ReadsDone(c)
  \/ \E s \in Streams :
       \/ KnownStream(c, s) \/ AnnounceStream(c, s) \/ AnnounceBlocked(c, s)
       \/ RecvOk(c, s) \/ RecvErr(c, s)
  \/ ReserveData(c)
  \/ ReserveBlocked(c)

\* The steps that are up to the peer, the network and the timers.
ConnStep(c) ==
  OnConnEstablished(c) \/ HandshakeFails(c) \/ OnConnClose(c)
=============================================================================
