--------------------------- MODULE DeliveryProofs ---------------------------
(***************************************************************************)
(* What the two channels carry.  In the event channel every stream is      *)
(* announced before its data and once, and its data continues what PHP has *)
(* been given; in the close channel no signal is lost while it has a place *)
(* for every connection.  All for any number of connections and streams    *)
(* and any capacity of the event channel.                                  *)
(***************************************************************************)
EXTENDS QuicheServerProofs

(***************************************************************************)
(* What a step does to the streams of the connections.                     *)
(***************************************************************************)
\* Most steps are calm: they bring no event into the channel or out of it, open
\* no slot pair, and leave a stream alone whose FIN the driver has read.
Calm ==
  /\ UNCHANGED <<events, seen, pairs, dispatched>>
  /\ connections' \subseteq connections /\ finish' \subseteq finish
  /\ \A c \in Conns :
       /\ drv'[c] = "idle" <=> drv[c] = "idle"
       /\ cur'[c] \subseteq cur[c]
  /\ \A c \in Conns, s \in Streams :
       /\ rx'[c][s].off = rx[c][s].off
       /\ "finRead" \in {rx[c][s].st, rx'[c][s].st} => rx'[c][s] = rx[c][s]
       /\ s \in readable'[c] => \/ s \in readable[c]
                                \/ PeerMaySend(c, s) /\ rx'[c][s].st # "finRead"
       /\ slots'[c][s] # slots[c][s] =>
            slots'[c][s] = 0 /\ (c \in draining \/ <<c, s>> \in finish)

\* The others.
Drives(c, s) ==
  /\ KnownStream(c, s) \/ AnnounceStream(c, s) \/ RecvOk(c, s)
  /\ UNCHANGED <<phpVars, loopVars>>

Receives == (DropLateEvent \/ DispatchNew \/ DispatchData) /\ UNCHANGED driverVars

Opens(c, s) == PhpOpen(c, s) /\ UNCHANGED driverVars

\* The driver's steps that are calm.
LEMMA CalmDriver ==
  ASSUME TypeOK, NEW c \in Conns, UNCHANGED <<phpVars, loopVars>>,
         \/ ProcessReads(c) \/ ReadsDone(c) \/ ReserveData(c) \/ ReserveBlocked(c)
         \/ ConnStep(c) \/ PacketOther(c)
  PROVE  Calm
<1>1. /\ UNCHANGED <<pairs, slots, dispatched, connections, finish>>
  BY DEF phpVars, loopVars
<1>2. /\ UNCHANGED <<events, seen, rx, readable>>
      /\ drv[c] # "idle" /\ \E to \in DriverStates \ {"idle"} : drv' = [drv EXCEPT ![c] = to]
      /\ cur' \in {cur, [cur EXCEPT ![c] = {}]}
  BY DEF ProcessReads, ReadsDone, ReserveData, ReserveBlocked, BreakOuter, ConnStep,
         OnConnEstablished, HandshakeFails, OnConnClose, PacketOther, DriverStates
<1>3. \A d \in Conns : /\ drv'[d] = "idle" <=> drv[d] = "idle"
                       /\ cur'[d] \subseteq cur[d]
  BY <1>2 DEF TypeOK, DriverTypeOK
<1> QED
  BY <1>1, <1>2, <1>3 DEF Calm

\* A frame, or a read that fails.
LEMMA CalmStream ==
  ASSUME TypeOK, NEW c \in Conns, NEW s \in Streams, UNCHANGED <<phpVars, loopVars>>,
         \/ PeerMaySend(c, s) /\ (PacketData(c, s) \/ PacketFin(c, s) \/ PacketReset(c, s))
         \/ AnnounceBlocked(c, s) \/ RecvErr(c, s)
  PROVE  Calm
<1>1. /\ UNCHANGED <<pairs, slots, dispatched, connections, finish>>
  BY DEF phpVars, loopVars
<1>2. /\ drv \in [Conns -> DriverStates] /\ cur \in [Conns -> SUBSET Streams]
      /\ readable \in [Conns -> SUBSET Streams]
      /\ rx \in [Conns -> [Streams -> RxState]] /\ rx[c][s] \in RxState
  BY DEF TypeOK, DriverTypeOK
<1>3. CASE PeerMaySend(c, s) /\ (PacketData(c, s) \/ PacketFin(c, s) \/ PacketReset(c, s))
  <2>1. PICK r : /\ FeedPacket(c, s, r) /\ r.off = rx[c][s].off
                 /\ rx[c][s].st # "finRead" /\ r.st # "finRead"
    <3>1. CASE PacketData(c, s)
      <4>1. FeedPacket(c, s, [rx[c][s] EXCEPT !.buf = @ + 1]) /\ rx[c][s].st = "open"
        BY <3>1 DEF PacketData
      <4> QED
        BY <1>2, <4>1 DEF RxState
    <3>2. CASE PacketFin(c, s)
      <4>1. FeedPacket(c, s, [rx[c][s] EXCEPT !.st = "fin"]) /\ rx[c][s].st = "open"
        BY <3>2 DEF PacketFin
      <4> QED
        BY <1>2, <4>1 DEF RxState
    <3>3. CASE PacketReset(c, s)
      BY <3>3 DEF PacketReset
    <3> QED
      BY <1>3, <3>1, <3>2, <3>3
  <2>2. /\ UNCHANGED <<events, seen, cur>>
        /\ drv[c] # "idle" /\ drv' = [drv EXCEPT ![c] = "packets"]
        /\ rx' = [rx EXCEPT ![c][s] = r]
        /\ readable' \in {readable, [readable EXCEPT ![c] = @ \cup {s}]}
    BY <1>2, <2>1 DEF FeedPacket, Arm
  <2>3. \A d \in Conns, q \in Streams :
          rx'[d][q] = IF d = c /\ q = s THEN r ELSE rx[d][q]
    BY <1>2, <2>2
  <2>4. \A d \in Conns, q \in Streams :
          q \in readable'[d] => q \in readable[d] \/ (d = c /\ q = s)
    BY <1>2, <2>2
  <2>5. \A d \in Conns : drv'[d] = "idle" <=> drv[d] = "idle"
    BY <1>2, <2>2
  <2> QED
    BY <1>1, <1>3, <2>1, <2>2, <2>3, <2>4, <2>5 DEF Calm
<1>4. CASE AnnounceBlocked(c, s)
  <2>1. /\ UNCHANGED <<events, seen, rx>>
        /\ drv[c] = "outer" /\ drv' = [drv EXCEPT ![c] = "wait"]
        /\ cur' = [cur EXCEPT ![c] = {}] /\ readable' = [readable EXCEPT ![c] = @ \ {s}]
    BY <1>4 DEF AnnounceBlocked, TakeReadable, BreakOuter
  <2> QED
    BY <1>1, <1>2, <2>1 DEF Calm
<1>5. CASE RecvErr(c, s)
  <2>1. /\ UNCHANGED <<events, seen>>
        /\ drv[c] = "recv" /\ drv' = [drv EXCEPT ![c] = "outer"]
        /\ cur' = [cur EXCEPT ![c] = {}] /\ readable' = [readable EXCEPT ![c] = @ \ {s}]
    BY <1>5 DEF RecvErr
  <2> DEFINE r == IF rx[c][s].st = "reset" THEN [rx[c][s] EXCEPT !.st = "resetRead"]
                  ELSE rx[c][s]
  <2>2. rx' = [rx EXCEPT ![c][s] = r]
    BY <1>5 DEF RecvErr
  <2>3. /\ r.off = rx[c][s].off
        /\ "finRead" \in {rx[c][s].st, r.st} => r = rx[c][s]
    BY <1>2 DEF RxState
  <2> HIDE DEF r
  <2>4. \A d \in Conns, q \in Streams :
          rx'[d][q] = IF d = c /\ q = s THEN r ELSE rx[d][q]
    BY <1>2, <2>2
  <2> QED
    BY <1>1, <1>2, <2>1, <2>3, <2>4 DEF Calm
<1> QED
  BY <1>3, <1>4, <1>5

\* The steps of the PHP thread and the script that are calm.
LEMMA CalmLoop ==
  ASSUME TypeOK, LoopStep \/ ScriptStep, UNCHANGED driverVars,
         ~Receives, \A c \in Conns, s \in Streams : ~Opens(c, s)
  PROVE  Calm
<1> DEFINE Quiet == /\ UNCHANGED <<events, pairs, slots, dispatched>>
                    /\ connections' \subseteq connections /\ finish' \subseteq finish
<1>1. UNCHANGED <<drv, cur, seen, rx, readable>>
  BY DEF driverVars
<1>2. ASSUME Quiet PROVE Calm
  BY <1>1, <1>2 DEF Calm
<1>3. ASSUME Tick \/ EventsPending \/ ClosesPending \/ ListenerPending
             \/ TimerPending \/ Wake
      PROVE  Quiet
  BY <1>3 DEF Tick, EventsPending, ClosesPending, ListenerPending, TimerPending, Wake, Goto,
              phpVars
<1>4. ASSUME TimerFires \/ TimerStale \/ AcceptError \/ CallbackReturns PROVE Quiet
  BY <1>4 DEF TimerFires, TimerStale, AcceptError, RecvIncoming, CallbackReturns, phpVars
<1>5. ASSUME RecvClose PROVE Quiet
  BY <1>5 DEF RecvClose, phpVars
<1>6. ASSUME NEW c \in Conns, DrainDone(c) PROVE Quiet
  BY <1>6 DEF DrainDone
<1>7. ASSUME NEW c \in Conns, NEW s \in Streams, FinishStream(c, s) \/ DrainSlot(c, s)
      PROVE  Calm
  <2>1. /\ UNCHANGED <<events, pairs, dispatched, connections>>
        /\ finish' \subseteq finish
        /\ slots' = [slots EXCEPT ![c][s] = 0]
        /\ c \in draining \/ <<c, s>> \in finish
    BY <1>7 DEF FinishStream, DrainSlot, FireOnClose, RemoveSlotPair
  <2>2. \A d \in Conns, q \in Streams :
          slots'[d][q] = IF d = c /\ q = s THEN 0 ELSE slots[d][q]
    BY <2>1 DEF TypeOK, PhpStreamsTypeOK
  <2> QED
    BY <1>1, <2>1, <2>2 DEF Calm
<1>10. ASSUME NEW c \in Conns, NEW s \in Streams, FinishStale(c, s) PROVE Quiet
  BY <1>10 DEF FinishStale, phpVars
<1>8. ASSUME Close \/ Signal \/ PhpReenters PROVE Quiet
  BY <1>8 DEF Close, Signal, PhpReenters, phpVars
<1>9. ASSUME NEW c \in Conns, NEW s \in Streams, NEW g \in 1 .. pairs[c][s],
             NEW h \in Hooks, PhpHook(c, s, g, h)
      PROVE  Quiet
  BY <1>9 DEF PhpHook, InstallSlot, loopVars
<1> QED
  BY <1>2, <1>3, <1>4, <1>5, <1>6, <1>7, <1>8, <1>9, <1>10
     DEF LoopStep, ScriptStep, Receives, Opens

LEMMA StepKinds ==
  ASSUME TypeOK, [Next]_vars
  PROVE  Calm \/ Accept \/ Receives \/ \E c \in Conns, s \in Streams : Drives(c, s) \/ Opens(c, s)
<1>1. ASSUME NEW c \in Conns, DriverStep(c) \/ ConnStep(c) \/ PeerStep(c),
             UNCHANGED <<phpVars, loopVars>>
      PROVE  Calm \/ \E s \in Streams : Drives(c, s)
  BY <1>1, CalmDriver, CalmStream DEF DriverStep, PeerStep, Drives
<1>2. CASE (LoopStep \/ ScriptStep) /\ UNCHANGED driverVars
  BY <1>2, CalmLoop
<1>3. CASE UNCHANGED vars
  BY <1>3 DEF vars, driverVars, phpVars, loopVars, Calm
<1> QED
  BY <1>1, <1>2, <1>3 DEF Next

-----------------------------------------------------------------------------
(***************************************************************************)
(* What the other steps do, stream by stream.                              *)
(***************************************************************************)
\* An event is put at the end of the channel.
Pushes(e) ==
  /\ e \in Event
  /\ DOMAIN events' = 1 .. Len(events) + 1
  /\ \A i \in 1 .. Len(events) : events'[i] = events[i]
  /\ events'[Len(events) + 1] = e

LEMMA ChannelTypes ==
  ASSUME TypeOK
  PROVE  /\ Len(events) \in Nat /\ DOMAIN events = 1 .. Len(events)
         /\ \A i \in DOMAIN events :
              /\ events[i].kind \in NewKinds \cup {"Data"}
              /\ events[i].conn \in Conns /\ events[i].stream \in Streams
              /\ events[i].off \in Nat /\ events[i].n \in Nat /\ events[i].fin \in BOOLEAN
<1>1. events \in Seq(Event)
  BY DEF TypeOK, ChannelsTypeOK
<1>2. Len(events) \in Nat /\ DOMAIN events = 1 .. Len(events)
  BY <1>1
<1>3. ASSUME NEW i \in DOMAIN events PROVE events[i] \in Event
  BY <1>1, <1>2, ElementOfSeq
<1> QED
  BY <1>2, <1>3 DEF Event

LEMMA PushEffect ==
  ASSUME TypeOK, NEW e \in Event, PushEvent(e)
  PROVE  Pushes(e)
<1>1. events \in Seq(Event)
  BY DEF TypeOK, ChannelsTypeOK
<1>2. /\ Append(events, e) \in Seq(Event) /\ Len(Append(events, e)) = Len(events) + 1
      /\ \A i \in 1 .. Len(events) : Append(events, e)[i] = events[i]
      /\ Append(events, e)[Len(events) + 1] = e
  BY <1>1, AppendProperties
<1> QED
  BY <1>2 DEF PushEvent, Pushes

LEMMA AcceptEffect ==
  ASSUME TypeOK, Accept
  PROVE  /\ UNCHANGED <<events, seen, cur, rx, readable, slots, pairs, dispatched, finish>>
         /\ id_counter \in Conns /\ drv[id_counter] = "idle"
         /\ connections' = connections \cup {id_counter}
         /\ \A d \in Conns : drv'[d] = IF d = id_counter THEN "handshake" ELSE drv[d]
<1>1. id_counter \in Conns
  BY ChannelsAssumption
     DEF TypeOK, ServerLoopTypeOK, Accept, AcceptConn, RecvIncoming, CanArrive, Conns
<1> QED
  BY <1>1 DEF TypeOK, DriverTypeOK, Accept, AcceptConn, InsertConn, RecvIncoming, StartDriver,
              phpVars

\* The driver takes up a stream, announces it, or moves its data.
TakesUp(c, s) ==
  /\ UNCHANGED <<events, seen, rx, slots, pairs, dispatched, connections, finish>>
  /\ drv[c] # "idle" /\ s \in readable[c]
  /\ ClientInitiated(s) => s \in seen[c]
  /\ \A d \in Conns : /\ drv'[d] = "idle" <=> drv[d] = "idle"
                      /\ cur'[d] = IF d = c THEN {s} ELSE cur[d]
                      /\ readable'[d] \subseteq readable[d]

LEMMA KnownEffect ==
  ASSUME TypeOK, NEW c \in Conns, NEW s \in Streams, KnownStream(c, s),
         UNCHANGED <<phpVars, loopVars>>
  PROVE  TakesUp(c, s)
<1>1. /\ drv \in [Conns -> DriverStates] /\ cur \in [Conns -> SUBSET Streams]
      /\ readable \in [Conns -> SUBSET Streams]
  BY DEF TypeOK, DriverTypeOK
<1>2. /\ drv[c] = "outer" /\ drv' = [drv EXCEPT ![c] = "drain"]
      /\ cur' = [cur EXCEPT ![c] = {s}] /\ readable' = [readable EXCEPT ![c] = @ \ {s}]
      /\ s \in readable[c] /\ UNCHANGED <<events, seen, rx>>
      /\ ClientInitiated(s) => s \in seen[c]
  BY DEF KnownStream, TakeReadable, EnterDrain, NeedsAnnounce
<1> QED
  BY <1>1, <1>2 DEF TakesUp, phpVars, loopVars

Announces(c, s) ==
  /\ UNCHANGED <<rx, slots, pairs, dispatched, connections, finish>>
  /\ Pushes(NewEvent(c, s))
  /\ drv[c] # "idle" /\ s \in readable[c] /\ ClientInitiated(s) /\ s \notin seen[c]
  /\ \A d \in Conns : /\ drv'[d] = "idle" <=> drv[d] = "idle"
                      /\ cur'[d] = IF d = c THEN {s} ELSE cur[d]
                      /\ seen'[d] = IF d = c THEN seen[d] \cup {s} ELSE seen[d]
                      /\ readable'[d] \subseteq readable[d]

LEMMA AnnounceEffect ==
  ASSUME TypeOK, NEW c \in Conns, NEW s \in Streams, AnnounceStream(c, s),
         UNCHANGED <<phpVars, loopVars>>
  PROVE  Announces(c, s)
<1>1. /\ drv \in [Conns -> DriverStates] /\ cur \in [Conns -> SUBSET Streams]
      /\ readable \in [Conns -> SUBSET Streams] /\ seen \in [Conns -> SUBSET Streams]
  BY DEF TypeOK, DriverTypeOK
<1>2. /\ drv[c] = "outer" /\ drv' = [drv EXCEPT ![c] = "drain"]
      /\ cur' = [cur EXCEPT ![c] = {s}] /\ readable' = [readable EXCEPT ![c] = @ \ {s}]
      /\ seen' = [seen EXCEPT ![c] = @ \cup {s}]
      /\ s \in readable[c] /\ ClientInitiated(s) /\ s \notin seen[c] /\ UNCHANGED rx
  BY DEF AnnounceStream, TakeReadable, EnterDrain, NeedsAnnounce
<1>3. NewEvent(c, s) \in Event
  BY DEF NewEvent, Event, NewKinds
<1>4. Pushes(NewEvent(c, s))
  BY <1>3, PushEffect DEF AnnounceStream
<1> QED
  BY <1>1, <1>2, <1>4 DEF Announces, phpVars, loopVars

\* n units are read, and all is read when the FIN is.
Reads(c, s, n, fin) ==
  /\ UNCHANGED <<slots, pairs, dispatched, connections, finish>>
  /\ Pushes(DataEvent(c, s, rx[c][s].off, n, fin))
  /\ drv[c] # "idle" /\ s \in cur[c] /\ (rx[c][s].buf > 0 \/ rx[c][s].st = "fin")
  /\ NumberUnits => rx'[c][s].off = rx[c][s].off + n
  /\ rx'[c][s].st = IF fin THEN "finRead" ELSE rx[c][s].st
  /\ fin => rx'[c][s].buf = 0 /\ s \notin readable'[c]
  /\ \A d \in Conns : /\ drv'[d] = "idle" <=> drv[d] = "idle"
                      /\ cur'[d] = cur[d]
                      /\ seen'[d] = IF fin /\ d = c THEN seen[d] \ {s} ELSE seen[d]
                      /\ readable'[d] \subseteq readable[d] \cup {q \in {s} : d = c}
  /\ \A d \in Conns, q \in Streams : d # c \/ q # s => rx'[d][q] = rx[d][q]

LEMMA RecvOkEffect ==
  ASSUME TypeOK, NEW c \in Conns, NEW s \in Streams, RecvOk(c, s),
         UNCHANGED <<phpVars, loopVars>>
  PROVE  \E n \in Nat, fin \in BOOLEAN : Reads(c, s, n, fin)
<1>1. /\ drv \in [Conns -> DriverStates] /\ seen \in [Conns -> SUBSET Streams]
      /\ readable \in [Conns -> SUBSET Streams]
      /\ rx \in [Conns -> [Streams -> RxState]] /\ rx[c][s] \in RxState
  BY DEF TypeOK, DriverTypeOK
<1>2. /\ drv[c] = "recv" /\ drv' = [drv EXCEPT ![c] = "drain"] /\ UNCHANGED cur
      /\ s \in cur[c] /\ (rx[c][s].buf > 0 \/ rx[c][s].st = "fin")
  BY DEF RecvOk
<1>3. /\ rx[c][s].buf \in Nat /\ rx[c][s].off \in Nat
  BY <1>1 DEF RxState
<1>4. PICK n \in 0 .. rx[c][s].buf :
        LET r == rx[c][s]
            fin == r.st = "fin" /\ n = r.buf
            left == [buf |-> r.buf - n,
                     off |-> IF NumberUnits THEN r.off + n ELSE r.off,
                     st |-> IF fin THEN "finRead" ELSE r.st]
        IN /\ rx' = [rx EXCEPT ![c][s] = left]
           /\ readable' = [readable EXCEPT ![c] =
                             IF IsReadable(left) THEN @ \cup {s} ELSE @ \ {s}]
           /\ PushEvent(DataEvent(c, s, r.off, n, fin))
           /\ seen' = IF fin THEN [seen EXCEPT ![c] = @ \ {s}] ELSE seen
  BY Zenon DEF RecvOk
<1> DEFINE fin == rx[c][s].st = "fin" /\ n = rx[c][s].buf
           left == [buf |-> rx[c][s].buf - n,
                    off |-> IF NumberUnits THEN rx[c][s].off + n ELSE rx[c][s].off,
                    st |-> IF fin THEN "finRead" ELSE rx[c][s].st]
<1>5. /\ rx' = [rx EXCEPT ![c][s] = left]
      /\ readable' = [readable EXCEPT ![c] =
                        IF IsReadable(left) THEN @ \cup {s} ELSE @ \ {s}]
      /\ PushEvent(DataEvent(c, s, rx[c][s].off, n, fin))
      /\ seen' = IF fin THEN [seen EXCEPT ![c] = @ \ {s}] ELSE seen
  BY <1>4, Zenon
<1>6. n \in Nat /\ fin \in BOOLEAN
  BY <1>3
<1>7. DataEvent(c, s, rx[c][s].off, n, fin) \in Event
  BY <1>3, <1>6 DEF DataEvent, Event
<1>8. Pushes(DataEvent(c, s, rx[c][s].off, n, fin))
  BY <1>5, <1>7, PushEffect
<1>9. /\ NumberUnits => left.off = rx[c][s].off + n
      /\ left.st = IF fin THEN "finRead" ELSE rx[c][s].st
      /\ fin => left.buf = 0 /\ ~IsReadable(left)
  BY <1>3 DEF IsReadable
<1> HIDE DEF left, fin
<1>10. rx'[c][s] = left /\ \A d \in Conns, q \in Streams : d # c \/ q # s => rx'[d][q] = rx[d][q]
  BY <1>1, <1>5
<1>11. \A d \in Conns : /\ drv'[d] = "idle" <=> drv[d] = "idle"
                        /\ seen'[d] = IF fin /\ d = c THEN seen[d] \ {s} ELSE seen[d]
                        /\ readable'[d] \subseteq readable[d] \cup {q \in {s} : d = c}
  BY <1>1, <1>2, <1>5
<1>12. fin => s \notin readable'[c]
  BY <1>1, <1>5, <1>9
<1>13. UNCHANGED <<slots, pairs, dispatched, connections, finish>>
  BY DEF phpVars, loopVars
<1> QED
  BY <1>2, <1>6, <1>8, <1>9, <1>10, <1>11, <1>12, <1>13 DEF Reads

\* The PHP thread takes the first event.
Takes(e) ==
  /\ UNCHANGED <<drv, seen, cur, rx, readable, connections>>
  /\ pc = "events" /\ Len(events) > 0 /\ e = events[1]
  /\ DOMAIN events' = 1 .. Len(events) - 1
  /\ \A i \in 1 .. Len(events) - 1 : events'[i] = events[i + 1]
  /\ \/ e.conn \notin connections /\ UNCHANGED <<slots, pairs, dispatched, finish>>
     \/ /\ e.conn \in connections /\ e.kind \in NewKinds
        /\ UNCHANGED <<dispatched, finish>> /\ InsertSlotPair(e.conn, e.stream)
     \/ /\ e.conn \in connections /\ e.kind = "Data" /\ UNCHANGED <<slots, pairs>>
        /\ dispatched' = [dispatched EXCEPT ![e.conn][e.stream] = e.off + e.n]
        /\ finish' = IF e.fin THEN {<<e.conn, e.stream>>} ELSE {}

LEMMA ReceiveEffect ==
  ASSUME TypeOK, Receives
  PROVE  Takes(events[1])
<1>1. /\ events \in Seq(Event) /\ events # <<>> /\ events' = Tail(events)
      /\ pc = "events" /\ UNCHANGED connections
  BY DEF TypeOK, ChannelsTypeOK, Receives, DropLateEvent, DispatchNew, DispatchData, RecvEvent
<1>2. /\ Len(events) \in Nat /\ Len(events) > 0 /\ Head(events) = events[1]
  BY <1>1
<1>3. /\ Tail(events) \in Seq(Event) /\ Len(Tail(events)) = Len(events) - 1
      /\ \A i \in 1 .. Len(Tail(events)) : Tail(events)[i] = events[i + 1]
  BY <1>1, HeadTailProperties
<1>4. CASE DropLateEvent
  BY <1>1, <1>2, <1>3, <1>4 DEF Takes, Receives, DropLateEvent, RecvEvent, Tracked, driverVars
<1>5. CASE DispatchNew
  BY <1>1, <1>2, <1>3, <1>5 DEF Takes, Receives, DispatchNew, RecvEvent, Tracked, driverVars
<1>6. CASE DispatchData
  <2> DEFINE e == Head(events)
  <2>1. /\ e.conn \in connections /\ e.kind = "Data" /\ UNCHANGED <<slots, pairs>>
        /\ dispatched' = [dispatched EXCEPT ![e.conn][e.stream] = e.off + e.n]
        /\ finish' = IF e.fin THEN {<<e.conn, e.stream>>} ELSE {}
    BY <1>6 DEF DispatchData, Tracked
  <2> HIDE DEF e
  <2>2. UNCHANGED <<drv, seen, cur, rx, readable>>
    BY DEF Receives, driverVars
  <2>3. e = events[1]
    BY <1>2 DEF e
  <2> QED
    BY <1>1, <1>2, <1>3, <2>1, <2>2, <2>3 DEF Takes
<1> QED
  BY <1>4, <1>5, <1>6 DEF Receives

\* A new pair: make_slot_pair and the insert.
LEMMA InsertEffect ==
  ASSUME TypeOK, NEW c \in Conns, NEW s \in Streams, InsertSlotPair(c, s)
  PROVE  \A d \in Conns, q \in Streams :
           /\ pairs[d][q] \in Nat
           /\ pairs'[d][q] = IF d = c /\ q = s THEN pairs[d][q] + 1 ELSE pairs[d][q]
           /\ slots'[d][q] = IF d = c /\ q = s THEN pairs[d][q] + 1 ELSE slots[d][q]
BY DEF TypeOK, PhpStreamsTypeOK, InsertSlotPair

LEMMA OpenEffect ==
  ASSUME TypeOK, NEW c \in Conns, NEW s \in Streams, Opens(c, s)
  PROVE  /\ UNCHANGED <<events, drv, seen, cur, rx, readable, dispatched, connections, finish>>
         /\ s \in OpenIds /\ InsertSlotPair(c, s) /\ pairs[c][s] < MaxPairs
         /\ \E q \in Streams : pairs[c][q] > 0
BY DEF Opens, PhpOpen, OpenStream, CanOpen, HasHandle, driverVars, loopVars

-----------------------------------------------------------------------------
(***************************************************************************)
(* The invariants.                                                         *)
(***************************************************************************)
\* An announcement, and a chunk, of a stream in the channel.
NewOn(i, c, s) == events[i].kind \in NewKinds /\ OnStream(events[i], c, s)
DataOn(i, c, s) == events[i].kind = "Data" /\ OnStream(events[i], c, s)

\* Once its FIN is read, quiche has nothing more for a stream.
ReadOut ==
  \A c \in Conns, s \in Streams :
    rx[c][s].st = "finRead" => rx[c][s].buf = 0 /\ s \notin readable[c]

\* A connection that has not been accepted has left no trace.
Untouched ==
  \A c \in Conns :
    drv[c] = "idle" =>
      /\ seen[c] = {} /\ cur[c] = {}
      /\ \A s \in Streams : rx[c][s].off = 0 /\ pairs[c][s] = 0 /\ dispatched[c][s] = 0
      /\ \A i \in DOMAIN events : events[i].conn # c

BaseInv == TypeOK /\ ReadOut /\ Untouched

\* PHP knows of a stream, or will when it comes to its announcement.
Announced(c, s) == pairs[c][s] > 0 \/ \E i \in DOMAIN events : NewOn(i, c, s)

\* The streams in seen_streams and the one process_reads is at are announced,
\* and the chunks in the channel are behind the announcement.
AnnounceInv ==
  /\ BaseInv
  /\ \A c \in connections, s \in Streams :
       ClientInitiated(s) =>
         /\ s \in seen[c] \cup cur[c] => Announced(c, s)
         /\ \A i \in DOMAIN events :
              DataOn(i, c, s) =>
                pairs[c][s] > 0 \/ \E j \in DOMAIN events : j < i /\ NewOn(j, c, s)

\* What seen_streams forgets at the FIN never turns readable again; the rest
\* is announced when it is seen and not before, and gets its pair from that.
OnceOn(c, s) ==
  /\ (ClientInitiated(s) /\ s \notin seen[c] /\ rx[c][s].st # "finRead") => ~Announced(c, s)
  /\ \A i \in DOMAIN events : NewOn(i, c, s) =>
       /\ ClientInitiated(s) /\ pairs[c][s] = 0
       /\ \A j \in DOMAIN events : NewOn(j, c, s) => j = i

OnceAnnouncedInv == BaseInv /\ \A c \in Conns, s \in Streams : OnceOn(c, s)

\* The events at places D of a sequence are chunks that follow one another and
\* lead from one position of the stream to another.
Links(D, ev, from, to) ==
  /\ D = {} => from = to
  /\ \A i \in D :
       /\ (\A l \in D : i <= l) => ev[i].off = from
       /\ (\A l \in D : l <= i) => to = ev[i].off + ev[i].n
       /\ \A j \in D : (i < j /\ \A l \in D : l <= i \/ j <= l) =>
                         ev[j].off = ev[i].off + ev[i].n

\* The chunks of a stream in the channel lead from what PHP has to what is read.
DataAt(c, s) == {i \in DOMAIN events : DataOn(i, c, s)}

Chain(c, s) == Links(DataAt(c, s), events, dispatched[c][s], rx[c][s].off)

OrderInv ==
  /\ BaseInv
  /\ \A c \in Conns, s \in Streams : c \in connections \/ drv[c] = "idle" => Chain(c, s)

-----------------------------------------------------------------------------
LEMMA InitBase == Init => BaseInv
<1> SUFFICES ASSUME Init PROVE BaseInv
  OBVIOUS
<1>1. TypeOK
  BY InitType
<1>2. \A c \in Conns, s \in Streams :
        /\ rx[c][s] = [buf |-> 0, off |-> 0, st |-> "open"]
        /\ pairs[c][s] = 0 /\ dispatched[c][s] = 0
  BY DEF Init, DriverInit, PhpStreamsInit, ServerLoopInit
<1>3. \A c \in Conns : seen[c] = {} /\ cur[c] = {}
  BY DEF Init, DriverInit
<1>4. DOMAIN events = {}
  BY DEF Init, ChannelsInit
<1> QED
  BY <1>1, <1>2, <1>3, <1>4 DEF BaseInv, ReadOut, Untouched

\* What a step does to both parts, connection by connection.
LEMMA BaseFrame ==
  ASSUME BaseInv, TypeOK',
         \A c \in Conns : drv'[c] = "idle" => drv[c] = "idle",
         \A c \in Conns : drv'[c] = "idle" =>
           /\ seen'[c] \subseteq seen[c] /\ cur'[c] \subseteq cur[c]
           /\ \A s \in Streams : /\ rx'[c][s].off = rx[c][s].off
                                 /\ pairs'[c][s] = pairs[c][s]
                                 /\ dispatched'[c][s] = dispatched[c][s]
           /\ \A i \in DOMAIN events' :
                events'[i].conn = c => \E j \in DOMAIN events : events[j].conn = c,
         \A c \in Conns, s \in Streams : rx'[c][s].st = "finRead" =>
           \/ rx'[c][s].buf = 0 /\ s \notin readable'[c]
           \/ rx'[c][s] = rx[c][s] /\ (s \in readable'[c] => s \in readable[c])
  PROVE  BaseInv'
<1>1. ReadOut'
  BY DEF BaseInv, ReadOut
<1>2. Untouched'
  BY DEF BaseInv, Untouched
<1> QED
  BY <1>1, <1>2 DEF BaseInv

LEMMA StepBase ==
  ASSUME BaseInv, [Next]_vars
  PROVE  BaseInv'
<1>1. TypeOK /\ TypeOK' /\ DOMAIN events = 1 .. Len(events) /\ Len(events) \in Nat
  BY StepType, ChannelTypes DEF BaseInv
<1>2. CASE Calm
  BY <1>1, <1>2, BaseFrame DEF Calm
<1>3. CASE Accept
  BY <1>1, <1>3, AcceptEffect, BaseFrame
<1>4. ASSUME NEW c \in Conns, NEW s \in Streams, KnownStream(c, s),
             UNCHANGED <<phpVars, loopVars>>
      PROVE  BaseInv'
  BY <1>1, <1>4, KnownEffect, BaseFrame DEF TakesUp
<1>5. ASSUME NEW c \in Conns, NEW s \in Streams, AnnounceStream(c, s),
             UNCHANGED <<phpVars, loopVars>>
      PROVE  BaseInv'
  <2>1. Announces(c, s) /\ NewEvent(c, s).conn = c
    BY <1>1, <1>5, AnnounceEffect DEF NewEvent
  <2>2. \A i \in DOMAIN events' : events'[i].conn = c \/ (i \in DOMAIN events /\ events'[i] = events[i])
    BY <1>1, <2>1 DEF Announces, Pushes
  <2> QED
    <3>1. UNCHANGED <<rx, pairs, dispatched>>
      BY <2>1 DEF Announces
    <3>2. \A d \in Conns : drv'[d] = "idle" =>
            d # c /\ drv[d] = "idle" /\ seen'[d] = seen[d] /\ cur'[d] = cur[d]
      BY <2>1 DEF Announces
    <3>3. \A d \in Conns : readable'[d] \subseteq readable[d]
      BY <2>1 DEF Announces
    <3> QED
      BY <1>1, <2>1, <2>2, <3>1, <3>2, <3>3, BaseFrame
<1>6. ASSUME NEW c \in Conns, NEW s \in Streams, RecvOk(c, s),
             UNCHANGED <<phpVars, loopVars>>
      PROVE  BaseInv'
  <2>1. PICK n \in Nat, fin \in BOOLEAN : Reads(c, s, n, fin)
    BY <1>1, <1>6, RecvOkEffect
  <2>2. DataEvent(c, s, rx[c][s].off, n, fin).conn = c
    BY DEF DataEvent
  <2>3. \A i \in DOMAIN events' : events'[i].conn = c \/ (i \in DOMAIN events /\ events'[i] = events[i])
    BY <1>1, <2>1, <2>2 DEF Pushes, Reads
  <2>4. \A d \in Conns : drv'[d] = "idle" => d # c /\ drv[d] = "idle"
    BY <2>1 DEF Reads
  <2>5. rx'[c][s].st = "finRead" => rx'[c][s].buf = 0 /\ s \notin readable'[c]
    <3>1. rx[c][s].buf \in Nat
      BY <1>1 DEF TypeOK, DriverTypeOK, RxState
    <3> QED
      BY <2>1, <3>1 DEF Reads, BaseInv, ReadOut
  <2>6. UNCHANGED <<pairs, dispatched>>
        /\ \A d \in Conns : d # c => /\ seen'[d] = seen[d] /\ cur'[d] = cur[d]
                                     /\ \A q \in Streams : rx'[d][q] = rx[d][q]
    BY <2>1 DEF Reads
  <2>7. \A d \in Conns, q \in Streams : d # c \/ q # s =>
          rx'[d][q] = rx[d][q] /\ (q \in readable'[d] => q \in readable[d])
    BY <2>1 DEF Reads
  <2> QED
    BY <1>1, <2>3, <2>4, <2>5, <2>6, <2>7, BaseFrame
<1>7. CASE Receives
  <2> DEFINE e == events[1]
  <2>0. Takes(e)
    BY <1>1, <1>7, ReceiveEffect
  <2>1. /\ e = events[1] /\ e.conn \in Conns /\ e.stream \in Streams
        /\ UNCHANGED <<drv, seen, cur, rx, readable>>
        /\ \A i \in DOMAIN events' : i + 1 \in DOMAIN events /\ events'[i] = events[i + 1]
        /\ 1 \in DOMAIN events
    BY <1>1, <2>0, ChannelTypes DEF Takes
  <2> HIDE DEF e
  <2>2. drv[e.conn] # "idle"
    BY <2>1 DEF BaseInv, Untouched
  <2>3. \A d \in Conns, q \in Streams : d # e.conn =>
          pairs'[d][q] = pairs[d][q] /\ dispatched'[d][q] = dispatched[d][q]
    <3>1. \/ UNCHANGED <<pairs, dispatched>>
          \/ InsertSlotPair(e.conn, e.stream) /\ UNCHANGED dispatched
          \/ /\ UNCHANGED pairs
             /\ dispatched' = [dispatched EXCEPT ![e.conn][e.stream] = e.off + e.n]
      BY <2>0 DEF Takes
    <3>2. dispatched \in [Conns -> [Streams -> Nat]]
      BY <1>1 DEF TypeOK, ServerLoopTypeOK
    <3>3. CASE InsertSlotPair(e.conn, e.stream) /\ UNCHANGED dispatched
      BY <1>1, <2>1, <3>3, InsertEffect
    <3> QED
      BY <3>1, <3>2, <3>3
  <2> QED
    BY <1>1, <2>1, <2>2, <2>3, BaseFrame
<1>8. ASSUME NEW c \in Conns, NEW s \in Streams, Opens(c, s)
      PROVE  BaseInv'
  <2>1. /\ UNCHANGED <<events, drv, seen, cur, rx, readable, dispatched>>
        /\ InsertSlotPair(c, s) /\ drv[c] # "idle"
    BY <1>1, <1>8, OpenEffect DEF BaseInv, Untouched
  <2>2. \A d \in Conns, q \in Streams : d # c => pairs'[d][q] = pairs[d][q]
    BY <1>1, <2>1, InsertEffect
  <2> QED
    BY <1>1, <2>1, <2>2, BaseFrame
<1> QED
  BY <1>1, <1>2, <1>3, <1>4, <1>5, <1>6, <1>7, <1>8, StepKinds DEF Drives

-----------------------------------------------------------------------------
(***************************************************************************)
(* Announced before its data.                                              *)
(***************************************************************************)
\* Places of the channel are kept by a push, and move up by one otherwise.
LEMMA PushPlaces ==
  ASSUME TypeOK, NEW e \in Event, Pushes(e), NEW c \in Conns, NEW s \in Streams
  PROVE  /\ Len(events) \in Nat /\ DOMAIN events = 1 .. Len(events)
         /\ DOMAIN events' = 1 .. Len(events) + 1
         /\ \A i \in DOMAIN events : /\ i \in DOMAIN events' /\ events'[i] = events[i]
                                     /\ NewOn(i, c, s)' <=> NewOn(i, c, s)
                                     /\ DataOn(i, c, s)' <=> DataOn(i, c, s)
         /\ \A i \in DOMAIN events' \ DOMAIN events :
              /\ i = Len(events) + 1 /\ events'[i] = e
              /\ NewOn(i, c, s)' <=> e.kind \in NewKinds /\ e.conn = c /\ e.stream = s
              /\ DataOn(i, c, s)' <=> e.kind = "Data" /\ e.conn = c /\ e.stream = s
<1>1. Len(events) \in Nat /\ DOMAIN events = 1 .. Len(events)
  BY ChannelTypes
<1>2. \A i \in DOMAIN events : i \in DOMAIN events' /\ events'[i] = events[i]
  BY <1>1 DEF Pushes
<1>3. DOMAIN events' = 1 .. Len(events) + 1 /\ events'[Len(events) + 1] = e
  BY DEF Pushes
<1>4. \A i \in DOMAIN events : /\ NewOn(i, c, s)' <=> NewOn(i, c, s)
                               /\ DataOn(i, c, s)' <=> DataOn(i, c, s)
  BY <1>2 DEF NewOn, DataOn, OnStream
<1>5. ASSUME NEW i \in DOMAIN events' \ DOMAIN events
      PROVE  /\ i = Len(events) + 1 /\ events'[i] = e
             /\ NewOn(i, c, s)' <=> e.kind \in NewKinds /\ e.conn = c /\ e.stream = s
             /\ DataOn(i, c, s)' <=> e.kind = "Data" /\ e.conn = c /\ e.stream = s
  <2>1. i = Len(events) + 1 /\ events'[i] = e
    BY <1>1, <1>3
  <2> QED
    BY <2>1 DEF NewOn, DataOn, OnStream
<1> QED
  BY <1>1, <1>2, <1>3, <1>4, <1>5

LEMMA TakePlaces ==
  ASSUME TypeOK, Takes(events[1]), NEW c \in Conns, NEW s \in Streams
  PROVE  /\ Len(events) \in Nat /\ DOMAIN events = 1 .. Len(events)
         /\ DOMAIN events' = 1 .. Len(events) - 1 /\ 1 \in DOMAIN events
         /\ \A i \in DOMAIN events' : /\ i + 1 \in DOMAIN events /\ events'[i] = events[i + 1]
                                      /\ NewOn(i, c, s)' <=> NewOn(i + 1, c, s)
                                      /\ DataOn(i, c, s)' <=> DataOn(i + 1, c, s)
         /\ \A i \in DOMAIN events : i # 1 => i - 1 \in DOMAIN events' /\ (i - 1) + 1 = i
<1>1. Len(events) \in Nat /\ DOMAIN events = 1 .. Len(events) /\ Len(events) > 0
  BY ChannelTypes DEF Takes
<1>2. /\ DOMAIN events' = 1 .. Len(events) - 1 /\ 1 \in DOMAIN events
      /\ \A i \in DOMAIN events' : i + 1 \in DOMAIN events /\ events'[i] = events[i + 1]
      /\ \A i \in DOMAIN events : i # 1 => i - 1 \in DOMAIN events' /\ (i - 1) + 1 = i
  BY <1>1 DEF Takes
<1> QED
  BY <1>1, <1>2 DEF NewOn, DataOn, OnStream

\* When the PHP thread takes the announcement of a stream, there is a pair.
LEMMA TakeNew ==
  ASSUME TypeOK, Takes(events[1]), NEW c \in connections, NEW s \in Streams
  PROVE  /\ c \in Conns /\ pairs[c][s] \in Nat /\ pairs'[c][s] \in Nat
         /\ pairs'[c][s] >= pairs[c][s]
         /\ NewOn(1, c, s) => pairs'[c][s] = pairs[c][s] + 1
         /\ ~NewOn(1, c, s) => pairs'[c][s] = pairs[c][s]
<1>1. /\ c \in Conns /\ pairs[c][s] \in Nat
      /\ events[1].conn \in Conns /\ events[1].stream \in Streams
  <2>1. c \in Conns /\ pairs[c][s] \in Nat
    BY DEF TypeOK, ServerLoopTypeOK, PhpStreamsTypeOK
  <2> QED
    BY <2>1, TakePlaces, ChannelTypes
<1>2. CASE InsertSlotPair(events[1].conn, events[1].stream) /\ events[1].kind \in NewKinds
  BY <1>1, <1>2, InsertEffect DEF NewOn, OnStream
<1>3. CASE UNCHANGED pairs /\ (events[1].conn \notin connections \/ events[1].kind = "Data")
  BY <1>1, <1>3 DEF NewOn, OnStream, NewKinds
<1> QED
  BY <1>2, <1>3 DEF Takes

\* A stream stays announced while the server has its connection.
LEMMA StaysAnnounced ==
  ASSUME TypeOK, NEW c \in connections, NEW s \in Streams, Announced(c, s),
         \/ UNCHANGED <<events, pairs>>
         \/ UNCHANGED pairs /\ \E e \in Event : Pushes(e)
         \/ Takes(events[1])
         \/ UNCHANGED events /\ \E d \in Conns, q \in Streams : InsertSlotPair(d, q)
  PROVE  Announced(c, s)'
<1>0. c \in Conns
  BY DEF TypeOK, ServerLoopTypeOK
<1>1. CASE UNCHANGED <<events, pairs>>
  BY <1>1 DEF Announced, NewOn, OnStream
<1>2. CASE UNCHANGED pairs /\ \E e \in Event : Pushes(e)
  BY <1>0, <1>2, PushPlaces DEF Announced
<1>3. CASE Takes(events[1])
  <2>1. CASE pairs[c][s] > 0
    BY <1>3, <2>1, TakeNew DEF Announced
  <2>2. CASE NewOn(1, c, s)
    BY <1>3, <2>2, TakeNew DEF Announced
  <2>3. ASSUME NEW i \in DOMAIN events, NewOn(i, c, s), i # 1 PROVE Announced(c, s)'
    <3>1. i - 1 \in DOMAIN events' /\ NewOn(i - 1, c, s)'
      BY <1>0, <1>3, <2>3, TakePlaces
    <3> QED
      BY <3>1 DEF Announced
  <2> QED
    BY <2>1, <2>2, <2>3 DEF Announced
<1>4. CASE UNCHANGED events /\ \E d \in Conns, q \in Streams : InsertSlotPair(d, q)
  <2>1. pairs[c][s] > 0 => pairs'[c][s] > 0
    BY <1>0, <1>4, InsertEffect
  <2> QED
    BY <1>4, <2>1 DEF Announced, NewOn, OnStream
<1> QED
  BY <1>1, <1>2, <1>3, <1>4

LEMMA InitAnnounce == Init => AnnounceInv
<1> SUFFICES ASSUME Init PROVE AnnounceInv
  OBVIOUS
<1>1. connections = {}
  BY DEF Init, ServerLoopInit
<1> QED
  BY <1>1, InitBase DEF AnnounceInv

LEMMA StepAnnounce ==
  ASSUME AnnounceInv, [Next]_vars
  PROVE  AnnounceInv'
<1>1. TypeOK /\ BaseInv /\ BaseInv' /\ TypeOK'
  BY StepBase DEF AnnounceInv, BaseInv
<1>2. DOMAIN events = 1 .. Len(events) /\ Len(events) \in Nat
      /\ connections \subseteq Conns /\ connections' \subseteq Conns
  BY <1>1, ChannelTypes DEF TypeOK, ServerLoopTypeOK
<1> SUFFICES ASSUME NEW c \in connections', NEW s \in Streams, ClientInitiated(s)
             PROVE  /\ s \in seen'[c] \cup cur'[c] => Announced(c, s)'
                    /\ \A i \in DOMAIN events' :
                         DataOn(i, c, s)' =>
                           \/ pairs'[c][s] > 0
                           \/ \E j \in DOMAIN events' : j < i /\ NewOn(j, c, s)'
  BY <1>1, Zenon DEF AnnounceInv
<1>3. c \in Conns
  BY <1>2
<1>4. CASE c \in connections /\ UNCHANGED <<events, pairs>> /\ UNCHANGED <<seen, cur>>
  BY <1>4 DEF AnnounceInv, Announced, NewOn, DataOn, OnStream
<1>5. CASE Calm
  <2>1. c \in connections /\ UNCHANGED <<events, pairs, seen>> /\ cur'[c] \subseteq cur[c]
    BY <1>3, <1>5 DEF Calm
  <2> QED
    BY <2>1 DEF AnnounceInv, Announced, NewOn, DataOn, OnStream
<1>6. CASE Accept
  <2>1. CASE c \in connections
    BY <1>1, <1>4, <1>6, <2>1, AcceptEffect
  <2>2. CASE c = id_counter
    <3>1. /\ drv[c] = "idle" /\ UNCHANGED <<events, seen, cur>>
      BY <1>1, <1>6, <2>2, AcceptEffect
    <3>2. seen'[c] = {} /\ cur'[c] = {} /\ \A i \in DOMAIN events' : events'[i].conn # c
      BY <1>1, <1>3, <3>1 DEF BaseInv, Untouched
    <3> QED
      BY <3>2 DEF DataOn, OnStream
  <2> QED
    BY <1>1, <1>6, <2>1, <2>2, AcceptEffect
<1> DEFINE Goal == /\ s \in seen'[c] \cup cur'[c] => Announced(c, s)'
                   /\ \A i \in DOMAIN events' :
                        DataOn(i, c, s)' =>
                          \/ pairs'[c][s] > 0
                          \/ \E j \in DOMAIN events' : j < i /\ NewOn(j, c, s)'
<1>7. ASSUME NEW d \in Conns, NEW q \in Streams, KnownStream(d, q),
             UNCHANGED <<phpVars, loopVars>>
      PROVE  Goal
  <2>1. /\ UNCHANGED <<events, pairs, seen, connections>>
        /\ cur'[c] = cur[c] \/ (cur'[c] = {q} /\ (ClientInitiated(q) => q \in seen[c]))
    BY <1>1, <1>3, <1>7, KnownEffect DEF TakesUp
  <2> QED
    BY <2>1 DEF AnnounceInv, Announced, NewOn, DataOn, OnStream
<1>8. ASSUME NEW d \in Conns, NEW q \in Streams, AnnounceStream(d, q),
             UNCHANGED <<phpVars, loopVars>>
      PROVE  Goal
  <2>1. Announces(d, q) /\ Pushes(NewEvent(d, q)) /\ UNCHANGED <<pairs, connections>>
    BY <1>1, <1>8, AnnounceEffect DEF Announces
  <2>2. NewEvent(d, q) \in Event /\ NewEvent(d, q).kind \in NewKinds
        /\ NewEvent(d, q).kind # "Data" /\ NewEvent(d, q).conn = d /\ NewEvent(d, q).stream = q
    BY DEF NewEvent, Event, NewKinds
  <2>3. \A i \in DOMAIN events' : DataOn(i, c, s)' => i \in DOMAIN events /\ DataOn(i, c, s)
    BY <1>1, <1>3, <2>1, <2>2, PushPlaces
  <2>4. \A i \in DOMAIN events : NewOn(i, c, s) => i \in DOMAIN events' /\ NewOn(i, c, s)'
    BY <1>1, <1>3, <2>1, <2>2, PushPlaces
  <2>5. ASSUME s \in seen'[c] \cup cur'[c] PROVE Announced(c, s)'
    <3>1. CASE c = d /\ s = q
      <4>1. \E i \in DOMAIN events' : NewOn(i, c, s)'
        <5>1. Len(events) + 1 \in DOMAIN events' /\ Len(events) + 1 \notin DOMAIN events
          BY <1>1, <1>2, <1>3, <2>1, <2>2, PushPlaces
        <5> QED
          BY <1>1, <1>3, <2>1, <2>2, <3>1, <5>1, PushPlaces
      <4> QED
        BY <4>1 DEF Announced
    <3>2. CASE ~(c = d /\ s = q)
      <4>1. s \in seen[c] \cup cur[c]
        BY <1>3, <2>1, <2>5, <3>2 DEF Announces
      <4> QED
        BY <1>1, <2>1, <2>2, <4>1, StaysAnnounced DEF AnnounceInv
    <3> QED
      BY <3>1, <3>2
  <2> QED
    BY <2>1, <2>3, <2>4, <2>5 DEF AnnounceInv
<1>9. ASSUME NEW d \in Conns, NEW q \in Streams, RecvOk(d, q),
             UNCHANGED <<phpVars, loopVars>>
      PROVE  Goal
  <2>1. PICK n \in Nat, fin \in BOOLEAN : Reads(d, q, n, fin)
    BY <1>1, <1>9, RecvOkEffect
  <2> DEFINE e == DataEvent(d, q, rx[d][q].off, n, fin)
  <2>2. /\ Pushes(e) /\ UNCHANGED <<pairs, connections>> /\ q \in cur[d]
        /\ seen'[c] \subseteq seen[c] /\ cur'[c] = cur[c]
    BY <1>3, <2>1 DEF Reads
  <2>3. e \in Event /\ e.kind = "Data" /\ e.conn = d /\ e.stream = q
    BY <2>2 DEF Pushes, DataEvent
  <2> HIDE DEF e
  <2>4. s \in seen'[c] \cup cur'[c] => Announced(c, s)'
    BY <1>1, <2>2, <2>3, StaysAnnounced DEF AnnounceInv
  <2>5. \A i \in DOMAIN events : NewOn(i, c, s) => i \in DOMAIN events' /\ NewOn(i, c, s)'
    BY <1>1, <1>3, <2>2, <2>3, PushPlaces
  <2>6. ASSUME NEW i \in DOMAIN events', DataOn(i, c, s)'
        PROVE  pairs[c][s] > 0 \/ \E j \in DOMAIN events : j < i /\ NewOn(j, c, s)
    <3>1. CASE i \in DOMAIN events
      BY <1>1, <1>3, <2>2, <2>3, <2>6, <3>1, PushPlaces DEF AnnounceInv
    <3>2. CASE i \notin DOMAIN events
      <4>1. c = d /\ s = q /\ i = Len(events) + 1
        BY <1>1, <1>3, <2>2, <2>3, <2>6, <3>2, PushPlaces
      <4>2. Announced(c, s)
        BY <2>2, <4>1 DEF AnnounceInv
      <4> QED
        BY <1>2, <4>1, <4>2 DEF Announced
    <3> QED
      BY <3>1, <3>2
  <2> QED
    BY <2>2, <2>4, <2>5, <2>6
<1>10. CASE Receives
  <2>1. Takes(events[1]) /\ UNCHANGED <<seen, cur, connections>>
    BY <1>1, <1>10, ReceiveEffect DEF Takes
  <2>2. s \in seen'[c] \cup cur'[c] => Announced(c, s)'
    BY <1>1, <2>1, StaysAnnounced DEF AnnounceInv
  <2>3. ASSUME NEW i \in DOMAIN events', DataOn(i, c, s)'
        PROVE  pairs'[c][s] > 0 \/ \E j \in DOMAIN events' : j < i /\ NewOn(j, c, s)'
    <3>1. i + 1 \in DOMAIN events /\ DataOn(i + 1, c, s)
      BY <1>1, <1>3, <2>1, <2>3, TakePlaces
    <3>2. CASE pairs[c][s] > 0 \/ NewOn(1, c, s)
      BY <1>1, <2>1, <3>2, TakeNew
    <3>3. ASSUME NEW j \in DOMAIN events, j < i + 1, j # 1, NewOn(j, c, s)
          PROVE  \E k \in DOMAIN events' : k < i /\ NewOn(k, c, s)'
      <4>1. j - 1 \in DOMAIN events' /\ NewOn(j - 1, c, s)'
        BY <1>1, <1>3, <2>1, <3>3, TakePlaces
      <4>2. j - 1 < i
        BY <1>1, <1>2, <1>3, <2>1, <3>3, TakePlaces
      <4> QED
        BY <4>1, <4>2
    <3> QED
      BY <2>1, <3>1, <3>2, <3>3 DEF AnnounceInv
  <2> QED
    BY <2>2, <2>3
<1>11. ASSUME NEW d \in Conns, NEW q \in Streams, Opens(d, q)
       PROVE  Goal
  <2>1. UNCHANGED <<events, seen, cur, connections>> /\ InsertSlotPair(d, q)
    BY <1>1, <1>11, OpenEffect
  <2>2. s \in seen'[c] \cup cur'[c] => Announced(c, s)'
    BY <1>1, <2>1, StaysAnnounced DEF AnnounceInv
  <2>3. pairs[c][s] > 0 => pairs'[c][s] > 0
    BY <1>1, <1>3, <2>1, InsertEffect
  <2> QED
    BY <2>1, <2>2, <2>3 DEF AnnounceInv, NewOn, DataOn, OnStream
<1> HIDE DEF Goal
<1>12. Goal
  BY <1>1, <1>5, <1>6, <1>7, <1>8, <1>9, <1>10, <1>11, StepKinds DEF Drives, Goal
<1> QED
  BY <1>12 DEF Goal

\* The PHP thread looks a chunk's slots up in a map that only the announcement
\* fills: whatever the drivers and the capacity of the channel, no chunk of a
\* stream the peer opened gets ahead of its announcement.
THEOREM DataIsAnnounced == Spec => []AnnouncedBeforeData
<1>1. Init => AnnounceInv
  BY InitAnnounce
<1>2. AnnounceInv /\ [Next]_vars => AnnounceInv'
  BY StepAnnounce
<1>3. AnnounceInv => AnnouncedBeforeData
  <2> SUFFICES ASSUME AnnounceInv, NEW i \in DOMAIN events, events[i].kind = "Data",
                      ClientInitiated(events[i].stream), events[i].conn \in connections
               PROVE  \/ pairs[events[i].conn][events[i].stream] > 0
                      \/ \E j \in 1 .. i - 1 :
                           /\ events[j].kind \in NewKinds
                           /\ OnStream(events[j], events[i].conn, events[i].stream)
    BY DEF AnnouncedBeforeData, Tracked
  <2>1. /\ DOMAIN events = 1 .. Len(events) /\ Len(events) \in Nat
        /\ events[i].stream \in Streams
    BY ChannelTypes DEF AnnounceInv, BaseInv
  <2>2. DataOn(i, events[i].conn, events[i].stream)
    BY DEF DataOn, OnStream
  <2> QED
    BY <2>1, <2>2 DEF AnnounceInv, NewOn
<1> QED
  BY <1>1, <1>2, <1>3, PTL DEF Spec
-----------------------------------------------------------------------------
(***************************************************************************)
(* Announced once.                                                         *)
(***************************************************************************)
LEMMA InitOnceAnnounced == Init => OnceAnnouncedInv
<1> SUFFICES ASSUME Init PROVE OnceAnnouncedInv
  OBVIOUS
<1>1. DOMAIN events = {} /\ \A c \in Conns, s \in Streams : pairs[c][s] = 0
  BY DEF Init, ChannelsInit, PhpStreamsInit
<1> QED
  BY <1>1, InitBase DEF OnceAnnouncedInv, OnceOn, Announced

\* Nothing that concerns the announcement of the stream happens.
LEMMA OnceFrame ==
  ASSUME NEW c \in Conns, NEW s \in Streams, OnceOn(c, s),
         \A i \in DOMAIN events' : NewOn(i, c, s)' => i \in DOMAIN events /\ NewOn(i, c, s),
         pairs'[c][s] = pairs[c][s] \/ ~ClientInitiated(s),
         rx'[c][s].st = "finRead" \/
           (rx[c][s].st # "finRead" /\ (s \in seen[c] => s \in seen'[c]))
  PROVE  OnceOn(c, s)'
<1>1. (ClientInitiated(s) /\ s \notin seen'[c] /\ rx'[c][s].st # "finRead") => ~Announced(c, s)'
  BY DEF OnceOn, Announced
<1>2. \A i \in DOMAIN events' : NewOn(i, c, s)' =>
        /\ ClientInitiated(s) /\ pairs'[c][s] = 0
        /\ \A j \in DOMAIN events' : NewOn(j, c, s)' => j = i
  BY DEF OnceOn
<1> QED
  BY <1>1, <1>2, Zenon DEF OnceOn

LEMMA StepOnceAnnounced ==
  ASSUME \A s \in OpenIds : ~ClientInitiated(s), OnceAnnouncedInv, [Next]_vars
  PROVE  OnceAnnouncedInv'
<1>1. TypeOK /\ BaseInv /\ BaseInv'
  BY StepBase DEF OnceAnnouncedInv, BaseInv
<1> SUFFICES ASSUME NEW c \in Conns, NEW s \in Streams
             PROVE  OnceOn(c, s)'
  BY <1>1 DEF OnceAnnouncedInv
<1>2. OnceOn(c, s)
  BY DEF OnceAnnouncedInv
<1>3. ASSUME UNCHANGED <<events, pairs, seen>>,
             "finRead" \in {rx[c][s].st, rx'[c][s].st} => rx'[c][s] = rx[c][s]
      PROVE  OnceOn(c, s)'
  BY <1>2, <1>3, OnceFrame DEF NewOn, OnStream
<1>4. CASE Calm
  BY <1>3, <1>4 DEF Calm
<1>5. CASE Accept
  BY <1>1, <1>3, <1>5, AcceptEffect
<1>6. ASSUME NEW d \in Conns, NEW q \in Streams, KnownStream(d, q),
             UNCHANGED <<phpVars, loopVars>>
      PROVE  OnceOn(c, s)'
  BY <1>1, <1>3, <1>6, KnownEffect DEF TakesUp
<1>7. ASSUME NEW d \in Conns, NEW q \in Streams, AnnounceStream(d, q),
             UNCHANGED <<phpVars, loopVars>>
      PROVE  OnceOn(c, s)'
  <2>1. /\ Announces(d, q) /\ Pushes(NewEvent(d, q)) /\ UNCHANGED <<pairs, rx>>
        /\ q \in readable[d] /\ ClientInitiated(q) /\ q \notin seen[d]
    BY <1>1, <1>7, AnnounceEffect DEF Announces
  <2>2. NewEvent(d, q) \in Event /\ NewEvent(d, q).conn = d /\ NewEvent(d, q).stream = q
    BY DEF NewEvent, Event, NewKinds
  <2>3. CASE c = d /\ s = q
    <3>1. ~Announced(c, s)
      BY <1>1, <1>2, <2>1, <2>3 DEF OnceOn, BaseInv, ReadOut
    <3>2. \A i \in DOMAIN events' : NewOn(i, c, s)' => i = Len(events) + 1
      BY <1>1, <2>1, <2>2, <3>1, PushPlaces DEF Announced
    <3>3. ClientInitiated(s) /\ pairs'[c][s] = 0 /\ s \in seen'[c]
      <4>1. pairs[c][s] \in Nat
        BY <1>1 DEF TypeOK, PhpStreamsTypeOK
      <4>2. ~(pairs[c][s] > 0)
        BY <3>1 DEF Announced
      <4>3. seen'[d] = seen[d] \cup {q}
        BY <2>1 DEF Announces
      <4> QED
        BY <2>1, <2>3, <4>1, <4>2, <4>3
    <3>4. (ClientInitiated(s) /\ s \notin seen'[c] /\ rx'[c][s].st # "finRead") => ~Announced(c, s)'
      BY <3>3
    <3> QED
      BY <3>2, <3>3, <3>4 DEF OnceOn
  <2>4. CASE ~(c = d /\ s = q)
    <3>1. \A i \in DOMAIN events' : NewOn(i, c, s)' => i \in DOMAIN events /\ NewOn(i, c, s)
      BY <1>1, <2>1, <2>2, <2>4, PushPlaces
    <3>2. s \in seen'[c] <=> s \in seen[c]
      BY <2>1, <2>4 DEF Announces
    <3> QED
      BY <1>2, <2>1, <3>1, <3>2, OnceFrame
  <2> QED
    BY <2>3, <2>4
<1>8. ASSUME NEW d \in Conns, NEW q \in Streams, RecvOk(d, q),
             UNCHANGED <<phpVars, loopVars>>
      PROVE  OnceOn(c, s)'
  <2>1. PICK n \in Nat, fin \in BOOLEAN : Reads(d, q, n, fin)
    BY <1>1, <1>8, RecvOkEffect
  <2> DEFINE e == DataEvent(d, q, rx[d][q].off, n, fin)
  <2>2. Pushes(e) /\ e \in Event /\ e.kind \notin NewKinds /\ UNCHANGED pairs
    BY <2>1 DEF Reads, Pushes, DataEvent, NewKinds
  <2> HIDE DEF e
  <2>3. \A i \in DOMAIN events' : NewOn(i, c, s)' => i \in DOMAIN events /\ NewOn(i, c, s)
    BY <1>1, <2>2, PushPlaces
  <2>4. \/ rx'[c][s].st = "finRead"
        \/ rx'[c][s].st = rx[c][s].st /\ (s \in seen[c] => s \in seen'[c])
    BY <2>1 DEF Reads
  <2>5. CASE rx[c][s].st # "finRead" \/ rx'[c][s].st = "finRead"
    BY <1>2, <2>2, <2>3, <2>4, <2>5, OnceFrame
  <2>6. CASE rx[c][s].st = "finRead" /\ rx'[c][s].st # "finRead"
    BY <2>4, <2>6
  <2> QED
    BY <2>5, <2>6
<1>9. CASE Receives
  <2>1. Takes(events[1]) /\ UNCHANGED <<seen, rx, connections>>
    BY <1>1, <1>9, ReceiveEffect DEF Takes
  <2>2. /\ pairs[c][s] \in Nat
        /\ pairs'[c][s] = pairs[c][s] \/ (NewOn(1, c, s) /\ 1 \in DOMAIN events)
    <3>1. events[1].conn \in Conns /\ events[1].stream \in Streams /\ 1 \in DOMAIN events
      BY <1>1, <2>1, TakePlaces, ChannelTypes
    <3>2. pairs[c][s] \in Nat
      BY <1>1 DEF TypeOK, PhpStreamsTypeOK
    <3>3. \/ UNCHANGED pairs
          \/ events[1].kind \in NewKinds /\ InsertSlotPair(events[1].conn, events[1].stream)
      BY <2>1 DEF Takes
    <3> QED
      BY <1>1, <3>1, <3>2, <3>3, InsertEffect DEF NewOn, OnStream
  <2>3. (ClientInitiated(s) /\ s \notin seen'[c] /\ rx'[c][s].st # "finRead") => ~Announced(c, s)'
    <3>1. ~Announced(c, s) => ~Announced(c, s)'
      BY <1>1, <2>1, <2>2, TakePlaces DEF Announced
    <3> QED
      BY <1>2, <2>1, <3>1 DEF OnceOn
  <2>4. ASSUME NEW i \in DOMAIN events', NewOn(i, c, s)'
        PROVE  /\ ClientInitiated(s) /\ pairs'[c][s] = 0
               /\ \A j \in DOMAIN events' : NewOn(j, c, s)' => j = i
    <3>1. i + 1 \in DOMAIN events /\ NewOn(i + 1, c, s) /\ i + 1 # 1 /\ i \in Nat
      BY <1>1, <2>1, <2>4, TakePlaces
    <3>2. /\ ClientInitiated(s) /\ pairs[c][s] = 0
          /\ \A j \in DOMAIN events : NewOn(j, c, s) => j = i + 1
      BY <1>2, <3>1 DEF OnceOn
    <3>3. \A j \in DOMAIN events' : j \in Nat /\ (NewOn(j, c, s)' => j + 1 = i + 1)
      BY <1>1, <2>1, <3>2, TakePlaces
    <3> QED
      BY <2>2, <3>1, <3>2, <3>3
  <2> QED
    BY <2>3, <2>4, Zenon DEF OnceOn
<1>10. ASSUME NEW d \in Conns, NEW q \in Streams, Opens(d, q)
       PROVE  OnceOn(c, s)'
  <2>1. UNCHANGED <<events, seen, rx>> /\ q \in OpenIds /\ InsertSlotPair(d, q)
    BY <1>1, <1>10, OpenEffect
  <2>2. pairs'[c][s] = pairs[c][s] \/ ~ClientInitiated(s)
    BY <1>1, <2>1, InsertEffect
  <2> QED
    BY <1>2, <2>1, <2>2 DEF OnceOn, Announced, NewOn, OnStream
<1> QED
  BY <1>1, <1>4, <1>5, <1>6, <1>7, <1>8, <1>9, <1>10, StepKinds DEF Drives

\* seen_streams forgets a stream at its FIN and the callback slots of its PHP
\* object would be replaced if it were announced again.  It is not, provided
\* the script opens streams under the server's own ids: conn.rs does not check
\* the id it is given.
THEOREM AnnouncedOnce ==
  ASSUME \A s \in OpenIds : ~ClientInitiated(s)
  PROVE  Spec => []NeverReannounced
<1>1. Init => OnceAnnouncedInv
  BY InitOnceAnnounced
<1>2. OnceAnnouncedInv /\ [Next]_vars => OnceAnnouncedInv'
  BY StepOnceAnnounced
<1>3. OnceAnnouncedInv => NeverReannounced
  <2> SUFFICES ASSUME OnceAnnouncedInv, NEW i \in DOMAIN events, events[i].kind \in NewKinds
               PROVE  /\ pairs[events[i].conn][events[i].stream] = 0
                      /\ \A j \in DOMAIN events :
                           j # i /\ OnStream(events[j], events[i].conn, events[i].stream)
                             => events[j].kind = "Data"
    BY DEF NeverReannounced
  <2>1. /\ events[i].conn \in Conns /\ events[i].stream \in Streams
        /\ \A j \in DOMAIN events : events[j].kind \in NewKinds \cup {"Data"}
    BY ChannelTypes DEF OnceAnnouncedInv, BaseInv
  <2>2. NewOn(i, events[i].conn, events[i].stream)
    BY DEF NewOn, OnStream
  <2>3. OnceOn(events[i].conn, events[i].stream)
    BY <2>1 DEF OnceAnnouncedInv
  <2> QED
    BY <2>1, <2>2, <2>3 DEF OnceOn, NewOn
<1> QED
  BY <1>1, <1>2, <1>3, PTL DEF Spec

-----------------------------------------------------------------------------
(***************************************************************************)
(* In order.                                                               *)
(***************************************************************************)
LEMMA LinksPush ==
  ASSUME NEW D \in SUBSET Nat, NEW ev, NEW ew, NEW from, NEW to, Links(D, ev, from, to),
         NEW k \in Nat, \A i \in D : i < k /\ ew[i] = ev[i], ew[k].off = to
  PROVE  Links(D \cup {k}, ew, from, ew[k].off + ew[k].n)
BY DEF Links

LEMMA LinksTake ==
  ASSUME NEW D \in SUBSET (Nat \ {0}), NEW ev, NEW ew, NEW from, NEW to,
         Links(D, ev, from, to), NEW E \in SUBSET (Nat \ {0}),
         \A i \in E : i + 1 \in D /\ ew[i] = ev[i + 1],
         \A i \in D : i # 1 => i - 1 \in E
  PROVE  Links(E, ew, IF 1 \in D THEN ev[1].off + ev[1].n ELSE from, to)
<1>1. CASE 1 \in D
  BY <1>1 DEF Links
<1>2. CASE 1 \notin D
  BY <1>2 DEF Links
<1> QED
  BY <1>1, <1>2

LEMMA InitOrder == Init => OrderInv
<1> SUFFICES ASSUME Init PROVE OrderInv
  OBVIOUS
<1>1. DOMAIN events = {}
  BY DEF Init, ChannelsInit
<1>2. \A c \in Conns, s \in Streams : rx[c][s].off = 0 /\ dispatched[c][s] = 0
  BY DEF Init, DriverInit, ServerLoopInit
<1> QED
  BY <1>1, <1>2, InitBase DEF OrderInv, Chain, Links, DataAt

\* The chain is not touched.
LEMMA SameChain ==
  ASSUME NEW c \in Conns, NEW s \in Streams, Chain(c, s), UNCHANGED events,
         rx'[c][s].off = rx[c][s].off, dispatched'[c][s] = dispatched[c][s]
  PROVE  Chain(c, s)'
BY DEF Chain, DataAt, DataOn, OnStream

\* Where the chunks of a stream are after a push, and after a take.
LEMMA PushData ==
  ASSUME TypeOK, NEW e \in Event, Pushes(e), NEW c \in Conns, NEW s \in Streams
  PROVE  /\ Len(events) + 1 \in Nat /\ DataAt(c, s) \in SUBSET Nat
         /\ \A i \in DataAt(c, s) : i < Len(events) + 1 /\ events'[i] = events[i]
         /\ events'[Len(events) + 1] = e
         /\ DataAt(c, s)' = IF e.kind = "Data" /\ e.conn = c /\ e.stream = s
                              THEN DataAt(c, s) \cup {Len(events) + 1}
                              ELSE DataAt(c, s)
<1> DEFINE k == Len(events) + 1
<1>1. /\ k \in Nat /\ DOMAIN events = 1 .. Len(events)
      /\ \A i \in DataAt(c, s) : i < k /\ i \in Nat /\ events'[i] = events[i]
      /\ events'[k] = e /\ k \in DOMAIN events' /\ k \notin DOMAIN events
  BY PushPlaces DEF DataAt, Pushes
<1>2. CASE e.kind = "Data" /\ e.conn = c /\ e.stream = s
  <2>1. DataAt(c, s)' = DataAt(c, s) \cup {k}
    BY <1>1, <1>2, PushPlaces DEF DataAt
  <2> QED
    BY <1>1, <1>2, <2>1
<1>3. CASE ~(e.kind = "Data" /\ e.conn = c /\ e.stream = s)
  <2>1. DataAt(c, s)' = DataAt(c, s)
    BY <1>1, <1>3, PushPlaces DEF DataAt
  <2> QED
    BY <1>1, <1>3, <2>1
<1> QED
  BY <1>2, <1>3

LEMMA TakeData ==
  ASSUME TypeOK, Takes(events[1]), NEW c \in Conns, NEW s \in Streams
  PROVE  /\ DataAt(c, s) \in SUBSET (Nat \ {0}) /\ DataAt(c, s)' \in SUBSET (Nat \ {0})
         /\ events[1].conn \in Conns /\ events[1].stream \in Streams
         /\ 1 \in DataAt(c, s) <=>
              events[1].kind = "Data" /\ events[1].conn = c /\ events[1].stream = s
         /\ \A i \in DataAt(c, s)' : i + 1 \in DataAt(c, s) /\ events'[i] = events[i + 1]
         /\ \A i \in DataAt(c, s) : i # 1 => i - 1 \in DataAt(c, s)'
<1>1. 1 \in DOMAIN events /\ events[1].conn \in Conns /\ events[1].stream \in Streams
  BY TakePlaces, ChannelTypes
<1>2. 1 \in DataAt(c, s) <=>
        events[1].kind = "Data" /\ events[1].conn = c /\ events[1].stream = s
  BY <1>1 DEF DataAt, DataOn, OnStream
<1> QED
  BY <1>1, <1>2, TakePlaces DEF DataAt

\* Something else is pushed, or the next chunk of the stream.
LEMMA PushChain ==
  ASSUME TypeOK, NEW c \in Conns, NEW s \in Streams, Chain(c, s),
         NEW e \in Event, Pushes(e), UNCHANGED dispatched,
         IF e.kind = "Data" /\ e.conn = c /\ e.stream = s
           THEN e.off = rx[c][s].off /\ rx'[c][s].off = e.off + e.n
           ELSE rx'[c][s].off = rx[c][s].off
  PROVE  Chain(c, s)'
<1> DEFINE D == DataAt(c, s)
           k == Len(events) + 1
<1>1. /\ k \in Nat /\ D \in SUBSET Nat /\ events'[k] = e
      /\ \A i \in D : i < k /\ events'[i] = events[i]
  BY PushData
<1>2. Links(D, events, dispatched[c][s], rx[c][s].off)
  BY DEF Chain
<1>3. CASE e.kind = "Data" /\ e.conn = c /\ e.stream = s
  <2>1. DataAt(c, s)' = D \cup {k}
    BY <1>3, PushData
  <2> HIDE DEF D, k
  <2>2. events'[k].off = rx[c][s].off
    BY <1>1, <1>3
  <2>3. Links(D \cup {k}, events', dispatched[c][s], events'[k].off + events'[k].n)
    BY <1>1, <1>2, <2>2, LinksPush
  <2>4. rx'[c][s].off = events'[k].off + events'[k].n
    BY <1>1, <1>3
  <2> QED
    BY <2>1, <2>3, <2>4 DEF Chain
<1>4. CASE ~(e.kind = "Data" /\ e.conn = c /\ e.stream = s)
  <2>1. DataAt(c, s)' = D
    BY <1>4, PushData
  <2> HIDE DEF D, k
  <2>2. Links(D, events', dispatched[c][s], rx[c][s].off)
    BY <1>1, <1>2 DEF Links
  <2> QED
    BY <1>4, <2>1, <2>2 DEF Chain
<1> QED
  BY <1>3, <1>4

\* The PHP thread takes the first event, which may be a chunk of the stream.
LEMMA TakeChain ==
  ASSUME TypeOK, NEW c \in Conns, NEW s \in Streams, Chain(c, s), Takes(events[1]),
         c \in connections \/ ~DataOn(1, c, s)
  PROVE  Chain(c, s)'
<1> DEFINE D == DataAt(c, s)
           E == DataAt(c, s)'
<1>1. /\ D \in SUBSET (Nat \ {0}) /\ E \in SUBSET (Nat \ {0})
      /\ \A i \in E : i + 1 \in D /\ events'[i] = events[i + 1]
      /\ \A i \in D : i # 1 => i - 1 \in E
  BY TakeData
<1>2. Links(D, events, dispatched[c][s], rx[c][s].off)
  BY DEF Chain
<1>3. dispatched'[c][s] = IF 1 \in D THEN events[1].off + events[1].n ELSE dispatched[c][s]
  <2>1. /\ 1 \in D <=> events[1].kind = "Data" /\ events[1].conn = c /\ events[1].stream = s
        /\ events[1].conn \in Conns /\ events[1].stream \in Streams
    BY TakeData
  <2>2. dispatched \in [Conns -> [Streams -> Nat]]
    BY DEF TypeOK, ServerLoopTypeOK
  <2>3. \/ /\ events[1].conn \in connections /\ events[1].kind = "Data"
           /\ dispatched' = [dispatched EXCEPT ![events[1].conn][events[1].stream] =
                               events[1].off + events[1].n]
        \/ /\ UNCHANGED dispatched
           /\ events[1].conn \notin connections \/ events[1].kind # "Data"
    BY DEF Takes, NewKinds
  <2>4. DataOn(1, c, s) <=> 1 \in D
    BY <2>1 DEF DataOn, OnStream
  <2> HIDE DEF D, E
  <2> QED
    BY <2>1, <2>2, <2>3, <2>4
<1>4. rx'[c][s].off = rx[c][s].off
  BY DEF Takes
<1> HIDE DEF D, E
<1>5. Links(E, events', IF 1 \in D THEN events[1].off + events[1].n ELSE dispatched[c][s],
            rx[c][s].off)
  BY <1>1, <1>2, LinksTake
<1> QED
  BY <1>3, <1>4, <1>5 DEF Chain, E

LEMMA StepOrder ==
  ASSUME NumberUnits, OrderInv, [Next]_vars
  PROVE  OrderInv'
<1>1. TypeOK /\ BaseInv /\ BaseInv'
  BY StepBase DEF OrderInv, BaseInv
<1> SUFFICES ASSUME NEW c \in Conns, NEW s \in Streams, (c \in connections \/ drv[c] = "idle")'
             PROVE  Chain(c, s)'
  BY <1>1 DEF OrderInv
<1> DEFINE Live == c \in connections \/ drv[c] = "idle"
<1>2. Live => Chain(c, s)
  BY DEF OrderInv
<1>3. ASSUME Live, UNCHANGED <<events, dispatched>>, rx'[c][s].off = rx[c][s].off
      PROVE  Chain(c, s)'
  BY <1>2, <1>3, SameChain
<1>4. CASE Calm
  BY <1>3, <1>4 DEF Calm
<1>5. CASE Accept
  BY <1>1, <1>3, <1>5, AcceptEffect
<1>6. ASSUME NEW d \in Conns, NEW q \in Streams, KnownStream(d, q),
             UNCHANGED <<phpVars, loopVars>>
      PROVE  Chain(c, s)'
  BY <1>1, <1>3, <1>6, KnownEffect DEF TakesUp
<1>7. ASSUME NEW d \in Conns, NEW q \in Streams, AnnounceStream(d, q),
             UNCHANGED <<phpVars, loopVars>>
      PROVE  Chain(c, s)'
  <2>1. /\ Pushes(NewEvent(d, q)) /\ UNCHANGED <<rx, dispatched, connections>>
        /\ drv'[c] = "idle" <=> drv[c] = "idle"
    BY <1>1, <1>7, AnnounceEffect DEF Announces
  <2>2. NewEvent(d, q) \in Event /\ NewEvent(d, q).kind # "Data"
    BY DEF NewEvent, Event, NewKinds
  <2> QED
    BY <1>1, <1>2, <2>1, <2>2, PushChain
<1>8. ASSUME NEW d \in Conns, NEW q \in Streams, RecvOk(d, q),
             UNCHANGED <<phpVars, loopVars>>
      PROVE  Chain(c, s)'
  <2>1. PICK n \in Nat, fin \in BOOLEAN : Reads(d, q, n, fin)
    BY <1>1, <1>8, RecvOkEffect
  <2> DEFINE e == DataEvent(d, q, rx[d][q].off, n, fin)
  <2>2. /\ Pushes(e) /\ UNCHANGED <<dispatched, connections>>
        /\ drv'[c] = "idle" <=> drv[c] = "idle"
        /\ rx'[d][q].off = rx[d][q].off + n
        /\ c # d \/ s # q => rx'[c][s] = rx[c][s]
    BY <2>1 DEF Reads
  <2>3. /\ e \in Event /\ e.kind = "Data" /\ e.conn = d /\ e.stream = q
        /\ e.off = rx[d][q].off /\ e.n = n
    BY <2>2 DEF Pushes, DataEvent
  <2> HIDE DEF e
  <2> QED
    BY <1>1, <1>2, <2>2, <2>3, PushChain
<1>9. CASE Receives
  <2>1. Takes(events[1]) /\ UNCHANGED <<drv, connections>>
    BY <1>1, <1>9, ReceiveEffect DEF Takes
  <2>2. c \in connections \/ ~DataOn(1, c, s)
    <3>1. 1 \in DOMAIN events
      BY <1>1, <2>1, TakePlaces
    <3> QED
      BY <1>1, <2>1, <3>1 DEF BaseInv, Untouched, DataOn, OnStream
  <2> QED
    BY <1>1, <1>2, <2>1, <2>2, TakeChain
<1>10. ASSUME NEW d \in Conns, NEW q \in Streams, Opens(d, q)
       PROVE  Chain(c, s)'
  BY <1>1, <1>3, <1>10, OpenEffect
<1> QED
  BY <1>1, <1>4, <1>5, <1>6, <1>7, <1>8, <1>9, <1>10, StepKinds DEF Drives

\* Many drivers share one channel and each stops and goes on as it fills up.
\* Whatever their order, what is queued for a stream of a live connection goes
\* on where PHP's data ends, chunk after chunk.  (With NumberUnits, the switch
\* of the runs that gives each unit of a stream its position.)
THEOREM ChunksInOrder ==
  ASSUME NumberUnits
  PROVE  Spec => []InOrder
<1>1. Init => OrderInv
  BY InitOrder
<1>2. OrderInv /\ [Next]_vars => OrderInv'
  BY StepOrder
<1>3. OrderInv => InOrder
  <2> SUFFICES ASSUME OrderInv PROVE InOrder
    OBVIOUS
  <2>1. /\ DOMAIN events = 1 .. Len(events) /\ Len(events) \in Nat
        /\ \A i \in DOMAIN events : events[i].conn \in Conns /\ events[i].stream \in Streams
    BY ChannelTypes DEF OrderInv, BaseInv
  <2>2. ASSUME NEW i \in DOMAIN events, NEW c \in connections, NEW s \in Streams, DataOn(i, c, s),
               NEW before, before = {j \in 1 .. i - 1 : DataOn(j, c, s)}
        PROVE  /\ before = {} => events[i].off = dispatched[c][s]
               /\ \A j \in before :
                    (\A k \in before : k <= j) => events[i].off = events[j].off + events[j].n
    <3>1. c \in Conns
      BY <2>1, <2>2 DEF DataOn, OnStream
    <3>2. Links(DataAt(c, s), events, dispatched[c][s], rx[c][s].off)
      BY <3>1 DEF OrderInv, Chain
    <3>3. /\ i \in DataAt(c, s) /\ before \subseteq DataAt(c, s)
          /\ \A l \in DataAt(c, s) : l \in Nat /\ (l < i <=> l \in before)
      BY <2>1, <2>2 DEF DataAt
    <3> QED
      BY <3>2, <3>3 DEF Links
  <2>3. ASSUME NEW i \in DOMAIN events, events[i].kind = "Data", Tracked(events[i])
        PROVE  LET before == {j \in 1 .. i - 1 :
                                events[j].kind = "Data" /\
                                OnStream(events[j], events[i].conn, events[i].stream)}
               IN /\ before = {} => events[i].off = dispatched[events[i].conn][events[i].stream]
                  /\ \A j \in before :
                       (\A k \in before : k <= j) => events[i].off = events[j].off + events[j].n
    <3> DEFINE c == events[i].conn
               s == events[i].stream
               before == {j \in 1 .. i - 1 : events[j].kind = "Data" /\ OnStream(events[j], c, s)}
    <3>1. c \in connections /\ s \in Streams /\ DataOn(i, c, s)
      BY <2>1, <2>3 DEF Tracked, DataOn, OnStream
    <3>2. before = {j \in 1 .. i - 1 : DataOn(j, c, s)}
      BY DEF DataOn
    <3> HIDE DEF c, s, before
    <3>3. /\ before = {} => events[i].off = dispatched[c][s]
          /\ \A j \in before :
               (\A k \in before : k <= j) => events[i].off = events[j].off + events[j].n
      BY <2>2, <3>1, <3>2
    <3> QED
      BY <3>3 DEF c, s, before
  <2> QED
    BY <2>3 DEF InOrder
<1> QED
  BY <1>1, <1>2, <1>3, PTL DEF Spec

-----------------------------------------------------------------------------
(***************************************************************************)
(* What the close channel carries: on_conn_close sends the signal of a     *)
(* connection with try_send.  However many connections come and go, those  *)
(* whose signal is lost are no more than the server has held at a time     *)
(* beyond the places of the channel.                                       *)
(***************************************************************************)
\* A signal in the channel is of a connection that has closed, and is the only
\* one of it: a connection closes once.  Until close(), the server has a record
\* of every connection that runs and of every one whose signal is queued: a
\* record goes with the signal.  So the signals in the channel and the forgotten
\* records, the one whose signal is being dropped among them, are of different
\* connections, which all have a record.
KeptInv ==
  /\ TypeOK /\ ClosedInv /\ FewClosesLost
  /\ \A i \in DOMAIN closes : drv[closes[i].conn] = "closed"
  /\ \A i, j \in DOMAIN closes : closes[i].conn = closes[j].conn => i = j
  /\ \A c \in Conns : drv[c] \in {"idle", "handshake"} => ~established[c]
  /\ listening =>
       /\ \A i \in DOMAIN closes : closes[i].conn \in connections
       /\ \A c \in Conns : drv[c] \notin {"idle", "closed"} => c \in connections
  /\ Cardinality(connections) <= peak

LEMMA SignalTypes ==
  ASSUME TypeOK
  PROVE  /\ closes \in Seq(CloseMsg)
         /\ Len(closes) \in Nat /\ DOMAIN closes = 1 .. Len(closes)
         /\ \A i \in DOMAIN closes : closes[i] \in CloseMsg /\ closes[i].conn \in Conns
<1>1. closes \in Seq(CloseMsg)
  BY DEF TypeOK, ChannelsTypeOK
<1>2. Len(closes) \in Nat /\ DOMAIN closes = 1 .. Len(closes)
  BY <1>1
<1>3. ASSUME NEW i \in DOMAIN closes
      PROVE  closes[i] \in CloseMsg
  BY <1>1, <1>2, <1>3, ElementOfSeq
<1>4. \A m \in CloseMsg : m.conn \in Conns
  BY DEF CloseMsg
<1> QED
  BY <1>1, <1>2, <1>3, <1>4

\* Fewer records are left when some are taken out.
LEMMA RecordCount ==
  ASSUME TypeOK
  PROVE  /\ IsFiniteSet(connections) /\ Cardinality(connections) \in Nat
         /\ \A S \in SUBSET connections :
              Cardinality(S) \in Nat /\ Cardinality(S) <= Cardinality(connections)
<1>1. IsFiniteSet(connections)
  BY ConnsCount DEF TypeOK, ServerLoopTypeOK
<1> QED
  BY <1>1, FS_Subset, FS_CardinalityType

\* Records without a signal, and signals, are of different connections.
LEMMA Outnumbered ==
  ASSUME KeptInv, listening, NEW S \in SUBSET connections,
         \A i \in DOMAIN closes : closes[i].conn \notin S
  PROVE  Cardinality(S) + Len(closes) <= Cardinality(connections)
<1>1. /\ IsFiniteSet(connections) /\ Cardinality(connections) \in Nat
      /\ Cardinality(S) \in Nat /\ Cardinality(S) <= Cardinality(connections)
  BY RecordCount DEF KeptInv
<1>2. /\ Len(closes) \in Nat /\ DOMAIN closes = 1 .. Len(closes)
      /\ \A i \in 1 .. Len(closes) : closes[i].conn \in connections \ S
  BY SignalTypes DEF KeptInv
<1> DEFINE others == connections \ S
           sender == [i \in 1 .. Len(closes) |-> closes[i].conn]
<1>3. /\ IsFiniteSet(others) /\ Cardinality(others) \in Nat
      /\ Cardinality(others) = Cardinality(connections) - Cardinality(S)
  <2>1. connections \cap S = S
    OBVIOUS
  <2> QED
    BY <1>1, <2>1, FS_Difference, FS_CardinalityType
<1>4. sender \in [1 .. Len(closes) -> others]
  BY <1>2
<1>5. IsFiniteSet(1 .. Len(closes)) /\ Cardinality(1 .. Len(closes)) = Len(closes)
  <2>1. IsFiniteSet(1 .. Len(closes)) /\
        Cardinality(1 .. Len(closes)) = IF 1 > Len(closes) THEN 0 ELSE Len(closes) - 1 + 1
    BY <1>2, FS_Interval
  <2> QED
    BY <1>2, <2>1
<1>6. \A i, j \in 1 .. Len(closes) : sender[i] = sender[j] => i = j
  BY <1>2 DEF KeptInv
<1> HIDE DEF sender, others
<1>7. ~(Cardinality(others) < Cardinality(1 .. Len(closes)))
  BY <1>3, <1>4, <1>5, <1>6, FS_PigeonHole
<1> QED
  BY <1>1, <1>2, <1>3, <1>5, <1>7

\* A step that makes no more records forgotten keeps the bound.
LEMMA FewerLost ==
  ASSUME TypeOK, TypeOK', FewClosesLost, Forgotten' \subseteq Forgotten, peak' >= peak
  PROVE  FewClosesLost'
<1>1. Forgotten \in SUBSET Conns /\ Forgotten' \in SUBSET Conns
  BY DEF TypeOK, ServerLoopTypeOK, Forgotten
<1>2. /\ IsFiniteSet(Forgotten) /\ Cardinality(Forgotten) \in Nat
      /\ Cardinality(Forgotten') \in Nat
  BY <1>1, ConnsCount
<1>3. Cardinality(Forgotten') <= Cardinality(Forgotten)
  BY <1>2, FS_Subset
<1>4. peak \in Nat /\ peak' \in Nat /\ CloseCap \in Nat
  BY ChannelsAssumption DEF TypeOK, ServerLoopTypeOK
<1>5. Forgotten' # {} => Forgotten # {}
  OBVIOUS
<1>6. Forgotten' # {} => Cardinality(Forgotten) + CloseCap <= peak
  BY <1>5 DEF FewClosesLost
<1>7. Forgotten' # {} => Cardinality(Forgotten') + CloseCap <= peak'
  BY <1>2, <1>3, <1>4, <1>6
<1> QED
  BY <1>7 DEF FewClosesLost

LEMMA InitKept == Init => KeptInv
<1> SUFFICES ASSUME Init PROVE KeptInv
  OBVIOUS
<1>1. /\ TypeOK /\ closes = <<>> /\ connections = {}
      /\ \A c \in Conns : drv[c] = "idle" /\ ~established[c]
  BY InitType DEF Init, ChannelsInit, DriverInit, ServerLoopInit
<1>2. Cardinality(connections) <= peak
  BY <1>1, FS_EmptySet DEF Init, ServerLoopInit
<1>3. Forgotten = {}
  BY <1>1 DEF Forgotten
<1> QED
  BY <1>1, <1>2, <1>3 DEF KeptInv, ClosedInv, FewClosesLost

-----------------------------------------------------------------------------
\* The task runs: between the handshake and on_conn_close.
Running == {"wait", "packets", "outer", "drain", "recv"}

\* A step leaves the records alone, or is close().
RecordsStay ==
  /\ UNCHANGED peak
  /\ UNCHANGED <<connections, listening>> \/ (connections' = {} /\ ~listening')

\* Steps that leave the channel alone: no established connection closes, and
\* no closed one gets a record.
LEMMA QuietStep ==
  ASSUME KeptInv, TypeOK', UNCHANGED closes, RecordsStay,
         \A c \in Conns :
           /\ drv[c] = "idle" <=> drv'[c] = "idle"
           /\ drv[c] = "closed" => drv'[c] = "closed" /\ established'[c] = established[c]
           /\ drv'[c] = "closed" /\ drv[c] # "closed" => ~established'[c]
           /\ drv'[c] \in {"idle", "handshake"} => ~established'[c]
  PROVE  KeptInv'
<1>1. \A i \in DOMAIN closes : closes[i].conn \in Conns
  BY SignalTypes DEF KeptInv
<1>2. /\ connections \subseteq Conns /\ connections' \subseteq connections
      /\ established \in [Conns -> BOOLEAN] /\ established' \in [Conns -> BOOLEAN]
  BY DEF KeptInv, TypeOK, DriverTypeOK, ServerLoopTypeOK, RecordsStay
<1>3. Forgotten' \subseteq Forgotten
  <2>1. ASSUME NEW c \in connections', drv'[c] = "closed", established'[c]
        PROVE  c \in connections /\ drv[c] = "closed" /\ established[c]
    BY <1>2, <2>1
  <2> QED
    BY <2>1 DEF Forgotten
<1>4. FewClosesLost'
  <2>1. peak' >= peak
    BY DEF KeptInv, TypeOK, ServerLoopTypeOK, RecordsStay
  <2> QED
    BY <1>3, <2>1, FewerLost DEF KeptInv
<1>5. \A i \in DOMAIN closes' : drv'[closes'[i].conn] = "closed"
  BY <1>1 DEF KeptInv
<1>6. \A i, j \in DOMAIN closes' : closes'[i].conn = closes'[j].conn => i = j
  BY DEF KeptInv
<1>7. ClosedInv'
  BY DEF KeptInv, ClosedInv, RecordsStay
<1>8. listening' =>
        /\ \A i \in DOMAIN closes' : closes'[i].conn \in connections'
        /\ \A c \in Conns : drv'[c] \notin {"idle", "closed"} => c \in connections'
  BY DEF KeptInv, RecordsStay
<1>9. Cardinality(connections') <= peak'
  <2>1. CASE UNCHANGED connections
    BY <2>1 DEF KeptInv, RecordsStay
  <2>2. CASE connections' = {}
    BY <2>2, FS_EmptySet DEF KeptInv, TypeOK, ServerLoopTypeOK, RecordsStay
  <2> QED
    BY <2>1, <2>2 DEF RecordsStay
<1> QED
  BY <1>4, <1>5, <1>6, <1>7, <1>8, <1>9 DEF KeptInv

\* What a running driver does between its start and its close.
LEMMA RunningStep ==
  ASSUME KeptInv, NEW c \in Conns, DriverStep(c) \/ PeerStep(c)
  PROVE  /\ UNCHANGED <<closes, established>> /\ drv[c] \in Running
         /\ \E to \in Running : drv' = [drv EXCEPT ![c] = to]
<1> DEFINE Moves == /\ UNCHANGED <<closes, established>> /\ drv[c] \in Running
                    /\ \E to \in Running : drv' = [drv EXCEPT ![c] = to]
<1> USE DEF Running
<1>1. drv \in [Conns -> DriverStates]
  BY DEF KeptInv, TypeOK, DriverTypeOK
<1>2. CASE ProcessReads(c) \/ ReserveData(c)
  BY <1>2 DEF ProcessReads, ReserveData
<1>3. CASE ReadsDone(c) \/ ReserveBlocked(c)
  BY <1>3 DEF ReadsDone, ReserveBlocked, BreakOuter
<1>4. ASSUME NEW s \in Streams, KnownStream(c, s) \/ AnnounceStream(c, s)
      PROVE  Moves
  BY <1>4 DEF KnownStream, AnnounceStream, TakeReadable, EnterDrain
<1>5. ASSUME NEW s \in Streams, AnnounceBlocked(c, s)
      PROVE  Moves
  BY <1>5 DEF AnnounceBlocked, TakeReadable, BreakOuter
<1>6. ASSUME NEW s \in Streams, RecvOk(c, s)
      PROVE  Moves
  <2>1. /\ drv[c] = "recv" /\ drv' = [drv EXCEPT ![c] = "drain"]
        /\ UNCHANGED <<closes, established>>
    BY <1>6 DEF RecvOk
  <2> QED
    BY <2>1
<1>7. ASSUME NEW s \in Streams, RecvErr(c, s)
      PROVE  Moves
  BY <1>7 DEF RecvErr
<1>8. CASE PacketOther(c)
  BY <1>8 DEF PacketOther
<1>9. ASSUME NEW s \in Streams, PacketData(c, s) \/ PacketFin(c, s) \/ PacketReset(c, s)
      PROVE  Moves
  <2>1. \E r : FeedPacket(c, s, r)
    BY <1>9 DEF PacketData, PacketFin, PacketReset
  <2> QED
    BY <2>1 DEF FeedPacket
<1> QED
  BY <1>2, <1>3, <1>4, <1>5, <1>6, <1>7, <1>8, <1>9 DEF DriverStep, PeerStep

LEMMA DriverKept ==
  ASSUME KeptInv, TypeOK', NEW c \in Conns, RecordsStay,
         \/ DriverStep(c) \/ PeerStep(c) \/ OnConnEstablished(c) \/ HandshakeFails(c)
  PROVE  KeptInv'
<1>1. drv \in [Conns -> DriverStates] /\ established \in [Conns -> BOOLEAN]
  BY DEF KeptInv, TypeOK, DriverTypeOK
<1>2. \A d \in Conns : drv[d] \in {"idle", "handshake"} => ~established[d]
  BY DEF KeptInv
<1>3. CASE DriverStep(c) \/ PeerStep(c)
  <2>1. /\ UNCHANGED <<closes, established>> /\ drv[c] \in Running
        /\ \E to \in Running : drv' = [drv EXCEPT ![c] = to]
    BY <1>3, RunningStep
  <2>2. \A d \in Conns : drv'[d] = drv[d] \/ {drv[d], drv'[d]} \subseteq Running
    BY <1>1, <2>1
  <2> QED
    BY <1>2, <2>1, <2>2, QuietStep DEF Running
<1>4. CASE OnConnEstablished(c)
  <2>1. \A d \in Conns : \/ drv'[d] = drv[d] /\ established'[d] = established[d]
                         \/ drv[d] = "handshake" /\ drv'[d] = "wait"
    BY <1>1, <1>4 DEF OnConnEstablished
  <2>2. UNCHANGED closes
    BY <1>4 DEF OnConnEstablished
  <2> QED
    BY <1>2, <2>1, <2>2, QuietStep
<1>5. CASE HandshakeFails(c)
  <2>1. \A d \in Conns : \/ drv'[d] = drv[d]
                         \/ drv[d] = "handshake" /\ drv'[d] = "closed"
    BY <1>1, <1>5 DEF HandshakeFails
  <2>2. UNCHANGED <<closes, established>>
    BY <1>5 DEF HandshakeFails
  <2> QED
    BY <1>2, <2>1, <2>2, QuietStep
<1> QED
  BY <1>3, <1>4, <1>5

LEMMA AcceptKept ==
  ASSUME KeptInv, TypeOK', Accept
  PROVE  KeptInv'
<1>1. drv \in [Conns -> DriverStates]
  BY DEF KeptInv, TypeOK, DriverTypeOK
<1>2. id_counter \in Conns
  BY ChannelsAssumption
     DEF KeptInv, TypeOK, ServerLoopTypeOK, Accept, AcceptConn, RecvIncoming, CanArrive, Conns
<1>3. /\ UNCHANGED <<closes, established, listening>> /\ listening
      /\ connections' = connections \cup {id_counter}
      /\ peak' = IF Cardinality(connections') > peak THEN Cardinality(connections') ELSE peak
      /\ drv[id_counter] = "idle" /\ drv' = [drv EXCEPT ![id_counter] = "handshake"]
  BY DEF Accept, AcceptConn, InsertConn, RecvIncoming, CanArrive, StartDriver
<1>4. \A d \in Conns : drv'[d] = IF d = id_counter THEN "handshake" ELSE drv[d]
  BY <1>1, <1>3
<1>5. \A d \in Conns : drv[d] \in {"idle", "handshake"} => ~established[d]
  BY DEF KeptInv
<1>6. \A i \in DOMAIN closes : closes[i].conn \in Conns
  BY SignalTypes DEF KeptInv
<1>7. peak' >= peak /\ Cardinality(connections') <= peak'
  <2>1. connections' \in SUBSET Conns
    BY DEF TypeOK, ServerLoopTypeOK
  <2>2. Cardinality(connections') \in Nat /\ peak \in Nat
    BY <2>1, ConnsCount DEF KeptInv, TypeOK, ServerLoopTypeOK
  <2> QED
    BY <1>3, <2>2
<1>8. Forgotten' \subseteq Forgotten
  <2>1. ASSUME NEW c \in connections', drv'[c] = "closed"
        PROVE  c \in connections /\ drv[c] = "closed"
    BY <1>2, <1>3, <1>4, <2>1 DEF KeptInv, TypeOK, ServerLoopTypeOK
  <2> QED
    BY <1>3, <2>1 DEF Forgotten
<1>9. FewClosesLost'
  BY <1>7, <1>8, FewerLost DEF KeptInv
<1>10. \A i \in DOMAIN closes' : drv'[closes'[i].conn] = "closed"
  BY <1>3, <1>4, <1>6 DEF KeptInv
<1>11. /\ \A i \in DOMAIN closes' : closes'[i].conn \in connections'
       /\ \A c \in Conns : drv'[c] \notin {"idle", "closed"} => c \in connections'
  BY <1>3, <1>4 DEF KeptInv
<1>12. \A c \in Conns : drv'[c] \in {"idle", "handshake"} => ~established'[c]
  BY <1>2, <1>3, <1>4, <1>5
<1>13. ClosedInv'
  BY <1>3 DEF ClosedInv
<1>14. \A i, j \in DOMAIN closes' : closes'[i].conn = closes'[j].conn => i = j
  BY <1>3 DEF KeptInv
<1> QED
  BY <1>7, <1>9, <1>10, <1>11, <1>12, <1>13, <1>14 DEF KeptInv

\* The PHP thread and the script leave the records alone or take out all.
LEMMA ScriptKept ==
  ASSUME KeptInv, TypeOK', LoopStep \/ ScriptStep, ~RecvClose, UNCHANGED driverVars
  PROVE  KeptInv'
<1> DEFINE Same == UNCHANGED closes /\ RecordsStay
<1> USE DEF RecordsStay, historyVars
<1>1. ASSUME Tick \/ EventsPending \/ ClosesPending \/ ListenerPending
               \/ TimerPending \/ Wake
      PROVE  Same
  BY <1>1 DEF Tick, EventsPending, ClosesPending, ListenerPending, TimerPending, Wake, Goto
<1>2. ASSUME TimerFires \/ TimerStale \/ AcceptError \/ CallbackReturns PROVE Same
  BY <1>2 DEF TimerFires, TimerStale, AcceptError, RecvIncoming, CallbackReturns
<1>3. ASSUME DropLateEvent \/ DispatchNew \/ DispatchData PROVE Same
  BY <1>3 DEF DropLateEvent, DispatchNew, DispatchData, RecvEvent
<1>4. ASSUME NEW c \in Conns, DrainDone(c) PROVE Same
  BY <1>4 DEF DrainDone
<1>5. ASSUME NEW c \in Conns, NEW s \in Streams,
             FinishStream(c, s) \/ FinishStale(c, s) \/ DrainSlot(c, s)
      PROVE  Same
  BY <1>5 DEF FinishStream, FinishStale, DrainSlot
<1>6. ASSUME Close \/ Signal \/ PhpReenters PROVE Same
  BY <1>6 DEF Close, Signal, PhpReenters
<1>7. ASSUME NEW c \in Conns, NEW s \in Streams, PhpOpen(c, s) PROVE Same
  BY <1>7 DEF PhpOpen, loopVars
<1>8. ASSUME NEW c \in Conns, NEW s \in Streams, NEW g \in 1 .. pairs[c][s],
             NEW h \in Hooks, PhpHook(c, s, g, h)
      PROVE  Same
  BY <1>8 DEF PhpHook
<1>9. Same
  BY <1>1, <1>2, <1>3, <1>4, <1>5, <1>6, <1>7, <1>8 DEF LoopStep, ScriptStep
<1>10. \A c \in Conns : /\ drv'[c] = drv[c] /\ established'[c] = established[c]
                        /\ drv[c] \in {"idle", "handshake"} => ~established[c]
  BY DEF KeptInv, driverVars
<1> HIDE DEF RecordsStay
<1> QED
  BY <1>9, <1>10, QuietStep

-----------------------------------------------------------------------------
\* The signal of the connection that closes is queued, or there are as many
\* signals as places, and the forgotten records come on top of them.
LEMMA SendKept ==
  ASSUME KeptInv, TypeOK', NEW c \in Conns, OnConnClose(c),
         UNCHANGED <<connections, listening, peak>>
  PROVE  KeptInv'
<1>1. /\ drv \in [Conns -> DriverStates] /\ connections \subseteq Conns
      /\ drv[c] \in {"wait", "packets"}
  BY DEF KeptInv, TypeOK, DriverTypeOK, ServerLoopTypeOK, OnConnClose
<1>2. \A d \in Conns : drv'[d] = IF d = c THEN "closed" ELSE drv[d]
  BY <1>1 DEF OnConnClose
<1>3. PICK m \in CloseMsg :
        /\ m.conn = c
        /\ closes' = Append(closes, m) \/ (closes' = closes /\ ~(Len(closes) < CloseCap))
  <2>1. PICK why \in Causes : SendClose([conn |-> c, peer |-> PeerInitiated(why)])
    BY DEF OnConnClose
  <2>2. [conn |-> c, peer |-> PeerInitiated(why)] \in CloseMsg
    BY DEF CloseMsg, PeerInitiated
  <2> QED
    BY <2>1, <2>2 DEF SendClose
<1>4. /\ Len(closes) \in Nat /\ DOMAIN closes = 1 .. Len(closes)
      /\ \A i \in 1 .. Len(closes) : closes'[i] = closes[i]
      /\ \/ DOMAIN closes' = 1 .. Len(closes)
         \/ DOMAIN closes' = 1 .. Len(closes) + 1 /\ closes'[Len(closes) + 1].conn = c
      /\ closes' = closes \/ Len(closes) + 1 \in DOMAIN closes'
  <2>1. closes \in Seq(CloseMsg)
    BY SignalTypes DEF KeptInv
  <2>2. /\ Append(closes, m) \in Seq(CloseMsg)
        /\ Len(Append(closes, m)) = Len(closes) + 1
        /\ \A i \in 1 .. Len(closes) : Append(closes, m)[i] = closes[i]
        /\ Append(closes, m)[Len(closes) + 1] = m
    BY <2>1, AppendProperties
  <2>3. CASE closes' = Append(closes, m)
    <3>1. DOMAIN closes' = 1 .. Len(closes) + 1 /\ Len(closes) + 1 \in DOMAIN closes'
      BY <2>1, <2>2, <2>3
    <3> QED
      BY <1>3, <2>1, <2>2, <2>3, <3>1
  <2>4. CASE closes' = closes
    BY <2>1, <2>4
  <2> QED
    BY <1>3, <2>3, <2>4
<1>5. \A i \in 1 .. Len(closes) : closes[i].conn \in Conns /\ closes[i].conn # c
  BY <1>1, <1>4, SignalTypes DEF KeptInv
<1>6. \A i \in DOMAIN closes' : drv'[closes'[i].conn] = "closed"
  BY <1>2, <1>4, <1>5 DEF KeptInv
<1>7. ASSUME NEW i \in DOMAIN closes', NEW j \in DOMAIN closes',
             closes'[i].conn = closes'[j].conn
      PROVE  i = j
  <2>1. \A k \in DOMAIN closes' : \/ k \in 1 .. Len(closes) /\ closes'[k].conn # c
                                  \/ k = Len(closes) + 1 /\ closes'[k].conn = c
    BY <1>4, <1>5
  <2>2. CASE i \in 1 .. Len(closes) /\ j \in 1 .. Len(closes)
    BY <1>4, <1>7, <2>2 DEF KeptInv
  <2> QED
    BY <1>7, <2>1, <2>2
<1>8. peak \in Nat /\ CloseCap \in Nat
  BY ChannelsAssumption DEF KeptInv, TypeOK, ServerLoopTypeOK
<1>9. FewClosesLost'
  <2>1. CASE Len(closes) + 1 \in DOMAIN closes'
    <3>1. closes'[Len(closes) + 1].conn = c
      BY <1>4, <2>1
    <3>2. ASSUME NEW d \in Forgotten'
          PROVE  d \in Forgotten
      <4>1. /\ d \in connections /\ drv'[d] = "closed" /\ established'[d]
            /\ \A i \in DOMAIN closes' : closes'[i].conn # d
        BY <3>2 DEF Forgotten
      <4>2. d # c
        BY <2>1, <3>1, <4>1
      <4>3. drv[d] = "closed" /\ established[d]
        BY <1>1, <1>2, <4>1, <4>2 DEF OnConnClose
      <4>4. \A i \in DOMAIN closes : closes[i].conn # d
        BY <1>4, <4>1
      <4> QED
        BY <4>1, <4>3, <4>4 DEF Forgotten
    <3> QED
      BY <1>8, <3>2, FewerLost DEF KeptInv
  <2>2. CASE closes' = closes /\ ~(Len(closes) < CloseCap)
    <3>1. Forgotten' \in SUBSET connections
      BY DEF Forgotten
    <3>2. CASE listening
      <4>1. \A i \in DOMAIN closes : closes[i].conn \notin Forgotten'
        BY <2>2 DEF Forgotten
      <4>2. Cardinality(Forgotten') + Len(closes) <= Cardinality(connections)
        BY <3>1, <3>2, <4>1, Outnumbered
      <4>3. /\ Cardinality(Forgotten') \in Nat /\ Cardinality(connections) \in Nat
            /\ Cardinality(connections) <= peak
        BY <3>1, RecordCount DEF KeptInv
      <4>4. Cardinality(Forgotten') + CloseCap <= peak
        BY <1>4, <1>8, <2>2, <4>2, <4>3
      <4> QED
        BY <4>4 DEF FewClosesLost
    <3>3. CASE ~listening
      BY <3>1, <3>3 DEF KeptInv, ClosedInv, FewClosesLost
    <3> QED
      BY <3>2, <3>3
  <2> QED
    BY <1>3, <1>4, <2>1, <2>2
<1>10. \A d \in Conns : drv'[d] \in {"idle", "handshake"} => ~established'[d]
  BY <1>2 DEF KeptInv, OnConnClose
<1>11. listening' =>
         /\ \A i \in DOMAIN closes' : closes'[i].conn \in connections'
         /\ \A d \in Conns : drv'[d] \notin {"idle", "closed"} => d \in connections'
  <2>1. listening => c \in connections
    BY <1>1 DEF KeptInv
  <2> QED
    BY <1>2, <1>4, <2>1 DEF KeptInv
<1>12. ClosedInv' /\ Cardinality(connections') <= peak'
  BY DEF KeptInv, ClosedInv
<1> QED
  BY <1>6, <1>7, <1>9, <1>10, <1>11, <1>12 DEF KeptInv

\* The connection whose signal is taken leaves the map with it.
LEMMA RecvKept ==
  ASSUME KeptInv, TypeOK', RecvClose, UNCHANGED driverVars
  PROVE  KeptInv'
<1>1. /\ closes \in Seq(CloseMsg) /\ closes # <<>>
      /\ Len(closes) \in Nat /\ DOMAIN closes = 1 .. Len(closes)
      /\ closes' = Tail(closes)
  BY SignalTypes DEF KeptInv, RecvClose
<1>2. /\ DOMAIN closes' = 1 .. Len(closes) - 1
      /\ \A i \in DOMAIN closes' : closes'[i] = closes[i + 1] /\ i + 1 \in DOMAIN closes
  <2>1. /\ Len(Tail(closes)) = Len(closes) - 1 /\ Tail(closes) \in Seq(CloseMsg)
        /\ \A i \in 1 .. Len(Tail(closes)) : Tail(closes)[i] = closes[i + 1]
    BY <1>1, HeadTailProperties
  <2> QED
    BY <1>1, <2>1
<1>3. /\ Head(closes) = closes[1] /\ 1 \in DOMAIN closes
      /\ connections' = connections \ {closes[1].conn}
      /\ UNCHANGED <<listening, peak>>
  BY <1>1 DEF RecvClose, historyVars
<1>4. drv' = drv /\ established' = established
  BY DEF driverVars
<1>5. ASSUME NEW d \in Forgotten'
      PROVE  d \in Forgotten
  <2>1. /\ d \in connections /\ d # closes[1].conn
        /\ drv[d] = "closed" /\ established[d]
        /\ \A i \in DOMAIN closes' : closes'[i].conn # d
    BY <1>3, <1>4, <1>5 DEF Forgotten
  <2>2. ASSUME NEW i \in DOMAIN closes, i # 1
        PROVE  closes[i].conn # d
    <3>1. i - 1 \in DOMAIN closes' /\ closes'[i - 1] = closes[i]
      BY <1>1, <1>2, <2>2
    <3> QED
      BY <2>1, <3>1
  <2> QED
    BY <2>1, <2>2 DEF Forgotten
<1>6. FewClosesLost'
  <2>1. peak' >= peak
    BY <1>3 DEF KeptInv, TypeOK, ServerLoopTypeOK
  <2> QED
    BY <1>5, <2>1, FewerLost DEF KeptInv
<1>7. \A i \in DOMAIN closes' : drv'[closes'[i].conn] = "closed"
  BY <1>2, <1>4 DEF KeptInv
<1>8. \A i, j \in DOMAIN closes' : closes'[i].conn = closes'[j].conn => i = j
  <2>1. \A i, j \in DOMAIN closes' : closes'[i].conn = closes'[j].conn => i + 1 = j + 1
    BY <1>2 DEF KeptInv
  <2> QED
    BY <1>1, <1>2, <2>1
<1>9. listening' => \A i \in DOMAIN closes' : closes'[i].conn \in connections'
  <2>1. \A i \in DOMAIN closes' : closes'[i].conn # closes[1].conn
    <3>1. \A i \in DOMAIN closes' : i + 1 # 1
      BY <1>1, <1>2
    <3> QED
      BY <1>2, <1>3, <3>1 DEF KeptInv
  <2> QED
    BY <1>2, <1>3, <2>1 DEF KeptInv
<1>10. listening' => \A c \in Conns : drv'[c] \notin {"idle", "closed"} => c \in connections'
  BY <1>3, <1>4 DEF KeptInv
<1>11. Cardinality(connections') <= peak'
  <2>1. /\ Cardinality(connections') \in Nat /\ Cardinality(connections) \in Nat
        /\ Cardinality(connections') <= Cardinality(connections) /\ peak \in Nat
    BY <1>3, RecordCount DEF KeptInv, TypeOK, ServerLoopTypeOK
  <2> QED
    BY <1>3, <2>1 DEF KeptInv
<1>12. ClosedInv'
  BY <1>3 DEF KeptInv, ClosedInv
<1>13. \A c \in Conns : drv'[c] \in {"idle", "handshake"} => ~established'[c]
  BY <1>4 DEF KeptInv
<1> QED
  BY <1>6, <1>7, <1>8, <1>9, <1>10, <1>11, <1>12, <1>13 DEF KeptInv

-----------------------------------------------------------------------------
\* on_conn_close drops its signal when the close channel is full.  For any
\* capacity and any number of connections over time: of the connections that
\* were established and have closed, each has left the server's map or has its
\* signal queued, but for at most as many as the server has held at a time
\* beyond the channel's places.
THEOREM FewAreForgotten == Spec => []FewClosesLost
<1>1. Init => KeptInv
  BY InitKept
<1>2. KeptInv /\ [Next]_vars => KeptInv'
  <2> SUFFICES ASSUME KeptInv, [Next]_vars PROVE KeptInv'
    OBVIOUS
  <2>1. TypeOK'
    BY StepType DEF KeptInv
  <2>2. CASE Accept
    BY <2>1, <2>2, AcceptKept
  <2>3. ASSUME NEW c \in Conns, DriverStep(c) \/ ConnStep(c) \/ PeerStep(c),
               UNCHANGED <<phpVars, loopVars>>
        PROVE  KeptInv'
    <3>1. RecordsStay /\ UNCHANGED <<connections, listening, peak>>
      BY <2>3 DEF RecordsStay, loopVars, historyVars
    <3> QED
      BY <2>1, <2>3, <3>1, DriverKept, SendKept DEF ConnStep
  <2>4. CASE (LoopStep \/ ScriptStep) /\ UNCHANGED driverVars
    BY <2>1, <2>4, RecvKept, ScriptKept
  <2>5. CASE UNCHANGED vars
    <3>1. UNCHANGED <<closes, drv, established>> /\ RecordsStay
      BY <2>5 DEF vars, driverVars, loopVars, historyVars, RecordsStay
    <3>2. \A c \in Conns : drv[c] \in {"idle", "handshake"} => ~established[c]
      BY DEF KeptInv
    <3> QED
      BY <2>1, <3>1, <3>2, QuietStep
  <2> QED
    BY <2>2, <2>3, <2>4, <2>5 DEF Next
<1>3. KeptInv => FewClosesLost
  BY DEF KeptInv
<1> QED
  BY <1>1, <1>2, <1>3, PTL DEF Spec
=============================================================================
