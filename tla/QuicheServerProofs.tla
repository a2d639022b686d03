------------------------- MODULE QuicheServerProofs -------------------------
(***************************************************************************)
(* Theorems about QuicheServer, for any number of connections, streams and *)
(* slot pairs and any capacity of the two channels.                        *)
(***************************************************************************)
EXTENDS QuicheServer, SequenceTheorems, FiniteSetTheorems, TLAPS

(***************************************************************************)
(* Type correctness.                                                       *)
(***************************************************************************)
LEMMA EventTypes ==
  ASSUME NEW c \in Conns, NEW s \in Streams
  PROVE  /\ NewEvent(c, s) \in Event
         /\ \A off, n \in Nat, fin \in BOOLEAN : DataEvent(c, s, off, n, fin) \in Event
BY DEF Event, NewEvent, DataEvent, NewKinds

LEMMA NoFrameTypes == NoJob \in Job /\ NoCaller \in Frame
<1>1. NoJob \in Job
  BY DEF NoJob, Job
<1>2. "events" \in ResumeStates
  BY DEF ResumeStates
<1> QED
  BY <1>1, <1>2 DEF NoCaller, Frame

LEMMA InitType == Init => TypeOK
<1> SUFFICES ASSUME Init PROVE TypeOK
  OBVIOUS
<1>1. ChannelsTypeOK
  BY DEF Init, ChannelsInit, ChannelsTypeOK
<1>2. DriverTypeOK
  BY DEF Init, DriverInit, DriverTypeOK, DriverStates, RxState, RxStates, Causes
<1>3. PhpStreamsTypeOK
  BY DEF Init, PhpStreamsInit, PhpStreamsTypeOK
<1>4. ServerLoopTypeOK
  <2>1. closeLog \in [Conns -> [Streams -> Seq([pair: Nat, peer: BOOLEAN])]]
    <3>1. <<>> \in Seq([pair: Nat, peer: BOOLEAN])
      OBVIOUS
    <3> QED
      BY <3>1, Zenon DEF Init, ServerLoopInit
  <2>2. dispatched \in [Conns -> [Streams -> Nat]]
    BY DEF Init, ServerLoopInit
  <2>3. /\ job \in Job /\ caller \in Frame
        /\ stale_efd \in BOOLEAN /\ late \in SUBSET Slot /\ peak \in Nat
    BY NoFrameTypes DEF Init, ServerLoopInit
  <2>4. arrivals \in 0 .. MaxConns /\ id_counter \in Nat /\ id_counter <= arrivals
    BY ChannelsAssumption DEF Init, ServerLoopInit
  <2>5. /\ pc \in PcStates /\ resume \in ResumeStates
        /\ listening \in BOOLEAN /\ has_eventfd \in BOOLEAN /\ eventfd \in BOOLEAN
        /\ connections = {} /\ finish = {} /\ draining = {}
    BY ServerLoopAssumption, Zenon DEF Init, ServerLoopInit, PcStates, ResumeStates
  <2> QED
    BY <2>1, <2>2, <2>3, <2>4, <2>5, Zenon DEF ServerLoopTypeOK
<1> QED
  BY <1>1, <1>2, <1>3, <1>4 DEF TypeOK

\* What the steps on a stream's receive state make of it.
LEMMA RxUpdates ==
  ASSUME NEW r \in RxState
  PROVE  /\ [r EXCEPT !.buf = @ + 1] \in RxState
         /\ \A st \in RxStates : [r EXCEPT !.st = st] \in RxState
         /\ [buf |-> 0, off |-> r.off, st |-> "reset"] \in RxState
<1>1. [r EXCEPT !.buf = @ + 1] \in RxState
  BY DEF RxState
<1>2. ASSUME NEW st \in RxStates PROVE [r EXCEPT !.st = st] \in RxState
  BY DEF RxState
<1>3. [buf |-> 0, off |-> r.off, st |-> "reset"] \in RxState
  BY DEF RxState, RxStates
<1> QED
  BY <1>1, <1>2, <1>3

\* Connections can be counted.
LEMMA ConnsCount ==
  \A T \in SUBSET Conns : IsFiniteSet(T) /\ Cardinality(T) \in Nat
<1>1. IsFiniteSet(Conns)
  BY FS_Interval, ChannelsAssumption DEF Conns
<1> QED
  BY <1>1, FS_Subset, FS_CardinalityType


LEMMA AcceptType == TypeOK /\ Accept => TypeOK'
<1> SUFFICES ASSUME TypeOK, Accept PROVE TypeOK'
  OBVIOUS
<1>1. id_counter \in Conns
  BY ChannelsAssumption
     DEF TypeOK, ServerLoopTypeOK, Accept, AcceptConn, RecvIncoming, CanArrive, Conns
<1>2. ChannelsTypeOK'
  BY DEF TypeOK, ChannelsTypeOK, Accept, AcceptConn, RecvIncoming
<1>3. DriverTypeOK'
  BY DEF TypeOK, DriverTypeOK, Accept, StartDriver, DriverStates
<1>4. PhpStreamsTypeOK'
  BY DEF TypeOK, PhpStreamsTypeOK, Accept, AcceptConn, RecvIncoming, phpVars
<1>5. ServerLoopTypeOK'
  <2>1. /\ id_counter' \in Nat /\ arrivals' \in 0 .. MaxConns
        /\ id_counter' <= arrivals'
    BY ChannelsAssumption
       DEF TypeOK, ServerLoopTypeOK, Accept, AcceptConn, RecvIncoming, CanArrive
  <2>2. connections' \in SUBSET Conns /\ pc' \in PcStates
    BY <1>1
       DEF TypeOK, ServerLoopTypeOK, Accept, AcceptConn, InsertConn, RecvIncoming, PcStates
  <2>3. peak' \in Nat
    <3>1. Cardinality(connections') \in Nat
      BY <2>2, ConnsCount
    <3> QED
      BY <3>1 DEF TypeOK, ServerLoopTypeOK, Accept, AcceptConn, InsertConn
  <2> QED
    BY <2>1, <2>2, <2>3
       DEF TypeOK, ServerLoopTypeOK, Accept, AcceptConn, RecvIncoming, frameVars
<1> QED
  BY <1>2, <1>3, <1>4, <1>5 DEF TypeOK

\* A driver's step leaves the rest of the server alone.
LEMMA FrameType ==
  ASSUME TypeOK, UNCHANGED <<phpVars, loopVars>>, ChannelsTypeOK', DriverTypeOK'
  PROVE  TypeOK'
<1>1. PhpStreamsTypeOK'
  BY DEF TypeOK, PhpStreamsTypeOK, phpVars
<1>2. ServerLoopTypeOK'
  BY DEF TypeOK, ServerLoopTypeOK, loopVars, frameVars, historyVars
<1> QED
  BY <1>1, <1>2 DEF TypeOK

LEMMA DriverType ==
  ASSUME TypeOK, NEW c \in Conns, DriverStep(c), UNCHANGED <<phpVars, loopVars>>
  PROVE  TypeOK'
<1>0. SUFFICES ChannelsTypeOK' /\ DriverTypeOK'
  BY FrameType
<1> USE DEF TypeOK, ChannelsTypeOK, DriverTypeOK, DriverStates
<1>1. CASE ProcessReads(c)   BY <1>1 DEF ProcessReads
<1>2. CASE ReadsDone(c)      BY <1>2 DEF ReadsDone
<1>3. CASE ReserveData(c)    BY <1>3 DEF ReserveData
<1>4. CASE ReserveBlocked(c) BY <1>4 DEF ReserveBlocked, BreakOuter
<1>5. ASSUME NEW s \in Streams, KnownStream(c, s) PROVE ChannelsTypeOK' /\ DriverTypeOK'
  BY <1>5 DEF KnownStream, TakeReadable, EnterDrain
<1>6. ASSUME NEW s \in Streams, AnnounceStream(c, s)
      PROVE  ChannelsTypeOK' /\ DriverTypeOK'
  <2>1. events' \in Seq(Event) /\ closes' = closes
    <3>1. NewEvent(c, s) \in Event
      BY EventTypes
    <3> QED
      BY <1>6, <3>1 DEF AnnounceStream, TakeReadable, PushEvent
  <2>2. seen' \in [Conns -> SUBSET Streams]
    BY <1>6 DEF AnnounceStream
  <2>3. drv' \in [Conns -> DriverStates] /\ cur' \in [Conns -> SUBSET Streams]
    BY <1>6 DEF AnnounceStream, EnterDrain
  <2>4. readable' \in [Conns -> SUBSET Streams] /\ UNCHANGED <<established, rx, cause>>
    BY <1>6 DEF AnnounceStream, TakeReadable
  <2> QED
    BY <2>1, <2>2, <2>3, <2>4
<1>7. ASSUME NEW s \in Streams, AnnounceBlocked(c, s)
      PROVE  ChannelsTypeOK' /\ DriverTypeOK'
  BY <1>7 DEF AnnounceBlocked, TakeReadable, BreakOuter
<1>8. ASSUME NEW s \in Streams, RecvErr(c, s) PROVE ChannelsTypeOK' /\ DriverTypeOK'
  <2> DEFINE r == rx[c][s]
             left == IF r.st = "reset" THEN [r EXCEPT !.st = "resetRead"] ELSE r
  <2>1. left \in RxState
    <3>1. r \in RxState
      OBVIOUS
    <3> HIDE DEF r
    <3> QED
      BY <3>1, RxUpdates DEF RxStates
  <2>2. rx' = [rx EXCEPT ![c][s] = left]
    BY <1>8 DEF RecvErr
  <2> HIDE DEF left
  <2>3. rx' \in [Conns -> [Streams -> RxState]]
    BY <2>1, <2>2
  <2>4. readable' \in [Conns -> SUBSET Streams] /\ cur' \in [Conns -> SUBSET Streams]
    BY <1>8 DEF RecvErr
  <2> QED
    BY <1>8, <2>3, <2>4 DEF RecvErr
<1>9. ASSUME NEW s \in Streams, RecvOk(c, s) PROVE ChannelsTypeOK' /\ DriverTypeOK'
  <2> DEFINE r == rx[c][s]
  <2>1. PICK n \in 0 .. r.buf :
          LET fin == r.st = "fin" /\ n = r.buf
              left == [buf |-> r.buf - n,
                       off |-> IF NumberUnits THEN r.off + n ELSE r.off,
                       st |-> IF fin THEN "finRead" ELSE r.st]
          IN /\ rx' = [rx EXCEPT ![c][s] = left]
             /\ readable' = [readable EXCEPT ![c] =
                               IF IsReadable(left) THEN @ \cup {s} ELSE @ \ {s}]
             /\ events' = Append(events, DataEvent(c, s, r.off, n, fin))
             /\ seen' = IF fin THEN [seen EXCEPT ![c] = @ \ {s}] ELSE seen
    BY <1>9 DEF RecvOk, PushEvent
  <2>2. r \in RxState
    OBVIOUS
  <2>3. n \in Nat /\ r.buf - n \in Nat /\ r.off + n \in Nat
    BY <2>2 DEF RxState
  <2> DEFINE fin == r.st = "fin" /\ n = r.buf
             left == [buf |-> r.buf - n,
                      off |-> IF NumberUnits THEN r.off + n ELSE r.off,
                      st |-> IF fin THEN "finRead" ELSE r.st]
  <2>4. left \in RxState
    BY <2>2, <2>3 DEF RxState, RxStates
  <2>5. DataEvent(c, s, r.off, n, fin) \in Event
    BY <2>2, <2>3, EventTypes DEF RxState
  <2> HIDE DEF left, fin
  <2>6. events' \in Seq(Event) /\ rx' \in [Conns -> [Streams -> RxState]]
    BY <2>1, <2>4, <2>5 DEF left, fin
  <2>7. readable' \in [Conns -> SUBSET Streams] /\ seen' \in [Conns -> SUBSET Streams]
    BY <2>1
  <2> QED
    BY <1>9, <2>6, <2>7 DEF RecvOk
<1> QED
  BY <1>1, <1>2, <1>3, <1>4, <1>5, <1>6, <1>7, <1>8, <1>9 DEF DriverStep

LEMMA ConnType ==
  ASSUME TypeOK, NEW c \in Conns, ConnStep(c) \/ PeerStep(c),
         UNCHANGED <<phpVars, loopVars>>
  PROVE  TypeOK'
<1>0. SUFFICES ChannelsTypeOK' /\ DriverTypeOK'
  BY FrameType
<1> USE DEF TypeOK, ChannelsTypeOK, DriverTypeOK, DriverStates
<1>1. CASE OnConnEstablished(c) BY <1>1 DEF OnConnEstablished
<1>2. CASE HandshakeFails(c)    BY <1>2 DEF HandshakeFails
<1>3. CASE OnConnClose(c)
  <2>1. PICK why \in Causes :
          /\ cause' = [cause EXCEPT ![c] = why]
          /\ SendClose([conn |-> c, peer |-> PeerInitiated(why)])
    BY <1>3 DEF OnConnClose
  <2>2. [conn |-> c, peer |-> PeerInitiated(why)] \in CloseMsg
    BY DEF CloseMsg, PeerInitiated
  <2>3. closes' \in Seq(CloseMsg)
    BY <2>1, <2>2 DEF SendClose
  <2> QED
    BY <1>3, <2>1, <2>3 DEF OnConnClose
<1>4. CASE PacketOther(c)       BY <1>4 DEF PacketOther
<1>5. ASSUME NEW s \in Streams, PacketData(c, s) \/ PacketFin(c, s) \/ PacketReset(c, s)
      PROVE  ChannelsTypeOK' /\ DriverTypeOK'
  <2>1. rx[c][s] \in RxState
    OBVIOUS
  <2>2. \E r \in RxState : FeedPacket(c, s, r)
    <3>1. CASE PacketData(c, s)
      <4>1. [rx[c][s] EXCEPT !.buf = @ + 1] \in RxState
        BY <2>1, RxUpdates DEF RxStates
      <4> QED
        BY <3>1, <4>1, Zenon DEF PacketData
    <3>2. CASE PacketFin(c, s)
      <4>1. [rx[c][s] EXCEPT !.st = "fin"] \in RxState
        BY <2>1, RxUpdates DEF RxStates
      <4> QED
        BY <3>2, <4>1, Zenon DEF PacketFin
    <3>3. CASE PacketReset(c, s)
      <4>1. [buf |-> 0, off |-> rx[c][s].off, st |-> "reset"] \in RxState
        BY <2>1, RxUpdates DEF RxStates
      <4> QED
        BY <3>3, <4>1, Zenon DEF PacketReset
    <3> QED
      BY <1>5, <3>1, <3>2, <3>3
  <2> QED
    BY <2>2 DEF FeedPacket, Arm
<1> QED
  BY <1>1, <1>2, <1>3, <1>4, <1>5 DEF ConnStep, PeerStep

LEMMA HookTypes ==
  ASSUME NEW c \in Conns, NEW s \in Streams, NEW g \in Nat
  PROVE  \A h \in Hooks : <<c, s, g, h>> \in Slot
BY DEF Slot

\* What a close() inside a callable goes back to is well-formed.
LEMMA FrameParts ==
  ASSUME TypeOK
  PROVE  /\ caller.resume \in ResumeStates
         /\ caller.locks \in SUBSET Slot /\ caller.maps \in SUBSET Conns
         /\ caller.drain \in SUBSET Conns /\ caller.job \in Job
BY DEF TypeOK, ServerLoopTypeOK, Frame

LEMMA FireType ==
  ASSUME TypeOK, NEW c \in Conns, NEW s \in Streams, NEW peer \in BOOLEAN,
         NEW next \in ResumeStates, FireOnClose(c, s, peer, next)
  PROVE  /\ slots' \in [Conns -> [Streams -> Nat]]
         /\ pairs' = pairs /\ hooked' = hooked
         /\ slotHeld' \in SUBSET Slot
         /\ pc' \in PcStates /\ resume' \in ResumeStates
         /\ closeLog' \in [Conns -> [Streams -> Seq([pair: Nat, peer: BOOLEAN])]]
<1>1. slots[c][s] \in Nat /\ slots' \in [Conns -> [Streams -> Nat]]
  BY DEF TypeOK, PhpStreamsTypeOK, FireOnClose, RemoveSlotPair
<1>2. <<c, s, slots[c][s], "close">> \in Slot
  BY <1>1, HookTypes DEF Hooks
<1>3. slotHeld' \in SUBSET Slot /\ pc' \in PcStates /\ resume' \in ResumeStates
  BY <1>2, FrameParts DEF FireOnClose, Invoke, PcStates, ResumeStates
<1>4. [pair |-> slots[c][s], peer |-> peer] \in [pair: Nat, peer: BOOLEAN]
  BY <1>1
<1>5. closeLog' \in [Conns -> [Streams -> Seq([pair: Nat, peer: BOOLEAN])]]
  BY <1>4 DEF TypeOK, ServerLoopTypeOK, FireOnClose
<1> QED
  BY <1>1, <1>3, <1>5 DEF FireOnClose

LEMMA GotoType ==
  ASSUME TypeOK, UNCHANGED driverVars,
         NEW from \in PcStates, NEW to \in PcStates, Goto(from, to)
  PROVE  TypeOK'
BY DEF TypeOK, ChannelsTypeOK, DriverTypeOK, PhpStreamsTypeOK, ServerLoopTypeOK,
       Goto, driverVars, phpVars, frameVars, historyVars

\* What is left of a queue, and what comes off its head.
LEMMA QueueTypes ==
  /\ TypeOK /\ events # <<>> => Head(events) \in Event /\ Tail(events) \in Seq(Event)
  /\ TypeOK /\ closes # <<>> => Head(closes) \in CloseMsg /\ Tail(closes) \in Seq(CloseMsg)
BY HeadTailProperties DEF TypeOK, ChannelsTypeOK

LEMMA DispatchType ==
  ASSUME TypeOK, UNCHANGED driverVars, DropLateEvent \/ DispatchNew \/ DispatchData
  PROVE  TypeOK'
<1> USE DEF TypeOK, ChannelsTypeOK, DriverTypeOK, PhpStreamsTypeOK, ServerLoopTypeOK,
            driverVars, frameVars, historyVars
<1> DEFINE e == Head(events)
<1>1. RecvEvent
  BY DEF DropLateEvent, DispatchNew, DispatchData
<1>2. e \in Event /\ events' \in Seq(Event)
  BY <1>1, QueueTypes DEF RecvEvent
<1>3. /\ e.conn \in Conns /\ e.stream \in Streams /\ e.off \in Nat /\ e.n \in Nat
      /\ e.fin \in BOOLEAN
  BY <1>2 DEF Event
<1> HIDE DEF e
<1>4. CASE DropLateEvent
  BY <1>1, <1>2, <1>4 DEF DropLateEvent, RecvEvent
<1>5. CASE DispatchNew
  <2> DEFINE g == pairs[e.conn][e.stream] + 1
  <2>1. g \in Nat
    BY <1>3
  <2>2. pairs' \in [Conns -> [Streams -> Nat]] /\ slots' \in [Conns -> [Streams -> Nat]]
    BY <1>3, <1>5, <2>1 DEF DispatchNew, InsertSlotPair, e
  <2>3. PICK H \in AnnounceHooks :
          hooked' = hooked \cup {<<e.conn, e.stream, g, h>> : h \in H}
    BY <1>5 DEF DispatchNew, e
  <2>4. hooked' \in SUBSET Slot
    BY <1>3, <2>1, <2>3, HookTypes, PhpStreamsAssumption
  <2>5. pc' \in PcStates /\ resume' \in ResumeStates /\ slotHeld' \in SUBSET Slot
    BY <1>5, FrameParts DEF DispatchNew, Invoke, PcStates, ResumeStates
  <2>6. UNCHANGED <<closes, mapHeld, connections, id_counter, arrivals, listening,
                    has_eventfd, eventfd, draining, job, finish, dispatched, closeLog,
                    frameVars, historyVars>>
    BY <1>1, <1>5 DEF DispatchNew, RecvEvent
  <2> QED
    BY <1>2, <2>2, <2>4, <2>5, <2>6
<1>6. CASE DispatchData
  <2> DEFINE g == slots[e.conn][e.stream]
             hook == <<e.conn, e.stream, g, "data">>
  <2>1. hook \in Slot
    <3>1. g \in Nat /\ "data" \in Hooks
      BY <1>3 DEF Hooks
    <3> HIDE DEF g
    <3> QED
      BY <1>3, <3>1, HookTypes
  <2>2. dispatched' \in [Conns -> [Streams -> Nat]]
    <3>1. e.off + e.n \in Nat
      BY <1>3
    <3>2. dispatched' = [dispatched EXCEPT ![e.conn][e.stream] = e.off + e.n]
      BY <1>6, Zenon DEF DispatchData, e
    <3> QED
      BY <1>3, <3>1, <3>2
  <2>3. finish' \in SUBSET (Conns \X Streams)
    <3>1. finish' = IF e.fin THEN {<<e.conn, e.stream>>} ELSE {}
      BY <1>6, Zenon DEF DispatchData, e
    <3> QED
      BY <1>3, <3>1
  <2>4. pc' \in PcStates /\ resume' \in ResumeStates /\ slotHeld' \in SUBSET Slot
    BY <1>6, <2>1, FrameParts DEF DispatchData, Invoke, PcStates, ResumeStates, e
  <2>5. UNCHANGED <<closes, slots, pairs, hooked, mapHeld, connections, id_counter,
                    arrivals, listening, has_eventfd, eventfd, draining, job, closeLog,
                    frameVars, historyVars>>
    BY <1>1, <1>6 DEF DispatchData, RecvEvent
  <2> QED
    BY <1>2, <2>2, <2>3, <2>4, <2>5
<1> QED
  BY <1>4, <1>5, <1>6

LEMMA FinishType ==
  ASSUME TypeOK, UNCHANGED driverVars, NEW c \in Conns, NEW s \in Streams,
         FinishStream(c, s) \/ FinishStale(c, s) \/ DrainSlot(c, s)
  PROVE  TypeOK'
<1>1. CASE FinishStream(c, s)
  <2>1. FireOnClose(c, s, TRUE, "events")
    BY <1>1 DEF FinishStream
  <2> QED
    BY <1>1, <2>1, FireType
       DEF FinishStream, TypeOK, ChannelsTypeOK, DriverTypeOK, PhpStreamsTypeOK,
           ServerLoopTypeOK, driverVars, ResumeStates, frameVars, historyVars
<1>2. CASE DrainSlot(c, s)
  <2>1. FireOnClose(c, s, job.peer, "drain") /\ job.peer \in BOOLEAN
    BY <1>2 DEF DrainSlot, TypeOK, ServerLoopTypeOK, Job
  <2>2. mapHeld' \in SUBSET Conns
    BY <1>2, FrameParts DEF DrainSlot
  <2>3. /\ slots' \in [Conns -> [Streams -> Nat]]
        /\ pairs' = pairs /\ hooked' = hooked
        /\ slotHeld' \in SUBSET Slot
        /\ pc' \in PcStates /\ resume' \in ResumeStates
        /\ closeLog' \in [Conns -> [Streams -> Seq([pair: Nat, peer: BOOLEAN])]]
    BY <2>1, FireType DEF ResumeStates
  <2>4. UNCHANGED <<events, closes, connections, id_counter, arrivals,
                    listening, has_eventfd, eventfd, finish, draining, job, dispatched,
                    frameVars, historyVars>>
    BY <1>2 DEF DrainSlot
  <2> QED
    BY <2>2, <2>3, <2>4
       DEF TypeOK, ChannelsTypeOK, DriverTypeOK, PhpStreamsTypeOK,
           ServerLoopTypeOK, driverVars, frameVars, historyVars
<1>3. CASE FinishStale(c, s)
  BY <1>3
     DEF FinishStale, TypeOK, ChannelsTypeOK, DriverTypeOK, PhpStreamsTypeOK,
         ServerLoopTypeOK, PcStates, driverVars, phpVars, frameVars, historyVars
<1> QED
  BY <1>1, <1>2, <1>3

LEMMA LoopType ==
  ASSUME TypeOK, LoopStep, UNCHANGED driverVars
  PROVE  TypeOK'
<1> USE DEF TypeOK, ChannelsTypeOK, DriverTypeOK, PhpStreamsTypeOK, ServerLoopTypeOK,
            driverVars, frameVars, historyVars
<1>1. CASE Tick            BY <1>1, GotoType DEF Tick, PcStates
<1>2. CASE EventsPending   BY <1>2, GotoType DEF EventsPending, PcStates
<1>3. CASE ClosesPending   BY <1>3, GotoType DEF ClosesPending, PcStates
<1>4. CASE ListenerPending BY <1>4, GotoType DEF ListenerPending, PcStates
<1>5. CASE TimerPending    BY <1>5, GotoType DEF TimerPending, PcStates
<1>6. CASE Wake            BY <1>6, GotoType DEF Wake, PcStates
<1>7. CASE TimerFires      BY <1>7 DEF TimerFires, phpVars, PcStates
<1>8. CASE DropLateEvent \/ DispatchNew \/ DispatchData
  BY <1>8, DispatchType
<1>14. CASE TimerStale     BY <1>14 DEF TimerStale, phpVars, PcStates
<1>9. CASE RecvClose
  <2>1. Head(closes).conn \in Conns /\ Head(closes).peer \in BOOLEAN
        /\ closes' \in Seq(CloseMsg)
    BY <1>9, QueueTypes DEF RecvClose, CloseMsg
  <2>2. /\ connections' \in SUBSET Conns /\ draining' \in SUBSET Conns
        /\ job' \in Job
        /\ pc' \in PcStates
    <3>1. CASE Head(closes).conn \in connections
      BY <1>9, <2>1, <3>1 DEF RecvClose, PcStates, Job
    <3>2. CASE Head(closes).conn \notin connections
      BY <1>9, <3>2 DEF RecvClose, PcStates
    <3> QED
      BY <3>1, <3>2
  <2>3. UNCHANGED <<events, phpVars, resume, id_counter, arrivals, listening,
                    has_eventfd, eventfd, finish, dispatched, closeLog,
                    frameVars, historyVars>>
    BY <1>9 DEF RecvClose
  <2> QED
    BY <2>1, <2>2, <2>3 DEF phpVars
<1>10. CASE AcceptError
  <2>1. arrivals + 1 \in 0 .. MaxConns /\ id_counter <= arrivals + 1
    BY <1>10, ChannelsAssumption DEF AcceptError, RecvIncoming, CanArrive
  <2> QED
    BY <1>10, <2>1 DEF AcceptError, RecvIncoming, phpVars, PcStates
<1>11. CASE CallbackReturns
  BY <1>11, FrameParts DEF CallbackReturns, PcStates, ResumeStates
<1>12. ASSUME NEW c \in Conns, DrainDone(c) PROVE TypeOK'
  <2>1. /\ pc' \in PcStates /\ job' \in Job /\ resume' \in ResumeStates
        /\ caller' \in Frame /\ draining' \in SUBSET Conns
    <3>1. CASE DrainReturns
      <4>1. job.ret \in PcStates
        BY DEF PcStates, Job
      <4> QED
        BY <3>1, <4>1, FrameParts, NoFrameTypes DEF DrainReturns
    <3>2. CASE draining' = draining \ {c} /\ UNCHANGED <<pc, resume, job, caller>>
      BY <3>2
    <3> QED
      BY <1>12, <3>1, <3>2 DEF DrainDone
  <2>2. mapHeld' \in SUBSET Conns
    BY <1>12, FrameParts DEF DrainDone
  <2>3. UNCHANGED <<events, closes, slots, pairs, hooked, slotHeld,
                    connections, id_counter, arrivals, listening, has_eventfd,
                    eventfd, finish, dispatched, closeLog, stale_efd, historyVars>>
    BY <1>12 DEF DrainDone
  <2> QED
    BY <2>1, <2>2, <2>3
<1>13. ASSUME NEW c \in Conns, NEW s \in Streams,
              FinishStream(c, s) \/ FinishStale(c, s) \/ DrainSlot(c, s)
       PROVE  TypeOK'
  BY <1>13, FinishType
<1> QED
  BY <1>1, <1>2, <1>3, <1>4, <1>5, <1>6, <1>7, <1>8, <1>9, <1>10, <1>11, <1>12, <1>13,
     <1>14 DEF LoopStep

LEMMA ScriptType ==
  ASSUME TypeOK, ScriptStep, UNCHANGED driverVars
  PROVE  TypeOK'
<1> USE DEF TypeOK, ChannelsTypeOK, DriverTypeOK, PhpStreamsTypeOK, ServerLoopTypeOK,
            driverVars, frameVars, historyVars
<1>1. CASE Close
  <2>1. /\ pc' \in PcStates /\ job' \in Job /\ resume' \in ResumeStates
        /\ caller' \in Frame /\ draining' \in SUBSET Conns
    <3>1. CASE DrainConnections
      <4>1. pc' = "drain" /\ job' = [peer |-> FALSE, ret |-> pc] /\ draining' = connections
        BY <3>1 DEF DrainConnections
      <4>2. [peer |-> FALSE, ret |-> pc] \in Job
        BY <1>1 DEF Close, PhpRuns, Job
      <4>3. caller' \in Frame /\ resume' \in ResumeStates
        BY <3>1 DEF DrainConnections, Frame, ResumeStates
      <4> QED
        BY <4>1, <4>2, <4>3 DEF PcStates
    <3>2. CASE UNCHANGED <<pc, resume, draining, job, caller>>
      BY <3>2
    <3> QED
      BY <1>1, <3>1, <3>2 DEF Close
  <2>2. /\ connections' \in SUBSET Conns /\ stale_efd' \in BOOLEAN
        /\ listening' \in BOOLEAN /\ has_eventfd' \in BOOLEAN
        /\ UNCHANGED <<events, closes, phpVars, id_counter, arrivals,
                       eventfd, finish, dispatched, closeLog, historyVars>>
    BY <1>1 DEF Close
  <2> QED
    BY <2>1, <2>2 DEF phpVars
<1>2. CASE Signal      BY <1>2 DEF Signal, phpVars
<1>3. CASE PhpReenters BY <1>3 DEF PhpReenters, phpVars, PcStates
<1>4. ASSUME NEW c \in Conns, NEW s \in Streams, PhpOpen(c, s) PROVE TypeOK'
  <2>1. pairs' \in [Conns -> [Streams -> Nat]] /\ slots' \in [Conns -> [Streams -> Nat]]
    BY <1>4 DEF PhpOpen, OpenStream, InsertSlotPair
  <2> QED
    BY <1>4, <2>1 DEF PhpOpen, OpenStream, loopVars
<1>5. ASSUME NEW c \in Conns, NEW s \in Streams, NEW g \in 1 .. pairs[c][s],
             NEW h \in Hooks, PhpHook(c, s, g, h)
      PROVE  TypeOK'
  <2>1. g \in Nat
    BY <1>5
  <2>2. <<c, s, g, h>> \in Slot
    BY <2>1, HookTypes
  <2>3. hooked' \in SUBSET Slot
    BY <1>5, <2>2 DEF PhpHook, InstallSlot
  <2>4. late' \in SUBSET Slot
    BY <1>5, <2>2 DEF PhpHook
  <2>5. UNCHANGED <<events, closes, slots, pairs, slotHeld, mapHeld, pc, resume,
                    connections, id_counter, arrivals, listening, has_eventfd,
                    eventfd, finish, draining, job, dispatched, closeLog,
                    frameVars, peak>>
    BY <1>5 DEF PhpHook, InstallSlot
  <2> QED
    BY <2>3, <2>4, <2>5
<1> QED
  BY <1>1, <1>2, <1>3, <1>4, <1>5 DEF ScriptStep

LEMMA StepType == TypeOK /\ [Next]_vars => TypeOK'
<1> SUFFICES ASSUME TypeOK, [Next]_vars PROVE TypeOK'
  OBVIOUS
<1>1. CASE Accept
  BY <1>1, AcceptType
<1>2. ASSUME NEW c \in Conns, DriverStep(c) \/ ConnStep(c) \/ PeerStep(c),
             UNCHANGED <<phpVars, loopVars>>
      PROVE  TypeOK'
  BY <1>2, DriverType, ConnType
<1>3. CASE (LoopStep \/ ScriptStep) /\ UNCHANGED driverVars
  BY <1>3, LoopType, ScriptType
<1>4. CASE UNCHANGED vars
  BY <1>4 DEF vars, driverVars, phpVars, loopVars, frameVars, historyVars, TypeOK,
              ChannelsTypeOK, DriverTypeOK, PhpStreamsTypeOK, ServerLoopTypeOK
<1> QED
  BY <1>1, <1>2, <1>3, <1>4 DEF Next

\* Every reachable state has the types the modules give, for any number of
\* connections and streams and any capacity of the two channels: in particular
\* an announced or opened stream belongs to a connection that was accepted.
THEOREM TypeCorrect == Spec => []TypeOK
<1>1. Init => TypeOK
  BY InitType
<1>2. TypeOK /\ [Next]_vars => TypeOK'
  BY StepType
<1> QED
  BY <1>1, <1>2, PTL DEF Spec

-----------------------------------------------------------------------------
(***************************************************************************)
(* on_close is called at most once per slot pair.  TypeOK,                 *)
(* ToldPairsAreGone and OnCloseAtMostOnce are inductive together.          *)
(***************************************************************************)
OnceInv == TypeOK /\ ToldPairsAreGone /\ OnCloseAtMostOnce

\* The one stream of which a step changes the slots, if it changes any.
LEMMA SlotSteps ==
  ASSUME [Next]_vars
  PROVE  \/ UNCHANGED <<slots, pairs, closeLog>>
         \/ \E c \in Conns, s \in Streams :
              \/ InsertSlotPair(c, s) /\ pairs[c][s] < MaxPairs /\ UNCHANGED <<closeLog, hooked>>
              \/ \E next \in ResumeStates :
                   \/ <<c, s>> \in finish /\ FireOnClose(c, s, TRUE, next)
                   \/ c \in draining /\ FireOnClose(c, s, job.peer, next)
         \/ DispatchNew
<1> DEFINE Goal == \/ UNCHANGED <<slots, pairs, closeLog>>
                   \/ \E c \in Conns, s \in Streams :
                        \/ InsertSlotPair(c, s) /\ pairs[c][s] < MaxPairs /\ UNCHANGED <<closeLog, hooked>>
                        \/ \E next \in ResumeStates :
                             \/ <<c, s>> \in finish /\ FireOnClose(c, s, TRUE, next)
                             \/ c \in draining /\ FireOnClose(c, s, job.peer, next)
                   \/ DispatchNew
<1>1. CASE Accept
  BY <1>1 DEF Accept, AcceptConn, RecvIncoming, phpVars
<1>2. ASSUME UNCHANGED <<phpVars, loopVars>> PROVE Goal
  BY <1>2 DEF phpVars, loopVars
<1>3. CASE LoopStep
  <2>1. CASE Tick \/ EventsPending \/ ClosesPending \/ ListenerPending
             \/ TimerPending \/ Wake
    BY <2>1 DEF Tick, EventsPending, ClosesPending, ListenerPending, TimerPending, Wake,
                Goto, phpVars
  <2>2. CASE TimerFires \/ TimerStale \/ RecvClose \/ AcceptError \/ CallbackReturns
    BY <2>2 DEF TimerFires, TimerStale, RecvClose, AcceptError, RecvIncoming, CallbackReturns, phpVars
  <2>3. CASE DropLateEvent \/ DispatchData
    BY <2>3 DEF DropLateEvent, DispatchData
  <2>4. ASSUME NEW c \in Conns, DrainDone(c) PROVE Goal
    BY <2>4 DEF DrainDone
  <2>5. ASSUME NEW c \in Conns, NEW s \in Streams, FinishStream(c, s) PROVE Goal
    BY <2>5 DEF FinishStream, ResumeStates
  <2>7. ASSUME NEW c \in Conns, NEW s \in Streams, FinishStale(c, s) PROVE Goal
    BY <2>7 DEF FinishStale, phpVars
  <2>6. ASSUME NEW c \in Conns, NEW s \in Streams, DrainSlot(c, s) PROVE Goal
    BY <2>6 DEF DrainSlot, ResumeStates
  <2> QED
    BY <1>3, <2>1, <2>2, <2>3, <2>4, <2>5, <2>6, <2>7 DEF LoopStep
<1>4. CASE ScriptStep
  <2>1. CASE Close \/ Signal \/ PhpReenters
    BY <2>1 DEF Close, Signal, PhpReenters, phpVars
  <2>2. ASSUME NEW c \in Conns, NEW s \in Streams, PhpOpen(c, s) PROVE Goal
    BY <2>2 DEF PhpOpen, OpenStream, CanOpen, loopVars
  <2>3. ASSUME NEW c \in Conns, NEW s \in Streams, NEW g \in 1 .. pairs[c][s],
               NEW h \in Hooks, PhpHook(c, s, g, h)
        PROVE  Goal
    BY <2>3 DEF PhpHook, InstallSlot, loopVars
  <2> QED
    BY <1>4, <2>1, <2>2, <2>3 DEF ScriptStep
<1>5. CASE UNCHANGED vars
  BY <1>5 DEF vars, phpVars, loopVars
<1> QED
  BY <1>1, <1>2, <1>3, <1>4, <1>5 DEF Next

\* A new pair gets a number no call has used.
LEMMA InsertKeepsOnce ==
  ASSUME OnceInv, NEW c \in Conns, NEW s \in Streams,
         InsertSlotPair(c, s), UNCHANGED closeLog
  PROVE  ToldPairsAreGone' /\ OnCloseAtMostOnce'
<1>1. /\ slots \in [Conns -> [Streams -> Nat]] /\ pairs \in [Conns -> [Streams -> Nat]]
  BY DEF OnceInv, TypeOK, PhpStreamsTypeOK
<1>2. ASSUME NEW d \in Conns, NEW r \in Streams
      PROVE  IF d = c /\ r = s
               THEN pairs'[d][r] = pairs[d][r] + 1 /\ slots'[d][r] = pairs[d][r] + 1
               ELSE pairs'[d][r] = pairs[d][r] /\ slots'[d][r] = slots[d][r]
  BY <1>1 DEF InsertSlotPair
<1>3. ToldPairsAreGone'
  BY <1>1, <1>2 DEF OnceInv, ToldPairsAreGone
<1>4. OnCloseAtMostOnce'
  BY DEF OnceInv, OnCloseAtMostOnce
<1> QED
  BY <1>3, <1>4

\* The pair a call is made for has not been called, and leaves the map.
LEMMA FireKeepsOnce ==
  ASSUME OnceInv, NEW c \in Conns, NEW s \in Streams, NEW peer \in BOOLEAN,
         NEW next \in ResumeStates, FireOnClose(c, s, peer, next)
  PROVE  ToldPairsAreGone' /\ OnCloseAtMostOnce'
<1> DEFINE g == slots[c][s]
           Call == [pair |-> g, peer |-> peer]
           Log == closeLog[c][s]
<1>1. /\ slots \in [Conns -> [Streams -> Nat]] /\ pairs \in [Conns -> [Streams -> Nat]]
      /\ closeLog \in [Conns -> [Streams -> Seq([pair: Nat, peer: BOOLEAN])]]
  BY DEF OnceInv, TypeOK, PhpStreamsTypeOK, ServerLoopTypeOK
<1>2. pairs' = pairs
  BY DEF FireOnClose
<1>3. ASSUME NEW d \in Conns, NEW r \in Streams
      PROVE  slots'[d][r] = IF d = c /\ r = s THEN 0 ELSE slots[d][r]
  BY <1>1 DEF FireOnClose, RemoveSlotPair
<1>4. CASE closeLog' = closeLog
  <2>1. ASSUME NEW d \in Conns, NEW r \in Streams
        PROVE  /\ slots'[d][r] <= pairs'[d][r]
               /\ \A i \in DOMAIN closeLog'[d][r] :
                    /\ closeLog'[d][r][i].pair \in 1 .. pairs'[d][r]
                    /\ closeLog'[d][r][i].pair # slots'[d][r]
    <3>1. pairs[d][r] \in Nat /\ slots[d][r] <= pairs[d][r]
          /\ \A i \in DOMAIN closeLog[d][r] :
               /\ closeLog[d][r][i].pair \in 1 .. pairs[d][r]
               /\ closeLog[d][r][i].pair # slots[d][r]
      BY <1>1 DEF OnceInv, ToldPairsAreGone
    <3> QED
      BY <1>2, <1>3, <1>4, <3>1
  <2>2. OnCloseAtMostOnce'
    BY <1>4 DEF OnceInv, OnCloseAtMostOnce
  <2> QED
    BY <2>1, <2>2 DEF ToldPairsAreGone
<1>5. CASE g # 0 /\ closeLog' = [closeLog EXCEPT ![c][s] = Append(Log, Call)]
  <2>1. /\ Log \in Seq([pair: Nat, peer: BOOLEAN])
        /\ Call \in [pair: Nat, peer: BOOLEAN]
        /\ Call.pair = g
    BY <1>1
  <2>2. ASSUME NEW d \in Conns, NEW r \in Streams
        PROVE  closeLog'[d][r] = IF d = c /\ r = s THEN Append(Log, Call)
                                 ELSE closeLog[d][r]
    BY <1>1, <1>5
  <2>3. g \in 1 .. pairs[c][s] /\ \A i \in DOMAIN Log : Log[i].pair # g
    BY <1>1, <1>5 DEF OnceInv, ToldPairsAreGone
  <2> HIDE DEF Call, Log
  <2>4. /\ DOMAIN Append(Log, Call) = 1 .. Len(Log) + 1
        /\ DOMAIN Log = 1 .. Len(Log) /\ Len(Log) \in Nat
        /\ \A i \in 1 .. Len(Log) : Append(Log, Call)[i] = Log[i]
        /\ Append(Log, Call)[Len(Log) + 1] = Call
    BY <2>1, AppendProperties
  <2>5. ASSUME NEW d \in Conns, NEW r \in Streams
        PROVE  /\ slots'[d][r] <= pairs'[d][r]
               /\ \A i \in DOMAIN closeLog'[d][r] :
                    /\ closeLog'[d][r][i].pair \in 1 .. pairs'[d][r]
                    /\ closeLog'[d][r][i].pair # slots'[d][r]
    <3>1. CASE d = c /\ r = s
      <4>1. \A i \in 1 .. Len(Log) : Log[i].pair \in 1 .. pairs[c][s]
        BY <2>4 DEF OnceInv, ToldPairsAreGone, Log
      <4>2. \A i \in 1 .. Len(Log) + 1 : Append(Log, Call)[i].pair \in 1 .. pairs[c][s]
        BY <2>1, <2>3, <2>4, <4>1
      <4>3. slots'[d][r] = 0 /\ closeLog'[d][r] = Append(Log, Call) /\ pairs[c][s] \in Nat
        BY <1>1, <1>3, <2>2, <3>1
      <4> QED
        BY <1>2, <2>4, <3>1, <4>2, <4>3
    <3>2. CASE ~(d = c /\ r = s)
      BY <1>2, <1>3, <2>2, <3>2 DEF OnceInv, ToldPairsAreGone
    <3> QED
      BY <3>1, <3>2
  <2>6. ASSUME NEW d \in Conns, NEW r \in Streams,
               NEW i \in DOMAIN closeLog'[d][r], NEW j \in DOMAIN closeLog'[d][r],
               closeLog'[d][r][i].pair = closeLog'[d][r][j].pair
        PROVE  i = j
    <3>1. CASE d = c /\ r = s
      <4>1. \A k, l \in 1 .. Len(Log) : Log[k].pair = Log[l].pair => k = l
        BY <2>4 DEF OnceInv, OnCloseAtMostOnce, Log
      <4>2. closeLog'[d][r] = Append(Log, Call)
        BY <2>2, <3>1
      <4>3. i \in 1 .. Len(Log) + 1 /\ j \in 1 .. Len(Log) + 1
            /\ Append(Log, Call)[i].pair = Append(Log, Call)[j].pair
        BY <2>4, <2>6, <4>2
      <4> QED
        BY <2>1, <2>3, <2>4, <4>1, <4>3
    <3>2. CASE ~(d = c /\ r = s)
      BY <2>2, <2>6, <3>2 DEF OnceInv, OnCloseAtMostOnce
    <3> QED
      BY <3>1, <3>2
  <2> QED
    BY <2>5, <2>6 DEF ToldPairsAreGone, OnCloseAtMostOnce
<1> QED
  BY <1>4, <1>5 DEF FireOnClose

LEMMA InitOnce == Init => OnceInv
<1> SUFFICES ASSUME Init PROVE OnceInv
  OBVIOUS
<1>1. \A c \in Conns, s \in Streams :
        slots[c][s] = 0 /\ pairs[c][s] = 0 /\ closeLog[c][s] = <<>>
  BY DEF Init, PhpStreamsInit, ServerLoopInit
<1>2. ToldPairsAreGone
  BY <1>1 DEF ToldPairsAreGone
<1>3. OnCloseAtMostOnce
  BY <1>1 DEF OnCloseAtMostOnce
<1> QED
  BY <1>2, <1>3, InitType DEF OnceInv

LEMMA StepOnce == OnceInv /\ [Next]_vars => OnceInv'
<1> SUFFICES ASSUME OnceInv, [Next]_vars PROVE OnceInv'
  OBVIOUS
<1>1. TypeOK'
  BY StepType DEF OnceInv
<1>2. ASSUME UNCHANGED <<slots, pairs, closeLog>>
      PROVE  ToldPairsAreGone' /\ OnCloseAtMostOnce'
  BY <1>2 DEF OnceInv, ToldPairsAreGone, OnCloseAtMostOnce
<1>3. ASSUME NEW c \in Conns, NEW s \in Streams, InsertSlotPair(c, s), UNCHANGED closeLog
      PROVE  ToldPairsAreGone' /\ OnCloseAtMostOnce'
  BY <1>3, InsertKeepsOnce
<1>4. ASSUME NEW c \in Conns, NEW s \in Streams, NEW peer \in {TRUE, job.peer},
             NEW next \in ResumeStates, FireOnClose(c, s, peer, next)
      PROVE  ToldPairsAreGone' /\ OnCloseAtMostOnce'
  <2>1. peer \in BOOLEAN
    BY DEF OnceInv, TypeOK, ServerLoopTypeOK, Job
  <2> QED
    BY <1>4, <2>1, FireKeepsOnce
<1>5. ASSUME DispatchNew
      PROVE  ToldPairsAreGone' /\ OnCloseAtMostOnce'
  <2>1. Head(events).conn \in Conns /\ Head(events).stream \in Streams
    BY <1>5, QueueTypes DEF OnceInv, DispatchNew, RecvEvent, Event
  <2> QED
    BY <1>1, <1>5, <2>1, InsertKeepsOnce DEF DispatchNew, OnceInv
<1>6. ToldPairsAreGone' /\ OnCloseAtMostOnce'
  BY <1>2, <1>3, <1>4, <1>5, SlotSteps
<1> QED
  BY <1>1, <1>6 DEF OnceInv

\* fire_on_close is reached from a FIN, from a connection's close signal and
\* from close(), in any order: for any number of connections, streams and slot
\* pairs the on_close callable of one pair is invoked at most once.
THEOREM OnCloseOnce == Spec => []OnCloseAtMostOnce
<1>1. Init => OnceInv
  BY InitOnce
<1>2. OnceInv /\ [Next]_vars => OnceInv'
  BY StepOnce
<1>3. OnceInv => OnCloseAtMostOnce
  BY DEF OnceInv
<1> QED
  BY <1>1, <1>2, <1>3, PTL DEF Spec

-----------------------------------------------------------------------------
(***************************************************************************)
(* No map mutex of a connection the server still has is held while PHP     *)
(* code runs.                                                              *)
(***************************************************************************)
\* A map stays locked for a connection that is being drained only, by the drain
\* that runs or by the one a callable of which has called close(); such a
\* connection has left the server's map of connections, and nothing else is
\* done meanwhile.  A close() inside a close()'s own drain finds no connection,
\* so one frame is enough.
DrainInv ==
  /\ mapHeld \subseteq draining \cup caller.drain
  /\ caller.maps \subseteq caller.drain
  /\ (draining \cup caller.drain) \cap connections = {}
  /\ caller.drain # {} => caller.resume = "drain"
  /\ caller.job.ret = "events"
  /\ job.ret # "callback" => caller = NoCaller
  /\ job.ret # "events" => connections = {}
  /\ draining # {} \/ job.ret # "events" =>
       pc \in {"drain", "stuck"} \/ (pc = "callback" /\ resume = "drain")

LEMMA InitDrain == Init => DrainInv
BY DEF Init, PhpStreamsInit, ServerLoopInit, DrainInv, NoJob, NoCaller

\* What DrainInv says where no drain is going on.
LEMMA NoDrain ==
  ASSUME DrainInv, pc \notin {"drain", "stuck", "callback"}
  PROVE  draining = {} /\ job.ret = "events" /\ caller = NoCaller /\ mapHeld = {}
BY DEF DrainInv, NoCaller

LEMMA LoopDrain ==
  ASSUME DrainInv, LoopStep
  PROVE  DrainInv'
<1>1. CASE Tick \/ EventsPending \/ ClosesPending \/ ListenerPending
           \/ TimerPending \/ Wake
  BY <1>1 DEF DrainInv, Tick, EventsPending, ClosesPending, ListenerPending, TimerPending,
              Wake, Goto, phpVars, frameVars
<1>2. CASE TimerFires \/ TimerStale \/ AcceptError
  BY <1>2 DEF DrainInv, TimerFires, TimerStale, AcceptError, RecvIncoming, phpVars, frameVars
<1>3. CASE RecvClose
  <2>1. pc = "closes" /\ UNCHANGED <<mapHeld, caller>>
    BY <1>3 DEF RecvClose, phpVars, frameVars
  <2>2. draining = {} /\ job.ret = "events" /\ caller = NoCaller /\ mapHeld = {}
    BY <2>1, NoDrain
  <2>3. CASE Head(closes).conn \in connections
    <3>1. /\ connections' = connections \ {Head(closes).conn}
          /\ draining' = {Head(closes).conn} /\ job'.ret = "events" /\ pc' = "drain"
      BY <1>3, <2>3 DEF RecvClose
    <3> QED
      BY <2>1, <2>2, <3>1 DEF DrainInv, NoCaller, NoJob
  <2>4. CASE Head(closes).conn \notin connections
    <3>1. pc' = "events" /\ UNCHANGED <<connections, draining, job>>
      BY <1>3, <2>4 DEF RecvClose
    <3> QED
      BY <2>1, <2>2, <3>1 DEF DrainInv
  <2> QED
    BY <2>3, <2>4
<1>4. CASE CallbackReturns
  BY <1>4 DEF DrainInv, CallbackReturns, frameVars
<1>5. CASE DropLateEvent \/ DispatchNew \/ DispatchData
  <2>1. pc = "events" /\ UNCHANGED <<mapHeld, connections, draining, job, caller>>
    BY <1>5 DEF DropLateEvent, DispatchNew, DispatchData, RecvEvent, frameVars
  <2> QED
    BY <2>1 DEF DrainInv
<1>6. ASSUME NEW c \in Conns, DrainDone(c) PROVE DrainInv'
  <2>1. pc = "drain" /\ mapHeld' = caller.maps /\ UNCHANGED connections
    BY <1>6 DEF DrainDone
  <2>2. CASE DrainReturns
    <3>1. /\ pc' = job.ret /\ resume' = caller.resume
          /\ draining' = caller.drain /\ job' = caller.job /\ caller' = NoCaller
      BY <2>2 DEF DrainReturns
    <3>2. /\ NoCaller.drain = {} /\ NoCaller.maps = {}
          /\ NoCaller.resume = "events" /\ NoCaller.job.ret = "events"
      BY DEF NoCaller, NoJob
    <3>3. job'.ret = "events"
      BY <3>1 DEF DrainInv
    <3>4. draining' # {} => pc' = "callback" /\ resume' = "drain"
      <4>1. caller.drain # {} => caller # NoCaller
        BY <3>2
      <4> QED
        BY <3>1, <4>1 DEF DrainInv
    <3> QED
      BY <2>1, <3>1, <3>2, <3>3, <3>4 DEF DrainInv
  <2>3. CASE draining' = draining \ {c} /\ UNCHANGED <<pc, resume, job, caller>>
    BY <2>1, <2>3 DEF DrainInv
  <2> QED
    BY <1>6, <2>2, <2>3 DEF DrainDone
<1>7. ASSUME NEW c \in Conns, NEW s \in Streams, FinishStream(c, s) \/ FinishStale(c, s)
      PROVE  DrainInv'
  <2>1. pc = "finish" /\ UNCHANGED <<mapHeld, connections, draining, job, caller>>
    BY <1>7 DEF FinishStream, FinishStale, phpVars, frameVars
  <2> QED
    BY <2>1 DEF DrainInv
<1>8. ASSUME NEW c \in Conns, NEW s \in Streams, DrainSlot(c, s) PROVE DrainInv'
  <2>1. /\ c \in draining /\ mapHeld' = caller.maps \cup {c}
        /\ UNCHANGED <<connections, draining, job, caller>>
    BY <1>8 DEF DrainSlot, frameVars
  <2>2. pc' = "drain" \/ (pc' = "callback" /\ resume' = "drain")
    BY <1>8 DEF DrainSlot, FireOnClose, Invoke
  <2> QED
    BY <2>1, <2>2 DEF DrainInv
<1> QED
  BY <1>1, <1>2, <1>3, <1>4, <1>5, <1>6, <1>7, <1>8 DEF LoopStep

LEMMA CloseDrain ==
  ASSUME DrainInv, Close
  PROVE  DrainInv'
<1>1. connections' = {} /\ UNCHANGED mapHeld /\ pc \in {"php", "callback"}
  BY DEF Close, PhpRuns, phpVars
<1>2. CASE connections # {} /\ DrainConnections
  <2>1. job.ret = "events" /\ caller = NoCaller
    BY <1>2 DEF DrainInv
  <2>2. mapHeld \subseteq draining
    BY <2>1 DEF DrainInv, NoCaller
  <2>3. pc' = "drain" /\ job' = [peer |-> FALSE, ret |-> pc] /\ draining' = connections
    BY <1>2 DEF DrainConnections
  <2>4. CASE pc = "php"
    <3>1. draining = {} /\ caller' = NoCaller
      BY <1>2, <2>1, <2>4, NoDrain DEF DrainConnections
    <3> QED
      BY <1>1, <2>2, <2>3, <2>4, <3>1 DEF DrainInv, NoCaller, NoJob
  <2>5. CASE pc = "callback"
    <3>1. caller' = [resume |-> resume, locks |-> slotHeld, maps |-> mapHeld,
                     drain |-> draining, job |-> job]
      BY <1>2, <2>5 DEF DrainConnections
    <3>2. draining # {} => resume = "drain"
      BY <2>5 DEF DrainInv
    <3> QED
      BY <1>1, <2>1, <2>2, <2>3, <2>5, <3>1, <3>2 DEF DrainInv
  <2> QED
    BY <1>1, <2>4, <2>5
<1>3. CASE UNCHANGED <<pc, resume, draining, job, caller>>
  BY <1>1, <1>3 DEF DrainInv
<1> QED
  BY <1>2, <1>3 DEF Close

LEMMA ScriptDrain ==
  ASSUME DrainInv, ScriptStep
  PROVE  DrainInv'
<1>1. CASE Close
  BY <1>1, CloseDrain
<1>2. CASE Signal \/ PhpReenters
  BY <1>2 DEF DrainInv, Signal, PhpReenters, phpVars, frameVars
<1>3. ASSUME NEW c \in Conns, NEW s \in Streams, PhpOpen(c, s) PROVE DrainInv'
  BY <1>3 DEF DrainInv, PhpOpen, OpenStream, loopVars, frameVars
<1>4. ASSUME NEW c \in Conns, NEW s \in Streams, NEW g \in 1 .. pairs[c][s],
             NEW h \in Hooks, PhpHook(c, s, g, h)
      PROVE  DrainInv'
  BY <1>4 DEF DrainInv, PhpHook, InstallSlot, frameVars
<1> QED
  BY <1>1, <1>2, <1>3, <1>4 DEF ScriptStep

LEMMA StepDrain ==
  ASSUME DrainInv, [Next]_vars
  PROVE  DrainInv'
<1>1. CASE Accept
  <2>1. pc = "listener" /\ UNCHANGED <<mapHeld, draining, job, caller>>
    BY <1>1 DEF Accept, AcceptConn, RecvIncoming, phpVars, frameVars
  <2>2. draining = {} /\ job.ret = "events" /\ caller = NoCaller /\ mapHeld = {}
    BY <2>1, NoDrain
  <2> QED
    BY <2>1, <2>2 DEF DrainInv, NoCaller
<1>2. CASE UNCHANGED <<phpVars, loopVars>>
  BY <1>2 DEF DrainInv, phpVars, loopVars, frameVars
<1>3. CASE UNCHANGED vars
  BY <1>3 DEF DrainInv, vars, phpVars, loopVars, frameVars
<1> QED
  BY <1>1, <1>2, <1>3, LoopDrain, ScriptDrain DEF Next

\* The whole program keeps DrainInv.
LEMMA AlwaysDrain == Spec => []DrainInv
<1>1. Init => DrainInv
  BY InitDrain
<1>2. DrainInv /\ [Next]_vars => DrainInv'
  BY StepDrain
<1> QED
  BY <1>1, <1>2, PTL DEF Spec

\* A callable for data, for a FIN or for a new stream may open a stream on any
\* connection the server has: socket.rs holds a map's mutex across on_close
\* calls only for connections it has removed, however many there are, and
\* wherever a callable calls close().
THEOREM OpenIsSafe == Spec => []OpenNeverBlocks
<1>1. DrainInv => OpenNeverBlocks
  BY DEF DrainInv, OpenNeverBlocks
<1> QED
  BY <1>1, AlwaysDrain, PTL

-----------------------------------------------------------------------------
(***************************************************************************)
(* What reaches PHP after close().                                         *)
(***************************************************************************)
\* A closed server has no connections: what is left in the channels, and what
\* the drivers still send, finds no record.
ClosedInv == ~listening => connections = {}

\* What ClosedIsSilent asks of a step.
Silent ==
  ~listening =>
    /\ UNCHANGED <<connections, dispatched>>
    /\ draining = {} /\ finish = {} => UNCHANGED closeLog

LEMMA LoopClosed ==
  ASSUME ClosedInv, LoopStep
  PROVE  ClosedInv' /\ Silent
<1> USE DEF ClosedInv, Silent
<1>1. CASE Tick \/ EventsPending \/ ClosesPending \/ ListenerPending
           \/ TimerPending \/ Wake
  BY <1>1 DEF Tick, EventsPending, ClosesPending, ListenerPending, TimerPending, Wake, Goto
<1>2. CASE TimerFires \/ TimerStale \/ AcceptError
  BY <1>2 DEF TimerFires, TimerStale, AcceptError, RecvIncoming
<1>3. CASE RecvClose
  BY <1>3 DEF RecvClose
<1>4. CASE CallbackReturns
  BY <1>4 DEF CallbackReturns
<1>5. CASE DropLateEvent
  BY <1>5 DEF DropLateEvent, RecvEvent
<1>6. CASE DispatchNew \/ DispatchData
  <2>1. connections # {} /\ UNCHANGED <<listening, connections>>
    BY <1>6 DEF DispatchNew, DispatchData, RecvEvent, Tracked
  <2> QED
    BY <2>1
<1>7. ASSUME NEW c \in Conns, DrainDone(c) PROVE ClosedInv' /\ Silent
  BY <1>7 DEF DrainDone
<1>8. ASSUME NEW c \in Conns, NEW s \in Streams, FinishStream(c, s) \/ FinishStale(c, s)
      PROVE  ClosedInv' /\ Silent
  BY <1>8 DEF FinishStream, FinishStale
<1>9. ASSUME NEW c \in Conns, NEW s \in Streams, DrainSlot(c, s)
      PROVE  ClosedInv' /\ Silent
  BY <1>9 DEF DrainSlot
<1> QED
  BY <1>1, <1>2, <1>3, <1>4, <1>5, <1>6, <1>7, <1>8, <1>9 DEF LoopStep

LEMMA ScriptClosed ==
  ASSUME ClosedInv, ScriptStep
  PROVE  ClosedInv' /\ Silent
<1> USE DEF ClosedInv, Silent
<1>1. CASE Close \/ Signal \/ PhpReenters
  BY <1>1 DEF Close, Signal, PhpReenters
<1>2. ASSUME NEW c \in Conns, NEW s \in Streams, PhpOpen(c, s) PROVE ClosedInv' /\ Silent
  BY <1>2 DEF PhpOpen, loopVars
<1>3. ASSUME NEW c \in Conns, NEW s \in Streams, NEW g \in 1 .. pairs[c][s],
             NEW h \in Hooks, PhpHook(c, s, g, h)
      PROVE  ClosedInv' /\ Silent
  BY <1>3 DEF PhpHook
<1> QED
  BY <1>1, <1>2, <1>3 DEF ScriptStep

\* Wherever close() is called, between two ticks or by a callable in the middle
\* of a dispatch or a drain, and however long the drivers go on: no connection
\* is accepted afterwards, no data is given to PHP, and on_close is only called
\* by close()'s own drain and by the drain or the FIN it was called in.
THEOREM SilentOnceClosed == Spec => ClosedIsSilent
<1>1. Init => ClosedInv
  BY DEF Init, ServerLoopInit, ClosedInv
<1>2. ClosedInv /\ [Next]_vars => ClosedInv' /\ [Silent]_vars
  <2> SUFFICES ASSUME ClosedInv, [Next]_vars PROVE ClosedInv' /\ Silent
    OBVIOUS
  <2>1. CASE Accept
    BY <2>1 DEF ClosedInv, Silent, Accept, AcceptConn, RecvIncoming, CanArrive
  <2>2. CASE UNCHANGED <<phpVars, loopVars>>
    BY <2>2 DEF ClosedInv, Silent, loopVars
  <2>3. CASE UNCHANGED vars
    BY <2>3 DEF ClosedInv, Silent, vars, loopVars
  <2> QED
    BY <2>1, <2>2, <2>3, LoopClosed, ScriptClosed DEF Next
<1> QED
  BY <1>1, <1>2, PTL DEF Spec, ClosedIsSilent, Silent
=============================================================================
