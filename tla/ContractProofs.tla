--------------------------- MODULE ContractProofs ---------------------------
(***************************************************************************)
(* What PHP may rely on when it is given a stream: what it is told of the  *)
(* close is true and comes once the stream is through, every callable that *)
(* waits for the close is told, and the server implements StreamContract.  *)
(***************************************************************************)
EXTENDS DeliveryProofs

(***************************************************************************)
(* After the FIN.                                                          *)
(***************************************************************************)
\* The driver has read the FIN, and the PHP thread has taken all there was.
Ended(c, s) == rx[c][s].st = "finRead" /\ DataAt(c, s) = {}

\* The FIN comes with the last chunk, and what is past the dispatch of it has
\* ended; while the server has the connection, a stream whose pair has left the
\* map is of that kind.
FinOn(c, s) ==
  /\ <<c, s>> \in finish => Ended(c, s)
  /\ \A i \in DataAt(c, s) :
       events[i].fin => rx[c][s].st = "finRead" /\ \A j \in DataAt(c, s) : j <= i
  /\ (c \in connections /\ slots[c][s] = 0 /\ pairs[c][s] > 0) => Ended(c, s)

FinInv == BaseInv /\ DrainInv /\ \A c \in Conns, s \in Streams : FinOn(c, s)

LEMMA InitFin == Init => FinInv
<1> SUFFICES ASSUME Init PROVE FinInv
  OBVIOUS
<1>1. DOMAIN events = {} /\ finish = {} /\ connections = {}
  BY DEF Init, ChannelsInit, ServerLoopInit
<1> QED
  BY <1>1, InitBase, InitDrain DEF FinInv, FinOn, DataAt

LEMMA StepFin ==
  ASSUME FinInv, [Next]_vars
  PROVE  FinInv'
<1>1. TypeOK /\ BaseInv /\ BaseInv' /\ DrainInv /\ DrainInv'
  BY StepBase, StepDrain DEF FinInv, BaseInv
<1> SUFFICES ASSUME NEW c \in Conns, NEW s \in Streams
             PROVE  FinOn(c, s)'
  BY <1>1 DEF FinInv
<1>2. FinOn(c, s) /\ slots[c][s] \in Nat /\ pairs[c][s] \in Nat
  BY <1>1 DEF FinInv, TypeOK, PhpStreamsTypeOK
<1>3. UNCHANGED events => UNCHANGED DataAt(c, s)
  BY DEF DataAt, DataOn, OnStream
<1> DEFINE Less == /\ <<c, s>> \in finish' => <<c, s>> \in finish
                   /\ c \in connections' => c \in connections \/ pairs'[c][s] = 0
<1>4. ASSUME Less, UNCHANGED <<events, slots, pairs>>,
             rx[c][s].st = "finRead" => rx'[c][s].st = "finRead"
      PROVE  FinOn(c, s)'
  BY <1>2, <1>3, <1>4 DEF FinOn, Ended
<1>5. CASE Calm
  <2>1. /\ UNCHANGED <<events, pairs>> /\ Less
        /\ rx[c][s].st = "finRead" => rx'[c][s].st = "finRead"
        /\ slots'[c][s] # slots[c][s] => c \in draining \/ <<c, s>> \in finish
        /\ c \in connections' => c \in connections /\ c \notin draining
    BY <1>1, <1>5 DEF Calm, DrainInv
  <2> QED
    BY <1>2, <1>3, <2>1 DEF FinOn, Ended
<1>6. CASE Accept
  <2>1. /\ UNCHANGED <<events, rx, slots, pairs, finish>>
        /\ drv[id_counter] = "idle" /\ connections' = connections \cup {id_counter}
    BY <1>1, <1>6, AcceptEffect
  <2> QED
    BY <1>1, <1>4, <2>1 DEF BaseInv, Untouched
<1>7. ASSUME NEW d \in Conns, NEW q \in Streams, KnownStream(d, q),
             UNCHANGED <<phpVars, loopVars>>
      PROVE  FinOn(c, s)'
  BY <1>1, <1>4, <1>7, KnownEffect DEF TakesUp
<1>8. ASSUME NEW d \in Conns, NEW q \in Streams, AnnounceStream(d, q),
             UNCHANGED <<phpVars, loopVars>>
      PROVE  FinOn(c, s)'
  <2>1. Pushes(NewEvent(d, q)) /\ UNCHANGED <<rx, slots, pairs, connections, finish>>
    BY <1>1, <1>8, AnnounceEffect DEF Announces
  <2>2. NewEvent(d, q) \in Event /\ NewEvent(d, q).kind # "Data"
    BY DEF NewEvent, Event, NewKinds
  <2>3. UNCHANGED DataAt(c, s) /\ \A i \in DataAt(c, s) : events'[i] = events[i]
    BY <1>1, <2>1, <2>2, PushData
  <2> QED
    BY <1>2, <2>1, <2>3 DEF FinOn, Ended
<1>9. ASSUME NEW d \in Conns, NEW q \in Streams, RecvOk(d, q),
             UNCHANGED <<phpVars, loopVars>>
      PROVE  FinOn(c, s)'
  <2>1. PICK n \in Nat, fin \in BOOLEAN : Reads(d, q, n, fin)
    BY <1>1, <1>9, RecvOkEffect
  <2> DEFINE e == DataEvent(d, q, rx[d][q].off, n, fin)
             k == Len(events) + 1
  <2>2. /\ Pushes(e) /\ UNCHANGED <<slots, pairs, connections, finish>>
        /\ rx[d][q].buf > 0 \/ rx[d][q].st = "fin"
        /\ rx'[d][q].st = IF fin THEN "finRead" ELSE rx[d][q].st
        /\ c # d \/ s # q => rx'[c][s] = rx[c][s]
    BY <2>1 DEF Reads
  <2>3. e \in Event /\ e.kind = "Data" /\ e.conn = d /\ e.stream = q /\ e.fin = fin
    BY <2>2 DEF Pushes, DataEvent
  <2> HIDE DEF e
  <2>4. /\ k \in Nat /\ DataAt(c, s) \in SUBSET Nat
        /\ \A i \in DataAt(c, s) : i < k /\ events'[i] = events[i]
        /\ events'[k] = e
        /\ DataAt(c, s)' = IF d = c /\ q = s THEN DataAt(c, s) \cup {k} ELSE DataAt(c, s)
    BY <1>1, <2>2, <2>3, PushData
  <2> HIDE DEF k
  <2>5. CASE d = c /\ q = s
    <3>1. rx[c][s].st # "finRead"
      BY <1>1, <2>2, <2>5 DEF BaseInv, ReadOut
    <3>2. /\ <<c, s>> \notin finish
          /\ \A i \in DataAt(c, s) : ~events[i].fin
          /\ ~(c \in connections /\ slots[c][s] = 0 /\ pairs[c][s] > 0)
      BY <1>2, <3>1 DEF FinOn, Ended
    <3>3. \A i \in DataAt(c, s)' :
            events'[i].fin => rx'[c][s].st = "finRead" /\ \A j \in DataAt(c, s)' : j <= i
      BY <2>2, <2>3, <2>4, <2>5, <3>2
    <3> QED
      BY <2>2, <3>2, <3>3 DEF FinOn
  <2>6. CASE ~(d = c /\ q = s)
    BY <1>2, <2>2, <2>4, <2>6 DEF FinOn, Ended
  <2> QED
    BY <2>5, <2>6
<1>10. CASE Receives
  <2>1. Takes(events[1]) /\ UNCHANGED <<rx, connections>>
    BY <1>1, <1>10, ReceiveEffect DEF Takes
  <2>2. /\ DataAt(c, s) \in SUBSET (Nat \ {0}) /\ DataAt(c, s)' \in SUBSET (Nat \ {0})
        /\ events[1].conn \in Conns /\ events[1].stream \in Streams
        /\ 1 \in DataAt(c, s) <=>
             events[1].kind = "Data" /\ events[1].conn = c /\ events[1].stream = s
        /\ \A i \in DataAt(c, s)' : i + 1 \in DataAt(c, s) /\ events'[i] = events[i + 1]
    BY <1>1, <2>1, TakeData
  <2>3. \/ UNCHANGED <<slots, pairs>>
        \/ InsertSlotPair(events[1].conn, events[1].stream)
    BY <2>1 DEF Takes
  <2>4. slots'[c][s] # 0 \/ (slots'[c][s] = slots[c][s] /\ pairs'[c][s] = pairs[c][s])
    <3>1. CASE UNCHANGED <<slots, pairs>>
      BY <3>1
    <3>2. CASE InsertSlotPair(events[1].conn, events[1].stream)
      <4>1. events[1].conn \in Conns /\ events[1].stream \in Streams
        BY <2>2
      <4> QED
        BY <1>1, <3>2, <4>1, InsertEffect
    <3> QED
      BY <2>3, <3>1, <3>2
  <2>5. (c \in connections' /\ slots'[c][s] = 0 /\ pairs'[c][s] > 0) => Ended(c, s)'
    BY <1>2, <2>1, <2>2, <2>4 DEF FinOn, Ended
  <2>6. \A i \in DataAt(c, s)' :
          events'[i].fin => rx'[c][s].st = "finRead" /\ \A j \in DataAt(c, s)' : j <= i
    <3> SUFFICES ASSUME NEW i \in DataAt(c, s)', events'[i].fin
                 PROVE  rx'[c][s].st = "finRead" /\ \A j \in DataAt(c, s)' : j <= i
      OBVIOUS
    <3>1. rx[c][s].st = "finRead" /\ \A j \in DataAt(c, s) : j <= i + 1
      BY <1>2, <2>2 DEF FinOn
    <3> QED
      BY <2>1, <2>2, <3>1
  <2>7. <<c, s>> \in finish' => Ended(c, s)'
    <3>1. CASE <<c, s>> \in finish
      BY <1>2, <2>1, <2>2, <3>1 DEF FinOn, Ended
    <3>2. CASE <<c, s>> \in finish' /\ <<c, s>> \notin finish
      <4>1. 1 \in DataAt(c, s) /\ events[1].fin
        BY <2>1, <2>2, <3>2 DEF Takes
      <4>2. rx[c][s].st = "finRead" /\ \A j \in DataAt(c, s) : j <= 1
        BY <1>2, <4>1 DEF FinOn
      <4> QED
        BY <2>1, <2>2, <4>2 DEF Ended
    <3> QED
      BY <3>1, <3>2
  <2> QED
    BY <2>5, <2>6, <2>7 DEF FinOn
<1>11. ASSUME NEW d \in Conns, NEW q \in Streams, Opens(d, q)
       PROVE  FinOn(c, s)'
  <2>1. UNCHANGED <<events, rx, connections, finish>> /\ InsertSlotPair(d, q)
    BY <1>1, <1>11, OpenEffect
  <2>2. \/ slots'[c][s] # 0
        \/ slots'[c][s] = slots[c][s] /\ pairs'[c][s] = pairs[c][s]
    BY <1>1, <2>1, InsertEffect
  <2> QED
    BY <1>2, <1>3, <2>1, <2>2 DEF FinOn, Ended
<1> QED
  BY <1>1, <1>5, <1>6, <1>7, <1>8, <1>9, <1>10, <1>11, StepKinds DEF Drives

-----------------------------------------------------------------------------
(***************************************************************************)
(* What the flag of on_close says.                                         *)
(***************************************************************************)
\* What peerClosed says of a connection that has ended, or that close() ends.
SaysOf(c, peer) ==
  IF peer THEN cause[c] = "peer" ELSE cause[c] \in {"timeout", "local"} \/ ~listening

\* Why a connection ended is known once, when its driver stops; the signal in
\* the channel and the drain carry it unchanged, also the drain a callable of
\* which has called close().
CauseInv ==
  /\ \A c \in Conns : cause[c] # "none" => drv[c] = "closed"
  /\ \A i \in DOMAIN closes : SaysOf(closes[i].conn, closes[i].peer)
  /\ \A c \in draining : SaysOf(c, job.peer)
  /\ \A c \in caller.drain : SaysOf(c, caller.job.peer)

Truth(c, s, peer) == SaysOf(c, peer) \/ (peer /\ rx[c][s].st = "finRead")

FlagInv ==
  /\ FinInv /\ CauseInv
  /\ \A c \in Conns, s \in Streams : \A i \in DOMAIN closeLog[c][s] :
       Truth(c, s, closeLog[c][s][i].peer)

\* A drain goes on, is put by for the one of close() or taken up again after it.
DrainsKeepFlag ==
  /\ \A c \in draining' : \/ c \in draining /\ job'.peer = job.peer
                          \/ c \in caller.drain /\ job'.peer = caller.job.peer
                          \/ ~listening' /\ job'.peer = FALSE
  /\ \A c \in caller'.drain : \/ c \in caller.drain /\ caller'.job.peer = caller.job.peer
                              \/ c \in draining /\ caller'.job.peer = job.peer

\* on_conn_close is the only step that says why a connection ended, and a drain
\* takes its flag from the signal, or from close().
LEMMA CauseSteps ==
  ASSUME TypeOK, DrainInv, [Next]_vars
  PROVE  /\ listening' => listening
         /\ \/ /\ UNCHANGED <<cause, closes>> /\ DrainsKeepFlag
               /\ \A c \in Conns : drv[c] = "closed" => drv'[c] = "closed"
            \/ RecvClose /\ UNCHANGED driverVars
            \/ \E c \in Conns : OnConnClose(c) /\ UNCHANGED <<draining, job, caller>>
<1> DEFINE Same == UNCHANGED <<draining, job, caller>>
           Quiet == /\ listening' => listening
                    /\ UNCHANGED <<cause, closes>> /\ DrainsKeepFlag
                    /\ \A c \in Conns : drv[c] = "closed" => drv'[c] = "closed"
<1> USE DEF frameVars, historyVars
<1>0. Same => DrainsKeepFlag
  BY DEF DrainsKeepFlag
<1>1. ASSUME UNCHANGED <<phpVars, loopVars>>, NEW c \in Conns,
             DriverStep(c) \/ PeerStep(c) \/ OnConnEstablished(c) \/ HandshakeFails(c)
      PROVE  Quiet
  <2>1. UNCHANGED <<cause, closes>> /\ drv[c] # "closed"
        /\ \E to \in DriverStates : drv' = [drv EXCEPT ![c] = to]
    BY <1>1 DEF DriverStep, PeerStep, OnConnEstablished, HandshakeFails, ProcessReads,
                ReadsDone, KnownStream, AnnounceStream, AnnounceBlocked, RecvOk, RecvErr,
                ReserveData, ReserveBlocked, TakeReadable, EnterDrain, BreakOuter,
                PacketOther, PacketData, PacketFin, PacketReset, FeedPacket, DriverStates
  <2>2. Same /\ UNCHANGED listening
    BY <1>1 DEF loopVars
  <2>3. \A d \in Conns : drv[d] = "closed" => drv'[d] = "closed"
    BY <2>1 DEF TypeOK, DriverTypeOK
  <2> QED
    BY <1>0, <2>1, <2>2, <2>3
<1>2. CASE Accept
  <2>1. UNCHANGED <<cause, closes, draining, job, caller, listening>>
        /\ drv[id_counter] = "idle" /\ drv' = [drv EXCEPT ![id_counter] = "handshake"]
    BY <1>2 DEF Accept, AcceptConn, RecvIncoming, StartDriver
  <2>2. \A d \in Conns : drv[d] = "closed" => drv'[d] = "closed"
    BY <2>1 DEF TypeOK, DriverTypeOK
  <2> QED
    BY <1>0, <2>1, <2>2
<1>3. ASSUME NEW c \in Conns, OnConnClose(c), UNCHANGED loopVars
      PROVE  OnConnClose(c) /\ Same /\ UNCHANGED listening
  BY <1>3 DEF loopVars
<1>4. ASSUME UNCHANGED driverVars, LoopStep, ~RecvClose PROVE Quiet
  <2>1. UNCHANGED <<cause, drv>>
    BY <1>4 DEF driverVars
  <2> DEFINE Rest == UNCHANGED <<closes, listening>> /\ Same
  <2>2. CASE Tick \/ EventsPending \/ ClosesPending \/ ListenerPending
             \/ TimerPending \/ Wake
    <3>1. Rest
      BY <2>2 DEF Tick, EventsPending, ClosesPending, ListenerPending, TimerPending,
                  Wake, Goto
    <3> QED
      BY <1>0, <2>1, <3>1
  <2>3. CASE TimerFires \/ TimerStale \/ AcceptError \/ CallbackReturns
    <3>1. Rest
      BY <2>3 DEF TimerFires, TimerStale, AcceptError, RecvIncoming, CallbackReturns
    <3> QED
      BY <1>0, <2>1, <3>1
  <2>4. CASE DropLateEvent \/ DispatchNew \/ DispatchData
    <3>1. Rest
      BY <2>4 DEF DropLateEvent, DispatchNew, DispatchData, RecvEvent
    <3> QED
      BY <1>0, <2>1, <3>1
  <2>5. ASSUME NEW c \in Conns, DrainDone(c) PROVE Quiet
    <3>1. UNCHANGED <<closes, listening>>
      BY <2>5 DEF DrainDone
    <3>2. \/ DrainReturns
          \/ draining' = draining \ {c} /\ UNCHANGED <<job, caller>>
      BY <2>5 DEF DrainDone
    <3>3. DrainsKeepFlag
      BY <3>2 DEF DrainsKeepFlag, DrainReturns, NoCaller
    <3> QED
      BY <2>1, <3>1, <3>3
  <2>6. ASSUME NEW c \in Conns, NEW s \in Streams,
               FinishStream(c, s) \/ FinishStale(c, s) \/ DrainSlot(c, s)
        PROVE  Quiet
    <3>1. Rest
      BY <2>6 DEF FinishStream, FinishStale, DrainSlot
    <3> QED
      BY <1>0, <2>1, <3>1
  <2> QED
    BY <1>4, <2>2, <2>3, <2>4, <2>5, <2>6 DEF LoopStep
<1>5. ASSUME UNCHANGED driverVars, ScriptStep PROVE Quiet
  <2>1. UNCHANGED <<cause, drv>>
    BY <1>5 DEF driverVars
  <2> DEFINE Rest == UNCHANGED <<closes, listening>> /\ Same
  <2>2. CASE Close
    <3>1. UNCHANGED closes /\ listening' = FALSE
      BY <2>2 DEF Close
    <3>2. CASE connections # {} /\ DrainConnections
      <4>1. caller.drain = {}
        BY <3>2 DEF DrainInv, NoCaller
      <4>2. job'.peer = FALSE
        BY <3>2 DEF DrainConnections
      <4>3. \/ caller'.drain = draining /\ caller'.job = job
            \/ UNCHANGED caller
        BY <3>2 DEF DrainConnections
      <4> QED
        BY <2>1, <3>1, <4>1, <4>2, <4>3 DEF DrainsKeepFlag
    <3>3. CASE UNCHANGED <<draining, job, caller>>
      BY <1>0, <2>1, <3>1, <3>3
    <3> QED
      BY <2>2, <3>2, <3>3 DEF Close
  <2>3. CASE Signal \/ PhpReenters
    <3>1. Rest
      BY <2>3 DEF Signal, PhpReenters
    <3> QED
      BY <1>0, <2>1, <3>1
  <2>4. ASSUME NEW c \in Conns, NEW s \in Streams, PhpOpen(c, s) PROVE Quiet
    <3>1. Rest
      BY <2>4 DEF PhpOpen, loopVars
    <3> QED
      BY <1>0, <2>1, <3>1
  <2>5. ASSUME NEW c \in Conns, NEW s \in Streams, NEW g \in 1 .. pairs[c][s],
               NEW h \in Hooks, PhpHook(c, s, g, h)
        PROVE  Quiet
    <3>1. Rest
      BY <2>5 DEF PhpHook
    <3> QED
      BY <1>0, <2>1, <3>1
  <2> QED
    BY <1>5, <2>2, <2>3, <2>4, <2>5 DEF ScriptStep
<1>6. CASE UNCHANGED vars
  <2>1. UNCHANGED <<cause, drv, closes, listening>> /\ Same
    BY <1>6 DEF vars, driverVars, loopVars
  <2> QED
    BY <1>0, <2>1
<1>7. CASE RecvClose /\ UNCHANGED driverVars
  BY <1>7 DEF RecvClose
<1> QED
  BY <1>1, <1>2, <1>3, <1>4, <1>5, <1>6, <1>7 DEF Next, ConnStep

LEMMA StepCause ==
  ASSUME TypeOK, DrainInv, CauseInv, [Next]_vars
  PROVE  /\ CauseInv'
         /\ \A c \in Conns, peer \in BOOLEAN : SaysOf(c, peer) => SaysOf(c, peer)'
<1>1. /\ closes \in Seq(CloseMsg) /\ Len(closes) \in Nat /\ DOMAIN closes = 1 .. Len(closes)
      /\ \A i \in DOMAIN closes : closes[i].conn \in Conns /\ closes[i].peer \in BOOLEAN
      /\ draining \subseteq Conns /\ caller.drain \subseteq Conns
      /\ job.peer \in BOOLEAN /\ caller.job.peer \in BOOLEAN
  <2>1. closes \in Seq(CloseMsg) /\ draining \subseteq Conns /\ job \in Job /\ caller \in Frame
    BY DEF TypeOK, ChannelsTypeOK, ServerLoopTypeOK
  <2>2. \A i \in DOMAIN closes : closes[i] \in CloseMsg
    BY <2>1, ElementOfSeq
  <2>3. caller.drain \subseteq Conns /\ caller.job \in Job
    BY <2>1 DEF Frame
  <2>4. job.peer \in BOOLEAN /\ caller.job.peer \in BOOLEAN
    BY <2>1, <2>3 DEF Job
  <2> QED
    BY <2>1, <2>2, <2>3, <2>4 DEF CloseMsg
<1>2. listening' => listening
  BY CauseSteps
<1>3. ASSUME UNCHANGED cause
      PROVE  \A c \in Conns, peer \in BOOLEAN : SaysOf(c, peer) => SaysOf(c, peer)'
  BY <1>2, <1>3 DEF SaysOf
<1>4. CASE /\ UNCHANGED <<cause, closes>> /\ DrainsKeepFlag
           /\ \A c \in Conns : drv[c] = "closed" => drv'[c] = "closed"
  <2>1. \A i \in DOMAIN closes' : SaysOf(closes[i].conn, closes[i].peer)'
    BY <1>1, <1>3, <1>4 DEF CauseInv
  <2>2. ASSUME NEW c \in draining' PROVE SaysOf(c, job.peer)'
    <3>1. CASE c \in draining /\ job'.peer = job.peer
      BY <1>1, <1>3, <1>4, <3>1 DEF CauseInv
    <3>2. CASE c \in caller.drain /\ job'.peer = caller.job.peer
      <4>1. SaysOf(c, caller.job.peer) /\ c \in Conns
        BY <1>1, <3>2 DEF CauseInv
      <4> QED
        BY <1>2, <1>4, <3>2, <4>1 DEF SaysOf
    <3>3. CASE ~listening' /\ job'.peer = FALSE
      BY <3>3 DEF SaysOf
    <3> QED
      BY <1>4, <2>2, <3>1, <3>2, <3>3 DEF DrainsKeepFlag
  <2>3. ASSUME NEW c \in caller'.drain PROVE SaysOf(c, caller.job.peer)'
    <3>1. CASE c \in caller.drain /\ caller'.job.peer = caller.job.peer
      BY <1>1, <1>3, <1>4, <3>1 DEF CauseInv
    <3>2. CASE c \in draining /\ caller'.job.peer = job.peer
      <4>1. SaysOf(c, job.peer) /\ c \in Conns
        BY <1>1, <3>2 DEF CauseInv
      <4> QED
        BY <1>2, <1>4, <3>2, <4>1 DEF SaysOf
    <3> QED
      BY <1>4, <2>3, <3>1, <3>2 DEF DrainsKeepFlag
  <2>4. \A c \in Conns : cause'[c] # "none" => drv'[c] = "closed"
    BY <1>4 DEF CauseInv
  <2> QED
    BY <1>3, <1>4, <2>1, <2>2, <2>3, <2>4 DEF CauseInv
<1>5. CASE RecvClose /\ UNCHANGED driverVars
  <2>1. /\ UNCHANGED <<cause, drv>> /\ pc = "closes" /\ UNCHANGED caller
        /\ closes # <<>> /\ closes' = Tail(closes)
        /\ \/ UNCHANGED <<draining, job>>
           \/ draining' = {Head(closes).conn} /\ job'.peer = Head(closes).peer
    BY <1>5 DEF RecvClose, driverVars, frameVars
  <2>2. /\ Head(closes) = closes[1] /\ 1 \in DOMAIN closes
        /\ \A i \in DOMAIN Tail(closes) :
             i + 1 \in DOMAIN closes /\ Tail(closes)[i] = closes[i + 1]
    BY <1>1, <2>1, HeadTailProperties
  <2>3. ASSUME NEW i \in DOMAIN closes' PROVE SaysOf(closes[i].conn, closes[i].peer)'
    <3>1. i + 1 \in DOMAIN closes /\ closes'[i] = closes[i + 1]
      BY <2>1, <2>2, <2>3
    <3>2. SaysOf(closes[i + 1].conn, closes[i + 1].peer)
      BY <3>1 DEF CauseInv
    <3> QED
      BY <1>2, <2>1, <3>1, <3>2 DEF SaysOf
  <2>4. \A c \in caller'.drain : SaysOf(c, caller.job.peer)'
    BY <1>2, <2>1 DEF CauseInv, SaysOf
  <2>5. \A c \in draining' : SaysOf(c, job.peer)'
    <3>1. CASE UNCHANGED <<draining, job>>
      BY <1>2, <2>1, <3>1 DEF CauseInv, SaysOf
    <3>2. CASE draining' = {Head(closes).conn} /\ job'.peer = Head(closes).peer
      <4>1. SaysOf(closes[1].conn, closes[1].peer)
        BY <2>2 DEF CauseInv
      <4> QED
        BY <1>2, <2>1, <2>2, <3>2, <4>1 DEF SaysOf
    <3> QED
      BY <2>1, <3>1, <3>2
  <2> QED
    BY <1>3, <2>1, <2>3, <2>4, <2>5 DEF CauseInv
<1>6. ASSUME NEW c \in Conns, OnConnClose(c), UNCHANGED <<draining, job, caller>>
      PROVE  /\ CauseInv'
             /\ \A d \in Conns, peer \in BOOLEAN : SaysOf(d, peer) => SaysOf(d, peer)'
  <2>1. cause[c] = "none"
    BY <1>6 DEF OnConnClose, CauseInv, TypeOK, DriverTypeOK
  <2>2. PICK why \in Causes : /\ cause' = [cause EXCEPT ![c] = why]
                              /\ SendClose([conn |-> c, peer |-> why = "peer"])
    BY <1>6 DEF OnConnClose, PeerInitiated
  <2>3. \A d \in Conns : /\ cause'[d] = IF d = c THEN why ELSE cause[d]
                         /\ drv'[d] = IF d = c THEN "closed" ELSE drv[d]
    BY <1>6, <2>2 DEF OnConnClose, TypeOK, DriverTypeOK
  <2>4. \A d \in Conns, peer \in BOOLEAN : SaysOf(d, peer) => SaysOf(d, peer)'
    BY <1>2, <2>1, <2>3 DEF SaysOf
  <2> DEFINE m == [conn |-> c, peer |-> why = "peer"]
  <2>5. m \in CloseMsg /\ m.conn = c /\ m.peer \in BOOLEAN
    BY DEF CloseMsg
  <2>6. IF m.peer THEN why = "peer" ELSE why \in {"timeout", "local"}
    BY <2>2 DEF Causes
  <2>7. SendClose(m)
    BY <2>2
  <2> HIDE DEF m
  <2>8. \A i \in DOMAIN closes' : (i \in DOMAIN closes /\ closes'[i] = closes[i]) \/ closes'[i] = m
    <3>1. /\ DOMAIN Append(closes, m) = 1 .. Len(closes) + 1
          /\ \A i \in 1 .. Len(closes) : Append(closes, m)[i] = closes[i]
          /\ Append(closes, m)[Len(closes) + 1] = m
      BY <1>1, <2>5, AppendProperties
    <3> QED
      BY <1>1, <2>7, <3>1 DEF SendClose
  <2>9. SaysOf(m.conn, m.peer)'
    BY <2>3, <2>5, <2>6 DEF SaysOf, m
  <2>10. ASSUME NEW i \in DOMAIN closes' PROVE SaysOf(closes[i].conn, closes[i].peer)'
    <3>1. CASE i \in DOMAIN closes /\ closes'[i] = closes[i]
      <4>1. SaysOf(closes[i].conn, closes[i].peer)
        BY <3>1 DEF CauseInv
      <4>2. closes[i].conn \in Conns /\ closes[i].peer \in BOOLEAN
        BY <1>1, <3>1
      <4> QED
        BY <1>2, <2>1, <2>3, <3>1, <4>1, <4>2 DEF SaysOf
    <3>2. CASE closes'[i] = m
      BY <2>9, <3>2 DEF SaysOf, m
    <3> QED
      BY <2>8, <2>10, <3>1, <3>2
  <2>11. /\ \A d \in draining' : SaysOf(d, job.peer)'
         /\ \A d \in caller'.drain : SaysOf(d, caller.job.peer)'
    BY <1>1, <1>2, <1>6, <2>1, <2>3 DEF CauseInv, SaysOf
  <2>12. \A d \in Conns : cause'[d] # "none" => drv'[d] = "closed"
    BY <2>3 DEF CauseInv
  <2> QED
    BY <2>4, <2>10, <2>11, <2>12 DEF CauseInv
<1> QED
  BY <1>3, <1>4, <1>5, <1>6, CauseSteps DEF driverVars

\* What fire_on_close does to the map and to what PHP has been told.
Fires(c, s, peer) ==
  /\ UNCHANGED <<pairs, hooked>>
  /\ \A d \in Conns, q \in Streams :
       /\ slots'[d][q] = IF d = c /\ q = s THEN 0 ELSE slots[d][q]
       /\ \A i \in DOMAIN closeLog[d][q] :
            i \in DOMAIN closeLog'[d][q] /\ closeLog'[d][q][i] = closeLog[d][q][i]
       /\ \A i \in DOMAIN closeLog'[d][q] :
            \/ i \in DOMAIN closeLog[d][q] /\ closeLog'[d][q][i] = closeLog[d][q][i]
            \/ d = c /\ q = s /\ closeLog'[d][q][i].peer = peer
  /\ (slots[c][s] # 0 /\ <<c, s, slots[c][s], "close">> \in hooked) =>
       \E i \in DOMAIN closeLog'[c][s] : closeLog'[c][s][i].pair = slots[c][s]

LEMMA FireEffect ==
  ASSUME TypeOK, NEW c \in Conns, NEW s \in Streams, NEW peer \in BOOLEAN, NEW next,
         FireOnClose(c, s, peer, next)
  PROVE  Fires(c, s, peer)
<1> DEFINE g == slots[c][s]
           m == [pair |-> g, peer |-> peer]
           log == closeLog[c][s]
           called == g # 0 /\ <<c, s, g, "close">> \in hooked
<1>1. /\ slots \in [Conns -> [Streams -> Nat]] /\ g \in Nat
      /\ closeLog \in [Conns -> [Streams -> Seq([pair: Nat, peer: BOOLEAN])]]
  BY DEF TypeOK, PhpStreamsTypeOK, ServerLoopTypeOK
<1>2. /\ UNCHANGED <<pairs, hooked>> /\ slots' = [slots EXCEPT ![c][s] = 0]
      /\ closeLog' = IF called THEN [closeLog EXCEPT ![c][s] = Append(@, m)] ELSE closeLog
  BY DEF FireOnClose, RemoveSlotPair
<1>3. log \in Seq([pair: Nat, peer: BOOLEAN]) /\ m \in [pair: Nat, peer: BOOLEAN]
      /\ m.pair = g /\ m.peer = peer
  BY <1>1
<1>4. \A d \in Conns, q \in Streams :
        /\ slots'[d][q] = IF d = c /\ q = s THEN 0 ELSE slots[d][q]
        /\ closeLog'[d][q] = IF d = c /\ q = s /\ called THEN Append(log, m) ELSE closeLog[d][q]
  BY <1>1, <1>2
<1> HIDE DEF m, log, called
<1>5. /\ DOMAIN log = 1 .. Len(log) /\ Len(log) \in Nat
      /\ DOMAIN Append(log, m) = 1 .. Len(log) + 1
      /\ \A i \in 1 .. Len(log) : Append(log, m)[i] = log[i]
      /\ Append(log, m)[Len(log) + 1] = m
  BY <1>3, AppendProperties
<1>6. ASSUME NEW d \in Conns, NEW q \in Streams
      PROVE  /\ \A i \in DOMAIN closeLog[d][q] :
                  i \in DOMAIN closeLog'[d][q] /\ closeLog'[d][q][i] = closeLog[d][q][i]
             /\ \A i \in DOMAIN closeLog'[d][q] :
                  \/ i \in DOMAIN closeLog[d][q] /\ closeLog'[d][q][i] = closeLog[d][q][i]
                  \/ d = c /\ q = s /\ closeLog'[d][q][i].peer = peer
  <2>1. CASE d = c /\ q = s /\ called
    <3>1. closeLog'[d][q] = Append(log, m) /\ closeLog[d][q] = log
      BY <1>4, <2>1 DEF log
    <3> QED
      BY <1>3, <1>5, <2>1, <3>1
  <2>2. CASE ~(d = c /\ q = s /\ called)
    BY <1>4, <2>2
  <2> QED
    BY <2>1, <2>2
<1>7. called => \E i \in DOMAIN closeLog'[c][s] : closeLog'[c][s][i].pair = g
  <2> SUFFICES ASSUME called PROVE \E i \in DOMAIN closeLog'[c][s] : closeLog'[c][s][i].pair = g
    OBVIOUS
  <2>1. closeLog'[c][s] = Append(log, m)
    BY <1>4
  <2>2. Len(log) + 1 \in DOMAIN Append(log, m) /\ Append(log, m)[Len(log) + 1].pair = g
    BY <1>3, <1>5
  <2> QED
    BY <2>1, <2>2
<1>8. UNCHANGED <<pairs, hooked>>
  BY <1>2
<1>9. \A d \in Conns, q \in Streams : slots'[d][q] = IF d = c /\ q = s THEN 0 ELSE slots[d][q]
  BY <1>4
<1> QED
  BY <1>6, <1>7, <1>8, <1>9 DEF Fires, called

LEMMA StepFlag ==
  ASSUME FlagInv, [Next]_vars
  PROVE  FlagInv'
<1>1. /\ FinInv /\ FinInv' /\ TypeOK /\ CauseInv /\ CauseInv'
      /\ \A c \in Conns, peer \in BOOLEAN : SaysOf(c, peer) => SaysOf(c, peer)'
  BY StepFin, StepCause DEF FlagInv, FinInv, BaseInv
<1>2. \A c \in Conns, s \in Streams : rx[c][s].st = "finRead" => rx'[c][s].st = "finRead"
  <2>1. CASE Calm \/ Accept \/ Receives
    BY <1>1, <2>1, AcceptEffect, ReceiveEffect DEF Calm, Takes
  <2>2. ASSUME NEW c \in Conns, NEW s \in Streams, Drives(c, s) \/ Opens(c, s)
        PROVE  \A d \in Conns, q \in Streams : rx[d][q].st = "finRead" => rx'[d][q].st = "finRead"
    <3>1. CASE KnownStream(c, s) \/ AnnounceStream(c, s)
      BY <1>1, <2>2, <3>1, KnownEffect, AnnounceEffect, OpenEffect
         DEF Drives, TakesUp, Announces
    <3>2. CASE RecvOk(c, s) /\ UNCHANGED <<phpVars, loopVars>>
      <4>1. PICK n \in Nat, fin \in BOOLEAN : Reads(c, s, n, fin)
        BY <1>1, <3>2, RecvOkEffect
      <4> QED
        BY <4>1 DEF Reads
    <3>3. CASE Opens(c, s)
      BY <1>1, <3>3, OpenEffect
    <3> QED
      BY <2>2, <3>1, <3>2, <3>3 DEF Drives
  <2> QED
    BY <1>1, <2>1, <2>2, StepKinds
<1>3. job.peer \in BOOLEAN
      /\ \A c \in Conns, s \in Streams : \A i \in DOMAIN closeLog[c][s] :
           closeLog[c][s][i].peer \in BOOLEAN
  <2>1. job \in Job
        /\ \A c \in Conns, s \in Streams : closeLog[c][s] \in Seq([pair: Nat, peer: BOOLEAN])
    BY <1>1 DEF TypeOK, ServerLoopTypeOK
  <2>2. \A c \in Conns, s \in Streams : \A i \in DOMAIN closeLog[c][s] :
          closeLog[c][s][i] \in [pair: Nat, peer: BOOLEAN]
    <3>1. \A q \in Seq([pair: Nat, peer: BOOLEAN]) : \A i \in DOMAIN q :
            q[i] \in [pair: Nat, peer: BOOLEAN]
      <4> SUFFICES ASSUME NEW q \in Seq([pair: Nat, peer: BOOLEAN]), NEW i \in DOMAIN q
                   PROVE  q[i] \in [pair: Nat, peer: BOOLEAN]
        OBVIOUS
      <4>1. i \in 1 .. Len(q)
        OBVIOUS
      <4> QED
        BY <4>1, ElementOfSeq
    <3> QED
      BY <2>1, <3>1
  <2> QED
    BY <2>1, <2>2 DEF Job
<1>4. \A c \in Conns, s \in Streams, peer \in BOOLEAN : Truth(c, s, peer) => Truth(c, s, peer)'
  BY <1>1, <1>2 DEF Truth
<1> SUFFICES ASSUME NEW c \in Conns, NEW s \in Streams, NEW i \in DOMAIN closeLog'[c][s]
             PROVE  Truth(c, s, closeLog[c][s][i].peer)'
  BY <1>1 DEF FlagInv
<1>5. ASSUME i \in DOMAIN closeLog[c][s], closeLog'[c][s][i] = closeLog[c][s][i]
      PROVE  Truth(c, s, closeLog[c][s][i].peer)'
  <2>1. Truth(c, s, closeLog[c][s][i].peer) /\ closeLog[c][s][i].peer \in BOOLEAN
    BY <1>3, <1>5 DEF FlagInv
  <2> DEFINE p == closeLog[c][s][i].peer
  <2>2. SaysOf(c, p) => SaysOf(c, closeLog[c][s][i].peer)'
    <3>1. p \in BOOLEAN /\ closeLog'[c][s][i].peer = p
      BY <1>5, <2>1
    <3>2. p = TRUE \/ p = FALSE
      BY <3>1
    <3>3. (SaysOf(c, TRUE) => SaysOf(c, TRUE)') /\ (SaysOf(c, FALSE) => SaysOf(c, FALSE)')
      BY <1>1
    <3> HIDE DEF p
    <3> QED
      BY <3>1, <3>2, <3>3 DEF SaysOf
  <2> QED
    BY <1>2, <1>5, <2>1, <2>2 DEF Truth
<1>6. ASSUME NEW d \in Conns, NEW q \in Streams, NEW next \in ResumeStates,
             NEW peer \in BOOLEAN, FireOnClose(d, q, peer, next), Truth(d, q, peer)
      PROVE  Truth(c, s, closeLog[c][s][i].peer)'
  <2>1. \/ i \in DOMAIN closeLog[c][s] /\ closeLog'[c][s][i] = closeLog[c][s][i]
        \/ d = c /\ q = s /\ closeLog'[c][s][i].peer = peer
    <3>1. Fires(d, q, peer)
      BY <1>1, <1>6, FireEffect
    <3> QED
      BY <3>1 DEF Fires
  <2>2. CASE d = c /\ q = s /\ closeLog'[c][s][i].peer = peer
    <3>1. peer = TRUE \/ peer = FALSE
      BY <1>6
    <3>2. Truth(c, s, peer)
      BY <1>6, <2>2
    <3>3. (SaysOf(c, TRUE) => SaysOf(c, TRUE)') /\ (SaysOf(c, FALSE) => SaysOf(c, FALSE)')
      BY <1>1
    <3> QED
      BY <1>2, <2>2, <3>1, <3>2, <3>3 DEF Truth, SaysOf
  <2> QED
    BY <1>5, <2>1, <2>2
<1>7. ASSUME NEW d \in Conns, NEW q \in Streams, <<d, q>> \in finish
      PROVE  Truth(d, q, TRUE)
  BY <1>1, <1>7 DEF FinInv, FinOn, Ended, Truth
<1>8. ASSUME NEW d \in Conns, NEW q \in Streams, d \in draining
      PROVE  Truth(d, q, job.peer)
  BY <1>1, <1>8 DEF CauseInv, Truth
<1>9. CASE UNCHANGED closeLog
  BY <1>5, <1>9
<1> QED
  BY <1>3, <1>6, <1>7, <1>8, <1>9, SlotSteps DEF DispatchNew

\* What on_close says of the close is true.  peerClosed = true is told of a
\* stream whose FIN the driver has read, or whose connection the peer has
\* closed; false, of a connection the peer did not close, or that close() ended:
\* the flag of a drain is that of the signal, also after a close() in between,
\* and a FIN is dispatched as the last of its stream.
THEOREM PeerFlagIsTrue == Spec => []PeerFlagTruthful
<1>1. Init => FlagInv
  <2> SUFFICES ASSUME Init PROVE FlagInv
    OBVIOUS
  <2>1. \A c \in Conns, s \in Streams : DOMAIN closeLog[c][s] = {}
    BY DEF Init, ServerLoopInit
  <2>2. /\ DOMAIN closes = {} /\ draining = {} /\ caller.drain = {}
        /\ \A c \in Conns : cause[c] = "none"
    BY DEF Init, ChannelsInit, DriverInit, ServerLoopInit, NoCaller
  <2> QED
    BY <2>1, <2>2, InitFin DEF FlagInv, CauseInv
<1>2. FlagInv /\ [Next]_vars => FlagInv'
  BY StepFlag
<1>3. FlagInv => PeerFlagTruthful
  BY DEF FlagInv, PeerFlagTruthful, Truth, SaysOf
<1> QED
  BY <1>1, <1>2, <1>3, PTL DEF Spec

-----------------------------------------------------------------------------
(***************************************************************************)
(* Every on_close is called.                                               *)
(***************************************************************************)
Told(c, s, g) == \E i \in DOMAIN closeLog[c][s] : closeLog[c][s][i].pair = g

\* The connections whose slot map the dispatcher or a drain still looks at.
Tracking == connections \cup draining \cup caller.drain

\* A pair with an on_close has been told of its close, or is in the map of a
\* connection whose slots are still to be drained.
WillBeTold(c, s, g) ==
  /\ g \in 1 .. pairs[c][s]
  /\ Told(c, s, g) \/ (g = slots[c][s] /\ c \in Tracking)

ToldInv ==
  /\ OnceInv /\ DrainInv /\ OnceAnnouncedInv
  /\ \A c \in Conns, s \in Streams, g \in Nat :
       <<c, s, g, "close">> \in hooked \ late => WillBeTold(c, s, g)

\* A slot is filled by the $on_stream callback, or later by the script, in time
\* while its pair is in a map that is looked at.
LEMMA HookSteps ==
  ASSUME [Next]_vars
  PROVE  \/ UNCHANGED <<hooked, late>>
         \/ DispatchNew /\ UNCHANGED late
         \/ \E c \in Conns, s \in Streams : \E g \in 1 .. pairs[c][s], h \in Hooks :
              /\ hooked' = hooked \cup {<<c, s, g, h>>}
              /\ late' = IF InTime(c, s, g) THEN late ELSE late \cup {<<c, s, g, h>>}
<1> USE DEF frameVars, historyVars
<1>1. CASE UNCHANGED vars \/ UNCHANGED <<phpVars, loopVars>>
  BY <1>1 DEF vars, phpVars, loopVars
<1>2. CASE Accept
  BY <1>2 DEF Accept, AcceptConn, RecvIncoming, phpVars
<1>3. ASSUME LoopStep, ~DispatchNew PROVE UNCHANGED <<hooked, late>>
  <2>1. CASE Tick \/ EventsPending \/ ClosesPending \/ ListenerPending
             \/ TimerPending \/ Wake
    BY <2>1 DEF Tick, EventsPending, ClosesPending, ListenerPending, TimerPending, Wake,
                Goto, phpVars
  <2>2. CASE TimerFires \/ TimerStale \/ RecvClose \/ AcceptError \/ CallbackReturns
    BY <2>2 DEF TimerFires, TimerStale, RecvClose, AcceptError, RecvIncoming,
                CallbackReturns, phpVars
  <2>3. CASE DropLateEvent \/ DispatchData
    BY <2>3 DEF DropLateEvent, DispatchData
  <2>4. ASSUME NEW c \in Conns, DrainDone(c) PROVE UNCHANGED <<hooked, late>>
    BY <2>4 DEF DrainDone
  <2>5. ASSUME NEW c \in Conns, NEW s \in Streams,
               FinishStream(c, s) \/ FinishStale(c, s) \/ DrainSlot(c, s)
        PROVE  UNCHANGED <<hooked, late>>
    BY <2>5 DEF FinishStream, FinishStale, DrainSlot, FireOnClose, phpVars
  <2> QED
    BY <1>3, <2>1, <2>2, <2>3, <2>4, <2>5 DEF LoopStep
<1>4. DispatchNew => UNCHANGED late
  BY DEF DispatchNew
<1>5. CASE ScriptStep
  <2>1. CASE Close \/ Signal \/ PhpReenters
    BY <2>1 DEF Close, Signal, PhpReenters, phpVars
  <2>2. ASSUME NEW c \in Conns, NEW s \in Streams, PhpOpen(c, s)
        PROVE  UNCHANGED <<hooked, late>>
    BY <2>2 DEF PhpOpen, OpenStream, loopVars
  <2>3. ASSUME NEW c \in Conns, NEW s \in Streams, NEW g \in 1 .. pairs[c][s],
               NEW h \in Hooks, PhpHook(c, s, g, h)
        PROVE  /\ hooked' = hooked \cup {<<c, s, g, h>>}
               /\ late' = IF InTime(c, s, g) THEN late ELSE late \cup {<<c, s, g, h>>}
    BY <2>3 DEF PhpHook, InstallSlot
  <2> QED
    BY <1>5, <2>1, <2>2, <2>3 DEF ScriptStep
<1> QED
  BY <1>1, <1>2, <1>3, <1>4, <1>5 DEF Next

\* A connection is kept until its map has been drained, also when a callable of
\* the drain calls close().
LEMMA TrackSteps ==
  ASSUME DrainInv, [Next]_vars
  PROVE  \A c \in Tracking : c \in Tracking' \/ \A s \in Streams : slots[c][s] = 0
<1> DEFINE Kept == Tracking \subseteq Tracking'
           Same == UNCHANGED <<connections, draining, caller>>
<1> USE DEF frameVars
<1>0. Same => Kept
  BY DEF Tracking
<1>1. CASE UNCHANGED vars \/ UNCHANGED <<phpVars, loopVars>>
  <2>1. Same
    BY <1>1 DEF vars, loopVars
  <2> QED
    BY <1>0, <2>1
<1>2. CASE Accept
  BY <1>2 DEF Accept, AcceptConn, InsertConn, RecvIncoming, Tracking
<1>3. ASSUME LoopStep, \A c \in Conns : ~DrainDone(c) PROVE Kept
  <2>1. CASE Tick \/ EventsPending \/ ClosesPending \/ ListenerPending
             \/ TimerPending \/ Wake
    <3>1. Same
      BY <2>1 DEF Tick, EventsPending, ClosesPending, ListenerPending, TimerPending, Wake, Goto
    <3> QED
      BY <1>0, <3>1
  <2>2. CASE TimerFires \/ TimerStale \/ AcceptError \/ CallbackReturns
    <3>1. Same
      BY <2>2 DEF TimerFires, TimerStale, AcceptError, RecvIncoming, CallbackReturns
    <3> QED
      BY <1>0, <3>1
  <2>3. CASE DropLateEvent \/ DispatchNew \/ DispatchData
    <3>1. Same
      BY <2>3 DEF DropLateEvent, DispatchNew, DispatchData, RecvEvent
    <3> QED
      BY <1>0, <3>1
  <2>4. CASE RecvClose
    <3>1. draining = {} /\ UNCHANGED caller
      BY <2>4, NoDrain DEF RecvClose
    <3>2. \/ UNCHANGED <<connections, draining>>
          \/ connections' = connections \ {Head(closes).conn} /\ draining' = {Head(closes).conn}
      BY <2>4 DEF RecvClose
    <3> QED
      BY <3>1, <3>2 DEF Tracking
  <2>5. ASSUME NEW c \in Conns, NEW s \in Streams,
               FinishStream(c, s) \/ FinishStale(c, s) \/ DrainSlot(c, s)
        PROVE  Kept
    <3>1. Same
      BY <2>5 DEF FinishStream, FinishStale, DrainSlot
    <3> QED
      BY <1>0, <3>1
  <2> QED
    BY <1>3, <2>1, <2>2, <2>3, <2>4, <2>5 DEF LoopStep
<1>4. ASSUME NEW c \in Conns, DrainDone(c)
      PROVE  \A d \in Tracking : d \in Tracking' \/ \A s \in Streams : slots[d][s] = 0
  BY <1>4 DEF DrainDone, DrainReturns, Tracking
<1>5. ASSUME ScriptStep PROVE Kept
  <2>1. CASE Close
    <3>1. CASE connections # {} /\ DrainConnections
      <4>1. caller.drain = {} /\ draining' = connections
        BY <3>1 DEF DrainInv, NoCaller, DrainConnections
      <4>2. CASE pc = "callback"
        BY <3>1, <4>1, <4>2 DEF DrainConnections, Tracking
      <4>3. CASE pc = "php"
        BY <4>1, <4>3, NoDrain DEF Tracking
      <4> QED
        BY <2>1, <4>2, <4>3 DEF Close, PhpRuns
    <3>2. CASE connections = {} /\ UNCHANGED <<draining, caller>>
      BY <3>2 DEF Tracking
    <3> QED
      BY <2>1, <3>1, <3>2 DEF Close
  <2>2. CASE Signal \/ PhpReenters
    <3>1. Same
      BY <2>2 DEF Signal, PhpReenters
    <3> QED
      BY <1>0, <3>1
  <2>3. ASSUME NEW c \in Conns, NEW s \in Streams, PhpOpen(c, s) PROVE Kept
    <3>1. Same
      BY <2>3 DEF PhpOpen, loopVars
    <3> QED
      BY <1>0, <3>1
  <2>4. ASSUME NEW c \in Conns, NEW s \in Streams, NEW g \in 1 .. pairs[c][s],
               NEW h \in Hooks, PhpHook(c, s, g, h)
        PROVE  Kept
    <3>1. Same
      BY <2>4 DEF PhpHook
    <3> QED
      BY <1>0, <3>1
  <2> QED
    BY <1>5, <2>1, <2>2, <2>3, <2>4 DEF ScriptStep
<1> QED
  BY <1>1, <1>2, <1>3, <1>4, <1>5 DEF Next

\* The script opens streams under ids of the server's own, and each id once.
OpensOnce == MaxPairs <= 1 /\ \A s \in OpenIds : ~ClientInitiated(s)

\* A pair that is open stays so, or was told when it left the map.
LEMMA KeepsTold ==
  ASSUME TypeOK, DrainInv, [Next]_vars,
         NEW c \in Conns, NEW s \in Streams, NEW g \in Nat, WillBeTold(c, s, g),
         pairs'[c][s] >= pairs[c][s], pairs'[c][s] \in Nat,
         Told(c, s, g) => Told(c, s, g)',
         g = slots[c][s] => g = slots'[c][s] \/ Told(c, s, g)'
  PROVE  WillBeTold(c, s, g)'
<1>1. pairs[c][s] \in Nat
  BY DEF TypeOK, PhpStreamsTypeOK
<1>2. g \in 1 .. pairs'[c][s] /\ g # 0
  BY <1>1 DEF WillBeTold
<1>3. CASE Told(c, s, g)
  BY <1>2, <1>3 DEF WillBeTold
<1>4. CASE g = slots[c][s] /\ c \in Tracking
  <2>1. c \in Tracking'
    BY <1>2, <1>4, TrackSteps
  <2> QED
    BY <1>2, <1>4, <2>1 DEF WillBeTold
<1> QED
  BY <1>3, <1>4 DEF WillBeTold

LEMMA StepTold ==
  ASSUME OpensOnce, ToldInv, [Next]_vars
  PROVE  ToldInv'
<1>1. /\ OnceInv /\ OnceInv' /\ DrainInv /\ DrainInv' /\ OnceAnnouncedInv /\ OnceAnnouncedInv'
  BY StepOnce, StepDrain, StepOnceAnnounced DEF ToldInv, OpensOnce
<1>2. /\ TypeOK /\ TypeOK' /\ ToldPairsAreGone
      /\ slots \in [Conns -> [Streams -> Nat]] /\ pairs \in [Conns -> [Streams -> Nat]]
      /\ pairs' \in [Conns -> [Streams -> Nat]] /\ hooked \in SUBSET Slot
  BY <1>1 DEF OnceInv, TypeOK, PhpStreamsTypeOK
<1> SUFFICES ASSUME NEW c \in Conns, NEW s \in Streams, NEW g \in Nat,
                    <<c, s, g, "close">> \in hooked' \ late'
             PROVE  WillBeTold(c, s, g)'
  BY <1>1 DEF ToldInv
<1>0. /\ late \subseteq late' /\ <<c, s, g, "close">> \notin late
      /\ ~DispatchNew => \/ UNCHANGED hooked
                         \/ <<c, s, g, "close">> \in hooked
                         \/ c \in Tracking /\ g = slots[c][s] /\ g \in 1 .. pairs[c][s]
  <2>1. ASSUME NEW d \in Conns, NEW q \in Streams, NEW k \in 1 .. pairs[d][q], NEW h \in Hooks,
               hooked' = hooked \cup {<<d, q, k, h>>},
               late' = IF InTime(d, q, k) THEN late ELSE late \cup {<<d, q, k, h>>}
        PROVE  /\ late \subseteq late'
               /\ \/ <<c, s, g, "close">> \in hooked
                  \/ c \in Tracking /\ g = slots[c][s] /\ g \in 1 .. pairs[c][s]
    <3>1. CASE <<c, s, g, "close">> = <<d, q, k, h>>
      <4>1. InTime(d, q, k)
        BY <2>1, <3>1
      <4> QED
        BY <2>1, <3>1, <4>1 DEF InTime, Tracking
    <3>2. CASE <<c, s, g, "close">> # <<d, q, k, h>>
      BY <2>1, <3>2
    <3> QED
      BY <3>1, <3>2
  <2>2. late \subseteq late'
    BY <2>1, HookSteps
  <2> QED
    BY <2>1, <2>2, HookSteps
<1>3. pairs[c][s] \in Nat /\ pairs'[c][s] \in Nat /\ slots[c][s] \in Nat
      /\ slots[c][s] <= pairs[c][s]
  BY <1>2 DEF ToldPairsAreGone
<1>4. <<c, s, g, "close">> \in hooked => WillBeTold(c, s, g)
  BY <1>0 DEF ToldInv
<1>5. WillBeTold(c, s, g) => pairs[c][s] # 0
  BY <1>3 DEF WillBeTold
<1>6. CASE DispatchNew
  <2> DEFINE d == events[1].conn
             q == events[1].stream
  <2>1. /\ Head(events) = events[1] /\ 1 \in DOMAIN events
        /\ d \in Conns /\ q \in Streams
    <3>1. events \in Seq(Event) /\ events # <<>>
      BY <1>2, <1>6 DEF TypeOK, ChannelsTypeOK, DispatchNew, RecvEvent
    <3>2. Head(events) = events[1] /\ 1 \in DOMAIN events
      BY <3>1
    <3> QED
      BY <1>2, <3>2, ChannelTypes
  <2>2. /\ d \in connections /\ d \in connections' /\ events[1].kind \in NewKinds
        /\ InsertSlotPair(d, q) /\ UNCHANGED closeLog
        /\ \E H \in AnnounceHooks :
             hooked' = hooked \cup {<<d, q, pairs[d][q] + 1, h>> : h \in H}
    BY <1>6, <2>1 DEF DispatchNew, RecvEvent, Tracked
  <2>7. c = d => c \in Tracking'
    BY <2>2 DEF Tracking
  <2> HIDE DEF d, q
  <2>3. pairs[d][q] = 0
    <3>1. NewOn(1, d, q) /\ OnceOn(d, q)
      BY <1>1, <2>1, <2>2 DEF NewOn, OnStream, OnceAnnouncedInv, d, q
    <3> QED
      BY <2>1, <3>1 DEF OnceOn
  <2>4. /\ pairs'[c][s] = IF c = d /\ s = q THEN 1 ELSE pairs[c][s]
        /\ slots'[c][s] = IF c = d /\ s = q THEN 1 ELSE slots[c][s]
    BY <1>2, <2>1, <2>2, <2>3, InsertEffect
  <2>5. CASE c = d /\ s = q
    <3>1. <<c, s, g, "close">> \notin hooked
      BY <1>4, <1>5, <2>3, <2>5
    <3>2. g = 1
      BY <2>2, <2>3, <3>1
    <3> QED
      BY <2>4, <2>5, <2>7, <3>2 DEF WillBeTold
  <2>6. CASE ~(c = d /\ s = q)
    <3>1. <<c, s, g, "close">> \in hooked
      BY <2>2, <2>6
    <3>2. Told(c, s, g) => Told(c, s, g)'
      BY <2>2 DEF Told
    <3>3. pairs'[c][s] = pairs[c][s] /\ slots'[c][s] = slots[c][s]
      BY <2>4, <2>6
    <3>4. pairs'[c][s] >= pairs[c][s] /\ pairs'[c][s] \in Nat
      BY <1>3, <3>3
    <3> QED
      BY <1>1, <1>2, <1>4, <3>1, <3>2, <3>3, <3>4, KeepsTold
  <2> QED
    BY <2>5, <2>6
<1>7. CASE UNCHANGED <<slots, pairs, closeLog>>
  <2>1. Told(c, s, g) => Told(c, s, g)'
    BY <1>7 DEF Told
  <2>2. CASE <<c, s, g, "close">> \in hooked
    BY <1>1, <1>2, <1>3, <1>4, <1>7, <2>1, <2>2, KeepsTold
  <2>3. CASE <<c, s, g, "close">> \notin hooked /\ ~DispatchNew
    <3>1. c \in Tracking /\ g = slots[c][s] /\ g # 0
      BY <1>0, <2>3
    <3> QED
      BY <1>1, <1>2, <1>3, <1>7, <2>1, <3>1, KeepsTold DEF WillBeTold
  <2> QED
    BY <1>6, <2>2, <2>3
<1>8. ASSUME NEW d \in Conns, NEW q \in Streams, InsertSlotPair(d, q),
             pairs[d][q] < MaxPairs, UNCHANGED <<closeLog, hooked>>
      PROVE  WillBeTold(c, s, g)'
  <2>1. /\ pairs[d][q] = 0
        /\ pairs'[c][s] = IF c = d /\ s = q THEN pairs[c][s] + 1 ELSE pairs[c][s]
        /\ c # d \/ s # q => slots'[c][s] = slots[c][s]
    <3>1. pairs[d][q] \in Nat
      BY <1>2
    <3>2. pairs[d][q] = 0
      BY <1>8, <3>1, PhpStreamsAssumption DEF OpensOnce
    <3> QED
      BY <1>2, <1>8, <3>2, InsertEffect
  <2>2. WillBeTold(c, s, g)
    BY <1>4, <1>8
  <2>3. Told(c, s, g) => Told(c, s, g)'
    BY <1>8 DEF Told
  <2> QED
    BY <1>1, <1>2, <1>3, <1>5, <2>1, <2>2, <2>3, KeepsTold
<1>9. ASSUME NEW d \in Conns, NEW q \in Streams, NEW next, NEW peer \in BOOLEAN,
             FireOnClose(d, q, peer, next)
      PROVE  WillBeTold(c, s, g)'
  <2>1. Fires(d, q, peer)
    BY <1>2, <1>9, FireEffect
  <2>2. Told(c, s, g) => Told(c, s, g)'
    BY <2>1 DEF Fires, Told
  <2>3. UNCHANGED <<pairs, hooked>> /\ (c # d \/ s # q => slots'[c][s] = slots[c][s])
    BY <2>1 DEF Fires
  <2>4. WillBeTold(c, s, g)
    BY <1>4, <2>3
  <2>5. (c = d /\ s = q /\ g = slots[c][s]) => Told(c, s, g)'
    <3> SUFFICES ASSUME c = d, s = q, g = slots[c][s] PROVE Told(c, s, g)'
      OBVIOUS
    <3>1. g # 0 /\ <<c, s, slots[c][s], "close">> \in hooked
      BY <2>3, <2>4 DEF WillBeTold
    <3> QED
      BY <2>1, <3>1 DEF Fires, Told
  <2> QED
    BY <1>1, <1>2, <1>3, <2>2, <2>3, <2>4, <2>5, KeepsTold
<1>10. job.peer \in BOOLEAN
  BY <1>2 DEF TypeOK, ServerLoopTypeOK, Job
<1> QED
  BY <1>6, <1>7, <1>8, <1>9, <1>10, SlotSteps

\* No stream that waits for its close is left behind by the race of its FIN,
\* the close signal of its connection and close(): when the connection is gone
\* every on_close PHP registered while somebody looked at the stream's pair has
\* been called.  The script must not open an id a second time, or one of the
\* peer's: conn.rs replaces the slots of the stream that has it.
THEOREM EveryCloseIsTold ==
  ASSUME OpensOnce
  PROVE  Spec => []ToldOfClose
<1>1. Init => ToldInv
  <2> SUFFICES ASSUME Init PROVE ToldInv
    OBVIOUS
  <2>1. hooked = {}
    BY DEF Init, PhpStreamsInit
  <2> QED
    BY <2>1, InitOnce, InitDrain, InitOnceAnnounced DEF ToldInv
<1>2. ToldInv /\ [Next]_vars => ToldInv'
  BY StepTold
<1>3. ToldInv => ToldOfClose
  <2> SUFFICES ASSUME ToldInv, NEW c \in Conns \ (connections \cup draining \cup caller.drain),
                      NEW s \in Streams, NEW g \in 1 .. pairs[c][s],
                      <<c, s, g, "close">> \in hooked \ late
               PROVE  \E i \in DOMAIN closeLog[c][s] : closeLog[c][s][i].pair = g
    BY DEF ToldOfClose
  <2>1. g \in Nat
    BY DEF ToldInv, OnceInv, TypeOK, PhpStreamsTypeOK
  <2> QED
    BY <2>1 DEF ToldInv, WillBeTold, Told, Tracking
<1> QED
  BY <1>1, <1>2, <1>3, PTL DEF Spec

-----------------------------------------------------------------------------
(***************************************************************************)
(* The server implements StreamContract.                                   *)
(***************************************************************************)
\* Data comes on a stream the server has opened itself only once there is a
\* pair for it: the peer learns of the stream by what PHP writes on it.
OwnOn(c, s) ==
  (~ClientInitiated(s) /\ (s \in readable[c] \cup cur[c] \/ DataAt(c, s) # {})) =>
    pairs[c][s] > 0

GiveInv ==
  /\ OrderInv /\ AnnounceInv /\ FinInv
  /\ \A c \in Conns, s \in Streams : OwnOn(c, s)

LEMMA StepGive ==
  ASSUME NumberUnits, GiveInv, [Next]_vars
  PROVE  GiveInv'
<1>1. /\ OrderInv' /\ AnnounceInv' /\ FinInv' /\ TypeOK
  BY StepOrder, StepAnnounce, StepFin DEF GiveInv, FinInv, BaseInv
<1> SUFFICES ASSUME NEW c \in Conns, NEW s \in Streams
             PROVE  OwnOn(c, s)'
  BY <1>1 DEF GiveInv
<1>2. OwnOn(c, s) /\ pairs[c][s] \in Nat
  BY <1>1 DEF GiveInv, TypeOK, PhpStreamsTypeOK
<1>3. UNCHANGED events => UNCHANGED DataAt(c, s)
  BY DEF DataAt, DataOn, OnStream
<1>4. CASE Calm
  BY <1>2, <1>3, <1>4 DEF Calm, OwnOn, PeerMaySend
<1>5. CASE Accept
  BY <1>1, <1>2, <1>3, <1>5, AcceptEffect DEF OwnOn
<1>6. ASSUME NEW d \in Conns, NEW q \in Streams, KnownStream(d, q),
             UNCHANGED <<phpVars, loopVars>>
      PROVE  OwnOn(c, s)'
  BY <1>1, <1>2, <1>3, <1>6, KnownEffect DEF TakesUp, OwnOn
<1>7. ASSUME NEW d \in Conns, NEW q \in Streams, AnnounceStream(d, q),
             UNCHANGED <<phpVars, loopVars>>
      PROVE  OwnOn(c, s)'
  <2>1. /\ Pushes(NewEvent(d, q)) /\ UNCHANGED pairs /\ ClientInitiated(q)
        /\ cur'[c] \subseteq cur[c] \cup {q} /\ readable'[c] \subseteq readable[c]
    BY <1>1, <1>7, AnnounceEffect DEF Announces
  <2>2. NewEvent(d, q) \in Event /\ NewEvent(d, q).kind # "Data"
    BY DEF NewEvent, Event, NewKinds
  <2>3. UNCHANGED DataAt(c, s)
    BY <1>1, <2>1, <2>2, PushData
  <2> QED
    BY <1>2, <2>1, <2>3 DEF OwnOn
<1>8. ASSUME NEW d \in Conns, NEW q \in Streams, RecvOk(d, q),
             UNCHANGED <<phpVars, loopVars>>
      PROVE  OwnOn(c, s)'
  <2>1. PICK n \in Nat, fin \in BOOLEAN : Reads(d, q, n, fin)
    BY <1>1, <1>8, RecvOkEffect
  <2> DEFINE e == DataEvent(d, q, rx[d][q].off, n, fin)
  <2>2. /\ Pushes(e) /\ UNCHANGED pairs /\ cur'[c] = cur[c] /\ q \in cur[d]
        /\ s \in readable'[c] => s \in readable[c] \/ (c = d /\ s = q)
    BY <2>1 DEF Reads
  <2>3. e \in Event /\ e.kind = "Data" /\ e.conn = d /\ e.stream = q
    BY <2>2 DEF Pushes, DataEvent
  <2> HIDE DEF e
  <2>4. DataAt(c, s)' = DataAt(c, s) \/ (c = d /\ s = q)
    BY <1>1, <2>2, <2>3, PushData
  <2> QED
    BY <1>2, <2>2, <2>4 DEF OwnOn
<1>9. CASE Receives
  <2>1. Takes(events[1]) /\ UNCHANGED <<cur, readable>>
    BY <1>1, <1>9, ReceiveEffect DEF Takes
  <2>2. /\ DataAt(c, s)' # {} => DataAt(c, s) # {}
        /\ events[1].conn \in Conns /\ events[1].stream \in Streams
    BY <1>1, <2>1, TakeData
  <2>3. pairs[c][s] > 0 => pairs'[c][s] > 0
    <3>1. CASE UNCHANGED pairs
      BY <3>1
    <3>2. CASE InsertSlotPair(events[1].conn, events[1].stream)
      BY <1>1, <1>2, <2>2, <3>2, InsertEffect
    <3> QED
      BY <2>1, <3>1, <3>2 DEF Takes
  <2> QED
    BY <1>2, <2>1, <2>2, <2>3 DEF OwnOn
<1>10. ASSUME NEW d \in Conns, NEW q \in Streams, Opens(d, q)
       PROVE  OwnOn(c, s)'
  <2>1. UNCHANGED <<events, cur, readable>> /\ InsertSlotPair(d, q)
    BY <1>1, <1>10, OpenEffect
  <2>2. pairs[c][s] > 0 => pairs'[c][s] > 0
    BY <1>1, <1>2, <2>1, InsertEffect
  <2> QED
    BY <1>2, <1>3, <2>1, <2>2 DEF OwnOn
<1> QED
  BY <1>1, <1>4, <1>5, <1>6, <1>7, <1>8, <1>9, <1>10, StepKinds DEF Drives

\* The chunk at the head of the channel goes to a stream with a pair in the map
\* and starts where the data PHP has been given ends.
LEMMA HeadHasPair ==
  ASSUME GiveInv, NEW c \in connections, NEW s \in Streams, 1 \in DataAt(c, s)
  PROVE  slots[c][s] # 0 /\ events[1].off = dispatched[c][s]
<1>1. c \in Conns /\ TypeOK /\ BaseInv
  BY DEF GiveInv, OrderInv, BaseInv, TypeOK, ServerLoopTypeOK
<1>2. \A i \in DOMAIN events : i \in Nat /\ 1 <= i
  BY <1>1, ChannelTypes
<1>3. pairs[c][s] > 0
  <2>1. CASE ClientInitiated(s)
    <3>1. DataOn(1, c, s) /\ 1 \in DOMAIN events
      BY DEF DataAt
    <3>2. pairs[c][s] > 0 \/ \E j \in DOMAIN events : j < 1 /\ NewOn(j, c, s)
      BY <2>1, <3>1 DEF GiveInv, AnnounceInv
    <3> QED
      BY <1>2, <3>2
  <2>2. CASE ~ClientInitiated(s)
    BY <1>1, <2>2 DEF GiveInv, OwnOn
  <2> QED
    BY <2>1, <2>2
<1>4. slots[c][s] # 0
  <2>1. FinOn(c, s) /\ DataAt(c, s) # {}
    BY <1>1 DEF GiveInv, FinInv
  <2> QED
    BY <1>3, <2>1 DEF FinOn, Ended
<1>5. Links(DataAt(c, s), events, dispatched[c][s], rx[c][s].off)
  BY <1>1 DEF GiveInv, OrderInv, Chain
<1>6. \A l \in DataAt(c, s) : 1 <= l
  BY <1>2 DEF DataAt
<1> QED
  BY <1>4, <1>5, <1>6 DEF Links

\* A change of one stream, seen through the refinement mapping.
Put(F, x, v) == [F EXCEPT ![x] = v]

LEMMA PerStreamUpdate ==
  ASSUME NEW f, NEW g, NEW c \in Conns, NEW s \in Streams, NEW v,
         \A d \in Conns, q \in Streams : g[d][q] = IF d = c /\ q = s THEN v ELSE f[d][q]
  PROVE  PerStream(g) = Put(PerStream(f), <<c, s>>, v)
<1>1. \A x \in Conns \X Streams :
        /\ x[1] \in Conns /\ x[2] \in Streams
        /\ x = <<c, s>> <=> x[1] = c /\ x[2] = s
  OBVIOUS
<1>2. \A x \in Conns \X Streams :
        g[x[1]][x[2]] = IF x = <<c, s>> THEN v ELSE f[x[1]][x[2]]
  BY <1>1
<1> QED
  BY <1>2 DEF PerStream, Put

LEMMA PerStreamAt ==
  ASSUME NEW f, NEW c \in Conns, NEW s \in Streams
  PROVE  PerStream(f)[<<c, s>>] = f[c][s]
BY DEF PerStream

\* The value of the mapping in the next state is the mapping of the next value.
LEMMA PerStreamNext ==
  /\ PerStream(slots)' = PerStream(slots') /\ PerStream(pairs)' = PerStream(pairs')
  /\ PerStream(dispatched)' = PerStream(dispatched')
  /\ PerStream(closeLog)' = PerStream(closeLog')
BY DEF PerStream

\* A new pair, by the peer's announcement or by PHP, is an Open.
LEMMA OpenImplements ==
  ASSUME TypeOK, NEW c \in Conns, NEW s \in Streams,
         InsertSlotPair(c, s), UNCHANGED <<dispatched, closeLog>>
  PROVE  Contract!Open(<<c, s>>)
<1> DEFINE g == pairs[c][s] + 1
           x == <<c, s>>
<1>1. \A d \in Conns, q \in Streams :
        /\ pairs'[d][q] = IF d = c /\ q = s THEN g ELSE pairs[d][q]
        /\ slots'[d][q] = IF d = c /\ q = s THEN g ELSE slots[d][q]
  BY InsertEffect
<1> HIDE DEF g
<1>2. PerStream(pairs') = Put(PerStream(pairs), x, g)
  BY <1>1, PerStreamUpdate
<1>3. PerStream(slots') = Put(PerStream(slots), x, g)
  BY <1>1, PerStreamUpdate
<1>4. PerStream(pairs)[x] + 1 = g /\ PerStream(pairs')[x] = g
  BY <1>1, PerStreamAt DEF g
<1> QED
  BY <1>2, <1>3, <1>4, PerStreamNext DEF Contract!Open, Put

\* A chunk that reaches the dispatcher is a Give.
LEMMA GiveImplements ==
  ASSUME GiveInv, DispatchData
  PROVE  \E x \in Conns \X Streams : Contract!Give(x)
<1> DEFINE c == events[1].conn
           s == events[1].stream
           v == events[1].off + events[1].n
           x == <<c, s>>
<1>1. TypeOK
  BY DEF GiveInv, OrderInv, BaseInv
<1>2. /\ events # <<>> /\ Head(events) = events[1] /\ 1 \in DOMAIN events
      /\ UNCHANGED <<slots, pairs, closeLog>> /\ c \in connections
      /\ events[1].kind = "Data" /\ dispatched' = [dispatched EXCEPT ![c][s] = v]
  <2>1. events \in Seq(Event) /\ events # <<>>
    BY <1>1 DEF TypeOK, ChannelsTypeOK, DispatchData, RecvEvent
  <2>2. Head(events) = events[1] /\ 1 \in DOMAIN events
    BY <2>1, HeadTailProperties
  <2> QED
    BY <2>1, <2>2 DEF DispatchData, RecvEvent, Tracked
<1>3. c \in Conns /\ s \in Streams /\ events[1].off \in Nat /\ events[1].n \in Nat
  BY <1>1, <1>2, ChannelTypes
<1>4. slots[c][s] # 0 /\ events[1].off = dispatched[c][s]
  <2>1. 1 \in DataAt(c, s)
    BY <1>2 DEF DataAt, DataOn, OnStream
  <2> QED
    BY <1>2, <1>3, <2>1, HeadHasPair
<1>5. dispatched \in [Conns -> [Streams -> Nat]]
  BY <1>1 DEF TypeOK, ServerLoopTypeOK
<1>6. v \in Nat /\ v >= dispatched[c][s]
  BY <1>3, <1>4
<1> HIDE DEF v
<1>7. \A d \in Conns, q \in Streams :
        dispatched'[d][q] = IF d = c /\ q = s THEN v ELSE dispatched[d][q]
  BY <1>2, <1>3, <1>5
<1> HIDE DEF c, s
<1>8. PerStream(dispatched') = Put(PerStream(dispatched), x, v)
  BY <1>3, <1>7, PerStreamUpdate
<1>9. /\ PerStream(slots)[x] # 0 /\ PerStream(dispatched)[x] = dispatched[c][s]
      /\ PerStream(dispatched')[x] = v
  BY <1>3, <1>4, <1>7, PerStreamAt
<1>10. UNCHANGED <<PerStream(slots), PerStream(pairs), PerStream(closeLog)>>
  BY <1>2, PerStreamNext
<1>11. x \in Conns \X Streams
  BY <1>3
<1>12. PerStream(dispatched)' = PerStream(dispatched')
  BY PerStreamNext
<1> HIDE DEF x
<1>13. Contract!Give(x)
  BY <1>6, <1>8, <1>9, <1>10, <1>12 DEF Contract!Give, Put
<1> QED
  BY <1>11, <1>13

\* fire_on_close ends the pair the map holds, or finds none and does nothing.
LEMMA EndImplements ==
  ASSUME TypeOK, NEW c \in Conns, NEW s \in Streams, NEW peer \in BOOLEAN, NEW next,
         FireOnClose(c, s, peer, next), UNCHANGED dispatched
  PROVE  Contract!End(<<c, s>>) \/ UNCHANGED <<slots, pairs, dispatched, closeLog>>
<1> DEFINE g == slots[c][s]
           m == [pair |-> g, peer |-> peer]
           x == <<c, s>>
           called == g # 0 /\ <<c, s, g, "close">> \in hooked
<1>1. /\ slots \in [Conns -> [Streams -> Nat]]
      /\ closeLog \in [Conns -> [Streams -> Seq([pair: Nat, peer: BOOLEAN])]]
  BY DEF TypeOK, PhpStreamsTypeOK, ServerLoopTypeOK
<1>2. /\ UNCHANGED pairs /\ slots' = [slots EXCEPT ![c][s] = 0]
      /\ closeLog' = IF called THEN [closeLog EXCEPT ![c][s] = Append(@, m)] ELSE closeLog
  BY DEF FireOnClose, RemoveSlotPair
<1>3. CASE g = 0
  <2>1. \A d \in Conns, q \in Streams : slots'[d][q] = slots[d][q]
    BY <1>1, <1>2, <1>3
  <2>2. slots' = slots
    BY <1>1, <1>2, <2>1
  <2> QED
    BY <1>2, <1>3, <2>2
<1>4. CASE g # 0
  <2> DEFINE log == Append(closeLog[c][s], m)
  <2>1. \A d \in Conns, q \in Streams :
          slots'[d][q] = IF d = c /\ q = s THEN 0 ELSE slots[d][q]
    BY <1>1, <1>2
  <2>2. called => \A d \in Conns, q \in Streams :
          closeLog'[d][q] = IF d = c /\ q = s THEN log ELSE closeLog[d][q]
    BY <1>1, <1>2
  <2>3. ~called => UNCHANGED closeLog
    BY <1>2
  <2> HIDE DEF m, called
  <2>4. PerStream(slots') = Put(PerStream(slots), x, 0)
    BY <2>1, PerStreamUpdate
  <2>5. called => PerStream(closeLog') = Put(PerStream(closeLog), x, log)
    <3> HIDE DEF log
    <3> QED
      BY <2>2, PerStreamUpdate
  <2>6. PerStream(slots)[x] = g /\ PerStream(closeLog)[x] = closeLog[c][s]
    BY PerStreamAt
  <2>7. UNCHANGED <<PerStream(pairs), PerStream(dispatched)>>
    BY <1>2, PerStreamNext
  <2>8. \/ UNCHANGED PerStream(closeLog)
        \/ PerStream(closeLog)' =
             Put(PerStream(closeLog), x,
                 Append(PerStream(closeLog)[x], [pair |-> PerStream(slots)[x], peer |-> peer]))
    BY <2>3, <2>5, <2>6, PerStreamNext DEF m
  <2>9. PerStream(slots)' = Put(PerStream(slots), x, 0) /\ PerStream(slots)[x] # 0
    BY <1>4, <2>4, <2>6, PerStreamNext
  <2> HIDE DEF x, g
  <2>10. Contract!End(x)
    BY <2>7, <2>8, <2>9 DEF Contract!End, Put
  <2> QED
    BY <2>10 DEF x
<1> QED
  BY <1>3, <1>4

\* Whether a step is one of the contract's is decided by what it does to the
\* slots, to what PHP has been given and to what it has been told.
LEMMA ContractSteps ==
  ASSUME TypeOK, [Next]_vars
  PROVE  \/ UNCHANGED <<slots, pairs, dispatched, closeLog>>
         \/ \E c \in Conns, s \in Streams :
              /\ UNCHANGED dispatched
              /\ \/ InsertSlotPair(c, s) /\ UNCHANGED closeLog
                 \/ \E peer \in BOOLEAN, next \in ResumeStates :
                      FireOnClose(c, s, peer, next)
         \/ DispatchData
<1>1. UNCHANGED dispatched \/ DispatchData
  <2>1. CASE Calm \/ Accept
    BY <2>1, AcceptEffect DEF Calm
  <2>2. CASE Receives
    BY <2>2 DEF Receives, DropLateEvent, DispatchNew
  <2>3. ASSUME NEW c \in Conns, NEW s \in Streams, Drives(c, s) \/ Opens(c, s)
        PROVE  UNCHANGED dispatched
    BY <2>3, OpenEffect DEF Drives, loopVars
  <2> QED
    BY <2>1, <2>2, <2>3, StepKinds
<1>2. job.peer \in BOOLEAN
  BY DEF TypeOK, ServerLoopTypeOK, Job
<1>3. ASSUME DispatchNew
      PROVE  \E c \in Conns, s \in Streams : InsertSlotPair(c, s) /\ UNCHANGED closeLog
  <2>1. events # <<>> /\ InsertSlotPair(Head(events).conn, Head(events).stream)
        /\ UNCHANGED closeLog /\ events \in Seq(Event)
    BY <1>3 DEF DispatchNew, RecvEvent, TypeOK, ChannelsTypeOK
  <2>2. Head(events) = events[1] /\ 1 \in DOMAIN events
    BY <2>1, HeadTailProperties
  <2> QED
    BY <2>1, <2>2, ChannelTypes
<1>4. \/ UNCHANGED <<slots, pairs, closeLog>>
      \/ \E c \in Conns, s \in Streams :
           \/ InsertSlotPair(c, s) /\ UNCHANGED closeLog
           \/ \E peer \in BOOLEAN, next \in ResumeStates : FireOnClose(c, s, peer, next)
  BY <1>2, <1>3, SlotSteps
<1> QED
  BY <1>1, <1>4

LEMMA StepContract ==
  ASSUME GiveInv, [Next]_vars
  PROVE  [Contract!ContractNext]_(Contract!contractVars)
<1>1. TypeOK
  BY DEF GiveInv, OrderInv, BaseInv
<1>2. ASSUME UNCHANGED <<slots, pairs, dispatched, closeLog>>
      PROVE  UNCHANGED Contract!contractVars
  BY <1>2, PerStreamNext DEF Contract!contractVars
<1>3. CASE DispatchData
  BY <1>3, GiveImplements DEF Contract!ContractNext
<1>4. ASSUME NEW c \in Conns, NEW s \in Streams, UNCHANGED dispatched,
             \/ InsertSlotPair(c, s) /\ UNCHANGED closeLog
             \/ \E peer \in BOOLEAN, next \in ResumeStates : FireOnClose(c, s, peer, next)
      PROVE  \/ Contract!Open(<<c, s>>) \/ Contract!End(<<c, s>>)
             \/ UNCHANGED <<slots, pairs, dispatched, closeLog>>
  BY <1>1, <1>4, OpenImplements, EndImplements
<1>5. \A c \in Conns, s \in Streams : <<c, s>> \in Conns \X Streams
  OBVIOUS
<1> QED
  BY <1>1, <1>2, <1>3, <1>4, <1>5, ContractSteps DEF Contract!ContractNext

LEMMA InitGive == Init => GiveInv
<1> SUFFICES ASSUME Init PROVE GiveInv
  OBVIOUS
<1>1. AnnounceInv /\ OrderInv /\ FinInv
  BY InitAnnounce, InitOrder, InitFin
<1>2. \A c \in Conns, s \in Streams : DataAt(c, s) = {} /\ s \notin readable[c] \cup cur[c]
  BY DEF Init, ChannelsInit, DriverInit, DataAt
<1> QED
  BY <1>1, <1>2 DEF GiveInv, OwnOn

LEMMA InitContract == Init => Contract!ContractInit
<1> SUFFICES ASSUME Init PROVE Contract!ContractInit
  OBVIOUS
<1>1. \A c \in Conns, s \in Streams :
        /\ slots[c][s] = 0 /\ pairs[c][s] = 0
        /\ dispatched[c][s] = 0 /\ closeLog[c][s] = <<>>
  BY DEF Init, PhpStreamsInit, ServerLoopInit
<1>2. \A x \in Conns \X Streams : x[1] \in Conns /\ x[2] \in Streams
  OBVIOUS
<1> QED
  BY <1>1, <1>2 DEF Contract!ContractInit, PerStream

\* The server implements StreamContract: a pair replaces the one before it, data
\* is only given while a pair is in the map, so the dispatcher never looks the
\* slots of a chunk up in vain, and fire_on_close ends what the map holds.
THEOREM ServerKeepsContract ==
  ASSUME NumberUnits
  PROVE  Spec => ImplementsContract
<1>1. Init => GiveInv /\ Contract!ContractInit
  BY InitGive, InitContract
<1>2. GiveInv /\ [Next]_vars => GiveInv'
  BY StepGive
<1>3. GiveInv /\ [Next]_vars => [Contract!ContractNext]_(Contract!contractVars)
  BY StepContract
<1> QED
  BY <1>1, <1>2, <1>3, PTL DEF Spec, ImplementsContract, Contract!ContractSpec
=============================================================================
