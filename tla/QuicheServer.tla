---------------------------- MODULE QuicheServer ----------------------------
(***************************************************************************)
(* The whole read side of ext-quiche: the PHP thread that runs             *)
(* QuicheServerSocketImpl::tick (ServerLoop) and one StreamQuicDriver per  *)
(* connection (QuicDriver), which meet in the two channels of Channels.    *)
(***************************************************************************)
EXTENDS QuicDriver, ServerLoop

vars == <<events, closes, driverVars, phpVars, loopVars>>

Init == ChannelsInit /\ DriverInit /\ PhpStreamsInit /\ ServerLoopInit

\* The listener arm: ConnState::build makes a record and a driver that share
\* the new id; conn.start(driver) hands the driver to a worker.
Accept ==
  /\ AcceptConn
  /\ StartDriver(id_counter)

\* External: a peer uses its own streams, and the bidirectional ones the
\* server opened toward it.
PeerMaySend(c, s) == ClientInitiated(s) \/ (Bidirectional(s) /\ pairs[c][s] > 0)

PeerStep(c) ==
  \/ PacketOther(c)
  \/ \E s \in Streams :
       /\ PeerMaySend(c, s)
       /\ PacketData(c, s) \/ PacketFin(c, s) \/ PacketReset(c, s)

Next ==
  \/ Accept
  \/ \E c \in Conns :
       /\ DriverStep(c) \/ ConnStep(c) \/ PeerStep(c)
       /\ UNCHANGED <<phpVars, loopVars>>
  \/ (LoopStep \/ ScriptStep) /\ UNCHANGED driverVars

Spec == Init /\ [][Next]_vars

(***************************************************************************)
(* Fairness.  The PHP thread goes on (the script calls tick again and its  *)
(* callables return); a worker task that has something to do is scheduled. *)
(* Nothing is assumed of peers, timers or the main thread.                 *)
(***************************************************************************)
LoopGoesOn == WF_vars(Accept \/ (LoopStep /\ UNCHANGED driverVars))

DriverGoesOn(c) == WF_vars(DriverStep(c) /\ UNCHANGED <<phpVars, loopVars>>)

FairSpec == Spec /\ LoopGoesOn /\ \A c \in Conns : DriverGoesOn(c)

\* A peer that keeps its connection busy, with acknowledgements at least.
PeerGoesOn(c) == WF_vars(PacketOther(c) /\ UNCHANGED <<phpVars, loopVars>>)

BusyPeerSpec == FairSpec /\ \A c \in Conns : PeerGoesOn(c)

-----------------------------------------------------------------------------
(***************************************************************************)
(* Safety.                                                                 *)
(***************************************************************************)
\* Every variable has its type (all modules).
TypeOK == ChannelsTypeOK /\ DriverTypeOK /\ PhpStreamsTypeOK /\ ServerLoopTypeOK

\* fire_on_close is reached from the FIN of a stream, from the close of its
\* connection and from close(); whatever the order they come in, the callable
\* of one slot pair is invoked at most once.
OnCloseAtMostOnce ==
  \A c \in Conns, s \in Streams : \A i, j \in DOMAIN closeLog[c][s] :
    closeLog[c][s][i].pair = closeLog[c][s][j].pair => i = j

\* Why: a pair that was told of its close has left the map, and the numbers
\* of the pairs of one stream id only grow.
ToldPairsAreGone ==
  \A c \in Conns, s \in Streams :
    /\ slots[c][s] <= pairs[c][s]
    /\ \A i \in DOMAIN closeLog[c][s] :
         /\ closeLog[c][s][i].pair \in 1 .. pairs[c][s]
         /\ closeLog[c][s][i].pair # slots[c][s]

OnStream(e, c, s) == e.conn = c /\ e.stream = s

\* The dispatcher looks the slots of a Data event up in a map that only the
\* New event of a client-initiated stream fills, and the two may be taken by
\* the PHP thread far apart: no data can get ahead of its announcement.
AnnouncedBeforeData ==
  \A i \in DOMAIN events :
    LET e == events[i] IN
    (e.kind = "Data" /\ ClientInitiated(e.stream) /\ Tracked(e)) =>
      \/ pairs[e.conn][e.stream] > 0
      \/ \E j \in 1 .. i - 1 :
           events[j].kind \in NewKinds /\ OnStream(events[j], e.conn, e.stream)

\* seen_streams forgets a stream at its FIN; still no stream is announced a
\* second time, which would replace the slots its PHP object holds.
NeverReannounced ==
  \A i \in DOMAIN events :
    LET e == events[i] IN
    e.kind \in NewKinds =>
      /\ pairs[e.conn][e.stream] = 0
      /\ \A j \in DOMAIN events :
           j # i /\ OnStream(events[j], e.conn, e.stream) => events[j].kind = "Data"

\* What is queued for a stream of a live connection continues, without a gap
\* and in order, what PHP has been given of it: chunks of one stream are not
\* lost, repeated or swapped however the drivers interleave.
InOrder ==
  \A i \in DOMAIN events :
    LET e == events[i]
        before == {j \in 1 .. i - 1 :
                     events[j].kind = "Data" /\ OnStream(events[j], e.conn, e.stream)}
    IN (e.kind = "Data" /\ Tracked(e)) =>
         /\ before = {} => e.off = dispatched[e.conn][e.stream]
         /\ \A j \in before :
              (\A k \in before : k <= j) => e.off = events[j].off + events[j].n

\* peerClosed = true is reported when the peer ended the stream, by a FIN the
\* driver read, or the connection, by CONNECTION_CLOSE; false, when it did not
\* end the connection, or when close() did, here.  stream.rs:56-58 counts a
\* timeout on the other side, which the code does not: TimeoutIsPeer.
PeerFlagTruthful ==
  \A c \in Conns, s \in Streams : \A i \in DOMAIN closeLog[c][s] :
    IF closeLog[c][s][i].peer
      THEN cause[c] = "peer" \/ rx[c][s].st = "finRead"
      ELSE cause[c] \in {"timeout", "local"} \/ ~listening

\* Records nobody will remove: the driver has run on_conn_close, and its signal
\* is not in the close channel.
Forgotten ==
  {c \in connections :
     /\ drv[c] = "closed" /\ established[c]
     /\ \A i \in DOMAIN closes : closes[i].conn # c}

\* on_conn_close drops its signal when the close channel is full.  However many
\* connections come and go, and in whatever order they end, no more records are
\* forgotten than the server has held at a time beyond the channel's places: in
\* particular none before it has held more than these.
FewClosesLost == Forgotten # {} => Cardinality(Forgotten) + CloseCap <= peak

\* Every stream that registered on_close is told, exactly once, by the time
\* its connection has been dropped: no pair is left behind by the race of FIN,
\* close signal and close().  It is about callables registered while the pair
\* was in a map somebody still looks at, and (MaxPairs = 1) about stream ids
\* opened once: opening an id again replaces its pair, which nobody calls.
ToldOfClose ==
  \A c \in Conns \ (connections \cup draining \cup caller.drain), s \in Streams :
    \A g \in 1 .. pairs[c][s] :
      <<c, s, g, "close">> \in hooked \ late =>
        \E i \in DOMAIN closeLog[c][s] : closeLog[c][s][i].pair = g

\* openBidiStream and openUniStream lock the slot map.  socket.rs releases it
\* before it invokes on_data or the on_close of a FIN, so that a callable may
\* open a stream on any connection the server still has: only the on_close
\* calls of a connection being dropped run under a map's mutex.
OpenNeverBlocks == connections \cap mapHeld = {}

\* close() may come at any time, also from a callable in the middle of a tick.
\* From then on the drivers' events and close signals are still received, but
\* PHP gets no data and no connection is accepted; the last calls of on_close
\* are those of its own drain, and of the drain or the FIN it was called in.
ClosedIsSilent ==
  [][~listening =>
       /\ UNCHANGED <<connections, dispatched>>
       /\ draining = {} /\ finish = {} => UNCHANGED closeLog]_vars

\* The server gives PHP streams as StreamContract promises.  In particular the
\* slots of a chunk's stream are always found: FIN, close signal, close() and
\* late events never leave data for a stream without a pair in the map.
PerStream(f) == [x \in Conns \X Streams |-> f[x[1]][x[2]]]

Contract == INSTANCE StreamContract
              WITH Lines <- Conns \X Streams, open <- PerStream(slots),
                   used <- PerStream(pairs), got <- PerStream(dispatched),
                   told <- PerStream(closeLog)

ImplementsContract == Contract!ContractSpec

-----------------------------------------------------------------------------
(***************************************************************************)
(* Liveness.                                                               *)
(***************************************************************************)
\* A connection that has ended is pruned from the server's map.
ClosedIsPruned ==
  \A c \in Conns :
    (drv[c] = "closed" /\ established[c]) ~> c \notin connections

\* Once the eventfd has fired, tick returns to the script, unless a callable
\* closes the server first and with it the eventfd.
SignalEndsTick == eventfd /\ has_eventfd ~> pc = "php" \/ ~has_eventfd

\* What quiche holds for a stream is moved on while its connection lives.
BufferedIsDelivered ==
  \A c \in Conns, s \in Streams :
    rx[c][s].buf > 0 ~> rx[c][s].buf = 0 \/ drv[c] = "closed"
=============================================================================
