------------------------------ MODULE Channels ------------------------------
(***************************************************************************)
(* What the connection drivers and the server share: the two bounded mpsc  *)
(* channels of QuicheServerSocketImpl and the names that travel on them.   *)
(*                                                                         *)
(*   events   server_event_tx / server_event_rx: one channel, every driver *)
(*            sends, the PHP thread receives                               *)
(*   closes   conn_close_tx / conn_close_rx: the same, for the terminal    *)
(*            close signal of a connection                                 *)
(***************************************************************************)
EXTENDS Integers, Sequences, FiniteSets

CONSTANTS
  MaxConns,    \* bound: connections that arrive at the listener in a run
  Streams,     \* the stream ids in use, with QUIC's meaning of the low bits
  EventCap,    \* SERVER_EVENT_CHANNEL_CAPACITY
  CloseCap     \* CONN_CLOSE_CHANNEL_CAPACITY

ASSUME ChannelsAssumption ==
  /\ MaxConns \in Nat
  /\ Streams \subseteq Nat
  /\ EventCap \in Nat \ {0}
  /\ CloseCap \in Nat \ {0}

VARIABLES events, closes

\* Connection ids come from id_counter, which starts at 0.
Conns == 0 .. MaxConns - 1

\* stream_id & STREAM_ID_INITIATOR_MASK == 0
ClientInitiated(s) == s % 2 = 0

\* stream_id & STREAM_ID_DIRECTION_MASK == 0
Bidirectional(s) == (s \div 2) % 2 = 0

-----------------------------------------------------------------------------
(***************************************************************************)
(* DriverEvent, tagged with its connection.  A chunk of data is a number   *)
(* of units: off is the position of its first unit on the stream and n its *)
(* length, 0 for an empty chunk that only carries the FIN.                 *)
(***************************************************************************)
NewKinds == {"NewBidi", "NewUni"}

Event == [kind: NewKinds \cup {"Data"}, conn: Conns, stream: Streams,
          off: Nat, n: Nat, fin: BOOLEAN]

NewEvent(c, s) ==
  [kind |-> IF Bidirectional(s) THEN "NewBidi" ELSE "NewUni",
   conn |-> c, stream |-> s, off |-> 0, n |-> 0, fin |-> FALSE]

DataEvent(c, s, off, n, fin) ==
  [kind |-> "Data", conn |-> c, stream |-> s, off |-> off, n |-> n, fin |-> fin]

\* The (conn_id, peer_initiated) message of the close channel.
CloseMsg == [conn: Conns, peer: BOOLEAN]

ChannelsInit == events = <<>> /\ closes = <<>>

ChannelsTypeOK == events \in Seq(Event) /\ closes \in Seq(CloseMsg)
=============================================================================
