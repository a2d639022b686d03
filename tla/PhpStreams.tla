----------------------------- MODULE PhpStreams -----------------------------
(***************************************************************************)
(* The callback slots (src/quiche/conn.rs) and what the PHP stream objects *)
(* (src/stream.rs) do to them.  All of it happens on the PHP thread.       *)
(*                                                                         *)
(* A slot pair (on_data, on_close) is created when a stream is announced   *)
(* or opened; the pairs of one stream id are numbered.  The map            *)
(* php_stream_callbacks holds at most one pair per stream id; a PHP stream *)
(* object keeps its own pair whatever happens to the map, and its          *)
(* ConnOpenHandle keeps the map after the server dropped the connection.   *)
(***************************************************************************)
EXTENDS Channels

CONSTANTS
  MaxPairs,       \* bound: slot pairs PHP may create for one stream id
  OpenIds,        \* the stream ids the script passes to openBidi/UniStream
  AnnounceHooks   \* what the $on_stream callback may register on a new stream

Hooks == {"data", "close"}

ASSUME PhpStreamsAssumption ==
  /\ MaxPairs \in Nat
  /\ OpenIds \subseteq Streams
  /\ AnnounceHooks \subseteq SUBSET Hooks

VARIABLES
  slots,      \* php_stream_callbacks: number of the pair in the map, 0 if none
  pairs,      \* how many pairs each stream id has had
  hooked,     \* the slots that hold a callable: <<conn, stream, pair, hook>>
  slotHeld,   \* slot mutex held while the callable in it runs
  mapHeld     \* php_stream_callbacks mutex held by the handler that runs

phpVars == <<slots, pairs, hooked, slotHeld, mapHeld>>

Slot == Conns \X Streams \X Nat \X Hooks

PhpStreamsTypeOK ==
  /\ slots \in [Conns -> [Streams -> Nat]]
  /\ pairs \in [Conns -> [Streams -> Nat]]
  /\ hooked \in SUBSET Slot
  /\ slotHeld \in SUBSET Slot
  /\ mapHeld \in SUBSET Conns

PhpStreamsInit ==
  /\ slots = [c \in Conns |-> [s \in Streams |-> 0]]
  /\ pairs = [c \in Conns |-> [s \in Streams |-> 0]]
  /\ hooked = {} /\ slotHeld = {} /\ mapHeld = {}

-----------------------------------------------------------------------------
\* make_slot_pair, and the insert that replaces what the map held for s.
InsertSlotPair(c, s) ==
  /\ pairs' = [pairs EXCEPT ![c][s] = @ + 1]
  /\ slots' = [slots EXCEPT ![c][s] = pairs[c][s] + 1]

RemoveSlotPair(c, s) == slots' = [slots EXCEPT ![c][s] = 0]

\* A stream object of connection c, with its conn_handle, is in PHP's hands.
HasHandle(c) == \E s \in Streams : ClientInitiated(s) /\ pairs[c][s] > 0

\* openBidiStream / openUniStream: prepare_*_stream locks the map.
CanOpen(c, s) == HasHandle(c) /\ s \in OpenIds /\ pairs[c][s] < MaxPairs

OpenStream(c, s) ==
  /\ CanOpen(c, s) /\ c \notin mapHeld
  /\ InsertSlotPair(c, s)
  /\ UNCHANGED <<hooked, slotHeld, mapHeld>>

\* setOnData / setOnClose, on the stream object of any pair, in the map or
\* not: install_slot locks the slot and stores the callable.  A UniStream has
\* no setOnData.  Which callable a slot holds makes no difference here, so a
\* slot that has one is left alone.
CanHook(c, s, g, h) ==
  /\ g \in 1 .. pairs[c][s] /\ <<c, s, g, h>> \notin hooked
  /\ h = "data" => ClientInitiated(s) \/ Bidirectional(s)

InstallSlot(c, s, g, h) ==
  /\ CanHook(c, s, g, h) /\ <<c, s, g, h>> \notin slotHeld
  /\ hooked' = hooked \cup {<<c, s, g, h>>}
  /\ UNCHANGED <<slots, pairs, slotHeld, mapHeld>>

\* parking_lot mutexes are not reentrant: a callable that runs under a mutex
\* and calls back into it never returns.
Reenters ==
  \/ \E c \in mapHeld : \E s \in Streams : CanOpen(c, s)
  \/ slotHeld # {}
=============================================================================
