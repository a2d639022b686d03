----------------------------- MODULE DocClaims -----------------------------
(***************************************************************************)
(* What comments of the source say of the program and the program does not *)
(* do.  TLC finds each violated, the Doc_ runs the first, second and fourth*)
(* of them; the README gives the counterexamples in words.                 *)
(***************************************************************************)
EXTENDS QuicheServer

\* stream.rs:45, "Register a closure invoked for every data chunk on this
\* stream": no chunk waits in the event channel for a record that is gone.
EveryChunkIsGiven ==
  \A i \in DOMAIN events : events[i].kind = "Data" => Tracked(events[i])

\* stream.rs:162-163, on_close is "invoked exactly once when this stream is no
\* longer usable": a client's unidirectional stream is unusable once it has
\* been reset.
ResetIsReported ==
  \A c \in Conns, s \in Streams :
    (rx[c][s].st = "resetRead" /\ ~Bidirectional(s) /\ c \in connections)
      ~> closeLog[c][s] # <<>>

\* socket.rs:52-54, the close signal is "fired from on_conn_close so the server
\* prunes its handle": a record whose driver is done has its signal waiting.
CloseNeverLost == Forgotten = {}

\* stream.rs:56-58, a "peer-side timeout" is reported as peerClosed = true, and
\* false means that "the local server initiated the close".
TimeoutIsPeer ==
  \A c \in Conns, s \in Streams : \A i \in DOMAIN closeLog[c][s] :
    ~closeLog[c][s][i].peer => cause[c] # "timeout" \/ ~listening

\* conn.rs:89, tick "returns when the timer fires": also when a callable that
\* runs inside it closes the server.
SignalReturns == eventfd /\ has_eventfd ~> pc \in {"php", "undefined"}
=============================================================================
