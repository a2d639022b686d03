----------------------------- MODULE ServerLoop -----------------------------
(***************************************************************************)
(* QuicheServerSocketImpl (src/quiche/socket.rs) on the PHP thread: tick's *)
(* biased select loop, the handlers of its four arms, close(), and the PHP *)
(* code that runs between two ticks and inside the callables.              *)
(*                                                                         *)
(* One poll of the select! looks at the arms in order; the drivers send    *)
(* while it does, so each arm's poll is a step.  A handler runs up to the  *)
(* callable it invokes; the rest of it is a later step (pc = resume).      *)
(*                                                                         *)
(* Definitions named X_Y are wrong versions of X: each run has to find the *)
(* property it checks violated when one of them takes the place of X.      *)
(***************************************************************************)
EXTENDS PhpStreams

CONSTANTS
  WithEventFd,  \* event_fd_id # -1 was given to __construct
  PhpOps        \* what the script does on its own, out of the five below

AllPhpOps == {"open", "hook", "reenter", "close", "signal"}

ASSUME ServerLoopAssumption == WithEventFd \in BOOLEAN /\ PhpOps \subseteq AllPhpOps

VARIABLES
  pc,           \* what the PHP thread is doing
  resume,       \* where it goes when the running callable returns
  connections,  \* the keys of QuicheServerSocketImpl::connections
  id_counter,
  arrivals,     \* connections and accept errors so far, bounded by MaxConns
  listening,    \* FALSE once listener_stream is SelectAll::new()
  has_eventfd,  \* QuicheServerSocket::event_fd is Some
  eventfd,      \* the kernel counter of the eventfd is not zero
  finish,       \* the stream whose FIN is being dispatched
  draining,     \* removed connections whose slot maps are being drained
  job,          \* the drain's peer_closed flag and where it returns to
  caller,       \* what a close() that a callable called goes back to
  stale_efd,    \* tick refers to an EventFd that close() has dropped
  dispatched,   \* history: units of each stream handed to the dispatcher
  closeLog,     \* history: on_close calls PHP received, per stream
  late,         \* history: callables registered when nobody calls them any more
  peak          \* history: the most records connections has held at a time

frameVars == <<caller, stale_efd>>
historyVars == <<late, peak>>

loopVars == <<pc, resume, connections, id_counter, arrivals,
              listening, has_eventfd, eventfd, finish, draining, job,
              dispatched, closeLog, frameVars, historyVars>>

\* "events", "closes", "listener", "timer": the arm the poll looks at next
\* "parked"   every arm is pending        "callback"  a callable runs
\* "finish"   the end of a Data event     "drain"     draining slot maps
\* "php"      script code outside tick    "stuck"     waits for its own mutex
\* "undefined"  a reference to something dropped was used: nothing more is said
PcStates == {"php", "events", "closes", "listener", "timer", "parked",
             "callback", "finish", "drain", "stuck", "undefined"}
ResumeStates == {"events", "finish", "drain"}

Job == [peer: BOOLEAN, ret: {"events", "php", "callback"}]

\* The callable that called close(): where it returns to, the mutexes held
\* while it runs, and the drain it was called from.
Frame == [resume: ResumeStates, locks: SUBSET Slot, maps: SUBSET Conns,
          drain: SUBSET Conns, job: Job]

ServerLoopTypeOK ==
  /\ pc \in PcStates /\ resume \in ResumeStates
  /\ connections \in SUBSET Conns
  /\ id_counter \in Nat /\ arrivals \in 0 .. MaxConns
  /\ id_counter <= arrivals
  /\ listening \in BOOLEAN /\ has_eventfd \in BOOLEAN /\ eventfd \in BOOLEAN
  /\ finish \in SUBSET (Conns \X Streams)
  /\ draining \in SUBSET Conns
  /\ job \in Job /\ caller \in Frame /\ stale_efd \in BOOLEAN
  /\ dispatched \in [Conns -> [Streams -> Nat]]
  /\ closeLog \in [Conns -> [Streams -> Seq([pair: Nat, peer: BOOLEAN])]]
  /\ late \in SUBSET Slot /\ peak \in Nat

NoJob == [peer |-> FALSE, ret |-> "events"]

NoCaller == [resume |-> "events", locks |-> {}, maps |-> {}, drain |-> {},
             job |-> NoJob]

ServerLoopInit ==
  /\ pc = "php" /\ resume = "events"
  /\ connections = {} /\ id_counter = 0 /\ arrivals = 0
  /\ listening = TRUE /\ has_eventfd = WithEventFd /\ eventfd = FALSE
  /\ finish = {} /\ draining = {} /\ job = NoJob
  /\ dispatched = [c \in Conns |-> [s \in Streams |-> 0]]
  /\ closeLog = [c \in Conns |-> [s \in Streams |-> <<>>]]
  /\ caller = NoCaller /\ stale_efd = FALSE
  /\ late = {} /\ peak = 0

-----------------------------------------------------------------------------
(***************************************************************************)
(* Invoking a callable, with the slot mutex held meanwhile, and those of   *)
(* the callable that called close().  A slot that is empty is skipped.     *)
(***************************************************************************)
Invoke(called, locks, next) ==
  /\ pc' = IF called THEN "callback" ELSE next
  /\ resume' = IF called THEN next ELSE "events"
  /\ slotHeld' = caller.locks \cup (IF called THEN locks ELSE {})

CallbackReturns ==
  /\ pc = "callback"
  /\ pc' = resume /\ resume' = "events" /\ slotHeld' = caller.locks
  /\ UNCHANGED <<events, closes, slots, pairs, hooked, mapHeld, connections,
                 id_counter, arrivals, listening, has_eventfd,
                 eventfd, finish, draining, job, dispatched, closeLog,
                 frameVars, historyVars>>

FireOnClose_KeepPair(c, s, peer, next) ==
  LET g == slots[c][s]
      hook == <<c, s, g, "close">>
  IN
  /\ Invoke(g # 0 /\ hook \in hooked, {hook}, next)
  /\ closeLog' = IF g # 0 /\ hook \in hooked
                   THEN [closeLog EXCEPT ![c][s] =
                           Append(@, [pair |-> g, peer |-> peer])]
                   ELSE closeLog
  /\ UNCHANGED <<slots, pairs, hooked>>

FireOnClose_Silent(c, s, peer, next) ==
  /\ RemoveSlotPair(c, s)
  /\ Invoke(FALSE, {}, next)
  /\ UNCHANGED <<pairs, hooked, closeLog>>

\* Take the pair of s out of the map and call its on_close.
FireOnClose(c, s, peer, next) ==
  LET g == slots[c][s]
      hook == <<c, s, g, "close">>
  IN
  /\ RemoveSlotPair(c, s)
  /\ Invoke(g # 0 /\ hook \in hooked, {hook}, next)
  /\ closeLog' = IF g # 0 /\ hook \in hooked
                   THEN [closeLog EXCEPT ![c][s] =
                           Append(@, [pair |-> g, peer |-> peer])]
                   ELSE closeLog
  /\ UNCHANGED <<pairs, hooked>>

-----------------------------------------------------------------------------
(***************************************************************************)
(* The arms of the select!, in their biased order.                         *)
(***************************************************************************)
Goto(from, to) ==
  /\ pc = from /\ pc' = to
  /\ UNCHANGED <<events, closes, phpVars, resume, connections, id_counter,
                 arrivals, listening, has_eventfd, eventfd, finish,
                 draining, job, dispatched, closeLog,
                 frameVars, historyVars>>

Tick == Goto("php", "events")

EventsPending == events = <<>> /\ Goto("events", "closes")
ClosesPending == closes = <<>> /\ Goto("closes", "listener")

CanArrive_Closed == arrivals < MaxConns

\* External: whether a listener has something ready is up to the network;
\* the arm is disabled once the SelectAll is empty.
CanArrive == listening /\ arrivals < MaxConns

ListenerPending == Goto("listener", "timer")

TimerReady == has_eventfd /\ eventfd

\* read_u64 sets the eventfd back to 0 and tick breaks out of its loop.
TimerFires ==
  /\ pc = "timer" /\ TimerReady
  /\ pc' = "php" /\ eventfd' = FALSE
  /\ UNCHANGED <<events, closes, phpVars, resume, connections, id_counter,
                 arrivals, listening, has_eventfd, finish, draining,
                 job, dispatched, closeLog,
                 frameVars, historyVars>>

\* A callable has closed the server under this tick: read_u64 works on an
\* EventFd that was dropped.  It fails, which ends tick as well, or anything.
TimerStale ==
  /\ pc = "timer" /\ stale_efd
  /\ pc' \in {"php", "undefined"} /\ stale_efd' = FALSE
  /\ UNCHANGED <<events, closes, phpVars, resume, connections, id_counter,
                 arrivals, listening, has_eventfd, eventfd, finish, draining,
                 job, dispatched, closeLog, caller, historyVars>>

\* An EventFd that was dropped may as well stay pending.
TimerPending == ~TimerReady /\ Goto("timer", "parked")

\* The wakers of all four arms are registered.
Woken_EventsAndTimer == events # <<>> \/ TimerReady
Woken_NoTimer == events # <<>> \/ closes # <<>> \/ CanArrive
Woken == events # <<>> \/ closes # <<>> \/ CanArrive \/ TimerReady

Wake == Woken /\ Goto("parked", "events")

-----------------------------------------------------------------------------
(***************************************************************************)
(* The event arm: dispatch_driver_event.                                   *)
(***************************************************************************)
RecvEvent ==
  /\ pc = "events" /\ events # <<>>
  /\ events' = Tail(events)
  /\ UNCHANGED <<closes, mapHeld, connections, id_counter, arrivals,
                 listening, has_eventfd, eventfd, draining, job>>

Tracked_Always(e) == TRUE
Tracked(e) == e.conn \in connections

DropLateEvent ==
  /\ RecvEvent /\ ~Tracked(Head(events))
  /\ UNCHANGED <<pc, resume, slots, pairs, hooked, slotHeld, finish,
                 dispatched, closeLog,
                 frameVars, historyVars>>

DispatchNew ==
  LET e == Head(events)
      g == pairs[e.conn][e.stream] + 1
  IN
  /\ RecvEvent /\ Tracked(e) /\ e.kind \in NewKinds
  /\ InsertSlotPair(e.conn, e.stream)
  /\ \E H \in AnnounceHooks :
       hooked' = hooked \cup {<<e.conn, e.stream, g, h>> : h \in H}
  /\ Invoke(TRUE, {}, "events")
  /\ UNCHANGED <<finish, dispatched, closeLog,
                 frameVars, historyVars>>

DispatchData ==
  LET e == Head(events)
      g == slots[e.conn][e.stream]
      hook == <<e.conn, e.stream, g, "data">>
  IN
  /\ RecvEvent /\ Tracked(e) /\ e.kind = "Data"
  /\ dispatched' = [dispatched EXCEPT ![e.conn][e.stream] = e.off + e.n]
  /\ finish' = IF e.fin THEN {<<e.conn, e.stream>>} ELSE {}
  /\ Invoke(g # 0 /\ hook \in hooked, {hook},
            IF e.fin THEN "finish" ELSE "events")
  /\ UNCHANGED <<slots, pairs, hooked, closeLog, frameVars, historyVars>>

FinishStream_HoldMap(c, s) ==
  /\ pc = "finish" /\ <<c, s>> \in finish
  /\ FireOnClose(c, s, TRUE, "events")
  /\ finish' = {} /\ mapHeld' = {c}
  /\ UNCHANGED <<events, closes, connections, id_counter, arrivals, listening,
                 has_eventfd, eventfd, draining, job, dispatched,
                 frameVars, historyVars>>

\* The FIN half of a Data event; the map is locked for the removal only.  It
\* uses the record dispatch_driver_event looked up before on_data ran: when
\* on_data closed the server, the map it leads to may live on in the handles
\* of stream objects, ...
FinishStream(c, s) ==
  /\ pc = "finish" /\ <<c, s>> \in finish
  /\ FireOnClose(c, s, TRUE, "events")
  /\ finish' = {}
  /\ UNCHANGED <<events, closes, mapHeld, connections, id_counter,
                 arrivals, listening, has_eventfd, eventfd, draining, job,
                 dispatched, frameVars, historyVars>>

\* ... or be gone, and then the reference dangles.
FinishStale(c, s) ==
  /\ pc = "finish" /\ <<c, s>> \in finish /\ c \notin connections
  /\ pc' = "undefined"
  /\ UNCHANGED <<events, closes, phpVars, resume, connections, id_counter,
                 arrivals, listening, has_eventfd, eventfd, finish, draining,
                 job, dispatched, closeLog, frameVars, historyVars>>

-----------------------------------------------------------------------------
(***************************************************************************)
(* The close arm, and the draining of slot maps it shares with close().    *)
(***************************************************************************)
RecvClose ==
  LET m == Head(closes) IN
  /\ pc = "closes" /\ closes # <<>>
  /\ closes' = Tail(closes)
  /\ IF m.conn \in connections
       THEN /\ connections' = connections \ {m.conn}
            /\ draining' = {m.conn}
            /\ job' = [peer |-> m.peer, ret |-> "events"]
            /\ pc' = "drain"
       ELSE /\ pc' = "events"
            /\ UNCHANGED <<connections, draining, job>>
  /\ UNCHANGED <<events, phpVars, resume, id_counter, arrivals,
                 listening, has_eventfd, eventfd, finish, dispatched, closeLog,
                 frameVars, historyVars>>

\* One stream of the map: the map stays locked while its on_close runs.
DrainSlot(c, s) ==
  /\ pc = "drain" /\ c \in draining /\ mapHeld \subseteq caller.maps \cup {c}
  /\ slots[c][s] # 0
  /\ mapHeld' = caller.maps \cup {c}
  /\ FireOnClose(c, s, job.peer, "drain")
  /\ UNCHANGED <<events, closes, connections, id_counter, arrivals,
                 listening, has_eventfd, eventfd, finish, draining, job,
                 dispatched, frameVars, historyVars>>

\* Back to tick, to the script, or to the callable that called close().
DrainReturns ==
  /\ pc' = job.ret /\ resume' = caller.resume
  /\ draining' = caller.drain /\ job' = caller.job
  /\ caller' = NoCaller

DrainDone(c) ==
  /\ pc = "drain" /\ c \in draining /\ mapHeld \subseteq caller.maps \cup {c}
  /\ \A s \in Streams : slots[c][s] = 0
  /\ mapHeld' = caller.maps
  /\ \/ draining = {c} /\ DrainReturns
     \/ /\ draining # {c} /\ draining' = draining \ {c}
        /\ UNCHANGED <<pc, resume, job, caller>>
  /\ UNCHANGED <<events, closes, slots, pairs, hooked, slotHeld, connections,
                 id_counter, arrivals, listening, has_eventfd, eventfd,
                 finish, dispatched, closeLog, stale_efd, historyVars>>

-----------------------------------------------------------------------------
(***************************************************************************)
(* The listener arm.  AcceptConn is completed by the start of the driver.  *)
(***************************************************************************)
RecvIncoming ==
  /\ pc = "listener" /\ CanArrive
  /\ arrivals' = arrivals + 1
  /\ pc' = "events"
  /\ UNCHANGED <<events, closes, phpVars, resume, listening, has_eventfd,
                 eventfd, finish, draining, job, dispatched, closeLog,
                 frameVars, late>>

InsertConn(c) ==
  /\ connections' = connections \cup {c}
  /\ peak' = IF Cardinality(connections') > peak THEN Cardinality(connections') ELSE peak

AcceptConn_NextId ==
  /\ RecvIncoming
  /\ id_counter' = id_counter + 1
  /\ InsertConn(id_counter + 1)

\* fetch_add returns the id before the increment.
AcceptConn ==
  /\ RecvIncoming
  /\ id_counter' = id_counter + 1
  /\ InsertConn(id_counter)

AcceptError == RecvIncoming /\ UNCHANGED <<id_counter, connections, peak>>

-----------------------------------------------------------------------------
(***************************************************************************)
(* The rest of the PHP process.                                            *)
(***************************************************************************)
\* Script code runs between two ticks and inside a callable.
PhpRuns == pc \in {"php", "callback"}

\* The connections leave the server before the first on_close runs, so that a
\* close() inside the drain of another finds none.
DrainConnections ==
  /\ draining' = connections
  /\ pc' = "drain" /\ job' = [peer |-> FALSE, ret |-> pc]
  /\ IF pc = "callback"
       THEN /\ caller' = [resume |-> resume, locks |-> slotHeld, maps |-> mapHeld,
                          drain |-> draining, job |-> job]
            /\ resume' = "events"
       ELSE UNCHANGED <<caller, resume>>

\* QuicheServerSocket::close, which also drops the eventfd, under a running
\* tick when a callable calls it.
Close ==
  /\ "close" \in PhpOps /\ PhpRuns
  /\ connections' = {}
  /\ \/ connections # {} /\ DrainConnections
     \/ connections = {} /\ UNCHANGED <<pc, resume, draining, job, caller>>
  /\ listening' = FALSE
  /\ has_eventfd' = FALSE
  /\ stale_efd' = (stale_efd \/ (pc = "callback" /\ has_eventfd))
  /\ UNCHANGED <<events, closes, phpVars, id_counter, arrivals, eventfd,
                 finish, dispatched, closeLog, historyVars>>

\* network_eventfd_signal, from the main thread.
Signal ==
  /\ "signal" \in PhpOps /\ ~eventfd
  /\ eventfd' = TRUE
  /\ UNCHANGED <<events, closes, phpVars, pc, resume, connections, id_counter,
                 arrivals, listening, has_eventfd, finish, draining,
                 job, dispatched, closeLog,
                 frameVars, historyVars>>

PhpOpen(c, s) ==
  /\ "open" \in PhpOps /\ PhpRuns /\ OpenStream(c, s)
  /\ UNCHANGED <<events, closes, loopVars>>

\* The pair is in a map that the dispatcher or a drain still looks at.
InTime(c, s, g) ==
  g = slots[c][s] /\ c \in connections \cup draining \cup caller.drain

PhpHook(c, s, g, h) ==
  /\ "hook" \in PhpOps /\ PhpRuns
  /\ InstallSlot(c, s, g, h)
  /\ late' = IF InTime(c, s, g) THEN late ELSE late \cup {<<c, s, g, h>>}
  /\ UNCHANGED <<events, closes, pc, resume, connections, id_counter, arrivals,
                 listening, has_eventfd, eventfd, finish, draining, job,
                 dispatched, closeLog, frameVars, peak>>

PhpReenters ==
  /\ "reenter" \in PhpOps /\ pc = "callback" /\ Reenters
  /\ pc' = "stuck"
  /\ UNCHANGED <<events, closes, phpVars, resume, connections, id_counter,
                 arrivals, listening, has_eventfd, eventfd, finish,
                 draining, job, dispatched, closeLog,
                 frameVars, historyVars>>

-----------------------------------------------------------------------------
\* What the PHP thread does by itself; Accept is added by the composition.
LoopStep ==
  \/ Tick \/ EventsPending \/ ClosesPending \/ ListenerPending
  \/ TimerFires \/ TimerStale \/ TimerPending \/ Wake
  \/ DropLateEvent \/ DispatchNew \/ DispatchData
  \/ RecvClose \/ AcceptError \/ CallbackReturns
  \/ \E c \in Conns :
       \/ DrainDone(c)
       \/ \E s \in Streams :
            FinishStream(c, s) \/ FinishStale(c, s) \/ DrainSlot(c, s)

\* What the script and the main thread may do.
ScriptStep ==
  \/ Close \/ Signal \/ PhpReenters
  \/ \E c \in Conns, s \in Streams :
       \/ PhpOpen(c, s)
       \/ \E g \in 1 .. pairs[c][s], h \in Hooks : PhpHook(c, s, g, h)
=============================================================================
