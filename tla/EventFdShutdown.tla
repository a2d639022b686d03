--------------------------- MODULE EventFdShutdown ---------------------------
(***************************************************************************)
(* How the main PHP thread stops the server thread: the eventfd functions  *)
(* of src/timer.rs, and __construct, tick and close of src/conn.rs, used   *)
(* the way test-script.php uses them.  __construct duplicates main's       *)
(* descriptor; the thread calls tick until a shared flag is set.           *)
(*                                                                         *)
(* The process has one table of descriptors, which may be full; what is    *)
(* opened takes the lowest free number.  Main may close its descriptor at  *)
(* any time.  tick itself is ServerLoop's: here it returns when the        *)
(* eventfd it owns is not zero.                                            *)
(*                                                                         *)
(* Definitions named X_Y are wrong versions of X: each run has to find the *)
(* property it checks violated when one of them takes the place of X.      *)
(***************************************************************************)
EXTENDS Integers

CONSTANTS
  Fds,         \* bound: descriptor numbers the process may use
  MaxOthers    \* bound: descriptors the rest of the process opens

ASSUME EventFdAssumption == Fds \subseteq Nat /\ MaxOthers \in Nat

VARIABLES
  fds,          \* external: what each number refers to: "efd" is the eventfd
  counter,      \* external: the eventfd's counter is not zero
  others,       \* external: descriptors the rest of the process has opened
  main,         \* where the main thread is
  descriptorId, \* what network_eventfd_create returned
  mainOpen,     \* main has not closed it
  shutdown,     \* the flag in the thread object
  thread,       \* where the server thread is
  event_fd,     \* QuicheServerSocket::event_fd, -1 for None
  closedEarly   \* history: main closed it before the thread called dup

fdVars == <<fds, counter, others, main, descriptorId, mainOpen, shutdown,
            thread, event_fd, closedEarly>>

\* The statements of the main script that matter, in their order.
MainStates == {"create", "start", "flag", "signal", "sleep"}
\* "new": in __construct before dup; "bind": behind it; "check": at the loop
\* condition; "tick": in tick().
ThreadStates == {"none", "new", "bind", "check", "tick", "done"}

\* Every variable has its type, and a descriptor that is owned is open.
FdTypeOK ==
  /\ fds \in [Fds -> {"free", "efd", "other"}]
  /\ counter \in BOOLEAN /\ others \in 0 .. MaxOthers
  /\ main \in MainStates /\ descriptorId \in Fds \cup {-1}
  /\ mainOpen \in BOOLEAN /\ shutdown \in BOOLEAN
  /\ thread \in ThreadStates /\ event_fd \in Fds \cup {-1}
  /\ event_fd # -1 => fds[event_fd] # "free"
  /\ closedEarly \in BOOLEAN

FdInit ==
  /\ fds = [f \in Fds |-> "free"] /\ counter = FALSE /\ others = 0
  /\ main = "create" /\ descriptorId = -1 /\ mainOpen = FALSE
  /\ shutdown = FALSE
  /\ thread = "none" /\ event_fd = -1 /\ closedEarly = FALSE

LowestFree(f) ==
  fds[f] = "free" /\ \A g \in Fds : fds[g] = "free" => f <= g

-----------------------------------------------------------------------------
(***************************************************************************)
(* The main thread, and the rest of the process.                           *)
(***************************************************************************)
EventFdCreate(f) ==
  /\ main = "create" /\ main' = "start"
  /\ LowestFree(f) /\ fds' = [fds EXCEPT ![f] = "efd"]
  /\ descriptorId' = f /\ mainOpen' = TRUE
  /\ UNCHANGED <<counter, others, shutdown, thread, event_fd, closedEarly>>

\* eventfd returns -1, and main hands that on.
EventFdCreateFails ==
  /\ main = "create" /\ main' = "start"
  /\ UNCHANGED <<fds, counter, others, descriptorId, mainOpen, shutdown, thread,
                 event_fd, closedEarly>>

StartThread ==
  /\ main = "start" /\ main' = "flag"
  /\ thread' = "new"
  /\ UNCHANGED <<fds, counter, others, descriptorId, mainOpen, shutdown, event_fd,
                 closedEarly>>

SetShutdown ==
  /\ main = "flag" /\ main' = "signal"
  /\ shutdown' = TRUE
  /\ UNCHANGED <<fds, counter, others, descriptorId, mainOpen, thread, event_fd,
                 closedEarly>>

\* write fails when the number is not open, and nobody looks at the result.
EventFdSignal ==
  /\ main = "signal" /\ main' = "sleep"
  /\ counter' = (counter \/ (descriptorId # -1 /\ fds[descriptorId] = "efd"))
  /\ UNCHANGED <<fds, others, descriptorId, mainOpen, shutdown, thread, event_fd,
                 closedEarly>>

\* At any time, once, and not only when it has signalled or joined the thread.
EventFdClose ==
  /\ mainOpen
  /\ fds' = [fds EXCEPT ![descriptorId] = "free"]
  /\ mainOpen' = FALSE
  /\ closedEarly' = (thread \in {"none", "new"})
  /\ UNCHANGED <<counter, others, main, descriptorId, shutdown, thread, event_fd>>

\* External: somebody else in the process opens a descriptor.
OpenOther(f) ==
  /\ others < MaxOthers /\ others' = others + 1
  /\ LowestFree(f) /\ fds' = [fds EXCEPT ![f] = "other"]
  /\ UNCHANGED <<counter, main, descriptorId, mainOpen, shutdown, thread, event_fd,
                 closedEarly>>

-----------------------------------------------------------------------------
(***************************************************************************)
(* The server thread.                                                      *)
(***************************************************************************)
DupSucceeds(f) ==
  descriptorId # -1 /\ fds[descriptorId] # "free" /\ LowestFree(f)

Duplicate_Share(f) ==
  /\ thread = "new" /\ thread' = "bind" /\ DupSucceeds(f)
  /\ event_fd' = descriptorId
  /\ UNCHANGED <<fds, counter, others, main, descriptorId, mainOpen, shutdown,
                 closedEarly>>

\* libc::dup: of the eventfd, or of what has taken its number.
Duplicate(f) ==
  /\ thread = "new" /\ thread' = "bind" /\ DupSucceeds(f)
  /\ fds' = [fds EXCEPT ![f] = fds[descriptorId]]
  /\ event_fd' = f
  /\ UNCHANGED <<counter, others, main, descriptorId, mainOpen, shutdown, closedEarly>>

\* There is nothing to duplicate (event_fd_id is -1), or dup fails, because the
\* number is not open, because the table is full or for want of memory:
\* event_fd is None, and construction goes on.
DuplicateFails ==
  /\ thread = "new" /\ thread' = "bind"
  /\ UNCHANGED <<fds, counter, others, main, descriptorId, mainOpen, shutdown,
                 event_fd, closedEarly>>

Constructed ==
  /\ thread = "bind" /\ thread' = "check"
  /\ UNCHANGED <<fds, counter, others, main, descriptorId, mainOpen, shutdown,
                 event_fd, closedEarly>>

DropEventFd_Leak == event_fd' = -1 /\ UNCHANGED fds

DropEventFd_KeepNumber ==
  /\ UNCHANGED event_fd
  /\ fds' = [f \in Fds |-> IF f = event_fd THEN "free" ELSE fds[f]]

\* Dropping an EventFd closes its descriptor.
DropEventFd ==
  /\ event_fd' = -1
  /\ fds' = [f \in Fds |-> IF f = event_fd THEN "free" ELSE fds[f]]

\* bind failed: __construct returns Err and drops what it had built.
ConstructFails ==
  /\ thread = "bind" /\ thread' = "done"
  /\ DropEventFd
  /\ UNCHANGED <<counter, others, main, descriptorId, mainOpen, shutdown, closedEarly>>

EnterTick_Unasked ==
  /\ thread = "check" /\ thread' = "tick"
  /\ UNCHANGED <<fds, counter, others, main, descriptorId, mainOpen, shutdown,
                 event_fd, closedEarly>>

EnterTick ==
  /\ thread = "check" /\ ~shutdown /\ thread' = "tick"
  /\ UNCHANGED <<fds, counter, others, main, descriptorId, mainOpen, shutdown,
                 event_fd, closedEarly>>

\* read_u64 takes the counter back to zero and tick breaks out of its loop.
TickReturns ==
  /\ thread = "tick" /\ thread' = "check"
  /\ event_fd # -1 /\ fds[event_fd] = "efd" /\ counter /\ counter' = FALSE
  /\ UNCHANGED <<fds, others, main, descriptorId, mainOpen, shutdown, event_fd,
                 closedEarly>>

\* External: what tick polls is somebody else's; it may have something to read.
TickMisled ==
  /\ thread = "tick" /\ thread' = "check"
  /\ event_fd # -1 /\ fds[event_fd] = "other"
  /\ UNCHANGED <<fds, counter, others, main, descriptorId, mainOpen, shutdown,
                 event_fd, closedEarly>>

CloseServer ==
  /\ thread = "check" /\ shutdown /\ thread' = "done"
  /\ DropEventFd
  /\ UNCHANGED <<counter, others, main, descriptorId, mainOpen, shutdown, closedEarly>>

-----------------------------------------------------------------------------
MainStep ==
  \/ \E f \in Fds : EventFdCreate(f)
  \/ EventFdCreateFails \/ StartThread \/ SetShutdown \/ EventFdSignal

ThreadStep ==
  \/ \E f \in Fds : Duplicate(f)
  \/ DuplicateFails \/ Constructed \/ ConstructFails
  \/ EnterTick \/ TickReturns \/ CloseServer

FdNext ==
  \/ MainStep \/ ThreadStep \/ EventFdClose \/ TickMisled
  \/ \E f \in Fds : OpenOther(f)

FdSpec == FdInit /\ [][FdNext]_fdVars

\* Both threads are scheduled, and tick returns when its eventfd fires: that is
\* SignalEndsTick of QuicheServer, which holds while traffic is finite.
FairFdSpec == FdSpec /\ WF_fdVars(MainStep) /\ WF_fdVars(ThreadStep)

-----------------------------------------------------------------------------
\* conn.rs:47-59: each side owns a descriptor of its own.  The one tick waits
\* on, if it has one, is not the one main closes, and it is the eventfd, unless
\* main had closed that before __construct duplicated it.
TickOwnsEventFd ==
  thread = "tick" /\ event_fd # -1 =>
    event_fd # descriptorId /\ (closedEarly \/ fds[event_fd] = "efd")

\* What the thread's descriptor refers to stays the same for as long as it is
\* the thread's, whatever main closes, and when, and whatever else is opened.
OwnedFdIsStable ==
  [][event_fd # -1 /\ event_fd' = event_fd => fds'[event_fd] = fds[event_fd]]_fdVars

\* When the thread is done, however it ended, the only descriptor of the
\* eventfd is main's.
NoLeakedFd ==
  thread = "done" =>
    \A f \in Fds : fds[f] = "efd" => mainOpen /\ f = descriptorId

\* Why: where the two threads are, and who owns what.  Main's number stays
\* taken until main closes it, so what __construct duplicates before that is
\* the eventfd, and the duplicate gets another number.
Owned(f) == (mainOpen /\ f = descriptorId) \/ f = event_fd

FdOwners ==
  /\ main = "create" => descriptorId = -1
  /\ closedEarly => ~mainOpen /\ main # "create"
  /\ main \in {"create", "start"} => thread = "none"
  /\ thread \in {"none", "new", "done"} => event_fd = -1
  /\ mainOpen => descriptorId # -1 /\ fds[descriptorId] = "efd"
  /\ thread \in {"none", "new"} => mainOpen \/ descriptorId = -1 \/ closedEarly
  /\ event_fd # -1 =>
       event_fd # descriptorId /\ (closedEarly \/ fds[event_fd] = "efd")
  /\ \A f \in Fds : fds[f] = "efd" => Owned(f)

\* tick has no eventfd to wait for.
Deaf == thread = "tick" /\ (event_fd = -1 \/ fds[event_fd] # "efd")

\* A thread that is told to stop, by the flag and a signal that got through,
\* stops, or is in a tick that no signal reaches: the signal is not missed if
\* it comes before tick waits for it, between two ticks, or before the server
\* exists.
ShutdownStopsThread == shutdown /\ counter ~> thread = "done" \/ Deaf

-----------------------------------------------------------------------------
(***************************************************************************)
(* What the comments of conn.rs say, and the code does not keep.           *)
(***************************************************************************)
\* conn.rs:51-53 and 57-59: main "can close that fd at any time", and the
\* worker's duplicate shares the same kernel eventfd object.
DuplicateIsEventFd ==
  thread = "tick" /\ event_fd # -1 => fds[event_fd] = "efd"

\* conn.rs:88-90: tick "returns when the timer fires", and does without a timer
\* when event_fd_id is -1.  A signal from a main that has its descriptor open
\* from the start of the thread on ends a thread that is told to stop.
SignalStopsThread == shutdown /\ counter ~> thread = "done" \/ closedEarly
=============================================================================
