--------------------------- MODULE EventFdProofs ---------------------------
(***************************************************************************)
(* Theorems about EventFdShutdown, for any table of descriptors, also one  *)
(* that is full, and any number of descriptors the rest of the process     *)
(* opens.                                                                  *)
(***************************************************************************)
EXTENDS EventFdShutdown, TLAPS

FdInv == FdTypeOK /\ FdOwners

LEMMA FdInitInv == FdInit => FdInv
<1> SUFFICES ASSUME FdInit PROVE FdInv
  OBVIOUS
<1>1. FdTypeOK
  <2>1. others \in 0 .. MaxOthers
    BY EventFdAssumption DEF FdInit
  <2>2. fds \in [Fds -> {"free", "efd", "other"}]
    BY DEF FdInit
  <2>3. descriptorId \in Fds \cup {-1} /\ event_fd \in Fds \cup {-1} /\ ~(event_fd # -1)
    BY Zenon DEF FdInit
  <2> QED
    BY <2>1, <2>2, <2>3, Zenon DEF FdInit, FdTypeOK, MainStates, ThreadStates
<1>2. FdOwners
  BY DEF FdInit, FdOwners
<1> QED
  BY <1>1, <1>2 DEF FdInv

\* A descriptor that is opened takes a number nobody owns.
LEMMA FreeIsNotOwned ==
  ASSUME FdInv, NEW f \in Fds, LowestFree(f)
  PROVE  /\ fds[f] = "free" /\ f # -1 /\ f # event_fd
         /\ mainOpen => f # descriptorId
BY EventFdAssumption DEF FdInv, FdTypeOK, FdOwners, LowestFree

LEMMA MainKeepsInv ==
  ASSUME FdInv, MainStep \/ EventFdClose \/ \E f \in Fds : OpenOther(f)
  PROVE  FdInv'
<1> USE EventFdAssumption DEF FdInv, FdTypeOK, FdOwners, Owned, MainStates, ThreadStates
<1>1. ASSUME NEW f \in Fds, EventFdCreate(f) PROVE FdInv'
  BY <1>1, FreeIsNotOwned DEF EventFdCreate
<1>7. CASE EventFdCreateFails BY <1>7 DEF EventFdCreateFails
<1>2. CASE StartThread   BY <1>2 DEF StartThread
<1>3. CASE SetShutdown   BY <1>3 DEF SetShutdown
<1>4. CASE EventFdSignal BY <1>4 DEF EventFdSignal
<1>5. CASE EventFdClose
  <2>1. /\ mainOpen /\ mainOpen' = FALSE /\ descriptorId \in Fds
        /\ closedEarly' = (thread \in {"none", "new"})
        /\ UNCHANGED <<counter, others, main, descriptorId, shutdown, thread, event_fd>>
    BY <1>5 DEF EventFdClose
  <2>2. \A f \in Fds : fds'[f] = IF f = descriptorId THEN "free" ELSE fds[f]
    BY <1>5 DEF EventFdClose
  <2>3. fds' \in [Fds -> {"free", "efd", "other"}]
    BY <1>5 DEF EventFdClose
  <2>4. closedEarly' \in BOOLEAN
    <3> DEFINE early == thread \in {"none", "new"}
    <3>1. early \in BOOLEAN /\ closedEarly' = early
      BY <2>1
    <3> HIDE DEF early
    <3> QED
      BY <3>1
  <2>5. FdTypeOK'
    <3>1. event_fd' # -1 => fds'[event_fd'] # "free"
      BY <2>1, <2>2
    <3>2. /\ counter \in BOOLEAN /\ others \in 0 .. MaxOthers /\ main \in MainStates
          /\ descriptorId \in Fds \cup {-1} /\ shutdown \in BOOLEAN
          /\ thread \in ThreadStates /\ event_fd \in Fds \cup {-1}
      OBVIOUS
    <3> HIDE DEF MainStates, ThreadStates
    <3> QED
      BY <2>1, <2>3, <2>4, <3>1, <3>2, Zenon
  <2>6. thread \in {"none", "new"} => closedEarly'
    BY <2>1, Zenon
  <2>7. FdOwners'
    BY <2>1, <2>2, <2>6
  <2> QED
    BY <2>5, <2>7
<1>6. ASSUME NEW f \in Fds, OpenOther(f) PROVE FdInv'
  BY <1>6, FreeIsNotOwned DEF OpenOther
<1> QED
  BY <1>1, <1>2, <1>3, <1>4, <1>5, <1>6, <1>7 DEF MainStep

LEMMA ThreadKeepsInv ==
  ASSUME FdInv, ThreadStep \/ TickMisled
  PROVE  FdInv'
<1> USE EventFdAssumption DEF FdInv, FdTypeOK, FdOwners, Owned, MainStates, ThreadStates
<1>1. ASSUME NEW f \in Fds, Duplicate(f) PROVE FdInv'
  BY <1>1, FreeIsNotOwned DEF Duplicate, DupSucceeds
<1>2. CASE DuplicateFails BY <1>2 DEF DuplicateFails
<1>3. CASE Constructed    BY <1>3 DEF Constructed
<1>4. CASE ConstructFails BY <1>4 DEF ConstructFails, DropEventFd
<1>5. CASE EnterTick      BY <1>5 DEF EnterTick
<1>6. CASE TickReturns    BY <1>6 DEF TickReturns
<1>7. CASE CloseServer    BY <1>7 DEF CloseServer, DropEventFd
<1>8. CASE TickMisled     BY <1>8 DEF TickMisled
<1> QED
  BY <1>1, <1>2, <1>3, <1>4, <1>5, <1>6, <1>7, <1>8 DEF ThreadStep

LEMMA FdStepInv == FdInv /\ [FdNext]_fdVars => FdInv'
<1> SUFFICES ASSUME FdInv, [FdNext]_fdVars PROVE FdInv'
  OBVIOUS
<1>1. CASE UNCHANGED fdVars
  BY <1>1 DEF fdVars, FdInv, FdTypeOK, FdOwners, Owned
<1> QED
  BY <1>1, MainKeepsInv, ThreadKeepsInv DEF FdNext

\* Every variable has its type, and the descriptor the server object owns is an
\* open one, whatever else in the process is opened and closed meanwhile.
THEOREM FdTypeCorrect == FdSpec => []FdTypeOK
<1>1. FdInv => FdTypeOK
  BY DEF FdInv
<1> QED
  BY <1>1, FdInitInv, FdStepInv, PTL DEF FdSpec

\* conn.rs:47-59: the descriptor tick polls, when dup has given it one, is its
\* own and not main's, and is the eventfd unless main had closed that before
\* dup: at any time after, main may close it.
THEOREM TickOwns == FdSpec => []TickOwnsEventFd
<1>1. FdInv => TickOwnsEventFd
  BY DEF FdInv, FdOwners, TickOwnsEventFd
<1> QED
  BY <1>1, FdInitInv, FdStepInv, PTL DEF FdSpec

\* From __construct to close() the thread's descriptor refers to the same
\* object: neither main, whenever it closes its own, nor whoever takes the
\* number main has freed can change what tick waits for.
THEOREM FdIsStable == FdSpec => OwnedFdIsStable
<1> DEFINE Stable == event_fd # -1 /\ event_fd' = event_fd => fds'[event_fd] = fds[event_fd]
<1>1. FdInv /\ [FdNext]_fdVars => [Stable]_fdVars
  <2> SUFFICES ASSUME FdInv, FdNext, event_fd # -1, event_fd' = event_fd
               PROVE  fds'[event_fd] = fds[event_fd]
    BY DEF fdVars
  <2>1. /\ fds \in [Fds -> {"free", "efd", "other"}] /\ event_fd \in Fds
        /\ fds[event_fd] # "free" /\ event_fd # descriptorId /\ thread # "new"
    BY DEF FdInv, FdTypeOK, FdOwners
  <2>2. ASSUME NEW f \in Fds, EventFdCreate(f) \/ OpenOther(f) PROVE fds'[event_fd] = fds[event_fd]
    BY <2>1, <2>2 DEF EventFdCreate, OpenOther, LowestFree
  <2>3. CASE EventFdClose
    BY <2>1, <2>3 DEF EventFdClose
  <2>4. CASE EventFdCreateFails \/ StartThread \/ SetShutdown \/ EventFdSignal \/ TickMisled
    BY <2>4 DEF EventFdCreateFails, StartThread, SetShutdown, EventFdSignal, TickMisled
  <2>5. CASE ThreadStep
    BY <2>1, <2>5 DEF ThreadStep, Duplicate, DuplicateFails, Constructed, ConstructFails,
                      DropEventFd, EnterTick, TickReturns, CloseServer
  <2> QED
    BY <2>2, <2>3, <2>4, <2>5 DEF FdNext, MainStep
<1> QED
  BY <1>1, FdInitInv, FdStepInv, PTL DEF FdSpec, OwnedFdIsStable

\* However the server thread ends, by close(), or by a __construct that fails
\* when the duplicate already exists, it leaves no descriptor behind.
THEOREM NoneLeaked == FdSpec => []NoLeakedFd
<1>1. FdInv => NoLeakedFd
  BY EventFdAssumption DEF FdInv, FdOwners, Owned, NoLeakedFd
<1> QED
  BY <1>1, FdInitInv, FdStepInv, PTL DEF FdSpec
=============================================================================
