-------------------------- MODULE WritePathProofs --------------------------
(***************************************************************************)
(* Theorems about WritePath, for any set of streams, any sizes of chunks   *)
(* and any capacity of the write channel.                                  *)
(***************************************************************************)
EXTENDS WritePath, SequenceTheorems, TLAPS

(***************************************************************************)
(* Type correctness, one lemma for each side.                              *)
(***************************************************************************)
LEMMA ChunkTypes ==
  ASSUME NEW s \in WriteStreams, NEW off \in Nat, NEW n \in Nat, NEW fin \in BOOLEAN
  PROVE  /\ [off |-> off, n |-> n, fin |-> fin] \in Chunk
         /\ [stream |-> s, chunk |-> [off |-> off, n |-> n, fin |-> fin]] \in StreamWriter
BY DEF Chunk, StreamWriter

LEMMA WriteInitType == WriteInit => WriteTypeOK
<1> SUFFICES ASSUME WriteInit PROVE WriteTypeOK
  OBVIOUS
<1>1. queue \in Seq(StreamWriter) /\ pending \in [WriteStreams -> Seq(Chunk)]
      /\ sent \in [WriteStreams -> Seq(Nat)]
  <2>1. <<>> \in Seq(StreamWriter) /\ <<>> \in Seq(Chunk) /\ <<>> \in Seq(Nat)
    OBVIOUS
  <2> QED
    BY <2>1, Zenon DEF WriteInit
<1>2. /\ written \in [WriteStreams -> Nat] /\ writes \in [WriteStreams -> Nat]
      /\ finAt \in [WriteStreams -> Nat \cup {-1}]
      /\ window \in [WriteStreams -> Nat] /\ granted \in [WriteStreams -> Nat]
  BY DEF WriteInit
<1> QED
  BY <1>1, <1>2, WritePathAssumption DEF WriteInit, WriteTypeOK, WorkerStates

LEMMA TrySendType ==
  ASSUME WriteTypeOK, NEW s \in WriteStreams, NEW n \in Nat, NEW fin \in BOOLEAN,
         TrySend(s, n, fin)
  PROVE  WriteTypeOK'
<1>1. written[s] \in Nat /\ written[s] + n \in Nat /\ writes[s] + 1 \in Nat
  BY DEF WriteTypeOK
<1>2. queue' \in Seq(StreamWriter)
  <2> DEFINE m == [stream |-> s, chunk |-> [off |-> written[s], n |-> n, fin |-> fin]]
  <2>1. m \in StreamWriter
    BY <1>1, ChunkTypes
  <2>2. queue' = Append(queue, m)
    BY DEF TrySend
  <2> HIDE DEF m
  <2> QED
    BY <2>1, <2>2 DEF WriteTypeOK
<1>3. written' \in [WriteStreams -> Nat] /\ writes' \in [WriteStreams -> Nat]
  BY <1>1 DEF TrySend, WriteTypeOK
<1>4. finAt' \in [WriteStreams -> Nat \cup {-1}]
  BY <1>1 DEF TrySend, WriteTypeOK
<1> QED
  BY <1>2, <1>3, <1>4 DEF TrySend, WriteTypeOK, quicheSide

LEMMA PhpType ==
  ASSUME WriteTypeOK, PhpStep
  PROVE  WriteTypeOK'
<1>1. CASE NotifyOne
  BY <1>1 DEF NotifyOne, WriteTypeOK, quicheSide
<1>2. ASSUME NEW s \in WriteStreams, Write(s) PROVE WriteTypeOK'
  BY <1>2, WritePathAssumption, TrySendType DEF Write
<1>3. ASSUME NEW s \in WriteStreams, CloseStream(s) PROVE WriteTypeOK'
  BY <1>3, TrySendType DEF CloseStream
<1> QED
  BY <1>1, <1>2, <1>3 DEF PhpStep

LEMMA PacketType ==
  ASSUME WriteTypeOK, NEW s \in WriteStreams, PacketStep(s)
  PROVE  WriteTypeOK'
<1> USE DEF BeginWrites, WriteTypeOK, WorkerStates, phpSide
<1>1. CASE WindowGrows(s) BY <1>1 DEF WindowGrows
<1>2. CASE LimitRises(s)  BY <1>2 DEF LimitRises
<1>3. CASE StopSending(s) BY <1>3 DEF StopSending
<1> QED
  BY <1>1, <1>2, <1>3 DEF PacketStep

\* The chunk at the head of a stream that is visited.
LEMMA HeadChunk ==
  ASSUME WriteTypeOK, NEW s \in WriteStreams, Visiting(s)
  PROVE  /\ pending[s] \in Seq(Chunk) /\ pending[s] # <<>>
         /\ pending[s][1] \in Chunk
         /\ pending[s][1].off \in Nat /\ pending[s][1].n \in Nat
         /\ pending[s][1].fin \in BOOLEAN
         /\ Tail(pending[s]) \in Seq(Chunk)
<1>1. pending[s] \in Seq(Chunk) /\ pending[s] # <<>>
  BY DEF WriteTypeOK, Visiting
<1>2. Head(pending[s]) = pending[s][1] /\ Head(pending[s]) \in Chunk
      /\ Tail(pending[s]) \in Seq(Chunk)
  BY <1>1, HeadTailProperties
<1> QED
  BY <1>1, <1>2 DEF Chunk

LEMMA AcceptedType ==
  ASSUME WriteTypeOK, NEW s \in WriteStreams, Visiting(s),
         NEW k \in Nat, k <= window[s], NEW fin \in BOOLEAN, Accepted(s, k, fin)
  PROVE  /\ sent' \in [WriteStreams -> Seq(Nat)]
         /\ window' \in [WriteStreams -> Nat] /\ window'[s] = window[s] - k
         /\ \A r \in WriteStreams \ {s} : window'[r] = window[r]
         /\ finSent' \in SUBSET WriteStreams
<1> DEFINE off == pending[s][1].off
           new == [i \in 1 .. k |-> off + i]
<1>1. off \in Nat
  BY HeadChunk
<1>2. new \in Seq(Nat)
  BY <1>1
<1>3. sent' = [sent EXCEPT ![s] = sent[s] \o new]
  BY DEF Accepted
<1> HIDE DEF new
<1>4. sent' \in [WriteStreams -> Seq(Nat)]
  BY <1>2, <1>3 DEF WriteTypeOK
<1>5. window[s] - k \in Nat
  BY DEF WriteTypeOK
<1> QED
  BY <1>4, <1>5 DEF Accepted, WriteTypeOK

LEMMA SendType ==
  ASSUME WriteTypeOK, NEW s \in WriteStreams, SendAll(s) \/ SendPart(s) \/ SendError(s)
  PROVE  WriteTypeOK'
<1>1. Visiting(s)
  BY DEF SendAll, SendPart, SendError
<1>2. CASE SendAll(s)
  <2>1. pending' \in [WriteStreams -> Seq(Chunk)]
    BY <1>1, <1>2, HeadChunk DEF SendAll, WriteTypeOK
  <2>2. /\ sent' \in [WriteStreams -> Seq(Nat)] /\ window' \in [WriteStreams -> Nat]
        /\ finSent' \in SUBSET WriteStreams
    BY <1>1, <1>2, HeadChunk, AcceptedType DEF SendAll
  <2> QED
    BY <1>2, <2>1, <2>2 DEF SendAll, WriteTypeOK, phpSide
<1>3. CASE SendPart(s)
  <2>1. window[s] \in Nat /\ window[s] < pending[s][1].n
    BY <1>3 DEF SendPart, WriteTypeOK
  <2>2. Remainder(pending[s][1], window[s]) \in Chunk
    <3>1. pending[s][1].n - window[s] \in Nat /\ pending[s][1].off + window[s] \in Nat
      BY <1>1, <2>1, HeadChunk
    <3> QED
      BY <1>1, <3>1, HeadChunk DEF Remainder, Chunk
  <2> DEFINE left == Remainder(pending[s][1], window[s])
  <2>3. pending' = [pending EXCEPT ![s] = [pending[s] EXCEPT ![1] = left]]
    BY <1>3 DEF SendPart
  <2> HIDE DEF left
  <2>4. [pending[s] EXCEPT ![1] = left] \in Seq(Chunk)
    BY <1>1, <2>2, HeadChunk DEF left
  <2>5. pending' \in [WriteStreams -> Seq(Chunk)]
    BY <2>3, <2>4 DEF WriteTypeOK
  <2>6. /\ sent' \in [WriteStreams -> Seq(Nat)] /\ window' \in [WriteStreams -> Nat]
        /\ finSent' \in SUBSET WriteStreams
    <3>1. Accepted(s, window[s], FALSE) /\ FALSE \in BOOLEAN
      BY <1>3, Zenon DEF SendPart
    <3>2. window[s] <= window[s]
      BY <2>1
    <3> QED
      BY <1>1, <2>1, <3>1, <3>2, AcceptedType, Zenon
  <2> QED
    BY <1>3, <2>5, <2>6 DEF SendPart, WriteTypeOK, phpSide
<1>4. CASE SendError(s)
  <2>1. pending' \in [WriteStreams -> Seq(Chunk)]
    BY <1>1, <1>4, HeadChunk DEF SendError, WriteTypeOK
  <2> QED
    BY <1>4, <2>1 DEF SendError, WriteTypeOK, phpSide, quicheSide
<1> QED
  BY <1>2, <1>3, <1>4

LEMMA WorkerType ==
  ASSUME WriteTypeOK, WorkerStep \/ DriverDropped
  PROVE  WriteTypeOK'
<1> USE DEF WorkerStates, phpSide, quicheSide
<1>1. CASE WaitForData BY <1>1 DEF WaitForData, BeginWrites, WriteTypeOK
<1>2. CASE DrainOne
  <2>1. queue \in Seq(StreamWriter) /\ queue # <<>>
    BY <1>2 DEF DrainOne, WriteTypeOK
  <2>2. Head(queue) \in StreamWriter /\ Tail(queue) \in Seq(StreamWriter)
    BY <2>1, HeadTailProperties
  <2>3. Head(queue).stream \in WriteStreams /\ Head(queue).chunk \in Chunk
    BY <2>2 DEF StreamWriter
  <2>4. pending' \in [WriteStreams -> Seq(Chunk)]
    BY <1>2, <2>3 DEF DrainOne, WriteTypeOK
  <2> QED
    BY <1>2, <2>2, <2>4 DEF DrainOne, WriteTypeOK
<1>3. CASE DrainEnds BY <1>3 DEF DrainEnds, WriteTypeOK
<1>4. CASE FlushEnds BY <1>4 DEF FlushEnds, WriteTypeOK
<1>5. ASSUME NEW s \in WriteStreams, VisitStream(s) \/ StreamFlushed(s) \/ SendBlocked(s)
      PROVE  WriteTypeOK'
  BY <1>5 DEF VisitStream, StreamFlushed, SendBlocked, WriteTypeOK
<1>6. ASSUME NEW s \in WriteStreams, SendAll(s) \/ SendPart(s) \/ SendError(s)
      PROVE  WriteTypeOK'
  BY <1>6, SendType
<1>7. CASE DriverDropped
  <2>1. <<>> \in Seq(StreamWriter) /\ <<>> \in Seq(Chunk)
    OBVIOUS
  <2>2. queue' \in Seq(StreamWriter) /\ pending' \in [WriteStreams -> Seq(Chunk)]
    BY <1>7, <2>1, Zenon DEF DriverDropped
  <2> QED
    BY <1>7, <2>2 DEF DriverDropped, WriteTypeOK
<1> QED
  BY <1>1, <1>2, <1>3, <1>4, <1>5, <1>6, <1>7 DEF WorkerStep

LEMMA WriteStepType == WriteTypeOK /\ [WriteNext]_writeVars => WriteTypeOK'
<1> SUFFICES ASSUME WriteTypeOK, [WriteNext]_writeVars PROVE WriteTypeOK'
  OBVIOUS
<1>1. CASE UNCHANGED writeVars
  BY <1>1 DEF writeVars, phpSide, quicheSide, WriteTypeOK
<1> QED
  BY <1>1, PhpType, PacketType, WorkerType DEF WriteNext

\* Every reachable state of the write path has its type, for any streams and
\* sizes: in particular the remainder of a partial write is never negative.
THEOREM WriteTypeCorrect == WriteSpec => []WriteTypeOK
<1>1. WriteTypeOK /\ [WriteNext]_writeVars => WriteTypeOK'
  BY WriteStepType
<1> QED
  BY <1>1, WriteInitType, PTL DEF WriteSpec

-----------------------------------------------------------------------------
(***************************************************************************)
(* No lost wakeup.                                                         *)
(***************************************************************************)
LEMMA RungForHolds == RungFor /\ [WriteNext]_writeVars => RungFor'
<1> SUFFICES ASSUME RungFor, [WriteNext]_writeVars PROVE RungFor'
  OBVIOUS
<1>1. CASE PhpStep
  BY <1>1 DEF PhpStep, NotifyOne, Write, CloseStream, TrySend, RungFor
<1>2. CASE WorkerStep \/ DriverDropped
  <2>1. CASE WaitForData \/ DrainOne \/ DrainEnds \/ FlushEnds \/ DriverDropped
    BY <2>1 DEF WaitForData, BeginWrites, DrainOne, DrainEnds, FlushEnds, DriverDropped,
                RungFor, phpSide
  <2>2. ASSUME NEW s \in WriteStreams,
               \/ VisitStream(s) \/ StreamFlushed(s)
               \/ SendAll(s) \/ SendPart(s) \/ SendBlocked(s) \/ SendError(s)
        PROVE  RungFor'
    BY <2>2 DEF VisitStream, StreamFlushed, SendAll, SendPart, SendBlocked, SendError,
                RungFor, phpSide
  <2> QED
    BY <1>2, <2>1, <2>2 DEF WorkerStep
<1>3. ASSUME NEW s \in WriteStreams, PacketStep(s) PROVE RungFor'
  BY <1>3 DEF PacketStep, WindowGrows, LimitRises, StopSending, BeginWrites, RungFor
<1>4. CASE UNCHANGED writeVars
  BY <1>4 DEF writeVars, phpSide, RungFor
<1> QED
  BY <1>1, <1>2, <1>3, <1>4 DEF WriteNext

\* try_send and notify_one are two steps of the PHP thread and the worker may
\* be anywhere in between: whatever the capacity of the channel, no chunk
\* waits in it for a worker that nobody is going to wake.
THEOREM Rung == WriteSpec => []NoLostWakeup
<1>1. WriteInit => RungFor
  BY DEF WriteInit, RungFor
<1>2. RungFor /\ [WriteNext]_writeVars => RungFor'
  BY RungForHolds
<1>3. RungFor => NoLostWakeup
  BY DEF RungFor, NoLostWakeup
<1> QED
  BY <1>1, <1>2, <1>3, PTL DEF WriteSpec

-----------------------------------------------------------------------------
(***************************************************************************)
(* No starvation: the flush visits every stream, and leaves one only when  *)
(* its queue is empty or its window used up.                               *)
(***************************************************************************)
LEMMA LeftBlockedSends ==
  ASSUME WriteTypeOK, LeftBlocked, NEW s \in WriteStreams,
         SendAll(s) \/ SendPart(s) \/ SendError(s)
  PROVE  LeftBlocked'
<1>1. Visiting(s)
  BY DEF SendAll, SendPart, SendError
<1>2. at = {s} /\ worker = "flush"
  BY <1>1 DEF Visiting, LeftBlocked
<1>3. \A r \in WriteStreams \ {s} : pending'[r] = pending[r]
  BY DEF SendAll, SendPart, SendError, WriteTypeOK
<1>4. CASE SendAll(s)
  <2>1. \A r \in WriteStreams \ {s} : window'[r] = window[r]
    BY <1>1, <1>4, HeadChunk, AcceptedType DEF SendAll
  <2> QED
    BY <1>2, <1>3, <1>4, <2>1 DEF SendAll, LeftBlocked
<1>5. CASE SendPart(s)
  <2>1. window[s] \in Nat /\ window[s] <= window[s] /\ window[s] - window[s] = 0
    BY DEF WriteTypeOK
  <2>2. /\ window'[s] = 0
        /\ \A r \in WriteStreams \ {s} : window'[r] = window[r]
    <3>1. Accepted(s, window[s], FALSE) /\ FALSE \in BOOLEAN
      BY <1>5, Zenon DEF SendPart
    <3> QED
      BY <1>1, <2>1, <3>1, AcceptedType, Zenon
  <2> QED
    BY <1>2, <1>3, <1>5, <2>2 DEF SendPart, LeftBlocked
<1>6. CASE SendError(s)
  BY <1>2, <1>3, <1>6 DEF SendError, LeftBlocked, quicheSide
<1> QED
  BY <1>4, <1>5, <1>6

LEMMA LeftBlockedHolds ==
  WriteTypeOK /\ LeftBlocked /\ [WriteNext]_writeVars => LeftBlocked'
<1> SUFFICES ASSUME WriteTypeOK, LeftBlocked, [WriteNext]_writeVars PROVE LeftBlocked'
  OBVIOUS
<1>1. CASE PhpStep
  BY <1>1 DEF PhpStep, NotifyOne, Write, CloseStream, TrySend, LeftBlocked, quicheSide
<1>2. CASE WaitForData
  BY <1>2 DEF WaitForData, BeginWrites, LeftBlocked
<1>3. ASSUME NEW s \in WriteStreams, PacketStep(s) PROVE LeftBlocked'
  BY <1>3 DEF PacketStep, WindowGrows, LimitRises, StopSending, BeginWrites, LeftBlocked
<1>4. CASE DrainOne
  BY <1>4 DEF DrainOne, LeftBlocked
<1>5. CASE DrainEnds
  BY <1>5 DEF DrainEnds, LeftBlocked, quicheSide
<1>6. CASE FlushEnds \/ DriverDropped
  BY <1>6 DEF FlushEnds, DriverDropped, LeftBlocked, quicheSide
<1>7. ASSUME NEW s \in WriteStreams, VisitStream(s) PROVE LeftBlocked'
  BY <1>7 DEF VisitStream, LeftBlocked, quicheSide
<1>8. ASSUME NEW s \in WriteStreams, StreamFlushed(s) \/ SendBlocked(s) PROVE LeftBlocked'
  <2>1. at = {s} /\ at' = {} /\ worker = "flush" /\ (pending[s] # <<>> => window[s] = 0)
    BY <1>8 DEF StreamFlushed, SendBlocked, Visiting, LeftBlocked
  <2>2. UNCHANGED <<worker, pending, todo, window>>
    BY <1>8 DEF StreamFlushed, SendBlocked, quicheSide
  <2> QED
    BY <2>1, <2>2 DEF LeftBlocked
<1>9. ASSUME NEW s \in WriteStreams, SendAll(s) \/ SendPart(s) \/ SendError(s)
      PROVE  LeftBlocked'
  BY <1>9, LeftBlockedSends
<1>10. CASE UNCHANGED writeVars
  BY <1>10 DEF writeVars, quicheSide, LeftBlocked
<1> QED
  BY <1>1, <1>2, <1>3, <1>4, <1>5, <1>6, <1>7, <1>8, <1>9, <1>10 DEF WriteNext, WorkerStep

\* driver.rs:40-42 and 144-145: a stream that quiche will not take keeps no
\* other stream from being tried, for any number of streams and chunks.
THEOREM NoneStarved == WriteSpec => []NoStarvation
<1> DEFINE Inv == WriteTypeOK /\ LeftBlocked
<1>1. WriteInit => Inv
  BY WriteInitType DEF WriteInit, LeftBlocked
<1>2. Inv /\ [WriteNext]_writeVars => Inv'
  BY WriteStepType, LeftBlockedHolds
<1>3. Inv => NoStarvation
  BY DEF LeftBlocked, NoStarvation
<1> QED
  BY <1>1, <1>2, <1>3, PTL DEF WriteSpec
=============================================================================
