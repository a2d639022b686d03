----------------------------- MODULE PipeProofs -----------------------------
(***************************************************************************)
(* The write path implements a pipe per stream the peer's limit allows,    *)
(* for any set of streams, any sizes of chunks, any windows, any capacity  *)
(* of the write channel, and whatever the peer stops.                      *)
(*                                                                         *)
(* The chunks of a stream wait in two places, pending_writes and the write *)
(* channel.  Together they are a line: what is in pending_writes has the   *)
(* places up to 0, what is in the channel those from 1.                    *)
(***************************************************************************)
EXTENDS WritePathProofs

\* The chunks of a line lead from what quiche has taken to what PHP has written.
First(D, i) == \A l \in D : i <= l
Last(D, i) == \A l \in D : l <= i
Adjacent(D, i, j) == i < j /\ \A l \in D : l <= i \/ j <= l

Links(L, from, to) ==
  /\ DOMAIN L = {} => from = to
  /\ \A i \in DOMAIN L :
       /\ First(DOMAIN L, i) => L[i].off = from
       /\ Last(DOMAIN L, i) => L[i].off + L[i].n = to
       /\ \A j \in DOMAIN L : Adjacent(DOMAIN L, i, j) => L[j].off = L[i].off + L[i].n

\* Nothing in front of the first FIN goes beyond it, and it is where finAt says.
Within(L, i, to, fa) ==
  \/ \E j \in DOMAIN L : j < i /\ L[j].fin
  \/ fa = -1 /\ ~L[i].fin
  \/ fa # -1 /\ L[i].off + L[i].n <= fa /\ (L[i].fin => L[i].off + L[i].n = fa)

Whole(L, from, to, fa) ==
  /\ from \in Nat /\ to \in Nat /\ fa \in Nat \cup {-1}
  /\ DOMAIN L \subseteq Int /\ \A i \in DOMAIN L : L[i] \in Chunk
  /\ Links(L, from, to)
  /\ \A i \in DOMAIN L : L[i].off + L[i].n <= to /\ Within(L, i, to, fa)
  /\ fa # -1 => \E i \in DOMAIN L : L[i].fin

-----------------------------------------------------------------------------
(***************************************************************************)
(* What may happen to a line.                                              *)
(***************************************************************************)
LEMMA ChunkFields ==
  ASSUME NEW ch \in Chunk
  PROVE  ch.off \in Nat /\ ch.n \in Nat /\ ch.fin \in BOOLEAN
BY DEF Chunk

LEMMA LineTypes ==
  ASSUME NEW L, NEW from, NEW to, NEW fa, Whole(L, from, to, fa)
  PROVE  /\ DOMAIN L \subseteq Int /\ Links(L, from, to)
         /\ from \in Nat /\ to \in Nat /\ fa \in Nat \cup {-1}
         /\ \A i \in DOMAIN L : L[i] \in Chunk /\ L[i].off \in Nat /\ L[i].n \in Nat
BY ChunkFields DEF Whole

\* A chunk is written: it goes to the end, and may be the first with the FIN.
LEMMA LinePush ==
  ASSUME NEW L, NEW M, NEW from, NEW to, NEW fa, Whole(L, from, to, fa),
         NEW k \in Int, DOMAIN M = DOMAIN L \cup {k},
         \A i \in DOMAIN L : i < k /\ M[i] = L[i],
         M[k] \in Chunk, M[k].off = to
  PROVE  Whole(M, from, to + M[k].n, IF M[k].fin /\ fa = -1 THEN to + M[k].n ELSE fa)
<1> DEFINE n == M[k].n
           fb == IF M[k].fin /\ fa = -1 THEN to + n ELSE fa
<1>1. /\ n \in Nat /\ from \in Nat /\ to \in Nat /\ fa \in Nat \cup {-1}
      /\ DOMAIN L \subseteq Int /\ \A i \in DOMAIN L : L[i] \in Chunk
  BY ChunkFields DEF Whole
<1>2. \A i \in DOMAIN L : L[i].off \in Nat /\ L[i].n \in Nat
  BY <1>1, ChunkFields
<1>3. Links(M, from, to + n)
  <2>1. Links(L, from, to)
    BY DEF Whole
  <2>2. ASSUME NEW i \in DOMAIN M, First(DOMAIN M, i) PROVE M[i].off = from
    <3>1. CASE i \in DOMAIN L
      BY <2>1, <2>2, <3>1 DEF Links, First
    <3>2. CASE i = k
      <4>1. ASSUME NEW l \in DOMAIN L PROVE FALSE
        <5>1. l < k /\ k <= l /\ l \in Int
          BY <1>1, <2>2, <3>2 DEF First
        <5> QED
          BY <5>1
      <4> QED
        BY <2>1, <3>2, <4>1 DEF Links
    <3> QED
      BY <3>1, <3>2
  <2>3. ASSUME NEW i \in DOMAIN M, Last(DOMAIN M, i) PROVE M[i].off + M[i].n = to + n
    <3>1. i = k
      BY <1>1, <2>3 DEF Last
    <3> QED
      BY <3>1
  <2>4. ASSUME NEW i \in DOMAIN M, NEW j \in DOMAIN M, Adjacent(DOMAIN M, i, j)
        PROVE  M[j].off = M[i].off + M[i].n
    <3>1. i \in DOMAIN L
      BY <1>1, <2>4 DEF Adjacent
    <3>2. CASE j \in DOMAIN L
      BY <2>1, <2>4, <3>1, <3>2 DEF Links, Adjacent
    <3>3. CASE j = k
      <4>1. Last(DOMAIN L, i)
        BY <1>1, <2>4, <3>1, <3>3 DEF Adjacent, Last
      <4> QED
        BY <2>1, <3>1, <3>3, <4>1 DEF Links
    <3> QED
      BY <3>2, <3>3
  <2> QED
    BY <2>2, <2>3, <2>4 DEF Links
<1>4. ASSUME NEW i \in DOMAIN L
      PROVE  M[i].off + M[i].n <= to + n /\ Within(M, i, to + n, fb)
  <2>1. L[i].off + L[i].n <= to /\ Within(L, i, to, fa) /\ M[i] = L[i]
    BY <1>4 DEF Whole
  <2>2. (\E j \in DOMAIN L : j < i /\ L[j].fin) => \E j \in DOMAIN M : j < i /\ M[j].fin
    OBVIOUS
  <2> QED
    BY <1>1, <1>2, <2>1, <2>2 DEF Within
<1>5. M[k].off + M[k].n <= to + n /\ Within(M, k, to + n, fb)
  <2>1. CASE fa = -1
    BY <1>1, <2>1 DEF Within
  <2>2. CASE fa # -1
    <3>1. \E i \in DOMAIN L : L[i].fin
      BY <2>2 DEF Whole
    <3>2. \E j \in DOMAIN M : j < k /\ M[j].fin
      BY <3>1
    <3> QED
      BY <1>1, <3>2 DEF Within
  <2> QED
    BY <2>1, <2>2
<1>6. fb # -1 => \E i \in DOMAIN M : M[i].fin
  <2>1. CASE fa = -1
    BY <2>1
  <2>2. CASE fa # -1
    BY <2>2 DEF Whole
  <2> QED
    BY <2>1, <2>2
<1> HIDE DEF fb
<1>7. fb \in Nat \cup {-1}
  BY <1>1 DEF fb
<1>8. Whole(M, from, to + n, fb)
  BY <1>1, <1>3, <1>4, <1>5, <1>6, <1>7 DEF Whole
<1> QED
  BY <1>8 DEF fb

\* M holds the chunks of L in the same order at other places: old is where each
\* chunk was.
Renumbers(M, L, old) ==
  /\ DOMAIN M \subseteq Int
  /\ old \in [DOMAIN M -> DOMAIN L]
  /\ \A i \in DOMAIN M : M[i] = L[old[i]]
  /\ \A i \in DOMAIN L : \E j \in DOMAIN M : old[j] = i
  /\ \A i, j \in DOMAIN M : i < j <=> old[i] < old[j]

\* A chunk is moved from the channel to pending_writes: only the places change.
LEMMA LineMove ==
  ASSUME NEW L, NEW M, NEW old, Renumbers(M, L, old),
         NEW from, NEW to, NEW fa, Whole(L, from, to, fa)
  PROVE  Whole(M, from, to, fa)
<1>0. /\ DOMAIN M \subseteq Int
      /\ old \in [DOMAIN M -> DOMAIN L]
      /\ \A i \in DOMAIN M : M[i] = L[old[i]]
      /\ \A i \in DOMAIN L : \E j \in DOMAIN M : old[j] = i
      /\ \A i, j \in DOMAIN M : i < j <=> old[i] < old[j]
  BY DEF Renumbers
<1>1. /\ DOMAIN L \subseteq Int /\ Links(L, from, to)
      /\ \A i \in DOMAIN M : old[i] \in DOMAIN L
      /\ \A i, j \in DOMAIN M : i <= j <=> old[i] <= old[j]
  BY <1>0 DEF Whole
<1>2. Links(M, from, to)
  <2>1. DOMAIN M = {} => DOMAIN L = {}
    BY <1>0
  <2>2. \A i \in DOMAIN M : /\ First(DOMAIN M, i) => First(DOMAIN L, old[i])
                            /\ Last(DOMAIN M, i) => Last(DOMAIN L, old[i])
    BY <1>0, <1>1 DEF First, Last
  <2>3. \A i, j \in DOMAIN M : Adjacent(DOMAIN M, i, j) => Adjacent(DOMAIN L, old[i], old[j])
    BY <1>0, <1>1 DEF Adjacent
  <2> QED
    BY <1>0, <1>1, <2>1, <2>2, <2>3 DEF Links
<1>3. ASSUME NEW i \in DOMAIN M PROVE M[i].off + M[i].n <= to /\ Within(M, i, to, fa)
  <2>1. L[old[i]].off + L[old[i]].n <= to /\ Within(L, old[i], to, fa)
    BY <1>1 DEF Whole
  <2>2. (\E j \in DOMAIN L : j < old[i] /\ L[j].fin) => \E j \in DOMAIN M : j < i /\ M[j].fin
    BY <1>0
  <2> QED
    BY <1>0, <2>1, <2>2 DEF Within
<1>4. fa # -1 => \E i \in DOMAIN M : M[i].fin
  BY <1>0 DEF Whole
<1> QED
  BY <1>0, <1>1, <1>2, <1>3, <1>4 DEF Whole

\* What the chunk at the head says of the end of the stream.
LEMMA LineHead ==
  ASSUME NEW L, NEW from, NEW to, NEW fa, Whole(L, from, to, fa),
         NEW i \in DOMAIN L, First(DOMAIN L, i)
  PROVE  /\ L[i] \in Chunk /\ L[i].off = from
         /\ from + L[i].n <= IF fa = -1 THEN to ELSE fa
         /\ L[i].fin => from + L[i].n = fa
<1>1. /\ L[i] \in Chunk /\ L[i].off = from /\ L[i].off + L[i].n <= to
      /\ Within(L, i, to, fa) /\ DOMAIN L \subseteq Int
  BY DEF Whole, Links
<1>2. ~ \E j \in DOMAIN L : j < i
  BY <1>1 DEF First
<1> QED
  BY <1>1, <1>2 DEF Within

\* quiche takes the chunk at the head, which does not have the FIN.
LEMMA LineTake ==
  ASSUME NEW L, NEW M, NEW from, NEW to, NEW fa, Whole(L, from, to, fa),
         NEW k \in DOMAIN L, First(DOMAIN L, k), L[k].fin = FALSE,
         DOMAIN M = DOMAIN L \ {k}, \A i \in DOMAIN M : M[i] = L[i]
  PROVE  Whole(M, from + L[k].n, to, fa)
<1>1. /\ DOMAIN L \subseteq Int /\ Links(L, from, to) /\ from \in Nat /\ to \in Nat
      /\ \A i \in DOMAIN L : L[i] \in Chunk /\ L[i].off \in Nat /\ L[i].n \in Nat
      /\ L[k].off = from
  BY LineTypes, LineHead
<1>2. Links(M, from + L[k].n, to)
  <2>1. ASSUME DOMAIN M = {} PROVE from + L[k].n = to
    <3>1. Last(DOMAIN L, k)
      BY <1>1, <2>1 DEF Last
    <3> QED
      BY <1>1, <3>1 DEF Links
  <2>2. ASSUME NEW i \in DOMAIN M, First(DOMAIN M, i) PROVE M[i].off = from + L[k].n
    <3>1. Adjacent(DOMAIN L, k, i)
      BY <1>1, <2>2 DEF First, Adjacent
    <3> QED
      BY <1>1, <3>1 DEF Links
  <2>3. ASSUME NEW i \in DOMAIN M, Last(DOMAIN M, i) PROVE M[i].off + M[i].n = to
    <3>1. Last(DOMAIN L, i)
      BY <1>1, <2>3 DEF First, Last
    <3> QED
      BY <1>1, <3>1 DEF Links
  <2>4. ASSUME NEW i \in DOMAIN M, NEW j \in DOMAIN M, Adjacent(DOMAIN M, i, j)
        PROVE  M[j].off = M[i].off + M[i].n
    <3>1. Adjacent(DOMAIN L, i, j)
      BY <1>1, <2>4 DEF First, Adjacent
    <3> QED
      BY <1>1, <3>1 DEF Links
  <2> QED
    BY <2>1, <2>2, <2>3, <2>4 DEF Links
<1>3. \A j \in DOMAIN L : L[j].fin => j \in DOMAIN M /\ M[j].fin
  OBVIOUS
<1>4. ASSUME NEW i \in DOMAIN M PROVE M[i].off + M[i].n <= to /\ Within(M, i, to, fa)
  <2>1. L[i].off + L[i].n <= to /\ Within(L, i, to, fa) /\ M[i] = L[i]
    BY DEF Whole
  <2> QED
    BY <1>3, <2>1 DEF Within
<1>5. fa # -1 => \E i \in DOMAIN M : M[i].fin
  BY <1>3 DEF Whole
<1> QED
  BY <1>1, <1>2, <1>4, <1>5 DEF Whole

\* quiche takes d units of the chunk at the head.
LEMMA LinePart ==
  ASSUME NEW L, NEW M, NEW from, NEW to, NEW fa, Whole(L, from, to, fa),
         NEW k \in DOMAIN L, First(DOMAIN L, k), NEW d \in Nat, d <= L[k].n,
         DOMAIN M = DOMAIN L, \A i \in DOMAIN M : i # k => M[i] = L[i],
         M[k] \in Chunk, M[k].off = L[k].off + d, M[k].n = L[k].n - d, M[k].fin = L[k].fin
  PROVE  Whole(M, from + d, to, fa)
<1>1. /\ DOMAIN L \subseteq Int /\ Links(L, from, to) /\ from \in Nat /\ to \in Nat
      /\ \A i \in DOMAIN L : L[i] \in Chunk /\ L[i].off \in Nat /\ L[i].n \in Nat
      /\ L[k].off = from
  BY LineTypes, LineHead
<1>2. \A i \in DOMAIN L : /\ M[i].off + M[i].n = L[i].off + L[i].n
                          /\ M[i].fin = L[i].fin /\ M[i] \in Chunk
                          /\ i # k => M[i].off = L[i].off
  BY <1>1
<1>3. Links(M, from + d, to)
  <2>1. \A i \in DOMAIN M : First(DOMAIN M, i) => i = k
    BY <1>1 DEF First
  <2>2. \A i, j \in DOMAIN M : Adjacent(DOMAIN M, i, j) => j # k
    BY <1>1 DEF First, Adjacent
  <2> QED
    BY <1>1, <1>2, <2>1, <2>2 DEF Links
<1>4. ASSUME NEW i \in DOMAIN M PROVE M[i].off + M[i].n <= to /\ Within(M, i, to, fa)
  <2>1. L[i].off + L[i].n <= to /\ Within(L, i, to, fa)
    BY DEF Whole
  <2>2. (\E j \in DOMAIN L : j < i /\ L[j].fin) => \E j \in DOMAIN M : j < i /\ M[j].fin
    BY <1>2
  <2> QED
    BY <1>2, <2>1, <2>2 DEF Within
<1>5. fa # -1 => \E i \in DOMAIN M : M[i].fin
  BY <1>2 DEF Whole
<1> QED
  BY <1>1, <1>2, <1>3, <1>4, <1>5 DEF Whole

-----------------------------------------------------------------------------
(***************************************************************************)
(* The line of stream s, when p is what is pending and q is in the channel.*)
(***************************************************************************)
Places(p, q, s) ==
  {i \in Int : IF i <= 0 THEN i + Len(p) \in DOMAIN p
                         ELSE i \in DOMAIN q /\ q[i].stream = s}

LineOf(p, q, s) ==
  [i \in Places(p, q, s) |-> IF i <= 0 THEN p[i + Len(p)] ELSE q[i].chunk]

IsLine(L, p, q, s) ==
  /\ L = [i \in DOMAIN L |-> L[i]] /\ DOMAIN L \subseteq Int
  /\ \A i \in Int : i \in DOMAIN L <=> \/ 1 - Len(p) <= i /\ i <= 0
                                       \/ 1 <= i /\ i <= Len(q) /\ q[i].stream = s
  /\ \A i \in DOMAIN L : L[i] = IF i <= 0 THEN p[i + Len(p)] ELSE q[i].chunk

LEMMA LinePlaces ==
  ASSUME NEW p \in Seq(Chunk), NEW q \in Seq(StreamWriter), NEW s
  PROVE  IsLine(LineOf(p, q, s), p, q, s) /\ Len(p) \in Nat /\ Len(q) \in Nat
<1>1. /\ Len(p) \in Nat /\ DOMAIN p = 1 .. Len(p)
      /\ Len(q) \in Nat /\ DOMAIN q = 1 .. Len(q)
  OBVIOUS
<1>2. DOMAIN LineOf(p, q, s) = Places(p, q, s)
  BY DEF LineOf
<1>3. \A i \in Int : i \in Places(p, q, s) <=>
                      \/ 1 - Len(p) <= i /\ i <= 0
                      \/ 1 <= i /\ i <= Len(q) /\ q[i].stream = s
  BY <1>1 DEF Places
<1>4. \A i \in Places(p, q, s) :
        LineOf(p, q, s)[i] = IF i <= 0 THEN p[i + Len(p)] ELSE q[i].chunk
  BY DEF LineOf
<1>5. LineOf(p, q, s) = [i \in DOMAIN LineOf(p, q, s) |-> LineOf(p, q, s)[i]]
  BY DEF LineOf
<1>6. Places(p, q, s) \subseteq Int
  BY DEF Places
<1> QED
  BY <1>1, <1>2, <1>3, <1>4, <1>5, <1>6, Zenon DEF IsLine

Grown(L, M, k, ch) ==
  /\ DOMAIN M = DOMAIN L \cup {k} /\ M[k] = ch
  /\ \A i \in DOMAIN L : i < k /\ M[i] = L[i]

LEMMA LinePushed ==
  ASSUME NEW p \in Seq(Chunk), NEW q \in Seq(StreamWriter), NEW s,
         NEW m \in StreamWriter,
         NEW L, IsLine(L, p, q, s), NEW M, IsLine(M, p, Append(q, m), s)
  PROVE  /\ m.stream = s => Grown(L, M, Len(q) + 1, m.chunk)
         /\ m.stream # s => M = L
<1> DEFINE k == Len(q) + 1
           r == Append(q, m)
<1>1. /\ Len(p) \in Nat /\ Len(q) \in Nat /\ Len(r) = k /\ r[k] = m
      /\ \A i \in 1 .. Len(q) : r[i] = q[i]
  BY AppendProperties
<1>0. IsLine(M, p, r, s)
  OBVIOUS
<1> HIDE DEF r
<1>2. /\ DOMAIN M \subseteq Int /\ DOMAIN L \subseteq Int
      /\ \A i \in Int : i \in DOMAIN M <=> i \in DOMAIN L \/ (i = k /\ m.stream = s)
  BY <1>0, <1>1 DEF IsLine
<1>3. ASSUME NEW i \in DOMAIN L PROVE i \in DOMAIN M /\ i < k /\ M[i] = L[i]
  <2>1. i \in Int /\ i < k /\ i \in DOMAIN M
    BY <1>1, <1>2 DEF IsLine
  <2>2. L[i] = IF i <= 0 THEN p[i + Len(p)] ELSE q[i].chunk
    BY DEF IsLine
  <2>3. M[i] = IF i <= 0 THEN p[i + Len(p)] ELSE r[i].chunk
    BY <1>0, <2>1 DEF IsLine
  <2> QED
    BY <1>1, <2>1, <2>2, <2>3
<1>4. k \in DOMAIN M => M[k] = m.chunk
  BY <1>0, <1>1 DEF IsLine
<1>5. m.stream # s => M = L
  <2>1. m.stream # s => DOMAIN M = DOMAIN L
    BY <1>2
  <2> QED
    BY <1>0, <1>3, <2>1 DEF IsLine
<1>6. m.stream = s => DOMAIN M = DOMAIN L \cup {k} /\ k \in DOMAIN M
  <2>1. k \in Int
    BY <1>1
  <2> HIDE DEF k
  <2> QED
    BY <1>2, <2>1
<1> QED
  BY <1>3, <1>4, <1>5, <1>6 DEF Grown

\* try_recv takes the head of the channel and pushes it to its stream's queue.
LEMMA LineMoved ==
  ASSUME NEW p \in Seq(Chunk), NEW q \in Seq(StreamWriter), NEW s, q # <<>>,
         NEW r, r = IF Head(q).stream = s THEN Append(p, Head(q).chunk) ELSE p,
         NEW L, IsLine(L, p, q, s), NEW M, IsLine(M, r, Tail(q), s),
         NEW from, NEW to, NEW fa, Whole(L, from, to, fa)
  PROVE  Whole(M, from, to, fa)
<1> DEFINE t == Tail(q)
           mine == Head(q).stream = s
           was(i) == IF i <= 0 /\ ~mine THEN i ELSE i + 1
           old == [i \in DOMAIN M |-> was(i)]
<1>1. /\ Len(q) \in Nat /\ Len(q) > 0 /\ Head(q) = q[1] /\ Head(q) \in StreamWriter
      /\ Len(t) = Len(q) - 1 /\ \A i \in 1 .. Len(t) : t[i] = q[i + 1]
  BY HeadTailProperties
<1>2. Head(q).chunk \in Chunk
  BY <1>1 DEF StreamWriter
<1>3. /\ Len(p) \in Nat
      /\ mine => /\ Len(r) = Len(p) + 1 /\ r[Len(p) + 1] = q[1].chunk
                 /\ \A i \in 1 .. Len(p) : r[i] = p[i]
      /\ ~mine => r = p
  BY <1>1, <1>2, AppendProperties
<1>4. mine <=> q[1].stream = s
  BY <1>1
<1>5. IsLine(M, r, t, s)
  OBVIOUS
<1> HIDE DEF t, mine
<1>6. DOMAIN M \subseteq Int /\ DOMAIN L \subseteq Int
  BY <1>5 DEF IsLine
<1>7. \A i \in Int : i \in DOMAIN M <=> was(i) \in DOMAIN L
  <2>1. \A i \in Int : i \in DOMAIN M <=> \/ 1 - Len(r) <= i /\ i <= 0
                                          \/ 1 <= i /\ i <= Len(q) - 1 /\ q[i + 1].stream = s
    BY <1>1, <1>3, <1>5 DEF IsLine
  <2>2. \A i \in Int : i \in DOMAIN L <=> \/ 1 - Len(p) <= i /\ i <= 0
                                          \/ 1 <= i /\ i <= Len(q) /\ q[i].stream = s
    BY DEF IsLine
  <2>3. CASE mine
    BY <1>1, <1>3, <1>4, <2>1, <2>2, <2>3
  <2>4. CASE ~mine
    BY <1>1, <1>3, <1>4, <2>1, <2>2, <2>4
  <2> QED
    BY <2>3, <2>4
<1>8. ASSUME NEW i \in DOMAIN M PROVE M[i] = L[was(i)]
  <2>1. i \in Int /\ was(i) \in Int /\ was(i) \in DOMAIN L
    BY <1>6, <1>7
  <2>2. M[i] = IF i <= 0 THEN r[i + Len(r)] ELSE t[i].chunk
    BY <1>5 DEF IsLine
  <2>3. L[was(i)] = IF was(i) <= 0 THEN p[was(i) + Len(p)] ELSE q[was(i)].chunk
    BY <2>1 DEF IsLine
  <2>4. CASE i > 0
    <3>1. i \in 1 .. Len(t)
      BY <1>5, <2>1, <2>4 DEF IsLine
    <3> QED
      BY <1>1, <2>1, <2>2, <2>3, <2>4, <3>1
  <2>5. CASE i <= 0 /\ ~mine
    BY <1>3, <2>1, <2>2, <2>3, <2>5
  <2>6. CASE i = 0 /\ mine
    BY <1>3, <2>1, <2>2, <2>3, <2>6
  <2>7. CASE i < 0 /\ mine
    <3>1. i + 1 + Len(p) \in 1 .. Len(p) /\ i + Len(r) = i + 1 + Len(p)
      <4>1. 1 - Len(r) <= i
        BY <1>5, <2>1, <2>7 DEF IsLine
      <4> QED
        BY <1>3, <2>1, <2>7, <4>1
    <3> QED
      BY <1>3, <2>1, <2>2, <2>3, <2>7, <3>1
  <2> QED
    BY <2>1, <2>4, <2>5, <2>6, <2>7
<1>9. ASSUME NEW i \in DOMAIN L PROVE \E j \in DOMAIN M : old[j] = i
  <2>1. i \in Int
    BY <1>6
  <2>2. CASE i <= 0 /\ ~mine
    BY <1>7, <2>1, <2>2
  <2>3. CASE mine \/ i > 1
    <3>1. i - 1 \in Int /\ was(i - 1) = i
      BY <2>1, <2>3
    <3> QED
      BY <1>7, <3>1
  <2>4. CASE ~mine /\ i = 1
    BY <1>4, <2>4 DEF IsLine
  <2> QED
    BY <2>1, <2>2, <2>3, <2>4
<1>10. old \in [DOMAIN M -> DOMAIN L]
  BY <1>6, <1>7
<1>11. \A i, j \in DOMAIN M : i < j <=> old[i] < old[j]
  BY <1>6
<1>12. \A i \in DOMAIN M : M[i] = L[old[i]]
  BY <1>8
<1>13. DOMAIN M \subseteq Int
  BY <1>6
<1>14. \A i \in DOMAIN L : \E j \in DOMAIN M : old[j] = i
  BY <1>9
<1> HIDE DEF old
<1>15. Renumbers(M, L, old)
  BY <1>10, <1>11, <1>12, <1>13, <1>14 DEF Renumbers
<1> QED
  BY <1>15, LineMove

\* The chunk at the head of pending_writes is the head of the line.
LEMMA LineFirst ==
  ASSUME NEW p \in Seq(Chunk), p # <<>>, NEW q \in Seq(StreamWriter), NEW s,
         NEW L, IsLine(L, p, q, s)
  PROVE  /\ 1 - Len(p) \in DOMAIN L /\ L[1 - Len(p)] = p[1]
         /\ First(DOMAIN L, 1 - Len(p))
<1>1. Len(p) \in Nat /\ Len(q) \in Nat /\ Len(p) > 0
  OBVIOUS
<1>2. 1 - Len(p) \in DOMAIN L /\ 1 - Len(p) + Len(p) = 1 /\ 1 - Len(p) <= 0
  BY <1>1 DEF IsLine
<1>3. L[1 - Len(p)] = p[1]
  <2> DEFINE k == 1 - Len(p)
  <2>1. k \in DOMAIN L /\ k + Len(p) = 1 /\ k <= 0
    BY <1>2
  <2> HIDE DEF k
  <2>2. L[k] = p[1]
    BY <2>1 DEF IsLine
  <2> QED
    BY <2>2 DEF k
<1>4. ASSUME NEW l \in DOMAIN L PROVE 1 - Len(p) <= l
  BY <1>1 DEF IsLine
<1> QED
  BY <1>2, <1>3, <1>4 DEF First

\* The head of pending_writes is popped, or cut.
Dropped(L, M, k) == DOMAIN M = DOMAIN L \ {k} /\ \A i \in DOMAIN M : M[i] = L[i]

Swapped(L, M, k, ch) ==
  DOMAIN M = DOMAIN L /\ M[k] = ch /\ \A i \in DOMAIN M : i # k => M[i] = L[i]

LEMMA LinePopped ==
  ASSUME NEW p \in Seq(Chunk), p # <<>>, NEW q \in Seq(StreamWriter), NEW s,
         NEW L, IsLine(L, p, q, s), NEW M, IsLine(M, Tail(p), q, s)
  PROVE  Dropped(L, M, 1 - Len(p))
<1> DEFINE t == Tail(p)
           k == 1 - Len(p)
<1>1. /\ Len(p) \in Nat /\ Len(p) > 0 /\ Len(q) \in Nat
      /\ Len(t) = Len(p) - 1 /\ \A i \in 1 .. Len(t) : t[i] = p[i + 1]
  BY HeadTailProperties
<1>2. IsLine(M, t, q, s)
  OBVIOUS
<1> HIDE DEF t
<1>3. /\ DOMAIN M \subseteq Int /\ DOMAIN L \subseteq Int
      /\ \A i \in Int : i \in DOMAIN M <=> i \in DOMAIN L /\ i # k
  BY <1>1, <1>2 DEF IsLine
<1>4. ASSUME NEW i \in DOMAIN M PROVE M[i] = L[i]
  <2>1. i \in Int /\ i \in DOMAIN L
    BY <1>3
  <2>2. M[i] = IF i <= 0 THEN t[i + Len(t)] ELSE q[i].chunk
    BY <1>2 DEF IsLine
  <2>3. L[i] = IF i <= 0 THEN p[i + Len(p)] ELSE q[i].chunk
    BY <2>1 DEF IsLine
  <2>4. i <= 0 => 1 - Len(t) <= i
    BY <1>2, <2>1 DEF IsLine
  <2> QED
    BY <1>1, <2>1, <2>2, <2>3, <2>4
<1> HIDE DEF k
<1>5. DOMAIN M = DOMAIN L \ {k}
  BY <1>3
<1> QED
  BY <1>4, <1>5 DEF k, Dropped

LEMMA LineCut ==
  ASSUME NEW p \in Seq(Chunk), p # <<>>, NEW q \in Seq(StreamWriter), NEW s,
         NEW ch, NEW L, IsLine(L, p, q, s), NEW M, IsLine(M, [p EXCEPT ![1] = ch], q, s)
  PROVE  Swapped(L, M, 1 - Len(p), ch)
<1> DEFINE r == [p EXCEPT ![1] = ch]
<1>1. /\ Len(p) \in Nat /\ Len(p) > 0 /\ Len(q) \in Nat
      /\ Len(r) = Len(p) /\ r[1] = ch /\ \A i \in 1 .. Len(p) : i # 1 => r[i] = p[i]
  OBVIOUS
<1>2. IsLine(M, r, q, s)
  OBVIOUS
<1> HIDE DEF r
<1>3. /\ DOMAIN M \subseteq Int /\ DOMAIN L \subseteq Int
      /\ \A i \in Int : i \in DOMAIN M <=> i \in DOMAIN L
  BY <1>1, <1>2 DEF IsLine
<1>4. ASSUME NEW i \in DOMAIN M, i # 1 - Len(p) PROVE M[i] = L[i]
  <2>1. i \in Int /\ i \in DOMAIN L
    BY <1>3
  <2>2. M[i] = IF i <= 0 THEN r[i + Len(r)] ELSE q[i].chunk
    BY <1>2 DEF IsLine
  <2>3. L[i] = IF i <= 0 THEN p[i + Len(p)] ELSE q[i].chunk
    BY <2>1 DEF IsLine
  <2>4. i <= 0 => 1 - Len(r) <= i
    BY <1>2, <2>1 DEF IsLine
  <2> QED
    BY <1>1, <1>4, <2>1, <2>2, <2>3, <2>4
<1>5. 1 - Len(p) \in DOMAIN M /\ M[1 - Len(p)] = ch
  BY <1>1, <1>2 DEF IsLine
<1> QED
  BY <1>3, <1>4, <1>5 DEF Swapped

-----------------------------------------------------------------------------
(***************************************************************************)
(* The inductive invariant.  A stream's line is whole while its chunks can *)
(* still be sent: until the peer stops it, its FIN is sent or the driver   *)
(* is dropped.                                                             *)
(***************************************************************************)
UpTo(n) == [i \in 1 .. n |-> i]

Alive(s) == worker # "closed" /\ s \notin refused /\ s \notin finSent

PipeOn(s) ==
  /\ sent[s] = UpTo(Len(sent[s]))
  /\ Alive(s) =>
       Whole(LineOf(pending[s], queue, s), Len(sent[s]), written[s], finAt[s])

PipeInv == WriteTypeOK /\ \A s \in Allowed : PipeOn(s)

LEMMA Counting ==
  ASSUME NEW a \in Nat, NEW off \in Nat, NEW k \in Nat, off = a \/ k = 0
  PROVE  /\ Len(UpTo(a)) = a
         /\ UpTo(a) \o [i \in 1 .. k |-> off + i] = UpTo(a + k)
<1> DEFINE N == [i \in 1 .. k |-> off + i]
           V == UpTo(a)
           W == UpTo(a + k)
           X == V \o N
<1>1. /\ V \in Seq(Nat) /\ N \in Seq(Nat) /\ W \in Seq(Nat)
      /\ Len(V) = a /\ Len(N) = k /\ Len(W) = a + k /\ a + k \in Nat
  BY DEF UpTo
<1>2. /\ \A i \in 1 .. a : V[i] = i
      /\ \A i \in 1 .. k : N[i] = off + i
      /\ \A i \in 1 .. a + k : W[i] = i
  BY DEF UpTo
<1> HIDE DEF N, V, W
<1>3. /\ X \in Seq(Nat) /\ Len(X) = Len(V) + Len(N)
      /\ \A i \in 1 .. Len(V) + Len(N) : X[i] = IF i <= Len(V) THEN V[i] ELSE N[i - Len(V)]
  BY <1>1, ConcatProperties
<1> HIDE DEF X
<1>4. \A i \in 1 .. a + k : X[i] = IF i <= a THEN V[i] ELSE N[i - a]
  BY <1>1, <1>3
<1>5. ASSUME NEW i \in 1 .. a + k PROVE X[i] = W[i]
  <2>1. X[i] = (IF i <= a THEN V[i] ELSE N[i - a]) /\ W[i] = i
    BY <1>2, <1>4
  <2>2. CASE i <= a
    BY <1>2, <2>1, <2>2
  <2>3. CASE i > a
    <3>1. i - a \in 1 .. k /\ off = a
      BY <2>3
    <3>2. N[i - a] = off + (i - a)
      BY <1>2, <3>1
    <3> QED
      BY <2>1, <2>3, <3>1, <3>2
  <2> QED
    BY <2>2, <2>3
<1>6. X = W
  <2>1. Len(X) = Len(W) /\ \A i \in 1 .. Len(X) : X[i] = W[i]
    BY <1>1, <1>3, <1>5
  <2> QED
    BY <1>1, <1>3, <2>1, SeqEqual
<1> QED
  BY <1>1, <1>6 DEF X, N, V, W

LEMMA LineTypesAt ==
  ASSUME WriteTypeOK, NEW s \in Allowed
  PROVE  /\ s \in WriteStreams /\ s \notin Limited
         /\ pending[s] \in Seq(Chunk) /\ queue \in Seq(StreamWriter)
         /\ sent[s] \in Seq(Nat) /\ Len(sent[s]) \in Nat
         /\ written[s] \in Nat /\ finAt[s] \in Nat \cup {-1}
         /\ IsLine(LineOf(pending[s], queue, s), pending[s], queue, s)
<1>1. s \in WriteStreams /\ s \notin Limited
  BY DEF Allowed
<1>2. /\ pending[s] \in Seq(Chunk) /\ queue \in Seq(StreamWriter) /\ sent[s] \in Seq(Nat)
      /\ written[s] \in Nat /\ finAt[s] \in Nat \cup {-1}
  BY <1>1 DEF WriteTypeOK
<1> QED
  BY <1>1, <1>2, LinePlaces

LEMMA InitPipeInv == WriteInit => PipeInv
<1> SUFFICES ASSUME WriteInit, NEW s \in Allowed PROVE PipeOn(s)
  BY WriteInitType DEF PipeInv
<1>1. WriteTypeOK /\ s \in WriteStreams
  BY WriteInitType DEF Allowed
<1>2. /\ pending[s] = <<>> /\ queue = <<>> /\ sent[s] = <<>>
      /\ written[s] = 0 /\ finAt[s] = -1
  BY <1>1 DEF WriteInit
<1> DEFINE L == LineOf(pending[s], queue, s)
<1>3. IsLine(L, pending[s], queue, s)
  BY <1>1, LineTypesAt
<1> HIDE DEF L
<1>4. DOMAIN L = {}
  <2>1. IsLine(L, <<>>, <<>>, s) /\ Len(<<>>) = 0
    BY <1>2, <1>3
  <2>2. ASSUME NEW i \in DOMAIN L PROVE FALSE
    BY <2>1 DEF IsLine
  <2> QED
    BY <2>2
<1>5. Len(sent[s]) = 0 /\ sent[s] = UpTo(0)
  BY <1>2 DEF UpTo
<1>6. Whole(L, 0, 0, -1)
  BY <1>4 DEF Whole, Links
<1> QED
  BY <1>2, <1>5, <1>6 DEF PipeOn, L

\* Nothing happens to the stream's chunks, or they can no longer be sent.
LEMMA PipeFrame ==
  ASSUME NEW s, PipeOn(s), sent'[s] = sent[s],
         Alive(s)' => /\ Alive(s) /\ UNCHANGED queue /\ pending'[s] = pending[s]
                      /\ written'[s] = written[s] /\ finAt'[s] = finAt[s]
  PROVE  PipeOn(s)'
BY DEF PipeOn

\* write() or close().
LEMMA PushKeepsPipe ==
  ASSUME WriteTypeOK, WriteTypeOK', NEW s \in Allowed, PipeOn(s),
         NEW r \in WriteStreams, NEW n \in Nat, NEW fin \in BOOLEAN, TrySend(r, n, fin)
  PROVE  PipeOn(s)'
<1> DEFINE ch == [off |-> written[r], n |-> n, fin |-> fin]
           m == [stream |-> r, chunk |-> ch]
           L == LineOf(pending[s], queue, s)
           M == LineOf(pending[s], Append(queue, m), s)
           k == Len(queue) + 1
<1>1. /\ s \in WriteStreams /\ written[r] \in Nat
      /\ pending[s] \in Seq(Chunk) /\ queue \in Seq(StreamWriter)
      /\ IsLine(L, pending[s], queue, s) /\ Len(queue) \in Nat
  <2>1. written[r] \in Nat
    BY DEF WriteTypeOK
  <2> QED
    BY <2>1, LineTypesAt
<1>2. /\ m \in StreamWriter /\ m.stream = r /\ m.chunk = ch /\ ch \in Chunk
      /\ ch.off = written[r] /\ ch.n = n /\ ch.fin = fin
  BY <1>1, ChunkTypes
<1>3. queue' = Append(queue, m) /\ UNCHANGED <<pending, worker, quicheSide>>
  BY DEF TrySend
<1>4. /\ written'[s] = IF s = r THEN written[s] + n ELSE written[s]
      /\ finAt'[s] = IF s = r /\ fin /\ finAt[s] = -1 THEN written[s] + n ELSE finAt[s]
  BY <1>1 DEF TrySend, WriteTypeOK
<1> HIDE DEF m, ch
<1>5. IsLine(M, pending[s], Append(queue, m), s)
  BY <1>1, <1>2, LinePlaces, AppendProperties
<1> HIDE DEF L, M
<1>6. /\ r = s => /\ DOMAIN M = DOMAIN L \cup {k} /\ M[k] = ch
                  /\ \A i \in DOMAIN L : i < k /\ M[i] = L[i]
      /\ r # s => M = L
  <2>1. (m.stream = s => Grown(L, M, Len(queue) + 1, m.chunk)) /\ (m.stream # s => M = L)
    BY <1>1, <1>2, <1>5, LinePushed
  <2> QED
    BY <1>2, <2>1 DEF Grown
<1> SUFFICES ASSUME Alive(s)
             PROVE  Whole(M, Len(sent[s]), written'[s], finAt'[s])
  BY <1>3 DEF PipeOn, Alive, quicheSide, M
<1>7. Whole(L, Len(sent[s]), written[s], finAt[s])
  BY DEF PipeOn, L
<1>8. CASE r # s
  BY <1>4, <1>6, <1>7, <1>8
<1>9. CASE r = s
  <2>1. k \in Int
    BY <1>1
  <2> HIDE DEF k
  <2>2. M[k] = ch /\ DOMAIN M = DOMAIN L \cup {k} /\ \A i \in DOMAIN L : i < k /\ M[i] = L[i]
    BY <1>6, <1>9
  <2>3. Whole(M, Len(sent[s]), written[s] + M[k].n,
              IF M[k].fin /\ finAt[s] = -1 THEN written[s] + M[k].n ELSE finAt[s])
    BY <1>2, <1>7, <1>9, <2>1, <2>2, LinePush
  <2>4. M[k].n = n /\ (M[k].fin <=> fin)
    BY <1>2, <2>2
  <2>5. finAt'[s] = IF M[k].fin /\ finAt[s] = -1 THEN written[s] + M[k].n ELSE finAt[s]
    BY <1>4, <1>9, <2>4
  <2> QED
    BY <1>4, <1>9, <2>3, <2>4, <2>5
<1> QED
  BY <1>8, <1>9

\* The first loop of process_writes.
LEMMA DrainKeepsPipe ==
  ASSUME WriteTypeOK, WriteTypeOK', NEW s \in Allowed, PipeOn(s), DrainOne
  PROVE  PipeOn(s)'
<1> DEFINE L == LineOf(pending[s], queue, s)
           M == LineOf(pending'[s], Tail(queue), s)
<1>1. /\ s \in WriteStreams /\ pending[s] \in Seq(Chunk) /\ queue \in Seq(StreamWriter)
      /\ IsLine(L, pending[s], queue, s)
  BY LineTypesAt
<1>2. /\ queue # <<>> /\ queue' = Tail(queue)
      /\ UNCHANGED <<phpSide, worker, quicheSide>>
      /\ pending' = [pending EXCEPT ![Head(queue).stream] = Append(@, Head(queue).chunk)]
  BY DEF DrainOne
<1>3. pending'[s] = IF Head(queue).stream = s THEN Append(pending[s], Head(queue).chunk)
                                              ELSE pending[s]
  BY <1>1, <1>2 DEF WriteTypeOK
<1>4. pending'[s] \in Seq(Chunk) /\ Tail(queue) \in Seq(StreamWriter)
  BY <1>1, <1>2 DEF WriteTypeOK
<1>5. IsLine(M, pending'[s], Tail(queue), s)
  BY <1>4, LinePlaces
<1> HIDE DEF L, M
<1> SUFFICES ASSUME Alive(s)
             PROVE  Whole(M, Len(sent[s]), written[s], finAt[s])
  BY <1>2 DEF PipeOn, Alive, quicheSide, phpSide, M
<1>6. Whole(L, Len(sent[s]), written[s], finAt[s])
  BY DEF PipeOn, L
<1> QED
  BY <1>1, <1>2, <1>3, <1>5, <1>6, LineMoved

\* What quiche takes of the head of a line, and how far the stream may go.
EndOf(s) == IF finAt[s] = -1 THEN written[s] ELSE finAt[s]

Goes(s, k) ==
  \A r \in Allowed : sent'[r] = IF r = s THEN UpTo(Len(sent[s]) + k) ELSE sent[r]

LEMMA AcceptedGoes ==
  ASSUME WriteTypeOK, NEW s \in Allowed, PipeOn(s), Visiting(s),
         NEW k \in Nat, NEW fin, Accepted(s, k, fin),
         pending[s][1].off = Len(sent[s]) \/ k = 0
  PROVE  Goes(s, k)
<1>1. s \in WriteStreams /\ Len(sent[s]) \in Nat /\ sent[s] = UpTo(Len(sent[s]))
      /\ pending[s][1].off \in Nat /\ Allowed \subseteq WriteStreams
  BY LineTypesAt, HeadChunk DEF PipeOn, Allowed
<1> DEFINE a == Len(sent[s])
           off == pending[s][1].off
           N == [i \in 1 .. k |-> off + i]
<1>2. sent' = [sent EXCEPT ![s] = sent[s] \o N]
  BY DEF Accepted
<1>3. UpTo(a) \o N = UpTo(a + k)
  BY <1>1, Counting
<1> HIDE DEF N, a
<1>4. sent[s] \o N = UpTo(a + k)
  BY <1>1, <1>3 DEF a
<1>5. \A r \in WriteStreams : sent'[r] = IF r = s THEN sent[s] \o N ELSE sent[r]
  BY <1>1, <1>2 DEF WriteTypeOK
<1> QED
  BY <1>1, <1>4, <1>5 DEF Goes, a

\* The head of the line of a stream that is visited.
LEMMA HeadOfLine ==
  ASSUME WriteTypeOK, NEW s \in Allowed, PipeOn(s), Visiting(s), Alive(s)
  PROVE  /\ pending[s][1].off = Len(sent[s])
         /\ Len(sent[s]) + pending[s][1].n <= EndOf(s)
         /\ pending[s][1].fin => Len(sent[s]) + pending[s][1].n = finAt[s]
<1> DEFINE L == LineOf(pending[s], queue, s)
           k == 1 - Len(pending[s])
<1>1. s \in WriteStreams
  BY DEF Allowed
<1>2. IsLine(L, pending[s], queue, s) /\ Whole(L, Len(sent[s]), written[s], finAt[s])
      /\ queue \in Seq(StreamWriter) /\ pending[s] \in Seq(Chunk) /\ pending[s] # <<>>
  BY <1>1, LineTypesAt, HeadChunk DEF PipeOn
<1> HIDE DEF L
<1>3. k \in DOMAIN L /\ L[k] = pending[s][1] /\ First(DOMAIN L, k)
  BY <1>2, LineFirst
<1> HIDE DEF k
<1>4. /\ L[k].off = Len(sent[s])
      /\ Len(sent[s]) + L[k].n <= IF finAt[s] = -1 THEN written[s] ELSE finAt[s]
      /\ L[k].fin => Len(sent[s]) + L[k].n = finAt[s]
  BY <1>2, <1>3, LineHead
<1> QED
  BY <1>3, <1>4, Zenon DEF EndOf

\* What a stream_send of the flush does for the pipe: nothing, or a piece comes
\* out; the FIN is the end.
SendsOn(s) ==
  \/ Goes(s, 0) /\ UNCHANGED finSent
  \/ /\ s \notin finSent
     /\ \E k \in Nat : /\ Len(sent[s]) + k <= EndOf(s) /\ Goes(s, k)
                       /\ \/ UNCHANGED finSent
                          \/ Len(sent[s]) + k = finAt[s] /\ finSent' = finSent \cup {s}

LEMMA SendAllSends ==
  ASSUME WriteTypeOK, NEW s \in Allowed, PipeOn(s), SendAll(s)
  PROVE  SendsOn(s)
<1> DEFINE n == pending[s][1].n
           fin == pending[s][1].fin
<1>1. /\ Visiting(s) /\ ~Refuses(s) /\ Accepted(s, n, fin) /\ worker = "flush"
      /\ s \in WriteStreams
  BY DEF SendAll, Visiting, Allowed
<1>2. n \in Nat /\ fin \in BOOLEAN
  BY <1>1, HeadChunk
<1>3. finSent' = IF fin THEN finSent \cup {s} ELSE finSent
  BY <1>1 DEF Accepted
<1>4. CASE s \in finSent
  <2>1. n = 0
    BY <1>1, <1>4 DEF Refuses, AfterFin
  <2>2. Goes(s, 0)
    BY <1>1, <2>1, AcceptedGoes
  <2> QED
    BY <1>3, <1>4, <2>2 DEF SendsOn
<1>5. CASE s \notin finSent
  <2>1. Alive(s)
    BY <1>1, <1>5 DEF Alive, Refuses
  <2>2. /\ pending[s][1].off = Len(sent[s]) /\ Len(sent[s]) + n <= EndOf(s)
        /\ fin => Len(sent[s]) + n = finAt[s]
    BY <1>1, <2>1, HeadOfLine
  <2>3. Goes(s, n)
    BY <1>1, <1>2, <2>2, AcceptedGoes
  <2>4. UNCHANGED finSent \/ (Len(sent[s]) + n = finAt[s] /\ finSent' = finSent \cup {s})
    BY <1>2, <1>3, <2>2
  <2> HIDE DEF n
  <2> QED
    BY <1>2, <1>5, <2>2, <2>3, <2>4 DEF SendsOn
<1> QED
  BY <1>4, <1>5

LEMMA SendPartSends ==
  ASSUME WriteTypeOK, NEW s \in Allowed, PipeOn(s), SendPart(s)
  PROVE  /\ SendsOn(s) /\ Goes(s, window[s]) /\ UNCHANGED finSent
         /\ window[s] \in Nat /\ window[s] < pending[s][1].n /\ Alive(s)
<1>1. /\ Visiting(s) /\ ~Refuses(s) /\ Accepted(s, window[s], FALSE) /\ worker = "flush"
      /\ s \in WriteStreams /\ 0 < window[s] /\ window[s] < pending[s][1].n
  BY DEF SendPart, Visiting, Allowed
<1>2. /\ pending[s][1].n \in Nat /\ window[s] \in Nat /\ UNCHANGED finSent
      /\ Len(sent[s]) \in Nat /\ EndOf(s) \in Int
  <2>1. finAt[s] \in Nat \cup {-1} /\ written[s] \in Nat /\ window[s] \in Nat
    BY <1>1 DEF WriteTypeOK
  <2> QED
    BY <1>1, <2>1, HeadChunk, LineTypesAt DEF Accepted, EndOf
<1>3. s \notin finSent
  BY <1>1, <1>2 DEF Refuses, AfterFin
<1>4. Alive(s)
  BY <1>1, <1>3 DEF Alive, Refuses
<1>5. pending[s][1].off = Len(sent[s]) /\ Len(sent[s]) + pending[s][1].n <= EndOf(s)
  BY <1>1, <1>4, HeadOfLine
<1>6. Goes(s, window[s])
  BY <1>1, <1>2, <1>5, AcceptedGoes
<1>7. Len(sent[s]) + window[s] <= EndOf(s)
  BY <1>1, <1>2, <1>5
<1> QED
  BY <1>1, <1>2, <1>3, <1>4, <1>6, <1>7 DEF SendsOn

\* The second loop, on the stream itself and on the others.
LEMMA GoesOn ==
  ASSUME WriteTypeOK, NEW s \in Allowed, NEW r \in Allowed, PipeOn(s), PipeOn(r),
         NEW k \in Nat, Goes(s, k)
  PROVE  /\ sent'[r] = UpTo(Len(sent'[r]))
         /\ Len(sent'[r]) = IF r = s THEN Len(sent[s]) + k ELSE Len(sent[r])
<1>1. Len(sent[s]) \in Nat /\ Len(sent[s]) + k \in Nat
  BY LineTypesAt
<1>2. Len(UpTo(Len(sent[s]) + k)) = Len(sent[s]) + k
  BY <1>1, Counting
<1>3. sent'[r] = IF r = s THEN UpTo(Len(sent[s]) + k) ELSE sent[r]
  BY DEF Goes
<1>4. sent[r] = UpTo(Len(sent[r]))
  BY DEF PipeOn
<1> QED
  BY <1>2, <1>3, <1>4

LEMMA SendKeepsOthers ==
  ASSUME WriteTypeOK, NEW s \in WriteStreams, SendAll(s) \/ SendPart(s) \/ SendError(s),
         NEW r \in Allowed, r # s, PipeOn(r)
  PROVE  PipeOn(r)'
<1>1. r \in WriteStreams /\ Visiting(s)
  BY DEF Allowed, SendAll, SendPart, SendError
<1>2. /\ pending'[r] = pending[r] /\ UNCHANGED <<queue, worker, written, finAt, refused>>
  BY <1>1 DEF SendAll, SendPart, SendError, WriteTypeOK, phpSide, quicheSide
<1>3. sent'[r] = sent[r] /\ finSent \subseteq finSent'
  BY <1>1 DEF SendAll, SendPart, SendError, Accepted, WriteTypeOK, quicheSide
<1> QED
  BY <1>2, <1>3, PipeFrame DEF Alive

LEMMA SendAllKeeps ==
  ASSUME WriteTypeOK, WriteTypeOK', NEW s \in Allowed, PipeOn(s), SendAll(s)
  PROVE  PipeOn(s)'
<1> DEFINE p == pending[s]
           n == p[1].n
           L == LineOf(p, queue, s)
           M == LineOf(Tail(p), queue, s)
           k == 1 - Len(p)
<1>1. /\ Visiting(s) /\ ~Refuses(s) /\ Accepted(s, n, p[1].fin) /\ s \in WriteStreams
      /\ UNCHANGED <<queue, written, finAt, worker, refused>>
      /\ pending' = [pending EXCEPT ![s] = Tail(p)]
  BY DEF SendAll, Allowed, phpSide
<1>2. /\ p \in Seq(Chunk) /\ p # <<>> /\ Tail(p) \in Seq(Chunk) /\ queue \in Seq(StreamWriter)
      /\ p[1] \in Chunk /\ n \in Nat /\ p[1].fin \in BOOLEAN
  BY <1>1, HeadChunk, LineTypesAt
<1>3. pending'[s] = Tail(p)
  BY <1>1 DEF WriteTypeOK
<1>4. IsLine(L, p, queue, s) /\ IsLine(M, Tail(p), queue, s)
  BY <1>2, LinePlaces
<1>5. \E j \in Nat : Goes(s, j)
  BY <1>1, SendAllSends DEF SendsOn
<1>6. sent'[s] = UpTo(Len(sent'[s]))
  BY <1>5, GoesOn
<1> HIDE DEF L, M, n
<1>7. ASSUME Alive(s)' PROVE Whole(M, Len(sent'[s]), written[s], finAt[s])
  <2>1. Alive(s) /\ p[1].fin = FALSE
    <3>1. finSent' = IF p[1].fin THEN finSent \cup {s} ELSE finSent
      BY <1>1 DEF Accepted
    <3>2. s \notin finSent' /\ worker # "closed" /\ s \notin refused
      BY <1>1, <1>7 DEF Alive
    <3> QED
      BY <1>2, <3>1, <3>2 DEF Alive
  <2>2. Goes(s, n) /\ Len(sent'[s]) = Len(sent[s]) + n
    <3>1. p[1].off = Len(sent[s])
      BY <1>1, <2>1, HeadOfLine
    <3>2. Goes(s, n)
      BY <1>1, <1>2, <3>1, AcceptedGoes
    <3> QED
      BY <1>2, <3>2, GoesOn
  <2>3. Whole(L, Len(sent[s]), written[s], finAt[s])
    BY <2>1 DEF PipeOn, L
  <2>4. k \in DOMAIN L /\ L[k] = p[1] /\ First(DOMAIN L, k)
    BY <1>2, <1>4, LineFirst
  <2>5. Dropped(L, M, k)
    BY <1>2, <1>4, LinePopped
  <2> HIDE DEF k
  <2>6. Whole(M, Len(sent[s]) + L[k].n, written[s], finAt[s])
    BY <2>1, <2>3, <2>4, <2>5, LineTake DEF Dropped
  <2>7. L[k].n = n
    BY <2>4 DEF n
  <2> QED
    BY <2>2, <2>6, <2>7
<1> QED
  BY <1>1, <1>3, <1>6, <1>7 DEF PipeOn, M

LEMMA RemainderIs ==
  ASSUME NEW ch \in Chunk, NEW w \in Nat, w < ch.n
  PROVE  /\ Remainder(ch, w) \in Chunk /\ Remainder(ch, w).off = ch.off + w
         /\ Remainder(ch, w).n = ch.n - w /\ Remainder(ch, w).fin = ch.fin
<1>1. ch.n - w \in Nat /\ ch.off + w \in Nat
  BY DEF Chunk
<1> QED
  BY <1>1 DEF Remainder, Chunk

LEMMA SendPartKeeps ==
  ASSUME WriteTypeOK, WriteTypeOK', NEW s \in Allowed, PipeOn(s), SendPart(s)
  PROVE  PipeOn(s)'
<1> DEFINE p == pending[s]
           w == window[s]
           ch == Remainder(p[1], w)
           L == LineOf(p, queue, s)
           M == LineOf([p EXCEPT ![1] = ch], queue, s)
           k == 1 - Len(p)
<1>1. /\ Visiting(s) /\ s \in WriteStreams
      /\ UNCHANGED <<queue, written, finAt, worker, refused>>
      /\ pending' = [pending EXCEPT ![s][1] = Remainder(@, w)]
  BY DEF SendPart, Allowed, phpSide
<1>2. /\ p \in Seq(Chunk) /\ p # <<>> /\ queue \in Seq(StreamWriter)
      /\ p[1] \in Chunk /\ p[1].n \in Nat /\ p[1].off \in Nat
  BY <1>1, HeadChunk, LineTypesAt
<1>3. /\ Goes(s, w) /\ UNCHANGED finSent /\ w \in Nat /\ w < p[1].n /\ Alive(s)
  BY SendPartSends
<1>4. pending'[s] = [p EXCEPT ![1] = ch]
  BY <1>1 DEF WriteTypeOK
<1>5. /\ ch \in Chunk /\ ch.off = p[1].off + w /\ ch.n = p[1].n - w /\ ch.fin = p[1].fin
  BY <1>2, <1>3, RemainderIs
<1> HIDE DEF ch
<1>6. [p EXCEPT ![1] = ch] \in Seq(Chunk)
  BY <1>2, <1>5
<1>7. IsLine(L, p, queue, s) /\ IsLine(M, [p EXCEPT ![1] = ch], queue, s)
  BY <1>2, <1>6, LinePlaces
<1>8. sent'[s] = UpTo(Len(sent'[s])) /\ Len(sent'[s]) = Len(sent[s]) + w
  BY <1>3, GoesOn
<1> HIDE DEF L, M
<1>9. Whole(M, Len(sent[s]) + w, written[s], finAt[s])
  <2>1. Whole(L, Len(sent[s]), written[s], finAt[s])
    BY <1>3 DEF PipeOn, L
  <2>2. k \in DOMAIN L /\ L[k] = p[1] /\ First(DOMAIN L, k)
    BY <1>2, <1>7, LineFirst
  <2>3. Swapped(L, M, k, ch)
    BY <1>2, <1>7, LineCut
  <2> HIDE DEF k, w
  <2>4. /\ w <= L[k].n /\ M[k] \in Chunk /\ M[k].off = L[k].off + w
        /\ M[k].n = L[k].n - w /\ M[k].fin = L[k].fin
    BY <1>2, <1>3, <1>5, <2>2, <2>3 DEF Swapped
  <2> QED
    BY <1>3, <2>1, <2>2, <2>3, <2>4, LinePart DEF Swapped
<1> QED
  BY <1>1, <1>4, <1>8, <1>9 DEF PipeOn, M

LEMMA SendErrorKeeps ==
  ASSUME WriteTypeOK, NEW s \in Allowed, PipeOn(s), SendError(s)
  PROVE  PipeOn(s)'
<1>1. /\ s \in refused \/ s \in finSent
      /\ UNCHANGED <<sent, refused, finSent>>
  BY DEF SendError, Refuses, AfterFin, quicheSide
<1> QED
  BY <1>1, PipeFrame DEF Alive

LEMMA StepPipeInv == PipeInv /\ [WriteNext]_writeVars => PipeInv'
<1> SUFFICES ASSUME PipeInv, [WriteNext]_writeVars PROVE PipeInv'
  OBVIOUS
<1>1. WriteTypeOK /\ WriteTypeOK'
  BY WriteStepType DEF PipeInv
<1> SUFFICES ASSUME NEW s \in Allowed PROVE PipeOn(s)'
  BY <1>1 DEF PipeInv
<1>2. PipeOn(s) /\ s \in WriteStreams /\ s \notin Limited
  BY DEF PipeInv, Allowed
<1>3. ASSUME UNCHANGED <<queue, pending, sent, written, finAt, finSent>>,
             worker' # "closed" => worker # "closed",
             s \in refused => s \in refused'
      PROVE  PipeOn(s)'
  BY <1>2, <1>3, PipeFrame DEF Alive
<1>4. CASE PhpStep
  <2>1. CASE NotifyOne
    BY <1>3, <2>1 DEF NotifyOne, quicheSide
  <2>2. ASSUME NEW r \in WriteStreams, Write(r) PROVE PipeOn(s)'
    <3>1. PICK n \in Sizes, fin \in BOOLEAN : TrySend(r, n, fin)
      BY <2>2 DEF Write
    <3> QED
      BY <1>1, <1>2, <3>1, WritePathAssumption, PushKeepsPipe
  <2>3. ASSUME NEW r \in WriteStreams, CloseStream(r) PROVE PipeOn(s)'
    BY <1>1, <1>2, <2>3, PushKeepsPipe DEF CloseStream
  <2> QED
    BY <1>4, <2>1, <2>2, <2>3 DEF PhpStep
<1>5. CASE WaitForData
  BY <1>3, <1>5 DEF WaitForData, BeginWrites, phpSide
<1>6. ASSUME NEW r \in WriteStreams, PacketStep(r) PROVE PipeOn(s)'
  <2>1. /\ UNCHANGED <<queue, pending, sent, written, finAt, finSent>> /\ worker # "closed"
        /\ s \in refused => s \in refused'
    BY <1>2, <1>6 DEF PacketStep, WindowGrows, LimitRises, StopSending, BeginWrites, phpSide
  <2> QED
    BY <1>3, <2>1
<1>7. CASE DrainOne
  BY <1>1, <1>2, <1>7, DrainKeepsPipe
<1>8. CASE DrainEnds \/ FlushEnds
  BY <1>3, <1>8 DEF DrainEnds, FlushEnds, phpSide, quicheSide
<1>9. ASSUME NEW r \in WriteStreams, VisitStream(r) \/ StreamFlushed(r) \/ SendBlocked(r)
      PROVE  PipeOn(s)'
  BY <1>3, <1>9 DEF VisitStream, StreamFlushed, SendBlocked, phpSide, quicheSide
<1>10. ASSUME NEW r \in WriteStreams, SendAll(r) \/ SendPart(r) \/ SendError(r)
       PROVE  PipeOn(s)'
  <2>1. CASE r = s
    BY <1>1, <1>2, <1>10, <2>1, SendAllKeeps, SendPartKeeps, SendErrorKeeps
  <2>2. CASE r # s
    BY <1>1, <1>2, <1>10, <2>2, SendKeepsOthers
  <2> QED
    BY <2>1, <2>2
<1>11. CASE DriverDropped
  BY <1>2, <1>11, PipeFrame DEF DriverDropped, Alive, quicheSide
<1>12. CASE UNCHANGED writeVars
  BY <1>3, <1>12 DEF writeVars, phpSide, quicheSide
<1> QED
  BY <1>4, <1>5, <1>6, <1>7, <1>8, <1>9, <1>10, <1>11, <1>12 DEF WriteNext, WorkerStep

\* quiche accepts the units of a stream in order, each once and without a gap,
\* if no stream is beyond the peer's stream limit when PHP writes to it: then
\* driver.rs drops a chunk only behind a STOP_SENDING or the stream's own FIN.
THEOREM NoGapWithinLimit ==
  ASSUME Limited = {}
  PROVE  WriteSpec => []NoGap
<1>1. PipeInv => NoGap
  BY DEF PipeInv, PipeOn, NoGap, Allowed, UpTo
<1>2. PipeInv /\ [WriteNext]_writeVars => PipeInv'
  BY StepPipeInv
<1> QED
  BY <1>1, <1>2, InitPipeInv, PTL DEF WriteSpec

-----------------------------------------------------------------------------
(***************************************************************************)
(* The refinement.                                                         *)
(***************************************************************************)
Upd(F, x, v) == [F EXCEPT ![x] = v]

LEMMA OfSame ==
  ASSUME NEW f, NEW g, \A r \in Allowed : g[r] = f[r]
  PROVE  OfAllowed(g) = OfAllowed(f)
BY DEF OfAllowed

LEMMA OfAt ==
  ASSUME NEW f, NEW s \in Allowed
  PROVE  OfAllowed(f)[s] = f[s]
BY DEF OfAllowed

\* The value of the mapping in the next state is the mapping of the next value.
LEMMA OfNext ==
  /\ OfAllowed(written)' = OfAllowed(written') /\ OfAllowed(finAt)' = OfAllowed(finAt')
  /\ OfAllowed(sent)' = OfAllowed(sent')
BY DEF OfAllowed

\* Steps that the pipes do not see.
LEMMA PipeStutter ==
  ASSUME \A r \in Allowed : /\ written'[r] = written[r] /\ finAt'[r] = finAt[r]
                            /\ sent'[r] = sent[r] /\ (r \in finSent' <=> r \in finSent)
  PROVE  UNCHANGED Pipe!pipeVars
<1>1. /\ OfAllowed(written') = OfAllowed(written) /\ OfAllowed(finAt') = OfAllowed(finAt)
      /\ OfAllowed(sent') = OfAllowed(sent)
  BY OfSame
<1>2. (finSent \cap Allowed)' = finSent \cap Allowed
  OBVIOUS
<1> QED
  BY <1>1, <1>2, OfNext DEF Pipe!pipeVars

\* write() and close() on an allowed stream put units, and at most one FIN.
LEMMA PutImplements ==
  ASSUME WriteTypeOK, NEW s \in WriteStreams, NEW n \in Nat, NEW fin \in BOOLEAN,
         TrySend(s, n, fin)
  PROVE  IF s \in Allowed THEN Pipe!Put(s) ELSE UNCHANGED Pipe!pipeVars
<1>1. /\ UNCHANGED <<sent, finSent>>
      /\ written[s] \in Nat /\ written[s] + n >= written[s]
      /\ \A r \in WriteStreams :
           /\ written'[r] = IF r = s THEN written[s] + n ELSE written[r]
           /\ finAt'[r] = IF r = s /\ fin /\ finAt[s] = -1 THEN written[s] + n ELSE finAt[r]
  BY DEF TrySend, WriteTypeOK, quicheSide
<1>2. Allowed \subseteq WriteStreams
  BY DEF Allowed
<1>3. CASE s \notin Allowed
  BY <1>1, <1>2, <1>3, PipeStutter
<1>4. CASE s \in Allowed
  <2> DEFINE v == written[s] + n
  <2>v. v = written[s] + n
    OBVIOUS
  <2> HIDE DEF v
  <2>a. \A r \in Allowed : written'[r] = IF r = s THEN v ELSE written[r]
    BY <1>1, <1>2, <2>v
  <2>b. OfAllowed(written') = Upd(OfAllowed(written), s, v) /\ OfAllowed(written')[s] = v
    BY <1>4, <2>a DEF OfAllowed, Upd
  <2>1. /\ OfAllowed(written') = Upd(OfAllowed(written), s, v)
        /\ OfAllowed(written')[s] = v /\ OfAllowed(written)[s] = written[s]
    BY <1>4, <2>b, OfAt
  <2>2. CASE fin /\ finAt[s] = -1
    <3>a. \A r \in Allowed : finAt'[r] = IF r = s THEN v ELSE finAt[r]
      BY <1>1, <1>2, <2>2, <2>v
    <3>b. OfAllowed(finAt') = Upd(OfAllowed(finAt), s, v)
      BY <1>4, <3>a DEF OfAllowed, Upd
    <3>c. OfAllowed(finAt)[s] = finAt[s]
      BY <1>4, OfAt
    <3>1. OfAllowed(finAt') = Upd(OfAllowed(finAt), s, v) /\ OfAllowed(finAt)[s] = -1
      BY <2>2, <3>b, <3>c
    <3>2. UNCHANGED <<OfAllowed(sent), finSent \cap Allowed>>
      BY <1>1, OfNext
    <3>3. v >= written[s]
      BY <1>1, <2>v
    <3> QED
      BY <1>4, <2>1, <3>1, <3>2, <3>3, OfNext DEF Pipe!Put, Upd
  <2>3. CASE ~(fin /\ finAt[s] = -1)
    <3>1. OfAllowed(finAt') = OfAllowed(finAt)
      BY <1>1, <1>2, <2>3, OfSame
    <3>2. UNCHANGED <<OfAllowed(sent), finSent \cap Allowed>>
      BY <1>1, OfNext
    <3>3. v >= written[s]
      BY <1>1, <2>v
    <3> QED
      BY <1>4, <2>1, <3>1, <3>2, <3>3, OfNext DEF Pipe!Put, Upd
  <2> QED
    BY <2>2, <2>3
<1> QED
  BY <1>3, <1>4

\* stream_send of an allowed stream takes from its pipe, or nothing.
LEMMA TakeImplements ==
  ASSUME WriteTypeOK, NEW s \in Allowed, PipeOn(s), SendsOn(s), UNCHANGED <<written, finAt>>
  PROVE  Pipe!Take(s) \/ UNCHANGED Pipe!pipeVars
<1>1. s \in WriteStreams /\ Len(sent[s]) \in Nat /\ sent[s] = UpTo(Len(sent[s]))
  BY LineTypesAt DEF PipeOn
<1>2. CASE Goes(s, 0) /\ UNCHANGED finSent
  <2>1. \A r \in Allowed : sent'[r] = sent[r]
    BY <1>1, <1>2 DEF Goes
  <2> QED
    BY <1>2, <2>1, PipeStutter
<1>3. ASSUME s \notin finSent, NEW k \in Nat, Len(sent[s]) + k <= EndOf(s), Goes(s, k),
             UNCHANGED finSent \/ (Len(sent[s]) + k = finAt[s] /\ finSent' = finSent \cup {s})
      PROVE  Pipe!Take(s)
  <2> DEFINE n == Len(sent[s]) + k
  <2> DEFINE u == UpTo(n)
  <2>a. \A r \in Allowed : sent'[r] = IF r = s THEN u ELSE sent[r]
    BY <1>1, <1>3 DEF Goes
  <2>u. u = UpTo(n)
    OBVIOUS
  <2> HIDE DEF u
  <2>b. OfAllowed(sent') = Upd(OfAllowed(sent), s, u)
    BY <2>a DEF OfAllowed, Upd
  <2>c. /\ OfAllowed(sent)[s] = sent[s]
        /\ OfAllowed(written)[s] = written[s] /\ OfAllowed(finAt)[s] = finAt[s]
    BY OfAt
  <2>1. /\ OfAllowed(sent') = Upd(OfAllowed(sent), s, UpTo(n)) /\ OfAllowed(sent)[s] = sent[s]
        /\ OfAllowed(written)[s] = written[s] /\ OfAllowed(finAt)[s] = finAt[s]
    BY <2>b, <2>c, <2>u
  <2>2. Pipe!End(s) = EndOf(s)
    BY <2>1 DEF Pipe!End, EndOf
  <2>3. EndOf(s) \in Int
    BY LineTypesAt DEF EndOf
  <2>4. n \in Len(OfAllowed(sent)[s]) .. Pipe!End(s)
    BY <1>1, <1>3, <2>1, <2>2, <2>3
  <2>5. UNCHANGED <<OfAllowed(written), OfAllowed(finAt)>>
    BY OfNext
  <2>6. \/ UNCHANGED (finSent \cap Allowed)
        \/ /\ n = OfAllowed(finAt)[s]
           /\ (finSent \cap Allowed)' = (finSent \cap Allowed) \cup {s}
    BY <1>3, <2>1
  <2>7. s \notin finSent \cap Allowed
    BY <1>3
  <2>8. OfAllowed(sent)' = Upd(OfAllowed(sent), s, UpTo(n))
    BY <2>1, OfNext
  <2> HIDE DEF n
  <2> QED
    BY <2>4, <2>5, <2>6, <2>7, <2>8 DEF Pipe!Take, Upd, UpTo
<1> QED
  BY <1>2, <1>3 DEF SendsOn

LEMMA StepPipe ==
  PipeInv /\ [WriteNext]_writeVars => [Pipe!PipeNext]_(Pipe!pipeVars)
<1> SUFFICES ASSUME PipeInv, [WriteNext]_writeVars
             PROVE  UNCHANGED Pipe!pipeVars \/ \E s \in Allowed : Pipe!Put(s) \/ Pipe!Take(s)
  BY DEF Pipe!PipeNext
<1>1. WriteTypeOK /\ Allowed \subseteq WriteStreams /\ \A s \in Allowed : PipeOn(s)
  BY DEF PipeInv, Allowed
<1>2. ASSUME UNCHANGED <<written, finAt, sent, finSent>> PROVE UNCHANGED Pipe!pipeVars
  BY <1>2, PipeStutter
<1>3. CASE PhpStep
  <2>1. CASE NotifyOne
    BY <1>2, <2>1 DEF NotifyOne, quicheSide
  <2>2. ASSUME NEW r \in WriteStreams, Write(r) \/ CloseStream(r)
        PROVE  IF r \in Allowed THEN Pipe!Put(r) ELSE UNCHANGED Pipe!pipeVars
    <3>1. PICK n \in Nat, fin \in BOOLEAN : TrySend(r, n, fin)
      BY <2>2, WritePathAssumption DEF Write, CloseStream
    <3> QED
      BY <1>1, <3>1, PutImplements
  <2> QED
    BY <1>3, <2>1, <2>2 DEF PhpStep
<1>4. CASE WaitForData \/ DrainOne \/ DrainEnds \/ FlushEnds \/ DriverDropped
  BY <1>2, <1>4 DEF WaitForData, BeginWrites, DrainOne, DrainEnds, FlushEnds, DriverDropped,
                    phpSide, quicheSide
<1>5. ASSUME NEW r \in WriteStreams,
             PacketStep(r) \/ VisitStream(r) \/ StreamFlushed(r) \/ SendBlocked(r) \/ SendError(r)
      PROVE  UNCHANGED Pipe!pipeVars
  BY <1>2, <1>5 DEF PacketStep, WindowGrows, LimitRises, StopSending, BeginWrites, VisitStream,
                    StreamFlushed, SendBlocked, SendError, phpSide, quicheSide
<1>6. ASSUME NEW r \in WriteStreams, SendAll(r) \/ SendPart(r)
      PROVE  UNCHANGED Pipe!pipeVars \/ (r \in Allowed /\ Pipe!Take(r))
  <2>1. UNCHANGED <<written, finAt>>
    BY <1>6 DEF SendAll, SendPart, phpSide
  <2>2. CASE r \in Allowed
    BY <1>1, <1>6, <2>1, <2>2, SendAllSends, SendPartSends, TakeImplements
  <2>3. CASE r \notin Allowed
    <3>a. PICK k, fin : Accepted(r, k, fin)
      BY <1>6 DEF SendAll, SendPart
    <3>b. finSent' = finSent \cup {r} \/ finSent' = finSent
      BY <3>a DEF Accepted
    <3>c. PICK q : sent' = [sent EXCEPT ![r] = q]
      BY <3>a DEF Accepted
    <3>d. sent \in [WriteStreams -> Seq(Nat)]
      BY <1>1 DEF WriteTypeOK
    <3>1. \A s \in Allowed : sent'[s] = sent[s] /\ (s \in finSent' <=> s \in finSent)
      BY <1>1, <2>3, <3>b, <3>c, <3>d
    <3> QED
      BY <2>1, <3>1, PipeStutter
  <2> QED
    BY <2>2, <2>3
<1>7. CASE UNCHANGED writeVars
  BY <1>2, <1>7 DEF writeVars, phpSide, quicheSide
<1> QED
  BY <1>1, <1>3, <1>4, <1>5, <1>6, <1>7 DEF WriteNext, WorkerStep

\* The write path implements a pipe per allowed stream: the units PHP wrote are
\* accepted by quiche in order, each once, and nothing behind the first FIN,
\* however the PHP thread, the worker and the peer's windows, stream limits and
\* STOP_SENDINGs interleave, and whatever streams beyond the limit lose.
THEOREM WritesArePipes == WriteSpec => ImplementsPipe
<1>1. WriteInit => Pipe!PipeInit
  BY DEF WriteInit, Pipe!PipeInit, OfAllowed, Allowed
<1>2. PipeInv /\ [WriteNext]_writeVars => PipeInv'
  BY StepPipeInv
<1> QED
  BY <1>1, <1>2, InitPipeInv, StepPipe, PTL DEF WriteSpec, ImplementsPipe, Pipe!PipeSpec
=============================================================================
