---------------------------- MODULE ConfigProofs ----------------------------
(***************************************************************************)
(* The conversions of Config, for any radix, any largest number and any    *)
(* text: what Hex writes FromStrRadix reads back, and nothing it reads is  *)
(* out of range.  Both recurse over digits.                                *)
(*                                                                         *)
(* Induction is by a least counterexample: WFMin speaks of the members of  *)
(* a set, where the induction theorems of the library take an operator.    *)
(***************************************************************************)
EXTENDS Config, SequenceTheorems, WellFoundedInduction, TLAPS

LEMMA Smallest ==
  ASSUME NEW T, T \subseteq Nat, T # {}
  PROVE  \E x \in T : \A y \in T : x <= y
<1> DEFINE R == OpToRel(<, Nat)
<1>1. IsWellFoundedOn(R, Nat)
  BY NatLessThanWellFounded
<1>2. \A x, y \in Nat : x < y => <<x, y>> \in R
  BY DEF OpToRel
<1> HIDE DEF R
<1>3. PICK x \in T : \A y \in T : <<y, x>> \notin R
  BY <1>1, WFMin
<1>4. \A y \in T : ~(y < x)
  BY <1>2, <1>3
<1>5. \A y \in T : x <= y
  BY <1>4
<1> QED
  BY <1>5

LEMMA Induction ==
  ASSUME NEW S, 0 \in S, \A n \in Nat : n \in S => n + 1 \in S
  PROVE  Nat \subseteq S
<1> SUFFICES ASSUME Nat \ S # {} PROVE FALSE
  OBVIOUS
<1>1. PICK x \in Nat \ S : \A y \in Nat \ S : x <= y
  BY Smallest
<1>2. x - 1 \in Nat /\ x - 1 \notin Nat \ S
  BY <1>1
<1> QED
  BY <1>1, <1>2

LEMMA Division ==
  ASSUME NEW k \in Nat \ {0}, NEW m \in Nat
  PROVE  /\ m \div k \in Nat /\ m % k \in 0 .. k - 1
         /\ m = (m \div k) * k + (m % k)
<1>1. m = k * (m \div k) + (m % k) /\ m % k \in 0 .. k - 1 /\ m \div k \in Int
  OBVIOUS
<1>2. m \div k \in Nat
  BY <1>1
<1> QED
  BY <1>1, <1>2

-----------------------------------------------------------------------------
(***************************************************************************)
(* Reading a text, from left to right.                                     *)
(***************************************************************************)
\* What one character does to the number read so far.
ReadDigit(v, d) ==
  IF v = None \/ d = Radix \/ v * Radix + d > TokenMax THEN None ELSE v * Radix + d

\* The equation of the fold over the places in D.
IsFold(f, text, D) ==
  f = [s \in SUBSET D |->
        IF s = {} THEN 0 ELSE ReadDigit(f[s \ {Max(s)}], text[Max(s)])]

\* r[k] is the number that the first k characters of text make.
Reads(r, text, n) ==
  r[0] = 0 /\ \A k \in 0 .. n - 1 : r[k + 1] = ReadDigit(r[k], text[k + 1])

LEMMA LastPlace ==
  ASSUME NEW k \in Nat, NEW s \in SUBSET (1 .. k + 1), k + 1 \in s
  PROVE  Max(s) = k + 1
<1>1. k + 1 \in s /\ \A y \in s : k + 1 >= y
  OBVIOUS
<1>2. \A x \in s : (\A y \in s : x >= y) => x = k + 1
  BY <1>1
<1> QED
  BY <1>1, <1>2 DEF Max

LEMMA FoldExists ==
  ASSUME NEW text, NEW n \in Nat
  PROVE  \E f : IsFold(f, text, 1 .. n)
<1> DEFINE S == {k \in Nat : \E f : IsFold(f, text, 1 .. k)}
<1>1. 0 \in S
  <2> DEFINE f == [s \in SUBSET (1 .. 0) |-> 0]
  <2>1. SUBSET (1 .. 0) = {{}}
    OBVIOUS
  <2>2. IsFold(f, text, 1 .. 0)
    BY <2>1 DEF IsFold
  <2> QED
    BY <2>2
<1>2. ASSUME NEW k \in Nat, NEW f, IsFold(f, text, 1 .. k)
      PROVE  \E h : IsFold(h, text, 1 .. k + 1)
  <2> DEFINE h == [s \in SUBSET (1 .. k + 1) |->
                    IF k + 1 \in s THEN ReadDigit(f[s \ {k + 1}], text[k + 1]) ELSE f[s]]
  <2>1. ASSUME NEW s \in SUBSET (1 .. k + 1)
        PROVE  h[s] = IF s = {} THEN 0 ELSE ReadDigit(h[s \ {Max(s)}], text[Max(s)])
    <3>1. CASE k + 1 \in s
      <4>1. Max(s) = k + 1
        BY <3>1, LastPlace
      <4>2. h[s \ {k + 1}] = f[s \ {k + 1}]
        OBVIOUS
      <4>3. h[s] = ReadDigit(f[s \ {k + 1}], text[k + 1])
        BY <3>1
      <4> HIDE DEF h
      <4> QED
        BY <3>1, <4>1, <4>2, <4>3
    <3>2. CASE k + 1 \notin s
      <4>a. \A x \in s : x \in 1 .. k
        BY <3>2
      <4>1. s \in SUBSET (1 .. k) /\ s \ {Max(s)} \in SUBSET (1 .. k)
        BY <4>a, Zenon
      <4>2. f[s] = IF s = {} THEN 0 ELSE ReadDigit(f[s \ {Max(s)}], text[Max(s)])
        BY <1>2, <4>1 DEF IsFold
      <4>3. h[s] = f[s] /\ h[s \ {Max(s)}] = f[s \ {Max(s)}]
        BY <3>2, <4>1
      <4> HIDE DEF h
      <4> QED
        BY <4>2, <4>3
    <3> QED
      BY <3>1, <3>2
  <2>2. h = [s \in SUBSET (1 .. k + 1) |-> h[s]]
    OBVIOUS
  <2> HIDE DEF h
  <2>3. IsFold(h, text, 1 .. k + 1)
    BY <2>1, <2>2, Zenon DEF IsFold
  <2> QED
    BY <2>3
<1>3. \A k \in Nat : k \in S => k + 1 \in S
  BY <1>2
<1> HIDE DEF S
<1>4. n \in S
  BY <1>1, <1>3, Induction
<1> QED
  BY <1>4 DEF S

\* The fold over a text runs through it.
LEMMA FoldReads ==
  ASSUME NEW text, NEW n \in Nat \ {0}, DOMAIN text = 1 .. n
  PROVE  \E r : Reads(r, text, n) /\ FromStrRadix(text) = r[n]
<1> DEFINE f == CHOOSE f : IsFold(f, text, 1 .. n)
<1>1. IsFold(f, text, 1 .. n)
  BY FoldExists
<1>2. FromStrRadix(text) = f[1 .. n]
  <2>1. text # <<>>
    OBVIOUS
  <2> QED
    BY <2>1 DEF FromStrRadix, FoldLeft, MapThenFoldSet, IsFold, ReadDigit
<1> HIDE DEF f
<1> DEFINE r == [k \in 0 .. n |-> f[1 .. k]]
<1>3. r[0] = 0
  <2>1. 1 .. 0 = {} /\ {} \in SUBSET (1 .. n)
    OBVIOUS
  <2> QED
    BY <1>1, <2>1 DEF IsFold
<1>4. ASSUME NEW k \in 0 .. n - 1 PROVE r[k + 1] = ReadDigit(r[k], text[k + 1])
  <2> DEFINE s == 1 .. k + 1
  <2>1. s \in SUBSET (1 .. n) /\ s # {} /\ s \ {k + 1} = 1 .. k
    OBVIOUS
  <2>2. Max(s) = k + 1
    <3>1. k \in Nat /\ k + 1 \in s
      OBVIOUS
    <3> QED
      BY <3>1, LastPlace
  <2>3. r[k + 1] = f[s] /\ r[k] = f[1 .. k]
    OBVIOUS
  <2> HIDE DEF r, s
  <2>4. f[s] = ReadDigit(f[s \ {Max(s)}], text[Max(s)])
    BY <1>1, <2>1 DEF IsFold
  <2> QED
    BY <2>1, <2>2, <2>3, <2>4
<1>5. Reads(r, text, n) /\ r[n] = f[1 .. n]
  BY <1>3, <1>4 DEF Reads
<1> QED
  BY <1>2, <1>5

\* Texts that agree on their first n characters make the same number of them.
LEMMA ReadsAlike ==
  ASSUME NEW q, NEW r, NEW text, NEW other, NEW n \in Nat,
         Reads(q, text, n), Reads(r, other, n),
         \A k \in 1 .. n : text[k] = other[k]
  PROVE  q[n] = r[n]
<1> DEFINE S == {k \in Nat : k <= n => q[k] = r[k]}
<1>1. 0 \in S
  BY DEF Reads
<1>2. ASSUME NEW k \in Nat, k \in S PROVE k + 1 \in S
  <2> SUFFICES ASSUME k + 1 <= n PROVE q[k + 1] = r[k + 1]
    OBVIOUS
  <2>1. k \in 0 .. n - 1 /\ k + 1 \in 1 .. n /\ q[k] = r[k]
    BY <1>2
  <2>2. q[k + 1] = ReadDigit(q[k], text[k + 1]) /\ r[k + 1] = ReadDigit(r[k], other[k + 1])
    BY <2>1 DEF Reads
  <2> QED
    BY <2>1, <2>2
<1> HIDE DEF S
<1>3. n \in S
  BY <1>1, <1>2, Induction
<1> QED
  BY <1>3 DEF S

\* One character more.
LEMMA ReadAppend ==
  ASSUME NEW text \in Seq(0 .. Radix), text # <<>>, NEW d \in 0 .. Radix
  PROVE  FromStrRadix(Append(text, d)) = ReadDigit(FromStrRadix(text), d)
<1> DEFINE n == Len(text)
           longer == Append(text, d)
<1>1. /\ n \in Nat \ {0} /\ n + 1 \in Nat \ {0}
      /\ DOMAIN text = 1 .. n /\ DOMAIN longer = 1 .. n + 1
      /\ longer[n + 1] = d /\ \A k \in 1 .. n : text[k] = longer[k]
  OBVIOUS
<1> HIDE DEF n, longer
<1>2. PICK q : Reads(q, text, n) /\ FromStrRadix(text) = q[n]
  BY <1>1, FoldReads
<1>3. PICK r : Reads(r, longer, n + 1) /\ FromStrRadix(longer) = r[n + 1]
  BY <1>1, FoldReads
<1>4. Reads(r, longer, n) /\ r[n + 1] = ReadDigit(r[n], longer[n + 1])
  <2>1. n \in 0 .. n + 1 - 1 /\ 0 .. n - 1 \subseteq 0 .. n + 1 - 1
    BY <1>1
  <2> QED
    BY <1>3, <2>1 DEF Reads
<1>5. q[n] = r[n]
  BY <1>1, <1>2, <1>4, ReadsAlike
<1> QED
  BY <1>1, <1>2, <1>3, <1>4, <1>5 DEF longer

LEMMA ReadOne ==
  ASSUME NEW d \in 0 .. Radix
  PROVE  FromStrRadix(<<d>>) = ReadDigit(0, d)
<1>1. DOMAIN <<d>> = 1 .. 1 /\ 1 \in Nat \ {0} /\ <<d>>[1] = d
  OBVIOUS
<1>2. PICK r : Reads(r, <<d>>, 1) /\ FromStrRadix(<<d>>) = r[1]
  BY <1>1, FoldReads
<1>3. 0 \in 0 .. 1 - 1 /\ 0 + 1 = 1
  OBVIOUS
<1> QED
  BY <1>1, <1>2, <1>3 DEF Reads

\* Whatever text is read, the result is a number of the range or None.
LEMMA ReadInRange ==
  ASSUME NEW text \in Seq(0 .. Radix)
  PROVE  FromStrRadix(text) \in 0 .. TokenMax \cup {None}
<1> DEFINE n == Len(text)
           Numbers == 0 .. TokenMax \cup {None}
<1>1. ASSUME NEW v \in Numbers, NEW d \in 0 .. Radix PROVE ReadDigit(v, d) \in Numbers
  <2>1. CASE v = None
    BY <2>1 DEF ReadDigit
  <2>2. CASE v \in 0 .. TokenMax
    <3>1. v \in Nat /\ Radix \in Nat /\ d \in Nat /\ TokenMax \in Nat
      BY <2>2, ConfigAssumption
    <3>2. v * Radix \in Nat
      BY <3>1
    <3>3. v * Radix + d \in Nat
      BY <3>1, <3>2
    <3> DEFINE w == v * Radix + d
    <3>4. ReadDigit(v, d) = IF v = None \/ d = Radix \/ w > TokenMax THEN None ELSE w
      BY DEF ReadDigit
    <3> HIDE DEF w
    <3>5. w \in Nat
      BY <3>3 DEF w
    <3> QED
      BY <3>1, <3>4, <3>5
  <2> QED
    BY <2>1, <2>2
<1>2. CASE text = <<>>
  BY <1>2 DEF FromStrRadix
<1>3. CASE text # <<>>
  <2> DEFINE Characters == 0 .. Radix
  <2>a. text \in Seq(Characters)
    OBVIOUS
  <2> HIDE DEF Characters
  <2>b. n \in Nat /\ DOMAIN text = 1 .. n /\ \A k \in 1 .. n : text[k] \in Characters
    BY <2>a
  <2>c. n # 0
    BY <1>3, <2>a
  <2>1. n \in Nat \ {0} /\ DOMAIN text = 1 .. n /\ \A k \in 1 .. n : text[k] \in 0 .. Radix
    BY <2>b, <2>c DEF Characters
  <2> HIDE DEF n
  <2>2. PICK r : Reads(r, text, n) /\ FromStrRadix(text) = r[n]
    BY <2>1, FoldReads
  <2> HIDE DEF Numbers
  <2> DEFINE S == {k \in Nat : k <= n => r[k] \in Numbers}
  <2>3. 0 \in S
    <3>1. 0 \in Numbers
      BY ConfigAssumption DEF Numbers
    <3> QED
      BY <2>2, <3>1 DEF Reads
  <2>4. ASSUME NEW k \in Nat, k \in S PROVE k + 1 \in S
    <3> SUFFICES ASSUME k + 1 <= n PROVE r[k + 1] \in Numbers
      OBVIOUS
    <3>1. k \in 0 .. n - 1 /\ k + 1 \in 1 .. n /\ r[k] \in Numbers
      BY <2>1, <2>4
    <3>2. r[k + 1] = ReadDigit(r[k], text[k + 1])
      BY <2>2, <3>1 DEF Reads
    <3> QED
      BY <1>1, <2>1, <3>1, <3>2
  <2> HIDE DEF S
  <2>5. n \in S
    BY <2>1, <2>3, <2>4, Induction
  <2> QED
    BY <2>1, <2>2, <2>5 DEF S, Numbers
<1> QED
  BY <1>2, <1>3

-----------------------------------------------------------------------------
(***************************************************************************)
(* Writing a number, and reading it back.                                  *)
(***************************************************************************)
\* The equation of the digits of the numbers up to v.
IsHex(f, v) ==
  f = [n \in 0 .. v |-> IF n < Radix THEN <<n>> ELSE Append(f[n \div Radix], n % Radix)]

\* A number of several digits is more than the number without the last one.
LEMMA FewerDigits ==
  ASSUME NEW n \in Nat, ~(n < Radix)
  PROVE  /\ n \div Radix \in 0 .. n - 1 /\ n % Radix \in 0 .. Radix - 1
         /\ n = (n \div Radix) * Radix + (n % Radix)
<1> DEFINE q == n \div Radix
           d == n % Radix
<1>1. Radix \in Nat \ {0} /\ Radix >= 2
  BY ConfigAssumption
<1>2. q \in Nat /\ d \in 0 .. Radix - 1 /\ n = q * Radix + d
  BY <1>1, Division
<1> HIDE DEF q, d
<1>3. q * Radix >= q * 2
  BY <1>1, <1>2
<1>4. q < n
  BY <1>1, <1>2, <1>3
<1> QED
  BY <1>2, <1>4 DEF q, d

LEMMA HexExists ==
  ASSUME NEW v \in Nat
  PROVE  \E f : IsHex(f, v)
<1> DEFINE S == {k \in Nat : \E f : IsHex(f, k)}
<1>1. 0 \in S
  <2> DEFINE f == [n \in 0 .. 0 |-> <<n>>]
  <2>1. \A n \in 0 .. 0 : n < Radix
    BY ConfigAssumption
  <2>2. IsHex(f, 0)
    BY <2>1 DEF IsHex
  <2> QED
    BY <2>2
<1>2. ASSUME NEW k \in Nat, NEW f, IsHex(f, k)
      PROVE  \E h : IsHex(h, k + 1)
  <2> DEFINE Of(g, n) == IF n < Radix THEN <<n>> ELSE Append(g[n \div Radix], n % Radix)
             h == [n \in 0 .. k + 1 |-> Of(f, n)]
  <2>1. ASSUME NEW n \in 0 .. k + 1 PROVE h[n] = Of(h, n)
    <3>1. CASE n < Radix
      BY <3>1
    <3>2. CASE ~(n < Radix)
      <4>1. n \div Radix \in 0 .. k /\ n \div Radix \in 0 .. k + 1
        BY <3>2, FewerDigits
      <4> DEFINE m == n \div Radix
      <4> HIDE DEF m
      <4>2. m \in 0 .. k /\ m \in 0 .. k + 1
        BY <4>1 DEF m
      <4>3. f[m] = Of(f, m)
        BY <1>2, <4>2 DEF IsHex
      <4>4. h[m] = Of(f, m) /\ h[n] = Of(f, n)
        BY <4>2
      <4> HIDE DEF h
      <4>5. h[n \div Radix] = f[n \div Radix]
        BY <4>3, <4>4 DEF m
      <4> QED
        BY <4>4, <4>5
    <3> QED
      BY <3>1, <3>2
  <2>2. h = [n \in 0 .. k + 1 |-> h[n]]
    OBVIOUS
  <2> HIDE DEF h
  <2>3. IsHex(h, k + 1)
    BY <2>1, <2>2, Zenon DEF IsHex
  <2> QED
    BY <2>3
<1>3. \A k \in Nat : k \in S => k + 1 \in S
  BY <1>2
<1> HIDE DEF S
<1>4. v \in S
  BY <1>1, <1>3, Induction
<1> QED
  BY <1>4 DEF S

\* format!("{:x}") and u128::from_str_radix: a token survives the way through
\* its text, at 0 and at the largest number too.
LEMMA FromHex ==
  ASSUME NEW v \in 0 .. TokenMax
  PROVE  FromStrRadix(Hex(v)) = v
<1> DEFINE f == CHOOSE f : IsHex(f, v)
<1>0. v \in Nat /\ Radix \in Nat /\ Radix >= 2 /\ TokenMax \in Nat
  BY ConfigAssumption
<1>1. IsHex(f, v)
  BY <1>0, HexExists
<1>2. Hex(v) = f[v]
  BY DEF Hex, IsHex
<1> HIDE DEF f
<1> DEFINE Good(n) == /\ f[n] \in Seq(0 .. Radix) /\ f[n] # <<>>
                      /\ FromStrRadix(f[n]) = n
           Bad == {n \in 0 .. v : ~Good(n)}
<1>3. ASSUME NEW n \in 0 .. v, \A m \in 0 .. n - 1 : Good(m)
      PROVE  Good(n)
  <2>1. f[n] = IF n < Radix THEN <<n>> ELSE Append(f[n \div Radix], n % Radix)
    BY <1>1 DEF IsHex
  <2>2. n \in Nat /\ n <= TokenMax /\ n # None
    BY <1>0 DEF None
  <2>3. CASE n < Radix
    <3>1. n \in 0 .. Radix /\ n # Radix /\ f[n] = <<n>>
      BY <1>0, <2>1, <2>2, <2>3
    <3>2. ReadDigit(0, n) = n
      <4>1. 0 * Radix + n = n /\ 0 # None
        BY <1>0, <2>2 DEF None
      <4> QED
        BY <1>0, <2>2, <3>1, <4>1 DEF ReadDigit
    <3> QED
      BY <3>1, <3>2, ReadOne
  <2>4. CASE ~(n < Radix)
    <3> DEFINE q == n \div Radix
               d == n % Radix
    <3>1. /\ q \in 0 .. n - 1 /\ d \in 0 .. Radix - 1 /\ n = q * Radix + d
          /\ f[n] = Append(f[q], d)
      BY <2>1, <2>2, <2>4, FewerDigits
    <3> HIDE DEF q, d
    <3>2. /\ f[q] \in Seq(0 .. Radix) /\ f[q] # <<>> /\ FromStrRadix(f[q]) = q
      BY <1>3, <3>1
    <3>3. q # None /\ d # Radix /\ d \in 0 .. Radix /\ ~(n > TokenMax)
      BY <1>0, <2>2, <3>1 DEF None
    <3>4. ReadDigit(q, d) = n
      BY <3>1, <3>3 DEF ReadDigit
    <3>5. FromStrRadix(f[n]) = n
      BY <3>1, <3>2, <3>3, <3>4, ReadAppend
    <3>6. f[n] \in Seq(0 .. Radix) /\ f[n] # <<>>
      BY <3>1, <3>2, <3>3
    <3> QED
      BY <3>5, <3>6
  <2> QED
    BY <2>3, <2>4
<1> HIDE DEF Good
<1>4. Bad = {}
  <2> SUFFICES ASSUME Bad # {} PROVE FALSE
    OBVIOUS
  <2>1. Bad \subseteq Nat
    BY <1>0
  <2>2. PICK n \in Bad : \A m \in Bad : n <= m
    BY <2>1, Smallest
  <2>3. \A m \in 0 .. n - 1 : Good(m)
    BY <2>1, <2>2
  <2> QED
    BY <1>3, <2>2, <2>3
<1>5. Good(v)
  BY <1>0, <1>4
<1> QED
  BY <1>2, <1>5 DEF Good

-----------------------------------------------------------------------------
(***************************************************************************)
(* Timeouts.                                                               *)
(***************************************************************************)
LEMMA MillisIsDuration ==
  ASSUME NEW ms \in Nat
  PROVE  FromMillis(ms) \in Duration
BY Division, ConfigAssumption DEF FromMillis, Duration

\* Duration::from_millis undoes as_millis.
LEMMA FromAsMillis ==
  ASSUME NEW d \in Duration
  PROVE  FromMillis(AsMillis(d)) = d
<1> DEFINE k == MsPerSec
           s == d.secs
           r == d.ms
           m == s * k + r
           q == m \div k
           p == m % k
<1>1. k \in Nat /\ k > 0 /\ s \in Nat /\ r \in 0 .. k - 1 /\ d = [secs |-> s, ms |-> r]
  BY ConfigAssumption DEF Duration
<1>2. s * k \in Nat
  BY <1>1
<1>3. m \in Nat
  BY <1>1, <1>2
<1>4. FromMillis(AsMillis(d)) = [secs |-> q, ms |-> p]
  BY DEF FromMillis, AsMillis
<1>5. m = s * k + r
  OBVIOUS
<1> HIDE DEF m
<1>6. q \in Nat /\ p \in 0 .. k - 1 /\ m = q * k + p
  BY <1>1, <1>3, Division
<1> HIDE DEF k, s, r, q, p
<1>7. q = s
  <2>1. ASSUME NEW x \in Nat, NEW y \in Nat, x < y PROVE y * k >= x * k + k
    <3>1. y * k = x * k + (y - x) * k /\ y - x >= 1
      BY <1>1, <2>1
    <3>2. (y - x) * k >= k
      BY <1>1, <2>1, <3>1
    <3> QED
      BY <1>1, <2>1, <3>1, <3>2
  <2>2. q * k \in Nat /\ q * k + p = s * k + r
    BY <1>1, <1>5, <1>6
  <2>3. ~(q < s)
    BY <1>1, <1>2, <1>6, <2>1, <2>2
  <2>4. ~(s < q)
    BY <1>1, <1>2, <1>6, <2>1, <2>2
  <2> QED
    BY <1>1, <1>6, <2>3, <2>4
<1>8. p = r
  BY <1>1, <1>2, <1>5, <1>6, <1>7
<1> QED
  BY <1>1, <1>4, <1>7, <1>8

-----------------------------------------------------------------------------
(***************************************************************************)
(* The object.                                                             *)
(***************************************************************************)
LEMMA ConfigInitType == ConfigInit => ConfigTypeOK
BY DEF ConfigInit, ConfigTypeOK

LEMMA ConfigStepType ==
  ASSUME ConfigTypeOK, ConfigStep
  PROVE  ConfigTypeOK'
<1> DEFINE Durations == Duration \cup {NoDuration}
           Tokens == 0 .. TokenMax \cup {None}
<1>1. inner \in [plain: PlainValues, timeout: Durations, token: Tokens]
  BY DEF ConfigTypeOK
<1>2. NoDuration \in Durations /\ None \in Tokens
  OBVIOUS
<1>3. \A ms \in Millis : FromMillis(ms) \in Durations
  BY MillisIsDuration, ConfigAssumption
<1>4. \A text \in Texts : FromStrRadix(text) \in Tokens
  BY ReadInRange, ConfigAssumption
<1> HIDE DEF Durations, Tokens
<1>5. ASSUME NEW ms \in Millis, inner' = SetTimeout(inner, {ms})
      PROVE  inner' = [inner EXCEPT !.timeout = FromMillis(ms)]
  BY <1>5 DEF SetTimeout
<1>6. ASSUME inner' = SetTimeout(inner, {})
      PROVE  inner' = [inner EXCEPT !.timeout = NoDuration]
  BY <1>6 DEF SetTimeout
<1>7. ASSUME NEW text \in Texts, inner' = SetToken(inner, {text})
      PROVE  inner' = inner \/ inner' = [inner EXCEPT !.token = FromStrRadix(text)]
  <2>1. (CHOOSE x \in {text} : TRUE) = text
    OBVIOUS
  <2> QED
    BY <1>7, <2>1 DEF SetToken
<1>8. ASSUME inner' = SetToken(inner, {})
      PROVE  inner' = [inner EXCEPT !.token = None]
  BY <1>8 DEF SetToken
<1>9. inner' \in [plain: PlainValues, timeout: Durations, token: Tokens]
  BY <1>1, <1>2, <1>3, <1>4, <1>5, <1>6, <1>7, <1>8 DEF ConfigStep, SetPlain
<1> QED
  BY <1>9 DEF ConfigTypeOK, Durations, Tokens

\* What the getters of one Config give makes another the same.
LEMMA TypedCopiesOver == ConfigTypeOK => CopiesOver
<1> SUFFICES ASSUME ConfigTypeOK,
                    NEW new \in [plain: PlainValues, timeout: {NoDuration}, token: {None}]
             PROVE  SetToken(SetTimeout(SetPlain(new, GetPlain(inner)), GetTimeout(inner)),
                             GetToken(inner)) = inner
  BY DEF CopiesOver
<1> DEFINE c1 == SetPlain(new, GetPlain(inner))
           c2 == SetTimeout(c1, GetTimeout(inner))
<1>1. /\ inner = [plain |-> inner.plain, timeout |-> inner.timeout, token |-> inner.token]
      /\ inner.timeout \in Duration \cup {NoDuration}
      /\ inner.token \in 0 .. TokenMax \cup {None}
  BY DEF ConfigTypeOK
<1>2. c1 = [plain |-> inner.plain, timeout |-> NoDuration, token |-> None]
  BY DEF SetPlain, GetPlain
<1> HIDE DEF c1
<1>3. c2 = [plain |-> inner.plain, timeout |-> inner.timeout, token |-> None]
  <2>1. CASE inner.timeout = NoDuration
    BY <1>2, <2>1 DEF SetTimeout, GetTimeout
  <2>2. CASE inner.timeout # NoDuration
    <3>1. GetTimeout(inner) = {AsMillis(inner.timeout)}
      BY <2>2 DEF GetTimeout
    <3>2. FromMillis(AsMillis(inner.timeout)) = inner.timeout
      BY <1>1, <2>2, FromAsMillis
    <3>3. c2 = [c1 EXCEPT !.timeout = FromMillis(AsMillis(inner.timeout))]
      BY <3>1 DEF SetTimeout
    <3> QED
      BY <1>2, <3>2, <3>3
  <2> QED
    BY <2>1, <2>2
<1> HIDE DEF c2
<1>4. SetToken(c2, GetToken(inner)) = inner
  <2>1. CASE inner.token = None
    BY <1>1, <1>3, <2>1 DEF SetToken, GetToken
  <2>2. CASE inner.token # None
    <3>1. GetToken(inner) = {Hex(inner.token)}
      BY <2>2 DEF GetToken
    <3>2. FromStrRadix(Hex(inner.token)) = inner.token
      BY <1>1, <2>2, FromHex
    <3>3. (CHOOSE x \in GetToken(inner) : TRUE) = Hex(inner.token) /\ GetToken(inner) # {}
      BY <3>1
    <3>4. SetToken(c2, GetToken(inner)) = [c2 EXCEPT !.token = inner.token]
      BY <2>2, <3>2, <3>3 DEF SetToken
    <3> QED
      BY <1>1, <1>3, <3>4
  <2> QED
    BY <2>1, <2>2
<1> QED
  BY <1>4 DEF c1, c2
=============================================================================
